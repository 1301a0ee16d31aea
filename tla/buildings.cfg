SPECIFICATION FairSpec
CONSTANTS
  regulator = regulator
  deaf = deaf
  Clients <- MC_Clients
  Patient <- MC_Patient
  Nothing = nothing
  Wreck = wreck
  MaxReq = 3
  Capacity = 2
INVARIANTS TypeOK
PROPERTIES SnapshotSpec PatientServed ThreadsEnd
CHECK_DEADLOCK FALSE
