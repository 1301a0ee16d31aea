SPECIFICATION FairSpec
CONSTANTS
  Conns = {c1}
  Nothing = nothing
  Wreck = wreck
  MaxReq = 3
  MaxNow = 4
  MaxSteps = 3
INVARIANTS TypeOK NotAhead
PROPERTIES SnapshotSpec PatientServed ThreadsEnd
CHECK_DEADLOCK FALSE
