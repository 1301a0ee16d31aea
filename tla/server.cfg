SPECIFICATION FairSpec
CONSTANTS
  exchanger = exchanger
  ks = ks
  Conns <- MC_Two
  Deaf <- MC_Ks
  Main = main_thread
  Free = free
  Nothing = nothing
  Wreck = wreck
  MaxReq <- MC_MaxReq
  OutCap = 2
  MaxVersion = 1
INVARIANT TypeOK
PROPERTIES SnapshotSpec StopTerminates PatientServed
CHECK_DEADLOCK FALSE
