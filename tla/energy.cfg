SPECIFICATION FairSpec
CONSTANTS
  Outdoors <- MC_Outdoors
  Period = 2
  failure_duration = 2
  Jump = 1
  MaxReal = 8
  Clients = {c1}
  Undefined = undefined
  MaxReq = 3
  MaxLink = 2
INVARIANTS TypeOK OnTime OneBehind OnlyTooEarlyIsForgotten
PROPERTIES FailureLasts ServedWithData
CHECK_DEADLOCK FALSE
