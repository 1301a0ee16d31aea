SPECIFICATION Spec
CONSTANTS
  W = 32
  Era = 8
  Num = 3
  Den = 4
  Accel = 2
  Origin = 2
  LocalTime = 9
  Garbage = {0, 31}
  Capacity = 2
  MaxNow = 5
  MaxOwed = 2
INVARIANTS TypeOK NoTimeInvented LagIsOwed
PROPERTY NoTimeLost
