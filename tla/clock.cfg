SPECIFICATION Spec
CONSTANTS
  None = None
  Timeout = 2
  RecordTimes = {0, 3}
  StartTime = 1
  MaxNow = 9
INVARIANTS
  TypeOK
  NeverReportsTheFuture
  IdleForTimeout
CHECK_DEADLOCK FALSE
