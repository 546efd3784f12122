SPECIFICATION FailureSpec
CONSTANTS
  k1 = k1
  Absent = Absent
  Keys <- MCKeys
  Flows <- MCFlows
  Windows = {"global"}
  ActiveTimeout = 1
  PassiveTimeout = 1
  StartTime = 2
  MaxFlows = 1
  MaxTimeLast = 4
PROPERTIES
  DestructorEnds
CHECK_DEADLOCK FALSE
