SPECIFICATION FairSpec
CONSTANTS
  k1 = k1
  k2 = k2
  Absent = Absent
  Keys <- MCKeys
  Flows <- MCFlows
  Windows = {"active", "passive", "active_passive", "global"}
  ActiveTimeout = 1
  PassiveTimeout = 1
  StartTime = 2
  MaxFlows = 3
  MaxTimeLast = 5
INVARIANTS
  TypeOK
  ActiveSplitJustified
  ActiveWindowRespected
  AggregatesSummarise
  EachFlowInOneAggregate
  StorageAccessExclusive
  NoRaceOnTimeLast
PROPERTIES
  ImplementsFlowAggregation
  ShutdownCompletes
  EveryFlowReported
