SPECIFICATION Spec
CONSTANTS
  NoStage = NoStage
  Stages <- MCStages
  Kind <- MCKind
  Succ <- MCSucc
  Root <- MCRoot
  CanFail <- MCFail
  MaxRecords = 2
  MaxStored = 2
INVARIANT
  TimeFromRecords
