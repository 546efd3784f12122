SPECIFICATION Spec
CONSTANTS
  Type <- MCType
  Leaves <- TimeLeaves
  Records <- MCRecords
  Garbage <- MCGarbage
  CellBits = 2
  OctetBits = 1
  MaxNodes = 4
  IntBits = 3
INVARIANT
  MatchesMeaning
CHECK_DEADLOCK FALSE
