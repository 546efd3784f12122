SPECIFICATION Spec
CONSTANTS
  Type <- MCType
  Leaves <- MCLeaves
  Records <- MCRecords
  Garbage <- MCGarbage
  CellBits = 2
  OctetBits = 1
  MaxNodes = 4
  IntBits = 3
INVARIANT
  NegationNotLost
CHECK_DEADLOCK FALSE
