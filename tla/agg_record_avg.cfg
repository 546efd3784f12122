SPECIFICATION Spec
CONSTANTS
  Type <- MCType
  Width <- MCWidth
  Rules <- MCRules
  Records <- MCRecords
  MAX_KEY_FIELDS = 3
  MaxRecords = 3
INVARIANT
  AverageBetweenExtremes
CHECK_DEADLOCK FALSE
