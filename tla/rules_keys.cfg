SPECIFICATION Spec
CONSTANTS
  Nodes <- MCNodes
  Programs <- KeyPrograms
  Fields <- MCFields
  Malformed <- MCMalformed
  DEFAULT_TIMEOUT = 10
  MaxTimeout = 2147483647
  Nesting = 10
  None = None
  Garbled = Garbled
INVARIANT
  GrouperChecked
CHECK_DEADLOCK FALSE
