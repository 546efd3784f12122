SPECIFICATION Spec
CONSTANTS
  Nodes <- MCNodes
  Programs <- BranchPrograms
  Fields <- MCFields
  Malformed <- MCMalformed
  DEFAULT_TIMEOUT = 10
  MaxTimeout = 2147483647
  Nesting = 10
  None = None
  Garbled = Garbled
INVARIANT
  BranchNamesChecked
CHECK_DEADLOCK FALSE
