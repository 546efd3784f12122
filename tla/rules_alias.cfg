SPECIFICATION Spec
CONSTANTS
  Nodes <- MCNodes
  Programs <- AliasPrograms
  Fields <- MCFields
  Malformed <- MCMalformed
  DEFAULT_TIMEOUT = 10
  MaxTimeout = 2147483647
  Nesting = 10
  None = None
  Garbled = Garbled
INVARIANT
  BuiltAsWritten
CHECK_DEADLOCK FALSE
