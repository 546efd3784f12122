SPECIFICATION FullSpec
CONSTANTS
  Nodes <- MCNodes
  Programs <- InputPrograms
  Fields <- MCFields
  Malformed <- MCMalformed
  DEFAULT_TIMEOUT = 10
  MaxTimeout = 2147483647
  UR_FIELDS <- MC_UR_FIELDS
  MAX_KEY_FIELDS = 32
  MaxOutputs = 3
  Nesting = 10
  None = None
  Garbled = Garbled
INVARIANT
  FieldsPresent
CHECK_DEADLOCK FALSE
