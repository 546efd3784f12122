SPECIFICATION FullSpec
CONSTANTS
  Nodes <- MCNodes
  Programs <- MCAllPrograms
  Fields <- MCFields
  Malformed <- MCMalformed
  DEFAULT_TIMEOUT = 10
  MaxTimeout = 2147483647
  UR_FIELDS <- MC_UR_FIELDS
  MAX_KEY_FIELDS = 32
  MaxOutputs = 3
  Nesting = 10
  None = None
  Garbled = Garbled
INVARIANTS
  TypeOK
  NotesOfPath
  VectorsInUse
  BuiltAsWritten
  AcceptedIffWellFormed
  CheckedPlaceByPlace
  BuiltPlaceByPlace
  OutputsAsWritten
  RefusedIffNamesClash
  EveryInterfaceServed
CHECK_DEADLOCK FALSE
