SPECIFICATION Spec
CONSTANTS
  Names <- MCNames
  Keys <- MCKeys
  RowKeys <- MCRowKeys
  IntegerKeyed <- MCIntegerKeyed
  Samples <- NoSamples
  Mappings <- MCMappings
  SafeInt <- MCSafeInt
  CallerSaves = FALSE
  LateLabels = {}
  LateOverFile = FALSE
  MaxHeld = 1
INVARIANT
  PrefixedIdsSurvive
