SPECIFICATION Spec
CONSTANTS
  Names <- MCNames
  Keys <- MCKeys
  RowKeys <- MCRowKeys
  IntegerKeyed <- MCIntegerKeyed
  Samples <- MCSamples
  Mappings <- MCMappings
  SafeInt <- MCSafeInt
  CallerSaves = TRUE
  LateLabels = {"Owns"}
  LateOverFile = FALSE
  MaxHeld = 1
INVARIANTS
  TypeOK
  DecodesToItsRow
  ComputedIdsSurvive
  SavedIdsSurvive
PROPERTY
  IdNeverChanges
