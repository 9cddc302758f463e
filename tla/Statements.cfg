SPECIFICATION Spec
CONSTANTS
  Columns <- MCColumns
  Label = "P"
  NoLabel = "?"
  InlineMax = 2
  Depth = 4
  Filters <- MCFilters
  Queries <- MCQueries
  Rows <- MCRows
  MaxParams = 12
INVARIANTS
  TypeOK
  ParsedAsWritten
  KeepsWhatCypherKeeps
  HintsAreSound
  BoundInOrder
CHECK_DEADLOCK FALSE
