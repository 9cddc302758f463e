SPECIFICATION Spec
CONSTANTS
  Columns <- MCColumns
  Label = "P"
  NoLabel = "?"
  InlineMax = 2
  Depth = 4
  Filters <- BoundFilters
  Queries <- BoundQueries
  Rows <- MCRows
  MaxParams = 12
INVARIANTS
  BoundAsMeant
CHECK_DEADLOCK FALSE
