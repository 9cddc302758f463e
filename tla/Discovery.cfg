SPECIFICATION Spec
CONSTANTS
  Tables <- MCTables
  Rank <- MCRank
  Skipped = {"_S"}
  Ids <- MCIds
  Prefix <- MCPrefix
  Databases <- MCDatabases
  MaxFailures = 1
INVARIANTS
  TypeOK
  WarningsAreRight
  EndsAreTrue
  VerdictIsTrue
CHECK_DEADLOCK FALSE
