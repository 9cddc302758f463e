SPECIFICATION Spec
CONSTANTS
  Labels = {"P", "O"}
  Types = {"A", "B"}
  Endpoints <- MCEndpoints
  Records <- DistinctKeys
  Arithmetic = {"P"}
  MaxBranches = 7
  NoLabel = NoLabel
  Plans <- MCPlans
  Databases <- MCDatabases
  MaxFailures = 1
  NoPlan = NoPlan
INVARIANTS
  TypeOK
  NothingInvented
  NothingMissed
  NoLooseEnds
  RefusalsAreTold
  EmptyTablesAreTrue
  PagesCover
CHECK_DEADLOCK FALSE
