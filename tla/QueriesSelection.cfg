SPECIFICATION Spec
CONSTANTS
  Labels = {"P", "O"}
  Types = {"A", "B"}
  Endpoints <- IntegerEndpoints
  Records <- SharedKeys
  Arithmetic = {"P", "O"}
  MaxBranches = 64
  NoLabel = NoLabel
  Plans <- ExpandPlans
  Databases <- IntegerDatabases
  MaxFailures = 0
  NoPlan = NoPlan
INVARIANT
  FailsLoudly
CHECK_DEADLOCK FALSE
