SPECIFICATION Spec
CONSTANTS
  Labels = {"P", "O"}
  Types = {"A", "B"}
  Endpoints <- MCEndpoints
  Records <- DistinctKeys
  Arithmetic = {"P"}
  MaxBranches = 7
  NoLabel = NoLabel
  Plans <- LabelledPlans
  Databases <- MCDatabases
  MaxFailures = 1
  NoPlan = NoPlan
INVARIANT
  FailsLoudly
CHECK_DEADLOCK FALSE
