SPECIFICATION Spec
CONSTANTS
  MaxIterations = 2
  RecoveryAttempts = 1
  ReworkAttempts = 1
  Graphs <- AllWorkflows
  Outcomes <- PhaseOutcomes
  Agreed <- BuildAgrees
  Undone <- UndoneOutputs
  Armed = TRUE
  Requires <- AllRequirements
  Careless = {"features"}
  Term = {"alpha", "beta"}
  Value = {96, 100, 204, 346, 350, 996, 1000, 2037}
  Figure = {97, 100, 103, 106}
  Callee = {"plan", "review"}
  Tier = {"architecture", "judge"}
  Seconds = {1, 3}
  Budget = 6
  Reserve = 1
INVARIANTS WatchdogDecides FreeChecksAreFair ApprovedIsEndorsed CompletedIsCleared
PROPERTIES FollowsRoute ImplementsDelivery RunEnds
