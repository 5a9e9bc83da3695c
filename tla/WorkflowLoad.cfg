SPECIFICATION LoadSpec
CONSTANTS
  MaxIterations = 2
  RecoveryAttempts = 1
  ReworkAttempts = 1
  Graphs <- RoutedWorkflows
  Outcomes <- PhaseOutcomes
  Requires <- RoutedRequirements
  Careless = {"features"}
  Describes <- SmallGraph
INVARIANTS LoadedIsSchedulable RoutesAreSound
CHECK_DEADLOCK FALSE
