SPECIFICATION Spec
CONSTANTS
  Phases = {"implement", "recompute", "review"}
  NodeStatus <- TwoStatuses
  MaxPhases = 4
  RefreshFails = TRUE
  CommitFails = TRUE
INVARIANTS SavedOrNamed EndIsWhole
PROPERTY RowSettles
CHECK_DEADLOCK FALSE
