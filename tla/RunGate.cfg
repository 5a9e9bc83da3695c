SPECIFICATION Spec
CONSTANTS
  Submissions = {"a", "b", "c", "d", "e"}
  Kind <- Routes
  Caller <- Callers
  Key <- Keys
  MaxConcurrentRuns = 2
  Unclosable <- NotSync
INVARIANT AdmissionHolds
PROPERTY EverySlotFreed
CHECK_DEADLOCK FALSE
