SPECIFICATION Spec
CONSTANTS
  a = a
  b = b
  r = r
  Calls = {a, b, r}
  Rerank = {r}
  Rated = {a, b}
  Worst <- WorstCases
  Costs <- ReplyCosts
  UnusableCosts = {0}
  SpendCeiling = 4
  CallCeiling = 2
  NoCeiling = NoCeiling
  TransientAttempts = 2
  RateLimitAttempts = 2
  Asking = {"first", "second"}
  MaxRetries = 2
INVARIANTS FailureIsOwned CommittedBounded LedgerExact LedgerCoversBilled
PROPERTIES DispatchedCallsEnd ImplementsLedger
