SPECIFICATION UnitSpec
CONSTANTS
  UnitArms = {"A", "B", "C", "D", "D-pages", "E", "F"}
  CallLimit = 3
  CheckAttempts = 2
  ToolLimit = 3
  ToolsPerReply = 2
  Servings <- MCServings
  BaseOf <- MCBaseOf
  Allowance = 1
  Entries <- MCEntries
  Tiers = {"engineering", "search"}
  TierCap <- MCTierCap
  ArmFCalls <- MCArmFCalls
  MaxTokens <- MCMaxTokens
  BytesPerToken = 1
  QuestionBytes = 1
  ToolResultBytes = 3
  PageBytes = 1
  Ceiling <- MCCeiling
  RunCeiling <- MCRunCeiling
  DefaultBatch = {"default calibration"}
  LineEntries <- MCLineEntries
  LineLength = 2
  ToolSpecBytes = 1
  LongestToken = 2
  MaxLost = 1
INVARIANT GuardBinds
CHECK_DEADLOCK FALSE
