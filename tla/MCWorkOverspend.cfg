SPECIFICATION Spec
CONSTANTS
  r1 = r1
  r2 = r2
  r3 = r3
  Runs <- TwoRuns
  Dimensions = {"tokens", "calls"}
  Calls = "calls"
  Spend = "tokens"
  Versions <- OneVersion
  Limit <- LimitOfThree
  Request <- TwoRequests
  MaxRetries = 1
  External = TRUE
  ProtocolBound = FALSE
  PauseFinished = FALSE
  UsageReports <- Silent
  MaxPolicyChanges = 2
  MaxSubmissions = 0
  MaxCrashes = 0
INVARIANTS ContractCallLimit
CHECK_DEADLOCK FALSE
