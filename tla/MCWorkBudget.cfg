SPECIFICATION BudgetSpec
CONSTANTS
  r1 = r1
  r2 = r2
  r3 = r3
  Runs <- ThreeRuns
  Dimensions = {"tokens", "calls"}
  Calls = "calls"
  Spend = "tokens"
  Versions <- TwoVersions
  Limit <- TwoLimits
  Request <- ThreeRequests
  MaxRetries = 0
  External = FALSE
  ProtocolBound = FALSE
  PauseFinished = FALSE
  UsageReports <- Reports
  MaxPolicyChanges = 0
  MaxSubmissions = 0
  MaxCrashes = 0
SYMMETRY Twins
INVARIANT GroupWithinLimit
PROPERTIES LedgerDiscipline
CHECK_DEADLOCK FALSE
