SPECIFICATION RunSpec
CONSTANTS
  r1 = r1
  r2 = r2
  r3 = r3
  Runs <- OneRun
  Dimensions = {"tokens", "calls"}
  Calls = "calls"
  Spend = "tokens"
  Versions <- OneVersion
  Limit <- OneLimit
  Request <- OneRequest
  MaxRetries = 2
  External = FALSE
  ProtocolBound = FALSE
  PauseFinished = FALSE
  UsageReports <- Silent
  MaxPolicyChanges = 2
  MaxSubmissions = 2
  MaxCrashes = 1
INVARIANTS TypeOK CallsWithinReservation AdmissionRowsReturned AcceptedOnceUnlessReopened
PROPERTIES NoCallAfterFence AcceptedOnlyWhenClear ExternalOnlyWhenClear DispatchEnds
CHECK_DEADLOCK FALSE
