SPECIFICATION GateSpec
CONSTANTS
  interview = interview
  summary = summary
  share = share
  publish = publish
  adults = adults
  minors = minors
  op = op
  Versions <- TwoVersions
  Sources <- Lineage
  Uses = {share, publish}
  Grants <- ThreeGrants
  Scope <- GrantScope
  Populations = {adults, minors}
  Operations = {op}
  Snapshots <- OnSummary
  CallerStatuses = {"cancelled"}
  Options <- OptionKinds
CONSTRAINT Relevant
INVARIANT CancelledNeverAccepted
CHECK_DEADLOCK FALSE
