SPECIFICATION GateSpec
CONSTANTS
  interview = interview
  summary = summary
  share = share
  publish = publish
  adults = adults
  minors = minors
  op = op
  Versions <- TwoVersions
  Sources <- Lineage
  Uses = {share, publish}
  Grants <- ThreeGrants
  Scope <- GrantScope
  Populations = {adults, minors}
  Operations = {op}
  Snapshots <- SnapshotKinds
  CallerStatuses = {"blocked", "cancelled", "completed", "quarantined"}
  Options <- OptionKinds
CONSTRAINT Relevant
INVARIANTS GateTypeOK DerivedNeverMoreOpen DisclosureWithinGate
PROPERTIES RevokedForGood FenceIsFinal AcceptedUnderAuthorization
CHECK_DEADLOCK FALSE
