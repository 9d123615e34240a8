SPECIFICATION PortabilitySpec

CONSTANTS
  interview = interview
  summary = summary
  share = share
  Versions <- TwoVersions
  Sources <- Lineage
  Uses = {share}
  Grants <- TwoGrants
  Scope <- SameTerms
  Packets = {p1, p2}
  Live = live
  Deletions = {d1}

INVARIANT
  WithdrawnStaysWithdrawn
