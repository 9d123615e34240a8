SPECIFICATION Spec
CONSTANTS
  main = main
  alt = alt
  p1 = p1
  p2 = p2
  plan = plan
  report = report
  c1 = c1
  c2 = c2
  c3 = c3
  c4 = c4
  c5 = c5
  c6 = c6
  c7 = c7
  Nothing = Nothing
  BranchNames = {main, alt}
  Main = main
  Objects = {"plan", "protocol", "report"}
  Works = {p1, p2, plan, report}
  ObjectOf <- MCObjectOf
  RestsOn <- MCRestsOn
  CommandIds = {c1, c2, c3, c4, c5, c6, c7}
  MaxRevision = 3
  Offers <- MCOffers
  Findings = {"finding"}
  MaxPackets = 3
  MaxDecisions = 2
  Protocols = {p1, p2}
  Contexts = {"a", "b"}
  ReviewedWith <- MCReviewedWith
  Sources = {plan}
  Identified = {plan}
  MaxVersion = 2
  Identities = {"x"}
  Modes = {"ask", "approve", "full-access"}
  Argvs = {"fit", "plot"}
  Contents = {"one", "two"}
INVARIANTS
  TypeOK
  ReplacedSourceIsNoted
  ApprovedIsReviewed
  ProtocolsHold
  EvidenceHolds
  LiteratureHolds
  WritingHolds
  AnalysesHold
PROPERTIES
  CommandsTakeEffectOnce
  RecordedForGood
CHECK_DEADLOCK FALSE
