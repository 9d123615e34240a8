------------------------------ MODULE Evidence ------------------------------
(***************************************************************************)
(* Evidence, the claims it is linked to, citations, notices about a source, *)
(* appraisals and syntheses (src/evidence).                                 *)
(*                                                                         *)
(* Nothing of the process runs between the statements of an operation, so   *)
(* it is one step that a crash may cut short between two of them.  A row is *)
(* named by its command id, which its table holds unique: the same command  *)
(* again returns the row or throws, and is left out where it changes        *)
(* nothing.  So are capabilities, wording and where in a source an excerpt  *)
(* stands.                                                                  *)
(***************************************************************************)
EXTENDS Branches

CONSTANTS
  Sources,    \* versions that are sources
  Identified  \* sources with a DOI, a title and a year

ASSUME SourceAssumption == Sources \subseteq Works /\ Identified \subseteq Sources

VARIABLES
  access,       \* what the source's rows say of its text, and whether the file is kept
  evidence,     \* evidence_items by the command of their operation
  evidenceOps,  \* evidence_operations
  claims,       \* claims: current_support
  links,        \* claim_evidence_links
  citations,    \* citation_verifications
  reassessed,   \* claim_reassessments
  appraisals,
  syntheses,
  interrupted   \* claims whose support was due when the process died (history)

evidenceVars == <<access, evidence, evidenceOps, claims, links, citations, reassessed,
                  appraisals, syntheses, interrupted>>

Supports == {"unverified", "substantively-supported", "unsupported", "access-limited",
             "fields-missing", "identity-resolved", "contested", "needs-reassessment"}
Items == [source : Sources, excerpt : BOOLEAN]
LinkRows == [claim : CommandIds, item : CommandIds, role : {"supporting", "challenging"}, status : Supports]
CitationRows == [claim : CommandIds, source : Sources, identity : Supports,
                 access : {"full-text", "limited", "unavailable"}, support : Supports]
Methods == {"reflexive-thematic-analysis", "quantitative-dependent-observations", "unspecified"}

EvidenceTypeOK ==
  /\ access \in [Sources -> [full : BOOLEAN, kept : BOOLEAN]]
  /\ evidence \in [CommandIds -> Items \cup {Nothing}]
  /\ evidenceOps \in
       [CommandIds -> [item : Items, status : {"pending", "complete", "failed"}] \cup {Nothing}]
  /\ claims \in [CommandIds -> Supports \cup {Nothing}]
  /\ links \in [CommandIds -> LinkRows \cup {Nothing}]
  /\ citations \in [CommandIds -> CitationRows \cup {Nothing}]
  /\ reassessed \subseteq [claim : CommandIds, source : Sources, notice : CommandIds]
  /\ appraisals \in [CommandIds -> [source : Sources, method : Methods, result : {"pass", "needs-attention"}]
                                   \cup {Nothing}]
  /\ syntheses \in [CommandIds -> [claims : SUBSET CommandIds, flags : SUBSET CommandIds] \cup {Nothing}]
  /\ interrupted \subseteq CommandIds

ASSUME NullEvidenceAssumption ==
  Nothing \notin Items \cup LinkRows \cup CitationRows \cup Supports

NoRows == [c \in CommandIds |-> Nothing]
EvidenceInit ==
  /\ access \in [Sources -> [full : BOOLEAN, kept : {TRUE}]]
  /\ evidence = NoRows /\ evidenceOps = NoRows /\ claims = NoRows /\ links = NoRows
  /\ citations = NoRows /\ appraisals = NoRows /\ syntheses = NoRows
  /\ reassessed = {} /\ interrupted = {}

-----------------------------------------------------------------------------
\* The source: its extraction ends, or its content is lost or deleted.
SourceChanges(s) ==
  /\ \/ access' = [access EXCEPT ![s].full = TRUE]
     \/ access' = [access EXCEPT ![s].kept = FALSE]
  /\ UNCHANGED <<branchVars, evidence, evidenceOps, claims, links, citations, reassessed,
                 appraisals, syntheses, interrupted>>

\* recordEvidenceItem: the operation is noted first, and what failed or was cut short
\* may be tried again.  An excerpt takes content that can be verified; inspection
\* itself may be denied.
RecordEvidenceItem(c, item) ==
  /\ \/ evidenceOps[c] = Nothing
     \/ evidenceOps[c] # Nothing /\ evidenceOps[c].item = item /\ evidenceOps[c].status # "complete"
  /\ \/ /\ item.excerpt => access[item.source].kept
        /\ evidence' = [evidence EXCEPT ![c] = item]
        /\ evidenceOps' = [evidenceOps EXCEPT ![c] = [item |-> item, status |-> "complete"]]
     \/ /\ evidenceOps' = [evidenceOps EXCEPT ![c] = [item |-> item, status |-> "failed"]]
        /\ UNCHANGED evidence
     \/ /\ evidenceOps[c] = Nothing
        /\ evidenceOps' = [evidenceOps EXCEPT ![c] = [item |-> item, status |-> "pending"]]
        /\ UNCHANGED evidence
  /\ UNCHANGED <<branchVars, access, claims, links, citations, reassessed, appraisals, syntheses, interrupted>>

-----------------------------------------------------------------------------
\* Claims

\* What links, citations and notices make of a claim without the last two cases.
Weighed(L, V) ==
  IF \/ \E l \in L : l.role = "supporting" /\ l.status = "substantively-supported"
     \/ \E v \in V : v.support = "substantively-supported" THEN "substantively-supported"
  ELSE IF \E v \in V : v.support = "unsupported" THEN "unsupported"
  ELSE IF \/ \E l \in L : l.role = "supporting" /\ l.status = "access-limited"
          \/ \E v \in V : v.access # "full-text" THEN "access-limited"
  ELSE IF \E v \in V : v.identity = "fields-missing" THEN "fields-missing"
  ELSE IF \E v \in V : v.identity = "identity-resolved" THEN "identity-resolved" ELSE "unverified"

RowsFor(k, table) == {table[c] : c \in {d \in CommandIds : table[d] # Nothing /\ table[d].claim = k}}
Doubted(k) == \E r \in reassessed : r.claim = k

\* Mutated form: a notice is forgotten when the claim is weighed again.
SupportForgetsNotices(k, allLinks, allCitations) ==
  LET L == RowsFor(k, allLinks)
      V == RowsFor(k, allCitations)
  IN  IF {"supporting", "challenging"} \subseteq {l.role : l \in L} THEN "contested" ELSE Weighed(L, V)

\* updateClaimSupport
Support(k, allLinks, allCitations) ==
  LET L == RowsFor(k, allLinks)
      V == RowsFor(k, allCitations)
  IN  IF Doubted(k) THEN "needs-reassessment"
      ELSE IF {"supporting", "challenging"} \subseteq {l.role : l \in L} THEN "contested" ELSE Weighed(L, V)

\* The row is there, its consequence is not yet: a crash leaves it at that.
UpdateSupport(k) ==
  \/ /\ claims' = [claims EXCEPT ![k] = Support(k, links', citations')]
     /\ interrupted' = interrupted \ {k}
  \/ /\ interrupted' = interrupted \cup {k}
     /\ UNCHANGED claims

RecordClaim(c) ==
  /\ claims[c] = Nothing
  /\ claims' = [claims EXCEPT ![c] = "unverified"]
  /\ UNCHANGED <<branchVars, access, evidence, evidenceOps, links, citations, reassessed,
                 appraisals, syntheses, interrupted>>

LinkStatus(item) ==
  IF ~access[item.source].full THEN "access-limited"
  ELSE IF item.excerpt THEN "substantively-supported" ELSE "unverified"

\* What the source allows is read once, when the link is made.
LinkClaimEvidence(c, k, e, role) ==
  /\ links[c] = Nothing /\ claims[k] # Nothing /\ evidence[e] # Nothing
  /\ \A d \in CommandIds : links[d] # Nothing => ~(links[d].claim = k /\ links[d].item = e /\ links[d].role = role)
  /\ links' = [links EXCEPT ![c] =
                 [claim |-> k, item |-> e, role |-> role, status |-> LinkStatus(evidence[e])]]
  /\ UNCHANGED citations
  /\ UpdateSupport(k)
  /\ UNCHANGED <<branchVars, access, evidence, evidenceOps, reassessed, appraisals, syntheses>>

\* abstractSupported is "yes", "no" or not said.
VerifyCitation(c, k, s, abstractSupported) ==
  LET found == IF ~access[s].kept THEN "unavailable" ELSE IF access[s].full THEN "full-text" ELSE "limited"
      identity == IF s \in Identified THEN "identity-resolved" ELSE "fields-missing"
      linked == \E l \in RowsFor(k, links) : /\ l.role = "supporting" /\ evidence[l.item].source = s
                                             /\ l.status = "substantively-supported"
      support == IF abstractSupported = "no" THEN "unsupported"
                 ELSE IF linked /\ found = "full-text" /\ s \in Identified THEN "substantively-supported"
                 ELSE IF found # "full-text" /\ abstractSupported # "yes" THEN "unsupported" ELSE "unverified"
  IN  /\ citations[c] = Nothing /\ claims[k] # Nothing
      /\ citations' = [citations EXCEPT ![c] = [claim |-> k, source |-> s, identity |-> identity,
                                                access |-> found, support |-> support]]
      /\ UNCHANGED links
      /\ UpdateSupport(k)
      /\ UNCHANGED <<branchVars, access, evidence, evidenceOps, reassessed, appraisals, syntheses>>

LinkedTo(s) ==
  {k \in CommandIds : \E l \in RowsFor(k, links) : evidence[l.item].source = s}

\* applySourceNotice: the branches are told first.  A crash before the claims are marked
\* leaves them as they were for good, since a command in the history is a duplicate.
ApplySourceNotice(c, s) ==
  /\ RecordSharedSourceCorrection(c, s)
  /\ \/ /\ history[c] = Nothing
        /\ reassessed' = reassessed \cup {[claim |-> k, source |-> s, notice |-> c] : k \in LinkedTo(s)}
        /\ claims' = [k \in CommandIds |-> IF k \in LinkedTo(s) THEN "needs-reassessment" ELSE claims[k]]
     \/ UNCHANGED <<reassessed, claims>>
  /\ UNCHANGED <<access, evidence, evidenceOps, links, citations, appraisals, syntheses, interrupted>>

-----------------------------------------------------------------------------
\* recordAppraisal: issue and addressed say what was found of the other dimensions and
\* of dependent observations; agreement and power do not apply to thematic analysis.
RecordAppraisal(c, s, method, issue, addressed) ==
  LET bad == \/ issue /\ method # "reflexive-thematic-analysis"
             \/ ~addressed /\ method = "quantitative-dependent-observations"
  IN  /\ appraisals[c] = Nothing
      /\ appraisals' = [appraisals EXCEPT ![c] =
           [source |-> s, method |-> method, result |-> IF bad THEN "needs-attention" ELSE "pass"]]
      /\ UNCHANGED <<branchVars, access, evidence, evidenceOps, claims, links, citations,
                     reassessed, syntheses, interrupted>>

\* synthesizeClaims flags what is in doubt at that moment.
SynthesizeClaims(c, K) ==
  /\ syntheses[c] = Nothing /\ \A k \in K : claims[k] # Nothing
  /\ syntheses' = [syntheses EXCEPT ![c] =
       [claims |-> K, flags |-> {k \in K : claims[k] = "needs-reassessment" \/ Doubted(k)}]]
  /\ UNCHANGED <<branchVars, access, evidence, evidenceOps, claims, links, citations,
                 reassessed, appraisals, interrupted>>

EvidenceSteps ==
  \E c \in CommandIds :
    \/ RecordClaim(c)
    \/ \E s \in Sources, x \in BOOLEAN : RecordEvidenceItem(c, [source |-> s, excerpt |-> x])
    \/ \E k, e \in CommandIds, role \in {"supporting", "challenging"} : LinkClaimEvidence(c, k, e, role)
    \/ \E k \in CommandIds, s \in Sources, a \in {"yes", "no", "unsaid"} : VerifyCitation(c, k, s, a)
    \/ \E s \in Sources : ApplySourceNotice(c, s) \/ SourceChanges(s)
    \/ \E s \in Sources, m \in Methods, i, a \in BOOLEAN : RecordAppraisal(c, s, m, i, a)
    \/ \E K \in SUBSET CommandIds : SynthesizeClaims(c, K)

EvidenceNext == EvidenceSteps \/ (BranchNext /\ UNCHANGED evidenceVars)

EvidenceSpec ==
  BranchInit /\ EvidenceInit /\ [][EvidenceNext]_<<branchVars, evidenceVars>>

-----------------------------------------------------------------------------
\* Properties

\* Once a notice put a claim in doubt nothing makes it look sound again: no later
\* link, citation, crash or change of the source.
DoubtStays == \A k \in CommandIds : Doubted(k) => claims[k] = "needs-reassessment"

\* A claim shows what its links and citations amount to, unless the process died
\* between writing one and weighing them; even then it never claims a support that
\* no link or citation gives, except one it is contested for.
SupportIsEarned ==
  \A k \in CommandIds :
    claims[k] # Nothing =>
      /\ k \notin interrupted => claims[k] = Support(k, links, citations)
      /\ claims[k] = "substantively-supported" =>
           Support(k, links, citations) \in {"substantively-supported", "contested"}

\* What a synthesis once flagged is still in doubt.
FlaggedIsDoubted ==
  \A c \in CommandIds : syntheses[c] # Nothing => \A k \in syntheses[c].flags : Doubted(k)

\* What the record says of a claim follows from the evidence, citations and notices.
EvidenceHolds == DoubtStays /\ SupportIsEarned /\ FlaggedIsDoubted
=============================================================================
