----------------------------- MODULE Decisions -----------------------------
(***************************************************************************)
(* Decision packets, what the owner decides on them, the commitments that   *)
(* follow, the adoption of an alternative from another branch, reviewers'   *)
(* findings, and the assessments that other parts ask for (src/decisions).  *)
(*                                                                         *)
(* The owner's capability is taken for granted.  Dependency versions of a   *)
(* packet, policy, authorization and missing content, which only make the   *)
(* assessments stricter, are left out, and so are repeated commands.        *)
(***************************************************************************)
EXTENDS Branches

CONSTANTS
  Offers,        \* sets of versions that packets offer, owners select and findings affect
  Findings,      \* scholarly findings that a reviewer may record
  MaxPackets,    \* bound: packets
  MaxDecisions   \* bound: decision records

ASSUME DecisionAssumption ==
  Offers \subseteq SUBSET Works /\ {} \notin Offers /\ MaxPackets \in Nat /\ MaxDecisions \in Nat

VARIABLES
  packets,    \* decision_packets, in the order they were made
  decisions,  \* decision_records, each with the status of its commitment
  findings,   \* scholarly_findings: the versions affected, and what became of it
  overrides   \* reasoned_overrides: the finding and the packet

decisionVars == <<packets, decisions, findings, overrides>>
allDecisionVars == <<branchVars, decisionVars>>

Closed == {"archived", "superseded"}
PacketRows ==
  [branch : BranchNames, revision : Nat, candidates : (SUBSET Works) \ {{}},
   status : {"published", "open"} \cup Closed, parent : Nat]
DecisionRows ==
  [packet : Nat, disposition : {"approved", "rejected", "deferred"}, selected : SUBSET Works,
   branch : BranchNames, revision : Nat, commitment : {"none", "active"} \cup Closed]
FindingRows == [affected : SUBSET Works, status : {"open", "retained"}, revised : BOOLEAN]

ASSUME NullFindingAssumption == Nothing \notin FindingRows

DecisionTypeOK ==
  /\ BranchTypeOK
  /\ packets \in Seq(PacketRows) /\ decisions \in Seq(DecisionRows)
  /\ findings \in [Findings -> FindingRows \cup {Nothing}]
  /\ overrides \subseteq Findings \X (1 .. MaxPackets)

DecisionInit ==
  /\ BranchInit
  /\ packets = <<>> /\ decisions = <<>>
  /\ findings = [f \in Findings |-> Nothing]
  /\ overrides = {}

-----------------------------------------------------------------------------
\* Packets

Packet(branch, revision, candidates, parent) ==
  [branch |-> branch, revision |-> revision, candidates |-> candidates,
   status |-> "published", parent |-> parent]

Publish1(packet) == Len(packets) < MaxPackets /\ packets' = Append(packets, packet)

\* The packet may name an older snapshot than the current one.
CreateDecisionPacket(b, revision, candidates) ==
  /\ Exists(b) /\ revision \in 0 .. Revision(b) /\ candidates # {}
  /\ Publish1(Packet(b, revision, candidates, 0))
  /\ UNCHANGED <<branchVars, decisions, findings, overrides>>

Revised(p) == \E q \in DOMAIN packets : packets[q].parent = p

\* Mutated form: every revision is a packet of its own.
InsertAnotherRevision(p, revision, candidates) ==
  Publish1(Packet(packets[p].branch, revision, candidates, p))

\* The revision of a packet that there is already is returned.
InsertRevision(p, revision, candidates) ==
  IF Revised(p) THEN UNCHANGED packets
  ELSE Publish1(Packet(packets[p].branch, revision, candidates, p))

ReviseDecisionPacket(p, revision, candidates) ==
  /\ p \in DOMAIN packets /\ candidates # {}
  /\ revision \in 0 .. Revision(packets[p].branch)
  /\ InsertRevision(p, revision, candidates)
  /\ UNCHANGED <<branchVars, decisions, findings, overrides>>

-----------------------------------------------------------------------------
\* The owner's decisions

Decision(p, disposition, selected, b, revision) ==
  [packet |-> p, disposition |-> disposition, selected |-> selected, branch |-> b,
   revision |-> revision, commitment |-> IF disposition = "approved" THEN "active" ELSE "none"]

AddDecision(decision) == Len(decisions) < MaxDecisions /\ decisions' = Append(decisions, decision)

\* Mutated form: a packet of an older snapshot may be decided.
DecidableAnytime(p, disposition, selected) ==
  /\ packets[p].status \notin Closed
  /\ selected \subseteq packets[p].candidates
  /\ disposition = "approved" => selected # {}

\* The packet is open, of the branch's current snapshot, and names what is selected.
Decidable(p, disposition, selected) ==
  /\ packets[p].status \notin Closed
  /\ packets[p].revision = Revision(packets[p].branch)
  /\ selected \subseteq packets[p].candidates
  /\ disposition = "approved" => selected # {}

\* The status of the packet is left alone.
RecordOwnerDecision(p, disposition, selected) ==
  /\ p \in DOMAIN packets /\ Decidable(p, disposition, selected)
  /\ AddDecision(Decision(p, disposition, selected, 
                          packets[p].branch, Revision(packets[p].branch)))
  /\ UNCHANGED <<branchVars, packets, findings, overrides>>

\* The last decision of a packet among those that satisfy Test, or 0.
Latest(p, Test(_)) ==
  LET of == {i \in DOMAIN decisions : decisions[i].packet = p /\ Test(decisions[i])}
  IN  IF of = {} THEN 0 ELSE CHOOSE i \in of : \A j \in of : j <= i

Approval(d) == d.disposition = "approved"
Whichever(d) == TRUE

\* Of several commitments of the packet the last one is closed with it.
ClosePacket(p, status) ==
  /\ packets' = [packets EXCEPT ![p].status = status]
  /\ LET i == Latest(p, Approval)
     IN  decisions' = IF i = 0 THEN decisions ELSE [decisions EXCEPT ![i].commitment = status]

ArchiveDecision(p) ==
  /\ p \in DOMAIN packets
  /\ ClosePacket(p, "archived")
  /\ UNCHANGED <<branchVars, findings, overrides>>

SupersedeDecision(p) ==
  /\ p \in DOMAIN packets /\ Revised(p)
  /\ ClosePacket(p, "superseded")
  /\ UNCHANGED <<branchVars, findings, overrides>>

\* What counts is that the last decision deferred it, not the packet's status.
ReopenDecision(p) ==
  /\ p \in DOMAIN packets
  /\ packets[p].revision = Revision(packets[p].branch)
  /\ LET i == Latest(p, Whichever) IN i # 0 /\ decisions[i].disposition = "deferred"
  /\ packets' = [packets EXCEPT ![p].status = "open"]
  /\ UNCHANGED <<branchVars, decisions, findings, overrides>>

\* adoptBranchAlternative: a promotion of what is selected, and its approval unless
\* there is one.  The number of a packet's row stands for its id.
AdoptBranchAlternative(c, p, b, selected) ==
  LET packet == packets[p]
      payload == [operation |-> "adopted", packet |-> p, branch |-> b, selected |-> selected]
      objects == {ObjectOf(w) : w \in selected}
      after == Promoted(packet.branch, b, objects)
      to == Revision(b) + (IF after = Current(b) THEN 0 ELSE 1)
  IN  /\ p \in DOMAIN packets
      /\ Exists(b) /\ b # packet.branch /\ packet.status \notin Closed
      /\ selected # {} /\ selected \subseteq packet.candidates
      /\ \/ /\ history[c] # Nothing /\ history[c].payload.operation = "adopted"
            /\ Reply(c, payload, IF history[c].payload = payload THEN "duplicate" ELSE "rejected")
            /\ UNCHANGED <<snapshots, history, impacts, decisions>>
         \/ /\ history[c] = Nothing
            /\ packet.revision = Revision(packet.branch)
            /\ \A o \in objects : Current(packet.branch)[o] \in selected
            /\ to <= MaxRevision
            /\ IF after = Current(b) THEN UNCHANGED snapshots ELSE Append1(b, after)
            /\ impacts' = impacts \cup ImpactsOf(c, b, Current(b), after)
            /\ Record(c, payload, Revision(b), to)
            /\ IF \E d \in {decisions[i] : i \in DOMAIN decisions} :
                    d.packet = p /\ Approval(d) /\ d.selected = selected
               THEN UNCHANGED decisions
               ELSE AddDecision(Decision(p, "approved", selected, b, to))
      /\ UNCHANGED <<packets, findings, overrides>>

-----------------------------------------------------------------------------
\* Reviewers

RecordScholarlyFinding(f, affected) ==
  /\ findings[f] = Nothing /\ affected # {}
  /\ findings' = [findings EXCEPT ![f] =
                    [affected |-> affected, status |-> "open", revised |-> FALSE]]
  /\ UNCHANGED <<branchVars, packets, decisions, overrides>>

\* One override for a finding and a packet; the finding is kept.
RecordReasonedOverride(f, p, selected) ==
  /\ findings[f] # Nothing /\ p \in DOMAIN packets
  /\ selected \subseteq packets[p].candidates /\ selected \cap findings[f].affected # {}
  /\ <<f, p>> \notin overrides /\ overrides' = overrides \cup {<<f, p>>}
  /\ findings' = [findings EXCEPT ![f].status = "retained"]
  /\ UNCHANGED <<branchVars, packets, decisions>>

\* A disagreement costs one revision of the packet, then it is the owner's.
ResolveReviewDisagreement(f, p) ==
  /\ findings[f] # Nothing /\ ~findings[f].revised /\ p \in DOMAIN packets
  /\ InsertRevision(p, Revision(packets[p].branch), packets[p].candidates)
  /\ findings' = [findings EXCEPT ![f].revised = TRUE]
  /\ UNCHANGED <<branchVars, decisions, overrides>>

DecisionSteps ==
  \/ \E b \in BranchNames, r \in 0 .. MaxRevision, C \in Offers : CreateDecisionPacket(b, r, C)
  \/ \E p \in 1 .. MaxPackets :
       \/ \E r \in 0 .. MaxRevision, C \in Offers : ReviseDecisionPacket(p, r, C)
       \/ \E d \in {"approved", "rejected", "deferred"}, S \in Offers : RecordOwnerDecision(p, d, S)
       \/ ArchiveDecision(p) \/ SupersedeDecision(p) \/ ReopenDecision(p)
       \/ \E c \in CommandIds, b \in BranchNames, S \in Offers : AdoptBranchAlternative(c, p, b, S)
       \/ \E f \in Findings :
            \/ \E S \in Offers : RecordReasonedOverride(f, p, S)
            \/ ResolveReviewDisagreement(f, p)
  \/ \E f \in Findings, A \in Offers : RecordScholarlyFinding(f, A)

DecisionNext == DecisionSteps \/ (BranchNext /\ UNCHANGED decisionVars)

DecisionSpec == DecisionInit /\ [][DecisionNext]_allDecisionVars

-----------------------------------------------------------------------------
\* What other parts ask

\* evaluateCommitmentGates for a local commitment: identity, provenance, readiness.
GatesPass(p, selected) ==
  LET packet == packets[p]
  IN  /\ selected # {} /\ selected \subseteq packet.candidates
      /\ packet.revision = Revision(packet.branch)
      /\ \A w \in selected : Current(packet.branch)[ObjectOf(w)] = w
      /\ packet.status \notin Closed

\* assessReadiness of the commitment of a decision.
Readiness(i) ==
  LET d == decisions[i]
  IN  IF packets[d.packet].status \in Closed THEN "blocked"
      ELSE IF \/ Revision(d.branch) # d.revision
              \/ \E w \in d.selected : Current(d.branch)[ObjectOf(w)] # w
              \/ \E x \in impacts : x.branch = d.branch /\ x.dependent \in d.selected
           THEN "needs-review" ELSE "ready"

\* A commitment is ready only while the branch is as it was when the owner decided:
\* the snapshot of the packet, or the one the adoption made, which held the selection.
ReadyIsWhatWasReviewed ==
  \A i \in DOMAIN decisions :
    decisions[i].commitment # "none" /\ Readiness(i) = "ready"
    => LET d == decisions[i]
       IN  /\ Current(d.branch) = snapshots[d.branch][d.revision + 1]
           /\ d.selected \subseteq Holds(Current(d.branch))
           /\ d.branch = packets[d.packet].branch => packets[d.packet].revision = d.revision

\* The gates never let through what the owner's decision would then be refused.
GatedIsDecidable ==
  \A p \in DOMAIN packets, S \in Offers :
    GatesPass(p, S) => Decidable(p, "approved", S)

\* Of a packet there is one revision, whoever asks for it.
OneRevision ==
  \A p, q \in DOMAIN packets :
    packets[p].parent # 0 /\ packets[p].parent = packets[q].parent => p = q

\* What is approved, ready or let through the gates is what was reviewed.
ApprovedIsReviewed == ReadyIsWhatWasReviewed /\ GatedIsDecidable /\ OneRevision
=============================================================================
