----------------------------- MODULE Protocols -----------------------------
(***************************************************************************)
(* The study protocol and its progress (src/progress): versions, binding a  *)
(* version in force, amendments, deviations, what is reported, and the      *)
(* currency that the lifecycle gate asks for.                               *)
(*                                                                         *)
(* A protocol version is named by its artifact version, which its label     *)
(* determines.  A recording is several transactions with nothing of the     *)
(* process in between, so only a crash or a failed write separates them.    *)
(***************************************************************************)
EXTENDS Decisions

CONSTANTS
  Protocols,       \* artifact versions of the logical id "study-protocol"
  Contexts,        \* population, data use and activity
  ReviewedWith(_)  \* plans, audits and risks that a change of a protocol touches

ASSUME ProtocolAssumption ==
  /\ Protocols \subseteq Works /\ Nothing \notin Contexts
  /\ \A p, q \in Protocols : ObjectOf(p) = ObjectOf(q)
  /\ \A p \in Protocols : ReviewedWith(p) \subseteq Works

VARIABLES
  labels,      \* protocols whose artifact version is registered
  protocols,   \* protocol_versions
  amendments,  \* by command id
  deviations,  \* by command id
  reports,     \* progress records, reported executions and prior commitments, candidates
  studyOps,    \* progress_operations
  recording    \* the recording that the process is in the middle of

studyVars == <<labels, protocols, amendments, deviations, reports, studyOps, recording>>
allStudyVars == <<allDecisionVars, studyVars>>

ProtocolRows ==
  [branch : BranchNames, context : Contexts, status : {"candidate", "in-force", "superseded"}]
AmendmentRows ==
  [from : Protocols, to : Protocols, status : {"proposed", "adopted", "superseded"}]
DeviationRows == [of : Protocols, context : Contexts]
Reports ==
  [kind : {"progress", "reported-execution", "reported-prior-commitment"}, of : Protocols, corrects : {Nothing}]
  \cup [kind : {"progress-correction"}, of : Protocols, corrects : CommandIds]
  \cup [kind : {"candidate"}, of : {Nothing}, corrects : {Nothing}]
\* An amendment records its successor under a command id of its own.
StudyCommands == CommandIds \X {"itself", "successor"}
Recordings ==
  [command : StudyCommands, kind : {"protocol", "amendment", "deviation"}, from : Protocols \cup {Nothing},
   to : Protocols \cup {Nothing}, branch : BranchNames, context : Contexts]
StudyPayloads == Recordings \cup Reports \cup [kind : {"bind-protocol"}, protocol : Protocols, commitment : Nat]
StudyRows == [payload : StudyPayloads, status : {"pending", "complete"}]
ASSUME NullStudyAssumption ==
  Nothing \notin ProtocolRows \cup AmendmentRows \cup DeviationRows \cup Reports \cup StudyRows
Stages == {"artifact", "protocol", "change", "impacts"}

StudyTypeOK ==
  /\ DecisionTypeOK
  /\ labels \subseteq Protocols
  /\ protocols \in [Protocols -> ProtocolRows \cup {Nothing}]
  /\ amendments \in [CommandIds -> AmendmentRows \cup {Nothing}]
  /\ deviations \in [CommandIds -> DeviationRows \cup {Nothing}]
  /\ reports \in [CommandIds -> Reports \cup {Nothing}]
  /\ studyOps \in [StudyCommands -> StudyRows \cup {Nothing}]
  /\ recording # Nothing => recording.payload \in Recordings /\ recording.stage \in Stages

StudyInit ==
  /\ DecisionInit
  /\ labels = {} /\ recording = Nothing
  /\ protocols = [p \in Protocols |-> Nothing]
  /\ amendments = [c \in CommandIds |-> Nothing]
  /\ deviations = [c \in CommandIds |-> Nothing]
  /\ reports = [c \in CommandIds |-> Nothing]
  /\ studyOps = [c \in StudyCommands |-> Nothing]

-----------------------------------------------------------------------------
IsInForce(p) == protocols[p] # Nothing /\ protocols[p].status = "in-force"
Itself(c) == <<c, "itself">>

Enter(stage, payload) == recording' = [stage |-> stage, payload |-> payload]

\* operationEntity: an id that was used must be used for the same again.
Known(c, payload) == studyOps[c] # Nothing /\ studyOps[c].payload = payload
AddOp(c, payload, status) ==
  studyOps' = [studyOps EXCEPT ![c] = [payload |-> payload, status |-> status]]

\* What is left to do for a protocol version of which there may be an earlier trace.
EnterProtocol(payload) ==
  \/ /\ studyOps[payload.command] = Nothing /\ payload.to \notin labels
     /\ Enter("artifact", payload)
  \/ /\ payload.kind = "amendment" /\ Known(payload.command, payload)
     /\ Enter("change", payload)

RecordProtocolVersion(c, p, b, x) ==
  /\ recording = Nothing /\ Exists(b)
  /\ EnterProtocol([command |-> Itself(c), kind |-> "protocol", from |-> Nothing, to |-> p,
                    branch |-> b, context |-> x])
  /\ UNCHANGED <<allDecisionVars, labels, protocols, amendments, deviations, reports, studyOps>>

\* A retry is held to the same conditions, and does what is left of it.
RecordAmendment(c, from, to, x) ==
  /\ recording = Nothing /\ IsInForce(from)
  /\ LET payload == [command |-> <<c, "successor">>, kind |-> "amendment", from |-> from, to |-> to,
                     branch |-> protocols[from].branch, context |-> x]
     IN  \/ studyOps[Itself(c)] = Nothing /\ EnterProtocol(payload)
         \/ Known(Itself(c), payload) /\ Enter("impacts", payload)
  /\ UNCHANGED <<allDecisionVars, labels, protocols, amendments, deviations, reports, studyOps>>

\* The artifact of a deviation has a logical id of its own, so losing it matters to nobody.
RecordDeviation(c, of, x) ==
  /\ recording = Nothing /\ protocols[of] # Nothing
  /\ LET payload == [command |-> Itself(c), kind |-> "deviation", from |-> of, to |-> Nothing,
                     branch |-> protocols[of].branch, context |-> x]
     IN  \/ studyOps[Itself(c)] = Nothing /\ Enter("change", payload)
         \/ Known(Itself(c), payload) /\ Enter("impacts", payload)
  /\ UNCHANGED <<allDecisionVars, labels, protocols, amendments, deviations, reports, studyOps>>

-----------------------------------------------------------------------------
\* The transactions of a recording

At(stage) == recording # Nothing /\ recording.stage = stage

RegisterProtocolArtifact ==
  /\ At("artifact")
  /\ labels' = labels \cup {recording.payload.to}
  /\ Enter("protocol", recording.payload)
  /\ UNCHANGED <<allDecisionVars, protocols, amendments, deviations, reports, studyOps>>

InsertProtocol ==
  LET payload == recording.payload
  IN  /\ At("protocol")
      /\ protocols' = [protocols EXCEPT ![payload.to] =
                         [branch |-> payload.branch, context |-> payload.context, status |-> "candidate"]]
      /\ AddOp(payload.command, payload, "complete")
      /\ IF payload.kind = "amendment" THEN Enter("change", payload) ELSE recording' = Nothing
      /\ UNCHANGED <<allDecisionVars, labels, amendments, deviations, reports>>

\* The row could not be written: the artifact is discarded, unless it rests on others.
FailProtocol ==
  /\ At("protocol")
  /\ labels' = IF RestsOn(recording.payload.to) = {} THEN labels \ {recording.payload.to} ELSE labels
  /\ recording' = Nothing
  /\ UNCHANGED <<allDecisionVars, protocols, amendments, deviations, reports, studyOps>>

InsertChange ==
  LET payload == recording.payload
      c == payload.command[1]
  IN  /\ At("change")
      /\ IF payload.kind = "amendment"
         THEN /\ amendments' = [amendments EXCEPT ![c] =
                                  [from |-> payload.from, to |-> payload.to, status |-> "proposed"]]
              /\ UNCHANGED deviations
         ELSE /\ deviations' = [deviations EXCEPT ![c] =
                                  [of |-> payload.from, context |-> payload.context]]
              /\ UNCHANGED amendments
      /\ AddOp(Itself(c), payload, "pending")
      /\ Enter("impacts", payload)
      /\ UNCHANGED <<allDecisionVars, labels, protocols, reports>>

ToReview(payload) ==
  {[branch |-> payload.branch, dependent |-> d, command |-> payload.command[1]] :
     d \in ReviewedWith(payload.from) \cup {payload.from}}

\* writeImpacts, a statement at a time.
WriteImpact ==
  /\ At("impacts")
  /\ \E i \in ToReview(recording.payload) \ impacts : impacts' = impacts \cup {i}
  /\ UNCHANGED <<snapshots, history, lastAnswer, decisionVars, studyVars>>

\* Mutated form: the operation is completed before its impacts are written.
CompleteFirst ==
  /\ At("impacts")
  /\ studyOps' = [studyOps EXCEPT ![Itself(recording.payload.command[1])].status = "complete"]
  /\ IF ToReview(recording.payload) \subseteq impacts THEN recording' = Nothing ELSE UNCHANGED recording
  /\ UNCHANGED <<allDecisionVars, labels, protocols, amendments, deviations, reports>>

CompleteOperation ==
  /\ At("impacts") /\ ToReview(recording.payload) \subseteq impacts
  /\ studyOps' = [studyOps EXCEPT ![Itself(recording.payload.command[1])].status = "complete"]
  /\ recording' = Nothing
  /\ UNCHANGED <<allDecisionVars, labels, protocols, amendments, deviations, reports>>

StudyCrash ==
  /\ recording # Nothing /\ recording' = Nothing
  /\ UNCHANGED <<allDecisionVars, labels, protocols, amendments, deviations, reports, studyOps>>

-----------------------------------------------------------------------------
\* Mutated form: without the trigger that lets only a candidate come into force.
BindableAgain(p, i) ==
  /\ protocols[p] # Nothing /\ i \in DOMAIN decisions
  /\ decisions[i].commitment = "active"
  /\ decisions[i].branch = protocols[p].branch /\ p \in decisions[i].selected
  /\ Current(protocols[p].branch)[ObjectOf(p)] = p

\* An active commitment selects the protocol, it is what the branch refers to, and
\* the table's trigger lets only a candidate, or what is in force, be in force.
Bindable(p, i) ==
  /\ protocols[p] # Nothing /\ protocols[p].status # "superseded"
  /\ i \in DOMAIN decisions /\ decisions[i].commitment = "active"
  /\ decisions[i].branch = protocols[p].branch /\ p \in decisions[i].selected
  /\ Current(protocols[p].branch)[ObjectOf(p)] = p

BindProtocolInForce(c, p, i) ==
  LET b == protocols[p].branch
      sources == {amendments[d].from : d \in {x \in CommandIds :
                    amendments[x] # Nothing /\ amendments[x].to = p}}
  IN  /\ recording = Nothing /\ Bindable(p, i) /\ studyOps[Itself(c)] = Nothing
      /\ protocols' = [q \in Protocols |->
           IF q = p THEN [protocols[q] EXCEPT !.status = "in-force"]
           ELSE IF IsInForce(q) /\ protocols[q].branch = b
                THEN [protocols[q] EXCEPT !.status = "superseded"] ELSE protocols[q]]
      /\ amendments' = [d \in CommandIds |->
           IF amendments[d] = Nothing \/ amendments[d].status # "proposed" THEN amendments[d]
           ELSE IF amendments[d].to = p THEN [amendments[d] EXCEPT !.status = "adopted"]
           ELSE IF amendments[d].from \in sources THEN [amendments[d] EXCEPT !.status = "superseded"]
           ELSE amendments[d]]
      /\ AddOp(Itself(c), [kind |-> "bind-protocol", protocol |-> p, commitment |-> i], "complete")
      /\ UNCHANGED <<allDecisionVars, labels, deviations, reports, recording>>

\* What is reported is kept under its command beside what it corrects.
AddReport(c, report) ==
  /\ recording = Nothing /\ studyOps[Itself(c)] = Nothing
  /\ reports' = [reports EXCEPT ![c] = report]
  /\ AddOp(Itself(c), report, "complete")
  /\ UNCHANGED <<allDecisionVars, labels, protocols, amendments, deviations, recording>>

Report(kind, p, corrects) == [kind |-> kind, of |-> p, corrects |-> corrects]

RecordProgress(c, p) == protocols[p] # Nothing /\ AddReport(c, Report("progress", p, Nothing))
RecordProgressCorrection(c, d) ==
  /\ reports[d] # Nothing /\ reports[d].kind \in {"progress", "progress-correction"}
  /\ AddReport(c, Report("progress-correction", reports[d].of, d))
RecordReportedExecution(c, p) ==
  protocols[p] # Nothing /\ AddReport(c, Report("reported-execution", p, Nothing))
RecordReportedPriorCommitment(c, p) ==
  protocols[p] # Nothing /\ AddReport(c, Report("reported-prior-commitment", p, Nothing))
IngestProgressCandidate(c) == AddReport(c, Report("candidate", Nothing, Nothing))

StudySteps ==
  \/ \E c \in CommandIds :
       \/ \E p \in Protocols, b \in BranchNames, x \in Contexts : RecordProtocolVersion(c, p, b, x)
       \/ \E p, q \in Protocols, x \in Contexts : RecordAmendment(c, p, q, x)
       \/ \E p \in Protocols, x \in Contexts : RecordDeviation(c, p, x)
       \/ \E p \in Protocols, i \in 1 .. MaxDecisions : BindProtocolInForce(c, p, i)
       \/ \E p \in Protocols : \/ RecordProgress(c, p) \/ RecordReportedExecution(c, p)
                               \/ RecordReportedPriorCommitment(c, p)
       \/ \E d \in CommandIds : RecordProgressCorrection(c, d)
       \/ IngestProgressCandidate(c)
  \/ RegisterProtocolArtifact \/ InsertProtocol \/ FailProtocol
  \/ InsertChange \/ WriteImpact \/ CompleteOperation \/ StudyCrash

\* A recording is not interrupted by anything else the process does.
StudyNext == StudySteps \/ (recording = Nothing /\ DecisionNext /\ UNCHANGED studyVars)

StudySpec == StudyInit /\ [][StudyNext]_allStudyVars

-----------------------------------------------------------------------------
\* assessProtocolCurrency; an amendment that was superseded counts as well.
Currency(p) ==
  IF ~IsInForce(p) THEN IF protocols[p].status = "superseded" THEN "superseded" ELSE "needs-review"
  ELSE IF \E c \in CommandIds :
            \/ /\ amendments[c] # Nothing /\ amendments[c].from = p
               /\ protocols[amendments[c].to].context # protocols[p].context
            \/ /\ deviations[c] # Nothing /\ deviations[c].of = p
               /\ deviations[c].context # protocols[p].context
       THEN "needs-review" ELSE "current"

\* One protocol is in force on a branch.
OneInForce ==
  \A p, q \in Protocols : IsInForce(p) /\ IsInForce(q) /\ protocols[p].branch = protocols[q].branch => p = q

\* What an adopted amendment replaced is out of force for good, and no other
\* amendment of it waits to be adopted.
AdoptedReplaces ==
  \A c \in CommandIds :
    amendments[c] # Nothing /\ amendments[c].status = "adopted"
    => /\ Currency(amendments[c].from) = "superseded"
       /\ protocols[amendments[c].to].status # "candidate"
       /\ \A d \in CommandIds :
            amendments[d] # Nothing /\ amendments[d].from = amendments[c].from
            => amendments[d].status # "proposed"

\* A change that its caller was told is recorded has everything it touches noted,
\* whatever crashes and retries it took.
ChangeIsNoted ==
  \A c \in CommandIds :
    LET op == studyOps[Itself(c)]
    IN  op # Nothing /\ op.status = "complete" /\ op.payload.kind \in {"amendment", "deviation"}
        => ToReview(op.payload) \subseteq impacts

\* Every recorded operation has its row.
OperationsHaveRows ==
  \A c \in CommandIds :
    LET op == studyOps[Itself(c)]
    IN  op # Nothing =>
          CASE op.payload.kind = "protocol" -> protocols[op.payload.to] # Nothing
            [] op.payload.kind = "amendment" -> amendments[c] # Nothing /\ protocols[amendments[c].to] # Nothing
            [] op.payload.kind = "deviation" -> deviations[c] # Nothing
            [] op.payload.kind = "bind-protocol" -> protocols[op.payload.protocol].status # "candidate"
            [] OTHER -> reports[c] # Nothing

\* The study protocol through binding, amendments, crashes and retries.
ProtocolsHold == OneInForce /\ AdoptedReplaces /\ ChangeIsNoted /\ OperationsHaveRows
=============================================================================
