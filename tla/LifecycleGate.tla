---------------------------- MODULE LifecycleGate ----------------------------
(***************************************************************************)
(* The lifecycle gate (src/lifecycle/lifecycle-gate.ts): an operation keeps *)
(* the snapshot of its inputs, and every phase (dispatch, external effect,  *)
(* resume, acceptance) checks it again against the policy and the           *)
(* authorizations of that moment.  A check that meets a withdrawal fences   *)
(* the operation for good.                                                  *)
(*                                                                         *)
(* Each function of the code runs without yielding, in one or two           *)
(* transactions.  A crash between two of them leaves what the first wrote.  *)
(***************************************************************************)
EXTENDS DataPolicy, ActivityAuthorization, Sequences

CONSTANTS
  Operations,  \* operation identifiers
  Snapshots,   \* [inputs, population, protocol] an operation may be created with
  Options,     \* what callers pass to a check, see OptionRecords
  CallerStatuses  \* statuses the runtime and the analysis store write themselves

\* population and the use of a check are "none" when they are not named.
None == "none"
Local == "local"

\* The use, whether the options agree with the snapshot, contradict it or name
\* something it leaves open, and whether capability and command are in order.
OptionRecords == [use : Uses \cup {Local, None},
                  context : {"agrees", "contradicts", "undocumented"},
                  capable : BOOLEAN]

ASSUME GateAssumption ==
  /\ Options \subseteq OptionRecords
  /\ Snapshots \subseteq [inputs : Seq(Versions), population : Populations \cup {None},
                          protocol : BOOLEAN]
  /\ CallerStatuses \subseteq {"blocked", "cancelled", "completed", "quarantined"}
  /\ None \notin Populations \cup Uses /\ Local \notin Uses

VARIABLES
  snapshot,        \* input snapshot of each operation
  status,          \* its status, "absent" before it is created
  fenced,          \* a revocation fence row exists
  quarantined,     \* a quarantined output row exists
  cancelledOnce,   \* it has been cancelled (history)
  protocolCurrent  \* assessProtocolCurrency finds the protocols current

operationVars == <<snapshot, status, fenced, quarantined, cancelledOnce>>
gateVars == <<operationVars, policyVars, authorizationVars, protocolCurrent>>

Statuses == {"absent", "queued", "running", "blocked", "fenced", "cancelled",
             "quarantined", "accepted", "completed"}
Phases == {"dispatch", "external", "resume", "acceptance"}

OperationTypeOK ==
  /\ snapshot \in [Operations -> Snapshots]
  /\ status \in [Operations -> Statuses]
  /\ fenced \in [Operations -> BOOLEAN]
  /\ quarantined \in [Operations -> BOOLEAN]
  /\ cancelledOnce \in [Operations -> BOOLEAN]

GateTypeOK ==
  /\ PolicyTypeOK /\ AuthorizationTypeOK /\ OperationTypeOK
  /\ protocolCurrent \in BOOLEAN

GateInit ==
  /\ PolicyInit /\ AuthorizationInit
  /\ snapshot \in [Operations -> Snapshots]
  /\ status = [o \in Operations |-> "absent"]
  /\ fenced = [o \in Operations |-> FALSE]
  /\ quarantined = [o \in Operations |-> FALSE]
  /\ cancelledOnce = [o \in Operations |-> FALSE]
  /\ protocolCurrent = TRUE

-----------------------------------------------------------------------------
\* checkLifecyclePolicy

Inputs(o) == {snapshot[o].inputs[i] : i \in DOMAIN snapshot[o].inputs}
Population(o) == snapshot[o].population

\* Without a use the effective restriction decides: a withdrawn or expired row
\* anywhere in the sources counts only if the input itself has no active row.
RestrictionVerdict(v, phase) ==
  IF IsWithdrawn({v}) /\ ~HasActive(v)            THEN "fence"
  ELSE IF \/ IsExpired({v}) /\ ~HasActive(v)
          \/ phase = "external" /\ IsLocalOnly({v}) THEN "block"
  ELSE "pass"

EvaluationVerdict(v, use) ==
  IF use = Local \/ Allows(v, use)     THEN "pass"
  ELSE IF DeniedAsWithdrawn(v, use)     THEN "fence"
  ELSE "block"

InputVerdict(v, phase, use) ==
  IF v \notin classified THEN "block"
  ELSE IF use = None     THEN RestrictionVerdict(v, phase)
  ELSE EvaluationVerdict(v, use)

\* Inputs are checked in order and the first that does not pass decides.
InputsVerdict(o, phase, use) ==
  LET inputs == snapshot[o].inputs
      verdict(i) == InputVerdict(inputs[i], phase, use)
  IN  IF \A i \in DOMAIN inputs : verdict(i) = "pass"
      THEN IF inputs = <<>> /\ phase = "dispatch" THEN "block" ELSE "pass"
      ELSE IF \E i \in DOMAIN inputs :
                verdict(i) = "fence" /\ \A j \in 1 .. i - 1 : verdict(j) = "pass"
      THEN "fence" ELSE "block"

AuthorizationVerdict(o, context) ==
  IF Population(o) = None            THEN "pass"
  ELSE IF Permitted(Population(o))   THEN IF context = "undocumented" THEN "block" ELSE "pass"
  ELSE IF Revoked                    THEN "fence"
  ELSE "block"

\* Mutated form: a fence is looked for in the status column only.
ShutByStatus(o) == status[o] \in {"fenced", "cancelled"}

\* Answered before anything is assessed, and nothing but the checkpoint is
\* written.
Shut(o) == fenced[o] \/ status[o] = "cancelled"

\* In the order of the code: the first check that does not pass decides.
Verdict(o, phase, opts) ==
  LET authorization == AuthorizationVerdict(o, opts.context)
      inputs == InputsVerdict(o, phase, opts.use)
  IN  IF Shut(o) THEN "shut"
      ELSE IF opts.context = "contradicts" \/ (snapshot[o].protocol /\ ~protocolCurrent) THEN "block"
      ELSE IF authorization # "pass" THEN authorization
      ELSE IF inputs # "pass" THEN inputs
      ELSE IF opts.capable THEN "pass" ELSE "block"

\* Mutated form: the checkpoint's result is written into the operation.
StatusAfterDenied(o, verdict) ==
  CASE verdict = "block" -> "denied"
    [] verdict = "fence" -> "fenced"
    [] OTHER             -> status[o]

\* What the check leaves in the status column and among the fences.
StatusAfter(o, verdict) ==
  CASE verdict = "block" -> "blocked"
    [] verdict = "fence" -> "fenced"
    [] OTHER             -> status[o]

ApplyCheck(o, verdict, finally) ==
  /\ status' = [status EXCEPT ![o] = finally]
  /\ fenced' = [fenced EXCEPT ![o] = @ \/ verdict = "fence"]

-----------------------------------------------------------------------------
\* Operations of the gate

Known(o) == status[o] # "absent"

CreateOperation(o) ==
  /\ status[o] = "absent"
  /\ status' = [status EXCEPT ![o] = "queued"]
  /\ UNCHANGED <<snapshot, fenced, quarantined, cancelledOnce>>

Check(o, phase, opts) ==
  /\ Known(o)
  /\ LET verdict == Verdict(o, phase, opts)
     IN  ApplyCheck(o, verdict, StatusAfter(o, verdict))
  /\ UNCHANGED <<snapshot, quarantined, cancelledOnce>>

\* The process dies between the two transactions of a check that fences: a denied
\* authorization or evaluation writes "blocked" first, the fence after it.  On a
\* withdrawn restriction the fence is the only transaction.
CheckCutShort(o, phase, opts) ==
  /\ Known(o) /\ Verdict(o, phase, opts) = "fence"
  /\ opts.use = None => AuthorizationVerdict(o, opts.context) = "fence"
  /\ status' = [status EXCEPT ![o] = "blocked"]
  /\ UNCHANGED <<snapshot, fenced, quarantined, cancelledOnce>>

\* acceptCandidate: a candidate is accepted when the check passes, otherwise it
\* is quarantined; "fenced" and "cancelled" are not overwritten.  For an
\* operation that is over nothing is recorded.
AcceptCandidate(o, opts) ==
  /\ Known(o) /\ status[o] \notin {"accepted", "completed"}
  /\ LET verdict == Verdict(o, "acceptance", opts)
         after == StatusAfter(o, verdict)
     IN  /\ ApplyCheck(o, verdict,
              IF verdict = "pass" THEN "accepted"
              ELSE IF after \in {"fenced", "cancelled"} THEN after ELSE "quarantined")
         /\ quarantined' = [quarantined EXCEPT ![o] = @ \/ verdict # "pass"]
  /\ UNCHANGED <<snapshot, cancelledOnce>>

\* resumeOperation looks at no status: a failed check writes "blocked" over
\* whatever is there, and an operation that is over runs again.
ResumeOperation(o, opts) ==
  /\ Known(o)
  /\ LET verdict == Verdict(o, "resume", opts)
     IN  ApplyCheck(o, verdict, IF verdict = "pass" THEN "running" ELSE "blocked")
  /\ UNCHANGED <<snapshot, quarantined, cancelledOnce>>

\* fenceRevokedOperation, also called by the owner's cancellation of a run.
FenceRevokedOperation(o) ==
  /\ Known(o)
  /\ status' = [status EXCEPT ![o] = "fenced"]
  /\ fenced' = [fenced EXCEPT ![o] = TRUE]
  /\ UNCHANGED <<snapshot, quarantined, cancelledOnce>>

\* updateLifecycleOperationStatus by the runtime and the analysis store.
UpdateStatus(o, s) ==
  /\ Known(o) /\ s \in CallerStatuses
  /\ status' = [status EXCEPT ![o] = s]
  /\ cancelledOnce' = [cancelledOnce EXCEPT ![o] = @ \/ s = "cancelled"]
  /\ UNCHANGED <<snapshot, fenced, quarantined>>

\* The runtime marks an operation as running after a check for dispatch.
StartDispatch(o, opts) ==
  /\ Known(o) /\ Verdict(o, "dispatch", opts) = "pass"
  /\ status' = [status EXCEPT ![o] = "running"]
  /\ UNCHANGED <<snapshot, fenced, quarantined, cancelledOnce>>

\* Another protocol comes into force, or a material change is recorded or
\* resolved.
ProtocolChanges ==
  /\ protocolCurrent' \in BOOLEAN
  /\ UNCHANGED <<operationVars, policyVars, authorizationVars>>

OperationStep ==
  \E o \in Operations :
    \/ CreateOperation(o)
    \/ \E phase \in Phases, opts \in Options : Check(o, phase, opts)
    \/ \E phase \in Phases, opts \in Options : CheckCutShort(o, phase, opts)
    \/ \E opts \in Options : AcceptCandidate(o, opts)
    \/ \E opts \in Options : ResumeOperation(o, opts)
    \/ \E opts \in Options : StartDispatch(o, opts)
    \/ FenceRevokedOperation(o)
    \/ \E s \in CallerStatuses : UpdateStatus(o, s)

GateNext ==
  \/ OperationStep /\ UNCHANGED <<policyVars, authorizationVars, protocolCurrent>>
  \/ PolicyStep /\ UNCHANGED <<operationVars, authorizationVars, protocolCurrent>>
  \/ AuthorizationStep /\ UNCHANGED <<operationVars, policyVars, protocolCurrent>>
  \/ ProtocolChanges

GateSpec == GateInit /\ [][GateNext]_gateVars

-----------------------------------------------------------------------------
\* Properties

\* A disclosure the gateway allows is one the gate does not stop: the runtime
\* asks both, and what is disclosable under the transitive rules of the first
\* passes the per-version rules of the second, with or without a named use.
DisclosureWithinGate ==
  \A o \in Operations, use \in Uses, phase \in Phases \ {"dispatch"} :
    Inputs(o) # {} /\ Disclosable(Inputs(o), use) =>
      InputsVerdict(o, phase, use) = "pass" /\ InputsVerdict(o, phase, None) = "pass"

\* A fence is for good: whatever is granted, re-authorized, resumed or written
\* over its status later, a fenced operation neither runs nor has a candidate
\* accepted.
FenceIsFinal ==
  [][\A o \in Operations :
       fenced[o] => fenced'[o] /\ (status'[o] \in {"running", "accepted"} => status'[o] = status[o])]_gateVars

\* A candidate is accepted, and an operation set running, only while every
\* input is classified and, for an operation bound to an activity, the latest
\* authorization permits its population: an earlier approval never suffices.
AcceptedUnderAuthorization ==
  [][\A o \in Operations :
       status'[o] # status[o] /\ status'[o] \in {"running", "accepted"} =>
         /\ Inputs(o) \subseteq classified
         /\ Population(o) # None => latest.status = "approving" /\ latest.scope = Population(o)
         /\ snapshot[o].protocol => protocolCurrent]_gateVars

\* What the tests say of the gate: after a cancellation late output is
\* quarantined, never accepted.
CancelledNeverAccepted ==
  \A o \in Operations : cancelledOnce[o] => status[o] # "accepted"
=============================================================================
