-------------------------- MODULE GovernanceProofs --------------------------
(***************************************************************************)
(* Proofs about the data-use policy and the lifecycle gate, for any         *)
(* versions, dependencies, permissions, operations and options.             *)
(***************************************************************************)
EXTENDS LifecycleGate, TLAPS

-----------------------------------------------------------------------------
\* Derivation

\* What a set of versions reaches contains it, is closed under dependencies and
\* lies in every closed set that contains it.
LEMMA ReachProperties ==
  ASSUME NEW V \in SUBSET Versions
  PROVE  /\ V \subseteq Reach(V) /\ Reach(V) \subseteq Versions
         /\ Closed(Reach(V))
         /\ \A S \in SUBSET Versions : V \subseteq S /\ Closed(S) => Reach(V) \subseteq S
<1> DEFINE R == {w \in Versions : \A S \in SUBSET Versions : V \subseteq S /\ Closed(S) => w \in S}
<1>1. Reach(V) = R
  BY DEF Reach, Lineages
<1>2. V \subseteq R /\ R \subseteq Versions
  OBVIOUS
<1>3. \A S \in SUBSET Versions : V \subseteq S /\ Closed(S) => R \subseteq S
  OBVIOUS
<1>4. ASSUME NEW v \in R, NEW w \in Sources[v] PROVE w \in R
  <2>1. w \in Versions
    BY <1>2, PolicyAssumption DEF PolicyConstants
  <2>2. ASSUME NEW S \in SUBSET Versions, V \subseteq S, Closed(S) PROVE w \in S
    BY <1>3, <2>2 DEF Closed
  <2> QED BY <2>1, <2>2
<1>5. Closed(R)
  BY <1>4 DEF Closed
<1> HIDE DEF R
<1> QED BY <1>1, <1>2, <1>3, <1>5

\* A version's sources reach no further than the version.
LEMMA SourcesReachLess ==
  ASSUME NEW V \in SUBSET Versions, NEW w \in Reach(V)
  PROVE  Reach({w}) \subseteq Reach(V)
<1>1. w \in Versions /\ {w} \subseteq Reach(V) /\ Reach(V) \in SUBSET Versions /\ Closed(Reach(V))
  BY ReachProperties
<1> QED BY <1>1, ReachProperties

\* A part of the inputs reaches no further than all of them.
LEMMA InputsReachLess ==
  ASSUME NEW V \in SUBSET Versions, NEW v \in V
  PROVE  v \in Reach({v}) /\ Reach({v}) \subseteq Reach(V) /\ v \in Reach(V)
<1>1. v \in Reach(V) /\ {v} \in SUBSET Versions
  BY ReachProperties
<1> QED BY <1>1, SourcesReachLess, ReachProperties

\* Disclosure of a set of versions is disclosure of everything it reaches.
LEMMA DisclosureIsInherited ==
  ASSUME NEW V \in SUBSET Versions, NEW use \in Uses, NEW w \in Reach(V), Disclosable(V, use)
  PROVE  Disclosable({w}, use)
<1>1. Reach({w}) \subseteq Reach(V)
  BY SourcesReachLess
<1> QED BY <1>1 DEF Disclosable, IsLocalOnly, IsWithdrawn, IsExpired

\* Derived material is never more open than its sources (disclosure-gateway).
THEOREM DerivedIsRestricted == GateSpec => []DerivedNeverMoreOpen
<1>1. DerivedNeverMoreOpen
  <2> SUFFICES ASSUME NEW v \in Versions, NEW use \in Uses, Disclosable({v}, use),
                      NEW w \in Sources[v]
               PROVE  Disclosable({w}, use)
    BY DEF DerivedNeverMoreOpen
  <2>1. {v} \in SUBSET Versions
    OBVIOUS
  <2>2. w \in Reach({v})
    BY <2>1, ReachProperties DEF Closed
  <2> QED BY <2>1, <2>2, DisclosureIsInherited
<1> QED BY <1>1, PTL

-----------------------------------------------------------------------------
\* Types

LEMMA PolicyStepType == PolicyTypeOK /\ PolicyStep => PolicyTypeOK'
<1> SUFFICES ASSUME PolicyTypeOK, PolicyStep PROVE PolicyTypeOK'
  OBVIOUS
<1> USE DEF PolicyTypeOK, PermissionStatuses
<1>1. CASE \E v \in Versions : ClassifyInput(v)
  BY <1>1 DEF ClassifyInput
<1>2. CASE \E g \in Grants : GrantDataUse(g) \/ WithdrawDataUse(g) \/ ExpireDataUse(g) \/ Lapse(g)
  BY <1>2 DEF GrantDataUse, WithdrawDataUse, ExpireDataUse, Lapse
<1> QED BY <1>1, <1>2 DEF PolicyStep

LEMMA AuthorizationStepType == AuthorizationTypeOK /\ AuthorizationStep => AuthorizationTypeOK'
<1> SUFFICES ASSUME AuthorizationTypeOK, AuthorizationStep PROVE AuthorizationTypeOK'
  OBVIOUS
<1> USE DEF AuthorizationTypeOK, AuthorizationRows, AuthorizationStatuses, NoAuthorization
<1>1. CASE \E population \in Populations, status_ \in AuthorizationStatuses :
             RecordAuthorization(population, status_) \/ Transition(population, status_)
  BY <1>1 DEF RecordAuthorization, Transition
<1>2. CASE AuthorizationLapses
  BY <1>2 DEF AuthorizationLapses
<1> QED BY <1>1, <1>2 DEF AuthorizationStep

\* A check leaves a status.
LEMMA CheckType ==
  ASSUME OperationTypeOK, NEW o \in Operations, NEW verdict
  PROVE  StatusAfter(o, verdict) \in Statuses
<1>1. status[o] \in Statuses /\ "blocked" \in Statuses /\ "fenced" \in Statuses
  BY DEF OperationTypeOK, Statuses
<1> QED BY <1>1 DEF StatusAfter

LEMMA OperationStepType == OperationTypeOK /\ OperationStep => OperationTypeOK'
<1> SUFFICES ASSUME OperationTypeOK, NEW o \in Operations,
               \/ CreateOperation(o) \/ FenceRevokedOperation(o)
               \/ \E phase \in Phases, opts \in Options : Check(o, phase, opts) \/ CheckCutShort(o, phase, opts)
               \/ \E opts \in Options : AcceptCandidate(o, opts) \/ ResumeOperation(o, opts) \/ StartDispatch(o, opts)
               \/ \E s \in CallerStatuses : UpdateStatus(o, s)
             PROVE  OperationTypeOK'
  BY DEF OperationStep
<1> USE DEF OperationTypeOK, ApplyCheck
<1>0. {"queued", "running", "blocked", "fenced", "cancelled", "quarantined", "accepted", "completed"} \subseteq Statuses
  BY DEF Statuses
<1>1. CASE CreateOperation(o) \/ FenceRevokedOperation(o)
  BY <1>0, <1>1 DEF CreateOperation, FenceRevokedOperation
<1>2. CASE \E phase \in Phases, opts \in Options : Check(o, phase, opts) \/ CheckCutShort(o, phase, opts)
  <2> PICK phase \in Phases, opts \in Options : Check(o, phase, opts) \/ CheckCutShort(o, phase, opts)
    BY <1>2
  <2> DEFINE verdict == Verdict(o, phase, opts)
  <2>1. StatusAfter(o, verdict) \in Statuses
    BY CheckType
  <2> HIDE DEF verdict
  <2>2. CASE Check(o, phase, opts)
    BY <2>1, <2>2 DEF Check, verdict
  <2>3. CASE CheckCutShort(o, phase, opts)
    BY <1>0, <2>3 DEF CheckCutShort
  <2> QED BY <2>2, <2>3
<1>3. ASSUME NEW opts \in Options, AcceptCandidate(o, opts) PROVE OperationTypeOK'
  <2> DEFINE verdict == Verdict(o, "acceptance", opts)
             after == StatusAfter(o, verdict)
             finally == IF verdict = "pass" THEN "accepted"
                        ELSE IF after \in {"fenced", "cancelled"} THEN after ELSE "quarantined"
  <2>1. finally \in Statuses
    BY <1>0
  <2>2. /\ status' = [status EXCEPT ![o] = finally]
        /\ fenced' = [fenced EXCEPT ![o] = @ \/ verdict = "fence"]
        /\ quarantined' = [quarantined EXCEPT ![o] = @ \/ verdict # "pass"]
        /\ UNCHANGED <<snapshot, cancelledOnce>>
    BY <1>3 DEF AcceptCandidate
  <2> HIDE DEF verdict, finally
  <2> QED BY <2>1, <2>2
<1>4. ASSUME NEW opts \in Options, ResumeOperation(o, opts) \/ StartDispatch(o, opts) PROVE OperationTypeOK'
  BY <1>0, <1>4 DEF ResumeOperation, StartDispatch
<1>5. CASE \E s \in CallerStatuses : UpdateStatus(o, s)
  <2> PICK s \in CallerStatuses : UpdateStatus(o, s)
    BY <1>5
  <2>1. s \in Statuses
    BY <1>0, GateAssumption
  <2>2. /\ status' = [status EXCEPT ![o] = s]
        /\ cancelledOnce' = [cancelledOnce EXCEPT ![o] = @ \/ s = "cancelled"]
        /\ UNCHANGED <<snapshot, fenced, quarantined>>
    BY DEF UpdateStatus
  <2> QED BY <2>1, <2>2
<1> QED BY <1>1, <1>2, <1>3, <1>4, <1>5

\* Policy, authorizations and operations keep their types.
THEOREM GateTypeCorrect == GateSpec => []GateTypeOK
<1>1. GateInit => GateTypeOK
  BY DEF GateInit, PolicyInit, AuthorizationInit, GateTypeOK, PolicyTypeOK, AuthorizationTypeOK,
         OperationTypeOK, AuthorizationRows, PermissionStatuses, Statuses
<1>2. GateTypeOK /\ [GateNext]_gateVars => GateTypeOK'
  <2> SUFFICES ASSUME GateTypeOK, [GateNext]_gateVars PROVE GateTypeOK'
    OBVIOUS
  <2>1. CASE OperationStep /\ UNCHANGED <<policyVars, authorizationVars, protocolCurrent>>
    BY <2>1, OperationStepType
       DEF GateTypeOK, PolicyTypeOK, AuthorizationTypeOK, policyVars, authorizationVars
  <2>2. CASE PolicyStep /\ UNCHANGED <<operationVars, authorizationVars, protocolCurrent>>
    BY <2>2, PolicyStepType
       DEF GateTypeOK, OperationTypeOK, AuthorizationTypeOK, operationVars, authorizationVars
  <2>3. CASE AuthorizationStep /\ UNCHANGED <<operationVars, policyVars, protocolCurrent>>
    BY <2>3, AuthorizationStepType
       DEF GateTypeOK, OperationTypeOK, PolicyTypeOK, operationVars, policyVars
  <2>4. CASE ProtocolChanges \/ UNCHANGED gateVars
    BY <2>4 DEF ProtocolChanges, gateVars, GateTypeOK, OperationTypeOK, PolicyTypeOK,
                AuthorizationTypeOK, operationVars, policyVars, authorizationVars
  <2> QED BY <2>1, <2>2, <2>3, <2>4 DEF GateNext
<1> QED BY <1>1, <1>2, PTL DEF GateSpec

-----------------------------------------------------------------------------
\* Withdrawal

\* A permission row is never removed, and one that has been withdrawn or expired
\* never becomes active again.
LEMMA RevokedRowsStay ==
  ASSUME PolicyTypeOK, [PolicyStep]_policyVars, NEW g \in Grants
  PROVE  /\ permission[g] # "absent" => permission'[g] # "absent"
         /\ permission[g] \in {"withdrawn", "expired"} => permission'[g] \in {"withdrawn", "expired"}
<1>1. CASE \E v \in Versions : ClassifyInput(v)
  BY <1>1 DEF ClassifyInput
<1>2. CASE \E h \in Grants : GrantDataUse(h) \/ WithdrawDataUse(h) \/ ExpireDataUse(h) \/ Lapse(h)
  BY <1>2 DEF PolicyTypeOK, GrantDataUse, WithdrawDataUse, ExpireDataUse, Lapse
<1>3. CASE UNCHANGED policyVars
  BY <1>3 DEF policyVars
<1> QED BY <1>1, <1>2, <1>3 DEF PolicyStep

\* Once a source's permission was withdrawn or expired nothing made from it is
\* disclosed again (policy-store, disclosure-gateway).
THEOREM WithdrawalIsMonotonic == GateSpec => RevokedForGood
<1>1. PolicyTypeOK /\ [PolicyStep]_policyVars =>
        [\A v \in Versions :
           IsWithdrawn({v}) \/ IsExpired({v}) => \A use \in Uses : ~Disclosable({v}, use)']_policyVars
  <2> SUFFICES ASSUME PolicyTypeOK, [PolicyStep]_policyVars, NEW v \in Versions, NEW use \in Uses,
                      IsWithdrawn({v}) \/ IsExpired({v})
               PROVE  ~Disclosable({v}, use)'
    OBVIOUS
  <2>0. PICK w \in Reach({v}) : \E g \in RowsOf(w) : permission[g] \in {"withdrawn", "expired"}
    BY DEF IsWithdrawn, IsExpired
  <2>1. PICK g \in RowsOf(w) : permission[g] \in {"withdrawn", "expired"}
    BY <2>0
  <2>2. g \in Grants /\ permission'[g] \in {"withdrawn", "expired"} /\ Scope[g].version = w
    BY <2>1, RevokedRowsStay DEF RowsOf
  <2>3. IsWithdrawn({v})' \/ IsExpired({v})'
    BY <2>1, <2>2 DEF IsWithdrawn, IsExpired, RowsOf, Reach, Lineages
  <2> QED BY <2>3 DEF Disclosable
<1>2. [GateNext]_gateVars => [PolicyStep]_policyVars
  BY DEF GateNext, ProtocolChanges, gateVars, policyVars
<1>3. GateTypeOK => PolicyTypeOK
  BY DEF GateTypeOK
<1> QED BY <1>1, <1>2, <1>3, GateTypeCorrect, PTL DEF GateSpec, RevokedForGood

-----------------------------------------------------------------------------
\* The fence

\* The step of one operation of the gate.
OperationStepOf(o) ==
  \/ CreateOperation(o) \/ FenceRevokedOperation(o)
  \/ \E phase \in Phases, opts \in Options : Check(o, phase, opts) \/ CheckCutShort(o, phase, opts)
  \/ \E opts \in Options : AcceptCandidate(o, opts) \/ ResumeOperation(o, opts) \/ StartDispatch(o, opts)
  \/ \E s \in CallerStatuses : UpdateStatus(o, s)

\* No operation touches the status or the fence of another.
LEMMA OthersUntouched ==
  ASSUME OperationTypeOK, NEW o \in Operations, NEW p \in Operations, p # o, OperationStepOf(p)
  PROVE  status'[o] = status[o] /\ fenced'[o] = fenced[o]
BY DEF OperationStepOf, OperationTypeOK, ApplyCheck, CreateOperation, FenceRevokedOperation, Check,
       CheckCutShort, AcceptCandidate, ResumeOperation, StartDispatch, UpdateStatus

LEMMA ShutVerdict ==
  ASSUME NEW o \in Operations, fenced[o], NEW phase \in Phases, NEW opts \in Options
  PROVE  Verdict(o, phase, opts) = "shut"
BY DEF Verdict, Shut

LEMMA FencedStep ==
  ASSUME OperationTypeOK, NEW o \in Operations, fenced[o], OperationStepOf(o)
  PROVE  fenced'[o] /\ (status'[o] \in {"running", "accepted"} => status'[o] = status[o])
<1> USE DEF OperationTypeOK, ApplyCheck
<1>1. CASE CreateOperation(o) \/ FenceRevokedOperation(o)
  BY <1>1 DEF CreateOperation, FenceRevokedOperation
<1>2. ASSUME NEW phase \in Phases, NEW opts \in Options, Check(o, phase, opts) \/ CheckCutShort(o, phase, opts)
      PROVE  fenced'[o] /\ status'[o] = status[o]
  <2>1. Verdict(o, phase, opts) = "shut"
    BY ShutVerdict
  <2>2. Check(o, phase, opts)
    BY <1>2, <2>1 DEF CheckCutShort
  <2> QED BY <2>1, <2>2 DEF Check, StatusAfter
<1>3. ASSUME NEW opts \in Options, AcceptCandidate(o, opts)
      PROVE  fenced'[o] /\ (status'[o] \in {"running", "accepted"} => status'[o] = status[o])
  <2>1. Verdict(o, "acceptance", opts) = "shut"
    BY ShutVerdict DEF Phases
  <2>2. status'[o] \in {status[o], "quarantined"} /\ fenced'[o]
    BY <1>3, <2>1 DEF AcceptCandidate, StatusAfter
  <2> QED BY <2>2
<1>4. ASSUME NEW opts \in Options, ResumeOperation(o, opts) \/ StartDispatch(o, opts)
      PROVE  fenced'[o] /\ status'[o] = "blocked"
  <2>1. Verdict(o, "resume", opts) = "shut" /\ Verdict(o, "dispatch", opts) = "shut"
    BY ShutVerdict DEF Phases
  <2> QED BY <1>4, <2>1 DEF ResumeOperation, StartDispatch
<1>5. ASSUME NEW s \in CallerStatuses, UpdateStatus(o, s)
      PROVE  fenced'[o] /\ status'[o] \notin {"running", "accepted"}
  <2>1. s \notin {"running", "accepted"}
    BY GateAssumption
  <2> QED BY <1>5, <2>1 DEF UpdateStatus
<1> QED BY <1>1, <1>2, <1>3, <1>4, <1>5 DEF OperationStepOf

\* A fenced operation never runs again and has no candidate accepted, whatever
\* is granted, resumed or written later (lifecycle-gate).
THEOREM FenceHolds == GateSpec => FenceIsFinal
<1>1. GateTypeOK /\ [GateNext]_gateVars =>
        [\A o \in Operations :
           fenced[o] => fenced'[o] /\ (status'[o] \in {"running", "accepted"} => status'[o] = status[o])]_gateVars
  <2> SUFFICES ASSUME GateTypeOK, GateNext, NEW o \in Operations, fenced[o]
               PROVE  fenced'[o] /\ (status'[o] \in {"running", "accepted"} => status'[o] = status[o])
    OBVIOUS
  <2>1. CASE OperationStep
    <3>1. PICK p \in Operations : OperationStepOf(p)
      BY <2>1 DEF OperationStep, OperationStepOf
    <3> QED BY <3>1, OthersUntouched, FencedStep DEF GateTypeOK
  <2>2. CASE UNCHANGED operationVars
    BY <2>2 DEF operationVars
  <2> QED BY <2>1, <2>2 DEF GateNext, ProtocolChanges
<1> QED BY <1>1, GateTypeCorrect, PTL DEF GateSpec, FenceIsFinal

-----------------------------------------------------------------------------
\* Starts and acceptances

\* An unclassified input never passes.
LEMMA PassMeansClassified ==
  ASSUME NEW o \in Operations, NEW phase, NEW use, InputsVerdict(o, phase, use) = "pass"
  PROVE  Inputs(o) \subseteq classified
<1> SUFFICES ASSUME NEW i \in DOMAIN snapshot[o].inputs PROVE snapshot[o].inputs[i] \in classified
  BY DEF Inputs
<1>1. InputVerdict(snapshot[o].inputs[i], phase, use) = "pass"
  BY DEF InputsVerdict
<1> QED BY <1>1 DEF InputVerdict

\* What a verdict of "pass" means for an operation.
LEMMA PassVerdict ==
  ASSUME NEW o \in Operations, NEW phase, NEW opts, Verdict(o, phase, opts) = "pass"
  PROVE  /\ Population(o) # None => Permitted(Population(o))
         /\ snapshot[o].protocol => protocolCurrent
         /\ InputsVerdict(o, phase, opts.use) = "pass"
  BY DEF Verdict, AuthorizationVerdict
\* The conditions under which an operation may be running or accepted anew.
Authorized(o) ==
  /\ Inputs(o) \subseteq classified
  /\ Population(o) # None => latest.status = "approving" /\ latest.scope = Population(o)
  /\ snapshot[o].protocol => protocolCurrent

LEMMA PassIsAuthorized ==
  ASSUME NEW o \in Operations, NEW phase, NEW opts, Verdict(o, phase, opts) = "pass"
  PROVE  Authorized(o)
BY PassVerdict, PassMeansClassified DEF Authorized, Permitted

LEMMA NewlyActive ==
  ASSUME OperationTypeOK, NEW o \in Operations, OperationStepOf(o),
         status'[o] # status[o], status'[o] \in {"running", "accepted"}
  PROVE  Authorized(o)
<1> USE DEF OperationTypeOK, ApplyCheck
<1>1. ~CreateOperation(o) /\ ~FenceRevokedOperation(o)
  BY DEF CreateOperation, FenceRevokedOperation
<1>2. ASSUME NEW phase \in Phases, NEW opts \in Options, Check(o, phase, opts) \/ CheckCutShort(o, phase, opts)
      PROVE  FALSE
  BY <1>2 DEF Check, CheckCutShort, StatusAfter
<1>3. ASSUME NEW opts \in Options, AcceptCandidate(o, opts) PROVE Authorized(o)
  <2>1. Verdict(o, "acceptance", opts) = "pass"
    BY <1>3 DEF AcceptCandidate, StatusAfter
  <2> QED BY <2>1, PassIsAuthorized
<1>4. ASSUME NEW opts \in Options, ResumeOperation(o, opts) \/ StartDispatch(o, opts) PROVE Authorized(o)
  <2>1. Verdict(o, "resume", opts) = "pass" \/ Verdict(o, "dispatch", opts) = "pass"
    BY <1>4 DEF ResumeOperation, StartDispatch
  <2> QED BY <2>1, PassIsAuthorized
<1>5. ASSUME NEW s \in CallerStatuses, UpdateStatus(o, s) PROVE FALSE
  <2>1. s \notin {"running", "accepted"}
    BY GateAssumption
  <2> QED BY <1>5, <2>1 DEF UpdateStatus
<1> QED BY <1>1, <1>2, <1>3, <1>4, <1>5 DEF OperationStepOf

\* An operation starts running and a candidate is accepted only with classified
\* inputs, the activity's latest authorization and current protocols
\* (lifecycle-gate).
THEOREM StartsAreAuthorized == GateSpec => AcceptedUnderAuthorization
<1>1. GateTypeOK /\ [GateNext]_gateVars =>
        [\A o \in Operations :
           status'[o] # status[o] /\ status'[o] \in {"running", "accepted"} => Authorized(o)]_gateVars
  <2> SUFFICES ASSUME GateTypeOK, GateNext, NEW o \in Operations,
                      status'[o] # status[o], status'[o] \in {"running", "accepted"}
               PROVE  Authorized(o)
    OBVIOUS
  <2>1. OperationStep
    BY DEF GateNext, ProtocolChanges, operationVars
  <2>2. PICK p \in Operations : OperationStepOf(p)
    BY <2>1 DEF OperationStep, OperationStepOf
  <2> QED BY <2>2, OthersUntouched, NewlyActive DEF GateTypeOK
<1> QED BY <1>1, GateTypeCorrect, PTL DEF GateSpec, AcceptedUnderAuthorization, Authorized

-----------------------------------------------------------------------------
\* Disclosure and the gate

\* An input of a disclosable set passes the gate's checks of it.
LEMMA DisclosableInputPasses ==
  ASSUME NEW V \in SUBSET Versions, NEW v \in V, NEW use \in Uses, NEW phase \in Phases,
         Disclosable(V, use)
  PROVE  InputVerdict(v, phase, use) = "pass" /\ InputVerdict(v, phase, None) = "pass"
<1>1. v \in Reach(V)
  BY InputsReachLess
<1>2. Allows(v, use) /\ v \in classified
  BY <1>1 DEF Disclosable, Allows
<1>3. Disclosable({v}, use)
  BY <1>1, DisclosureIsInherited
<1>4. use # None /\ use # Local
  BY GateAssumption
<1>5. EvaluationVerdict(v, use) = "pass"
  BY <1>2, <1>4 DEF EvaluationVerdict
<1>6. RestrictionVerdict(v, phase) = "pass"
  BY <1>3 DEF RestrictionVerdict, Disclosable
<1> QED BY <1>2, <1>4, <1>5, <1>6 DEF InputVerdict

\* What the disclosure gateway allows the gate does not stop: the two sets of
\* rules the runtime consults never disagree in that direction.
THEOREM GateCoversDisclosure == GateSpec => []DisclosureWithinGate
<1>1. GateTypeOK => DisclosureWithinGate
  <2> SUFFICES ASSUME GateTypeOK, NEW o \in Operations, NEW use \in Uses,
                      NEW phase \in Phases \ {"dispatch"}, Disclosable(Inputs(o), use),
                      NEW named \in {use, None}
               PROVE  InputsVerdict(o, phase, named) = "pass"
    BY DEF DisclosureWithinGate
  <2>1. Inputs(o) \in SUBSET Versions
    BY GateAssumption DEF GateTypeOK, OperationTypeOK, Inputs
  <2>2. ASSUME NEW i \in DOMAIN snapshot[o].inputs
        PROVE  InputVerdict(snapshot[o].inputs[i], phase, named) = "pass"
    <3>1. snapshot[o].inputs[i] \in Inputs(o)
      BY DEF Inputs
    <3> QED BY <2>1, <3>1, DisclosableInputPasses
  <2> QED BY <2>2 DEF InputsVerdict
<1> QED BY <1>1, GateTypeCorrect, PTL
=============================================================================
