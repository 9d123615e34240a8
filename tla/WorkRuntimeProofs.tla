-------------------------- MODULE WorkRuntimeProofs --------------------------
(***************************************************************************)
(* Proofs about WorkRuntime, for every set of runs, every contract and every *)
(* bound: type correctness, and that a fenced run never calls its provider   *)
(* again.                                                                   *)
(*                                                                         *)
(* The second needs an invariant: before a local call dispatchRun reads the  *)
(* statuses of the run and of its operation, not the fence, and the statuses *)
(* are overwritten by other steps.                                          *)
(***************************************************************************)
EXTENDS WorkRuntime, TLAPS

\* What the statuses of a fenced run can be.
Shut(r) ==
  fenced[r] => \/ op[r] \in {"fenced", "cancelled", "blocked"}
               \/ op[r] = "quarantined" /\ run[r] = "cancelled"
FenceShut == \A r \in Runs : Shut(r)

\* A run that does not exist is neither fenced nor dispatched.
AbsentIsIdle ==
  \A r \in Runs : run[r] = "absent" => ~fenced[r] /\ ~late[r] /\ task[r].pc = "idle"

\* From its admission to the end of an attempt a dispatch has an admission row.
SlotHeld ==
  \A r \in Runs : task[r].pc \in {"waiting", "admitted", "calling", "returned"} => slots[r] > 0

IInv == TypeOK /\ FenceShut /\ AbsentIsIdle /\ SlotHeld

\* The types of the variables, by the part of the state they belong to.
Statuses ==
  /\ run \in [Runs -> RunStatuses] /\ op \in [Runs -> OpStatuses]
  /\ fenced \in [Runs -> BOOLEAN]
Candidates == accepted \in [Runs -> Nat] /\ quarantined \in [Runs -> Nat]

-----------------------------------------------------------------------------
\* Lemmas about the operators the actions share

LEMMA ZeroType == Zero \in [Dimensions -> Nat] /\ Budget!NothingUsed \in [Dimensions -> Nat]
BY DEF Zero, Budget!NothingUsed

LEMMA IdleType == Idle \in Tasks /\ Idle.pc = "idle"
BY ZeroType DEF Idle, Tasks, Steps, Outcomes

LEMMA AmountType ==
  ASSUME NEW r \in Runs, NEW d \in Dimensions
  PROVE  Budget!Amount(r)[d] \in Nat
BY WorkAssumption DEF Budget!BudgetConstants, Budget!Amount

LEMMA NoRowsType == Budget!NoRows \in Budget!Rows
BY ZeroType DEF Budget!NoRows, Budget!Rows

\* Every ledger operation keeps the ledger well formed.
LEMMA HoldType ==
  ASSUME NEW r \in Runs, ledger \in [Runs -> Budget!Rows], Budget!Hold(r)
  PROVE  ledger' \in [Runs -> Budget!Rows]
<1>1. [ledger[r] EXCEPT !.uncertain = ledger[r].uncertain \/ ledger[r].booked] \in Budget!Rows
  BY DEF Budget!Rows
<1>2. ledger' = [ledger EXCEPT ![r] = [ledger[r] EXCEPT !.uncertain = ledger[r].uncertain \/ ledger[r].booked]]
  BY DEF Budget!Hold
<1> QED BY <1>1, <1>2

LEMMA SettleType ==
  ASSUME NEW r \in Runs, NEW actuals \in [Dimensions -> Nat],
         ledger \in [Runs -> Budget!Rows], Budget!Settle(r, actuals)
  PROVE  ledger' \in [Runs -> Budget!Rows]
<1>1. Budget!Closed(r, actuals) \in Budget!Rows
  BY DEF Budget!Rows, Budget!Closed
<1> QED BY <1>1 DEF Budget!Settle

LEMMA FreeType ==
  ASSUME NEW r \in Runs, ledger \in [Runs -> Budget!Rows], Budget!Free(r)
  PROVE  ledger' \in [Runs -> Budget!Rows]
BY ZeroType, SettleType DEF Budget!Free

LEMMA ReserveType ==
  ASSUME NEW r \in Runs, NEW quoted, ledger \in [Runs -> Budget!Rows], Budget!Reserve(r, quoted)
  PROVE  ledger' \in [Runs -> Budget!Rows]
<1> DEFINE any == \E d \in Dimensions : Budget!Amount(r)[d] > 0
           row == [Budget!NoRows EXCEPT !.booked = any, !.open = any]
<1>1. row \in Budget!Rows
  BY NoRowsType DEF Budget!Rows
<1>2. ledger' = [ledger EXCEPT ![r] = row]
  BY DEF Budget!Reserve
<1> QED BY <1>1, <1>2

-----------------------------------------------------------------------------
\* A step of one run

\* The statuses and the fence of one run change, and a fence comes with statuses
\* that a fenced run may have.
Marked(r) ==
  \E status \in RunStatuses \ {"absent"}, o \in OpStatuses, f \in BOOLEAN :
    /\ run' = [run EXCEPT ![r] = status]
    /\ op' = [op EXCEPT ![r] = o]
    /\ fenced' = [fenced EXCEPT ![r] = f]
    /\ f => o \in {"fenced", "cancelled", "blocked"} \/ (o = "quarantined" /\ status = "cancelled")

LEMMA MarkedKeeps ==
  ASSUME IInv, NEW r \in Runs, Marked(r)
  PROVE  Statuses' /\ FenceShut' /\ run'[r] # "absent"
         /\ \A s \in Runs \ {r} : run'[s] = run[s] /\ fenced'[s] = fenced[s]
<1> PICK status \in RunStatuses \ {"absent"}, o \in OpStatuses, f \in BOOLEAN :
      /\ run' = [run EXCEPT ![r] = status]
      /\ op' = [op EXCEPT ![r] = o]
      /\ fenced' = [fenced EXCEPT ![r] = f]
      /\ f => o \in {"fenced", "cancelled", "blocked"} \/ (o = "quarantined" /\ status = "cancelled")
  BY DEF Marked
<1>1. Statuses'
  BY DEF IInv, TypeOK, Statuses
<1>2. FenceShut'
  BY DEF IInv, TypeOK, FenceShut, Shut
<1>3. run'[r] # "absent" /\ \A s \in Runs \ {r} : run'[s] = run[s] /\ fenced'[s] = fenced[s]
  BY DEF IInv, TypeOK
<1> QED BY <1>1, <1>2, <1>3

\* A step that touches none of the three keeps them as they were.
LEMMA UnmarkedKeeps ==
  ASSUME IInv, UNCHANGED <<run, op, fenced>>
  PROVE  Statuses' /\ FenceShut' /\ \A s \in Runs : run'[s] = run[s] /\ fenced'[s] = fenced[s]
BY DEF IInv, TypeOK, Statuses, FenceShut, Shut

\* A check of the gate that fences the operation also sets its status.
LEMMA CheckMarks ==
  ASSUME IInv, NEW r \in Runs, run[r] # "absent", ~fenced[r], op[r] # "cancelled",
         NEW status \in RunStatuses \ {"absent"}, FenceIfRevoked(r),
         Mark(r, status, OpAfterCheck(r)) \/ Mark(r, status, "blocked")
  PROVE  Marked(r)
<1>1. fenced' = [fenced EXCEPT ![r] = Verdict(r) = "fence"]
  BY DEF FenceIfRevoked, FencedAfterCheck
<1>2. OpAfterCheck(r) \in OpStatuses /\ (Verdict(r) = "fence" => OpAfterCheck(r) = "fenced")
  BY DEF OpAfterCheck, IInv, TypeOK, OpStatuses
<1> QED BY <1>1, <1>2 DEF Marked, Mark, OpStatuses

LEMMA SubmissionKeeps ==
  ASSUME IInv, NEW r \in Runs, run[r] # "absent", NEW status \in RunStatuses \ {"absent"},
         status = run[r] \/ run[r] # "cancelled", Submission(r, status)
  PROVE  Marked(r) /\ Candidates'
<1>1. CASE status = "cancelled" \/ op[r] \in {"cancelled", "fenced"}
  <2> DEFINE o == IF op[r] \in {"cancelled", "fenced", "completed"} THEN op[r] ELSE "quarantined"
  <2>1. Mark(r, status, o) /\ Quarantine(r) /\ UNCHANGED fenced
    BY <1>1 DEF Submission, Over
  <2>2. o \in OpStatuses /\ fenced[r] \in BOOLEAN /\ fenced = [fenced EXCEPT ![r] = fenced[r]]
    BY DEF IInv, TypeOK, OpStatuses
  <2>3. fenced[r] => o \in {"fenced", "cancelled", "blocked"} \/ (o = "quarantined" /\ status = "cancelled")
    BY <1>1 DEF IInv, FenceShut, Shut
  <2>4. Marked(r)
    BY <2>1, <2>2, <2>3 DEF Marked, Mark
  <2>5. Candidates'
    BY <2>1 DEF Quarantine, Candidates, IInv, TypeOK
  <2> QED BY <2>4, <2>5
<1>2. CASE ~(status = "cancelled" \/ op[r] \in {"cancelled", "fenced"})
           /\ (status \in {"failed", "succeeded"} \/ op[r] \in {"blocked", "completed"})
  <2>1. Mark(r, status, op[r]) /\ Quarantine(r) /\ UNCHANGED fenced
    BY <1>2 DEF Submission, Over
  <2>2. op[r] \in OpStatuses /\ fenced[r] \in BOOLEAN /\ fenced = [fenced EXCEPT ![r] = fenced[r]]
    BY DEF IInv, TypeOK
  <2>3. fenced[r] => op[r] = "blocked"
    BY <1>2 DEF IInv, FenceShut, Shut
  <2>4. Marked(r)
    BY <2>1, <2>2, <2>3 DEF Marked, Mark
  <2>5. Candidates'
    BY <2>1 DEF Quarantine, Candidates, IInv, TypeOK
  <2> QED BY <2>4, <2>5
<1>3. CASE ~(status = "cancelled" \/ op[r] \in {"cancelled", "fenced"})
           /\ ~(status \in {"failed", "succeeded"} \/ op[r] \in {"blocked", "completed"})
  <2>1. ~fenced[r]
    BY <1>3 DEF IInv, FenceShut, Shut
  <2>2. CASE Verdict(r) # "pass"
    <3>1. Mark(r, status, OpAfterCheck(r)) /\ Quarantine(r) /\ FenceIfRevoked(r)
      BY <1>3, <2>2 DEF Submission, Over
    <3>2. Marked(r)
      BY <1>3, <2>1, <3>1, CheckMarks
    <3>3. Candidates'
      BY <3>1 DEF Quarantine, Candidates, IInv, TypeOK
    <3> QED BY <3>2, <3>3
  <2>3. CASE Verdict(r) = "pass"
    <3>1. Mark(r, "succeeded", "completed") /\ accepted' = [accepted EXCEPT ![r] = accepted[r] + 1]
          /\ UNCHANGED <<quarantined, fenced>>
      BY <1>3, <2>3 DEF Submission, Over
    <3>2. fenced = [fenced EXCEPT ![r] = FALSE]
      BY <2>1 DEF IInv, TypeOK
    <3>3. Marked(r)
      BY <3>1, <3>2 DEF Marked, Mark, RunStatuses, OpStatuses
    <3>4. Candidates'
      BY <3>1 DEF Candidates, IInv, TypeOK
    <3> QED BY <3>3, <3>4
  <2> QED BY <2>2, <2>3
<1> QED BY <1>1, <1>2, <1>3

\* The dispatch of one run moves on, with the admission rows its step needs.
Moved(r) ==
  \E t \in Tasks, n \in Nat :
    /\ task' = [task EXCEPT ![r] = t]
    /\ slots' = [slots EXCEPT ![r] = n]
    /\ t.pc \in {"waiting", "admitted", "calling", "returned"} => n > 0

LEMMA AdmitMoves ==
  ASSUME NEW r \in Runs, NEW t \in Tasks, NEW rows \in Nat, Admit(r, t, rows)
  PROVE  Moved(r)
<1> DEFINE rejected(why) == [t EXCEPT !.pc = "rejected", !.outcome = why]
           entered(step) == [t EXCEPT !.pc = step]
<1>1. ASSUME NEW why \in {"stopped", "exhausted"}
      PROVE  rejected(why) \in Tasks /\ rejected(why).pc = "rejected"
  BY DEF Tasks, Steps, Outcomes
<1>2. ASSUME NEW step \in {"waiting", "admitted"}
      PROVE  entered(step) \in Tasks
  BY DEF Tasks, Steps
<1>3. \/ \E why \in {"stopped", "exhausted"} :
           task' = [task EXCEPT ![r] = rejected(why)] /\ slots' = [slots EXCEPT ![r] = rows]
      \/ \E step \in {"waiting", "admitted"} :
           task' = [task EXCEPT ![r] = entered(step)] /\ slots' = [slots EXCEPT ![r] = rows + 1]
  BY DEF Admit, SlotRows
<1>4. CASE \E why \in {"stopped", "exhausted"} :
             task' = [task EXCEPT ![r] = rejected(why)] /\ slots' = [slots EXCEPT ![r] = rows]
  BY <1>1, <1>4 DEF Moved
<1>5. CASE \E step \in {"waiting", "admitted"} :
             task' = [task EXCEPT ![r] = entered(step)] /\ slots' = [slots EXCEPT ![r] = rows + 1]
  <2>1. rows + 1 \in Nat /\ rows + 1 > 0
    OBVIOUS
  <2> QED BY <1>2, <1>5, <2>1 DEF Moved
<1> QED BY <1>3, <1>4, <1>5

\* A dispatch that is suspended keeps the rest of its record.
LEMMA SuspendMoves ==
  ASSUME IInv, NEW r \in Runs, NEW step \in Steps, Suspend(r, step),
         NEW n \in Nat, slots' = [slots EXCEPT ![r] = n],
         step \in {"waiting", "admitted", "calling", "returned"} => n > 0
  PROVE  Moved(r)
<1> DEFINE t == [task[r] EXCEPT !.pc = step]
<1>1. t \in Tasks /\ t.pc = step
  BY DEF IInv, TypeOK, Tasks
<1>2. task' = [task EXCEPT ![r] = t]
  BY DEF Suspend
<1> QED BY <1>1, <1>2 DEF Moved

LEMMA EndMoves ==
  ASSUME NEW r \in Runs, End(r), NEW n \in Nat, slots' = [slots EXCEPT ![r] = n]
  PROVE  Moved(r)
BY IdleType DEF End, Moved

\* What no action of a dispatch can spoil.
Rest ==
  /\ session \in [Runs -> BOOLEAN]
  /\ authority \in {"clear", "denied", "revoked"}
  /\ inputs \in {"clear", "denied", "revoked", "regranted"}
  /\ content \in BOOLEAN
  /\ calls \in [Runs -> Nat] /\ dropped \in [Runs -> Nat]
  /\ changes \in 0 .. MaxPolicyChanges
  /\ submissions \in 0 .. MaxSubmissions
  /\ crashes \in 0 .. MaxCrashes

\* A step of one existing run keeps the invariant if its parts do.
LEMMA RunStep ==
  ASSUME IInv, NEW r \in Runs, run[r] # "absent",
         Marked(r) \/ UNCHANGED <<run, op, fenced>>,
         Moved(r) \/ UNCHANGED <<task, slots>>,
         late' \in [Runs -> BOOLEAN], \A s \in Runs \ {r} : late'[s] = late[s],
         Candidates', Budget!LedgerTypeOK', Rest'
  PROVE  IInv'
<1>1. Statuses' /\ FenceShut' /\ run'[r] # "absent"
      /\ \A s \in Runs \ {r} : run'[s] = run[s] /\ fenced'[s] = fenced[s]
  BY MarkedKeeps, UnmarkedKeeps DEF IInv, TypeOK
<1>2. /\ task' \in [Runs -> Tasks] /\ slots' \in [Runs -> Nat] /\ SlotHeld'
      /\ \A s \in Runs \ {r} : task'[s] = task[s]
  <2>1. CASE Moved(r)
    <3> PICK t \in Tasks, n \in Nat :
          /\ task' = [task EXCEPT ![r] = t]
          /\ slots' = [slots EXCEPT ![r] = n]
          /\ t.pc \in {"waiting", "admitted", "calling", "returned"} => n > 0
      BY <2>1 DEF Moved
    <3>1. task' \in [Runs -> Tasks] /\ slots' \in [Runs -> Nat] /\ \A s \in Runs \ {r} : task'[s] = task[s]
      BY DEF IInv, TypeOK
    <3>2. SlotHeld'
      BY DEF IInv, TypeOK, SlotHeld
    <3> QED BY <3>1, <3>2
  <2>2. CASE UNCHANGED <<task, slots>>
    BY <2>2 DEF IInv, TypeOK, SlotHeld
  <2> QED BY <2>1, <2>2
<1>3. AbsentIsIdle'
  BY <1>1, <1>2 DEF IInv, AbsentIsIdle
<1>4. TypeOK'
  BY <1>1, <1>2 DEF TypeOK, Statuses, Candidates, Rest
<1> QED BY <1>1, <1>2, <1>3, <1>4 DEF IInv

-----------------------------------------------------------------------------
\* The actions of a dispatch

LEMMA DispatchKeeps ==
  ASSUME IInv, NEW r \in Runs, Dispatch(r)
  PROVE  IInv'
<1>1. run[r] # "absent"
  BY DEF Dispatch
<1>2. Candidates' /\ Rest' /\ contract' = contract /\ late' = late
  BY DEF Dispatch, IInv, TypeOK, Candidates, Rest, policy, history, bounds
<1>3. CASE /\ ~content \/ Verdict(r) # "pass"
           /\ IF content THEN FenceIfRevoked(r) ELSE UNCHANGED fenced
           /\ Budget!Free(r)
           /\ Mark(r, "blocked", "blocked")
           /\ UNCHANGED <<slots, task>>
  <2>1. Budget!LedgerTypeOK'
    BY <1>2, <1>3, FreeType DEF Budget!LedgerTypeOK, IInv, TypeOK
  <2>2. \E f \in BOOLEAN : fenced' = [fenced EXCEPT ![r] = f]
    <3>1. fenced = [fenced EXCEPT ![r] = fenced[r]] /\ fenced[r] \in BOOLEAN
      BY DEF IInv, TypeOK
    <3>2. (fenced[r] \/ Verdict(r) = "fence") \in BOOLEAN
      OBVIOUS
    <3> QED BY <1>3, <3>1, <3>2 DEF FenceIfRevoked, FencedAfterCheck
  <2>3. Marked(r)
    BY <1>3, <2>2 DEF Marked, Mark, RunStatuses, OpStatuses
  <2> QED BY <1>1, <1>2, <1>3, <2>1, <2>3, RunStep DEF IInv, TypeOK
<1>4. CASE Budget!Hold(r) /\ UNCHANGED <<run, op, fenced, slots, task>>
  <2>1. Budget!LedgerTypeOK'
    BY <1>2, <1>4, HoldType DEF Budget!LedgerTypeOK, IInv, TypeOK
  <2> QED BY <1>1, <1>2, <1>4, <2>1, RunStep DEF IInv, TypeOK
<1>5. CASE /\ Verdict(r) = "pass"
           /\ Mark(r, "running", "running")
           /\ \E aborted \in BOOLEAN :
                Admit(r, [Idle EXCEPT !.attempt = 1, !.aborted = aborted], slots[r])
           /\ UNCHANGED <<ledger, fenced>>
  <2>1. Budget!LedgerTypeOK'
    BY <1>2, <1>5 DEF Budget!LedgerTypeOK, IInv, TypeOK
  <2>2. ~fenced[r]
    BY <1>5 DEF Verdict
  <2>3. fenced' = [fenced EXCEPT ![r] = FALSE]
    BY <1>5, <2>2 DEF IInv, TypeOK
  <2>4. Marked(r)
    BY <1>5, <2>3 DEF Marked, Mark, RunStatuses, OpStatuses
  <2>5. Moved(r)
    <3> PICK aborted \in BOOLEAN :
          Admit(r, [Idle EXCEPT !.attempt = 1, !.aborted = aborted], slots[r])
      BY <1>5
    <3>1. [Idle EXCEPT !.attempt = 1, !.aborted = aborted] \in Tasks
      BY IdleType DEF Tasks
    <3>2. slots[r] \in Nat
      BY DEF IInv, TypeOK
    <3> QED BY <3>1, <3>2, AdmitMoves
  <2> QED BY <1>1, <1>2, <2>1, <2>4, <2>5, RunStep DEF IInv, TypeOK
<1> QED BY <1>3, <1>4, <1>5 DEF Dispatch

LEMMA PostWaitKeeps ==
  ASSUME IInv, NEW r \in Runs, PostWait(r)
  PROVE  IInv'
<1>1. run[r] # "absent"
  BY DEF PostWait, IInv, AbsentIsIdle
<1>2. /\ Candidates' /\ Rest' /\ Budget!LedgerTypeOK' /\ late' = late
      /\ UNCHANGED <<run, op, fenced>>
  BY DEF PostWait, IInv, TypeOK, Candidates, Rest, policy, history, bounds, Budget!LedgerTypeOK
<1>3. slots[r] \in Nat /\ slots[r] > 0 /\ slots[r] - 1 \in Nat
      /\ slots = [slots EXCEPT ![r] = slots[r]]
  BY DEF PostWait, IInv, TypeOK, SlotHeld
<1>4. Moved(r)
  <2>1. CASE Suspend(r, "admitted") /\ UNCHANGED slots
    BY <1>3, <2>1, SuspendMoves DEF Steps
  <2>2. CASE /\ task' = [task EXCEPT ![r].pc = "rejected", ![r].outcome = "stopped"]
             /\ SlotRows(r, slots[r] - 1)
    <3> DEFINE t == [task[r] EXCEPT !.pc = "rejected", !.outcome = "stopped"]
    <3> task[r] \in Tasks
      BY DEF IInv, TypeOK
    <3>1. t \in Tasks /\ t.pc = "rejected"
      BY DEF Tasks, Steps, Outcomes
    <3>2. task' = [task EXCEPT ![r] = t]
      BY <2>2 DEF IInv, TypeOK, Tasks
    <3>3. slots' = [slots EXCEPT ![r] = slots[r] - 1]
      BY <2>2 DEF SlotRows
    <3> QED BY <1>3, <3>1, <3>2, <3>3 DEF Moved
  <2> QED BY <2>1, <2>2 DEF PostWait
<1> QED BY <1>1, <1>2, <1>4, RunStep DEF IInv, TypeOK

LEMMA RejectedKeeps ==
  ASSUME IInv, NEW r \in Runs, Rejected(r)
  PROVE  IInv'
<1>1. run[r] # "absent"
  BY DEF Rejected, IInv, AbsentIsIdle
<1>2. /\ Candidates' /\ Rest' /\ contract' = contract /\ late' = late
      /\ UNCHANGED <<run, op, fenced, slots>>
  BY DEF Rejected, IInv, TypeOK, Candidates, Rest, records, policy, history, bounds
<1>3. Budget!LedgerTypeOK'
  BY <1>2, HoldType DEF Rejected, Budget!LedgerTypeOK, IInv, TypeOK
<1>4. Moved(r)
  <2>1. slots' = [slots EXCEPT ![r] = slots[r]] /\ slots[r] \in Nat
    BY <1>2 DEF IInv, TypeOK
  <2>2. \E step \in {"thenCancel", "thenFail"} : Suspend(r, step)
    BY DEF Rejected
  <2> QED BY <2>1, <2>2, SuspendMoves DEF Steps
<1> QED BY <1>1, <1>2, <1>3, <1>4, RunStep DEF IInv, TypeOK

LEMMA AfterSettleKeeps ==
  ASSUME IInv, NEW r \in Runs, AfterSettle(r)
  PROVE  IInv'
<1>1. run[r] # "absent"
  BY DEF AfterSettle, IInv, AbsentIsIdle
<1>2. /\ Candidates' /\ Rest' /\ Budget!LedgerTypeOK' /\ late' = late /\ slots' = slots
  BY DEF AfterSettle, IInv, TypeOK, Candidates, Rest, policy, history, bounds, Budget!LedgerTypeOK
<1>3. Moved(r)
  <2>1. slots' = [slots EXCEPT ![r] = slots[r]] /\ slots[r] \in Nat
    BY <1>2 DEF IInv, TypeOK
  <2> QED BY <2>1, EndMoves DEF AfterSettle
<1>4. Marked(r) \/ UNCHANGED <<run, op, fenced>>
  <2>1. CASE \E status \in {"failed", "blocked"} : Mark(r, status, "blocked") /\ UNCHANGED fenced
    <3>1. fenced' = [fenced EXCEPT ![r] = fenced[r]] /\ fenced[r] \in BOOLEAN
      BY <2>1 DEF IInv, TypeOK
    <3> QED BY <2>1, <3>1 DEF Marked, Mark, RunStatuses, OpStatuses
  <2>2. CASE Mark(r, "cancelled", "cancelled")
             /\ fenced' = [fenced EXCEPT ![r] = fenced[r] \/ op[r] \notin {"cancelled", "fenced"}]
    <3>1. (fenced[r] \/ op[r] \notin {"cancelled", "fenced"}) \in BOOLEAN
      OBVIOUS
    <3> QED BY <2>2, <3>1 DEF Marked, Mark, RunStatuses, OpStatuses
  <2> QED BY <2>1, <2>2 DEF AfterSettle, Finalize
<1> QED BY <1>1, <1>2, <1>3, <1>4, RunStep DEF IInv, TypeOK

\* The heart of the matter: a run that passes the checks before its provider call
\* is not fenced, though none of them looks at the fence.
LEMMA UnhaltedIsUnfenced ==
  ASSUME IInv, NEW r \in Runs, run[r] # "cancelled",
         op[r] \notin {"cancelled", "fenced", "blocked"}
  PROVE  ~fenced[r]
BY DEF IInv, FenceShut, Shut

LEMMA ProceedKeeps ==
  ASSUME IInv, NEW r \in Runs, Proceed(r)
  PROVE  IInv'
<1>1. run[r] # "absent" /\ task[r].pc = "admitted"
  BY DEF Proceed, IInv, AbsentIsIdle
<1>2. slots[r] \in Nat /\ slots[r] > 0 /\ slots[r] - 1 \in Nat
      /\ slots = [slots EXCEPT ![r] = slots[r]]
  BY <1>1 DEF IInv, TypeOK, SlotHeld
<1>3. Candidates' /\ contract' = contract /\ late' = late
  BY DEF Proceed, IInv, TypeOK, Candidates
<1>4. ASSUME UNCHANGED calls PROVE Rest'
  BY <1>4 DEF Proceed, IInv, TypeOK, Rest, policy, bounds
<1>5. ASSUME Budget!Hold(r) \/ Budget!Free(r) \/ UNCHANGED ledger
      PROVE  Budget!LedgerTypeOK'
  BY <1>3, <1>5, HoldType, FreeType DEF Budget!LedgerTypeOK, IInv, TypeOK
<1>6. CASE /\ fenced' = fenced \/ FenceIfRevoked(r)
           /\ Budget!Free(r) /\ Mark(r, "blocked", "blocked")
           /\ SlotRows(r, slots[r] - 1) /\ End(r)
           /\ UNCHANGED calls
  <2>1. \E f \in BOOLEAN : fenced' = [fenced EXCEPT ![r] = f]
    <3>1. fenced = [fenced EXCEPT ![r] = fenced[r]] /\ fenced[r] \in BOOLEAN
      BY DEF IInv, TypeOK
    <3>2. (fenced[r] \/ Verdict(r) = "fence") \in BOOLEAN
      OBVIOUS
    <3> QED BY <1>6, <3>1, <3>2 DEF FenceIfRevoked, FencedAfterCheck
  <2>2. Marked(r)
    BY <1>6, <2>1 DEF Marked, Mark, RunStatuses, OpStatuses
  <2>3. Moved(r)
    BY <1>2, <1>6, EndMoves DEF SlotRows
  <2> QED BY <1>1, <1>3, <1>4, <1>5, <1>6, <2>2, <2>3, RunStep DEF IInv, TypeOK
<1>7. CASE /\ Budget!Hold(r) /\ SlotRows(r, slots[r] - 1)
           /\ End(r) \/ Suspend(r, "thenCancel")
           /\ UNCHANGED <<run, op, fenced, calls>>
  <2>1. Moved(r)
    BY <1>2, <1>7, EndMoves, SuspendMoves DEF SlotRows, Steps
  <2> QED BY <1>1, <1>3, <1>4, <1>5, <1>7, <2>1, RunStep DEF IInv, TypeOK
<1>8. CASE /\ run[r] # "cancelled" /\ op[r] \notin {"cancelled", "fenced", "blocked"}
           /\ Budget!Hold(r)
           /\ FenceIfRevoked(r) /\ Mark(r, run[r], OpAfterCheck(r))
           /\ SlotRows(r, slots[r] - 1) /\ Suspend(r, "thenBlock")
           /\ UNCHANGED calls
  <2>1. Marked(r)
    <3>1. run[r] \in RunStatuses \ {"absent"}
      BY <1>1 DEF IInv, TypeOK
    <3> QED BY <1>1, <1>8, <3>1, UnhaltedIsUnfenced, CheckMarks
  <2>2. Moved(r)
    BY <1>2, <1>8, SuspendMoves DEF SlotRows, Steps
  <2> QED BY <1>1, <1>3, <1>4, <1>5, <1>8, <2>1, <2>2, RunStep DEF IInv, TypeOK
<1>9. CASE /\ \/ Call(r)
              \/ /\ task' = [task EXCEPT ![r].pc = "returned", ![r].outcome = "expired"]
                 /\ UNCHANGED calls
           /\ UNCHANGED <<ledger, run, op, fenced, slots>>
  <2>1. Moved(r) /\ Rest'
    <3>1. CASE Call(r)
      <4>1. Moved(r)
        BY <1>2, <1>9, <3>1, SuspendMoves DEF Call, Steps
      <4>2. calls' \in [Runs -> Nat]
        BY <3>1 DEF Call, IInv, TypeOK
      <4>3. Rest'
        BY <4>2 DEF Proceed, IInv, TypeOK, Rest, policy, bounds
      <4> QED BY <4>1, <4>3
    <3>2. CASE /\ task' = [task EXCEPT ![r].pc = "returned", ![r].outcome = "expired"]
               /\ UNCHANGED calls
      <4> DEFINE t == [task[r] EXCEPT !.pc = "returned", !.outcome = "expired"]
      <4> task[r] \in Tasks
        BY DEF IInv, TypeOK
      <4>1. t \in Tasks /\ t.pc = "returned"
        BY DEF Tasks, Steps, Outcomes
      <4>2. task' = [task EXCEPT ![r] = t]
        BY <3>2 DEF IInv, TypeOK, Tasks
      <4> QED BY <1>2, <1>4, <1>9, <3>2, <4>1, <4>2 DEF Moved
    <3> QED BY <1>9, <3>1, <3>2
  <2> QED BY <1>1, <1>3, <1>5, <1>9, <2>1, RunStep DEF IInv, TypeOK
<1> QED BY <1>6, <1>7, <1>8, <1>9 DEF Proceed, Halted

\* The ways a provider call ends.
LEMMA AnswerMoves ==
  ASSUME IInv, NEW r \in Runs, task[r].pc = "calling", UNCHANGED slots,
         NEW outcome \in Outcomes, NEW usage \in [Dimensions -> Nat], Answer(r, outcome, usage)
  PROVE  run[r] # "absent" /\ Moved(r)
<1> DEFINE t == [task[r] EXCEPT !.pc = "returned", !.outcome = outcome, !.usage = usage]
<1> task[r] \in Tasks
  BY DEF IInv, TypeOK
<1>1. t \in Tasks
  BY DEF Tasks, Steps
<1>2. task' = [task EXCEPT ![r] = t]
  BY DEF Answer, IInv, TypeOK, Tasks
<1>3. slots[r] \in Nat /\ slots[r] > 0 /\ slots' = [slots EXCEPT ![r] = slots[r]]
  BY DEF IInv, TypeOK, SlotHeld
<1> QED BY <1>1, <1>2, <1>3 DEF Moved, IInv, AbsentIsIdle

LEMMA CallEndKeeps ==
  ASSUME IInv, NEW r \in Runs, ProviderAnswers(r) \/ TimeoutFires(r) \/ AbortObserved(r)
  PROVE  IInv'
<1>1. /\ Candidates' /\ Rest' /\ Budget!LedgerTypeOK'
      /\ UNCHANGED <<run, op, fenced, slots>>
      /\ late' = late \/ late' = [late EXCEPT ![r] = TRUE]
  BY DEF ProviderAnswers, TimeoutFires, AbortObserved, IInv, TypeOK, Candidates, Rest,
         records, policy, history, bounds, Budget!LedgerTypeOK
<1>2. late' \in [Runs -> BOOLEAN] /\ \A s \in Runs \ {r} : late'[s] = late[s]
  BY <1>1 DEF IInv, TypeOK
<1>3. run[r] # "absent" /\ Moved(r)
  <2>1. \E outcome \in Outcomes, usage \in [Dimensions -> Nat] : Answer(r, outcome, usage)
    BY WorkAssumption, ZeroType DEF ProviderAnswers, TimeoutFires, AbortObserved, Outcomes
  <2> QED BY <1>1, <2>1, AnswerMoves DEF ProviderAnswers, TimeoutFires, AbortObserved
<1> QED BY <1>1, <1>2, <1>3, RunStep

LEMMA LateAnswerKeeps ==
  ASSUME IInv, NEW r \in Runs, LateAnswer(r)
  PROVE  IInv'
<1>1. run[r] \in RunStatuses \ {"absent"}
  BY DEF LateAnswer, IInv, TypeOK, AbsentIsIdle
<1>2. /\ Rest' /\ Budget!LedgerTypeOK' /\ UNCHANGED <<task, slots>>
      /\ late' \in [Runs -> BOOLEAN] /\ \A s \in Runs \ {r} : late'[s] = late[s]
  BY DEF LateAnswer, IInv, TypeOK, Rest, policy, history, bounds, Budget!LedgerTypeOK
<1>3. Candidates' /\ (Marked(r) \/ UNCHANGED <<run, op, fenced>>)
  <2>1. CASE Submission(r, run[r])
    BY <1>1, <2>1, SubmissionKeeps
  <2>2. CASE (Quarantine(r) \/ UNCHANGED <<accepted, quarantined>>) /\ UNCHANGED <<run, op, fenced>>
    BY <2>2 DEF Quarantine, Candidates, IInv, TypeOK
  <2> QED BY <2>1, <2>2 DEF LateAnswer
<1> QED BY <1>1, <1>2, <1>3, RunStep

LEMMA CountedType ==
  ASSUME IInv, NEW r \in Runs
  PROVE  Counted(r) \in Tasks /\ Actuals(Counted(r)) \in [Dimensions -> Nat]
<1> DEFINE made == IF task[r].outcome = "expired" THEN task[r].made ELSE task[r].made + 1
           used == [d \in Dimensions |-> task[r].used[d] + task[r].usage[d]]
<1> task[r] \in Tasks
  BY DEF IInv, TypeOK
<1>1. made \in Nat /\ used \in [Dimensions -> Nat]
  BY DEF Tasks
<1>2. Counted(r) = [task[r] EXCEPT !.made = made, !.used = used, !.usage = Zero]
  BY DEF Counted
<1> HIDE DEF made, used
<1>3. Counted(r) \in Tasks
  BY <1>1, <1>2, ZeroType DEF Tasks
<1>4. Actuals(Counted(r)) \in [Dimensions -> Nat]
  BY <1>3, WorkAssumption DEF Actuals, CallsUsed, Tasks
<1> QED BY <1>3, <1>4

LEMMA NextAttemptType ==
  ASSUME NEW t \in Tasks
  PROVE  [t EXCEPT !.attempt = t.attempt + 1, !.outcome = "none"] \in Tasks
<1>1. t.attempt + 1 \in Nat
  BY DEF Tasks
<1> QED BY <1>1 DEF Tasks, Outcomes

LEMMA ReturnedKeeps ==
  ASSUME IInv, NEW r \in Runs, Returned(r)
  PROVE  IInv'
<1> DEFINE t == Counted(r)
           rows == slots[r] - 1
           Keep == UNCHANGED <<fenced, accepted, quarantined>>
           Submit(status) == Submission(r, status) \/ (Mark(r, status, op[r]) /\ Keep)
<1>1. run[r] \in RunStatuses \ {"absent"}
  BY DEF Returned, IInv, TypeOK, AbsentIsIdle
<1>2. rows \in Nat
  BY DEF Returned, IInv, TypeOK, SlotHeld
<1>3. contract' = contract /\ late' = late
  BY DEF Returned
<1>4. Rest'
  <2>1. session' \in [Runs -> BOOLEAN]
    BY DEF Returned, IInv, TypeOK
  <2>2. dropped' \in [Runs -> Nat]
    BY DEF Returned, IInv, TypeOK
  <2> QED BY <2>1, <2>2 DEF Returned, IInv, TypeOK, Rest, policy, bounds
<1>5. Budget!LedgerTypeOK'
  <2>1. Budget!Hold(r) \/ UNCHANGED ledger \/ Budget!Settle(r, Actuals(t))
    BY DEF Returned
  <2> QED BY <1>3, <2>1, CountedType, HoldType, SettleType DEF Budget!LedgerTypeOK, IInv, TypeOK
<1>6. Moved(r)
  <2>1. CASE SlotRows(r, rows) /\ (End(r) \/ Suspend(r, "thenCancel") \/ Suspend(r, "thenFail"))
    BY <1>2, <2>1, EndMoves, SuspendMoves DEF SlotRows, Steps
  <2>2. CASE Admit(r, [t EXCEPT !.attempt = t.attempt + 1, !.outcome = "none"], rows)
    <3>1. [t EXCEPT !.attempt = t.attempt + 1, !.outcome = "none"] \in Tasks
      BY CountedType, NextAttemptType
    <3> QED BY <1>2, <2>2, <3>1, AdmitMoves
  <2> QED BY <2>1, <2>2 DEF Returned
<1>7. Candidates' /\ (Marked(r) \/ UNCHANGED <<run, op, fenced>>)
  <2>1. ASSUME NEW status \in RunStatuses \ {"absent"}, Submit(status),
               status = run[r] \/ run[r] # "cancelled"
        PROVE  Candidates' /\ Marked(r)
    <3>1. CASE Submission(r, status)
      BY <1>1, <2>1, <3>1, SubmissionKeeps
    <3>2. CASE Mark(r, status, op[r]) /\ Keep
      <4>1. fenced' = [fenced EXCEPT ![r] = fenced[r]] /\ fenced[r] \in BOOLEAN /\ op[r] \in OpStatuses
        BY <3>2 DEF IInv, TypeOK
      <4>2. fenced[r] => \/ op[r] \in {"fenced", "cancelled", "blocked"}
                         \/ op[r] = "quarantined" /\ status = "cancelled"
        BY <2>1 DEF IInv, FenceShut, Shut
      <4> QED BY <3>2, <4>1, <4>2 DEF Marked, Mark, Candidates, IInv, TypeOK
    <3> QED BY <2>1, <3>1, <3>2
  <2>2. CASE Submit(run[r])
    BY <1>1, <2>1, <2>2
  <2>3. CASE Submit("running") /\ run[r] # "cancelled"
    BY <2>1, <2>3 DEF RunStatuses
  <2>4. CASE Mark(r, "failed", "blocked") /\ Keep
    <3>1. fenced' = [fenced EXCEPT ![r] = fenced[r]] /\ fenced[r] \in BOOLEAN
      BY <2>4 DEF IInv, TypeOK
    <3> QED BY <2>4, <3>1 DEF Marked, Mark, RunStatuses, OpStatuses, Candidates, IInv, TypeOK
  <2>5. CASE Keep /\ UNCHANGED <<run, op>>
    BY <2>5 DEF Candidates, IInv, TypeOK
  <2> QED BY <2>2, <2>3, <2>4, <2>5 DEF Returned
<1> QED BY <1>1, <1>3, <1>4, <1>5, <1>6, <1>7, RunStep DEF IInv, TypeOK

-----------------------------------------------------------------------------
\* The queue, the owner, the world, and crashes

LEMMA EnqueueKeeps ==
  ASSUME IInv, NEW r \in Runs, NEW quoted, Enqueue(r, quoted)
  PROVE  IInv'
<1>1. run[r] = "absent" /\ ~fenced[r] /\ task[r].pc = "idle"
  BY DEF Enqueue, IInv, AbsentIsIdle
<1>2. Candidates' /\ Rest' /\ contract' = contract /\ UNCHANGED <<fenced, task, late, slots>>
  BY DEF Enqueue, IInv, TypeOK, Candidates, Rest, policy, history, bounds
<1>3. Budget!LedgerTypeOK'
  BY <1>2, ReserveType DEF Enqueue, Budget!LedgerTypeOK, IInv, TypeOK
<1>4. run' = [run EXCEPT ![r] = "queued"] /\ op' = [op EXCEPT ![r] = "queued"]
  BY DEF Enqueue, Mark
<1>5. Statuses' /\ FenceShut' /\ AbsentIsIdle'
  BY <1>1, <1>2, <1>4 DEF Statuses, RunStatuses, OpStatuses, FenceShut, Shut, AbsentIsIdle, IInv, TypeOK
<1> QED BY <1>2, <1>3, <1>5 DEF IInv, TypeOK, Statuses, Candidates, Rest, SlotHeld

LEMMA PauseKeeps ==
  ASSUME IInv, NEW r \in Runs, PauseRun(r)
  PROVE  IInv'
<1>1. /\ Candidates' /\ Rest' /\ Budget!LedgerTypeOK' /\ UNCHANGED <<task, slots, late, fenced>>
      /\ run[r] # "absent" /\ Mark(r, "waiting-for-human", "blocked")
  BY DEF PauseRun, IInv, TypeOK, Candidates, Rest, policy, history, bounds, Budget!LedgerTypeOK
<1>2. fenced' = [fenced EXCEPT ![r] = fenced[r]] /\ fenced[r] \in BOOLEAN
  BY <1>1 DEF IInv, TypeOK
<1>3. Marked(r)
  BY <1>1, <1>2 DEF Marked, Mark, RunStatuses, OpStatuses
<1> QED BY <1>1, <1>3, RunStep DEF IInv, TypeOK

LEMMA SubmitKeeps ==
  ASSUME IInv, NEW r \in Runs, SubmitCandidate(r)
  PROVE  IInv'
<1>1. run[r] \in RunStatuses \ {"absent"}
  BY DEF SubmitCandidate, IInv, TypeOK
<1>2. Rest' /\ Budget!LedgerTypeOK' /\ UNCHANGED <<task, slots, late>>
  BY WorkAssumption DEF SubmitCandidate, IInv, TypeOK, Rest, policy, history, Budget!LedgerTypeOK
<1>3. Candidates' /\ (Marked(r) \/ UNCHANGED <<run, op, fenced>>)
  <2>1. CASE Submission(r, run[r])
    BY <1>1, <2>1, SubmissionKeeps
  <2>2. CASE Quarantine(r) /\ UNCHANGED <<run, op, fenced>>
    BY <2>2 DEF Quarantine, Candidates, IInv, TypeOK
  <2> QED BY <2>1, <2>2 DEF SubmitCandidate
<1> QED BY <1>1, <1>2, <1>3, RunStep DEF IInv, TypeOK

\* A signal changes no dispatch's step.
LEMMA SignalKeeps ==
  ASSUME IInv, NEW S, Signal(S)
  PROVE  task' \in [Runs -> Tasks] /\ \A r \in Runs : task'[r].pc = task[r].pc
<1> SUFFICES ASSUME NEW r \in Runs
             PROVE  task'[r] \in Tasks /\ task'[r].pc = task[r].pc
  BY DEF Signal
<1>1. task[r] \in Tasks
  BY DEF IInv, TypeOK
<1>2. task'[r] = task[r] \/ task'[r] = [task[r] EXCEPT !.aborted = TRUE]
  BY DEF Signal
<1> QED BY <1>1, <1>2 DEF Tasks

LEMMA AbortSignalKeeps ==
  ASSUME IInv, NEW r \in Runs, AbortSignal(r)
  PROVE  IInv'
<1>1. task' \in [Runs -> Tasks] /\ \A s \in Runs : task'[s].pc = task[s].pc
  BY SignalKeeps DEF AbortSignal
<1>2. /\ Statuses' /\ Candidates' /\ Rest' /\ Budget!LedgerTypeOK'
      /\ UNCHANGED <<run, op, fenced, late, slots>>
  BY DEF AbortSignal, IInv, TypeOK, Statuses, Candidates, Rest, records, policy, history, bounds,
         Budget!LedgerTypeOK
<1>3. FenceShut'
  BY <1>2 DEF IInv, FenceShut, Shut
<1>4. AbsentIsIdle' /\ SlotHeld'
  BY <1>1, <1>2 DEF IInv, AbsentIsIdle, SlotHeld
<1>5. TypeOK'
  BY <1>1, <1>2 DEF IInv, TypeOK, Statuses, Candidates, Rest
<1> QED BY <1>3, <1>4, <1>5 DEF IInv

LEMMA CancelKeeps ==
  ASSUME IInv, NEW S, \A r \in S : run[r] # "absent", CancelAll(S),
         contract' \in [Versions -> Budget!ContractStatuses]
  PROVE  IInv'
<1>1. task' \in [Runs -> Tasks] /\ \A s \in Runs : task'[s].pc = task[s].pc
  BY SignalKeeps DEF CancelAll
<1>2. Candidates' /\ Rest' /\ Budget!LedgerTypeOK' /\ UNCHANGED <<late, slots>>
  BY DEF CancelAll, IInv, TypeOK, Candidates, Rest, policy, history, bounds, Budget!LedgerTypeOK
<1>3. Statuses'
  BY DEF CancelAll, IInv, TypeOK, Statuses, RunStatuses, OpStatuses
<1>4. FenceShut'
  BY DEF CancelAll, IInv, FenceShut, Shut
<1>5. AbsentIsIdle' /\ SlotHeld'
  BY <1>1, <1>2 DEF CancelAll, IInv, AbsentIsIdle, SlotHeld
<1>6. TypeOK'
  BY <1>1, <1>2, <1>3 DEF IInv, TypeOK, Statuses, Candidates, Rest
<1> QED BY <1>4, <1>5, <1>6 DEF IInv

\* After a crash no dispatch is suspended and no promise is pending.
LEMMA RebootKeeps ==
  ASSUME IInv, Reboot, Statuses', FenceShut', Candidates', Budget!LedgerTypeOK',
         UNCHANGED <<slots, session>>,
         \A r \in Runs : run'[r] = "absent" => ~fenced'[r]
  PROVE  IInv'
<1>1. Rest'
  BY WorkAssumption DEF Reboot, IInv, TypeOK, Rest, policy, history
<1>2. /\ task' \in [Runs -> Tasks] /\ late' \in [Runs -> BOOLEAN]
      /\ \A r \in Runs : task'[r].pc = "idle" /\ ~late'[r]
  BY IdleType DEF Reboot
<1>3. TypeOK'
  BY <1>1, <1>2 DEF IInv, TypeOK, Statuses, Candidates, Rest
<1>4. AbsentIsIdle' /\ SlotHeld'
  BY <1>2 DEF AbsentIsIdle, SlotHeld
<1> QED BY <1>3, <1>4 DEF IInv

LEMMA CrashKeeps ==
  ASSUME IInv, Crash
  PROVE  IInv'
<1>1. /\ Statuses' /\ Candidates' /\ Budget!LedgerTypeOK' /\ Reboot
      /\ UNCHANGED <<run, op, fenced, slots, session>>
  BY DEF Crash, IInv, TypeOK, Statuses, Candidates, records, Budget!LedgerTypeOK
<1>2. FenceShut' /\ \A r \in Runs : run'[r] = "absent" => ~fenced'[r]
  BY <1>1 DEF IInv, FenceShut, Shut, AbsentIsIdle
<1> QED BY <1>1, <1>2, RebootKeeps

LEMMA CrashInQueueRunKeeps ==
  ASSUME IInv, NEW r \in Runs, CrashInQueueRun(r)
  PROVE  IInv'
<1>1. Statuses' /\ Candidates' /\ Reboot /\ UNCHANGED <<run, fenced, slots, session>>
  BY DEF CrashInQueueRun, IInv, TypeOK, Statuses, OpStatuses, Candidates
<1>2. Budget!LedgerTypeOK'
  BY ReserveType DEF CrashInQueueRun, Budget!LedgerTypeOK, IInv, TypeOK
<1>3. FenceShut' /\ \A s \in Runs : run'[s] = "absent" => ~fenced'[s]
  BY <1>1 DEF CrashInQueueRun, IInv, TypeOK, FenceShut, Shut, AbsentIsIdle
<1> QED BY <1>1, <1>2, <1>3, RebootKeeps

LEMMA CrashInCancelRunKeeps ==
  ASSUME IInv, NEW r \in Runs, CrashInCancelRun(r)
  PROVE  IInv'
<1>1. /\ Statuses' /\ Candidates' /\ Budget!LedgerTypeOK' /\ Reboot
      /\ UNCHANGED <<run, slots, session>>
  BY DEF CrashInCancelRun, IInv, TypeOK, Statuses, OpStatuses, Candidates, Budget!LedgerTypeOK
<1>2. FenceShut' /\ \A s \in Runs : run'[s] = "absent" => ~fenced'[s]
  BY DEF CrashInCancelRun, IInv, TypeOK, FenceShut, Shut, AbsentIsIdle
<1> QED BY <1>1, <1>2, RebootKeeps

LEMMA CrashInAcceptanceKeeps ==
  ASSUME IInv, NEW r \in Runs, CrashInAcceptance(r)
  PROVE  IInv'
<1>1. Statuses' /\ Candidates' /\ Budget!LedgerTypeOK' /\ Reboot /\ UNCHANGED <<slots, session>>
  BY DEF CrashInAcceptance, IInv, TypeOK, Statuses, RunStatuses, Candidates, Budget!LedgerTypeOK
<1>2. ~fenced[r]
  BY UnhaltedIsUnfenced DEF CrashInAcceptance
<1>3. FenceShut' /\ \A s \in Runs : run'[s] = "absent" => ~fenced'[s]
  BY <1>2 DEF CrashInAcceptance, IInv, TypeOK, FenceShut, Shut, AbsentIsIdle
<1> QED BY <1>1, <1>3, RebootKeeps

\* Steps that touch no run.
LEMMA WorldKeeps ==
  ASSUME IInv,
         UNCHANGED <<run, op, fenced, slots, task, late, accepted, quarantined>>,
         Rest', Budget!LedgerTypeOK'
  PROVE  IInv'
BY DEF IInv, TypeOK, Rest, FenceShut, Shut, AbsentIsIdle, SlotHeld

-----------------------------------------------------------------------------
\* The theorems

LEMMA InitHolds == Init => IInv
<1> SUFFICES ASSUME Init PROVE IInv
  OBVIOUS
<1>1. Budget!LedgerTypeOK
  BY NoRowsType DEF Init, Budget!LedgerInit, Budget!LedgerTypeOK, Budget!ContractStatuses
<1>2. TypeOK
  BY <1>1, IdleType, WorkAssumption DEF Init, TypeOK, RunStatuses, OpStatuses
<1>3. FenceShut /\ AbsentIsIdle /\ SlotHeld
  BY IdleType DEF Init, FenceShut, Shut, AbsentIsIdle, SlotHeld
<1> QED BY <1>2, <1>3 DEF IInv

LEMMA ContractKeeps ==
  ASSUME IInv, NEW v \in Versions,
         AuthorizeContract(v) \/ ReviseContract(v) \/ CancelContract(v)
  PROVE  IInv'
<1>1. contract' \in [Versions -> Budget!ContractStatuses]
  BY DEF AuthorizeContract, ReviseContract, CancelContract, Budget!Authorize, Budget!Revise,
         Budget!CancelVersion, Budget!LedgerTypeOK, Budget!ContractStatuses, IInv, TypeOK
<1>2. CASE AuthorizeContract(v) \/ ReviseContract(v)
  <2>1. /\ Rest' /\ Budget!LedgerTypeOK'
        /\ UNCHANGED <<run, op, fenced, slots, task, late, accepted, quarantined>>
    BY <1>1, <1>2 DEF AuthorizeContract, ReviseContract, Budget!Authorize, Budget!Revise,
       IInv, TypeOK, Rest, records, policy, history, bounds, Budget!LedgerTypeOK
  <2> QED BY <2>1, WorldKeeps
<1>3. CASE CancelContract(v)
  BY <1>1, <1>3, CancelKeeps DEF CancelContract
<1> QED BY <1>2, <1>3

LEMMA PolicyChangeKeeps ==
  ASSUME IInv, PolicyChange
  PROVE  IInv'
<1>1. /\ Budget!LedgerTypeOK' /\ UNCHANGED <<run, op, fenced, slots, task, late, accepted, quarantined>>
  BY DEF PolicyChange, IInv, TypeOK, records, Budget!LedgerTypeOK
<1>2. /\ authority' \in {"clear", "denied", "revoked"} /\ content' \in BOOLEAN
      /\ inputs' \in {"clear", "denied", "revoked", "regranted"}
  BY DEF PolicyChange, IInv, TypeOK
<1>3. changes' \in 0 .. MaxPolicyChanges
  BY WorkAssumption DEF PolicyChange, IInv, TypeOK
<1>4. Rest'
  BY <1>2, <1>3 DEF PolicyChange, IInv, TypeOK, Rest, records, history
<1> QED BY <1>1, <1>4, WorldKeeps

LEMMA StepKeeps == IInv /\ [Next]_vars => IInv'
<1> SUFFICES ASSUME IInv, [Next]_vars PROVE IInv'
  OBVIOUS
<1>1. ASSUME NEW v \in Versions, AuthorizeContract(v) \/ ReviseContract(v) \/ CancelContract(v)
      PROVE  IInv'
  BY <1>1, ContractKeeps
<1>2. ASSUME NEW r \in Runs, QueueRun(r) \/ RetryRun(r)
      PROVE  IInv'
  BY <1>2, EnqueueKeeps DEF QueueRun, RetryRun
<1>3. ASSUME NEW r \in Runs, Dispatch(r) \/ Advance(r)
      PROVE  IInv'
  BY <1>3, DispatchKeeps, PostWaitKeeps, RejectedKeeps, ProceedKeeps, CallEndKeeps,
     ReturnedKeeps, AfterSettleKeeps DEF Advance
<1>4. ASSUME NEW r \in Runs, ProviderAnswers(r) \/ AbortObserved(r) \/ LateAnswer(r)
      PROVE  IInv'
  BY <1>4, CallEndKeeps, LateAnswerKeeps
<1>5. ASSUME NEW r \in Runs, AbortSignal(r) \/ PauseRun(r) \/ SubmitCandidate(r)
      PROVE  IInv'
  BY <1>5, AbortSignalKeeps, PauseKeeps, SubmitKeeps
<1>6. ASSUME NEW r \in Runs, CancelRun(r)
      PROVE  IInv'
  BY <1>6, CancelKeeps DEF CancelRun, IInv, TypeOK, Budget!LedgerTypeOK
<1>7. ASSUME NEW r \in Runs, CrashInQueueRun(r) \/ CrashInCancelRun(r) \/ CrashInAcceptance(r)
      PROVE  IInv'
  BY <1>7, CrashInQueueRunKeeps, CrashInCancelRunKeeps, CrashInAcceptanceKeeps
<1>8. CASE PolicyChange
  BY <1>8, PolicyChangeKeeps
<1>9. CASE Crash
  BY <1>9, CrashKeeps
<1>10. CASE UNCHANGED vars
  <2>1. /\ Rest' /\ Budget!LedgerTypeOK'
        /\ UNCHANGED <<run, op, fenced, slots, task, late, accepted, quarantined>>
    BY <1>10 DEF vars, IInv, TypeOK, Rest, records, policy, history, bounds, Budget!LedgerTypeOK
  <2> QED BY <2>1, WorldKeeps
<1> QED BY <1>1, <1>2, <1>3, <1>4, <1>5, <1>6, <1>7, <1>8, <1>9, <1>10 DEF Next

LEMMA Invariant == Spec => []IInv
BY InitHolds, StepKeeps, PTL DEF Spec

\* The state of the runtime is well formed in every run of every contract.
THEOREM WorkTypeCorrect == Spec => []TypeOK
<1>1. IInv => TypeOK
  BY DEF IInv
<1> QED BY <1>1, Invariant, PTL

\* A provider call starts in one place only, after dispatchRun has read the two
\* statuses, and by FenceShut they tell whether the run is fenced.
LEMMA CallIsUnfenced ==
  ASSUME IInv, [Next]_vars, NEW r \in Runs, fenced[r]
  PROVE  calls'[r] = calls[r]
<1>1. ASSUME NEW s \in Runs, Proceed(s)
      PROVE  calls'[r] = calls[r]
  <2>1. CASE Call(s) /\ run[s] # "cancelled" /\ op[s] \notin {"cancelled", "fenced", "blocked"}
    <3>1. s # r
      BY <2>1, UnhaltedIsUnfenced
    <3> QED BY <2>1, <3>1 DEF Call, IInv, TypeOK
  <2>2. CASE UNCHANGED calls
    BY <2>2
  <2> QED BY <1>1, <2>1, <2>2 DEF Proceed, Halted
<1>2. CASE UNCHANGED calls
  BY <1>2
<1>3. ASSUME NEW v \in Versions, AuthorizeContract(v) \/ ReviseContract(v) \/ CancelContract(v)
      PROVE  UNCHANGED calls
  BY <1>3 DEF AuthorizeContract, ReviseContract, CancelContract, CancelAll, history
<1>4. ASSUME NEW s \in Runs, \/ QueueRun(s) \/ RetryRun(s) \/ Dispatch(s)
                             \/ PostWait(s) \/ Rejected(s) \/ TimeoutFires(s)
                             \/ Returned(s) \/ AfterSettle(s)
      PROVE  UNCHANGED calls
  BY <1>4 DEF QueueRun, RetryRun, Enqueue, Dispatch, PostWait, Rejected, TimeoutFires, Returned,
              AfterSettle, history
<1>5. ASSUME NEW s \in Runs, \/ ProviderAnswers(s) \/ AbortObserved(s) \/ LateAnswer(s)
                             \/ AbortSignal(s) \/ CancelRun(s) \/ PauseRun(s) \/ SubmitCandidate(s)
      PROVE  UNCHANGED calls
  BY <1>5 DEF ProviderAnswers, AbortObserved, LateAnswer, AbortSignal, CancelRun, CancelAll, PauseRun,
              SubmitCandidate, history
<1>6. ASSUME NEW s \in Runs, CrashInQueueRun(s) \/ CrashInCancelRun(s) \/ CrashInAcceptance(s)
      PROVE  UNCHANGED calls
  BY <1>6 DEF CrashInQueueRun, CrashInCancelRun, CrashInAcceptance, Reboot, history
<1>7. CASE PolicyChange \/ Crash \/ UNCHANGED vars
  BY <1>7 DEF PolicyChange, Crash, Reboot, vars, history
<1> QED BY <1>1, <1>2, <1>3, <1>4, <1>5, <1>6, <1>7 DEF Next, Advance

\* A fenced run never calls its provider again, whatever the owner, the other
\* runs, late answers, crashes and policy changes do to its statuses.
THEOREM FencedRunNeverCalls == Spec => NoCallAfterFence
<1>1. IInv /\ [Next]_vars => [\A r \in Runs : fenced[r] => calls'[r] = calls[r]]_vars
  BY CallIsUnfenced
<1> QED BY <1>1, Invariant, PTL DEF Spec, NoCallAfterFence

-----------------------------------------------------------------------------
\* Acceptance

\* What AcceptedOnlyWhenClear asks of a run whose candidate is accepted.
Clear(r) ==
  /\ ~fenced[r] /\ authority = "clear" /\ InputVerdict = "pass"
  /\ run[r] \notin {"cancelled", "succeeded", "failed"}

LEMMA PassIsClear ==
  ASSUME NEW r \in Runs, Verdict(r) = "pass", run[r] \notin {"cancelled", "succeeded", "failed"}
  PROVE  Clear(r)
BY DEF Verdict, Clear

LEMMA SubmissionAccepts ==
  ASSUME IInv, NEW r \in Runs, NEW status,
         status = run[r] \/ run[r] \notin {"cancelled", "succeeded", "failed"},
         Submission(r, status), NEW s \in Runs, accepted'[s] > accepted[s]
  PROVE  Clear(s)
<1>1. \/ UNCHANGED accepted
      \/ /\ status \notin {"cancelled", "failed", "succeeded"} /\ Verdict(r) = "pass"
         /\ accepted' = [accepted EXCEPT ![r] = accepted[r] + 1]
  BY DEF Submission, Over, Quarantine
<1>2. ~UNCHANGED accepted
  BY DEF IInv, TypeOK
<1>3. s = r
  BY <1>1, <1>2 DEF IInv, TypeOK
<1> QED BY <1>1, <1>2, <1>3, PassIsClear

LEMMA AcceptanceIsClear ==
  ASSUME IInv, [Next]_vars, NEW s \in Runs, accepted'[s] > accepted[s]
  PROVE  Clear(s)
<1>1. ~UNCHANGED accepted
  BY DEF IInv, TypeOK
<1>2. ASSUME NEW r \in Runs, LateAnswer(r)
      PROVE  Clear(s)
  BY <1>1, <1>2, SubmissionAccepts DEF LateAnswer, Quarantine
<1>3. ASSUME NEW r \in Runs, SubmitCandidate(r)
      PROVE  Clear(s)
  BY <1>1, <1>3, SubmissionAccepts DEF SubmitCandidate, Quarantine
<1>4. ASSUME NEW r \in Runs, Returned(r)
      PROVE  Clear(s)
  <2>1. \E status \in {run[r], "running"} :
          /\ Submission(r, status)
          /\ status = run[r] \/ run[r] \notin {"cancelled", "succeeded", "failed"}
    BY <1>1, <1>4 DEF Returned
  <2> QED BY <2>1, SubmissionAccepts
<1>5. ASSUME NEW r \in Runs, CrashInAcceptance(r)
      PROVE  Clear(s)
  <2>1. s = r
    BY <1>5 DEF CrashInAcceptance, IInv, TypeOK
  <2> QED BY <1>5, <2>1, PassIsClear DEF CrashInAcceptance
<1>6. ASSUME NEW v \in Versions, AuthorizeContract(v) \/ ReviseContract(v) \/ CancelContract(v)
      PROVE  UNCHANGED accepted
  BY <1>6 DEF AuthorizeContract, ReviseContract, CancelContract, CancelAll, records
<1>7. ASSUME NEW r \in Runs, \/ QueueRun(r) \/ RetryRun(r) \/ Dispatch(r)
                             \/ PostWait(r) \/ Rejected(r) \/ Proceed(r) \/ TimeoutFires(r)
                             \/ AfterSettle(r)
      PROVE  UNCHANGED accepted
  BY <1>7 DEF QueueRun, RetryRun, Enqueue, Dispatch, PostWait, Rejected, Proceed, TimeoutFires,
              AfterSettle, records
<1>8. ASSUME NEW r \in Runs, \/ ProviderAnswers(r) \/ AbortObserved(r) \/ AbortSignal(r)
                             \/ CancelRun(r) \/ PauseRun(r) \/ CrashInQueueRun(r)
                             \/ CrashInCancelRun(r)
      PROVE  UNCHANGED accepted
  BY <1>8 DEF ProviderAnswers, AbortObserved, AbortSignal, CancelRun, CancelAll, PauseRun,
              CrashInQueueRun, CrashInCancelRun, records
<1>9. CASE PolicyChange \/ Crash \/ UNCHANGED vars
  BY <1>1, <1>9 DEF PolicyChange, Crash, vars, records
<1> QED BY <1>1, <1>2, <1>3, <1>4, <1>5, <1>6, <1>7, <1>8, <1>9 DEF Next, Advance

\* No candidate is accepted for a fenced or finished run, or against the policy in
\* force at that moment.
THEOREM AcceptanceRespectsPolicy == Spec => AcceptedOnlyWhenClear
<1>1. IInv /\ [Next]_vars =>
        [\A r \in Runs : accepted'[r] > accepted[r] =>
           /\ ~fenced[r] /\ authority = "clear" /\ InputVerdict = "pass"
           /\ run[r] \notin {"cancelled", "succeeded", "failed"}]_vars
  BY AcceptanceIsClear DEF Clear
<1> QED BY <1>1, Invariant, PTL DEF Spec, AcceptedOnlyWhenClear

\* A call starts in one place only, where what is not refused may be disclosed.
LEMMA CallIsClear ==
  ASSUME IInv, [Next]_vars, External, NEW r \in Runs, calls'[r] > calls[r]
  PROVE  inputs = "clear" /\ authority = "clear"
<1>1. ~UNCHANGED calls
  BY DEF IInv, TypeOK
<1>2. ASSUME NEW s \in Runs, Proceed(s)
      PROVE  inputs = "clear" /\ authority = "clear"
  <2>1. ~Undisclosed /\ Verdict(s) = "pass"
    BY <1>1, <1>2 DEF Proceed
  <2> QED BY <2>1 DEF Undisclosed, Verdict
<1>3. ASSUME NEW v \in Versions, AuthorizeContract(v) \/ ReviseContract(v) \/ CancelContract(v)
      PROVE  UNCHANGED calls
  BY <1>3 DEF AuthorizeContract, ReviseContract, CancelContract, CancelAll, history
<1>4. ASSUME NEW s \in Runs, \/ QueueRun(s) \/ RetryRun(s) \/ Dispatch(s)
                             \/ PostWait(s) \/ Rejected(s) \/ TimeoutFires(s)
                             \/ Returned(s) \/ AfterSettle(s)
      PROVE  UNCHANGED calls
  BY <1>4 DEF QueueRun, RetryRun, Enqueue, Dispatch, PostWait, Rejected, TimeoutFires, Returned,
              AfterSettle, history
<1>5. ASSUME NEW s \in Runs, \/ ProviderAnswers(s) \/ AbortObserved(s) \/ LateAnswer(s)
                             \/ AbortSignal(s) \/ CancelRun(s) \/ PauseRun(s) \/ SubmitCandidate(s)
      PROVE  UNCHANGED calls
  BY <1>5 DEF ProviderAnswers, AbortObserved, LateAnswer, AbortSignal, CancelRun, CancelAll, PauseRun,
              SubmitCandidate, history
<1>6. ASSUME NEW s \in Runs, CrashInQueueRun(s) \/ CrashInCancelRun(s) \/ CrashInAcceptance(s)
      PROVE  UNCHANGED calls
  BY <1>6 DEF CrashInQueueRun, CrashInCancelRun, CrashInAcceptance, Reboot, history
<1>7. CASE PolicyChange \/ Crash \/ UNCHANGED vars
  BY <1>1, <1>7 DEF PolicyChange, Crash, Reboot, vars, history
<1> QED BY <1>1, <1>2, <1>3, <1>4, <1>5, <1>6, <1>7 DEF Next, Advance

\* Under a contract with an external destination every call starts, and every candidate is
\* accepted, under a permission and an authorization of that moment.
THEOREM ExternalStepsAreClear == Spec => [][ExternalStepIsClear]_vars
<1>1. IInv /\ [Next]_vars => [ExternalStepIsClear]_vars
  BY CallIsClear, AcceptanceIsClear DEF Clear, ExternalStepIsClear
<1> QED BY <1>1, Invariant, PTL DEF Spec

-----------------------------------------------------------------------------
\* Refinement of the budget ledger

LEMMA SettleIsLedgerStep ==
  ASSUME IInv, NEW r \in Runs, NEW actuals \in [Dimensions -> Nat],
         Budget!Settle(r, actuals), UNCHANGED contract
  PROVE  Budget!LedgerNext
<1> DEFINE range == UNION {0 .. Budget!Amount(r)[d] : d \in Dimensions}
<1>1. ASSUME NEW d \in Dimensions PROVE actuals[d] \in range
  <2>1. actuals[d] <= Budget!Reserved(r, d)
    BY DEF Budget!Settle, Budget!Within
  <2>2. actuals[d] \in 0 .. Budget!Amount(r)[d]
    BY <2>1, AmountType DEF Budget!Reserved
  <2> QED BY <2>2
<1>2. actuals \in [Dimensions -> range]
  BY <1>1
<1> QED BY <1>2 DEF Budget!LedgerNext

LEMMA LedgerStep ==
  ASSUME IInv, [Next]_vars
  PROVE  [Budget!LedgerNext]_(Budget!ledgerVars)
<1>1. CASE UNCHANGED <<contract, ledger>>
  BY <1>1 DEF Budget!ledgerVars
<1>2. ASSUME NEW r \in Runs, Budget!Hold(r) \/ Budget!Free(r), UNCHANGED contract
      PROVE  Budget!LedgerNext
  <2>1. CASE Budget!Hold(r)
    BY <1>2, <2>1 DEF Budget!LedgerNext
  <2>2. CASE Budget!Free(r)
    BY <1>2, <2>2, ZeroType, SettleIsLedgerStep DEF Budget!Free
  <2> QED BY <1>2, <2>1, <2>2
<1>3. ASSUME NEW r \in Runs, NEW quoted \in BOOLEAN, Budget!Reserve(r, quoted), UNCHANGED contract
      PROVE  Budget!LedgerNext
  BY <1>3 DEF Budget!LedgerNext
<1>4. ASSUME NEW v \in Versions, AuthorizeContract(v) \/ ReviseContract(v) \/ CancelContract(v)
      PROVE  Budget!LedgerNext
  BY <1>4 DEF AuthorizeContract, ReviseContract, CancelContract, CancelAll, Budget!LedgerNext
<1>5. ASSUME NEW r \in Runs, QueueRun(r) \/ RetryRun(r) \/ CrashInQueueRun(r)
      PROVE  Budget!LedgerNext
  <2>1. \E quoted \in BOOLEAN : Budget!Reserve(r, quoted) /\ UNCHANGED contract
    <3>1. (~External \/ Request[r].quoted) \in BOOLEAN /\ (~External) \in BOOLEAN
      OBVIOUS
    <3> QED BY <1>5, <3>1 DEF QueueRun, RetryRun, CrashInQueueRun, Enqueue
  <2> QED BY <1>3, <2>1
<1>6. ASSUME NEW r \in Runs, Returned(r)
      PROVE  [Budget!LedgerNext]_(Budget!ledgerVars)
  <2>1. /\ UNCHANGED contract
        /\ Budget!Hold(r) \/ UNCHANGED ledger \/ Budget!Settle(r, Actuals(Counted(r)))
    BY <1>6 DEF Returned
  <2> QED BY <1>1, <1>2, <2>1, CountedType, SettleIsLedgerStep
<1>7. ASSUME NEW r \in Runs, Dispatch(r) \/ Proceed(r) \/ Rejected(r)
      PROVE  [Budget!LedgerNext]_(Budget!ledgerVars)
  <2>1. /\ UNCHANGED contract
        /\ Budget!Hold(r) \/ Budget!Free(r) \/ UNCHANGED ledger
    BY <1>7 DEF Dispatch, Proceed, Rejected
  <2> QED BY <1>1, <1>2, <2>1
<1>8. ASSUME NEW r \in Runs, PostWait(r) \/ TimeoutFires(r) \/ AfterSettle(r)
      PROVE  UNCHANGED <<contract, ledger>>
  BY <1>8 DEF PostWait, TimeoutFires, AfterSettle
<1>9. ASSUME NEW r \in Runs, \/ ProviderAnswers(r) \/ AbortObserved(r) \/ LateAnswer(r)
                             \/ AbortSignal(r) \/ CancelRun(r) \/ PauseRun(r) \/ SubmitCandidate(r)
                             \/ CrashInCancelRun(r) \/ CrashInAcceptance(r)
      PROVE  UNCHANGED <<contract, ledger>>
  BY <1>9 DEF ProviderAnswers, AbortObserved, LateAnswer, AbortSignal, CancelRun, CancelAll, PauseRun,
              SubmitCandidate, CrashInCancelRun, CrashInAcceptance
<1>10. CASE PolicyChange \/ Crash \/ UNCHANGED vars
  BY <1>1, <1>10 DEF PolicyChange, Crash, vars
<1> QED BY <1>1, <1>4, <1>5, <1>6, <1>7, <1>8, <1>9, <1>10 DEF Next, Advance

\* The work runtime uses the budget ledger only in the ways the ledger's own
\* specification allows: it implements BudgetLedger.
THEOREM RuntimeImplementsLedger == Spec => LedgerDiscipline
<1>1. Init => Budget!LedgerInit
  BY DEF Init
<1>2. IInv /\ [Next]_vars => [Budget!LedgerNext]_(Budget!ledgerVars)
  BY LedgerStep
<1> QED BY <1>1, <1>2, Invariant, PTL DEF Spec, LedgerDiscipline, Budget!LedgerSpec
=============================================================================
