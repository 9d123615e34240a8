--------------------------- MODULE WorkCountsProofs ---------------------------
(***************************************************************************)
(* Proofs about what WorkRuntime counts, for every set of runs, every        *)
(* contract and every bound: the admission rows of a run are given back, a   *)
(* run stays within its reservation of provider calls, one run yields one    *)
(* accepted candidate, and a budget group stays within its limits.           *)
(*                                                                         *)
(* None of the first three is inductive.  Each relates a count that outlives *)
(* a dispatch to where the dispatch of the run is suspended, and what the    *)
(* next dispatch may assume to the status the last one left behind.          *)
(***************************************************************************)
EXTENDS WorkRuntimeProofs, FiniteSetTheorems, WellFoundedInduction

\* The steps at which a dispatch has an admission row.
Holding == {"waiting", "admitted", "calling", "returned"}

\* Without a crash there is one row for each dispatch that holds one, and no other.
RowsCounted(r) ==
  crashes = 0 => slots[r] = IF task[r].pc \in Holding THEN 1 ELSE 0

\* A call that was started and that the dispatch has not counted yet.
Uncounted(r) ==
  IF \/ task[r].pc = "calling"
     \/ task[r].pc = "returned" /\ task[r].outcome # "expired"
  THEN 1 ELSE 0

\* A dispatch that may call found its reservation open and knows of every call made
\* before; a run that can be dispatched again has made none or has nothing reserved.
CallsCounted(r) ==
  /\ calls[r] <= Budget!Amount(r)[Calls]
  /\ ledger[r].open => ledger[r].booked
  /\ run[r] \in {"absent", "queued"} => calls[r] = 0
  /\ run[r] = "blocked" => calls[r] = 0 \/ ~ledger[r].open
  /\ task[r].pc # "idle" => run[r] \notin {"absent", "queued", "blocked"}
  /\ task[r].pc \in Holding =>
       /\ ledger[r].open
       /\ task[r].made < Budget!Amount(r)[Calls]
       /\ calls[r] = task[r].made + Uncounted(r)
  /\ task[r].pc # "thenBlock"

\* A run with an accepted candidate is over and nothing dispatches it again.
OnceCounted(r) ==
  crashes = 0 =>
    /\ accepted[r] <= 1
    /\ accepted[r] > 0 => run[r] \in {"succeeded", "failed", "cancelled"}
    /\ task[r].pc = "thenBlock" =>
         /\ accepted[r] = 0
         /\ op[r] \in {"blocked", "fenced", "cancelled"} \/ run[r] = "cancelled"

\* What holds of one run; the last two under what the code needs for them.
Account(r) ==
  /\ RowsCounted(r)
  /\ (ProtocolBound => External) => CallsCounted(r)
  /\ ~External /\ ~PauseFinished => OnceCounted(r)

Accounts == \A r \in Runs : Account(r)

-----------------------------------------------------------------------------
\* Runs a step is not about

\* Nothing an account speaks of changes for the run.
Same(r) ==
  /\ run'[r] = run[r] /\ op'[r] = op[r] /\ slots'[r] = slots[r]
  /\ ledger'[r] = ledger[r] /\ calls'[r] = calls[r] /\ accepted'[r] = accepted[r]
  /\ task'[r].pc = task[r].pc /\ task'[r].made = task[r].made
  /\ task'[r].outcome = task[r].outcome

LEMMA SameKeeps ==
  ASSUME NEW r \in Runs, Account(r), Same(r), crashes' = crashes
  PROVE  Account(r)'
<1>1. RowsCounted(r)'
  BY DEF Account, RowsCounted, Same
<1>2. ASSUME ProtocolBound => External PROVE CallsCounted(r)'
  BY <1>2 DEF Account, CallsCounted, Uncounted, Same, Budget!Amount
<1>3. ASSUME ~External, ~PauseFinished PROVE OnceCounted(r)'
  BY <1>3 DEF Account, OnceCounted, Same
<1> QED BY <1>1, <1>2, <1>3 DEF Account

\* A step of one run that keeps its account keeps them all.
LEMMA OneAccount ==
  ASSUME Accounts, NEW r \in Runs, Account(r)', crashes' = crashes,
         \A s \in Runs \ {r} : Same(s)
  PROVE  Accounts'
BY SameKeeps DEF Accounts

LEMMA AmountIsNat ==
  ASSUME NEW r \in Runs
  PROVE  Budget!Amount(r)[Calls] \in Nat
BY WorkAssumption, AmountType

\* A ledger operation touches the rows of its run, and only a settlement closes them.
LEMMA HoldRows ==
  ASSUME IInv, NEW r \in Runs, Budget!Hold(r)
  PROVE  /\ ledger'[r].open = ledger[r].open /\ ledger'[r].booked = ledger[r].booked
         /\ \A s \in Runs \ {r} : ledger'[s] = ledger[s]
BY DEF Budget!Hold, IInv, TypeOK, Budget!LedgerTypeOK, Budget!Rows

LEMMA SettleRows ==
  ASSUME IInv, NEW r \in Runs, NEW actuals, Budget!Settle(r, actuals)
  PROVE  /\ ledger[r].booked => ~ledger'[r].open /\ ledger'[r].booked
         /\ ~ledger[r].booked => ledger'[r] = ledger[r]
         /\ \A s \in Runs \ {r} : ledger'[s] = ledger[s]
BY DEF Budget!Settle, Budget!Closed, IInv, TypeOK, Budget!LedgerTypeOK, Budget!Rows

LEMMA FreeRows ==
  ASSUME IInv, NEW r \in Runs, Budget!Free(r)
  PROVE  /\ ledger[r].booked => ~ledger'[r].open /\ ledger'[r].booked
         /\ ~ledger[r].booked => ledger'[r] = ledger[r]
         /\ \A s \in Runs \ {r} : ledger'[s] = ledger[s]
BY SettleRows DEF Budget!Free

-----------------------------------------------------------------------------
\* The actions of a dispatch

\* An attempt is admitted only while a call of the reservation is left.
LEMMA AdmitCounts ==
  ASSUME IInv, NEW r \in Runs, NEW t \in Tasks, NEW rows \in Nat, Admit(r, t, rows)
  PROVE  /\ \/ task'[r].pc = "rejected" /\ slots'[r] = rows
            \/ /\ task'[r].pc \in {"waiting", "admitted"} /\ slots'[r] = rows + 1
               /\ task'[r].made = t.made
               /\ ledger[r].open /\ t.made < Budget!Amount(r)[Calls]
         /\ \A s \in Runs \ {r} : task'[s] = task[s] /\ slots'[s] = slots[s]
<1> USE DEF SlotRows
<1>1. ASSUME NEW why \in {"stopped", "exhausted"},
             task' = [task EXCEPT ![r] = [t EXCEPT !.pc = "rejected", !.outcome = why]],
             SlotRows(r, rows)
      PROVE  /\ task'[r].pc = "rejected" /\ slots'[r] = rows
             /\ \A s \in Runs \ {r} : task'[s] = task[s] /\ slots'[s] = slots[s]
  BY <1>1 DEF IInv, TypeOK, Tasks
<1>2. ASSUME NEW step \in {"waiting", "admitted"}, ~NoCallLeft(r, t, rows),
             task' = [task EXCEPT ![r] = [t EXCEPT !.pc = step]],
             SlotRows(r, rows + 1)
      PROVE  /\ task'[r].pc \in {"waiting", "admitted"} /\ slots'[r] = rows + 1
             /\ task'[r].made = t.made
             /\ ledger[r].open /\ t.made < Budget!Amount(r)[Calls]
             /\ \A s \in Runs \ {r} : task'[s] = task[s] /\ slots'[s] = slots[s]
  <2>1. /\ task'[r].pc \in {"waiting", "admitted"} /\ slots'[r] = rows + 1
        /\ task'[r].made = t.made
        /\ \A s \in Runs \ {r} : task'[s] = task[s] /\ slots'[s] = slots[s]
    BY <1>2 DEF IInv, TypeOK, Tasks
  <2>2. CallsUsed(t) \in Nat /\ CallsUsed(t) >= t.made /\ t.made \in Nat
    BY WorkAssumption DEF CallsUsed, Tasks
  <2>3. Budget!Reserved(r, Calls) > CallsUsed(t)
    BY <1>2, <2>2, AmountIsNat DEF NoCallLeft, Budget!Reserved
  <2>4. ledger[r].open /\ t.made < Budget!Amount(r)[Calls]
    BY <2>2, <2>3, AmountIsNat DEF Budget!Reserved
  <2> QED BY <2>1, <2>4
<1>3. \/ \E why \in {"stopped", "exhausted"} :
           /\ task' = [task EXCEPT ![r] = [t EXCEPT !.pc = "rejected", !.outcome = why]]
           /\ SlotRows(r, rows)
      \/ \E step \in {"waiting", "admitted"} :
           /\ ~NoCallLeft(r, t, rows)
           /\ task' = [task EXCEPT ![r] = [t EXCEPT !.pc = step]]
           /\ SlotRows(r, rows + 1)
  BY DEF Admit
<1> QED BY <1>1, <1>2, <1>3

LEMMA DispatchCounts ==
  ASSUME IInv, Accounts, NEW r \in Runs, Dispatch(r)
  PROVE  Accounts'
<1>1. /\ task[r].pc = "idle" /\ run[r] \in {"queued", "blocked", "waiting-for-human"}
      /\ UNCHANGED <<accepted, calls, crashes>>
  BY DEF Dispatch, history, bounds
<1>2. Account(r)
  BY DEF Accounts
<1>3. CASE /\ Budget!Free(r) /\ Mark(r, "blocked", "blocked")
           /\ UNCHANGED <<slots, task>>
  <2>1. /\ \A s \in Runs \ {r} : Same(s)
        /\ run'[r] = "blocked"
    BY <1>1, <1>3, FreeRows DEF Same, Mark, IInv, TypeOK
  <2>2. RowsCounted(r)'
    BY <1>1, <1>2, <1>3 DEF Account, RowsCounted
  <2>3. ASSUME ProtocolBound => External PROVE CallsCounted(r)'
    BY <1>1, <1>2, <1>3, <2>1, <2>3, FreeRows
       DEF Account, CallsCounted, Holding, Budget!Amount
  <2>4. ASSUME ~External, ~PauseFinished PROVE OnceCounted(r)'
    BY <1>1, <1>2, <1>3, <2>4 DEF Account, OnceCounted
  <2> QED BY <1>1, <2>1, <2>2, <2>3, <2>4, OneAccount DEF Account
<1>4. CASE Budget!Hold(r) /\ UNCHANGED <<run, op, slots, task>>
  <2>1. \A s \in Runs \ {r} : Same(s)
    BY <1>1, <1>4, HoldRows DEF Same
  <2>2. RowsCounted(r)'
    BY <1>1, <1>2, <1>4 DEF Account, RowsCounted
  <2>3. ASSUME ProtocolBound => External PROVE CallsCounted(r)'
    BY <1>1, <1>2, <1>4, <2>3, HoldRows
       DEF Account, CallsCounted, Holding, Budget!Amount
  <2>4. ASSUME ~External, ~PauseFinished PROVE OnceCounted(r)'
    BY <1>1, <1>2, <1>4, <2>4 DEF Account, OnceCounted
  <2> QED BY <1>1, <2>1, <2>2, <2>3, <2>4, OneAccount DEF Account
<1>5. CASE /\ run[r] # "waiting-for-human"
           /\ Mark(r, "running", "running")
           /\ \E aborted \in BOOLEAN :
                Admit(r, [Idle EXCEPT !.attempt = 1, !.aborted = aborted], slots[r])
           /\ UNCHANGED ledger
  <2> PICK aborted \in BOOLEAN :
        Admit(r, [Idle EXCEPT !.attempt = 1, !.aborted = aborted], slots[r])
    BY <1>5
  <2> DEFINE t == [Idle EXCEPT !.attempt = 1, !.aborted = aborted]
  <2>1. t \in Tasks /\ t.made = 0 /\ slots[r] \in Nat
    BY IdleType DEF Tasks, Idle, IInv, TypeOK
  <2> HIDE DEF t
  <2>2. Admit(r, t, slots[r])
    BY DEF t
  <2>3. /\ \/ task'[r].pc = "rejected" /\ slots'[r] = slots[r]
           \/ /\ task'[r].pc \in {"waiting", "admitted"} /\ slots'[r] = slots[r] + 1
              /\ task'[r].made = 0
              /\ ledger[r].open /\ 0 < Budget!Amount(r)[Calls]
        /\ \A s \in Runs \ {r} : task'[s] = task[s] /\ slots'[s] = slots[s]
    BY <2>1, <2>2, AdmitCounts
  <2>4. (\A s \in Runs \ {r} : Same(s)) /\ run'[r] = "running" /\ op'[r] = "running"
    BY <1>1, <1>5, <2>3 DEF Same, Mark, IInv, TypeOK
  <2>5. RowsCounted(r)'
    BY <1>1, <1>2, <2>3 DEF Account, RowsCounted, Holding
  <2>6. ASSUME ProtocolBound => External PROVE CallsCounted(r)'
    <3>1. calls[r] = 0 \/ ~ledger[r].open
      BY <1>1, <1>2, <1>5, <2>6 DEF Account, CallsCounted
    <3>2. Uncounted(r)' = 0
      BY <2>3 DEF Uncounted
    <3> QED BY <1>1, <1>2, <1>5, <2>3, <2>4, <2>6, <3>1, <3>2
         DEF Account, CallsCounted, Holding, Budget!Amount
  <2>7. ASSUME ~External, ~PauseFinished PROVE OnceCounted(r)'
    BY <1>1, <1>2, <2>3, <2>4, <2>7 DEF Account, OnceCounted
  <2> QED BY <1>1, <2>4, <2>5, <2>6, <2>7, OneAccount DEF Account
<1> QED BY <1>3, <1>4, <1>5 DEF Dispatch

LEMMA PostWaitCounts ==
  ASSUME IInv, Accounts, NEW r \in Runs, PostWait(r)
  PROVE  Accounts'
<1>1. /\ task[r].pc = "waiting" /\ UNCHANGED <<run, op, ledger, accepted, calls, crashes>>
      /\ slots[r] \in Nat
  BY DEF PostWait, history, bounds, IInv, TypeOK
<1>2. Account(r)
  BY DEF Accounts
<1>3. /\ \/ task'[r].pc = "rejected" /\ slots'[r] = slots[r] - 1
         \/ task'[r].pc = "admitted" /\ slots'[r] = slots[r]
      /\ task'[r].made = task[r].made
      /\ \A s \in Runs \ {r} : task'[s] = task[s] /\ slots'[s] = slots[s]
  BY DEF PostWait, Suspend, SlotRows, IInv, TypeOK, Tasks
<1>4. \A s \in Runs \ {r} : Same(s)
  BY <1>1, <1>3 DEF Same
<1>5. RowsCounted(r)'
  BY <1>1, <1>2, <1>3 DEF Account, RowsCounted, Holding
<1>6. ASSUME ProtocolBound => External PROVE CallsCounted(r)'
  BY <1>1, <1>2, <1>3, <1>6 DEF Account, CallsCounted, Uncounted, Holding, Budget!Amount
<1>7. ASSUME ~External, ~PauseFinished PROVE OnceCounted(r)'
  BY <1>1, <1>2, <1>3, <1>7 DEF Account, OnceCounted
<1> QED BY <1>1, <1>4, <1>5, <1>6, <1>7, OneAccount DEF Account

LEMMA RejectedCounts ==
  ASSUME IInv, Accounts, NEW r \in Runs, Rejected(r)
  PROVE  Accounts'
<1>1. /\ task[r].pc = "rejected" /\ Budget!Hold(r)
      /\ UNCHANGED <<run, op, slots, accepted, calls, crashes>>
  BY DEF Rejected, records, history, bounds
<1>2. Account(r)
  BY DEF Accounts
<1>3. /\ task'[r].pc \in {"thenCancel", "thenFail"}
      /\ \A s \in Runs \ {r} : task'[s] = task[s]
  BY DEF Rejected, Suspend, IInv, TypeOK, Tasks
<1>4. \A s \in Runs \ {r} : Same(s)
  BY <1>1, <1>3, HoldRows DEF Same
<1>5. RowsCounted(r)'
  BY <1>1, <1>2, <1>3 DEF Account, RowsCounted, Holding
<1>6. ASSUME ProtocolBound => External PROVE CallsCounted(r)'
  BY <1>1, <1>2, <1>3, <1>6, HoldRows DEF Account, CallsCounted, Holding, Budget!Amount
<1>7. ASSUME ~External, ~PauseFinished PROVE OnceCounted(r)'
  BY <1>1, <1>2, <1>3, <1>7 DEF Account, OnceCounted
<1> QED BY <1>1, <1>4, <1>5, <1>6, <1>7, OneAccount DEF Account

\* Whatever is written over the statuses, a run that succeeded is not made
\* dispatchable again.
LEMMA AfterSettleCounts ==
  ASSUME IInv, Accounts, NEW r \in Runs, AfterSettle(r)
  PROVE  Accounts'
<1>1. /\ task[r].pc \in {"thenCancel", "thenFail", "thenBlock"}
      /\ UNCHANGED <<ledger, slots, accepted, calls, crashes>>
  BY DEF AfterSettle, history, bounds
<1>2. Account(r)
  BY DEF Accounts
<1>3. /\ task'[r].pc = "idle"
      /\ \A s \in Runs \ {r} : task'[s] = task[s]
  BY IdleType DEF AfterSettle, End, IInv, TypeOK
<1>4. /\ \/ run'[r] = run[r] \/ run'[r] \in {"cancelled", "failed"}
         \/ task[r].pc = "thenBlock" /\ run'[r] = "blocked"
      /\ \A s \in Runs \ {r} : run'[s] = run[s] /\ op'[s] = op[s]
  BY DEF AfterSettle, Finalize, Mark, IInv, TypeOK
<1>5. \A s \in Runs \ {r} : Same(s)
  BY <1>1, <1>3, <1>4 DEF Same
<1>6. RowsCounted(r)'
  BY <1>1, <1>2, <1>3 DEF Account, RowsCounted, Holding
<1>7. ASSUME ProtocolBound => External PROVE CallsCounted(r)'
  BY <1>1, <1>2, <1>3, <1>4, <1>7 DEF Account, CallsCounted, Holding, Budget!Amount
<1>8. ASSUME ~External, ~PauseFinished PROVE OnceCounted(r)'
  BY <1>1, <1>2, <1>3, <1>4, <1>8 DEF Account, OnceCounted
<1> QED BY <1>1, <1>5, <1>6, <1>7, <1>8, OneAccount DEF Account

\* What the last check before a call finds, and what it leaves.
LEMMA ProceedCounts ==
  ASSUME IInv, Accounts, NEW r \in Runs, Proceed(r)
  PROVE  Accounts'
<1>1. /\ task[r].pc = "admitted" /\ UNCHANGED <<accepted, crashes>>
      /\ slots[r] \in Nat
  BY DEF Proceed, bounds, IInv, TypeOK
<1>2. Account(r)
  BY DEF Accounts
<1>3. CASE /\ External /\ Budget!Free(r) /\ Mark(r, "blocked", "blocked")
           /\ SlotRows(r, slots[r] - 1) /\ End(r) /\ UNCHANGED calls
  <2>1. /\ slots'[r] = slots[r] - 1 /\ task'[r].pc = "idle" /\ run'[r] = "blocked"
        /\ \A s \in Runs \ {r} : Same(s)
    BY <1>1, <1>3, FreeRows, IdleType DEF Same, SlotRows, End, Mark, IInv, TypeOK
  <2>2. RowsCounted(r)'
    BY <1>1, <1>2, <2>1 DEF Account, RowsCounted, Holding
  <2>3. ASSUME ProtocolBound => External PROVE CallsCounted(r)'
    BY <1>1, <1>2, <1>3, <2>1, <2>3, FreeRows DEF Account, CallsCounted, Holding, Budget!Amount
  <2> QED BY <1>1, <1>3, <2>1, <2>2, <2>3, OneAccount DEF Account
<1>4. CASE /\ Budget!Hold(r) /\ SlotRows(r, slots[r] - 1)
           /\ End(r) \/ Suspend(r, "thenCancel")
           /\ UNCHANGED <<run, op, calls>>
  <2>1. /\ slots'[r] = slots[r] - 1 /\ task'[r].pc \in {"idle", "thenCancel"}
        /\ \A s \in Runs \ {r} : Same(s)
    BY <1>1, <1>4, HoldRows, IdleType DEF Same, SlotRows, End, Suspend, IInv, TypeOK, Tasks
  <2>2. RowsCounted(r)'
    BY <1>1, <1>2, <2>1 DEF Account, RowsCounted, Holding
  <2>3. ASSUME ProtocolBound => External PROVE CallsCounted(r)'
    BY <1>1, <1>2, <1>4, <2>1, <2>3, HoldRows DEF Account, CallsCounted, Holding, Budget!Amount
  <2>4. ASSUME ~External, ~PauseFinished PROVE OnceCounted(r)'
    BY <1>1, <1>2, <1>4, <2>1, <2>4 DEF Account, OnceCounted
  <2> QED BY <1>1, <2>1, <2>2, <2>3, <2>4, OneAccount DEF Account
<1>5. CASE /\ ~External /\ ProtocolBound /\ Verdict(r) # "pass"
           /\ run[r] \notin {"succeeded", "failed"} /\ ~Halted(r)
           /\ Budget!Hold(r) /\ Mark(r, run[r], OpAfterCheck(r))
           /\ SlotRows(r, slots[r] - 1) /\ Suspend(r, "thenBlock")
           /\ UNCHANGED calls
  <2>1. /\ slots'[r] = slots[r] - 1 /\ task'[r].pc = "thenBlock"
        /\ run'[r] = run[r] /\ op'[r] = OpAfterCheck(r)
        /\ \A s \in Runs \ {r} : Same(s)
    BY <1>1, <1>5, HoldRows DEF Same, SlotRows, Suspend, Mark, IInv, TypeOK, Tasks
  <2>2. RowsCounted(r)'
    BY <1>1, <1>2, <2>1 DEF Account, RowsCounted, Holding
  <2>3. OpAfterCheck(r) \in {"blocked", "fenced"}
    <3>1. ~fenced[r] /\ op[r] # "cancelled"
      BY <1>5, UnhaltedIsUnfenced DEF Halted
    <3> QED BY <1>5, <3>1 DEF OpAfterCheck, Verdict, InputVerdict
  <2>4. ASSUME ~External, ~PauseFinished PROVE OnceCounted(r)'
    BY <1>1, <1>2, <1>5, <2>1, <2>3, <2>4
       DEF Account, OnceCounted, Halted, IInv, TypeOK
  <2> QED BY <1>1, <1>5, <2>1, <2>2, <2>4, OneAccount DEF Account
<1>6. CASE /\ \/ Call(r)
              \/ /\ task' = [task EXCEPT ![r].pc = "returned", ![r].outcome = "expired"]
                 /\ UNCHANGED calls
           /\ UNCHANGED <<ledger, run, op, slots>>
  <2>1. /\ \/ task'[r].pc = "calling" /\ calls'[r] = calls[r] + 1
           \/ task'[r].pc = "returned" /\ task'[r].outcome = "expired" /\ calls'[r] = calls[r]
        /\ task'[r].made = task[r].made
        /\ \A s \in Runs \ {r} : task'[s] = task[s] /\ calls'[s] = calls[s]
    BY <1>6 DEF Call, Suspend, IInv, TypeOK, Tasks
  <2>2. \A s \in Runs \ {r} : Same(s)
    BY <1>1, <1>6, <2>1 DEF Same
  <2>3. RowsCounted(r)'
    BY <1>1, <1>2, <1>6, <2>1 DEF Account, RowsCounted, Holding
  <2>4. ASSUME ProtocolBound => External PROVE CallsCounted(r)'
    <3>1. task[r].made \in Nat /\ calls[r] \in Nat
      BY DEF IInv, TypeOK, Tasks
    <3>2. calls[r] = task[r].made /\ task[r].made < Budget!Amount(r)[Calls] /\ ledger[r].open
      BY <1>1, <1>2, <2>4, <3>1 DEF Account, CallsCounted, Uncounted, Holding
    <3>3. calls'[r] = task'[r].made + Uncounted(r)'
      BY <2>1, <3>1, <3>2 DEF Uncounted
    <3>4. calls'[r] <= Budget!Amount(r)[Calls]
      BY <2>1, <3>1, <3>2, AmountIsNat
    <3> QED BY <1>1, <1>2, <1>6, <2>1, <2>4, <3>1, <3>2, <3>3, <3>4
         DEF Account, CallsCounted, Holding, Budget!Amount
  <2>5. ASSUME ~External, ~PauseFinished PROVE OnceCounted(r)'
    BY <1>1, <1>2, <1>6, <2>1, <2>5 DEF Account, OnceCounted
  <2> QED BY <1>1, <2>2, <2>3, <2>4, <2>5, OneAccount DEF Account
<1> QED
  <2>1. Undisclosed => External
    BY DEF Undisclosed
  <2> QED BY <1>3, <1>4, <1>5, <1>6, <2>1 DEF Proceed

\* A call that ended is still to be counted by the dispatch.
LEMMA CallEndCounts ==
  ASSUME IInv, Accounts, NEW r \in Runs, ProviderAnswers(r) \/ TimeoutFires(r) \/ AbortObserved(r)
  PROVE  Accounts'
<1>1. /\ task[r].pc = "calling"
      /\ UNCHANGED <<run, op, ledger, slots, accepted, calls, crashes>>
  BY DEF ProviderAnswers, TimeoutFires, AbortObserved, records, history, bounds
<1>2. Account(r)
  BY DEF Accounts
<1>3. /\ task'[r].pc = "returned" /\ task'[r].outcome # "expired"
      /\ task'[r].made = task[r].made
      /\ \A s \in Runs \ {r} : task'[s] = task[s]
  BY DEF ProviderAnswers, TimeoutFires, AbortObserved, Answer, IInv, TypeOK, Tasks
<1>4. \A s \in Runs \ {r} : Same(s)
  BY <1>1, <1>3 DEF Same
<1>5. RowsCounted(r)'
  BY <1>1, <1>2, <1>3 DEF Account, RowsCounted, Holding
<1>6. ASSUME ProtocolBound => External PROVE CallsCounted(r)'
  BY <1>1, <1>2, <1>3, <1>6 DEF Account, CallsCounted, Uncounted, Holding, Budget!Amount
<1>7. ASSUME ~External, ~PauseFinished PROVE OnceCounted(r)'
  BY <1>1, <1>2, <1>3, <1>7 DEF Account, OnceCounted
<1> QED BY <1>1, <1>4, <1>5, <1>6, <1>7, OneAccount DEF Account

\* A submission accepts one candidate of a run that is not over, or leaves its
\* status alone.
LEMMA SubmissionCounts ==
  ASSUME IInv, NEW r \in Runs, NEW status, Submission(r, status)
  PROVE  /\ \/ /\ run'[r] = status /\ accepted'[r] = accepted[r]
               /\ op[r] \in {"blocked", "fenced", "cancelled"} /\ status # "cancelled"
                    => op'[r] = op[r]
            \/ /\ run'[r] = "succeeded" /\ accepted'[r] = accepted[r] + 1
               /\ status \notin {"cancelled", "failed", "succeeded"}
               /\ op[r] \notin {"blocked", "fenced", "cancelled"}
         /\ \A s \in Runs \ {r} :
              run'[s] = run[s] /\ op'[s] = op[s] /\ accepted'[s] = accepted[s]
<1> USE DEF Mark, Quarantine, IInv, TypeOK
<1>1. CASE status = "cancelled" \/ op[r] \in {"cancelled", "fenced"}
  BY <1>1 DEF Submission
<1>2. CASE ~(status = "cancelled" \/ op[r] \in {"cancelled", "fenced"}) /\ Over(r, status)
  BY <1>2 DEF Submission
<1>3. CASE /\ ~(status = "cancelled" \/ op[r] \in {"cancelled", "fenced"})
           /\ ~Over(r, status) /\ Verdict(r) # "pass"
  BY <1>3 DEF Submission, Over
<1>4. CASE /\ ~(status = "cancelled" \/ op[r] \in {"cancelled", "fenced"})
           /\ ~Over(r, status) /\ Verdict(r) = "pass"
  BY <1>4 DEF Submission, Over
<1> QED BY <1>1, <1>2, <1>3, <1>4

\* A submission from outside the dispatch of the run.
LEMMA SubmittedCounts ==
  ASSUME IInv, Accounts, NEW r \in Runs, run[r] # "absent",
         \/ Submission(r, run[r])
         \/ UNCHANGED <<run, op, accepted>>,
         UNCHANGED <<ledger, slots, task, calls, crashes>>
  PROVE  Accounts'
<1>1. Account(r)
  BY DEF Accounts
<1>2. /\ \/ /\ run'[r] = run[r] /\ accepted'[r] = accepted[r]
            /\ op[r] \in {"blocked", "fenced", "cancelled"} /\ run[r] # "cancelled"
                 => op'[r] = op[r]
         \/ /\ run'[r] = "succeeded" /\ accepted'[r] = accepted[r] + 1
            /\ run[r] \notin {"cancelled", "failed", "succeeded"}
            /\ op[r] \notin {"blocked", "fenced", "cancelled"}
      /\ \A s \in Runs \ {r} :
           run'[s] = run[s] /\ op'[s] = op[s] /\ accepted'[s] = accepted[s]
  BY SubmissionCounts
<1>3. \A s \in Runs \ {r} : Same(s)
  BY <1>2 DEF Same
<1>4. RowsCounted(r)'
  BY <1>1 DEF Account, RowsCounted
<1>5. ASSUME ProtocolBound => External PROVE CallsCounted(r)'
  BY <1>1, <1>2, <1>5 DEF Account, CallsCounted, Uncounted, Budget!Amount
<1>6. ASSUME ~External, ~PauseFinished PROVE OnceCounted(r)'
  <2>1. accepted[r] \in Nat
    BY DEF IInv, TypeOK
  <2> QED BY <1>1, <1>2, <1>6, <2>1 DEF Account, OnceCounted
<1> QED BY <1>3, <1>4, <1>5, <1>6, OneAccount DEF Account

LEMMA OutsideCounts ==
  ASSUME IInv, Accounts, NEW r \in Runs, LateAnswer(r) \/ SubmitCandidate(r)
  PROVE  Accounts'
<1>1. run[r] # "absent" /\ UNCHANGED <<ledger, slots, task, calls, crashes>>
  BY DEF LateAnswer, SubmitCandidate, IInv, AbsentIsIdle, history, bounds
<1>2. Submission(r, run[r]) \/ UNCHANGED <<run, op, accepted>>
  BY DEF LateAnswer, SubmitCandidate, Quarantine
<1> QED BY <1>1, <1>2, SubmittedCounts

\* The dispatch counts the call that ended, unless the deadline forbade it.
LEMMA CountedMade ==
  ASSUME IInv, NEW r \in Runs, CallsCounted(r), task[r].pc = "returned"
  PROVE  Counted(r).made = calls[r] /\ calls[r] \in Nat
<1>1. task[r].made \in Nat
  BY DEF IInv, TypeOK, Tasks
<1>2. Counted(r).made = IF task[r].outcome = "expired" THEN task[r].made ELSE task[r].made + 1
  BY DEF Counted, IInv, TypeOK, Tasks
<1> QED BY <1>1, <1>2 DEF CallsCounted, Uncounted, Holding

\* A dispatch that ends after a call leaves its run over, under way, or paused.
LEMMA EndedCounts ==
  ASSUME IInv, Accounts, NEW r \in Runs, task[r].pc = "returned",
         slots'[r] = slots[r] - 1, UNCHANGED <<calls, crashes>>,
         task'[r].pc \in {"idle", "thenCancel", "thenFail"},
         (ProtocolBound => External) => (ledger'[r].open => ledger'[r].booked),
         \/ run'[r] \in {run[r], "running", "failed"} /\ accepted'[r] = accepted[r]
         \/ /\ run'[r] = "succeeded" /\ accepted'[r] = accepted[r] + 1
            /\ run[r] \notin {"cancelled", "failed", "succeeded"},
         run'[r] = "running" => run[r] \notin {"cancelled", "failed", "succeeded"},
         \A s \in Runs \ {r} : Same(s)
  PROVE  Accounts'
<1>1. Account(r) /\ slots[r] \in Nat /\ accepted[r] \in Nat
  BY DEF Accounts, IInv, TypeOK
<1>2. RowsCounted(r)'
  BY <1>1 DEF Account, RowsCounted, Holding
<1>3. ASSUME ProtocolBound => External PROVE CallsCounted(r)'
  BY <1>1, <1>3 DEF Account, CallsCounted, Holding, Budget!Amount
<1>4. ASSUME ~External, ~PauseFinished PROVE OnceCounted(r)'
  BY <1>1, <1>4 DEF Account, OnceCounted
<1> QED BY <1>2, <1>3, <1>4, OneAccount DEF Account

LEMMA EndTask ==
  ASSUME IInv, NEW r \in Runs,
         End(r) \/ Suspend(r, "thenCancel") \/ Suspend(r, "thenFail")
  PROVE  /\ task'[r].pc \in {"idle", "thenCancel", "thenFail"}
         /\ \A s \in Runs \ {r} : task'[s] = task[s]
BY IdleType DEF End, Suspend, IInv, TypeOK, Tasks

LEMMA ReturnedCounts ==
  ASSUME IInv, Accounts, NEW r \in Runs, Returned(r)
  PROVE  Accounts'
<1> DEFINE t == Counted(r)
           rows == slots[r] - 1
           Keep == UNCHANGED <<fenced, accepted, quarantined>>
           Submit(status) == Submission(r, status) \/ (Mark(r, status, op[r]) /\ Keep)
           stale == run[r] \in {"cancelled", "waiting-for-human", "succeeded", "failed"}
<1>1. /\ task[r].pc = "returned" /\ UNCHANGED <<calls, crashes>>
      /\ Account(r) /\ slots[r] \in Nat /\ rows \in Nat
  BY DEF Returned, bounds, Accounts, IInv, TypeOK, SlotHeld
<1>2. ASSUME Budget!Hold(r) \/ Budget!Settle(r, Actuals(t))
      PROVE  (ProtocolBound => External) => (ledger'[r].open => ledger'[r].booked)
  BY <1>1, <1>2, HoldRows, SettleRows DEF Account, CallsCounted
<1>3. ASSUME Budget!Hold(r) \/ Budget!Settle(r, Actuals(t))
      PROVE  \A s \in Runs \ {r} : ledger'[s] = ledger[s]
  BY <1>3, HoldRows, SettleRows
<1>4. CASE /\ Budget!Hold(r) /\ (Suspend(r, "thenCancel") \/ Suspend(r, "thenFail"))
           /\ SlotRows(r, rows) /\ Keep /\ UNCHANGED <<run, op>>
  <2>1. slots'[r] = slots[r] - 1 /\ \A s \in Runs \ {r} : Same(s)
    BY <1>1, <1>3, <1>4, EndTask DEF Same, SlotRows, IInv, TypeOK
  <2> QED BY <1>1, <1>2, <1>4, <2>1, EndTask, EndedCounts
<1>5. CASE /\ Budget!Hold(r) /\ End(r) /\ Submit(run[r]) /\ SlotRows(r, rows)
  <2>1. /\ slots'[r] = slots[r] - 1 /\ \A s \in Runs \ {r} : Same(s)
        /\ \/ run'[r] = run[r] /\ accepted'[r] = accepted[r]
           \/ /\ run'[r] = "succeeded" /\ accepted'[r] = accepted[r] + 1
              /\ run[r] \notin {"cancelled", "failed", "succeeded"}
    BY <1>1, <1>3, <1>5, EndTask, SubmissionCounts DEF Same, SlotRows, Mark, IInv, TypeOK
  <2> QED BY <1>1, <1>2, <1>5, <2>1, EndTask, EndedCounts
<1>6. CASE /\ ~stale /\ Budget!Settle(r, Actuals(t)) /\ End(r) /\ Submit("running")
           /\ SlotRows(r, rows)
  <2>1. /\ slots'[r] = slots[r] - 1 /\ \A s \in Runs \ {r} : Same(s)
        /\ \/ run'[r] = "running" /\ accepted'[r] = accepted[r]
           \/ run'[r] = "succeeded" /\ accepted'[r] = accepted[r] + 1
    BY <1>1, <1>3, <1>6, EndTask, SubmissionCounts DEF Same, SlotRows, Mark, IInv, TypeOK
  <2> QED BY <1>1, <1>2, <1>6, <2>1, EndTask, EndedCounts
<1>7. CASE /\ Budget!Hold(r) /\ End(r) /\ Mark(r, "failed", "blocked")
           /\ SlotRows(r, rows) /\ Keep
  <2>1. /\ slots'[r] = slots[r] - 1 /\ \A s \in Runs \ {r} : Same(s)
        /\ run'[r] = "failed" /\ accepted'[r] = accepted[r]
    BY <1>1, <1>3, <1>7, EndTask DEF Same, SlotRows, Mark, IInv, TypeOK
  <2> QED BY <1>1, <1>2, <1>7, <2>1, EndTask, EndedCounts
<1>8. CASE /\ task[r].outcome = "failure"
           /\ Admit(r, [t EXCEPT !.attempt = t.attempt + 1, !.outcome = "none"], rows)
           /\ Keep /\ UNCHANGED <<ledger, run, op>>
  <2> DEFINE u == [t EXCEPT !.attempt = t.attempt + 1, !.outcome = "none"]
  <2>1. u \in Tasks /\ u.made = t.made
    BY CountedType, NextAttemptType DEF Tasks
  <2> HIDE DEF u
  <2>2. Admit(r, u, rows)
    BY <1>8 DEF u
  <2>3. /\ \/ task'[r].pc = "rejected" /\ slots'[r] = rows
           \/ /\ task'[r].pc \in {"waiting", "admitted"} /\ slots'[r] = rows + 1
              /\ task'[r].made = t.made
              /\ ledger[r].open /\ t.made < Budget!Amount(r)[Calls]
        /\ \A s \in Runs \ {r} : task'[s] = task[s] /\ slots'[s] = slots[s]
    BY <1>1, <2>1, <2>2, AdmitCounts
  <2>4. \A s \in Runs \ {r} : Same(s)
    BY <1>1, <1>8, <2>3 DEF Same
  <2>5. RowsCounted(r)'
    BY <1>1, <2>3 DEF Account, RowsCounted, Holding
  <2>6. ASSUME ProtocolBound => External PROVE CallsCounted(r)'
    <3>1. t.made = calls[r] /\ calls[r] \in Nat
      BY <1>1, <2>6, CountedMade DEF Account
    <3>2. Uncounted(r)' = 0
      BY <2>3 DEF Uncounted
    <3> QED BY <1>1, <1>8, <2>3, <2>6, <3>1, <3>2
         DEF Account, CallsCounted, Holding, Budget!Amount
  <2>7. ASSUME ~External, ~PauseFinished PROVE OnceCounted(r)'
    BY <1>1, <1>8, <2>3, <2>7 DEF Account, OnceCounted
  <2> QED BY <1>1, <2>4, <2>5, <2>6, <2>7, OneAccount DEF Account
<1> QED BY <1>4, <1>5, <1>6, <1>7, <1>8 DEF Returned

-----------------------------------------------------------------------------
\* The queue, the owner, the world, and crashes

LEMMA ReserveRows ==
  ASSUME IInv, NEW r \in Runs, NEW quoted, Budget!Reserve(r, quoted)
  PROVE  /\ ledger'[r].open => ledger'[r].booked
         /\ \A s \in Runs \ {r} : ledger'[s] = ledger[s]
<1> DEFINE any == \E d \in Dimensions : Budget!Amount(r)[d] > 0
           row == [Budget!NoRows EXCEPT !.booked = any, !.open = any]
<1>1. row.open = any /\ row.booked = any
  BY DEF Budget!NoRows
<1> HIDE DEF any
<1>2. ledger' = [ledger EXCEPT ![r] = row]
  BY DEF Budget!Reserve, any
<1> HIDE DEF row
<1>3. ledger'[r] = row /\ \A s \in Runs \ {r} : ledger'[s] = ledger[s]
  BY <1>2 DEF IInv, TypeOK, Budget!LedgerTypeOK
<1> QED BY <1>1, <1>3

LEMMA EnqueueCounts ==
  ASSUME IInv, Accounts, NEW r \in Runs, NEW quoted, Enqueue(r, quoted)
  PROVE  Accounts'
<1>1. /\ run[r] = "absent" /\ task[r].pc = "idle" /\ run'[r] = "queued"
      /\ UNCHANGED <<slots, task, accepted, calls, crashes>>
  BY DEF Enqueue, Mark, IInv, TypeOK, AbsentIsIdle, history, bounds
<1>2. Account(r)
  BY DEF Accounts
<1>3. Budget!Reserve(r, quoted)
  BY DEF Enqueue
<1>4. \A s \in Runs \ {r} : Same(s)
  BY <1>1, <1>3, ReserveRows DEF Enqueue, Mark, Same, IInv, TypeOK
<1>5. RowsCounted(r)'
  BY <1>1, <1>2 DEF Account, RowsCounted
<1>6. ASSUME ProtocolBound => External PROVE CallsCounted(r)'
  BY <1>1, <1>2, <1>3, <1>6, ReserveRows DEF Account, CallsCounted, Holding, Budget!Amount
<1>7. ASSUME ~External, ~PauseFinished PROVE OnceCounted(r)'
  BY <1>1, <1>2, <1>7 DEF Account, OnceCounted
<1> QED BY <1>1, <1>4, <1>5, <1>6, <1>7, OneAccount DEF Account

LEMMA PauseCounts ==
  ASSUME IInv, Accounts, NEW r \in Runs, PauseRun(r)
  PROVE  Accounts'
<1>1. /\ run'[r] = "waiting-for-human" /\ op'[r] = "blocked"
      /\ PauseFinished \/ run[r] \notin {"succeeded", "failed", "cancelled"}
      /\ \A s \in Runs \ {r} : run'[s] = run[s] /\ op'[s] = op[s]
      /\ UNCHANGED <<ledger, slots, task, accepted, calls, crashes>>
  BY DEF PauseRun, Mark, IInv, TypeOK, history, bounds
<1>2. Account(r) /\ accepted[r] \in Nat
  BY DEF Accounts, IInv, TypeOK
<1>3. \A s \in Runs \ {r} : Same(s)
  BY <1>1 DEF Same
<1>4. RowsCounted(r)'
  BY <1>1, <1>2 DEF Account, RowsCounted
<1>5. ASSUME ProtocolBound => External PROVE CallsCounted(r)'
  BY <1>1, <1>2, <1>5 DEF Account, CallsCounted, Uncounted, Budget!Amount
<1>6. ASSUME ~External, ~PauseFinished PROVE OnceCounted(r)'
  BY <1>1, <1>2, <1>6 DEF Account, OnceCounted
<1> QED BY <1>1, <1>3, <1>4, <1>5, <1>6, OneAccount DEF Account

\* A signal touches nothing an account speaks of.
LEMMA SignalCounts ==
  ASSUME IInv, NEW S, Signal(S), NEW r \in Runs
  PROVE  /\ task'[r].pc = task[r].pc /\ task'[r].made = task[r].made
         /\ task'[r].outcome = task[r].outcome
BY DEF Signal, IInv, TypeOK, Tasks

\* A run is cancelled at every step of its dispatch.
LEMMA CancelCounts ==
  ASSUME IInv, Accounts, NEW S, CancelAll(S)
  PROVE  Accounts'
<1> SUFFICES ASSUME NEW r \in Runs
             PROVE  Account(r)'
  BY DEF Accounts
<1>1. /\ UNCHANGED <<ledger, slots, accepted, calls, crashes>>
      /\ task'[r].pc = task[r].pc /\ task'[r].made = task[r].made
      /\ task'[r].outcome = task[r].outcome
      /\ Account(r)
  BY SignalCounts DEF CancelAll, Accounts, history, bounds
<1>2. CASE r \notin S
  <2>1. Same(r)
    BY <1>1, <1>2 DEF CancelAll, Same
  <2> QED BY <1>1, <2>1, SameKeeps
<1>3. CASE r \in S
  <2>1. run'[r] = "cancelled" /\ op'[r] = "cancelled"
    BY <1>3 DEF CancelAll
  <2>2. RowsCounted(r)'
    BY <1>1 DEF Account, RowsCounted
  <2>3. ASSUME ProtocolBound => External PROVE CallsCounted(r)'
    BY <1>1, <2>1, <2>3 DEF Account, CallsCounted, Uncounted, Budget!Amount
  <2>4. ASSUME ~External, ~PauseFinished PROVE OnceCounted(r)'
    BY <1>1, <2>1, <2>4 DEF Account, OnceCounted
  <2> QED BY <2>2, <2>3, <2>4 DEF Account
<1> QED BY <1>2, <1>3

\* After a crash only the calls are still counted, and no dispatch is under way.
LEMMA RebootCounts ==
  ASSUME IInv, Accounts, Reboot,
         \A r \in Runs :
           /\ ledger'[r] = ledger[r] \/ (run[r] = "absent" /\ (ledger'[r].open => ledger'[r].booked))
           /\ run'[r] = run[r] \/ run'[r] = "succeeded"
  PROVE  Accounts'
<1> SUFFICES ASSUME NEW r \in Runs
             PROVE  Account(r)'
  BY DEF Accounts
<1>1. /\ crashes' # 0 /\ UNCHANGED calls /\ task'[r].pc = "idle" /\ Account(r)
  BY WorkAssumption, IdleType DEF Reboot, IInv, TypeOK, Accounts, history
<1>2. RowsCounted(r)' /\ OnceCounted(r)'
  BY <1>1 DEF RowsCounted, OnceCounted
<1>3. ASSUME ProtocolBound => External PROVE CallsCounted(r)'
  BY <1>1, <1>3 DEF Account, CallsCounted, Holding, Budget!Amount
<1> QED BY <1>2, <1>3 DEF Account

LEMMA CrashCounts ==
  ASSUME IInv, Accounts,
         \/ Crash
         \/ \E r \in Runs : CrashInQueueRun(r) \/ CrashInCancelRun(r) \/ CrashInAcceptance(r)
  PROVE  Accounts'
<1>1. CASE Crash
  BY <1>1, RebootCounts DEF Crash, records
<1>2. ASSUME NEW r \in Runs, CrashInQueueRun(r) PROVE Accounts'
  BY <1>2, ReserveRows, RebootCounts DEF CrashInQueueRun
<1>3. ASSUME NEW r \in Runs, CrashInCancelRun(r) PROVE Accounts'
  BY <1>3, RebootCounts DEF CrashInCancelRun
<1>4. ASSUME NEW r \in Runs, CrashInAcceptance(r) PROVE Accounts'
  <2>1. \A s \in Runs : run'[s] = run[s] \/ run'[s] = "succeeded"
    BY <1>4 DEF CrashInAcceptance, IInv, TypeOK
  <2> QED BY <1>4, <2>1, RebootCounts DEF CrashInAcceptance
<1> QED BY <1>1, <1>2, <1>3, <1>4

LEMMA UntouchedCounts ==
  ASSUME Accounts, UNCHANGED <<run, op, ledger, slots, accepted, calls, crashes>>,
         \A r \in Runs : /\ task'[r].pc = task[r].pc /\ task'[r].made = task[r].made
                         /\ task'[r].outcome = task[r].outcome
  PROVE  Accounts'
BY SameKeeps DEF Accounts, Same

-----------------------------------------------------------------------------
\* The theorems

LEMMA AccountsInitially == Init => Accounts
<1> SUFFICES ASSUME Init, NEW r \in Runs PROVE Account(r)
  BY DEF Accounts
<1>1. /\ run[r] = "absent" /\ task[r].pc = "idle" /\ slots[r] = 0 /\ calls[r] = 0
      /\ accepted[r] = 0 /\ ~ledger[r].open
  BY IdleType DEF Init, Budget!LedgerInit, Budget!NoRows
<1>2. Budget!Amount(r)[Calls] \in Nat
  BY AmountIsNat
<1> QED BY <1>1, <1>2 DEF Account, RowsCounted, CallsCounted, OnceCounted, Holding

LEMMA AccountsStep == IInv /\ Accounts /\ [Next]_vars => Accounts'
<1> SUFFICES ASSUME IInv, Accounts, [Next]_vars PROVE Accounts'
  OBVIOUS
<1>1. ASSUME NEW v \in Versions, AuthorizeContract(v) \/ ReviseContract(v)
      PROVE  Accounts'
  BY <1>1, UntouchedCounts DEF AuthorizeContract, ReviseContract, Budget!Authorize, Budget!Revise,
     records, history, bounds
<1>2. ASSUME NEW v \in Versions, CancelContract(v)
      PROVE  Accounts'
  BY <1>2, CancelCounts DEF CancelContract
<1>3. ASSUME NEW r \in Runs, QueueRun(r) \/ RetryRun(r)
      PROVE  Accounts'
  BY <1>3, EnqueueCounts DEF QueueRun, RetryRun
<1>4. ASSUME NEW r \in Runs, Dispatch(r) \/ Advance(r)
      PROVE  Accounts'
  BY <1>4, DispatchCounts, PostWaitCounts, RejectedCounts, ProceedCounts, CallEndCounts,
     ReturnedCounts, AfterSettleCounts DEF Advance
<1>5. ASSUME NEW r \in Runs, ProviderAnswers(r) \/ AbortObserved(r)
      PROVE  Accounts'
  BY <1>5, CallEndCounts
<1>6. ASSUME NEW r \in Runs, LateAnswer(r) \/ SubmitCandidate(r)
      PROVE  Accounts'
  BY <1>6, OutsideCounts
<1>7. ASSUME NEW r \in Runs, AbortSignal(r)
      PROVE  Accounts'
  BY <1>7, SignalCounts, UntouchedCounts DEF AbortSignal, records, history, bounds
<1>8. ASSUME NEW r \in Runs, CancelRun(r)
      PROVE  Accounts'
  BY <1>8, CancelCounts DEF CancelRun
<1>9. ASSUME NEW r \in Runs, PauseRun(r)
      PROVE  Accounts'
  BY <1>9, PauseCounts
<1>10. CASE \/ Crash
            \/ \E r \in Runs : CrashInQueueRun(r) \/ CrashInCancelRun(r) \/ CrashInAcceptance(r)
  BY <1>10, CrashCounts
<1>11. CASE PolicyChange
  BY <1>11, UntouchedCounts DEF PolicyChange, records, history
<1>12. CASE UNCHANGED vars
  BY <1>12, UntouchedCounts DEF vars, records, history, bounds
<1> QED BY <1>1, <1>2, <1>3, <1>4, <1>5, <1>6, <1>7, <1>8, <1>9, <1>10, <1>11, <1>12 DEF Next

LEMMA AccountsInvariant == Spec => []Accounts
BY AccountsInitially, AccountsStep, Invariant, PTL DEF Spec

\* Every way out of an attempt gives its admission row back: as long as nothing
\* crashes a run that is not being dispatched has none.
THEOREM RowsAreReturned == Spec => []AdmissionRowsReturned
<1>1. Accounts => AdmissionRowsReturned
  BY DEF Accounts, Account, RowsCounted, Holding, AdmissionRowsReturned
<1> QED BY <1>1, AccountsInvariant, PTL

\* A run makes no more provider calls than it reserved, over all its attempts and
\* dispatches and whatever crashes, unless it is local and under a protocol.
THEOREM CallsAreReserved ==
  ASSUME ProtocolBound => External
  PROVE  Spec => []CallsWithinReservation
<1>1. Accounts => CallsWithinReservation
  BY DEF Accounts, Account, CallsCounted, CallsWithinReservation
<1> QED BY <1>1, AccountsInvariant, PTL

\* One run yields one accepted candidate at most, at a local provider and while
\* nothing crashes and nobody pauses a run that is over.
THEOREM OneAcceptedCandidate == Spec => []AcceptedOnce
<1>1. Accounts => AcceptedOnce
  BY DEF Accounts, Account, OnceCounted, AcceptedOnce
<1> QED BY <1>1, AccountsInvariant, PTL

-----------------------------------------------------------------------------
\* Sums over a finite set.  The library's fold is a recursive function; that there is one, and what it
\* adds up, follows by minimal counterexamples, which are sets and need no induction over operators.

LEMMA SmallestSubset ==
  ASSUME NEW S, IsFiniteSet(S), NEW B \in SUBSET (SUBSET S), B # {}
  PROVE  \E T \in B : \A x \in T : T \ {x} \notin B
<1>1. \A T \in SUBSET S : IsFiniteSet(T)
  BY FS_Subset
<1>2. B \subseteq FiniteSubsetsOf(S)
  BY <1>1 DEF FiniteSubsetsOf
<1>3. PICK T \in B : \A U \in B : ~(<<U, T>> \in StrictSubsetOrdering(S))
  BY <1>2, FS_StrictSubsetOrderingWellFounded, WFMin
<1>4. ASSUME NEW x \in T, T \ {x} \in B
      PROVE  FALSE
  <2>1. <<T \ {x}, T>> \in StrictSubsetOrdering(S)
    BY DEF StrictSubsetOrdering
  <2> QED BY <2>1, <1>3, <1>4
<1> QED BY <1>4

LEMMA LeastNatural ==
  ASSUME NEW B, B \subseteq Nat, B # {}
  PROVE  \E n \in B : n \in Nat /\ \A m \in Nat : m < n => m \notin B
<1> DEFINE less == {p \in Nat \X Nat : p[1] < p[2]}
<1>1. IsWellFoundedOn(less, Nat)
  BY NatLessThanWellFounded DEF OpToRel
<1>2. \A n, m \in Nat : m < n => <<m, n>> \in less
  OBVIOUS
<1> HIDE DEF less
<1>3. PICK n \in B : \A m \in B : ~(<<m, n>> \in less)
  BY <1>1, WFMin
<1>4. n \in Nat /\ \A m \in Nat : m < n => m \notin B
  BY <1>2, <1>3
<1> QED BY <1>3, <1>4

\* The library adds up a finite set from which it takes out one element after the other.
Picked(T) == CHOOSE x \in T : TRUE
Summand(g, f, T) == IF T = {} THEN 0 ELSE f[Picked(T)] + g[T \ {Picked(T)}]
AddsUp(g, f, S) == g = [T \in SUBSET S |-> Summand(g, f, T)]

LEMMA PickedIsIn == ASSUME NEW T, T # {} PROVE Picked(T) \in T
BY DEF Picked

\* There is such a function: were there a smallest size up to which there is none, the function of
\* the size below it could be continued.
LEMMA SumExists ==
  ASSUME NEW S, IsFiniteSet(S), NEW f \in [S -> Nat]
  PROVE  AddsUp(CHOOSE g : AddsUp(g, f, S), f, S)
<1> DEFINE Upto(n) == \E g \in [SUBSET S -> Int] : \A T \in SUBSET S : Cardinality(T) <= n => g[T] = Summand(g, f, T)
           Bad == {n \in Nat : ~Upto(n)}
<1>1. \A T \in SUBSET S : IsFiniteSet(T) /\ Cardinality(T) \in Nat
  BY FS_Subset, FS_CardinalityType
<1>2. \A T \in SUBSET S : T # {} =>
        /\ Picked(T) \in S /\ f[Picked(T)] \in Nat /\ T \ {Picked(T)} \in SUBSET S
        /\ Cardinality(T \ {Picked(T)}) = Cardinality(T) - 1
  BY <1>1, PickedIsIn, FS_RemoveElement
<1>3. \A T \in SUBSET S : Cardinality(T) = 0 => T = {}
  BY <1>1, FS_EmptySet
<1>4. \A n \in Nat : Upto(n)
  <2> SUFFICES ASSUME Bad # {} PROVE FALSE
    OBVIOUS
  <2>1. PICK n \in Bad : n \in Nat /\ \A m \in Nat : m < n => m \notin Bad
    <3> HIDE DEF Bad
    <3>1. Bad \subseteq Nat
      BY DEF Bad
    <3>2. Bad # {}
      OBVIOUS
    <3> QED BY <3>1, <3>2, LeastNatural
  <2>2. n # 0
    <3>1. [T \in SUBSET S |-> 0] \in [SUBSET S -> Int]
      OBVIOUS
    <3>2. \A T \in SUBSET S : Cardinality(T) <= 0 => [U \in SUBSET S |-> 0][T] = Summand([U \in SUBSET S |-> 0], f, T)
      BY <1>1, <1>3 DEF Summand
    <3>3. Upto(0)
      BY <3>1, <3>2
    <3> QED BY <3>3
  <2>3. n - 1 \in Nat /\ n - 1 < n
    BY <2>2
  <2>4. PICK g \in [SUBSET S -> Int] :
          \A T \in SUBSET S : Cardinality(T) <= n - 1 => g[T] = Summand(g, f, T)
    BY <2>1, <2>3
  <2> DEFINE h == [T \in SUBSET S |-> IF Cardinality(T) <= n - 1 THEN g[T] ELSE Summand(g, f, T)]
  <2>5. h \in [SUBSET S -> Int]
    BY <1>2 DEF Summand
  <2>6. \A T \in SUBSET S : Cardinality(T) <= n => h[T] = Summand(h, f, T)
    <3> SUFFICES ASSUME NEW T \in SUBSET S, Cardinality(T) <= n
                 PROVE  h[T] = Summand(h, f, T)
      OBVIOUS
    <3>1. h[T] = Summand(g, f, T)
      BY <2>4
    <3>2. T # {} => h[T \ {Picked(T)}] = g[T \ {Picked(T)}]
      BY <1>1, <1>2
    <3> QED BY <3>1, <3>2 DEF Summand
  <2>7. Upto(n)
    BY <2>5, <2>6
  <2> QED BY <2>7
<1>5. PICK g \in [SUBSET S -> Int] :
        \A T \in SUBSET S : Cardinality(T) <= Cardinality(S) => g[T] = Summand(g, f, T)
  <2>1. Cardinality(S) \in Nat
    BY FS_CardinalityType
  <2> QED BY <2>1, <1>4
<1>6. \A T \in SUBSET S : g[T] = Summand(g, f, T)
  BY <1>5, FS_Subset
<1>7. g = [T \in SUBSET S |-> g[T]]
  OBVIOUS
<1>8. AddsUp(g, f, S)
  BY <1>6, <1>7 DEF AddsUp
<1> QED BY <1>8

LEMMA SumIsOf ==
  ASSUME NEW f, NEW S
  PROVE  SumFunctionOnSet(f, S) = (CHOOSE g : AddsUp(g, f, S))[S]
BY DEF SumFunctionOnSet, FoldFunctionOnSet, MapThenFoldSet, AddsUp, Summand, Picked

\* A sum of naturals is one.
LEMMA SumType ==
  ASSUME NEW S, IsFiniteSet(S), NEW f \in [S -> Nat]
  PROVE  SumFunctionOnSet(f, S) \in Nat
<1> DEFINE g == CHOOSE g : AddsUp(g, f, S)
           Bad == {T \in SUBSET S : g[T] \notin Nat}
<1>1. AddsUp(g, f, S)
  BY SumExists
<1> HIDE DEF g
<1>2. Bad = {}
  <2> SUFFICES ASSUME Bad # {} PROVE FALSE
    OBVIOUS
  <2>1. PICK T \in Bad : \A x \in T : T \ {x} \notin Bad
    <3> HIDE DEF Bad
    <3>1. Bad \in SUBSET (SUBSET S)
      BY DEF Bad
    <3> QED BY <3>1, SmallestSubset
  <2>2. g[T] = Summand(g, f, T)
    BY <1>1 DEF AddsUp
  <2>3. T # {}
    BY <2>2 DEF Summand
  <2>4. Picked(T) \in T /\ f[Picked(T)] \in Nat /\ g[T \ {Picked(T)}] \in Nat
    BY <2>1, <2>3, PickedIsIn
  <2> QED BY <2>2, <2>4 DEF Summand
<1> QED BY <1>2, SumIsOf DEF g

\* A summand that changes changes the sum by as much.
LEMMA SumUpdate ==
  ASSUME NEW S, IsFiniteSet(S), NEW f \in [S -> Nat], NEW r \in S, NEW n \in Nat
  PROVE  SumFunctionOnSet([f EXCEPT ![r] = n], S) = SumFunctionOnSet(f, S) + n - f[r]
<1> DEFINE e == [f EXCEPT ![r] = n]
           g == CHOOSE g : AddsUp(g, f, S)
           h == CHOOSE h : AddsUp(h, e, S)
           Bad == {T \in SUBSET S : ~(g[T] \in Int /\ h[T] = g[T] + (IF r \in T THEN n - f[r] ELSE 0))}
<1>1. e \in [S -> Nat] /\ e[r] = n /\ \A x \in S : x # r => e[x] = f[x]
  OBVIOUS
<1>2. AddsUp(g, f, S) /\ AddsUp(h, e, S)
  BY SumExists, <1>1
<1>3. SumFunctionOnSet(f, S) = g[S] /\ SumFunctionOnSet(e, S) = h[S]
  BY SumIsOf
<1> HIDE DEF e, g, h
<1>4. Bad = {}
  <2> SUFFICES ASSUME Bad # {} PROVE FALSE
    OBVIOUS
  <2>1. PICK T \in Bad : \A x \in T : T \ {x} \notin Bad
    <3> HIDE DEF Bad
    <3>1. Bad \in SUBSET (SUBSET S)
      BY DEF Bad
    <3> QED BY <3>1, SmallestSubset
  <2>2. g[T] = Summand(g, f, T) /\ h[T] = Summand(h, e, T)
    BY <1>2 DEF AddsUp
  <2>3. T # {}
    BY <2>2 DEF Summand
  <2> DEFINE x == Picked(T)
             U == T \ {x}
  <2>4. x \in T /\ x \in S /\ U \in SUBSET S /\ f[x] \in Nat /\ e[x] \in Nat
    BY <2>3, <1>1, PickedIsIn
  <2>5. g[U] \in Int /\ h[U] = g[U] + (IF r \in U THEN n - f[r] ELSE 0)
    BY <2>1, <2>4
  <2>6. g[T] = f[x] + g[U] /\ h[T] = e[x] + h[U]
    BY <2>2, <2>3 DEF Summand
  <2>7. r \in U <=> r \in T /\ x # r
    OBVIOUS
  <2>8. f[r] \in Nat /\ e[r] = n /\ (x # r => e[x] = f[x])
    BY <1>1, <2>4
  <2> HIDE DEF x, U
  <2>9. g[T] \in Int
    BY <2>4, <2>5, <2>6
  <2>10. h[T] = g[T] + (IF r \in T THEN n - f[r] ELSE 0)
    <3>1. CASE x = r
      BY <3>1, <2>4, <2>5, <2>6, <2>7, <2>8
    <3>2. CASE x # r
      BY <3>2, <2>4, <2>5, <2>6, <2>7, <2>8
    <3> QED BY <3>1, <3>2
  <2> QED BY <2>9, <2>10
<1>5. g[S] \in Int /\ h[S] = g[S] + n - f[r]
  <2>1. g[S] \in Int /\ h[S] = g[S] + (n - f[r])
    BY <1>4
  <2> QED BY <2>1
<1> QED BY <1>3, <1>5 DEF e

LEMMA SumOfZeros ==
  ASSUME NEW S, IsFiniteSet(S)
  PROVE  SumFunctionOnSet([x \in S |-> 0], S) = 0
<1> DEFINE f == [x \in S |-> 0]
           g == CHOOSE g : AddsUp(g, f, S)
           Bad == {T \in SUBSET S : g[T] # 0}
<1>1. f \in [S -> Nat] /\ \A x \in S : f[x] = 0
  OBVIOUS
<1>2. AddsUp(g, f, S)
  BY <1>1, SumExists
<1> HIDE DEF f, g
<1>3. Bad = {}
  <2> SUFFICES ASSUME Bad # {} PROVE FALSE
    OBVIOUS
  <2>1. PICK T \in Bad : \A x \in T : T \ {x} \notin Bad
    <3> HIDE DEF Bad
    <3>1. Bad \in SUBSET (SUBSET S)
      BY DEF Bad
    <3> QED BY <3>1, SmallestSubset
  <2>2. g[T] = Summand(g, f, T)
    BY <1>2 DEF AddsUp
  <2>3. T # {}
    BY <2>2 DEF Summand
  <2>4. f[Picked(T)] = 0 /\ g[T \ {Picked(T)}] = 0
    BY <1>1, <2>1, <2>3, PickedIsIn
  <2> QED BY <2>2, <2>4 DEF Summand
<1> QED BY <1>3, SumIsOf DEF f, g

-----------------------------------------------------------------------------
\* The totals of a budget group

LedgerInv ==
  /\ Budget!LedgerTypeOK
  /\ \A r \in Runs : ~ledger[r].booked => ~ledger[r].open /\ ledger[r].spent = Budget!NothingUsed
  /\ Budget!GroupWithinLimit

\* The instance has the library's operators under names of its own.
LEMMA SameOperators ==
  /\ IsFiniteSet(Runs)
  /\ \A f : Budget!SumFunctionOnSet(f, Runs) = SumFunctionOnSet(f, Runs)
<1>1. IsFiniteSet(Runs)
  BY WorkAssumption DEF Budget!BudgetConstants, Budget!IsFiniteSet, IsFiniteSet
<1>2. ASSUME NEW f PROVE Budget!SumFunctionOnSet(f, Runs) = SumFunctionOnSet(f, Runs)
  BY DEF Budget!SumFunctionOnSet, Budget!FoldFunctionOnSet, Budget!MapThenFoldSet,
         SumFunctionOnSet, FoldFunctionOnSet, MapThenFoldSet
<1> QED BY <1>1, <1>2

\* What a row charges to a dimension.
ChargeOf(row, r, d) == (IF row.open THEN Budget!Amount(r)[d] ELSE 0) + row.spent[d]

LEMMA ChargeType ==
  ASSUME NEW row \in Budget!Rows, NEW r \in Runs, NEW d \in Dimensions
  PROVE  ChargeOf(row, r, d) \in Nat
BY AmountType DEF ChargeOf, Budget!Rows

LEMMA TotalType ==
  ASSUME Budget!LedgerTypeOK, NEW d \in Dimensions
  PROVE  Budget!Total(d) \in Nat
<1>1. [r \in Runs |-> Budget!Charged(r, d)] \in [Runs -> Nat]
  BY ChargeType DEF Budget!LedgerTypeOK, Budget!Charged, Budget!Reserved, ChargeOf
<1>2. IsFiniteSet(Runs)
  BY SameOperators
<1>3. SumFunctionOnSet([r \in Runs |-> Budget!Charged(r, d)], Runs) \in Nat
  BY <1>1, <1>2, SumType
<1> QED BY <1>3, SameOperators DEF Budget!Total

\* The total follows the one row that a step changes.
LEMMA TotalFollows ==
  ASSUME Budget!LedgerTypeOK, NEW r \in Runs, NEW row \in Budget!Rows,
         ledger' = [ledger EXCEPT ![r] = row], NEW d \in Dimensions
  PROVE  Budget!Total(d)' = Budget!Total(d) + ChargeOf(row, r, d) - ChargeOf(ledger[r], r, d)
<1> DEFINE before == [s \in Runs |-> Budget!Charged(s, d)]
           after == [s \in Runs |-> Budget!Charged(s, d)']
<1>1. ledger \in [Runs -> Budget!Rows]
  BY DEF Budget!LedgerTypeOK
<1>2. \A s \in Runs : /\ Budget!Charged(s, d) = ChargeOf(ledger[s], s, d)
                      /\ Budget!Charged(s, d)' = ChargeOf(ledger'[s], s, d)
  BY DEF Budget!Charged, Budget!Reserved, Budget!Amount, ChargeOf
<1>3. \A s \in Runs : ledger'[s] = IF s = r THEN row ELSE ledger[s]
  BY <1>1
<1>4. after = [before EXCEPT ![r] = ChargeOf(row, r, d)]
  <2>1. \A s \in Runs : after[s] = [before EXCEPT ![r] = ChargeOf(row, r, d)][s]
    BY <1>2, <1>3
  <2> QED BY <2>1
<1>5. before \in [Runs -> Nat] /\ before[r] = ChargeOf(ledger[r], r, d) /\ ChargeOf(row, r, d) \in Nat
  BY <1>1, <1>2, ChargeType
<1>6. IsFiniteSet(Runs)
  BY SameOperators
<1>7. Budget!Total(d) = SumFunctionOnSet(before, Runs) /\ Budget!Total(d)' = SumFunctionOnSet(after, Runs)
  BY SameOperators DEF Budget!Total
<1> HIDE DEF before, after
<1> QED BY <1>4, <1>5, <1>6, <1>7, SumUpdate

\* A row that charges no more than before keeps the group within its limits.
LEMMA LessIsWithin ==
  ASSUME LedgerInv, NEW r \in Runs, NEW row \in Budget!Rows, ledger' = [ledger EXCEPT ![r] = row],
         \A d \in Dimensions : ChargeOf(row, r, d) <= ChargeOf(ledger[r], r, d),
         ~row.booked => ~row.open /\ row.spent = Budget!NothingUsed, UNCHANGED contract
  PROVE  LedgerInv'
<1>1. ledger \in [Runs -> Budget!Rows]
  BY DEF LedgerInv, Budget!LedgerTypeOK
<1>2. \A s \in Runs : ledger'[s] = IF s = r THEN row ELSE ledger[s]
  BY <1>1
<1>3. Budget!LedgerTypeOK'
  BY <1>1 DEF LedgerInv, Budget!LedgerTypeOK
<1>4. \A s \in Runs : ~ledger'[s].booked => ~ledger'[s].open /\ ledger'[s].spent = Budget!NothingUsed
  BY <1>2 DEF LedgerInv
<1>5. ASSUME NEW d \in Dimensions
      PROVE  Budget!Total(d)' <= Budget!Total(d) /\ Budget!Total(d)' \in Int /\ Budget!Total(d) \in Int
  <2>1. Budget!Total(d)' = Budget!Total(d) + ChargeOf(row, r, d) - ChargeOf(ledger[r], r, d)
    BY TotalFollows DEF LedgerInv
  <2>2. Budget!Total(d) \in Nat /\ ChargeOf(row, r, d) \in Nat /\ ChargeOf(ledger[r], r, d) \in Nat
    BY <1>1, TotalType, ChargeType DEF LedgerInv
  <2>3. ChargeOf(row, r, d) <= ChargeOf(ledger[r], r, d)
    OBVIOUS
  <2> QED BY <2>1, <2>2, <2>3
<1>6. Budget!GroupWithinLimit'
  <2> SUFFICES ASSUME NEW d \in Dimensions, Budget!Total(d)' > 0
               PROVE  \E v \in Versions : /\ contract'[v] \in {"authorized", "cancelled"}
                                          /\ d \in DOMAIN Limit[v] => Budget!Total(d)' <= Limit[v][d]
    BY DEF Budget!GroupWithinLimit
  <2>1. Budget!Total(d) > 0
    BY <1>5
  <2>2. PICK v \in Versions : /\ contract[v] \in {"authorized", "cancelled"}
                              /\ d \in DOMAIN Limit[v] => Budget!Total(d) <= Limit[v][d]
    BY <2>1 DEF LedgerInv, Budget!GroupWithinLimit
  <2>3. d \in DOMAIN Limit[v] => Limit[v][d] \in Nat
    BY WorkAssumption DEF Budget!BudgetConstants
  <2>4. d \in DOMAIN Limit[v] => Budget!Total(d)' <= Limit[v][d]
    BY <1>5, <2>2, <2>3
  <2> QED BY <2>2, <2>4
<1> QED BY <1>3, <1>4, <1>6 DEF LedgerInv

\* A reservation that fits is within the version it is made under.
LEMMA ReserveIsWithin ==
  ASSUME LedgerInv, NEW r \in Runs, NEW quoted, Budget!Reserve(r, quoted), UNCHANGED contract
  PROVE  LedgerInv'
<1> DEFINE any == \E d \in Dimensions : Budget!Amount(r)[d] > 0
           row == [Budget!NoRows EXCEPT !.booked = any, !.open = any]
           version == Request[r].version
<1>1. /\ ledger' = [ledger EXCEPT ![r] = row]
      /\ contract[version] = "authorized" /\ ~ledger[r].booked /\ Budget!Fits(r)
  BY DEF Budget!Reserve
<1>2. /\ row \in Budget!Rows /\ row.booked = any /\ row.open = any /\ row.spent = Budget!NothingUsed
  BY NoRowsType DEF Budget!NoRows, Budget!Rows
<1>3. version \in Versions
  BY WorkAssumption DEF Budget!BudgetConstants
<1> HIDE DEF any, row, version
<1>4. ledger \in [Runs -> Budget!Rows]
  BY DEF LedgerInv, Budget!LedgerTypeOK
<1>5. \A s \in Runs : ledger'[s] = IF s = r THEN row ELSE ledger[s]
  BY <1>1, <1>4
<1>6. Budget!LedgerTypeOK'
  BY <1>1, <1>2, <1>4 DEF LedgerInv, Budget!LedgerTypeOK
<1>7. \A s \in Runs : ~ledger'[s].booked => ~ledger'[s].open /\ ledger'[s].spent = Budget!NothingUsed
  BY <1>2, <1>5 DEF LedgerInv
<1>8. ASSUME NEW d \in Dimensions
      PROVE  /\ Budget!Total(d) \in Nat /\ Budget!Amount(r)[d] \in Nat
             /\ Budget!Total(d)' = Budget!Total(d) + Budget!Amount(r)[d]
  <2>1. Budget!Total(d)' = Budget!Total(d) + ChargeOf(row, r, d) - ChargeOf(ledger[r], r, d)
    BY <1>1, <1>2, TotalFollows DEF LedgerInv
  <2>2. Budget!Amount(r)[d] \in Nat
    BY AmountType
  <2>3. ChargeOf(row, r, d) = Budget!Amount(r)[d]
    BY <1>2, <2>2 DEF ChargeOf, any, Budget!NothingUsed
  <2>4. ChargeOf(ledger[r], r, d) = 0
    BY <1>1 DEF ChargeOf, LedgerInv, Budget!NothingUsed
  <2>5. Budget!Total(d) \in Nat
    BY TotalType DEF LedgerInv
  <2> QED BY <2>1, <2>2, <2>3, <2>4, <2>5
<1>9. Budget!GroupWithinLimit'
  <2> SUFFICES ASSUME NEW d \in Dimensions, Budget!Total(d)' > 0
               PROVE  \E v \in Versions : /\ contract'[v] \in {"authorized", "cancelled"}
                                          /\ d \in DOMAIN Limit[v] => Budget!Total(d)' <= Limit[v][d]
    BY DEF Budget!GroupWithinLimit
  <2>1. CASE Budget!Amount(r)[d] > 0
    <3>1. d \in DOMAIN Limit[version] => Budget!Total(d) + Budget!Amount(r)[d] <= Limit[version][d]
      BY <1>1, <2>1 DEF Budget!Fits, version
    <3>2. d \in DOMAIN Limit[version] => Budget!Total(d)' <= Limit[version][d]
      BY <1>8, <3>1
    <3> QED BY <1>1, <1>3, <3>2
  <2>2. CASE ~(Budget!Amount(r)[d] > 0)
    <3>1. Budget!Total(d)' = Budget!Total(d)
      BY <1>8, <2>2
    <3> QED BY <3>1 DEF LedgerInv, Budget!GroupWithinLimit
  <2> QED BY <2>1, <2>2
<1> QED BY <1>6, <1>7, <1>9 DEF LedgerInv

\* Holding charges the same, and settling no more than was reserved.
LEMMA SettleIsWithin ==
  ASSUME LedgerInv, NEW r \in Runs, NEW actuals \in [Dimensions -> Nat],
         Budget!Settle(r, actuals), UNCHANGED contract
  PROVE  LedgerInv'
<1>1. CASE ~ledger[r].booked
  BY <1>1 DEF Budget!Settle, LedgerInv, Budget!LedgerTypeOK, Budget!GroupWithinLimit, Budget!Total,
              Budget!Charged, Budget!Reserved
<1>2. CASE ledger[r].booked
  <2> DEFINE row == Budget!Closed(r, actuals)
  <2>1. ledger[r] \in Budget!Rows
    BY DEF LedgerInv, Budget!LedgerTypeOK
  <2>2. row \in Budget!Rows /\ row.booked /\ ~row.open
    BY <2>1 DEF Budget!Closed, Budget!Rows
  <2>3. \A d \in Dimensions : ChargeOf(row, r, d) <= ChargeOf(ledger[r], r, d)
    <3> SUFFICES ASSUME NEW d \in Dimensions PROVE ChargeOf(row, r, d) <= ChargeOf(ledger[r], r, d)
      OBVIOUS
    <3>1. row.spent[d] = ledger[r].spent[d] + actuals[d]
      BY DEF Budget!Closed
    <3>2. actuals[d] <= IF ledger[r].open THEN Budget!Amount(r)[d] ELSE 0
      BY DEF Budget!Settle, Budget!Within, Budget!Reserved
    <3>3. ledger[r].spent[d] \in Nat /\ actuals[d] \in Nat /\ Budget!Amount(r)[d] \in Nat
      BY <2>1, AmountType DEF Budget!Rows
    <3> QED BY <2>2, <3>1, <3>2, <3>3 DEF ChargeOf
  <2>4. ledger' = [ledger EXCEPT ![r] = row]
    BY <1>2 DEF Budget!Settle
  <2> HIDE DEF row
  <2> QED BY <2>2, <2>3, <2>4, LessIsWithin
<1> QED BY <1>1, <1>2

LEMMA HoldIsWithin ==
  ASSUME LedgerInv, NEW r \in Runs, Budget!Hold(r), UNCHANGED contract
  PROVE  LedgerInv'
<1> DEFINE row == [ledger[r] EXCEPT !.uncertain = ledger[r].uncertain \/ ledger[r].booked]
<1>1. ledger[r] \in Budget!Rows
  BY DEF LedgerInv, Budget!LedgerTypeOK
<1>2. /\ row \in Budget!Rows /\ row.booked = ledger[r].booked /\ row.open = ledger[r].open
      /\ row.spent = ledger[r].spent
  BY <1>1 DEF Budget!Rows
<1>3. ledger' = [ledger EXCEPT ![r] = row]
  BY DEF Budget!Hold
<1> HIDE DEF row
<1>4. \A d \in Dimensions : ChargeOf(row, r, d) = ChargeOf(ledger[r], r, d) /\ ChargeOf(row, r, d) \in Nat
  BY <1>2, ChargeType DEF ChargeOf
<1>5. \A d \in Dimensions : ChargeOf(row, r, d) <= ChargeOf(ledger[r], r, d)
  BY <1>4
<1> QED BY <1>2, <1>3, <1>5, LessIsWithin DEF LedgerInv

\* A version that was authorized stays so or is cancelled.
LEMMA VersionIsWithin ==
  ASSUME LedgerInv, NEW v \in Versions, Budget!Authorize(v) \/ Budget!Revise(v) \/ Budget!CancelVersion(v),
         UNCHANGED ledger
  PROVE  LedgerInv'
<1>1. contract \in [Versions -> Budget!ContractStatuses]
  BY DEF LedgerInv, Budget!LedgerTypeOK
<1>2. contract' \in [Versions -> Budget!ContractStatuses]
  BY <1>1 DEF Budget!Authorize, Budget!Revise, Budget!CancelVersion, Budget!ContractStatuses
<1>3. \A w \in Versions : contract[w] \in {"authorized", "cancelled"} => contract'[w] \in {"authorized", "cancelled"}
  BY <1>1 DEF Budget!Authorize, Budget!Revise, Budget!CancelVersion
<1>4. \A d \in Dimensions : Budget!Total(d)' = Budget!Total(d)
  BY DEF Budget!Total, Budget!Charged, Budget!Reserved
<1>5. Budget!GroupWithinLimit'
  BY <1>3, <1>4 DEF LedgerInv, Budget!GroupWithinLimit
<1> QED BY <1>2, <1>5 DEF LedgerInv, Budget!LedgerTypeOK

LEMMA LedgerStart ==
  ASSUME Budget!LedgerInit
  PROVE  LedgerInv
<1>1. Budget!NoRows \in Budget!Rows /\ ~Budget!NoRows.open /\ Budget!NoRows.spent = Budget!NothingUsed
  BY NoRowsType DEF Budget!NoRows
<1>2. Budget!LedgerTypeOK
  BY <1>1 DEF Budget!LedgerInit, Budget!LedgerTypeOK, Budget!ContractStatuses
<1>3. ASSUME NEW d \in Dimensions PROVE ~(Budget!Total(d) > 0)
  <2> DEFINE zero == [r \in Runs |-> 0]
  <2>1. \A r \in Runs : Budget!Charged(r, d) = 0
    BY <1>1 DEF Budget!LedgerInit, Budget!Charged, Budget!Reserved, Budget!NothingUsed
  <2>2. Budget!Total(d) = SumFunctionOnSet(zero, Runs)
    BY <2>1, SameOperators DEF Budget!Total
  <2>3. Budget!Total(d) = 0
    BY <2>2, SumOfZeros, SameOperators
  <2> QED BY <2>3
<1>4. Budget!GroupWithinLimit
  BY <1>3 DEF Budget!GroupWithinLimit
<1> QED BY <1>1, <1>2, <1>4 DEF LedgerInv, Budget!LedgerInit

\* BudgetLedger by itself, whatever uses it: what the runs of a budget group have reserved
\* and spent together stays within the most generous version ever authorized.
THEOREM LedgerStaysWithinLimit == Budget!LedgerSpec => []Budget!GroupWithinLimit
<1>1. Budget!LedgerInit => LedgerInv
  BY LedgerStart
<1>2. LedgerInv /\ [Budget!LedgerNext]_(Budget!ledgerVars) => LedgerInv'
  <2> SUFFICES ASSUME LedgerInv, [Budget!LedgerNext]_(Budget!ledgerVars)
               PROVE  LedgerInv'
    OBVIOUS
  <2>1. ASSUME NEW r \in Runs,
               NEW actuals \in [Dimensions -> UNION {0 .. Budget!Amount(r)[d] : d \in Dimensions}],
               Budget!Settle(r, actuals) /\ UNCHANGED contract
        PROVE  LedgerInv'
    <3>1. actuals \in [Dimensions -> Nat]
      BY AmountType
    <3> QED BY <2>1, <3>1, SettleIsWithin
  <2>2. CASE UNCHANGED Budget!ledgerVars
    BY <2>2 DEF Budget!ledgerVars, LedgerInv, Budget!LedgerTypeOK, Budget!GroupWithinLimit, Budget!Total,
                Budget!Charged, Budget!Reserved
  <2>3. ASSUME NEW v \in Versions,
               Budget!Authorize(v) \/ Budget!Revise(v) \/ (Budget!CancelVersion(v) /\ UNCHANGED ledger)
        PROVE  LedgerInv'
    BY <2>3, VersionIsWithin DEF Budget!Authorize, Budget!Revise
  <2> QED BY <2>1, <2>2, <2>3, ReserveIsWithin, HoldIsWithin DEF Budget!LedgerNext
<1>3. LedgerInv => Budget!GroupWithinLimit
  BY DEF LedgerInv
<1> QED BY <1>1, <1>2, <1>3, PTL DEF Budget!LedgerSpec

\* The runtime implements the ledger, so its runs stay within the limit as well: through
\* concurrent dispatches, retries, revisions, cancellations and crashes.
THEOREM GroupStaysWithinLimit == Spec => []GroupWithinLimit
BY RuntimeImplementsLedger, LedgerStaysWithinLimit, PTL DEF LedgerDiscipline, GroupWithinLimit
===============================================================================
