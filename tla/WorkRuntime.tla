----------------------------- MODULE WorkRuntime -----------------------------
(***************************************************************************)
(* Bounded specialist work (src/work/work-runtime.ts with                   *)
(* provider-admission.ts, budget-ledger.ts and the lifecycle gate it calls): *)
(* an owner queues runs under an authorized contract, a dispatcher calls a   *)
(* provider for each, and candidates are accepted or quarantined.            *)
(*                                                                         *)
(* The program is one thread, but dispatchRun awaits: the rate-limit wait,   *)
(* the admission and invocation promises, the provider itself, and every     *)
(* `await settleBudget`.  Each of these is a place where the owner, another  *)
(* run, a late provider answer or a policy change gets its turn.  Between    *)
(* two awaits the code runs as one action.  The database survives a crash,   *)
(* the dispatchers do not.                                                   *)
(***************************************************************************)
EXTENDS Integers, FiniteSets, FiniteSetsExt

CONSTANTS
  Runs, Dimensions, Calls, Spend,  \* dimensions other than time, see README
  Versions, Limit, Request,        \* see BudgetLedger
  MaxRetries,        \* scope.maxRetries of the contract
  External,          \* the contract's destination is not "local"
  ProtocolBound,     \* the operation snapshot names a protocol version
  PauseFinished,     \* whether the owner also pauses runs that are over
  UsageReports,      \* the usages a provider may report for one call
  MaxPolicyChanges,  \* bound: changes of policy or of the input
  MaxSubmissions,    \* bound: submissions a specialist makes by itself
  MaxCrashes         \* bound: crashes of the process

VARIABLES
  \* the database
  contract, ledger,       \* see BudgetLedger
  run,                    \* work_runs.status
  op,                     \* lifecycle_operations.status of the run's operation
  fenced,                 \* a revocation_fences row exists for the operation
  slots,                  \* provider_attempt_reservations rows of the run
  session,                \* work_runs.session_id is set
  accepted, quarantined,  \* work_candidates rows of the run, by status
  \* the process
  task,                   \* the dispatch in progress
  late,                   \* a provider promise nobody awaits any more is pending
  \* the policy as the lifecycle gate sees it
  authority,              \* external authorization and protocol currency
  inputs,                 \* data-use permission of the input, for the destination
  content,                \* the content of the input is available
  \* history and bounds
  calls,                  \* provider calls ever started for the run
  dropped,                \* candidates delivered that were recorded nowhere
  changes, submissions, crashes

Budget == INSTANCE BudgetLedger

ASSUME WorkAssumption ==
  /\ Budget!BudgetConstants
  /\ Calls \in Dimensions
  /\ MaxRetries \in 0 .. 2
  /\ External \in BOOLEAN /\ ProtocolBound \in BOOLEAN /\ PauseFinished \in BOOLEAN
  /\ UsageReports \subseteq [Dimensions -> Nat]
  /\ MaxPolicyChanges \in Nat /\ MaxSubmissions \in Nat /\ MaxCrashes \in Nat

records == <<run, op, fenced, slots, session, accepted, quarantined>>
policy == <<authority, inputs, content>>
history == <<calls, dropped>>
bounds == <<changes, submissions, crashes>>
vars == <<contract, ledger, records, task, late, policy, history, bounds>>

RunStatuses == {"absent", "queued", "running", "waiting-for-human", "blocked",
                "succeeded", "failed", "cancelled"}
OpStatuses == {"absent", "queued", "running", "blocked", "fenced", "cancelled",
               "quarantined", "completed"}

\* Where a dispatch is suspended.  waiting: the rate-limit interval; admitted and
\* rejected: the admission promise has settled; calling: the provider; returned:
\* the invocation promise has settled; the others: an `await settleBudget`,
\* named for what the code does after it.
Steps == {"idle", "waiting", "admitted", "rejected", "calling", "returned",
          "thenCancel", "thenFail", "thenBlock"}
Outcomes == {"none", "stopped", "exhausted", "candidate", "ok", "failure",
             "timeout", "expired", "abort"}

Tasks == [pc : Steps, attempt : Nat, made : Nat,
          used : [Dimensions -> Nat], aborted : BOOLEAN, outcome : Outcomes,
          usage : [Dimensions -> Nat]]

Zero == [d \in Dimensions |-> 0]
Idle == [pc |-> "idle", attempt |-> 0, made |-> 0, used |-> Zero,
         aborted |-> FALSE, outcome |-> "none", usage |-> Zero]

TypeOK ==
  /\ Budget!LedgerTypeOK
  /\ run \in [Runs -> RunStatuses] /\ op \in [Runs -> OpStatuses]
  /\ fenced \in [Runs -> BOOLEAN] /\ session \in [Runs -> BOOLEAN]
  /\ slots \in [Runs -> Nat]
  /\ accepted \in [Runs -> Nat] /\ quarantined \in [Runs -> Nat]
  /\ task \in [Runs -> Tasks] /\ late \in [Runs -> BOOLEAN]
  /\ authority \in {"clear", "denied", "revoked"}
  /\ inputs \in {"clear", "denied", "revoked", "regranted"}
  /\ content \in BOOLEAN
  /\ calls \in [Runs -> Nat] /\ dropped \in [Runs -> Nat]
  /\ changes \in 0 .. MaxPolicyChanges
  /\ submissions \in 0 .. MaxSubmissions
  /\ crashes \in 0 .. MaxCrashes

Init ==
  /\ Budget!LedgerInit
  /\ run = [r \in Runs |-> "absent"] /\ op = [r \in Runs |-> "absent"]
  /\ fenced = [r \in Runs |-> FALSE] /\ session = [r \in Runs |-> FALSE]
  /\ slots = [r \in Runs |-> 0]
  /\ accepted = [r \in Runs |-> 0] /\ quarantined = [r \in Runs |-> 0]
  /\ task = [r \in Runs |-> Idle] /\ late = [r \in Runs |-> FALSE]
  /\ authority = "clear" /\ inputs = "clear" /\ content = TRUE
  /\ calls = [r \in Runs |-> 0] /\ dropped = [r \in Runs |-> 0]
  /\ changes = 0 /\ submissions = 0 /\ crashes = 0

-----------------------------------------------------------------------------
\* The lifecycle gate, as a run's operation meets it: checkLifecyclePolicy

\* evaluatePolicy lets local work use anything, and accepts a later grant.
InputVerdict ==
  IF ~External \/ inputs \in {"clear", "regranted"} THEN "pass"
  ELSE IF inputs = "revoked" THEN "fence" ELSE "block"

\* Mutated form: the authorization is not asked for.
VerdictOnInputs(r) == IF fenced[r] \/ op[r] = "cancelled" THEN "refused" ELSE InputVerdict

\* The first failing check decides: fence and cancellation, authority, inputs.
Verdict(r) ==
  IF fenced[r] \/ op[r] = "cancelled" THEN "refused"
  ELSE IF authority = "clear" THEN InputVerdict
  ELSE IF authority = "revoked" THEN "fence" ELSE "block"

\* What a check leaves behind besides its verdict.
OpAfterCheck(r) ==
  CASE Verdict(r) = "fence" -> "fenced"
    [] Verdict(r) = "block" -> "blocked"
    [] OTHER -> op[r]
FencedAfterCheck == [r \in Runs |-> fenced[r] \/ Verdict(r) = "fence"]
FenceIfRevoked(r) == fenced' = [fenced EXCEPT ![r] = FencedAfterCheck[r]]

\* Mutated form: disclosure follows the gate, for which a later grant counts.
UndisclosedForNow == External /\ inputs \in {"denied", "revoked"}

\* requestDisclosure is stricter than the gate: a grant after a withdrawal does
\* not reopen disclosure.
Undisclosed == External /\ inputs # "clear"

-----------------------------------------------------------------------------
\* Helpers

Mark(r, status, opStatus) ==
  /\ run' = [run EXCEPT ![r] = status]
  /\ op' = [op EXCEPT ![r] = opStatus]

SlotRows(r, n) == slots' = [slots EXCEPT ![r] = n]
End(r) == task' = [task EXCEPT ![r] = Idle]
Suspend(r, step) == task' = [task EXCEPT ![r].pc = step]

Quarantine(r) ==
  /\ quarantined' = [quarantined EXCEPT ![r] = @ + 1]
  /\ UNCHANGED accepted

\* Mutated form: only failures end a run.
OverByFailure(r, status) == status = "failed" \/ op[r] = "blocked"

Over(r, status) == status \in {"failed", "succeeded"} \/ op[r] \in {"blocked", "completed"}

\* acceptSubmission of a candidate of r, whose run has this status.  A fenced or
\* cancelled run goes through acceptCandidate, where the fence row refuses it.
Submission(r, status) ==
  LET tooLate == status = "cancelled" \/ op[r] \in {"cancelled", "fenced"}
      over == Over(r, status)
  IN
  \/ /\ tooLate
     /\ Mark(r, status, IF op[r] \in {"cancelled", "fenced", "completed"}
                        THEN op[r] ELSE "quarantined")
     /\ Quarantine(r) /\ UNCHANGED fenced
  \/ /\ ~tooLate /\ over
     /\ Mark(r, status, op[r])
     /\ Quarantine(r) /\ UNCHANGED fenced
  \/ /\ ~tooLate /\ ~over /\ Verdict(r) # "pass"
     /\ Mark(r, status, OpAfterCheck(r))
     /\ Quarantine(r) /\ FenceIfRevoked(r)
  \/ /\ ~tooLate /\ ~over /\ Verdict(r) = "pass"
     /\ Mark(r, "succeeded", "completed")
     /\ accepted' = [accepted EXCEPT ![r] = @ + 1]
     /\ UNCHANGED <<quarantined, fenced>>

-----------------------------------------------------------------------------
\* Contracts and the queue

AuthorizeContract(v) ==
  /\ Budget!Authorize(v)
  /\ UNCHANGED <<records, task, late, policy, history, bounds>>

ReviseContract(v) ==
  /\ Budget!Revise(v)
  /\ UNCHANGED <<records, task, late, policy, history, bounds>>

\* The reservation decides; a rejected one removes the operation again.
Enqueue(r, quoted) ==
  /\ run[r] = "absent" /\ authority = "clear"
  /\ Budget!Reserve(r, quoted)
  /\ Mark(r, "queued", "queued")
  /\ UNCHANGED <<contract, fenced, slots, session, accepted, quarantined, task, late,
                 policy, history, bounds>>

QueueRun(r) == Enqueue(r, ~External \/ Request[r].quoted)

\* retryRun queues a new run like a finished one, without a provider quote.
RetryRun(r) ==
  /\ \E previous \in Runs \ {r} :
       /\ run[previous] \in {"succeeded", "failed"}
       /\ Request[previous].version = Request[r].version
       /\ Request[previous].amount = Request[r].amount
  /\ Enqueue(r, ~External)

-----------------------------------------------------------------------------
\* Dispatch

CallsUsed(t) == IF t.made > t.used[Calls] THEN t.made ELSE t.used[Calls]

\* Mutated form: the calls are compared with the request, not with what of it is
\* still reserved.
NoCallRequested(r, t, rows) ==
  Budget!Amount(r)[Calls] <= rows \/ Budget!Amount(r)[Calls] <= CallsUsed(t)

NoCallLeft(r, t, rows) ==
  Budget!Reserved(r, Calls) <= rows \/ Budget!Reserved(r, Calls) <= CallsUsed(t)

\* admitProviderAttempt, up to its wait: the signal, then time, reported usage
\* and calls against the reservation.  Time may have run out once a call was made.
Admit(r, t, rows) ==
  LET overused == \E d \in Dimensions \ {Calls} :
                    t.used[d] > 0 /\ t.used[d] >= Budget!Amount(r)[d]
      noCallLeft == NoCallLeft(r, t, rows)
      Reject(why) == /\ task' = [task EXCEPT ![r] = [t EXCEPT !.pc = "rejected", !.outcome = why]]
                     /\ SlotRows(r, rows)
  IN
  \/ t.aborted /\ Reject("stopped")
  \/ ~t.aborted /\ (t.made > 0 \/ overused \/ noCallLeft) /\ Reject("exhausted")
  \/ /\ ~t.aborted /\ ~overused /\ ~noCallLeft
     /\ \E step \in {"waiting", "admitted"} :
          task' = [task EXCEPT ![r] = [t EXCEPT !.pc = step]]
     /\ SlotRows(r, rows + 1)

\* dispatchRun up to its first await.  A run being dispatched, and one whose
\* status is still "running", is refused.
Dispatch(r) ==
  /\ task[r].pc = "idle"
  /\ run[r] \in {"queued", "blocked", "waiting-for-human"}
  /\ \/ /\ ~content \/ Verdict(r) # "pass"
        /\ IF content THEN FenceIfRevoked(r) ELSE UNCHANGED fenced
        /\ Budget!Free(r)
        /\ Mark(r, "blocked", "blocked")
        /\ UNCHANGED <<slots, task>>
     \/ /\ content /\ Verdict(r) = "pass" /\ run[r] = "waiting-for-human"
        /\ Budget!Hold(r)
        /\ UNCHANGED <<run, op, fenced, slots, task>>
     \/ /\ content /\ Verdict(r) = "pass" /\ run[r] # "waiting-for-human"
        /\ Mark(r, "running", "running")
        /\ \E aborted \in BOOLEAN :
             Admit(r, [Idle EXCEPT !.attempt = 1, !.aborted = aborted], slots[r])
        /\ UNCHANGED <<ledger, fenced>>
  /\ UNCHANGED <<contract, session, accepted, quarantined, late, policy, history, bounds>>

\* Mutated form: an attempt given up while waiting keeps its admission row.
PostWaitKeepsRow(r) ==
  /\ task[r].pc = "waiting"
  /\ IF \/ task[r].aborted
        \/ run[r] \in {"succeeded", "failed", "cancelled"}
        \/ op[r] \in {"cancelled", "fenced"}
     THEN task' = [task EXCEPT ![r].pc = "rejected", ![r].outcome = "stopped"]
     ELSE Suspend(r, "admitted")
  /\ UNCHANGED <<contract, ledger, records, late, policy, history, bounds>>

\* The rate-limit interval has passed, or the signal cut it short.
PostWait(r) ==
  /\ task[r].pc = "waiting"
  /\ IF \/ task[r].aborted
        \/ run[r] \in {"succeeded", "failed", "cancelled"}
        \/ op[r] \in {"cancelled", "fenced"}
     THEN /\ task' = [task EXCEPT ![r].pc = "rejected", ![r].outcome = "stopped"]
          /\ SlotRows(r, slots[r] - 1)
     ELSE Suspend(r, "admitted") /\ UNCHANGED slots
  /\ UNCHANGED <<contract, ledger, run, op, fenced, session, accepted, quarantined,
                 late, policy, history, bounds>>

\* Mutated form: the row of an attempt that was not admitted is deleted again.
RejectedReleasesAgain(r) ==
  /\ task[r].pc = "rejected"
  /\ Budget!Hold(r)
  /\ Suspend(r, IF task[r].outcome = "stopped" THEN "thenCancel" ELSE "thenFail")
  /\ SlotRows(r, slots[r] - 1)
  /\ UNCHANGED <<contract, run, op, fenced, session, accepted, quarantined, late, policy,
                 history, bounds>>

\* The attempt was not admitted: the reservation is held, then the run is
\* cancelled or failed after the await.
Rejected(r) ==
  /\ task[r].pc = "rejected"
  /\ Budget!Hold(r)
  /\ Suspend(r, IF task[r].outcome = "stopped" THEN "thenCancel" ELSE "thenFail")
  /\ UNCHANGED <<contract, records, late, policy, history, bounds>>

Call(r) ==
  /\ Suspend(r, "calling")
  /\ calls' = [calls EXCEPT ![r] = @ + 1]

\* Mutated form: only the run's status is read again.
HaltedByOwner(r) == run[r] \in {"cancelled", "waiting-for-human"} \/ task[r].aborted

Halted(r) ==
  \/ run[r] \in {"cancelled", "waiting-for-human"}
  \/ op[r] \in {"cancelled", "fenced", "blocked"}
  \/ task[r].aborted

\* After admission everything is checked once more, with no await in between,
\* and the provider is called; its deadline may already have passed.
Proceed(r) ==
  LET refused == Undisclosed \/ (External /\ Verdict(r) # "pass")
      finished == run[r] \in {"succeeded", "failed"}
      halted == Halted(r)
      outdated == ProtocolBound /\ Verdict(r) # "pass"
  IN
  /\ task[r].pc = "admitted"
  /\ \/ /\ refused
        /\ IF Undisclosed THEN UNCHANGED fenced ELSE FenceIfRevoked(r)
        /\ Budget!Free(r) /\ Mark(r, "blocked", "blocked")
        /\ SlotRows(r, slots[r] - 1) /\ End(r)
        /\ UNCHANGED calls
     \/ /\ ~refused /\ finished
        /\ Budget!Hold(r)
        /\ SlotRows(r, slots[r] - 1) /\ End(r)
        /\ UNCHANGED <<run, op, fenced, calls>>
     \/ /\ ~refused /\ ~finished /\ halted
        /\ Budget!Hold(r)
        /\ SlotRows(r, slots[r] - 1) /\ Suspend(r, "thenCancel")
        /\ UNCHANGED <<run, op, fenced, calls>>
     \/ /\ ~refused /\ ~finished /\ ~halted /\ outdated
        /\ Budget!Hold(r)
        /\ FenceIfRevoked(r) /\ Mark(r, run[r], OpAfterCheck(r))
        /\ SlotRows(r, slots[r] - 1) /\ Suspend(r, "thenBlock")
        /\ UNCHANGED calls
     \/ /\ ~refused /\ ~finished /\ ~halted /\ ~outdated
        /\ \/ Call(r)
           \/ /\ task' = [task EXCEPT ![r].pc = "returned", ![r].outcome = "expired"]
              /\ UNCHANGED calls
        /\ UNCHANGED <<ledger, run, op, fenced, slots>>
  /\ UNCHANGED <<contract, session, accepted, quarantined, late, policy, dropped, bounds>>

-----------------------------------------------------------------------------
\* The provider call, and its three ways to end

Answer(r, outcome, usage) ==
  task' = [task EXCEPT ![r].pc = "returned", ![r].outcome = outcome, ![r].usage = usage]

ProviderAnswers(r) ==
  /\ task[r].pc = "calling"
  /\ \E outcome \in {"candidate", "ok", "failure"}, usage \in UsageReports :
       Answer(r, outcome, usage)
  /\ UNCHANGED <<contract, ledger, records, late, policy, history, bounds>>

\* The timer, and the signal: the provider's promise is left behind.
TimeoutFires(r) ==
  /\ task[r].pc = "calling"
  /\ Answer(r, "timeout", Zero)
  /\ late' = [late EXCEPT ![r] = TRUE]
  /\ UNCHANGED <<contract, ledger, records, policy, history, bounds>>

AbortObserved(r) ==
  /\ task[r].pc = "calling" /\ task[r].aborted
  /\ Answer(r, "abort", Zero)
  /\ late' = [late EXCEPT ![r] = TRUE]
  /\ UNCHANGED <<contract, ledger, records, policy, history, bounds>>

\* quarantineLateCandidate: a promise left behind resolves, with a candidate
\* (possibly of another session than the one on record) or without.
LateAnswer(r) ==
  /\ late[r]
  /\ late' = [late EXCEPT ![r] = FALSE]
  /\ \/ Submission(r, run[r])
     \/ session[r] /\ Quarantine(r) /\ UNCHANGED <<run, op, fenced>>
     \/ UNCHANGED <<run, op, fenced, accepted, quarantined>>
  /\ UNCHANGED <<contract, ledger, slots, session, task, policy, history, bounds>>

\* A call that started is counted, and its reported usage is added up.
Counted(r) ==
  [task[r] EXCEPT !.made = IF task[r].outcome = "expired" THEN @ ELSE @ + 1,
                  !.used = [d \in Dimensions |-> task[r].used[d] + task[r].usage[d]],
                  !.usage = Zero]

\* What is settled: at least the calls that were made.
Actuals(t) == [t.used EXCEPT ![Calls] = CallsUsed(t)]

\* The continuation of the invocation.  Its admission row becomes an attempt row.
Returned(r) ==
  LET outcome == task[r].outcome
      t == Counted(r)
      rows == slots[r] - 1
      stopped == t.aborted
      timedOut == outcome \in {"timeout", "expired"}
      stale == \/ run[r] \in {"cancelled", "waiting-for-human", "succeeded", "failed"}
               \/ op[r] \in {"cancelled", "fenced"}
      Drop == dropped' = [dropped EXCEPT ![r] = IF outcome = "candidate" THEN @ + 1 ELSE @]
      Keep == UNCHANGED <<fenced, accepted, quarantined>>
      Submit(status) ==
        IF outcome = "candidate" THEN Submission(r, status)
        ELSE Mark(r, status, op[r]) /\ Keep
  IN
  /\ task[r].pc = "returned"
  /\ \/ /\ stopped
        /\ Budget!Hold(r) /\ Suspend(r, "thenCancel") /\ Drop
        /\ SlotRows(r, rows) /\ Keep /\ UNCHANGED <<run, op, session>>
     \/ /\ ~stopped /\ timedOut
        /\ Budget!Hold(r) /\ Suspend(r, "thenFail")
        /\ SlotRows(r, rows) /\ Keep /\ UNCHANGED <<run, op, session, dropped>>
     \/ /\ ~stopped /\ ~timedOut /\ stale
        /\ Budget!Hold(r) /\ End(r) /\ Submit(run[r])
        /\ SlotRows(r, rows) /\ UNCHANGED <<session, dropped>>
     \/ /\ ~stopped /\ ~stale /\ outcome \in {"ok", "candidate"}
        /\ Budget!Settle(r, Actuals(t)) /\ End(r) /\ Submit("running")
        /\ session' = [session EXCEPT ![r] = TRUE]
        /\ SlotRows(r, rows) /\ UNCHANGED dropped
     \* more than was reserved was used, of the counted dimensions or of the time
     \/ /\ ~stopped /\ ~stale /\ outcome \in {"ok", "candidate"}
        /\ Budget!Hold(r) /\ End(r) /\ Mark(r, "failed", "blocked") /\ Drop
        /\ session' = [session EXCEPT ![r] = TRUE]
        /\ SlotRows(r, rows) /\ Keep
     \/ /\ ~stopped /\ ~stale /\ outcome = "failure" /\ t.attempt <= MaxRetries
        /\ Admit(r, [t EXCEPT !.attempt = @ + 1, !.outcome = "none"], rows)
        /\ Keep /\ UNCHANGED <<ledger, run, op, session, dropped>>
     \/ /\ ~stopped /\ ~stale /\ outcome = "failure" /\ t.attempt > MaxRetries
        /\ Budget!Hold(r) /\ End(r) /\ Mark(r, "failed", "blocked")
        /\ session' = [session EXCEPT ![r] = TRUE]
        /\ SlotRows(r, rows) /\ Keep /\ UNCHANGED dropped
  /\ UNCHANGED <<contract, late, policy, calls, bounds>>

\* finalizeDispatchCancellation, only if the run is not over by now.
Finalize(r) ==
  IF run[r] \in {"cancelled", "succeeded", "failed"}
  THEN UNCHANGED <<run, op, fenced>>
  ELSE /\ Mark(r, "cancelled", "cancelled")
       /\ fenced' = [fenced EXCEPT ![r] = @ \/ op[r] \notin {"cancelled", "fenced"}]

\* What follows an `await settleBudget`: the statuses are not read again.
AfterSettle(r) ==
  /\ \/ /\ task[r].pc = "thenCancel"
        /\ IF task[r].aborted THEN Finalize(r) ELSE UNCHANGED <<run, op, fenced>>
     \/ task[r].pc = "thenFail" /\ Mark(r, "failed", "blocked") /\ UNCHANGED fenced
     \/ task[r].pc = "thenBlock" /\ Mark(r, "blocked", "blocked") /\ UNCHANGED fenced
  /\ End(r)
  /\ UNCHANGED <<contract, ledger, slots, session, accepted, quarantined, late, policy,
                 history, bounds>>

-----------------------------------------------------------------------------
\* The owner, and specialists that submit by themselves

Signal(S) ==
  task' = [r \in Runs |-> IF r \in S /\ task[r].pc # "idle"
                          THEN [task[r] EXCEPT !.aborted = TRUE] ELSE task[r]]

\* The signal a caller passed to dispatchRun.
AbortSignal(r) ==
  /\ task[r].pc # "idle" /\ ~task[r].aborted
  /\ Signal({r})
  /\ UNCHANGED <<contract, ledger, records, late, policy, history, bounds>>

\* cancelRun of each run in S: signal, fence, operation, run.
CancelAll(S) ==
  /\ Signal(S)
  /\ fenced' = [r \in Runs |-> fenced[r] \/ r \in S]
  /\ op' = [r \in Runs |-> IF r \in S THEN "cancelled" ELSE op[r]]
  /\ run' = [r \in Runs |-> IF r \in S THEN "cancelled" ELSE run[r]]
  /\ UNCHANGED <<ledger, slots, session, accepted, quarantined, late, policy,
                 history, bounds>>

CancelRun(r) ==
  /\ run[r] \notin {"absent", "cancelled"}
  /\ CancelAll({r})
  /\ UNCHANGED contract

\* cancelContract cancels the unfinished runs of all versions, and one version.
CancelContract(v) ==
  /\ Budget!CancelVersion(v)
  /\ CancelAll({r \in Runs : run[r] \notin {"absent", "succeeded", "failed", "cancelled"}})

\* Mutated form: the rows of a run that pauses are deleted.
PauseRunReleasing(r) ==
  /\ run[r] # "absent"
  /\ PauseFinished \/ run[r] \notin {"succeeded", "failed", "cancelled"}
  /\ Mark(r, "waiting-for-human", "blocked")
  /\ ledger' = [ledger EXCEPT ![r] = Budget!NoRows]
  /\ UNCHANGED <<contract, fenced, slots, session, accepted, quarantined, task, late,
                 policy, history, bounds>>

\* pauseRun asks nothing about the status it overwrites; whether an owner would
\* pause a run that is over is a parameter.
PauseRun(r) ==
  /\ run[r] # "absent"
  /\ PauseFinished \/ run[r] \notin {"succeeded", "failed", "cancelled"}
  /\ Mark(r, "waiting-for-human", "blocked")
  /\ UNCHANGED <<contract, ledger, fenced, slots, session, accepted, quarantined,
                 task, late, policy, history, bounds>>

\* acceptSubmission called from outside a dispatch, by the session on record or,
\* refused at once, by an earlier one.
SubmitCandidate(r) ==
  /\ run[r] # "absent" /\ submissions < MaxSubmissions
  /\ submissions' = submissions + 1
  /\ \/ Submission(r, run[r])
     \/ session[r] /\ Quarantine(r) /\ UNCHANGED <<run, op, fenced>>
  /\ UNCHANGED <<contract, ledger, slots, session, task, late, policy, history,
                 changes, crashes>>

-----------------------------------------------------------------------------
\* The world: permissions, authorizations, protocol versions, artifacts

PolicyChange ==
  /\ changes < MaxPolicyChanges
  /\ changes' = changes + 1
  /\ \/ /\ authority' \in {"clear", "denied", "revoked"} \ {authority}
        /\ UNCHANGED <<inputs, content>>
     \/ /\ inputs' \in CASE inputs = "clear"     -> {"denied", "revoked"}
                         [] inputs = "denied"    -> {"clear"}
                         [] inputs = "revoked"   -> {"regranted", "denied"}
                         [] inputs = "regranted" -> {"revoked"}
        /\ UNCHANGED <<authority, content>>
     \/ content /\ content' = FALSE /\ UNCHANGED <<authority, inputs>>
  /\ UNCHANGED <<contract, ledger, records, task, late, history, submissions, crashes>>

\* The process dies; its dispatches and the promises it waits for are gone.
Reboot ==
  /\ crashes < MaxCrashes
  /\ crashes' = crashes + 1
  /\ task' = [r \in Runs |-> Idle]
  /\ late' = [r \in Runs |-> FALSE]
  /\ UNCHANGED <<policy, history, changes, submissions>>

Crash ==
  /\ Reboot
  /\ UNCHANGED <<contract, ledger, records>>

\* Between the transactions of queueRun: the reservation is made, the run is not.
CrashInQueueRun(r) ==
  /\ run[r] = "absent" /\ authority = "clear"
  /\ Budget!Reserve(r, TRUE)
  /\ op' = [op EXCEPT ![r] = "queued"]
  /\ Reboot
  /\ UNCHANGED <<contract, run, fenced, slots, session, accepted, quarantined>>

\* Between the transactions of cancelRun: the fence is durable, perhaps the
\* operation's status too, the run's is not.
CrashInCancelRun(r) ==
  /\ run[r] \notin {"absent", "cancelled"}
  /\ fenced' = [fenced EXCEPT ![r] = TRUE]
  /\ \E status \in {"fenced", "cancelled"} : op' = [op EXCEPT ![r] = status]
  /\ Reboot
  /\ UNCHANGED <<contract, ledger, run, slots, session, accepted, quarantined>>

\* Between the transactions of acceptSubmission: the candidate is accepted,
\* perhaps the run succeeded too, the operation is not completed.
CrashInAcceptance(r) ==
  /\ run[r] \notin {"absent", "cancelled", "failed", "succeeded"}
  /\ op[r] \notin {"cancelled", "fenced", "blocked", "completed"}
  /\ Verdict(r) = "pass"
  /\ accepted' = [accepted EXCEPT ![r] = @ + 1]
  /\ \E status \in {run[r], "succeeded"} : run' = [run EXCEPT ![r] = status]
  /\ Reboot
  /\ UNCHANGED <<contract, ledger, op, fenced, slots, session, quarantined>>

-----------------------------------------------------------------------------
\* Specification

\* Mutated form: a call has no timer.
AdvanceWithoutTimer(r) ==
  PostWait(r) \/ Rejected(r) \/ Proceed(r) \/ Returned(r) \/ AfterSettle(r)

\* The steps the event loop owes a dispatch: timers fire, promises settle.  The
\* provider, the owner and the world owe nothing.
Advance(r) ==
  PostWait(r) \/ Rejected(r) \/ Proceed(r) \/ TimeoutFires(r) \/ Returned(r) \/ AfterSettle(r)

Next ==
  \/ \E v \in Versions : AuthorizeContract(v) \/ ReviseContract(v) \/ CancelContract(v)
  \/ \E r \in Runs :
       \/ QueueRun(r) \/ RetryRun(r) \/ Dispatch(r) \/ Advance(r)
       \/ ProviderAnswers(r) \/ AbortObserved(r) \/ LateAnswer(r)
       \/ AbortSignal(r) \/ CancelRun(r) \/ PauseRun(r) \/ SubmitCandidate(r)
       \/ CrashInQueueRun(r) \/ CrashInCancelRun(r) \/ CrashInAcceptance(r)
  \/ PolicyChange \/ Crash

Spec == Init /\ [][Next]_vars
FairSpec == Spec /\ \A r \in Runs : WF_vars(Advance(r))

-----------------------------------------------------------------------------
\* Properties

\* "Cancellation fences the run immediately": once a run is fenced no provider
\* call is started for it, whatever overwrote its statuses in the meantime.
\* dispatchRun itself looks only at statuses before a local call.
NoCallAfterFence ==
  [][\A r \in Runs : fenced[r] => calls'[r] = calls[r]]_vars

\* A revoked authorization fences and stops: no candidate is accepted after a
\* fence, none against the policy of the moment, and none for a run that is over.
AcceptedOnlyWhenClear ==
  [][\A r \in Runs : accepted'[r] > accepted[r] =>
       /\ ~fenced[r] /\ authority = "clear" /\ InputVerdict = "pass"
       /\ run[r] \notin {"cancelled", "succeeded", "failed"}]_vars

\* No input goes to an external provider, and nothing that rests on it is accepted, unless
\* it may be disclosed and the activity is authorized at that very moment, however long the
\* dispatch had been waiting since it was checked first.
ExternalStepIsClear ==
  External => \A r \in Runs :
    /\ calls'[r] > calls[r] => inputs = "clear" /\ authority = "clear"
    /\ accepted'[r] > accepted[r] => InputVerdict = "pass"

\* A run makes no more provider calls than it reserved, over all its attempts and
\* dispatches, before and after a crash.  Not so a local run under a protocol: refused
\* before a retry, it is blocked with its reservation held, and the next dispatch
\* counts its calls from zero.
CallsWithinReservation == \A r \in Runs : calls[r] <= Budget!Amount(r)[Calls]

\* Every way out of an attempt gives its admission row back, or the run could
\* never be admitted again: only a crash leaves one behind.
AdmissionRowsReturned ==
  crashes = 0 => \A r \in Runs : task[r].pc = "idle" => slots[r] = 0

\* "late session result rejected": one run yields at most one accepted candidate,
\* however many are submitted, as long as the process does not die between
\* accepting one and recording it and nothing reopens a run that succeeded.  Two
\* things do: an owner's pause, and at an external provider the refusal before the
\* call, which writes "blocked" over any status.
AcceptedOnce ==
  ~External /\ ~PauseFinished /\ crashes = 0 => \A r \in Runs : accepted[r] <= 1

\* The runtime uses the ledger as the ledger's own specification allows.
LedgerDiscipline == Budget!LedgerSpec
GroupWithinLimit == Budget!GroupWithinLimit

\* Every dispatch ends: with an answer, a timeout, a refusal or a crash.
DispatchEnds == \A r \in Runs : task[r].pc # "idle" ~> task[r].pc = "idle"

\* "late candidate output is quarantined": what a provider delivers for a
\* cancelled run is recorded, not lost.
LateOutputQuarantined ==
  [][\A r \in Runs : run[r] = "cancelled" => dropped'[r] = dropped[r]]_vars

\* "late candidate output is quarantined": output that arrives after the time
\* budget of its run ran out is not accepted.
TimedOutOutputQuarantined ==
  [][\A r \in Runs : (task[r].pc = "thenFail" /\ task[r].outcome = "timeout")
       => accepted'[r] = accepted[r]]_vars

\* "bounded specialist work with explicit token, call, time, and spend limits":
\* the provider calls of a contract stay within the call limit of its most
\* generous version.
ContractCallLimit ==
  \E v \in Versions : MapThenSumSet(LAMBDA r : calls[r], Runs) <= Limit[v][Calls]
=============================================================================
