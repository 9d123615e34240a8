------------------------------ MODULE MCWorkRun ------------------------------
(***************************************************************************)
(* One run, at a local provider where specialists submit by themselves too, *)
(* or at an external provider under a protocol that is bound and a budget   *)
(* that is quoted, for an owner who also pauses runs that are over.         *)
(***************************************************************************)
EXTENDS MCWorkRuntime

VARIABLE place  \* "local" or "abroad", for good

Abroad == INSTANCE WorkRuntime WITH
  External <- TRUE, ProtocolBound <- TRUE, PauseFinished <- TRUE, MaxSubmissions <- 1,
  Request <- OneQuoted

RunInit == Init /\ place \in {"local", "abroad"}
In(p) == place = p /\ UNCHANGED place

\* Next and Abroad!Next, one disjunct for each action, so that TLC counts each. With one
\* version there is nothing to revise, and with one run there is no finished run to retry as
\* another: these two actions are MCWorkBudget's.
RunNext ==
  \/ \E v \in Versions :
       \/ AuthorizeContract(v) /\ In("local")
       \/ CancelContract(v) /\ In("local")
       \/ Abroad!AuthorizeContract(v) /\ In("abroad")
       \/ Abroad!CancelContract(v) /\ In("abroad")
  \/ \E r \in Runs :
       \/ QueueRun(r) /\ In("local")
       \/ Abroad!QueueRun(r) /\ In("abroad")
       \/ Dispatch(r) /\ In("local")
       \/ Abroad!Dispatch(r) /\ In("abroad")
       \/ Advance(r) /\ In("local")
       \/ Abroad!Advance(r) /\ In("abroad")
       \/ ProviderAnswers(r) /\ In("local")
       \/ Abroad!ProviderAnswers(r) /\ In("abroad")
       \/ AbortObserved(r) /\ In("local")
       \/ Abroad!AbortObserved(r) /\ In("abroad")
       \/ LateAnswer(r) /\ In("local")
       \/ Abroad!LateAnswer(r) /\ In("abroad")
       \/ AbortSignal(r) /\ In("local")
       \/ Abroad!AbortSignal(r) /\ In("abroad")
       \/ CancelRun(r) /\ In("local")
       \/ Abroad!CancelRun(r) /\ In("abroad")
       \/ PauseRun(r) /\ In("local")
       \/ Abroad!PauseRun(r) /\ In("abroad")
       \/ SubmitCandidate(r) /\ In("local")
       \/ Abroad!SubmitCandidate(r) /\ In("abroad")
       \/ CrashInQueueRun(r) /\ In("local")
       \/ Abroad!CrashInQueueRun(r) /\ In("abroad")
       \/ CrashInCancelRun(r) /\ In("local")
       \/ Abroad!CrashInCancelRun(r) /\ In("abroad")
       \/ CrashInAcceptance(r) /\ In("local")
       \/ Abroad!CrashInAcceptance(r) /\ In("abroad")
  \/ PolicyChange /\ In("local")
  \/ Abroad!PolicyChange /\ In("abroad")
  \/ Crash /\ In("local")
  \/ Abroad!Crash /\ In("abroad")

RunAdvance(r) ==
  \/ place = "local" /\ Advance(r) /\ UNCHANGED place
  \/ place = "abroad" /\ Abroad!Advance(r) /\ UNCHANGED place

RunSpec == RunInit /\ [][RunNext]_<<vars, place>> /\ \A r \in Runs : WF_<<vars, place>>(RunAdvance(r))

\* ExternalStepIsClear of the external provider: what is disclosed and accepted abroad is
\* allowed at that moment, not only when its dispatch began.
ExternalOnlyWhenClear == [][place = "abroad" => Abroad!ExternalStepIsClear]_vars

\* AcceptedOnce, which is about local providers: one run yields at most one accepted
\* candidate, unless something dispatches it again after it succeeded.
AcceptedOnceUnlessReopened == place = "local" => AcceptedOnce
=============================================================================
