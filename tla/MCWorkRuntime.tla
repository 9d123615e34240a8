---------------------------- MODULE MCWorkRuntime ----------------------------
(***************************************************************************)
(* Small instances of WorkRuntime.                                          *)
(***************************************************************************)
EXTENDS WorkRuntime, TLC

CONSTANTS r1, r2, r3

Of(version, callsAsked, quoted) ==
  [version |-> version, quoted |-> quoted,
   amount |-> [d \in {"tokens", "calls"} |-> IF d = "calls" THEN callsAsked ELSE 2]]

Capped(callLimit) == [d \in {"tokens", "calls"} |-> IF d = "calls" THEN callLimit ELSE 5]

\* One run with two calls, under one version.
OneRun == {r1}
OneRequest == [r \in OneRun |-> Of(1, 2, FALSE)]
OneQuoted == [r \in OneRun |-> Of(1, 2, TRUE)]
OneVersion == 1 .. 1
OneLimit == [v \in OneVersion |-> Capped(2)]

\* Two runs with two calls each, under a limit of three.
TwoRuns == {r1, r2}
TwoRequests == [r \in TwoRuns |-> Of(1, 2, TRUE)]

\* A third with one call, so that two can be in progress.
ThreeRuns == {r1, r2, r3}
ThreeRequests == [r \in ThreeRuns |-> IF r = r3 THEN Of(2, 1, TRUE) ELSE Of(1, 2, TRUE)]
LimitOfThree == [v \in OneVersion |-> Capped(3)]
\* r1 and r2 ask for the same and are interchangeable.
Twins == Permutations({r1, r2})

TwoVersions == 1 .. 2
TwoLimits == [v \in TwoVersions |-> Capped(v + 2)]

\* A provider that reports nothing, or two calls and a token for one call.
Silent == {[d \in {"tokens", "calls"} |-> 0]}
Reports == Silent \cup {[d \in {"tokens", "calls"} |-> IF d = "calls" THEN 2 ELSE 1]}

\* Next where nothing crashes, no policy changes and no candidate is submitted: what
\* is left of it when MaxCrashes, MaxPolicyChanges and MaxSubmissions are zero.
BudgetNext ==
  \/ \E v \in Versions : AuthorizeContract(v) \/ ReviseContract(v) \/ CancelContract(v)
  \/ \E r \in Runs :
       \/ QueueRun(r) \/ RetryRun(r) \/ Dispatch(r) \/ Advance(r)
       \/ ProviderAnswers(r) \/ AbortObserved(r) \/ LateAnswer(r)
       \/ AbortSignal(r) \/ CancelRun(r) \/ PauseRun(r)
BudgetSpec == Init /\ [][BudgetNext]_vars
=============================================================================
