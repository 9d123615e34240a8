---------------------------- MODULE MCGovernance ----------------------------
(***************************************************************************)
(* A small instance of LifecycleGate: an export made from a summary of an   *)
(* interview, two uses, three permissions, one operation.                   *)
(***************************************************************************)
EXTENDS LifecycleGate

CONSTANTS interview, summary, share, publish, adults, minors, op

TwoVersions == {interview, summary}
Lineage == [v \in TwoVersions |-> IF v = summary THEN {interview} ELSE {}]

\* The interview is granted twice; the summary is granted in between.
ThreeGrants == 1 .. 3
GrantScope ==
  <<[version |-> interview, uses |-> {share, publish}],
    [version |-> summary, uses |-> {share}],
    [version |-> interview, uses |-> {share}]>>

Of(inputs, population, protocol) ==
  [inputs |-> inputs, population |-> population, protocol |-> protocol]

\* Bound to nothing; collected from people; two inputs under a protocol.
SnapshotKinds ==
  {Of(<<summary>>, None, FALSE), Of(<<interview>>, adults, FALSE),
   Of(<<interview, summary>>, None, TRUE), Of(<<>>, None, FALSE)}

OnSummary == {Of(<<summary>>, None, FALSE)}

Passing(use, context, capable) == [use |-> use, context |-> context, capable |-> capable]
OptionKinds ==
  {Passing(share, "agrees", TRUE), Passing(None, "agrees", TRUE),
   Passing(Local, "undocumented", TRUE), Passing(publish, "contradicts", TRUE),
   Passing(None, "agrees", FALSE)}

\* What the operation does not read is left alone: authorizations without a
\* population, protocols without a binding, and the summary's permissions for
\* an operation on the interview.
Relevant ==
  /\ Population(op) = None => latest = NoAuthorization
  /\ snapshot[op].protocol \/ protocolCurrent
  /\ Population(op) # None => permission[2] = "absent" /\ summary \notin classified
  /\ Inputs(op) = {} => classified = {}
=============================================================================
