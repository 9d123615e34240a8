---------------------------- MODULE MCProjectLock ----------------------------
(* Model values for the runs of ProjectLock. *)
EXTENDS ProjectLock

CONSTANTS a, b, c

TwoProcs == {a, b}
ThreeProcs == {a, b, c}
=============================================================================
