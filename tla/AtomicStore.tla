---------------------------- MODULE AtomicStore ----------------------------
(***************************************************************************)
(* What the owner of a project is promised of its store: there is one       *)
(* complete state, it is founded once, and from then on every change goes   *)
(* from one complete state to the next.  Replacing the whole store by a     *)
(* restored one is such a change, and a crash is none.                      *)
(***************************************************************************)
EXTENDS Naturals

VARIABLE project  \* the generation of the project's state, 0 before there is one

AtomicInit == project = 0

Found == project = 0 /\ project' \in Nat \ {0}
Advance == project > 0 /\ project' = project + 1

AtomicSpec == AtomicInit /\ [][Found \/ Advance]_project
=============================================================================
