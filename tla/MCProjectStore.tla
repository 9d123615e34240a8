--------------------------- MODULE MCProjectStore ---------------------------
(***************************************************************************)
(* Small instances of ProjectStore.                                         *)
(***************************************************************************)
EXTENDS ProjectStore

CONSTANTS a, b, c

TwoProcs == {a, b}
ThreeProcs == {a, b, c}
=============================================================================
