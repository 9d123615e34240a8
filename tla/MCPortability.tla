---------------------------- MODULE MCPortability ----------------------------
(***************************************************************************)
(* A small instance of Portability: an interview and a summary made from    *)
(* it, two permissions of the same terms, two packets, one deletion.        *)
(***************************************************************************)
EXTENDS Portability, TLC

CONSTANTS interview, summary, share

TwoVersions == {interview, summary}
Lineage == [v \in TwoVersions |-> IF v = summary THEN {interview} ELSE {}]
TwoGrants == 1 .. 2
Interchangeable == Permutations(Packets)

\* Either what happens to content, without permissions, or what happens to the
\* permissions of one version that is not deleted.
OneConcern ==
  \/ issued = {} /\ classified = {}
  \/ used \subseteq {interview} /\ tombstones = {} /\ temporary = {} /\ content[interview] = "available"

SameTerms == [g \in TwoGrants |-> [version |-> interview, uses |-> {share}]]
=============================================================================
