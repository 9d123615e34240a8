----------------------------- MODULE DataPolicy -----------------------------
(***************************************************************************)
(* Data-use policy (src/policy): classification of artifact versions,       *)
(* data-use permissions with their withdrawal and expiry, the evaluation of *)
(* a policy request, and the disclosure gateway that takes everything a     *)
(* version was derived from into account.                                   *)
(*                                                                         *)
(* A use stands for what a request names: a destination, a purpose and      *)
(* possibly a transformation.  Scope says which uses a permission's         *)
(* destination, purpose (or "*") and allowed transformations cover.         *)
(***************************************************************************)
EXTENDS Integers, FiniteSets

CONSTANTS
  Versions,  \* artifact versions
  Sources,   \* Sources[v]: the versions v was registered as depending on
  Uses,      \* external uses
  Grants,    \* permission rows, numbered in the order of their creation
  Scope      \* Scope[g]: the version and the uses of permission g

PolicyConstants ==
  /\ Sources \in [Versions -> SUBSET Versions]
  /\ Grants \subseteq Nat
  /\ Scope \in [Grants -> [version : Versions, uses : SUBSET Uses]]

ASSUME PolicyAssumption == PolicyConstants

VARIABLES
  classified,  \* versions with a classification row
  permission   \* status of each permission row

policyVars == <<classified, permission>>

\* "lapsed" is an active row whose expiresAt has passed: no column changes.
PermissionStatuses == {"absent", "active", "lapsed", "withdrawn", "expired"}

PolicyTypeOK ==
  /\ classified \subseteq Versions
  /\ permission \in [Grants -> PermissionStatuses]

PolicyInit ==
  /\ classified = {}
  /\ permission = [g \in Grants |-> "absent"]

-----------------------------------------------------------------------------
\* Reading the policy

\* listPermissions
RowsOf(v) == {g \in Grants : permission[g] # "absent" /\ Scope[g].version = v}

\* The column says active, whatever the clock says.
HasActive(v) == \E g \in RowsOf(v) : permission[g] \in {"active", "lapsed"}

Matching(v, use) == {g \in RowsOf(v) : use \in Scope[g].uses}

\* evaluatePolicy of one version for an external use.  Every version is looked
\* at by itself; the result is allow when each is allowed.
Allows(v, use) == v \in classified /\ \E g \in Matching(v, use) : permission[g] = "active"

\* Rows are read in order and each failing row overwrites the reason, so the
\* reason of a denial is that of the last matching row.
DeniedAsWithdrawn(v, use) ==
  /\ v \in classified /\ ~Allows(v, use)
  /\ \E g \in Matching(v, use) :
       /\ permission[g] = "withdrawn"
       /\ \A h \in Matching(v, use) : h <= g

\* Dependencies are recorded when a version is registered and never change.
Closed(S) == \A v \in S : Sources[v] \subseteq S

\* resolveTransitiveVersions: the smallest closed set that holds V.
Lineages ==
  [V \in SUBSET Versions |->
     {w \in Versions : \A S \in SUBSET Versions : V \subseteq S /\ Closed(S) => w \in S}]

\* Mutated form: the sources are not followed.
Itself(V) == V

Reach(V) == Lineages[V]

\* effectiveRestriction: one unclassified or ungranted source restricts the
\* whole, and so does one withdrawn or expired row.
IsLocalOnly(V) == \E w \in Reach(V) : w \notin classified \/ RowsOf(w) = {}
IsWithdrawn(V) == \E w \in Reach(V) : \E g \in RowsOf(w) : permission[g] = "withdrawn"

\* Mutated form: an active row makes up for an expired one.
IsExpiredThroughout(V) ==
  \E w \in Reach(V) : ~HasActive(w) /\ \E g \in RowsOf(w) : permission[g] = "expired"

IsExpired(V) == \E w \in Reach(V) : \E g \in RowsOf(w) : permission[g] = "expired"

\* Mutated form: the effective restriction alone decides.
DisclosableByRestriction(V, use) == ~IsLocalOnly(V) /\ ~IsWithdrawn(V) /\ ~IsExpired(V)

\* requestDisclosure of V for an external use: the decision is allow.
Disclosable(V, use) ==
  /\ ~IsLocalOnly(V) /\ ~IsWithdrawn(V) /\ ~IsExpired(V)
  /\ \A w \in Reach(V) : Allows(w, use)

-----------------------------------------------------------------------------
\* Operations

\* classifyInput: a later classification replaces the level, the version stays
\* classified.
ClassifyInput(v) ==
  /\ classified' = classified \cup {v}
  /\ UNCHANGED permission

\* grantDataUse appends an active row.
GrantDataUse(g) ==
  /\ permission[g] = "absent"
  /\ \A h \in Grants : h < g => permission[h] # "absent"
  /\ permission' = [permission EXCEPT ![g] = "active"]
  /\ UNCHANGED classified

\* withdrawDataUse: a withdrawn row is returned as it is.
WithdrawDataUse(g) ==
  /\ permission[g] \notin {"absent", "withdrawn"}
  /\ permission' = [permission EXCEPT ![g] = "withdrawn"]
  /\ UNCHANGED classified

\* expireDataUse has no such guard: it also overwrites "withdrawn".
ExpireDataUse(g) ==
  /\ permission[g] # "absent"
  /\ permission' = [permission EXCEPT ![g] = "expired"]
  /\ UNCHANGED classified

\* The expiresAt of an active row passes.
Lapse(g) ==
  /\ permission[g] = "active"
  /\ permission' = [permission EXCEPT ![g] = "lapsed"]
  /\ UNCHANGED classified

PolicyStep ==
  \/ \E v \in Versions : ClassifyInput(v)
  \/ \E g \in Grants :
       GrantDataUse(g) \/ WithdrawDataUse(g) \/ ExpireDataUse(g) \/ Lapse(g)

PolicySpec == PolicyInit /\ [][PolicyStep]_policyVars

-----------------------------------------------------------------------------
\* Properties

\* What is derived from a source is never more open than the source, so no chain
\* of derivations launders a restriction away.
DerivedNeverMoreOpen ==
  \A v \in Versions, use \in Uses :
    Disclosable({v}, use) => \A w \in Sources[v] : Disclosable({w}, use)

\* Once a permission of some source was withdrawn or expired, neither it nor
\* anything made from it is ever disclosed again, whatever is granted later and
\* although an expiry may overwrite a withdrawal.
RevokedForGood ==
  [][\A v \in Versions :
       IsWithdrawn({v}) \/ IsExpired({v}) => \A use \in Uses : ~Disclosable({v}, use)']_policyVars
=============================================================================
