------------------------ MODULE ActivityAuthorization ------------------------
(***************************************************************************)
(* External authorization of a research activity                            *)
(* (src/ethics/authorization-store.ts, authorization-assessment.ts).  Rows  *)
(* are only appended: a withdrawal or an expiry is a new row that copies    *)
(* the scope of the row it names, and an assessment reads the latest row    *)
(* of the activity whatever its scope.                                      *)
(***************************************************************************)
CONSTANT Populations  \* scopes a grant may document

VARIABLES
  documented,  \* scopes for which some row exists
  latest       \* the latest row of the activity

authorizationVars == <<documented, latest>>

\* "approving" stands for documented-approved and not-required, "open" for
\* pending and unknown.
AuthorizationStatuses == {"approving", "open", "withdrawn", "expired"}
NoAuthorization == [scope |-> "none", status |-> "none"]
AuthorizationRows ==
  [scope : Populations, status : AuthorizationStatuses] \cup {NoAuthorization}

AuthorizationTypeOK ==
  /\ documented \subseteq Populations
  /\ latest \in AuthorizationRows

AuthorizationInit == documented = {} /\ latest = NoAuthorization

\* Mutated form: the row of the requested scope decides, wherever it stands.
PermittedByAnyRow(population) == population \in documented

\* assessActivityAuthorization: the latest row must be approving and cover the
\* population the operation's snapshot names.
Permitted(population) ==
  /\ latest.status = "approving"
  /\ latest.scope = population

\* The statuses of a denial on which a caller fences.
Revoked == latest.status \in {"withdrawn", "expired"}

\* recordExternalAuthorization
RecordAuthorization(population, status) ==
  /\ documented' = documented \cup {population}
  /\ latest' = [scope |-> population, status |-> status]

\* withdrawExternalAuthorization and expireExternalAuthorization name any
\* earlier row, not only the latest one.
Transition(population, status) ==
  /\ population \in documented /\ status \in {"withdrawn", "expired"}
  /\ latest' = [scope |-> population, status |-> status]
  /\ UNCHANGED documented

\* The expiresAt of the latest row passes; it is checked before anything but a
\* withdrawal.
AuthorizationLapses ==
  /\ latest.status \in AuthorizationStatuses \ {"withdrawn"}
  /\ latest' = [latest EXCEPT !.status = "expired"]
  /\ UNCHANGED documented

AuthorizationStep ==
  \/ \E population \in Populations :
       \/ \E status \in AuthorizationStatuses : RecordAuthorization(population, status)
       \/ \E status \in AuthorizationStatuses : Transition(population, status)
  \/ AuthorizationLapses
=============================================================================
