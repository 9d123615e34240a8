---------------------------- MODULE BudgetLedger ----------------------------
(***************************************************************************)
(* The budget ledger of one work contract (src/work/budget-ledger.ts) and   *)
(* the contract versions it is charged to (src/work/work-store.ts).  All    *)
(* versions of a contract share one budget group, so what an earlier        *)
(* version spent still counts after a revision.                             *)
(*                                                                         *)
(* The ledger keeps one row per run and reserved dimension.  Every update   *)
(* of the code touches all rows of a run at once and a run's request never  *)
(* changes, so a run's rows are kept here as one record.                    *)
(***************************************************************************)
EXTENDS Integers, FiniteSets, FiniteSetsExt

CONSTANTS
  Runs,        \* run identifiers
  Dimensions,  \* the budgeted dimensions: tokens, calls, timeMs, spend
  Spend,       \* the dimension that needs a provider price
  Versions,    \* contract versions 1 .. n
  Limit,       \* Limit[v]: the limits of version v, for the dimensions it caps
  Request      \* Request[r]: the version, amounts and price quote r is queued with

BudgetConstants ==
  /\ IsFiniteSet(Runs)
  /\ Spend \in Dimensions
  /\ Versions \subseteq Nat \ {0}
  /\ \A v \in Versions : v = 1 \/ v - 1 \in Versions
  /\ \A v \in Versions : DOMAIN Limit[v] \subseteq Dimensions
                         /\ \A d \in DOMAIN Limit[v] : Limit[v][d] \in Nat
  /\ Request \in [Runs -> [version : Versions,
                           amount : [Dimensions -> Nat],
                           quoted : BOOLEAN]]

VARIABLES
  contract,  \* status of each contract version
  ledger     \* the rows of each run

ledgerVars == <<contract, ledger>>

ContractStatuses == {"absent", "proposed", "authorized", "cancelled"}

\* booked: rows exist; open: their reserved column has not been zeroed
Rows == [booked : BOOLEAN, open : BOOLEAN, uncertain : BOOLEAN,
         spent : [Dimensions -> Nat]]

LedgerTypeOK ==
  /\ contract \in [Versions -> ContractStatuses]
  /\ ledger \in [Runs -> Rows]

NothingUsed == [d \in Dimensions |-> 0]
NoRows == [booked |-> FALSE, open |-> FALSE, uncertain |-> FALSE, spent |-> NothingUsed]

LedgerInit ==
  /\ contract = [v \in Versions |-> IF v = 1 THEN "proposed" ELSE "absent"]
  /\ ledger = [r \in Runs |-> NoRows]

-----------------------------------------------------------------------------
\* Totals over the budget group

Amount(r) == Request[r].amount
Reserved(r, d) == IF ledger[r].open THEN Amount(r)[d] ELSE 0
Charged(r, d) == Reserved(r, d) + ledger[r].spent[d]
Total(d) == SumFunctionOnSet([r \in Runs |-> Charged(r, d)], Runs)

-----------------------------------------------------------------------------
\* Contract versions

\* authorizeStoredContract: only a proposed version is authorized.
Authorize(v) ==
  /\ contract[v] = "proposed"
  /\ contract' = [contract EXCEPT ![v] = "authorized"]
  /\ UNCHANGED ledger

\* reviseContract: the new version is proposed in the same budget group.  The
\* version it revises keeps its status.
Revise(v) ==
  /\ v > 1 /\ contract[v] = "absent" /\ contract[v - 1] # "absent"
  /\ contract' = [contract EXCEPT ![v] = "proposed"]
  /\ UNCHANGED ledger

CancelVersion(v) ==
  /\ contract[v] # "absent"
  /\ contract' = [contract EXCEPT ![v] = "cancelled"]

-----------------------------------------------------------------------------
\* Reservations

\* Under a spend cap a reservation needs a known price and an amount.
Priced(r, quoted) ==
  Spend \in DOMAIN Limit[Request[r].version] => quoted

\* Mutated form: a request is compared with the limit by itself.
FitsAlone(r) ==
  LET limit == Limit[Request[r].version]
  IN  \A d \in DOMAIN limit : Amount(r)[d] <= limit[d]

\* Each capped dimension that is asked for has room.
Fits(r) ==
  LET limit == Limit[Request[r].version]
  IN  \A d \in DOMAIN limit :
        Amount(r)[d] > 0 => Total(d) + Amount(r)[d] <= limit[d]

\* reserveBudget of a run that has no rows.  It inserts rows for the dimensions
\* with a positive amount only.
Reserve(r, quoted) ==
  /\ contract[Request[r].version] = "authorized"
  /\ ~ledger[r].booked
  /\ Priced(r, quoted) /\ Fits(r)
  /\ LET any == \E d \in Dimensions : Amount(r)[d] > 0
     IN  ledger' = [ledger EXCEPT ![r] = [NoRows EXCEPT !.booked = any, !.open = any]]

\* settleBudget(actuals, true): the reservation is held, usage is not known.
Hold(r) ==
  ledger' = [ledger EXCEPT ![r].uncertain = @ \/ ledger[r].booked]

\* The reported usage is within the reservation, dimension by dimension: more
\* than reserved, or anything in an unreserved dimension, is thrown back.
Within(r, actuals) == \A d \in Dimensions : actuals[d] <= Reserved(r, d)

\* settleBudget(actuals, false): the reservation is closed, actuals are spent.
Closed(r, actuals) ==
  [booked |-> TRUE, open |-> FALSE, uncertain |-> FALSE,
   spent |-> [d \in Dimensions |-> ledger[r].spent[d] + actuals[d]]]

Settle(r, actuals) ==
  /\ Within(r, actuals)
  /\ ledger' = IF ledger[r].booked THEN [ledger EXCEPT ![r] = Closed(r, actuals)] ELSE ledger

\* settleBudget({}, false): the reservation is closed and nothing is spent.
Free(r) == Settle(r, NothingUsed)

\* Actual usage is whatever a provider may report.
LedgerNext ==
  \/ \E v \in Versions : Authorize(v) \/ Revise(v)
  \/ \E v \in Versions : CancelVersion(v) /\ UNCHANGED ledger
  \/ \E r \in Runs, quoted \in BOOLEAN : Reserve(r, quoted) /\ UNCHANGED contract
  \/ \E r \in Runs : Hold(r) /\ UNCHANGED contract
  \/ \E r \in Runs : \E actuals \in [Dimensions -> UNION {0 .. Amount(r)[d] : d \in Dimensions}] :
       Settle(r, actuals) /\ UNCHANGED contract

LedgerSpec == LedgerInit /\ [][LedgerNext]_ledgerVars

-----------------------------------------------------------------------------
\* Properties

\* What the runs of a budget group have reserved and spent together stays within
\* the most generous version the owner has ever authorized: concurrent
\* reservations, retries and revisions cannot add up to more.
GroupWithinLimit ==
  \A d \in Dimensions :
    Total(d) > 0 =>
      \E v \in Versions :
        /\ contract[v] \in {"authorized", "cancelled"}
        /\ d \in DOMAIN Limit[v] => Total(d) <= Limit[v][d]
=============================================================================
