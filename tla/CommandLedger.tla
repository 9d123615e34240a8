--------------------------- MODULE CommandLedger ---------------------------
(***************************************************************************)
(* What a caller who does not know whether a command arrived is promised:   *)
(* it may send it again.  A command id takes effect once, the same payload  *)
(* under it is recognized, another one is refused, and nothing changes but  *)
(* by a command that is recorded.                                           *)
(***************************************************************************)
CONSTANTS
  Unused   \* the payload of an id that no command has used

VARIABLES
  taken,   \* for each command id, the payload it took effect with
  effects, \* what the commands change
  answer   \* the last command, its payload and what its caller was told

Say(c, payload, status) == answer' = [command |-> c, payload |-> payload, status |-> status]

LedgerInit == \A c \in DOMAIN taken : taken[c] = Unused

Take(c) ==
  \E payload \in {taken'[c]} :
    /\ taken[c] = Unused /\ payload # Unused
    /\ taken' = [taken EXCEPT ![c] = payload]
    /\ Say(c, payload, "accepted")

Answer ==
  /\ answer' # answer
  /\ UNCHANGED <<taken, effects>>
  /\ answer'.status = IF taken[answer'.command] = answer'.payload THEN "duplicate"
                      ELSE IF taken[answer'.command] = Unused THEN "stale" ELSE "rejected"

LedgerNext == Answer \/ \E c \in DOMAIN taken : Take(c)

LedgerSpec == LedgerInit /\ [][LedgerNext]_<<taken, effects, answer>>
=============================================================================
