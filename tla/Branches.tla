------------------------------ MODULE Branches ------------------------------
(***************************************************************************)
(* Branches of a project (src/branches): numbered snapshots of references,  *)
(* updates and promotions against an expected revision, corrections of a    *)
(* shared source, and the history that recognizes a command it has seen     *)
(* (src/persistence/history-store.ts).                                      *)
(*                                                                         *)
(* A function of the source is one transaction, so it is one step.  What it *)
(* throws changes nothing and is left out; what it answers is in lastAnswer.*)
(***************************************************************************)
EXTENDS Integers, FiniteSets, Sequences

CONSTANTS
  BranchNames, Main,  \* "main" among them
  Objects,            \* logical ids
  Works,              \* artifact versions
  ObjectOf(_),        \* the logical id of a version
  RestsOn(_),         \* the versions that a version names as dependencies
  CommandIds,
  MaxRevision,        \* bound: revisions of a branch
  Nothing             \* null value

ASSUME BranchAssumption ==
  /\ Main \in BranchNames /\ BranchNames \cap CommandIds = {}
  /\ Nothing \notin Works /\ MaxRevision \in Nat
  /\ \A w \in Works : ObjectOf(w) \in Objects /\ RestsOn(w) \subseteq Works

VARIABLES
  snapshots,  \* the references of each branch, revision by revision; none before it is made
  history,    \* what each command id was used for
  impacts,    \* impact_records
  lastAnswer

branchVars == <<snapshots, history, impacts, lastAnswer>>

References == [Objects -> Works \cup {Nothing}]
Payloads ==
  [operation : {"created"}, parent : BranchNames]
  \cup [operation : {"updated"}, branch : BranchNames, version : Works, expected : Nat]
  \cup [operation : {"promoted"}, source : BranchNames, branch : BranchNames,
        expected : Nat, objects : SUBSET Objects]
  \cup [operation : {"corrected"}, source : Works]
  \cup [operation : {"adopted"}, packet : Nat, branch : BranchNames, selected : SUBSET Works]
Rows == [payload : Payloads, expected : Nat, resulting : Nat]
Impacts == [branch : BranchNames, dependent : Works, command : CommandIds]
Answers == [command : CommandIds \cup BranchNames, payload : Payloads,
            status : {"accepted", "duplicate", "rejected", "stale"}]

ASSUME NullAssumption == Nothing \notin Payloads \cup Rows

BranchTypeOK ==
  /\ snapshots \in [BranchNames -> Seq(References)]
  /\ history \in [CommandIds \cup BranchNames -> Rows \cup {Nothing}]
  /\ impacts \subseteq Impacts
  /\ lastAnswer \in Answers \cup {Nothing}

BranchInit ==
  /\ snapshots = [b \in BranchNames |-> IF b = Main THEN <<[o \in Objects |-> Nothing]>> ELSE <<>>]
  /\ history = [c \in CommandIds \cup BranchNames |-> Nothing]
  /\ impacts = {}
  /\ lastAnswer = Nothing

-----------------------------------------------------------------------------
Exists(b) == snapshots[b] # <<>>
Revision(b) == Len(snapshots[b]) - 1
Current(b) == snapshots[b][Len(snapshots[b])]
Holds(references) == {references[o] : o \in Objects} \ {Nothing}

\* dependentVersions: what rests on a version, directly or not.
Dependent(w) ==
  {d \in Works : \A S \in SUBSET Works :
     (\A x \in Works : RestsOn(x) \cap (S \cup {w}) # {} => x \in S) => d \in S}

Reply(c, payload, status) ==
  lastAnswer' = [command |-> c, payload |-> payload, status |-> status]

Record(c, payload, from, to) ==
  /\ history' = [history EXCEPT ![c] = [payload |-> payload, expected |-> from, resulting |-> to]]
  /\ Reply(c, payload, "accepted")

\* Mutated form: the expected revision is compared before the history is asked.
AnswerStaleFirst(c, payload, revision) ==
  /\ payload.expected # revision \/ history[c] # Nothing
  /\ Reply(c, payload, IF payload.expected # revision THEN "stale"
                       ELSE IF history[c].payload = payload THEN "duplicate" ELSE "rejected")
  /\ UNCHANGED <<snapshots, history, impacts>>

\* existingMutationResult, or else the expected revision is not the current one.
AnswerOnly(c, payload, revision) ==
  /\ \/ /\ history[c] # Nothing
        /\ Reply(c, payload, IF history[c].payload = payload THEN "duplicate" ELSE "rejected")
     \/ /\ history[c] = Nothing /\ payload.expected # revision
        /\ Reply(c, payload, "stale")
  /\ UNCHANGED <<snapshots, history, impacts>>

Accepts(c, payload, revision) ==
  history[c] = Nothing /\ payload.expected = revision /\ revision < MaxRevision

Append1(b, references) == snapshots' = [snapshots EXCEPT ![b] = Append(@, references)]

\* Mutated form: only what rests on the new version is looked for.
ImpactsOfNew(c, b, from, to) ==
  {[branch |-> b, dependent |-> d, command |-> c] :
     d \in {x \in Holds(to) : \E o \in Objects :
              /\ from[o] # to[o] /\ to[o] # Nothing
              /\ x \in Dependent(to[o])}}

\* What the new snapshot holds that rests on a version that came or went.
ImpactsOf(c, b, from, to) ==
  {[branch |-> b, dependent |-> d, command |-> c] :
     d \in {x \in Holds(to) : \E o \in Objects :
              /\ from[o] # to[o]
              /\ \E w \in {from[o], to[o]} \ {Nothing} : x \in Dependent(w)}}

-----------------------------------------------------------------------------
CreateBranch(b, parent) ==
  /\ ~Exists(b) /\ Exists(parent)
  /\ Append1(b, Current(parent))
  /\ Record(b, [operation |-> "created", parent |-> parent], 0, 0)
  /\ UNCHANGED impacts

UpdateBranchReference(c, b, w, expected) ==
  LET payload == [operation |-> "updated", branch |-> b, version |-> w, expected |-> expected]
  IN  /\ Exists(b)
      /\ \/ AnswerOnly(c, payload, Revision(b))
         \/ /\ Accepts(c, payload, Revision(b))
            /\ Append1(b, [Current(b) EXCEPT ![ObjectOf(w)] = w])
            /\ Record(c, payload, expected, expected + 1)
            /\ UNCHANGED impacts

\* The references of the source at the objects asked for, over the others of b.
Promoted(source, b, objects) ==
  [o \in Objects |-> IF o \in objects THEN Current(source)[o] ELSE Current(b)[o]]

\* Without a difference the command is recorded and the revision stays.
PromoteBranch(c, source, b, objects, expected) ==
  LET payload == [operation |-> "promoted", source |-> source, branch |-> b,
                  expected |-> expected, objects |-> objects]
      after == Promoted(source, b, objects)
  IN  /\ Exists(source) /\ Exists(b) /\ source # b
      /\ \/ AnswerOnly(c, payload, Revision(b))
         \/ /\ Accepts(c, payload, Revision(b))
            /\ \A o \in objects : Current(source)[o] # Nothing
            /\ IF after = Current(b)
               THEN /\ Record(c, payload, expected, expected)
                    /\ UNCHANGED <<snapshots, impacts>>
               ELSE /\ Append1(b, after)
                    /\ impacts' = impacts \cup ImpactsOf(c, b, Current(b), after)
                    /\ Record(c, payload, expected, expected + 1)

\* Every branch that holds the source or something that rests on it is told.
RecordSharedSourceCorrection(c, w) ==
  LET payload == [operation |-> "corrected", source |-> w]
      affected == Dependent(w) \cup {w}
  IN  /\ UNCHANGED snapshots
      /\ \/ /\ history[c] # Nothing
            /\ Reply(c, payload, IF history[c].payload = payload THEN "duplicate" ELSE "rejected")
            /\ UNCHANGED <<history, impacts>>
         \/ /\ history[c] = Nothing
            /\ impacts' = impacts \cup
                 UNION {{[branch |-> b, dependent |-> d, command |-> c] :
                           d \in Holds(Current(b)) \cap affected} : b \in {x \in BranchNames : Exists(x)}}
            /\ Record(c, payload, 0, 0)

BranchNext ==
  \/ \E b, parent \in BranchNames : CreateBranch(b, parent)
  \/ \E c \in CommandIds :
       \/ \E b \in BranchNames, w \in Works, e \in 0 .. MaxRevision : UpdateBranchReference(c, b, w, e)
       \/ \E source, b \in BranchNames, objects \in SUBSET Objects, e \in 0 .. MaxRevision :
            PromoteBranch(c, source, b, objects, e)
       \/ \E w \in Works : RecordSharedSourceCorrection(c, w)

-----------------------------------------------------------------------------
\* Properties

\* A caller may send a command again: it takes effect once, is recognized even
\* when the branch has moved on since, and nothing changes without a record.  (Impacts that
\* a change of a protocol notes under its own command are not of this history.)
Ledger == INSTANCE CommandLedger
  WITH taken <- [c \in DOMAIN history |-> IF history[c] = Nothing THEN Nothing ELSE history[c].payload],
       effects <- <<snapshots, {i \in impacts : history[i.command] # Nothing}>>, answer <- lastAnswer, Unused <- Nothing
CommandsTakeEffectOnce == Ledger!LedgerSpec

\* What a branch goes on holding though a promotion or an adoption replaced
\* something it rests on is noted for review under that command.
ReplacedSourceIsNoted ==
  \A c \in CommandIds :
    LET row == history[c]
    IN  row # Nothing /\ row.payload.operation \in {"promoted", "adopted"}
                      /\ row.resulting = row.expected + 1
        => LET b == row.payload.branch
               from == snapshots[b][row.resulting]
               to == snapshots[b][row.resulting + 1]
           IN  \A o \in Objects, x \in Holds(to) :
                 from[o] # to[o] /\ from[o] # Nothing /\ x \in Dependent(from[o])
                 => [branch |-> b, dependent |-> x, command |-> c] \in impacts
=============================================================================
