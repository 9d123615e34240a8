----------------------------- MODULE StudyProofs -----------------------------
(***************************************************************************)
(* Proofs about branches, decisions and the study protocol, for any         *)
(* branches, versions, dependencies, commands, packets and protocols, with  *)
(* the steps of all three modules in any order.                             *)
(***************************************************************************)
EXTENDS Protocols, SequenceTheorems, TLAPS

-----------------------------------------------------------------------------
\* Branches

\* A branch is only ever made under its own name, which no other command has.
NamesUnused ==
  /\ Exists(Main)
  /\ \A b \in BranchNames : ~Exists(b) => history[b] = Nothing

\* A command that changed references, or found nothing to change, points at two
\* snapshots that are there.
RowsPlaced ==
  \A c \in CommandIds :
    LET row == history[c]
    IN  row # Nothing /\ row.payload.operation \in {"promoted", "adopted"}
        => row.payload.branch \in BranchNames /\ row.resulting < Len(snapshots[row.payload.branch])

BranchInv == BranchTypeOK /\ NamesUnused /\ RowsPlaced /\ ReplacedSourceIsNoted

\* A branch that exists has a current snapshot.
LEMMA CurrentType ==
  ASSUME BranchTypeOK, NEW b \in BranchNames, Exists(b)
  PROVE  /\ Len(snapshots[b]) \in Nat \ {0} /\ Revision(b) \in Nat /\ Len(snapshots[b]) = Revision(b) + 1
         /\ Current(b) \in References
<1>1. snapshots[b] \in Seq(References)
  BY DEF BranchTypeOK
<1>2. Len(snapshots[b]) \in Nat \ {0}
  BY <1>1 DEF Exists
<1> QED BY <1>1, <1>2, ElementOfSeq DEF Revision, Current

\* An appended snapshot leaves the earlier ones where they are.
LEMMA AppendKeeps ==
  ASSUME BranchTypeOK, NEW b \in BranchNames, NEW r \in References, Append1(b, r)
  PROVE  /\ snapshots' \in [BranchNames -> Seq(References)]
         /\ \A x \in BranchNames \ {b} : snapshots'[x] = snapshots[x]
         /\ Len(snapshots[b]) \in Nat /\ Len(snapshots'[b]) = Len(snapshots[b]) + 1
         /\ \A i \in 1 .. Len(snapshots[b]) : snapshots'[b][i] = snapshots[b][i]
         /\ snapshots'[b][Len(snapshots[b]) + 1] = r
<1>1. snapshots[b] \in Seq(References) /\ snapshots'[b] = Append(snapshots[b], r)
  BY DEF BranchTypeOK, Append1
<1>2. Len(snapshots[b]) \in Nat
  BY <1>1
<1> QED BY <1>1, <1>2, AppendProperties DEF BranchTypeOK, Append1

\* Impacts are of the command and the branch they are noted for.
LEMMA ImpactsType ==
  ASSUME NEW c \in CommandIds, NEW b \in BranchNames, NEW from, NEW to \in References
  PROVE  ImpactsOf(c, b, from, to) \subseteq Impacts
<1>1. Holds(to) \subseteq Works
  BY DEF Holds, References
<1> QED BY <1>1 DEF ImpactsOf, Impacts

LEMMA PromotedType ==
  ASSUME BranchTypeOK, NEW source \in BranchNames, NEW b \in BranchNames, NEW objects,
         Exists(source), Exists(b)
  PROVE  Promoted(source, b, objects) \in References
<1>1. Current(source) \in References /\ Current(b) \in References
  BY CurrentType
<1> QED BY <1>1 DEF Promoted, References

\* Noting more for review loses nothing that was noted.
LEMMA NotedStays ==
  ASSUME ReplacedSourceIsNoted, UNCHANGED <<snapshots, history>>, impacts \subseteq impacts'
  PROVE  ReplacedSourceIsNoted'
<1> SUFFICES ASSUME NEW c \in CommandIds, history'[c] # Nothing,
                    history'[c].payload.operation \in {"promoted", "adopted"},
                    history'[c].resulting = history'[c].expected + 1,
                    NEW o \in Objects,
                    NEW x \in Holds(snapshots'[history'[c].payload.branch][history'[c].resulting + 1]),
                    LET w == snapshots'[history'[c].payload.branch][history'[c].resulting][o]
                    IN  /\ w # snapshots'[history'[c].payload.branch][history'[c].resulting + 1][o]
                        /\ w # Nothing /\ x \in Dependent(w)
             PROVE  [branch |-> history'[c].payload.branch, dependent |-> x, command |-> c] \in impacts'
  BY DEF ReplacedSourceIsNoted, Holds
<1> DEFINE b == history[c].payload.branch
           from == snapshots[b][history[c].resulting]
           to == snapshots[b][history[c].resulting + 1]
<1>1. snapshots' = snapshots /\ history' = history
  OBVIOUS
<1>2. /\ history[c] # Nothing /\ history[c].payload.operation \in {"promoted", "adopted"}
      /\ history[c].resulting = history[c].expected + 1 /\ x \in Holds(to)
      /\ from[o] # to[o] /\ from[o] # Nothing /\ x \in Dependent(from[o])
  BY <1>1
<1>3. [branch |-> b, dependent |-> x, command |-> c] \in impacts
  BY <1>2 DEF ReplacedSourceIsNoted
<1> QED BY <1>1, <1>3

\* An answer without effect keeps everything.
LEMMA ReplyKeeps ==
  ASSUME BranchInv, NEW c \in CommandIds, NEW payload \in Payloads,
         NEW status \in {"duplicate", "rejected", "stale"}, Reply(c, payload, status),
         UNCHANGED <<snapshots, history, impacts>>
  PROVE  BranchInv'
<1>1. lastAnswer' \in Answers
  BY DEF Reply, Answers
<1>2. BranchTypeOK' /\ NamesUnused' /\ RowsPlaced'
  BY <1>1 DEF BranchInv, BranchTypeOK, NamesUnused, RowsPlaced, Exists
<1>3. ReplacedSourceIsNoted'
  BY NotedStays DEF BranchInv
<1> QED BY <1>2, <1>3 DEF BranchInv

\* What a command that takes effect leaves, when it moves the branch or when it does not.
LEMMA RecordKeeps ==
  ASSUME BranchInv, NEW c \in CommandIds \cup BranchNames, c \in BranchNames => Exists(c)',
         NEW payload \in Payloads, NEW from \in Nat, NEW to \in Nat,
         Record(c, payload, from, to), impacts \subseteq impacts', impacts' \subseteq Impacts,
         snapshots' \in [BranchNames -> Seq(References)],
         \A b \in BranchNames :
           /\ Len(snapshots[b]) <= Len(snapshots'[b])
           /\ \A i \in 1 .. Len(snapshots[b]) : snapshots'[b][i] = snapshots[b][i],
         payload.operation \in {"promoted", "adopted"} =>
           /\ to < Len(snapshots'[payload.branch])
           /\ to = from + 1 =>
                \A o \in Objects, x \in Holds(snapshots'[payload.branch][to + 1]) :
                  LET w == snapshots'[payload.branch][to][o]
                  IN  /\ w # snapshots'[payload.branch][to + 1][o] /\ w # Nothing
                      /\ x \in Dependent(w)
                      => [branch |-> payload.branch, dependent |-> x, command |-> c] \in impacts'
  PROVE  BranchInv'
<1> DEFINE row == [payload |-> payload, expected |-> from, resulting |-> to]
<1>1. row \in Rows /\ history' = [history EXCEPT ![c] = row] /\ lastAnswer' \in Answers
  BY DEF Record, Reply, Answers, Rows
<1>2. BranchTypeOK'
  BY <1>1 DEF BranchInv, BranchTypeOK
<1>3. NamesUnused'
  <2>1. \A b \in BranchNames : b # c => history'[b] = history[b]
    BY <1>1 DEF BranchInv, BranchTypeOK
  <2>2. ASSUME NEW b \in BranchNames, Exists(b) PROVE Exists(b)'
    <3>1. Len(snapshots[b]) \in Nat \ {0} /\ snapshots'[b] \in Seq(References)
      BY <2>2, CurrentType DEF BranchInv
    <3>2. Len(snapshots'[b]) \in Nat \ {0}
      BY <3>1
    <3> QED BY <3>2 DEF Exists
  <2> QED BY <2>1, <2>2, BranchAssumption DEF BranchInv, NamesUnused
<1>4. ASSUME NEW d \in CommandIds, d # c, history'[d] # Nothing,
             history'[d].payload.operation \in {"promoted", "adopted"}
      PROVE  LET r == history'[d]  b == r.payload.branch
             IN  /\ r = history[d] /\ b \in BranchNames /\ r.resulting < Len(snapshots[b])
                 /\ r.resulting < Len(snapshots'[b])
  <2>1. history'[d] = history[d]
    BY <1>1, <1>4 DEF BranchInv, BranchTypeOK
  <2>2. history[d].payload.branch \in BranchNames
        /\ history[d].resulting < Len(snapshots[history[d].payload.branch])
        /\ history[d] \in Rows
    BY <1>4, <2>1 DEF BranchInv, RowsPlaced, BranchTypeOK
  <2>3. \A b \in BranchNames : Len(snapshots[b]) \in Nat /\ Len(snapshots'[b]) \in Nat
    BY DEF BranchInv, BranchTypeOK
  <2>4. history[d].resulting \in Nat
    BY <2>2 DEF Rows
  <2> QED BY <2>1, <2>2, <2>3, <2>4
<1>5. history'[c] = row
  BY <1>1 DEF BranchInv, BranchTypeOK
<1>6. RowsPlaced'
  <2> SUFFICES ASSUME NEW d \in CommandIds, history'[d] # Nothing,
                      history'[d].payload.operation \in {"promoted", "adopted"}
               PROVE  /\ history'[d].payload.branch \in BranchNames
                      /\ history'[d].resulting < Len(snapshots'[history'[d].payload.branch])
    BY DEF RowsPlaced
  <2>1. CASE d = c
    <3>1. payload.branch \in BranchNames
      BY <1>5, <2>1 DEF Payloads
    <3> QED BY <3>1, <1>5, <2>1
  <2> QED BY <2>1, <1>4
<1>7. ReplacedSourceIsNoted'
  <2> SUFFICES ASSUME NEW d \in CommandIds, history'[d] # Nothing,
                      history'[d].payload.operation \in {"promoted", "adopted"},
                      history'[d].resulting = history'[d].expected + 1,
                      NEW o \in Objects,
                      NEW x \in Holds(snapshots'[history'[d].payload.branch][history'[d].resulting + 1]),
                      LET w == snapshots'[history'[d].payload.branch][history'[d].resulting][o]
                      IN  /\ w # snapshots'[history'[d].payload.branch][history'[d].resulting + 1][o]
                          /\ w # Nothing /\ x \in Dependent(w)
               PROVE  [branch |-> history'[d].payload.branch, dependent |-> x, command |-> d] \in impacts'
    BY DEF ReplacedSourceIsNoted, Holds
  <2>1. CASE d = c
    <3>0. history'[d].payload = payload /\ history'[d].resulting = to /\ history'[d].expected = from
      BY ONLY <1>5, <2>1
    <3> HIDE DEF row
    <3>1. /\ payload.operation \in {"promoted", "adopted"} /\ to = from + 1
          /\ x \in Holds(snapshots'[payload.branch][to + 1])
          /\ snapshots'[payload.branch][to][o] # snapshots'[payload.branch][to + 1][o]
          /\ snapshots'[payload.branch][to][o] # Nothing
          /\ x \in Dependent(snapshots'[payload.branch][to][o])
      BY <3>0
    <3>2. [branch |-> payload.branch, dependent |-> x, command |-> c] \in impacts'
      <4>1. \A p \in Objects, y \in Holds(snapshots'[payload.branch][to + 1]) :
              LET w == snapshots'[payload.branch][to][p]
              IN  /\ w # snapshots'[payload.branch][to + 1][p] /\ w # Nothing
                  /\ y \in Dependent(w)
                  => [branch |-> payload.branch, dependent |-> y, command |-> c] \in impacts'
        BY <3>1
      <4> QED BY <3>1, <4>1
    <3> QED BY <3>0, <2>1, <3>2
  <2>2. CASE d # c
    <3> DEFINE r == history[d]
               b == r.payload.branch
    <3>1. history'[d] = r /\ b \in BranchNames /\ r.resulting < Len(snapshots[b])
      BY <1>4, <2>2
    <3>2. r \in Rows
      BY <3>1 DEF BranchInv, BranchTypeOK
    <3>3. r.resulting \in 1 .. Len(snapshots[b]) /\ r.resulting + 1 \in 1 .. Len(snapshots[b])
      <4>1. Len(snapshots[b]) \in Nat
        BY ONLY <3>1, BranchInv DEF BranchInv, BranchTypeOK
      <4>2. r.resulting \in Nat /\ r.expected \in Nat
        BY <3>2 DEF Rows
      <4>3. r.resulting = r.expected + 1 /\ r.resulting < Len(snapshots[b])
        BY <3>1
      <4> HIDE DEF r, b
      <4> QED BY ONLY <4>1, <4>2, <4>3
    <3>4. /\ snapshots'[b][r.resulting] = snapshots[b][r.resulting]
          /\ snapshots'[b][r.resulting + 1] = snapshots[b][r.resulting + 1]
      BY <3>1, <3>3
    <3>a. /\ r # Nothing /\ r.payload.operation \in {"promoted", "adopted"}
          /\ r.resulting = r.expected + 1
          /\ x \in Holds(snapshots[b][r.resulting + 1])
          /\ snapshots[b][r.resulting][o] # snapshots[b][r.resulting + 1][o]
          /\ snapshots[b][r.resulting][o] # Nothing
          /\ x \in Dependent(snapshots[b][r.resulting][o])
      BY <3>1, <3>4
    <3>5. [branch |-> b, dependent |-> x, command |-> d] \in impacts
      BY <3>a DEF BranchInv, ReplacedSourceIsNoted
    <3> QED BY <3>1, <3>5
  <2> QED BY <2>1, <2>2
<1> QED BY <1>2, <1>3, <1>6, <1>7 DEF BranchInv

\* The same for a command that moves a branch with a snapshot of its own, and
\* notes what rests on what it replaced.
LEMMA MoveKeeps ==
  ASSUME BranchInv, NEW c \in CommandIds, NEW b \in BranchNames, NEW r \in References,
         NEW payload \in Payloads, Exists(b), Append1(b, r), Record(c, payload, Revision(b), Revision(b) + 1),
         impacts \subseteq impacts', impacts' \subseteq Impacts,
         payload.operation \in {"promoted", "adopted"} =>
           payload.branch = b /\ ImpactsOf(c, b, Current(b), r) \subseteq impacts'
  PROVE  BranchInv'
<1> DEFINE to == Revision(b) + 1
<1>1. Revision(b) \in Nat /\ Len(snapshots[b]) = to /\ to \in Nat \ {0}
  BY CurrentType DEF BranchInv
<1>2. /\ snapshots' \in [BranchNames -> Seq(References)]
      /\ \A x \in BranchNames \ {b} : snapshots'[x] = snapshots[x]
      /\ Len(snapshots'[b]) = to + 1
      /\ \A i \in 1 .. Len(snapshots[b]) : snapshots'[b][i] = snapshots[b][i]
      /\ snapshots'[b][to + 1] = r
  BY <1>1, AppendKeeps DEF BranchInv
<1>3. snapshots'[b][to] = Current(b)
  <2>1. Len(snapshots[b]) \in 1 .. Len(snapshots[b])
    BY <1>1
  <2>2. snapshots'[b][Len(snapshots[b])] = snapshots[b][Len(snapshots[b])]
    BY <1>2, <2>1
  <2> QED BY <1>1, <2>2 DEF Current
<1>4. \A x \in BranchNames :
        /\ Len(snapshots[x]) <= Len(snapshots'[x])
        /\ \A i \in 1 .. Len(snapshots[x]) : snapshots'[x][i] = snapshots[x][i]
  <2> SUFFICES ASSUME NEW x \in BranchNames
               PROVE  /\ Len(snapshots[x]) <= Len(snapshots'[x])
                      /\ \A i \in 1 .. Len(snapshots[x]) : snapshots'[x][i] = snapshots[x][i]
    OBVIOUS
  <2>1. Len(snapshots[x]) \in Nat
    BY DEF BranchInv, BranchTypeOK
  <2>2. CASE x = b
    <3>1. Len(snapshots[b]) <= Len(snapshots'[b])
      BY ONLY <1>1, <1>2
    <3> QED BY ONLY <3>1, <2>2, <1>2
  <2>3. CASE x # b
    <3>1. snapshots'[x] = snapshots[x]
      BY <2>3, <1>2
    <3>2. Len(snapshots[x]) <= Len(snapshots[x])
      BY ONLY <2>1
    <3> QED BY ONLY <3>1, <3>2
  <2> QED BY <2>2, <2>3
<1>5. ASSUME payload.operation \in {"promoted", "adopted"},
             NEW o \in Objects, NEW x \in Holds(snapshots'[payload.branch][to + 1]),
             snapshots'[payload.branch][to][o] # snapshots'[payload.branch][to + 1][o],
             snapshots'[payload.branch][to][o] # Nothing,
             x \in Dependent(snapshots'[payload.branch][to][o])
      PROVE  [branch |-> payload.branch, dependent |-> x, command |-> c] \in impacts'
  <2>1. payload.branch = b /\ ImpactsOf(c, b, Current(b), r) \subseteq impacts'
    BY <1>5
  <2>2. x \in Holds(r) /\ Current(b)[o] # r[o] /\ Current(b)[o] # Nothing /\ x \in Dependent(Current(b)[o])
    BY <1>5, <2>1, <1>2, <1>3
  <2>3. \E w \in {Current(b)[o], r[o]} \ {Nothing} : x \in Dependent(w)
    BY <2>2
  <2>4. [branch |-> b, dependent |-> x, command |-> c] \in ImpactsOf(c, b, Current(b), r)
    BY <2>2, <2>3 DEF ImpactsOf
  <2> QED BY <2>1, <2>4
<1>6. payload.operation \in {"promoted", "adopted"} => to < Len(snapshots'[payload.branch])
  BY <1>1, <1>2
<1>7. c \in BranchNames => Exists(c)'
  BY BranchAssumption
<1> HIDE DEF to
<1>8. Record(c, payload, Revision(b), to)
  BY DEF to
<1> QED BY <1>1, <1>2, <1>4, <1>5, <1>6, <1>7, <1>8, RecordKeeps

\* Making a branch keeps them.
LEMMA CreateKeeps ==
  ASSUME BranchInv, NEW b \in BranchNames, NEW parent \in BranchNames, CreateBranch(b, parent)
  PROVE  BranchInv'
<1> DEFINE payload == [operation |-> "created", parent |-> parent]
<1>1. Current(parent) \in References
  BY CurrentType DEF BranchInv, CreateBranch
<1>2. /\ snapshots' \in [BranchNames -> Seq(References)]
      /\ \A x \in BranchNames \ {b} : snapshots'[x] = snapshots[x]
      /\ Len(snapshots[b]) \in Nat /\ Len(snapshots'[b]) = Len(snapshots[b]) + 1
      /\ \A i \in 1 .. Len(snapshots[b]) : snapshots'[b][i] = snapshots[b][i]
  BY <1>1, AppendKeeps DEF BranchInv, CreateBranch
<1>3. payload \in Payloads /\ payload.operation \notin {"promoted", "adopted"}
  BY DEF Payloads
<1>4. Exists(b)'
  BY <1>2 DEF Exists
<1>5. \A x \in BranchNames :
        /\ Len(snapshots[x]) <= Len(snapshots'[x])
        /\ \A i \in 1 .. Len(snapshots[x]) : snapshots'[x][i] = snapshots[x][i]
  <2>1. \A x \in BranchNames : Len(snapshots[x]) \in Nat
    BY DEF BranchInv, BranchTypeOK
  <2> QED BY <2>1, <1>2
<1>6. Record(b, payload, 0, 0) /\ impacts' = impacts
  BY DEF CreateBranch
<1>7. impacts' \subseteq Impacts
  BY <1>6 DEF BranchInv, BranchTypeOK
<1> HIDE DEF payload
<1> QED BY <1>2, <1>3, <1>4, <1>5, <1>6, <1>7, RecordKeeps

\* Recording a command that leaves the branches as they are keeps them.
LEMMA StayKeeps ==
  ASSUME BranchInv, NEW c \in CommandIds, NEW payload \in Payloads, NEW from \in Nat,
         Record(c, payload, from, from), impacts \subseteq impacts', impacts' \subseteq Impacts,
         UNCHANGED snapshots,
         payload.operation \in {"promoted", "adopted"} => Exists(payload.branch) /\ from = Revision(payload.branch)
  PROVE  BranchInv'
<1>1. payload.operation \in {"promoted", "adopted"} => payload.branch \in BranchNames
  BY DEF Payloads
<1>2. payload.operation \in {"promoted", "adopted"} => from < Len(snapshots'[payload.branch])
  BY <1>1, CurrentType DEF BranchInv
<1>3. snapshots' \in [BranchNames -> Seq(References)]
      /\ \A x \in BranchNames :
        /\ Len(snapshots[x]) <= Len(snapshots'[x])
        /\ \A i \in 1 .. Len(snapshots[x]) : snapshots'[x][i] = snapshots[x][i]
  BY DEF BranchInv, BranchTypeOK
<1>4. c \in BranchNames => Exists(c)'
  BY BranchAssumption
<1>5. from # from + 1
  OBVIOUS
<1> QED BY <1>2, <1>3, <1>4, <1>5, RecordKeeps

\* Answering a command of a branch keeps them.
LEMMA AnswerKeeps ==
  ASSUME BranchInv, NEW c \in CommandIds, NEW payload \in Payloads, NEW n, AnswerOnly(c, payload, n)
  PROVE  BranchInv'
BY ReplyKeeps DEF AnswerOnly

\* Every step of the branches keeps them.
LEMMA BranchStepKeeps == ASSUME BranchInv, BranchNext PROVE BranchInv'
<1>1. ASSUME NEW b \in BranchNames, NEW parent \in BranchNames, CreateBranch(b, parent) PROVE BranchInv'
  BY <1>1, CreateKeeps
<1>2. ASSUME NEW c \in CommandIds, NEW b \in BranchNames, NEW w \in Works, NEW e \in 0 .. MaxRevision,
             UpdateBranchReference(c, b, w, e)
      PROVE  BranchInv'
  <2> DEFINE payload == [operation |-> "updated", branch |-> b, version |-> w, expected |-> e]
  <2>1. payload \in Payloads /\ payload.operation \notin {"promoted", "adopted"}
    BY BranchAssumption DEF Payloads
  <2>2. CASE AnswerOnly(c, payload, Revision(b))
    BY <2>1, <2>2, AnswerKeeps
  <2>3. CASE /\ Accepts(c, payload, Revision(b))
             /\ Append1(b, [Current(b) EXCEPT ![ObjectOf(w)] = w])
             /\ Record(c, payload, e, e + 1)
             /\ UNCHANGED impacts
    <3>1. Exists(b) /\ e = Revision(b) /\ Current(b) \in References
      BY <1>2, <2>3, CurrentType DEF UpdateBranchReference, Accepts, BranchInv
    <3>2. [Current(b) EXCEPT ![ObjectOf(w)] = w] \in References
      BY <3>1, BranchAssumption DEF References
    <3>3. impacts' \subseteq Impacts
      BY <2>3 DEF BranchInv, BranchTypeOK
    <3> HIDE DEF payload
    <3> QED BY <2>1, <2>3, <3>1, <3>2, <3>3, MoveKeeps
  <2> QED BY <1>2, <2>2, <2>3 DEF UpdateBranchReference
<1>3. ASSUME NEW c \in CommandIds, NEW source \in BranchNames, NEW b \in BranchNames,
             NEW objects \in SUBSET Objects, NEW e \in 0 .. MaxRevision,
             PromoteBranch(c, source, b, objects, e)
      PROVE  BranchInv'
  <2> DEFINE payload == [operation |-> "promoted", source |-> source, branch |-> b,
                         expected |-> e, objects |-> objects]
             after == Promoted(source, b, objects)
  <2>1. payload \in Payloads /\ payload.branch = b
    BY BranchAssumption DEF Payloads
  <2>2. Exists(source) /\ Exists(b)
    BY <1>3 DEF PromoteBranch
  <2>3. CASE AnswerOnly(c, payload, Revision(b))
    BY <2>1, <2>3, AnswerKeeps
  <2>4. CASE /\ Accepts(c, payload, Revision(b))
             /\ IF after = Current(b)
                THEN Record(c, payload, e, e) /\ UNCHANGED <<snapshots, impacts>>
                ELSE /\ Append1(b, after)
                     /\ impacts' = impacts \cup ImpactsOf(c, b, Current(b), after)
                     /\ Record(c, payload, e, e + 1)
    <3>1. e = Revision(b) /\ Revision(b) \in Nat
      BY <2>2, <2>4, CurrentType DEF Accepts, BranchInv
    <3>2. after \in References
      BY <2>2, PromotedType DEF BranchInv
    <3>3. impacts \subseteq impacts' /\ impacts' \subseteq Impacts
      BY <2>4, <3>2, ImpactsType DEF BranchInv, BranchTypeOK
    <3> HIDE DEF payload, after
    <3>4. CASE after = Current(b)
      BY <2>1, <2>2, <2>4, <3>1, <3>3, <3>4, StayKeeps
    <3>5. CASE after # Current(b)
      BY <2>1, <2>2, <2>4, <3>1, <3>2, <3>3, <3>5, MoveKeeps
    <3> QED BY <3>4, <3>5
  <2> QED BY <1>3, <2>3, <2>4 DEF PromoteBranch
<1>4. ASSUME NEW c \in CommandIds, NEW w \in Works, RecordSharedSourceCorrection(c, w) PROVE BranchInv'
  <2> DEFINE payload == [operation |-> "corrected", source |-> w]
             noted == UNION {{[branch |-> b, dependent |-> d, command |-> c] :
                                d \in Holds(Current(b)) \cap (Dependent(w) \cup {w})} :
                             b \in {x \in BranchNames : Exists(x)}}
  <2>1. payload \in Payloads /\ payload.operation \notin {"promoted", "adopted"}
    BY DEF Payloads
  <2>2. noted \subseteq Impacts
    <3> SUFFICES ASSUME NEW b \in BranchNames, Exists(b), NEW d \in Holds(Current(b))
                 PROVE  [branch |-> b, dependent |-> d, command |-> c] \in Impacts
      OBVIOUS
    <3>1. Current(b) \in References
      BY CurrentType DEF BranchInv
    <3> QED BY <3>1 DEF Holds, References, Impacts
  <2>3. CASE history[c] # Nothing
    BY <1>4, <2>1, <2>3, ReplyKeeps DEF RecordSharedSourceCorrection
  <2>4. CASE history[c] = Nothing
    <3>1. impacts' = impacts \cup noted /\ Record(c, payload, 0, 0) /\ UNCHANGED snapshots
      BY <1>4, <2>4 DEF RecordSharedSourceCorrection
    <3>2. impacts \subseteq impacts' /\ impacts' \subseteq Impacts
      BY <3>1, <2>2 DEF BranchInv, BranchTypeOK
    <3> HIDE DEF payload
    <3> QED BY <2>1, <3>1, <3>2, StayKeeps
  <2> QED BY <2>3, <2>4
<1> QED BY <1>1, <1>2, <1>3, <1>4 DEF BranchNext

-----------------------------------------------------------------------------
\* Decisions

\* A packet is of a branch that is there.
PacketsPlaced == \A p \in DOMAIN packets : Exists(packets[p].branch)

\* A decision is of a packet that is there, and on the packet's own branch of the
\* packet's own revision.
DecisionsPlaced ==
  \A i \in DOMAIN decisions :
    LET d == decisions[i]
    IN  /\ d.packet \in DOMAIN packets /\ Exists(d.branch)
        /\ d.branch = packets[d.packet].branch => packets[d.packet].revision = d.revision

DecisionInv == DecisionTypeOK /\ BranchInv /\ PacketsPlaced /\ DecisionsPlaced /\ OneRevision

\* No step takes a branch away.
LEMMA BranchesStay ==
  ASSUME BranchTypeOK, NEW b \in BranchNames, Exists(b),
         UNCHANGED snapshots \/ \E x \in BranchNames : \E r : Append1(x, r)
  PROVE  Exists(b)'
<1>1. CASE UNCHANGED snapshots
  BY <1>1 DEF Exists
<1>2. ASSUME NEW x \in BranchNames, NEW r, Append1(x, r) PROVE Exists(b)'
  <2>1. snapshots[x] \in Seq(References \cup {r})
    <3>1. snapshots[x] \in Seq(References)
      BY DEF BranchTypeOK
    <3> QED BY <3>1
  <2>2. Append(snapshots[x], r) # <<>>
    BY <2>1, AppendProperties
  <2> QED BY <1>2, <2>2 DEF BranchTypeOK, Append1, Exists
<1> QED BY <1>1, <1>2

LEMMA BranchNextStays ==
  ASSUME BranchTypeOK, BranchNext, NEW b \in BranchNames, Exists(b) PROVE Exists(b)'
<1>1. UNCHANGED snapshots \/ \E x \in BranchNames : \E r : Append1(x, r)
  <2>1. ASSUME NEW x \in BranchNames, NEW parent \in BranchNames, CreateBranch(x, parent)
        PROVE  \E y \in BranchNames : \E r : Append1(y, r)
    BY <2>1 DEF CreateBranch
  <2>2. ASSUME NEW c \in CommandIds, NEW x \in BranchNames, NEW w \in Works, NEW e \in 0 .. MaxRevision,
               UpdateBranchReference(c, x, w, e)
        PROVE  UNCHANGED snapshots \/ \E y \in BranchNames : \E r : Append1(y, r)
    BY <2>2, Zenon DEF UpdateBranchReference, AnswerOnly
  <2>3. ASSUME NEW c \in CommandIds, NEW source \in BranchNames, NEW x \in BranchNames,
               NEW objects \in SUBSET Objects, NEW e \in 0 .. MaxRevision, PromoteBranch(c, source, x, objects, e)
        PROVE  UNCHANGED snapshots \/ \E y \in BranchNames : \E r : Append1(y, r)
    BY <2>3, Zenon DEF PromoteBranch, AnswerOnly
  <2>4. ASSUME NEW c \in CommandIds, NEW w \in Works, RecordSharedSourceCorrection(c, w)
        PROVE  UNCHANGED snapshots
    BY <2>4, Zenon DEF RecordSharedSourceCorrection
  <2> QED BY <2>1, <2>2, <2>3, <2>4 DEF BranchNext
<1> QED BY <1>1, BranchesStay

\* What leaves the branches alone keeps what holds of them.
LEMMA BranchesAlone == ASSUME BranchInv, UNCHANGED branchVars PROVE BranchInv'
<1>1. UNCHANGED <<snapshots, history, impacts, lastAnswer>>
  BY DEF branchVars
<1>2. BranchTypeOK' /\ NamesUnused' /\ RowsPlaced'
  BY <1>1 DEF BranchInv, BranchTypeOK, NamesUnused, RowsPlaced, Exists
<1>3. ReplacedSourceIsNoted'
  BY <1>1, NotedStays DEF BranchInv
<1> QED BY <1>2, <1>3 DEF BranchInv

\* Packets and decisions stay placed when branches only come.
LEMMA PlacesStay ==
  ASSUME DecisionInv, \A b \in BranchNames : Exists(b) => Exists(b)', UNCHANGED <<packets, decisions>>
  PROVE  PacketsPlaced' /\ DecisionsPlaced' /\ OneRevision'
<1>1. packets \in Seq(PacketRows) /\ decisions \in Seq(DecisionRows)
  BY DEF DecisionInv, DecisionTypeOK
<1>2. \A p \in DOMAIN packets : packets[p].branch \in BranchNames
  <2> TAKE p \in DOMAIN packets
  <2>1. packets[p] \in PacketRows
    BY <1>1
  <2> QED BY <2>1 DEF PacketRows
<1>3. \A i \in DOMAIN decisions : decisions[i].branch \in BranchNames
  <2> TAKE i \in DOMAIN decisions
  <2>1. decisions[i] \in DecisionRows
    BY <1>1
  <2> QED BY <2>1 DEF DecisionRows
<1>4. PacketsPlaced'
  BY <1>2 DEF DecisionInv, PacketsPlaced
<1>5. DecisionsPlaced'
  BY <1>3 DEF DecisionInv, DecisionsPlaced
<1> QED BY <1>4, <1>5 DEF DecisionInv, OneRevision

\* A packet that is added is placed, and is the one revision of its parent.
LEMMA PacketKeeps ==
  ASSUME DecisionInv, NEW b \in BranchNames, Exists(b), NEW revision \in Nat,
         NEW candidates \in (SUBSET Works) \ {{}}, NEW parent \in Nat,
         parent # 0 => ~Revised(parent),
         packets' = Append(packets, Packet(b, revision, candidates, parent)),
         UNCHANGED <<branchVars, decisions>>
  PROVE  packets' \in Seq(PacketRows) /\ BranchInv' /\ PacketsPlaced' /\ DecisionsPlaced' /\ OneRevision'
<1> DEFINE new == Packet(b, revision, candidates, parent)
           n == Len(packets)
<1>1. new \in PacketRows /\ new.branch = b /\ new.parent = parent
  BY DEF Packet, PacketRows
<1>2. packets \in Seq(PacketRows) /\ n \in Nat /\ DOMAIN packets = 1 .. n
  BY DEF DecisionInv, DecisionTypeOK
<1>3. /\ packets' \in Seq(PacketRows) /\ DOMAIN packets' = 1 .. n + 1 /\ packets'[n + 1] = new
      /\ \A p \in DOMAIN packets : packets'[p] = packets[p]
  BY <1>1, <1>2, AppendProperties
<1> HIDE DEF new, n
<1>4. BranchInv'
  BY BranchesAlone DEF DecisionInv
<1>5. \A x : Exists(x)' <=> Exists(x)
  BY DEF Exists, branchVars
<1>6. PacketsPlaced'
  BY <1>1, <1>2, <1>3, <1>5 DEF DecisionInv, PacketsPlaced
<1>7. DecisionsPlaced'
  BY <1>2, <1>3, <1>5 DEF DecisionInv, DecisionsPlaced
<1>8. OneRevision'
  <2> SUFFICES ASSUME NEW p \in DOMAIN packets', NEW q \in DOMAIN packets',
                      packets'[p].parent # 0, packets'[p].parent = packets'[q].parent
               PROVE  p = q
    BY DEF OneRevision
  <2>1. \A x \in DOMAIN packets : packets[x].parent # parent \/ parent = 0
    BY DEF Revised
  <2>2. CASE p \in DOMAIN packets /\ q \in DOMAIN packets
    BY <1>3, <2>2 DEF DecisionInv, OneRevision
  <2>3. CASE p \in DOMAIN packets /\ q = n + 1
    BY <1>1, <1>3, <2>1, <2>3
  <2>4. CASE p = n + 1 /\ q \in DOMAIN packets
    BY <1>1, <1>3, <2>1, <2>4
  <2> QED BY <1>2, <1>3, <2>2, <2>3, <2>4
<1> QED BY <1>3, <1>4, <1>6, <1>7, <1>8

\* The status of a packet, and of the commitments, may be anything.
LEMMA StatusKeeps ==
  ASSUME DecisionInv, NEW p, NEW i, NEW s \in {"open"} \cup Closed, NEW t \in Closed,
         packets' = [packets EXCEPT ![p].status = s],
         decisions' = decisions \/ decisions' = [decisions EXCEPT ![i].commitment = t],
         UNCHANGED <<branchVars, findings, overrides>>
  PROVE  DecisionInv'
<1>1. packets \in Seq(PacketRows) /\ decisions \in Seq(DecisionRows)
  BY DEF DecisionInv, DecisionTypeOK
<1>2. /\ packets' \in Seq(PacketRows) /\ DOMAIN packets' = DOMAIN packets
      /\ \A x \in DOMAIN packets :
           /\ packets'[x].branch = packets[x].branch /\ packets'[x].revision = packets[x].revision
           /\ packets'[x].parent = packets[x].parent
  <2>1. CASE p \in DOMAIN packets
    <3>1. packets[p] \in PacketRows
      BY <1>1, <2>1
    <3>2. [packets[p] EXCEPT !.status = s] \in PacketRows
      BY <3>1 DEF PacketRows
    <3>3. packets' = [packets EXCEPT ![p] = [packets[p] EXCEPT !.status = s]]
      OBVIOUS
    <3>4. packets' \in Seq(PacketRows) /\ Len(packets') = Len(packets)
      BY <1>1, <2>1, <3>2, <3>3, ExceptSeq
    <3>5. \A x \in DOMAIN packets : packets[x] \in PacketRows
      BY <1>1
    <3>6. DOMAIN packets' = DOMAIN packets
      OBVIOUS
    <3>7. \A x \in DOMAIN packets :
            packets'[x] = packets[x] \/ (packets'[x] = [packets[p] EXCEPT !.status = s] /\ x = p)
      <4> TAKE x \in DOMAIN packets
      <4> DEFINE new == [packets[p] EXCEPT !.status = s]
      <4>1. x = p \/ packets'[x] = packets[x]
        <5> HIDE DEF new
        <5>1. packets' = [packets EXCEPT ![p] = new]
          BY <3>3 DEF new
        <5> QED BY <5>1
      <4>2. x = p => packets'[x] = new
        BY <2>1, <3>3, Zenon
      <4> QED BY <4>1, <4>2, Zenon
    <3> QED BY <3>1, <3>4, <3>5, <3>6, <3>7 DEF PacketRows
  <2>2. CASE p \notin DOMAIN packets
    <3>1. packets' = packets
      BY <1>1, <2>2
    <3> QED BY <1>1, <3>1
  <2> QED BY <2>1, <2>2
<1>3. /\ decisions' \in Seq(DecisionRows) /\ DOMAIN decisions' = DOMAIN decisions
      /\ \A x \in DOMAIN decisions :
           /\ decisions'[x].branch = decisions[x].branch /\ decisions'[x].revision = decisions[x].revision
           /\ decisions'[x].packet = decisions[x].packet
  <2>1. CASE i \in DOMAIN decisions /\ decisions' # decisions
    <3>1. decisions[i] \in DecisionRows
      BY <1>1, <2>1
    <3>2. [decisions[i] EXCEPT !.commitment = t] \in DecisionRows
      BY <3>1 DEF DecisionRows
    <3>3. decisions' = [decisions EXCEPT ![i] = [decisions[i] EXCEPT !.commitment = t]]
      BY <2>1
    <3>4. decisions' \in Seq(DecisionRows) /\ Len(decisions') = Len(decisions)
      BY <1>1, <2>1, <3>2, <3>3, ExceptSeq
    <3>5. \A x \in DOMAIN decisions : decisions[x] \in DecisionRows
      BY <1>1
    <3>6. DOMAIN decisions' = DOMAIN decisions
      BY <3>3
    <3>7. \A x \in DOMAIN decisions :
            decisions'[x] = decisions[x] \/ (decisions'[x] = [decisions[i] EXCEPT !.commitment = t] /\ x = i)
      <4> TAKE x \in DOMAIN decisions
      <4> DEFINE new == [decisions[i] EXCEPT !.commitment = t]
      <4>1. x = i \/ decisions'[x] = decisions[x]
        <5> HIDE DEF new
        <5>1. decisions' = [decisions EXCEPT ![i] = new]
          BY <3>3 DEF new
        <5> QED BY <5>1
      <4>2. x = i => decisions'[x] = new
        BY <2>1, <3>3, Zenon
      <4> QED BY <4>1, <4>2, Zenon
    <3>8. /\ [decisions[i] EXCEPT !.commitment = t].branch = decisions[i].branch
          /\ [decisions[i] EXCEPT !.commitment = t].revision = decisions[i].revision
          /\ [decisions[i] EXCEPT !.commitment = t].packet = decisions[i].packet
      BY <3>1 DEF DecisionRows
    <3> QED BY <3>4, <3>6, <3>7, <3>8
  <2>2. CASE i \notin DOMAIN decisions \/ decisions' = decisions
    <3>1. decisions' = decisions
      BY <1>1, <2>2
    <3> QED BY <1>1, <3>1
  <2> QED BY <2>1, <2>2
<1>4. BranchInv' /\ \A x : Exists(x)' <=> Exists(x)
  BY BranchesAlone DEF DecisionInv, Exists, branchVars
<1>5. DecisionTypeOK'
  BY <1>2, <1>3, <1>4 DEF DecisionInv, DecisionTypeOK, BranchInv
<1>6. PacketsPlaced' /\ OneRevision'
  BY <1>2, <1>4 DEF DecisionInv, PacketsPlaced, OneRevision
<1>7. DecisionsPlaced'
  <2> SUFFICES ASSUME NEW x \in DOMAIN decisions
               PROVE  /\ decisions'[x].packet \in DOMAIN packets' /\ Exists(decisions[x].branch)'
                      /\ decisions'[x].branch = packets'[decisions'[x].packet].branch
                           => packets'[decisions'[x].packet].revision = decisions'[x].revision
    BY <1>3 DEF DecisionsPlaced
  <2> DEFINE q == decisions[x].packet
  <2>1. /\ q \in DOMAIN packets /\ Exists(decisions[x].branch)
        /\ decisions[x].branch = packets[q].branch => packets[q].revision = decisions[x].revision
    BY DEF DecisionInv, DecisionsPlaced
  <2>2. decisions'[x].packet = q /\ packets'[q].branch = packets[q].branch
        /\ packets'[q].revision = packets[q].revision
    BY <1>2, <1>3, <2>1
  <2> QED BY <1>2, <1>3, <1>4, <2>1, <2>2
<1> QED BY <1>4, <1>5, <1>6, <1>7 DEF DecisionInv

\* A decision that is added is placed.
LEMMA DecisionKeeps ==
  ASSUME DecisionInv, NEW p \in DOMAIN packets, NEW selected \in SUBSET Works, NEW b \in BranchNames,
         NEW revision \in Nat, NEW disposition \in {"approved", "rejected", "deferred"},
         b = packets[p].branch => packets[p].revision = revision,
         decisions' = Append(decisions, Decision(p, disposition, selected, b, revision)), UNCHANGED packets,
         Exists(b)', \A x \in BranchNames : Exists(x) => Exists(x)'
  PROVE  decisions' \in Seq(DecisionRows) /\ PacketsPlaced' /\ DecisionsPlaced' /\ OneRevision'
<1> DEFINE new == Decision(p, disposition, selected, b, revision)
           n == Len(decisions)
<1>1. new \in DecisionRows /\ new.packet = p /\ new.branch = b /\ new.revision = revision
  BY DEF Decision, DecisionRows, DecisionInv, DecisionTypeOK
<1>2. decisions \in Seq(DecisionRows) /\ n \in Nat /\ DOMAIN decisions = 1 .. n
  BY DEF DecisionInv, DecisionTypeOK
<1>3. /\ decisions' \in Seq(DecisionRows) /\ DOMAIN decisions' = 1 .. n + 1 /\ decisions'[n + 1] = new
      /\ \A i \in DOMAIN decisions : decisions'[i] = decisions[i]
  BY <1>1, <1>2, AppendProperties
<1> HIDE DEF new, n
<1>4. \A i \in DOMAIN decisions : decisions[i].branch \in BranchNames
  <2> TAKE i \in DOMAIN decisions
  <2>1. decisions[i] \in DecisionRows
    BY <1>2
  <2> QED BY <2>1 DEF DecisionRows
<1>5. DecisionsPlaced'
  BY <1>1, <1>2, <1>3, <1>4 DEF DecisionInv, DecisionsPlaced
<1>6. \A q \in DOMAIN packets : packets[q].branch \in BranchNames
  <2> TAKE q \in DOMAIN packets
  <2>1. packets[q] \in PacketRows
    BY DEF DecisionInv, DecisionTypeOK
  <2> QED BY <2>1 DEF PacketRows
<1>7. PacketsPlaced' /\ OneRevision'
  BY <1>6 DEF DecisionInv, PacketsPlaced, OneRevision
<1> QED BY <1>3, <1>5, <1>7

\* Adopting an alternative keeps them: it moves another branch than the packet's.
LEMMA AdoptKeeps ==
  ASSUME DecisionInv, NEW c \in CommandIds, NEW p \in DOMAIN packets, NEW b \in BranchNames,
         NEW selected \in SUBSET Works, AdoptBranchAlternative(c, p, b, selected)
  PROVE  DecisionInv'
<1> DEFINE packet == packets[p]
           payload == [operation |-> "adopted", packet |-> p, branch |-> b, selected |-> selected]
           objects == {ObjectOf(w) : w \in selected}
           after == Promoted(packet.branch, b, objects)
           to == Revision(b) + (IF after = Current(b) THEN 0 ELSE 1)
<1>1. packet \in PacketRows /\ p \in Nat /\ packet.branch \in BranchNames
  <2>1. packets \in Seq(PacketRows)
    BY DEF DecisionInv, DecisionTypeOK
  <2>2. packet \in PacketRows /\ p \in Nat
    BY <2>1
  <2> QED BY <2>2 DEF PacketRows
<1>2. payload \in Payloads /\ payload.operation = "adopted" /\ payload.branch = b
  BY <1>1 DEF Payloads
<1>3. Exists(b) /\ Exists(packet.branch) /\ b # packet.branch
  BY DEF AdoptBranchAlternative, DecisionInv, PacketsPlaced
<1>4. Revision(b) \in Nat /\ after \in References
  BY <1>1, <1>3, CurrentType, PromotedType DEF DecisionInv, BranchInv
<1>5. BranchInv
  BY DEF DecisionInv
<1>6. UNCHANGED <<packets, findings, overrides>>
  BY DEF AdoptBranchAlternative
<1>7. CASE /\ history[c] # Nothing
           /\ Reply(c, payload, IF history[c].payload = payload THEN "duplicate" ELSE "rejected")
           /\ UNCHANGED <<snapshots, history, impacts, decisions>>
  <2>1. BranchInv'
    BY <1>2, <1>5, <1>7, ReplyKeeps
  <2>2. \A x : Exists(x) => Exists(x)'
    BY <1>7 DEF Exists
  <2>3. DecisionTypeOK'
    BY <1>6, <1>7, <2>1 DEF DecisionInv, DecisionTypeOK, BranchInv
  <2> QED BY <1>6, <1>7, <2>1, <2>2, <2>3, PlacesStay DEF DecisionInv
<1>8. CASE /\ IF after = Current(b) THEN UNCHANGED snapshots ELSE Append1(b, after)
           /\ impacts' = impacts \cup ImpactsOf(c, b, Current(b), after)
           /\ Record(c, payload, Revision(b), to)
           /\ \/ UNCHANGED decisions
              \/ AddDecision(Decision(p, "approved", selected, b, to))
  <2>1. impacts \subseteq impacts' /\ impacts' \subseteq Impacts
    BY <1>4, <1>5, <1>8, ImpactsType DEF BranchInv, BranchTypeOK
  <2>2. to = IF after = Current(b) THEN Revision(b) ELSE Revision(b) + 1
    BY <1>4
  <2>3. to \in Nat
    BY <1>4, <2>2
  <2> HIDE DEF payload, after, to
  <2>4. BranchInv'
    <3>1. CASE after = Current(b)
      <4>1. Record(c, payload, Revision(b), Revision(b)) /\ UNCHANGED snapshots
        BY <1>8, <2>2, <3>1
      <4> QED BY <1>2, <1>3, <1>4, <1>5, <2>1, <4>1, StayKeeps
    <3>2. CASE after # Current(b)
      <4>1. Record(c, payload, Revision(b), Revision(b) + 1) /\ Append1(b, after)
        BY <1>8, <2>2, <3>2
      <4>2. ImpactsOf(c, b, Current(b), after) \subseteq impacts'
        BY <1>8
      <4> QED BY <1>2, <1>3, <1>4, <1>5, <2>1, <4>1, <4>2, MoveKeeps
    <3> QED BY <3>1, <3>2
  <2>5. UNCHANGED snapshots \/ \E x \in BranchNames : \E r : Append1(x, r)
    BY <1>8
  <2>6. \A x \in BranchNames : Exists(x) => Exists(x)'
    BY <1>5, <2>5, BranchesStay DEF BranchInv
  <2>7. /\ decisions' \in Seq(DecisionRows)
        /\ PacketsPlaced' /\ DecisionsPlaced' /\ OneRevision'
    <3>1. CASE UNCHANGED decisions
      BY <1>6, <2>6, <3>1, PlacesStay DEF DecisionInv, DecisionTypeOK
    <3>2. CASE AddDecision(Decision(p, "approved", selected, b, to))
      <4>1. b = packets[p].branch => packets[p].revision = to
        BY <1>3
      <4>2. decisions' = Append(decisions, Decision(p, "approved", selected, b, to)) /\ Exists(b)'
        BY <1>3, <2>6, <3>2 DEF AddDecision
      <4> QED BY <1>6, <2>3, <2>6, <4>1, <4>2, DecisionKeeps
    <3> QED BY <1>8, <3>1, <3>2
  <2>8. DecisionTypeOK'
    BY <1>6, <2>4, <2>7 DEF DecisionInv, DecisionTypeOK, BranchInv
  <2> QED BY <2>4, <2>7, <2>8 DEF DecisionInv
<1> QED BY <1>7, <1>8 DEF AdoptBranchAlternative

\* A revision of a packet, or the one there is, keeps them.
LEMMA RevisionKeeps ==
  ASSUME DecisionInv, NEW p \in DOMAIN packets, NEW revision \in Nat, NEW candidates \in (SUBSET Works) \ {{}},
         InsertRevision(p, revision, candidates), UNCHANGED <<branchVars, decisions>>
  PROVE  packets' \in Seq(PacketRows) /\ BranchInv' /\ PacketsPlaced' /\ DecisionsPlaced' /\ OneRevision'
<1>1. CASE Revised(p)
  <2>1. UNCHANGED packets
    BY <1>1 DEF InsertRevision
  <2>2. BranchInv' /\ \A x : Exists(x) => Exists(x)'
    BY BranchesAlone DEF DecisionInv, Exists, branchVars
  <2> QED BY <2>1, <2>2, PlacesStay DEF DecisionInv, DecisionTypeOK
<1>2. CASE ~Revised(p)
  <2>1. packets[p] \in PacketRows /\ p \in Nat
    BY DEF DecisionInv, DecisionTypeOK
  <2>2. packets[p].branch \in BranchNames /\ Exists(packets[p].branch)
    BY <2>1 DEF PacketRows, DecisionInv, PacketsPlaced
  <2>3. packets' = Append(packets, Packet(packets[p].branch, revision, candidates, p))
    BY <1>2 DEF InsertRevision, Publish1
  <2> QED BY <1>2, <2>1, <2>2, <2>3, PacketKeeps
<1> QED BY <1>1, <1>2

\* Every step of packets, decisions, findings and branches keeps them.
LEMMA DecisionStepKeeps == ASSUME DecisionInv, DecisionNext PROVE DecisionInv'
<1> USE DecisionAssumption
<1>1. /\ BranchTypeOK /\ packets \in Seq(PacketRows) /\ decisions \in Seq(DecisionRows)
      /\ findings \in [Findings -> FindingRows \cup {Nothing}]
      /\ overrides \subseteq Findings \X (1 .. MaxPackets)
  BY DEF DecisionInv, DecisionTypeOK
<1>2. \A p \in DOMAIN packets : packets[p] \in PacketRows /\ p \in Nat \ {0}
  BY <1>1
<1>3. \A C \in Offers : C \in (SUBSET Works) \ {{}}
  OBVIOUS
<1>4. ASSUME NEW b \in BranchNames, NEW r \in 0 .. MaxRevision, NEW C \in Offers, CreateDecisionPacket(b, r, C)
      PROVE  DecisionInv'
  <2>1. /\ packets' = Append(packets, Packet(b, r, C, 0)) /\ Exists(b)
        /\ UNCHANGED <<branchVars, decisions, findings, overrides>>
    BY <1>4 DEF CreateDecisionPacket, Publish1
  <2>2. packets' \in Seq(PacketRows) /\ BranchInv' /\ PacketsPlaced' /\ DecisionsPlaced' /\ OneRevision'
    BY <1>3, <2>1, PacketKeeps
  <2> QED BY <1>1, <2>1, <2>2 DEF DecisionInv, DecisionTypeOK, BranchInv
<1>5. ASSUME NEW p \in 1 .. MaxPackets, NEW r \in 0 .. MaxRevision, NEW C \in Offers, ReviseDecisionPacket(p, r, C)
      PROVE  DecisionInv'
  <2>1. /\ InsertRevision(p, r, C) /\ p \in DOMAIN packets
        /\ UNCHANGED <<branchVars, decisions, findings, overrides>>
    BY <1>5 DEF ReviseDecisionPacket
  <2>2. packets' \in Seq(PacketRows) /\ BranchInv' /\ PacketsPlaced' /\ DecisionsPlaced' /\ OneRevision'
    BY <1>3, <2>1, RevisionKeeps
  <2> QED BY <1>1, <2>1, <2>2 DEF DecisionInv, DecisionTypeOK, BranchInv
<1>6. ASSUME NEW p \in 1 .. MaxPackets, NEW d \in {"approved", "rejected", "deferred"}, NEW S \in Offers,
             RecordOwnerDecision(p, d, S)
      PROVE  DecisionInv'
  <2> DEFINE b == packets[p].branch
  <2>1. /\ p \in DOMAIN packets /\ packets[p].revision = Revision(b)
        /\ decisions' = Append(decisions, Decision(p, d, S, b, Revision(b)))
        /\ UNCHANGED <<branchVars, packets, findings, overrides>>
    BY <1>6 DEF RecordOwnerDecision, Decidable, AddDecision
  <2>2. b \in BranchNames /\ Exists(b)
    <3>1. packets[p] \in PacketRows
      BY <1>2, <2>1
    <3> QED BY <2>1, <3>1 DEF PacketRows, DecisionInv, PacketsPlaced
  <2>3. Revision(b) \in Nat
    BY <1>1, <2>2, CurrentType
  <2>4. BranchInv' /\ \A x : Exists(x) => Exists(x)'
    BY <2>1, BranchesAlone DEF DecisionInv, Exists, branchVars
  <2> HIDE DEF b
  <2>5. decisions' \in Seq(DecisionRows) /\ PacketsPlaced' /\ DecisionsPlaced' /\ OneRevision'
    BY <1>3, <2>1, <2>2, <2>3, <2>4, DecisionKeeps
  <2> QED BY <1>1, <2>1, <2>4, <2>5 DEF DecisionInv, DecisionTypeOK, BranchInv
<1>7. ASSUME NEW p \in 1 .. MaxPackets, NEW s \in Closed, ClosePacket(p, s), UNCHANGED <<branchVars, findings, overrides>>
      PROVE  DecisionInv'
  <2>1. PICK i : decisions' = decisions \/ decisions' = [decisions EXCEPT ![i].commitment = s]
    BY <1>7, Zenon DEF ClosePacket
  <2>2. packets' = [packets EXCEPT ![p].status = s]
    BY <1>7 DEF ClosePacket
  <2> QED BY <1>7, <2>1, <2>2, StatusKeeps
<1>8. ASSUME NEW p \in 1 .. MaxPackets, ReopenDecision(p) PROVE DecisionInv'
  <2>1. packets' = [packets EXCEPT ![p].status = "open"] /\ UNCHANGED <<branchVars, decisions, findings, overrides>>
    BY <1>8, Zenon DEF ReopenDecision
  <2>2. "archived" \in Closed
    BY DEF Closed
  <2> QED BY <2>1, <2>2, StatusKeeps
<1>9. ASSUME NEW p \in 1 .. MaxPackets, NEW c \in CommandIds, NEW b \in BranchNames, NEW S \in Offers,
             AdoptBranchAlternative(c, p, b, S)
      PROVE  DecisionInv'
  <2>1. p \in DOMAIN packets /\ S \in SUBSET Works
    BY <1>9, <1>3 DEF AdoptBranchAlternative
  <2> QED BY <1>9, <2>1, AdoptKeeps
<1>10. ASSUME UNCHANGED <<branchVars, packets, decisions>>,
              findings' \in [Findings -> FindingRows \cup {Nothing}],
              overrides' \subseteq Findings \X (1 .. MaxPackets)
       PROVE  DecisionInv'
  <2>1. BranchInv' /\ \A x : Exists(x) => Exists(x)'
    BY <1>10, BranchesAlone DEF DecisionInv, Exists, branchVars
  <2>2. PacketsPlaced' /\ DecisionsPlaced' /\ OneRevision'
    BY <1>10, <2>1, PlacesStay
  <2> QED BY <1>1, <1>10, <2>1, <2>2 DEF DecisionInv, DecisionTypeOK, BranchInv
<1>11. ASSUME NEW p \in 1 .. MaxPackets, NEW f \in Findings, NEW S \in Offers, RecordReasonedOverride(f, p, S)
       PROVE  DecisionInv'
  <2>1. findings[f] \in FindingRows
    BY <1>1, <1>11 DEF RecordReasonedOverride
  <2>2. [findings[f] EXCEPT !.status = "retained"] \in FindingRows
    BY <2>1 DEF FindingRows
  <2>3. findings' \in [Findings -> FindingRows \cup {Nothing}]
    BY <1>1, <1>11, <2>2 DEF RecordReasonedOverride
  <2>4. overrides' \subseteq Findings \X (1 .. MaxPackets) /\ UNCHANGED <<branchVars, packets, decisions>>
    BY <1>1, <1>11 DEF RecordReasonedOverride
  <2> QED BY <1>10, <2>3, <2>4
<1>12. ASSUME NEW p \in 1 .. MaxPackets, NEW f \in Findings, ResolveReviewDisagreement(f, p)
       PROVE  DecisionInv'
  <2>1. /\ p \in DOMAIN packets /\ InsertRevision(p, Revision(packets[p].branch), packets[p].candidates)
        /\ findings[f] # Nothing /\ findings' = [findings EXCEPT ![f].revised = TRUE]
        /\ UNCHANGED <<branchVars, decisions, overrides>>
    BY <1>12 DEF ResolveReviewDisagreement
  <2>2. packets[p] \in PacketRows
    BY <1>2, <2>1
  <2>3. packets[p].candidates \in (SUBSET Works) \ {{}} /\ packets[p].branch \in BranchNames
    BY <2>2 DEF PacketRows
  <2>4. Revision(packets[p].branch) \in Nat
    BY <1>1, <2>1, <2>3, CurrentType DEF DecisionInv, PacketsPlaced
  <2>5. packets' \in Seq(PacketRows) /\ BranchInv' /\ PacketsPlaced' /\ DecisionsPlaced' /\ OneRevision'
    BY <2>1, <2>3, <2>4, RevisionKeeps
  <2>6. findings[f] \in FindingRows
    BY <1>1, <2>1
  <2>7. [findings[f] EXCEPT !.revised = TRUE] \in FindingRows
    BY <2>6 DEF FindingRows
  <2>8. findings' \in [Findings -> FindingRows \cup {Nothing}]
    BY <1>1, <2>1, <2>7
  <2> QED BY <1>1, <2>1, <2>5, <2>8 DEF DecisionInv, DecisionTypeOK, BranchInv
<1>13. ASSUME NEW f \in Findings, NEW A \in Offers, RecordScholarlyFinding(f, A) PROVE DecisionInv'
  <2>1. [affected |-> A, status |-> "open", revised |-> FALSE] \in FindingRows
    BY <1>3 DEF FindingRows
  <2>2. /\ findings' = [findings EXCEPT ![f] = [affected |-> A, status |-> "open", revised |-> FALSE]]
        /\ UNCHANGED <<branchVars, packets, decisions, overrides>>
    BY <1>13 DEF RecordScholarlyFinding
  <2>3. findings' \in [Findings -> FindingRows \cup {Nothing}]
    BY <1>1, <2>1, <2>2
  <2> QED BY <1>1, <1>10, <2>2, <2>3
<1>14. ASSUME BranchNext, UNCHANGED decisionVars PROVE DecisionInv'
  <2>1. BranchInv' /\ \A b \in BranchNames : Exists(b) => Exists(b)'
    BY <1>1, <1>14, BranchStepKeeps, BranchNextStays DEF DecisionInv
  <2>2. PacketsPlaced' /\ DecisionsPlaced' /\ OneRevision'
    BY <1>14, <2>1, PlacesStay DEF decisionVars
  <2> QED BY <1>1, <1>14, <2>1, <2>2 DEF DecisionInv, DecisionTypeOK, BranchInv, decisionVars
<1>15. ASSUME NEW p \in 1 .. MaxPackets, ArchiveDecision(p) \/ SupersedeDecision(p) PROVE DecisionInv'
  BY <1>7, <1>15 DEF ArchiveDecision, SupersedeDecision, Closed
<1> QED BY <1>4, <1>5, <1>6, <1>8, <1>9, <1>11, <1>12, <1>13, <1>14, <1>15 DEF DecisionNext, DecisionSteps

LEMMA DecisionInitially == DecisionInit => DecisionInv
<1> SUFFICES ASSUME DecisionInit PROVE DecisionInv
  OBVIOUS
<1>1. <<>> \in Seq(PacketRows) /\ <<>> \in Seq(DecisionRows)
  OBVIOUS
<1>2. [o \in Objects |-> Nothing] \in References
  BY DEF References
<1>3. <<[o \in Objects |-> Nothing]>> \in Seq(References) /\ <<>> \in Seq(References)
      /\ <<[o \in Objects |-> Nothing]>> # <<>>
  BY <1>2
<1>4. snapshots \in [BranchNames -> Seq(References)] /\ Exists(Main)
  BY <1>3, BranchAssumption DEF DecisionInit, BranchInit, Exists
<1>5. BranchInv
  BY <1>4, BranchAssumption
  DEF DecisionInit, BranchInit, BranchInv, BranchTypeOK, NamesUnused, RowsPlaced, ReplacedSourceIsNoted
<1>6. DecisionTypeOK
  BY <1>1, <1>5 DEF DecisionInit, DecisionTypeOK, BranchInv
<1>7. PacketsPlaced /\ DecisionsPlaced /\ OneRevision
  BY DEF DecisionInit, PacketsPlaced, DecisionsPlaced, OneRevision
<1> QED BY <1>5, <1>6, <1>7 DEF DecisionInv

LEMMA DecisionStutters == ASSUME DecisionInv, UNCHANGED allDecisionVars PROVE DecisionInv'
<1>1. UNCHANGED <<branchVars, packets, decisions, findings, overrides>>
  BY DEF allDecisionVars, decisionVars
<1>2. BranchInv' /\ \A x : Exists(x) => Exists(x)'
  BY <1>1, BranchesAlone DEF DecisionInv, Exists, branchVars
<1> QED BY <1>1, <1>2, PlacesStay DEF DecisionInv, DecisionTypeOK, BranchInv

\* What the invariant says of approvals: a commitment is ready on the snapshot that
\* the owner saw, or that the adoption made, and the gates ask what the decision asks.
LEMMA ReviewedFollows == ASSUME DecisionInv PROVE ApprovedIsReviewed
<1>1. ReadyIsWhatWasReviewed
  <2> SUFFICES ASSUME NEW i \in DOMAIN decisions, Readiness(i) = "ready"
               PROVE  LET d == decisions[i]
                      IN  /\ Current(d.branch) = snapshots[d.branch][d.revision + 1]
                          /\ d.selected \subseteq Holds(Current(d.branch))
                          /\ d.branch = packets[d.packet].branch => packets[d.packet].revision = d.revision
    BY DEF ReadyIsWhatWasReviewed
  <2> DEFINE d == decisions[i]
  <2>1. Revision(d.branch) = d.revision /\ \A w \in d.selected : Current(d.branch)[ObjectOf(w)] = w
    BY Zenon DEF Readiness
  <2>2. d \in DecisionRows
    BY DEF DecisionInv, DecisionTypeOK
  <2>3. d.branch \in BranchNames /\ d.selected \subseteq Works
    BY <2>2 DEF DecisionRows
  <2>4. Exists(d.branch) /\ (d.branch = packets[d.packet].branch => packets[d.packet].revision = d.revision)
    BY DEF DecisionInv, DecisionsPlaced
  <2> HIDE DEF d
  <2>5. Len(snapshots[d.branch]) = d.revision + 1
    BY <2>1, <2>3, <2>4, CurrentType DEF DecisionInv, BranchInv
  <2>6. d.selected \subseteq Holds(Current(d.branch))
    BY <2>1, <2>3, BranchAssumption DEF Holds
  <2> QED BY <2>4, <2>5, <2>6 DEF Current, d
<1>2. GatedIsDecidable
  BY DEF GatedIsDecidable, GatesPass, Decidable
<1> QED BY <1>1, <1>2 DEF ApprovedIsReviewed, DecisionInv

\* The invariant holds throughout.
LEMMA DecisionInvariant == DecisionSpec => []DecisionInv
<1>1. DecisionInv /\ [DecisionNext]_allDecisionVars => DecisionInv'
  BY DecisionStepKeeps, DecisionStutters
<1> QED BY <1>1, DecisionInitially, PTL DEF DecisionSpec

\* Branches, packets, decisions, findings and overrides keep their types.
THEOREM DecisionTypes == DecisionSpec => []DecisionTypeOK
<1>1. DecisionInv => DecisionTypeOK
  BY DEF DecisionInv
<1> QED BY <1>1, DecisionInvariant, PTL

\* What a branch holds on to although a promotion or an adoption replaced
\* something it rests on is noted for review (impactRecords of
\* src/branches/promotion-store.ts), whatever happens to the branch later.
THEOREM ReplacedSourcesAreNoted == DecisionSpec => []ReplacedSourceIsNoted
<1>1. DecisionInv => ReplacedSourceIsNoted
  BY DEF DecisionInv, BranchInv
<1> QED BY <1>1, DecisionInvariant, PTL

\* A commitment is ready, and a selection passes the gates, only for the snapshot
\* that was reviewed (assessReadiness, evaluateCommitmentGates).
THEOREM ApprovalsAreReviewed == DecisionSpec => []ApprovedIsReviewed
<1> QED BY ReviewedFollows, DecisionInvariant, PTL

-----------------------------------------------------------------------------
\* Commands take effect once

LedgerVars ==
  <<[c \in DOMAIN history |-> IF history[c] = Nothing THEN Nothing ELSE history[c].payload],
    <<snapshots, {i \in impacts : history[i.command] # Nothing}>>, lastAnswer>>

\* A command that is recorded for the first time is taken.
LEMMA RecordTakes ==
  ASSUME BranchTypeOK, NEW c \in CommandIds \cup BranchNames, history[c] = Nothing,
         NEW payload \in Payloads, NEW from \in Nat, NEW to \in Nat, Record(c, payload, from, to)
  PROVE  Ledger!LedgerNext
<1> DEFINE row == [payload |-> payload, expected |-> from, resulting |-> to]
           taken == [d \in DOMAIN history |-> IF history[d] = Nothing THEN Nothing ELSE history[d].payload]
<1>1. row \in Rows /\ row.payload = payload /\ row # Nothing /\ payload # Nothing
  BY NullAssumption DEF Rows
<1>2. DOMAIN history = CommandIds \cup BranchNames /\ history' = [history EXCEPT ![c] = row]
  BY DEF BranchTypeOK, Record
<1> HIDE DEF row
<1>3. history'[c] = row /\ DOMAIN history' = DOMAIN history /\ \A d \in DOMAIN history : d # c => history'[d] = history[d]
  BY <1>2
<1>4. taken' = [taken EXCEPT ![c] = payload] /\ taken'[c] = payload /\ taken[c] = Nothing
  BY <1>1, <1>2, <1>3
<1>5. lastAnswer' = [command |-> c, payload |-> payload, status |-> "accepted"]
  BY DEF Record, Reply
<1>6. Ledger!Take(c)
  BY <1>1, <1>4, <1>5 DEF Ledger!Take, Ledger!Say
<1> QED BY <1>2, <1>6 DEF Ledger!LedgerNext

\* An answer tells its caller what the ledger says of the command.
LEMMA ReplyAnswers ==
  ASSUME BranchTypeOK, NEW c \in CommandIds \cup BranchNames, NEW payload \in Payloads,
         Reply(c, payload, IF history[c] = Nothing THEN "stale"
                           ELSE IF history[c].payload = payload THEN "duplicate" ELSE "rejected"),
         UNCHANGED <<snapshots, history, impacts>>
  PROVE  [Ledger!LedgerNext]_LedgerVars
<1> DEFINE taken == [d \in DOMAIN history |-> IF history[d] = Nothing THEN Nothing ELSE history[d].payload]
<1>1. c \in DOMAIN history /\ (history[c] # Nothing => history[c].payload \in Payloads)
  BY DEF BranchTypeOK, Rows
<1>2. payload # Nothing /\ \A d \in Payloads : d # Nothing
  BY NullAssumption
<1>3. taken[c] = IF history[c] = Nothing THEN Nothing ELSE history[c].payload
  BY <1>1
<1>4. /\ lastAnswer'.command = c /\ lastAnswer'.payload = payload
      /\ lastAnswer'.status = IF history[c] = Nothing THEN "stale"
                              ELSE IF history[c].payload = payload THEN "duplicate" ELSE "rejected"
  BY DEF Reply
<1> HIDE DEF taken
<1>5. lastAnswer'.status = IF taken[lastAnswer'.command] = lastAnswer'.payload THEN "duplicate"
                           ELSE IF taken[lastAnswer'.command] = Nothing THEN "stale" ELSE "rejected"
  BY <1>1, <1>2, <1>3, <1>4
<1>6. CASE lastAnswer' = lastAnswer
  BY <1>6 DEF LedgerVars
<1>7. CASE lastAnswer' # lastAnswer
  BY <1>5, <1>7 DEF Ledger!LedgerNext, Ledger!Answer, taken
<1> QED BY <1>6, <1>7

LEMMA AnswerOnlyAnswers ==
  ASSUME BranchTypeOK, NEW c \in CommandIds, NEW payload \in Payloads, NEW n, AnswerOnly(c, payload, n)
  PROVE  [Ledger!LedgerNext]_LedgerVars
<1>1. Reply(c, payload, IF history[c] = Nothing THEN "stale"
                        ELSE IF history[c].payload = payload THEN "duplicate" ELSE "rejected")
  BY DEF AnswerOnly
<1> QED BY <1>1, ReplyAnswers DEF AnswerOnly

\* Every step takes a command, answers one, or says nothing of commands.
LEMMA DecisionStepLedger == ASSUME DecisionInv, DecisionNext PROVE [Ledger!LedgerNext]_LedgerVars
<1> USE DEF DecisionInv, BranchInv
<1>1. ASSUME UNCHANGED branchVars PROVE UNCHANGED LedgerVars
  BY <1>1 DEF branchVars, LedgerVars
<1>2. ASSUME NEW b \in BranchNames, NEW parent \in BranchNames, CreateBranch(b, parent)
      PROVE  Ledger!LedgerNext
  <2>1. [operation |-> "created", parent |-> parent] \in Payloads /\ history[b] = Nothing
    BY <1>2 DEF Payloads, CreateBranch, NamesUnused
  <2> QED BY <1>2, <2>1, RecordTakes DEF CreateBranch
<1>3. ASSUME NEW c \in CommandIds, NEW b \in BranchNames, NEW w \in Works, NEW e \in 0 .. MaxRevision,
             UpdateBranchReference(c, b, w, e)
      PROVE  [Ledger!LedgerNext]_LedgerVars
  <2> DEFINE payload == [operation |-> "updated", branch |-> b, version |-> w, expected |-> e]
  <2>1. payload \in Payloads
    BY BranchAssumption DEF Payloads
  <2>2. \/ AnswerOnly(c, payload, Revision(b))
        \/ history[c] = Nothing /\ Record(c, payload, e, e + 1)
    BY <1>3, Zenon DEF UpdateBranchReference, Accepts
  <2> HIDE DEF payload
  <2> QED BY <2>1, <2>2, AnswerOnlyAnswers, RecordTakes, BranchAssumption
<1>4. ASSUME NEW c \in CommandIds, NEW source \in BranchNames, NEW b \in BranchNames,
             NEW objects \in SUBSET Objects, NEW e \in 0 .. MaxRevision, PromoteBranch(c, source, b, objects, e)
      PROVE  [Ledger!LedgerNext]_LedgerVars
  <2> DEFINE payload == [operation |-> "promoted", source |-> source, branch |-> b,
                         expected |-> e, objects |-> objects]
  <2>1. payload \in Payloads
    BY BranchAssumption DEF Payloads
  <2>2. \/ AnswerOnly(c, payload, Revision(b))
        \/ history[c] = Nothing /\ (Record(c, payload, e, e) \/ Record(c, payload, e, e + 1))
    BY <1>4, Zenon DEF PromoteBranch, Accepts
  <2> HIDE DEF payload
  <2> QED BY <2>1, <2>2, AnswerOnlyAnswers, RecordTakes, BranchAssumption
<1>5. ASSUME NEW c \in CommandIds, NEW w \in Works, RecordSharedSourceCorrection(c, w)
      PROVE  [Ledger!LedgerNext]_LedgerVars
  <2> DEFINE payload == [operation |-> "corrected", source |-> w]
  <2>1. payload \in Payloads
    BY DEF Payloads
  <2>2. CASE history[c] = Nothing
    <3>1. Record(c, payload, 0, 0)
      BY <1>5, <2>2, Zenon DEF RecordSharedSourceCorrection
    <3> QED BY <2>1, <2>2, <3>1, RecordTakes
  <2>3. CASE history[c] # Nothing
    <3>1. /\ Reply(c, payload, IF history[c].payload = payload THEN "duplicate" ELSE "rejected")
          /\ UNCHANGED <<snapshots, history, impacts>>
      BY <1>5, <2>3, Zenon DEF RecordSharedSourceCorrection
    <3> HIDE DEF payload
    <3> QED BY <2>1, <2>3, <3>1, ReplyAnswers
  <2> QED BY <2>2, <2>3
<1>6. ASSUME NEW p \in 1 .. MaxPackets, NEW c \in CommandIds, NEW b \in BranchNames, NEW S \in Offers,
             AdoptBranchAlternative(c, p, b, S)
      PROVE  [Ledger!LedgerNext]_LedgerVars
  <2> DEFINE payload == [operation |-> "adopted", packet |-> p, branch |-> b, selected |-> S]
             after == Promoted(packets[p].branch, b, {ObjectOf(w) : w \in S})
             to == Revision(b) + (IF after = Current(b) THEN 0 ELSE 1)
  <2>1. payload \in Payloads
    BY DecisionAssumption DEF Payloads
  <2>2. \/ /\ history[c] # Nothing
           /\ Reply(c, payload, IF history[c].payload = payload THEN "duplicate" ELSE "rejected")
           /\ UNCHANGED <<snapshots, history, impacts>>
        \/ history[c] = Nothing /\ Record(c, payload, Revision(b), to)
    BY <1>6, Zenon DEF AdoptBranchAlternative
  <2>3. Revision(b) \in Nat
    BY <1>6, CurrentType DEF AdoptBranchAlternative
  <2>4. to \in Nat
    BY <2>3
  <2> HIDE DEF payload, to
  <2> QED BY <2>1, <2>2, <2>3, <2>4, ReplyAnswers, RecordTakes
<1> HIDE DEF DecisionInv, BranchInv
<1>7. CASE BranchNext
  BY <1>2, <1>3, <1>4, <1>5, <1>7 DEF BranchNext
<1>8. CASE DecisionSteps
  BY <1>1, <1>6, <1>8
  DEF DecisionSteps, CreateDecisionPacket, ReviseDecisionPacket, RecordOwnerDecision, ArchiveDecision,
      SupersedeDecision, ReopenDecision, RecordReasonedOverride, ResolveReviewDisagreement,
      RecordScholarlyFinding
<1> QED BY <1>7, <1>8 DEF DecisionNext

\* The history of a project keeps the promise of CommandLedger: a command that is
\* sent again is recognized however far the branches have moved on, and nothing
\* changes without a record (existingMutationResult of src/persistence/history-store.ts).
THEOREM CommandsOnce == DecisionSpec => CommandsTakeEffectOnce
<1>1. DecisionInit => Ledger!LedgerInit
  BY DEF DecisionInit, BranchInit, Ledger!LedgerInit
<1>2. DecisionInv /\ [DecisionNext]_allDecisionVars => [Ledger!LedgerNext]_LedgerVars
  <2>1. UNCHANGED allDecisionVars => UNCHANGED LedgerVars
    BY DEF allDecisionVars, branchVars, LedgerVars
  <2> QED BY <2>1, DecisionStepLedger
<1> QED BY <1>1, <1>2, DecisionInvariant, PTL
        DEF DecisionSpec, CommandsTakeEffectOnce, Ledger!LedgerSpec, LedgerVars

-----------------------------------------------------------------------------
\* Protocols

\* A protocol that has a row is registered.
ProtocolsLabelled == \A p \in Protocols : protocols[p] # Nothing => p \in labels

\* An amendment is of a protocol that was in force, by another one of the same branch.
Amends(from, to, b) ==
  /\ from # to /\ protocols[from] # Nothing /\ protocols[to] # Nothing
  /\ protocols[from].branch = b /\ protocols[to].branch = b
  /\ protocols[from].status # "candidate"

AmendmentsPlaced ==
  \A c \in CommandIds :
    amendments[c] # Nothing => \E b \in BranchNames : Amends(amendments[c].from, amendments[c].to, b)

\* The operation of a successor is the recording of it, and its row is there.
SuccessorsPlaced ==
  \A c \in CommandIds :
    LET op == studyOps[<<c, "successor">>]
    IN  op # Nothing =>
          /\ op.payload.kind = "amendment" /\ op.payload \in Recordings
          /\ op.payload.from \in Protocols /\ op.payload.to \in Protocols
          /\ Amends(op.payload.from, op.payload.to, op.payload.branch)

\* Where the process is in a recording, and what it may count on there.
RecordingPlaced ==
  recording # Nothing =>
    LET r == recording.payload
        c == r.command[1]
    IN  /\ c \in CommandIds /\ r.command = IF r.kind = "amendment" THEN <<c, "successor">> ELSE Itself(c)
        /\ r.kind # "protocol" => r.from \in Protocols
        /\ r.kind # "deviation" => r.to \in Protocols
        /\ r.kind = "amendment" /\ recording.stage # "impacts"
           => studyOps[Itself(c)] = Nothing /\ IsInForce(r.from) /\ protocols[r.from].branch = r.branch
        /\ recording.stage \in {"artifact", "protocol"}
           => r.kind # "deviation" /\ studyOps[r.command] = Nothing /\ protocols[r.to] = Nothing
        /\ recording.stage = "protocol" => r.to \in labels
        /\ recording.stage = "change"
           => /\ r.kind # "protocol" /\ studyOps[Itself(c)] = Nothing
              /\ r.kind = "amendment" => Amends(r.from, r.to, r.branch)
        /\ recording.stage = "impacts"
           => r.kind # "protocol" /\ studyOps[Itself(c)] # Nothing /\ studyOps[Itself(c)].payload = r

\* The rows that the operations left, whatever changed them since.
OpsPlaced ==
  \A c \in CommandIds :
    LET op == studyOps[Itself(c)]
        kind == op.payload.kind
    IN  op # Nothing =>
          /\ kind = "protocol" => op.payload.to \in Protocols /\ protocols[op.payload.to] # Nothing
          /\ kind = "amendment" => amendments[c] # Nothing
          /\ kind = "deviation" => deviations[c] # Nothing
          /\ kind = "bind-protocol"
             => /\ op.payload.protocol \in Protocols /\ protocols[op.payload.protocol] # Nothing
                /\ protocols[op.payload.protocol].status # "candidate"
          /\ kind \notin {"protocol", "amendment", "deviation", "bind-protocol"} => reports[c] # Nothing

\* What an adopted amendment replaced stays superseded, and what it brought stays bound.
AdoptedPlaced ==
  \A c \in CommandIds :
    amendments[c] # Nothing /\ amendments[c].status = "adopted" =>
      /\ protocols[amendments[c].from].status = "superseded"
      /\ protocols[amendments[c].to].status # "candidate"
      /\ \A d \in CommandIds :
           amendments[d] # Nothing /\ amendments[d].from = amendments[c].from
           => amendments[d].status # "proposed"

StudyInv ==
  /\ StudyTypeOK /\ DecisionInv
  /\ ProtocolsLabelled /\ AmendmentsPlaced /\ SuccessorsPlaced /\ RecordingPlaced /\ OpsPlaced
  /\ OneInForce /\ AdoptedPlaced /\ ChangeIsNoted

\* A protocol that has a row keeps it, its branch, and that it was bound.
RowsStay ==
  \A p \in Protocols :
    protocols[p] # Nothing =>
      /\ protocols'[p] # Nothing /\ protocols'[p].branch = protocols[p].branch
      /\ protocols[p].status # "candidate" => protocols'[p].status # "candidate"

LEMMA AmendsStay ==
  ASSUME NEW from \in Protocols, NEW to \in Protocols, NEW b, Amends(from, to, b), RowsStay
  PROVE  Amends(from, to, b)'
BY DEF Amends, RowsStay

\* The types of the rows.
LEMMA StudyRowTypes ==
  ASSUME StudyInv
  PROVE  /\ \A p \in Protocols : protocols[p] # Nothing => protocols[p] \in ProtocolRows
         /\ \A c \in CommandIds : amendments[c] # Nothing => amendments[c] \in AmendmentRows
         /\ \A c \in CommandIds : /\ Itself(c) \in StudyCommands /\ <<c, "successor">> \in StudyCommands
                                  /\ Itself(c)[1] = c /\ Itself(c) # <<c, "successor">>
         /\ \A c \in StudyCommands : studyOps[c] # Nothing => studyOps[c] \in StudyRows
BY DEF StudyInv, StudyTypeOK, StudyCommands, Itself

\* Amendments are as they were when theirs and the protocols' rows are.
LEMMA AmendmentsStay ==
  ASSUME StudyInv, RowsStay, UNCHANGED amendments PROVE AmendmentsPlaced'
<1> SUFFICES ASSUME NEW c \in CommandIds, amendments[c] # Nothing
             PROVE  \E b \in BranchNames : Amends(amendments[c].from, amendments[c].to, b)'
  BY DEF AmendmentsPlaced, Amends
<1>1. amendments[c].from \in Protocols /\ amendments[c].to \in Protocols
  BY StudyRowTypes DEF AmendmentRows
<1>2. PICK b \in BranchNames : Amends(amendments[c].from, amendments[c].to, b)
  BY DEF StudyInv, AmendmentsPlaced
<1> QED BY <1>1, <1>2, AmendsStay

LEMMA SuccessorsStay ==
  ASSUME StudyInv, RowsStay, \A c \in CommandIds : studyOps'[<<c, "successor">>] = studyOps[<<c, "successor">>]
  PROVE  SuccessorsPlaced'
<1> SUFFICES ASSUME NEW c \in CommandIds, studyOps[<<c, "successor">>] # Nothing
             PROVE  LET op == studyOps[<<c, "successor">>]
                    IN  /\ op.payload.kind = "amendment" /\ op.payload \in Recordings
                        /\ op.payload.from \in Protocols /\ op.payload.to \in Protocols
                        /\ Amends(op.payload.from, op.payload.to, op.payload.branch)'
  BY DEF SuccessorsPlaced, Amends
<1> DEFINE op == studyOps[<<c, "successor">>]
<1>1. /\ op.payload.kind = "amendment" /\ op.payload \in Recordings
      /\ op.payload.from \in Protocols /\ op.payload.to \in Protocols
      /\ Amends(op.payload.from, op.payload.to, op.payload.branch)
  BY DEF StudyInv, SuccessorsPlaced
<1>2. PICK from \in Protocols, to \in Protocols, b \in BranchNames :
        from = op.payload.from /\ to = op.payload.to /\ b = op.payload.branch
  BY <1>1 DEF Recordings
<1>3. Amends(from, to, b)'
  BY <1>1, <1>2, AmendsStay
<1> QED BY <1>1, <1>2, <1>3 DEF Amends

\* A step that only moves the process through a recording keeps everything.
LEMMA EnterKeeps ==
  ASSUME StudyInv, UNCHANGED <<allDecisionVars, labels, protocols, amendments, deviations, reports, studyOps>>,
         recording' # Nothing => recording'.payload \in Recordings /\ recording'.stage \in Stages,
         RecordingPlaced'
  PROVE  StudyInv'
<1>1. DecisionInv'
  BY DecisionStutters DEF StudyInv
<1>2. StudyTypeOK'
  BY <1>1 DEF StudyInv, StudyTypeOK, DecisionInv
<1>3. RowsStay
  BY DEF RowsStay
<1>4. AmendmentsPlaced' /\ SuccessorsPlaced'
  BY <1>3, AmendmentsStay, SuccessorsStay
<1>5. ProtocolsLabelled' /\ OpsPlaced' /\ AdoptedPlaced'
  BY DEF StudyInv, ProtocolsLabelled, OpsPlaced, AdoptedPlaced
<1>6. OneInForce'
  BY DEF StudyInv, OneInForce, IsInForce
<1>7. ChangeIsNoted'
  BY DEF StudyInv, ChangeIsNoted, allDecisionVars, branchVars, ToReview
<1> QED BY <1>1, <1>2, <1>4, <1>5, <1>6, <1>7 DEF StudyInv

LEMMA RecordProtocolVersionKeeps ==
  ASSUME StudyInv, NEW c \in CommandIds, NEW p \in Protocols, NEW b \in BranchNames, NEW x \in Contexts,
         RecordProtocolVersion(c, p, b, x)
  PROVE  StudyInv'
<1> DEFINE r == [command |-> Itself(c), kind |-> "protocol", from |-> Nothing, to |-> p,
                 branch |-> b, context |-> x]
<1>1. r \in Recordings
  BY StudyRowTypes DEF Recordings
<1>2. recording' = [stage |-> "artifact", payload |-> r] /\ studyOps[Itself(c)] = Nothing /\ p \notin labels
  BY DEF RecordProtocolVersion, EnterProtocol, Enter
<1>3. UNCHANGED <<allDecisionVars, labels, protocols, amendments, deviations, reports, studyOps>>
  BY DEF RecordProtocolVersion
<1>4. protocols[p] = Nothing
  BY <1>2 DEF StudyInv, ProtocolsLabelled
<1>5. RecordingPlaced'
  BY <1>2, <1>3, <1>4, StudyRowTypes DEF RecordingPlaced
<1> HIDE DEF r
<1> QED BY <1>1, <1>2, <1>3, <1>5, EnterKeeps DEF Stages

LEMMA RecordAmendmentKeeps ==
  ASSUME StudyInv, NEW c \in CommandIds, NEW from \in Protocols, NEW to \in Protocols, NEW x \in Contexts,
         RecordAmendment(c, from, to, x)
  PROVE  StudyInv'
<1> DEFINE r == [command |-> <<c, "successor">>, kind |-> "amendment", from |-> from, to |-> to,
                 branch |-> protocols[from].branch, context |-> x]
<1>1. IsInForce(from)
  BY DEF RecordAmendment
<1>2. protocols[from].branch \in BranchNames
  BY <1>1, StudyRowTypes DEF IsInForce, ProtocolRows
<1>3. r \in Recordings
  BY <1>2, StudyRowTypes DEF Recordings
<1>4. UNCHANGED <<allDecisionVars, labels, protocols, amendments, deviations, reports, studyOps>>
  BY DEF RecordAmendment
<1>5. \/ /\ recording' = [stage |-> "artifact", payload |-> r] /\ studyOps[Itself(c)] = Nothing
         /\ studyOps[<<c, "successor">>] = Nothing /\ to \notin labels
      \/ /\ recording' = [stage |-> "change", payload |-> r] /\ studyOps[Itself(c)] = Nothing
         /\ studyOps[<<c, "successor">>] # Nothing /\ studyOps[<<c, "successor">>].payload = r
      \/ /\ recording' = [stage |-> "impacts", payload |-> r]
         /\ studyOps[Itself(c)] # Nothing /\ studyOps[Itself(c)].payload = r
  BY DEF RecordAmendment, EnterProtocol, Enter, Known
<1>6. IsInForce(from)' /\ <<c, "successor">>[1] = c
  BY <1>1, <1>4 DEF IsInForce
<1>7. recording'.payload = r /\ recording'.stage \in Stages
  BY <1>5 DEF Stages
<1>8. recording'.stage = "artifact" => protocols[to] = Nothing
  BY <1>5 DEF StudyInv, ProtocolsLabelled
<1>9. recording'.stage = "change" => Amends(from, to, protocols[from].branch)
  BY <1>5 DEF StudyInv, SuccessorsPlaced
<1>10. recording'.stage = "change" => Amends(from, to, protocols[from].branch)'
  BY <1>4, <1>9 DEF Amends
<1>11. RecordingPlaced'
  BY <1>4, <1>5, <1>6, <1>8, <1>10 DEF RecordingPlaced
<1> HIDE DEF r
<1> QED BY <1>3, <1>4, <1>7, <1>11, EnterKeeps

LEMMA RecordDeviationKeeps ==
  ASSUME StudyInv, NEW c \in CommandIds, NEW of \in Protocols, NEW x \in Contexts, RecordDeviation(c, of, x)
  PROVE  StudyInv'
<1> DEFINE r == [command |-> Itself(c), kind |-> "deviation", from |-> of, to |-> Nothing,
                 branch |-> protocols[of].branch, context |-> x]
<1>1. protocols[of].branch \in BranchNames
  BY StudyRowTypes DEF RecordDeviation, ProtocolRows
<1>2. r \in Recordings
  BY <1>1, StudyRowTypes DEF Recordings
<1>3. UNCHANGED <<allDecisionVars, labels, protocols, amendments, deviations, reports, studyOps>>
  BY DEF RecordDeviation
<1>4. \/ recording' = [stage |-> "change", payload |-> r] /\ studyOps[Itself(c)] = Nothing
      \/ /\ recording' = [stage |-> "impacts", payload |-> r]
         /\ studyOps[Itself(c)] # Nothing /\ studyOps[Itself(c)].payload = r
  BY DEF RecordDeviation, Enter, Known
<1>5. RecordingPlaced'
  <2>1. /\ recording'.payload = r /\ r.command[1] = c /\ r.command = Itself(c) /\ r.kind = "deviation" /\ r.from = of
        /\ recording'.stage \in {"change", "impacts"}
    <3>1. Itself(c)[1] = c
      BY DEF Itself
    <3> QED BY <1>4, <3>1
  <2>2. recording'.stage = "change" => studyOps'[Itself(c)] = Nothing
    BY <1>3, <1>4
  <2>3. recording'.stage = "impacts" => studyOps'[Itself(c)] # Nothing /\ studyOps'[Itself(c)].payload = r
    BY <1>3, <1>4
  <2> HIDE DEF r
  <2> QED BY <2>1, <2>2, <2>3 DEF RecordingPlaced
<1>6. recording'.payload = r /\ recording'.stage \in Stages
  BY <1>4 DEF Stages
<1> HIDE DEF r
<1> QED BY <1>2, <1>3, <1>5, <1>6, EnterKeeps

LEMMA StudyCrashKeeps == ASSUME StudyInv, StudyCrash PROVE StudyInv'
BY EnterKeeps DEF StudyCrash, RecordingPlaced

\* The transactions of a recording

LEMMA RegisterKeeps == ASSUME StudyInv, RegisterProtocolArtifact PROVE StudyInv'
<1> DEFINE r == recording.payload
<1>1. /\ recording # Nothing /\ recording.stage = "artifact" /\ labels' = labels \cup {r.to}
      /\ recording' = [stage |-> "protocol", payload |-> r]
      /\ UNCHANGED <<allDecisionVars, protocols, amendments, deviations, reports, studyOps>>
  BY DEF RegisterProtocolArtifact, At, Enter
<1>2. r \in Recordings /\ r.kind # "deviation" /\ r.to \in Protocols
  BY <1>1 DEF StudyInv, StudyTypeOK, RecordingPlaced
<1>3. DecisionInv'
  BY <1>1, DecisionStutters DEF StudyInv
<1>4. StudyTypeOK'
  BY <1>1, <1>2, <1>3 DEF StudyInv, StudyTypeOK, DecisionInv, Stages
<1>5. RowsStay
  BY <1>1 DEF RowsStay
<1>6. AmendmentsPlaced' /\ SuccessorsPlaced'
  BY <1>1, <1>5, AmendmentsStay, SuccessorsStay
<1>7. ProtocolsLabelled' /\ OpsPlaced' /\ AdoptedPlaced'
  BY <1>1 DEF StudyInv, ProtocolsLabelled, OpsPlaced, AdoptedPlaced
<1>8. OneInForce'
  BY <1>1 DEF StudyInv, OneInForce, IsInForce
<1>9. ChangeIsNoted'
  BY <1>1 DEF StudyInv, ChangeIsNoted, allDecisionVars, branchVars, ToReview
<1>10. RecordingPlaced'
  BY <1>1 DEF StudyInv, RecordingPlaced, IsInForce
<1> QED BY <1>3, <1>4, <1>6, <1>7, <1>8, <1>9, <1>10 DEF StudyInv

LEMMA FailKeeps == ASSUME StudyInv, FailProtocol PROVE StudyInv'
<1> DEFINE r == recording.payload
<1>1. /\ recording # Nothing /\ recording.stage = "protocol" /\ recording' = Nothing
      /\ labels \ {r.to} \subseteq labels' /\ labels' \subseteq labels
      /\ UNCHANGED <<allDecisionVars, protocols, amendments, deviations, reports, studyOps>>
  BY DEF FailProtocol, At
<1>2. protocols[r.to] = Nothing
  BY <1>1 DEF StudyInv, RecordingPlaced
<1>3. DecisionInv'
  BY <1>1, DecisionStutters DEF StudyInv
<1>4. StudyTypeOK'
  BY <1>1, <1>3 DEF StudyInv, StudyTypeOK, DecisionInv
<1>5. RowsStay
  BY <1>1 DEF RowsStay
<1>6. AmendmentsPlaced' /\ SuccessorsPlaced'
  BY <1>1, <1>5, AmendmentsStay, SuccessorsStay
<1>7. ProtocolsLabelled' /\ OpsPlaced' /\ AdoptedPlaced' /\ RecordingPlaced'
  BY <1>1, <1>2 DEF StudyInv, ProtocolsLabelled, OpsPlaced, AdoptedPlaced, RecordingPlaced
<1>8. OneInForce'
  BY <1>1 DEF StudyInv, OneInForce, IsInForce
<1>9. ChangeIsNoted'
  BY <1>1 DEF StudyInv, ChangeIsNoted, allDecisionVars, branchVars, ToReview
<1> QED BY <1>3, <1>4, <1>6, <1>7, <1>8, <1>9 DEF StudyInv

LEMMA InsertProtocolKeeps == ASSUME StudyInv, InsertProtocol PROVE StudyInv'
<1>0. PICK r : r = recording.payload
  OBVIOUS
<1> DEFINE c == r.command[1]
           row == [branch |-> r.branch, context |-> r.context, status |-> "candidate"]
           op == [payload |-> r, status |-> "complete"]
<1>1. /\ recording # Nothing /\ recording.stage = "protocol"
      /\ protocols' = [protocols EXCEPT ![r.to] = row]
      /\ studyOps' = [studyOps EXCEPT ![r.command] = op]
      /\ UNCHANGED <<allDecisionVars, labels, amendments, deviations, reports>>
  BY <1>0 DEF InsertProtocol, At, AddOp
<1>2. IF r.kind = "amendment" THEN recording' = [stage |-> "change", payload |-> r] ELSE recording' = Nothing
  BY <1>0 DEF InsertProtocol, Enter
<1>3. /\ r \in Recordings /\ r.kind \in {"protocol", "amendment"} /\ r.to \in Protocols /\ c \in CommandIds
      /\ r.command = (IF r.kind = "amendment" THEN <<c, "successor">> ELSE Itself(c))
      /\ studyOps[r.command] = Nothing /\ protocols[r.to] = Nothing /\ r.to \in labels
  BY <1>0, <1>1 DEF StudyInv, StudyTypeOK, RecordingPlaced, Recordings
<1>4. r.kind = "amendment"
      => /\ r.from \in Protocols /\ studyOps[Itself(c)] = Nothing /\ IsInForce(r.from)
         /\ protocols[r.from].branch = r.branch
  BY <1>0, <1>1 DEF StudyInv, RecordingPlaced
<1>5. r.command \in StudyCommands /\ row \in ProtocolRows /\ op \in StudyRows
  BY <1>3 DEF Recordings, ProtocolRows, StudyRows, StudyPayloads
<1>6. row # Nothing /\ op # Nothing /\ op.payload = r
  BY <1>5, NullStudyAssumption
<1>7. /\ protocols \in [Protocols -> ProtocolRows \cup {Nothing}]
      /\ studyOps \in [StudyCommands -> StudyRows \cup {Nothing}]
  BY DEF StudyInv, StudyTypeOK
<1>8. row.status = "candidate" /\ row.branch = r.branch
  OBVIOUS
<1> HIDE DEF row, op
<1>9. /\ protocols'[r.to] = row /\ \A p \in Protocols : p # r.to => protocols'[p] = protocols[p]
      /\ studyOps'[r.command] = op /\ \A d \in StudyCommands : d # r.command => studyOps'[d] = studyOps[d]
  BY <1>1, <1>3, <1>5, <1>7
<1>10. RowsStay
  BY <1>3, <1>9 DEF RowsStay
<1>11. \A p \in Protocols : IsInForce(p)' <=> IsInForce(p)
  BY <1>3, <1>8, <1>9 DEF IsInForce
<1>12. DecisionInv'
  BY <1>1, DecisionStutters DEF StudyInv
<1>13. StudyTypeOK'
  <2>1. protocols' \in [Protocols -> ProtocolRows \cup {Nothing}]
    BY <1>1, <1>5, <1>7
  <2>2. studyOps' \in [StudyCommands -> StudyRows \cup {Nothing}]
    BY <1>1, <1>5, <1>7
  <2>3. recording' # Nothing => recording'.payload \in Recordings /\ recording'.stage \in Stages
    BY <1>2, <1>3 DEF Stages
  <2> QED BY <1>1, <1>12, <2>1, <2>2, <2>3 DEF StudyInv, StudyTypeOK, DecisionInv
<1>14. r.kind = "amendment" => Amends(r.from, r.to, r.branch)'
  BY <1>3, <1>4, <1>6, <1>8, <1>9 DEF IsInForce, Amends
<1>15. AmendmentsPlaced'
  BY <1>1, <1>10, AmendmentsStay
<1>16. ProtocolsLabelled'
  BY <1>1, <1>3, <1>9 DEF StudyInv, ProtocolsLabelled
<1>17. OneInForce'
  <2>1. \A p \in Protocols : IsInForce(p) => protocols'[p] = protocols[p]
    BY <1>3, <1>9 DEF IsInForce
  <2> QED BY <1>11, <2>1 DEF StudyInv, OneInForce
<1>18. \A d \in CommandIds : amendments[d] # Nothing =>
         /\ amendments[d].from \in Protocols /\ amendments[d].to \in Protocols
         /\ protocols'[amendments[d].from] = protocols[amendments[d].from]
         /\ protocols'[amendments[d].to] = protocols[amendments[d].to]
  <2> TAKE d \in CommandIds
  <2> HAVE amendments[d] # Nothing
  <2>1. amendments[d].from \in Protocols /\ amendments[d].to \in Protocols
    BY StudyRowTypes DEF AmendmentRows
  <2>2. protocols[amendments[d].from] # Nothing /\ protocols[amendments[d].to] # Nothing
    BY DEF StudyInv, AmendmentsPlaced, Amends
  <2> QED BY <1>3, <1>9, <2>1, <2>2
<1>19. AdoptedPlaced'
  BY <1>1, <1>18 DEF StudyInv, AdoptedPlaced
<1>20. \A d \in CommandIds : /\ d # c => Itself(d) # r.command /\ <<d, "successor">> # r.command
                             /\ r.kind = "amendment" => Itself(d) # r.command
                             /\ r.kind # "amendment" => <<d, "successor">> # r.command
  BY <1>3 DEF Itself
<1>21. SuccessorsPlaced'
  <2>1. CASE r.kind = "protocol"
    BY <1>9, <1>10, <1>20, <2>1, StudyRowTypes, SuccessorsStay
  <2>2. CASE r.kind = "amendment"
    <3> SUFFICES ASSUME NEW d \in CommandIds, studyOps'[<<d, "successor">>] # Nothing
                 PROVE  LET o == studyOps'[<<d, "successor">>]
                        IN  /\ o.payload.kind = "amendment" /\ o.payload \in Recordings
                            /\ o.payload.from \in Protocols /\ o.payload.to \in Protocols
                            /\ \A from, to, b : from = o.payload.from /\ to = o.payload.to /\ b = o.payload.branch
                                               => Amends(from, to, b)'
      BY DEF SuccessorsPlaced, Amends
    <3>1. CASE d = c
      BY <1>3, <1>4, <1>6, <1>9, <1>14, <2>2, <3>1
    <3>2. CASE d # c
      <4>1. studyOps'[<<d, "successor">>] = studyOps[<<d, "successor">>]
        BY <1>9, <1>20, <3>2, StudyRowTypes
      <4>2. PICK o : o = studyOps[<<d, "successor">>]
        OBVIOUS
      <4>3. /\ o.payload.kind = "amendment" /\ o.payload \in Recordings
            /\ o.payload.from \in Protocols /\ o.payload.to \in Protocols
            /\ Amends(o.payload.from, o.payload.to, o.payload.branch)
        BY <4>1, <4>2 DEF StudyInv, SuccessorsPlaced
      <4>4. Amends(o.payload.from, o.payload.to, o.payload.branch)'
        BY <1>10, <4>3, AmendsStay
      <4> QED BY <4>1, <4>2, <4>3, <4>4
    <3> QED BY <3>1, <3>2
  <2> QED BY <1>3, <2>1, <2>2
<1>22. RecordingPlaced'
  <2>1. CASE r.kind = "protocol"
    BY <1>2, <2>1 DEF RecordingPlaced
  <2>2. CASE r.kind = "amendment"
    <3>1. recording'.payload = r /\ recording'.stage = "change"
      BY <1>2, <2>2
    <3>2. studyOps'[Itself(c)] = Nothing
      BY <1>3, <1>4, <1>9, <1>20, <2>2, StudyRowTypes
    <3>3. IsInForce(r.from)' /\ protocols'[r.from].branch = r.branch
      BY <1>4, <1>10, <1>11, <2>2 DEF RowsStay, IsInForce
    <3> QED BY <1>3, <1>4, <1>14, <2>2, <3>1, <3>2, <3>3 DEF RecordingPlaced
  <2> QED BY <1>3, <2>1, <2>2
<1>23. OpsPlaced'
  <2> SUFFICES ASSUME NEW d \in CommandIds, studyOps'[Itself(d)] # Nothing
               PROVE  LET o == studyOps'[Itself(d)]
                          kind == o.payload.kind
                      IN  /\ kind = "protocol" => o.payload.to \in Protocols /\ protocols'[o.payload.to] # Nothing
                          /\ kind = "amendment" => amendments'[d] # Nothing
                          /\ kind = "deviation" => deviations'[d] # Nothing
                          /\ kind = "bind-protocol"
                             => /\ o.payload.protocol \in Protocols /\ protocols'[o.payload.protocol] # Nothing
                                /\ protocols'[o.payload.protocol].status # "candidate"
                          /\ kind \notin {"protocol", "amendment", "deviation", "bind-protocol"} => reports'[d] # Nothing
    BY DEF OpsPlaced, Itself
  <2>1. CASE Itself(d) = r.command
    BY <1>3, <1>6, <1>9, <1>20, <2>1
  <2>2. CASE Itself(d) # r.command
    <3>1. studyOps'[Itself(d)] = studyOps[Itself(d)]
      BY <1>9, <2>2, StudyRowTypes
    <3> QED BY <1>1, <1>10, <3>1 DEF StudyInv, OpsPlaced, RowsStay
  <2> QED BY <2>1, <2>2
<1>24. ChangeIsNoted'
  <2> SUFFICES ASSUME NEW d \in CommandIds, studyOps'[Itself(d)] # Nothing,
                      studyOps'[Itself(d)].status = "complete",
                      studyOps'[Itself(d)].payload.kind \in {"amendment", "deviation"}
               PROVE  ToReview(studyOps'[Itself(d)].payload) \subseteq impacts
    BY <1>1 DEF ChangeIsNoted, ToReview, Itself, allDecisionVars, branchVars
  <2>1. Itself(d) # r.command
    BY <1>3, <1>6, <1>9, <1>20
  <2>2. studyOps'[Itself(d)] = studyOps[Itself(d)]
    BY <1>9, <2>1, StudyRowTypes
  <2> QED BY <2>2 DEF StudyInv, ChangeIsNoted
<1> QED BY <1>12, <1>13, <1>15, <1>16, <1>17, <1>19, <1>21, <1>22, <1>23, <1>24 DEF StudyInv

LEMMA InsertChangeKeeps == ASSUME StudyInv, InsertChange PROVE StudyInv'
<1>0. PICK r : r = recording.payload
  OBVIOUS
<1> DEFINE c == r.command[1]
           amendment == [from |-> r.from, to |-> r.to, status |-> "proposed"]
           deviation == [of |-> r.from, context |-> r.context]
           op == [payload |-> r, status |-> "pending"]
<1>1. /\ recording # Nothing /\ recording.stage = "change"
      /\ studyOps' = [studyOps EXCEPT ![Itself(c)] = op]
      /\ recording' = [stage |-> "impacts", payload |-> r]
      /\ UNCHANGED <<allDecisionVars, labels, protocols, reports>>
  BY <1>0 DEF InsertChange, At, AddOp, Enter
<1>2. IF r.kind = "amendment"
      THEN amendments' = [amendments EXCEPT ![c] = amendment] /\ UNCHANGED deviations
      ELSE deviations' = [deviations EXCEPT ![c] = deviation] /\ UNCHANGED amendments
  BY <1>0 DEF InsertChange
<1>3. /\ r \in Recordings /\ r.kind \in {"amendment", "deviation"} /\ c \in CommandIds
      /\ r.from \in Protocols
      /\ r.kind = "amendment" => r.to \in Protocols
      /\ r.command = (IF r.kind = "amendment" THEN <<c, "successor">> ELSE Itself(c))
      /\ studyOps[Itself(c)] = Nothing
  BY <1>0, <1>1 DEF StudyInv, StudyTypeOK, RecordingPlaced, Recordings
<1>4. r.kind = "amendment" => Amends(r.from, r.to, r.branch) /\ IsInForce(r.from)
  BY <1>0, <1>1 DEF StudyInv, RecordingPlaced
<1>5. /\ op \in StudyRows /\ deviation \in DeviationRows
      /\ r.kind = "amendment" => amendment \in AmendmentRows
      /\ r.branch \in BranchNames
  BY <1>3 DEF Recordings, StudyRows, StudyPayloads, DeviationRows, AmendmentRows
<1>6. op # Nothing /\ deviation # Nothing /\ (r.kind = "amendment" => amendment # Nothing)
  BY <1>5, NullStudyAssumption
<1>7. /\ amendments \in [CommandIds -> AmendmentRows \cup {Nothing}]
      /\ deviations \in [CommandIds -> DeviationRows \cup {Nothing}]
      /\ studyOps \in [StudyCommands -> StudyRows \cup {Nothing}] /\ Itself(c) \in StudyCommands
  BY <1>3, StudyRowTypes DEF StudyInv, StudyTypeOK
<1>8. /\ amendment.from = r.from /\ amendment.to = r.to /\ amendment.status = "proposed"
      /\ op.payload = r /\ op.status = "pending"
  OBVIOUS
<1> HIDE DEF amendment, deviation, op
<1>9. /\ studyOps'[Itself(c)] = op /\ \A d \in StudyCommands : d # Itself(c) => studyOps'[d] = studyOps[d]
      /\ \A d \in CommandIds : d # c => amendments'[d] = amendments[d] /\ deviations'[d] = deviations[d]
      /\ r.kind = "amendment" => amendments'[c] = amendment /\ UNCHANGED deviations
      /\ r.kind = "deviation" => deviations'[c] = deviation /\ UNCHANGED amendments
  BY <1>1, <1>2, <1>3, <1>7
<1>10. RowsStay
  BY <1>1 DEF RowsStay
<1>11. DecisionInv'
  BY <1>1, DecisionStutters DEF StudyInv
<1>12. StudyTypeOK'
  <2>1. studyOps' \in [StudyCommands -> StudyRows \cup {Nothing}]
    BY <1>1, <1>5, <1>7
  <2>2. amendments' \in [CommandIds -> AmendmentRows \cup {Nothing}]
        /\ deviations' \in [CommandIds -> DeviationRows \cup {Nothing}]
    BY <1>2, <1>5, <1>7
  <2>3. recording'.payload \in Recordings /\ recording'.stage \in Stages
    BY <1>1, <1>3 DEF Stages
  <2> QED BY <1>1, <1>11, <2>1, <2>2, <2>3 DEF StudyInv, StudyTypeOK, DecisionInv
<1>13. ProtocolsLabelled' /\ OneInForce'
  BY <1>1 DEF StudyInv, ProtocolsLabelled, OneInForce, IsInForce
<1>14. \A from, to, b : Amends(from, to, b)' <=> Amends(from, to, b)
  BY <1>1 DEF Amends
<1>15. AmendmentsPlaced'
  <2> SUFFICES ASSUME NEW d \in CommandIds, amendments'[d] # Nothing
               PROVE  \E b \in BranchNames : \A from, to : from = amendments'[d].from /\ to = amendments'[d].to
                                                          => Amends(from, to, b)'
    BY DEF AmendmentsPlaced, Amends
  <2>1. CASE d = c /\ r.kind = "amendment"
    BY <1>4, <1>5, <1>8, <1>9, <1>14, <2>1
  <2>2. CASE ~(d = c /\ r.kind = "amendment")
    <3>1. amendments'[d] = amendments[d]
      BY <1>3, <1>9, <2>2
    <3>2. PICK b \in BranchNames : Amends(amendments[d].from, amendments[d].to, b)
      BY <3>1 DEF StudyInv, AmendmentsPlaced
    <3> QED BY <1>14, <3>1, <3>2
  <2> QED BY <2>1, <2>2
<1>16. \A d \in CommandIds : <<d, "successor">> # Itself(c) /\ (d # c => Itself(d) # Itself(c))
  BY DEF Itself
<1>17. SuccessorsPlaced'
  BY <1>9, <1>10, <1>16, StudyRowTypes, SuccessorsStay
<1>18. RecordingPlaced'
  <2>1. /\ recording'.payload = r /\ recording'.stage = "impacts"
        /\ studyOps'[Itself(c)] # Nothing /\ studyOps'[Itself(c)].payload = r
    BY <1>1, <1>6, <1>8, <1>9
  <2> QED BY <1>3, <2>1 DEF RecordingPlaced
<1>19. OpsPlaced'
  <2> SUFFICES ASSUME NEW d \in CommandIds, studyOps'[Itself(d)] # Nothing
               PROVE  LET o == studyOps'[Itself(d)]
                          kind == o.payload.kind
                      IN  /\ kind = "protocol" => o.payload.to \in Protocols /\ protocols'[o.payload.to] # Nothing
                          /\ kind = "amendment" => amendments'[d] # Nothing
                          /\ kind = "deviation" => deviations'[d] # Nothing
                          /\ kind = "bind-protocol"
                             => /\ o.payload.protocol \in Protocols /\ protocols'[o.payload.protocol] # Nothing
                                /\ protocols'[o.payload.protocol].status # "candidate"
                          /\ kind \notin {"protocol", "amendment", "deviation", "bind-protocol"} => reports'[d] # Nothing
    BY DEF OpsPlaced, Itself
  <2>1. CASE d = c
    BY <1>3, <1>6, <1>8, <1>9, <2>1
  <2>2. CASE d # c
    <3>1. /\ studyOps'[Itself(d)] = studyOps[Itself(d)]
          /\ amendments'[d] = amendments[d] /\ deviations'[d] = deviations[d]
      BY <1>9, <1>16, <2>2, StudyRowTypes
    <3> QED BY <1>1, <3>1 DEF StudyInv, OpsPlaced
  <2> QED BY <2>1, <2>2
<1>20. ChangeIsNoted'
  <2> SUFFICES ASSUME NEW d \in CommandIds, studyOps'[Itself(d)] # Nothing,
                      studyOps'[Itself(d)].status = "complete",
                      studyOps'[Itself(d)].payload.kind \in {"amendment", "deviation"}
               PROVE  ToReview(studyOps'[Itself(d)].payload) \subseteq impacts
    BY <1>1 DEF ChangeIsNoted, ToReview, Itself, allDecisionVars, branchVars
  <2>1. d # c
    BY <1>8, <1>9
  <2>2. studyOps'[Itself(d)] = studyOps[Itself(d)]
    BY <1>9, <1>16, <2>1, StudyRowTypes
  <2> QED BY <2>2 DEF StudyInv, ChangeIsNoted
<1>21. AdoptedPlaced'
  <2> SUFFICES ASSUME NEW d \in CommandIds, amendments'[d] # Nothing, amendments'[d].status = "adopted"
               PROVE  /\ protocols[amendments'[d].from].status = "superseded"
                      /\ protocols[amendments'[d].to].status # "candidate"
                      /\ \A e \in CommandIds :
                           amendments'[e] # Nothing /\ amendments'[e].from = amendments'[d].from
                           => amendments'[e].status # "proposed"
    BY <1>1 DEF AdoptedPlaced
  <2>1. amendments'[d] = amendments[d]
    BY <1>3, <1>8, <1>9
  <2>2. /\ protocols[amendments[d].from].status = "superseded"
        /\ protocols[amendments[d].to].status # "candidate"
        /\ \A e \in CommandIds :
             amendments[e] # Nothing /\ amendments[e].from = amendments[d].from
             => amendments[e].status # "proposed"
    BY <2>1 DEF StudyInv, AdoptedPlaced
  <2>3. ASSUME NEW e \in CommandIds, amendments'[e] # Nothing, amendments'[e].from = amendments[d].from
        PROVE  amendments'[e].status # "proposed"
    <3>1. CASE e = c /\ r.kind = "amendment"
      <4>1. amendments'[e].from = r.from /\ protocols[r.from].status = "in-force"
        BY <1>4, <1>8, <1>9, <3>1 DEF IsInForce
      <4> QED BY <2>2, <2>3, <4>1
    <3>2. CASE ~(e = c /\ r.kind = "amendment")
      <4>1. amendments'[e] = amendments[e]
        BY <1>3, <1>9, <3>2
      <4> QED BY <2>2, <2>3, <4>1
    <3> QED BY <3>1, <3>2
  <2> QED BY <2>1, <2>2, <2>3
<1> QED BY <1>11, <1>12, <1>13, <1>15, <1>17, <1>18, <1>19, <1>20, <1>21 DEF StudyInv

\* More to review keeps what holds of branches and decisions.
LEMMA ImpactKeeps ==
  ASSUME DecisionInv, impacts \subseteq impacts', impacts' \subseteq Impacts,
         UNCHANGED <<snapshots, history, lastAnswer, decisionVars>>
  PROVE  DecisionInv'
<1>1. UNCHANGED <<packets, decisions, findings, overrides>> /\ \A b : Exists(b)' <=> Exists(b)
  BY DEF decisionVars, Exists
<1>2. BranchTypeOK' /\ NamesUnused' /\ RowsPlaced'
  BY <1>1 DEF DecisionInv, BranchInv, BranchTypeOK, NamesUnused, RowsPlaced
<1>3. ReplacedSourceIsNoted'
  BY NotedStays DEF DecisionInv, BranchInv
<1>4. BranchInv'
  BY <1>2, <1>3 DEF BranchInv
<1>5. DecisionTypeOK'
  BY <1>1, <1>2 DEF DecisionInv, DecisionTypeOK
<1>6. PacketsPlaced' /\ DecisionsPlaced' /\ OneRevision'
  BY <1>1, PlacesStay
<1> QED BY <1>4, <1>5, <1>6 DEF DecisionInv

\* Nothing that is to be reviewed is forgotten.
LEMMA ImpactsGrow == ASSUME DecisionNext PROVE impacts \subseteq impacts'
<1>1. ASSUME UNCHANGED branchVars PROVE impacts \subseteq impacts'
  BY <1>1 DEF branchVars
<1>2. ASSUME NEW c \in CommandIds, NEW b \in BranchNames, NEW w \in Works, NEW e \in 0 .. MaxRevision,
             UpdateBranchReference(c, b, w, e)
      PROVE  impacts \subseteq impacts'
  <2>1. impacts' = impacts
    BY <1>2, Zenon DEF UpdateBranchReference, AnswerOnly
  <2> QED BY <2>1
<1>3. ASSUME NEW c \in CommandIds, NEW source \in BranchNames, NEW b \in BranchNames,
             NEW objects \in SUBSET Objects, NEW e \in 0 .. MaxRevision, PromoteBranch(c, source, b, objects, e)
      PROVE  impacts \subseteq impacts'
  <2>1. impacts' = impacts \/ \E more : impacts' = impacts \cup more
    BY <1>3, Zenon DEF PromoteBranch, AnswerOnly
  <2> QED BY <2>1
<1>4. ASSUME NEW c \in CommandIds, NEW w \in Works, RecordSharedSourceCorrection(c, w)
      PROVE  impacts \subseteq impacts'
  <2>1. impacts' = impacts \/ \E more : impacts' = impacts \cup more
    BY <1>4, Zenon DEF RecordSharedSourceCorrection
  <2> QED BY <2>1
<1>5. ASSUME NEW p \in 1 .. MaxPackets, NEW c \in CommandIds, NEW b \in BranchNames, NEW S \in Offers,
             AdoptBranchAlternative(c, p, b, S)
      PROVE  impacts \subseteq impacts'
  <2>1. impacts' = impacts \/ \E more : impacts' = impacts \cup more
    BY <1>5, Zenon DEF AdoptBranchAlternative
  <2> QED BY <2>1
<1>6. ASSUME NEW b \in BranchNames, NEW parent \in BranchNames, CreateBranch(b, parent)
      PROVE  impacts \subseteq impacts'
  BY <1>6 DEF CreateBranch
<1>7. CASE BranchNext
  BY <1>2, <1>3, <1>4, <1>6, <1>7 DEF BranchNext
<1>8. CASE DecisionSteps
  BY <1>1, <1>5, <1>8
  DEF DecisionSteps, CreateDecisionPacket, ReviseDecisionPacket, RecordOwnerDecision, ArchiveDecision,
      SupersedeDecision, ReopenDecision, RecordReasonedOverride, ResolveReviewDisagreement,
      RecordScholarlyFinding
<1> QED BY <1>7, <1>8 DEF DecisionNext

\* Steps of which the study is no part keep what holds of it, while impacts only come.
LEMMA OthersKeep ==
  ASSUME StudyInv, DecisionInv', impacts \subseteq impacts', UNCHANGED studyVars PROVE StudyInv'
<1>1. UNCHANGED <<labels, protocols, amendments, deviations, reports, studyOps, recording>>
  BY DEF studyVars
<1>2. StudyTypeOK'
  BY <1>1 DEF StudyInv, StudyTypeOK, DecisionInv
<1>3. RowsStay
  BY <1>1 DEF RowsStay
<1>4. AmendmentsPlaced' /\ SuccessorsPlaced'
  BY <1>1, <1>3, AmendmentsStay, SuccessorsStay
<1>5. ProtocolsLabelled' /\ OpsPlaced' /\ AdoptedPlaced'
  BY <1>1 DEF StudyInv, ProtocolsLabelled, OpsPlaced, AdoptedPlaced
<1>6. OneInForce'
  BY <1>1 DEF StudyInv, OneInForce, IsInForce
<1>7. ChangeIsNoted'
  BY <1>1 DEF StudyInv, ChangeIsNoted, ToReview
<1>8. RecordingPlaced'
  BY <1>1 DEF StudyInv, RecordingPlaced, IsInForce, Amends
<1> QED BY <1>2, <1>4, <1>5, <1>6, <1>7, <1>8 DEF StudyInv

LEMMA WriteImpactKeeps == ASSUME StudyInv, WriteImpact PROVE StudyInv'
<1>0. PICK r : r = recording.payload
  OBVIOUS
<1>1. /\ recording # Nothing /\ recording.stage = "impacts"
      /\ UNCHANGED <<snapshots, history, lastAnswer, decisionVars, studyVars>>
  BY DEF WriteImpact, At
<1>2. PICK i \in ToReview(r) : impacts' = impacts \cup {i}
  BY <1>0 DEF WriteImpact
<1>3. r \in Recordings /\ r.from \in Protocols /\ r.command[1] \in CommandIds /\ r.branch \in BranchNames
  BY <1>0, <1>1 DEF StudyInv, StudyTypeOK, RecordingPlaced, Recordings
<1>4. i \in Impacts
  BY <1>2, <1>3, ProtocolAssumption DEF ToReview, Impacts
<1>5. impacts \subseteq impacts' /\ impacts' \subseteq Impacts
  BY <1>2, <1>4 DEF StudyInv, DecisionInv, BranchInv, BranchTypeOK
<1>6. DecisionInv'
  BY <1>1, <1>5, ImpactKeeps DEF StudyInv
<1> QED BY <1>1, <1>5, <1>6, OthersKeep

LEMMA CompleteKeeps == ASSUME StudyInv, CompleteOperation PROVE StudyInv'
<1>0. PICK r : r = recording.payload
  OBVIOUS
<1> DEFINE c == r.command[1]
           op == [studyOps[Itself(c)] EXCEPT !.status = "complete"]
<1>1. /\ recording # Nothing /\ recording.stage = "impacts" /\ ToReview(r) \subseteq impacts
      /\ studyOps' = [studyOps EXCEPT ![Itself(c)] = op] /\ recording' = Nothing
      /\ UNCHANGED <<allDecisionVars, labels, protocols, amendments, deviations, reports>>
  BY <1>0 DEF CompleteOperation, At
<1>2. c \in CommandIds /\ studyOps[Itself(c)] # Nothing /\ studyOps[Itself(c)].payload = r
  BY <1>0, <1>1 DEF StudyInv, RecordingPlaced
<1>3. studyOps \in [StudyCommands -> StudyRows \cup {Nothing}] /\ Itself(c) \in StudyCommands
  BY <1>2, StudyRowTypes DEF StudyInv, StudyTypeOK
<1>4. op \in StudyRows /\ op.payload = r
  BY <1>2, <1>3 DEF StudyRows
<1>5. op # Nothing
  BY <1>4, NullStudyAssumption
<1> HIDE DEF op
<1>6. studyOps'[Itself(c)] = op /\ \A d \in StudyCommands : d # Itself(c) => studyOps'[d] = studyOps[d]
  BY <1>1, <1>3
<1>7. DecisionInv'
  BY <1>1, DecisionStutters DEF StudyInv
<1>8. StudyTypeOK'
  <2>1. studyOps' \in [StudyCommands -> StudyRows \cup {Nothing}]
    BY <1>1, <1>3, <1>4
  <2> QED BY <1>1, <1>7, <2>1 DEF StudyInv, StudyTypeOK, DecisionInv
<1>9. RowsStay
  BY <1>1 DEF RowsStay
<1>10. \A d \in CommandIds : <<d, "successor">> # Itself(c) /\ (d # c => Itself(d) # Itself(c))
  BY DEF Itself
<1>11. AmendmentsPlaced' /\ SuccessorsPlaced'
  BY <1>1, <1>6, <1>9, <1>10, StudyRowTypes, AmendmentsStay, SuccessorsStay
<1>12. ProtocolsLabelled' /\ AdoptedPlaced' /\ RecordingPlaced'
  BY <1>1 DEF StudyInv, ProtocolsLabelled, AdoptedPlaced, RecordingPlaced
<1>13. OneInForce'
  BY <1>1 DEF StudyInv, OneInForce, IsInForce
<1>14. \A d \in CommandIds : /\ studyOps'[Itself(d)] # Nothing <=> studyOps[Itself(d)] # Nothing
                             /\ studyOps'[Itself(d)] # Nothing
                                => /\ studyOps'[Itself(d)].payload = studyOps[Itself(d)].payload
                                   /\ d = c \/ studyOps'[Itself(d)] = studyOps[Itself(d)]
  BY <1>2, <1>4, <1>5, <1>6, <1>10, StudyRowTypes
<1>15. OpsPlaced'
  <2>1. \A d \in CommandIds : Itself(d)' = Itself(d)
    BY DEF Itself
  <2> QED BY <1>1, <1>14, <2>1 DEF StudyInv, OpsPlaced
<1>16. ChangeIsNoted'
  <2> SUFFICES ASSUME NEW d \in CommandIds, studyOps'[Itself(d)] # Nothing,
                      studyOps'[Itself(d)].status = "complete",
                      studyOps'[Itself(d)].payload.kind \in {"amendment", "deviation"}
               PROVE  ToReview(studyOps'[Itself(d)].payload) \subseteq impacts
    BY <1>1 DEF ChangeIsNoted, ToReview, Itself, allDecisionVars, branchVars
  <2>1. CASE d = c
    BY <1>1, <1>4, <1>6, <2>1
  <2>2. CASE d # c
    BY <1>14, <2>2 DEF StudyInv, ChangeIsNoted
  <2> QED BY <2>1, <2>2
<1> QED BY <1>7, <1>8, <1>11, <1>12, <1>13, <1>15, <1>16 DEF StudyInv

\* A report keeps everything.
LEMMA AddReportKeeps ==
  ASSUME StudyInv, NEW c \in CommandIds, NEW report \in Reports, AddReport(c, report) PROVE StudyInv'
<1> DEFINE op == [payload |-> report, status |-> "complete"]
<1>1. /\ recording = Nothing /\ studyOps[Itself(c)] = Nothing
      /\ reports' = [reports EXCEPT ![c] = report]
      /\ studyOps' = [studyOps EXCEPT ![Itself(c)] = op]
      /\ UNCHANGED <<allDecisionVars, labels, protocols, amendments, deviations, recording>>
  BY DEF AddReport, AddOp
<1>2. op \in StudyRows /\ op # Nothing /\ report # Nothing /\ op.payload = report
  BY NullStudyAssumption DEF StudyRows, StudyPayloads
<1>3. report.kind \notin {"protocol", "amendment", "deviation", "bind-protocol"}
  BY DEF Reports
<1>4. /\ studyOps \in [StudyCommands -> StudyRows \cup {Nothing}] /\ Itself(c) \in StudyCommands
      /\ reports \in [CommandIds -> Reports \cup {Nothing}]
  BY StudyRowTypes DEF StudyInv, StudyTypeOK
<1> HIDE DEF op
<1>5. /\ studyOps'[Itself(c)] = op /\ \A d \in StudyCommands : d # Itself(c) => studyOps'[d] = studyOps[d]
      /\ reports'[c] = report /\ \A d \in CommandIds : d # c => reports'[d] = reports[d]
  BY <1>1, <1>4
<1>6. DecisionInv'
  BY <1>1, DecisionStutters DEF StudyInv
<1>7. StudyTypeOK'
  <2>1. studyOps' \in [StudyCommands -> StudyRows \cup {Nothing}]
    BY <1>1, <1>2, <1>4
  <2>2. reports' \in [CommandIds -> Reports \cup {Nothing}]
    BY <1>1, <1>4
  <2> QED BY <1>1, <1>6, <2>1, <2>2 DEF StudyInv, StudyTypeOK, DecisionInv
<1>8. RowsStay
  BY <1>1 DEF RowsStay
<1>9. \A d \in CommandIds : <<d, "successor">> # Itself(c) /\ (d # c => Itself(d) # Itself(c))
  BY DEF Itself
<1>10. AmendmentsPlaced' /\ SuccessorsPlaced'
  BY <1>1, <1>5, <1>8, <1>9, StudyRowTypes, AmendmentsStay, SuccessorsStay
<1>11. ProtocolsLabelled' /\ AdoptedPlaced' /\ RecordingPlaced'
  BY <1>1 DEF StudyInv, ProtocolsLabelled, AdoptedPlaced, RecordingPlaced
<1>12. OneInForce'
  BY <1>1 DEF StudyInv, OneInForce, IsInForce
<1>13. \A d \in CommandIds : d # c => studyOps'[Itself(d)] = studyOps[Itself(d)]
  BY <1>5, <1>9, StudyRowTypes
<1>14. OpsPlaced'
  <2> SUFFICES ASSUME NEW d \in CommandIds, studyOps'[Itself(d)] # Nothing
               PROVE  LET o == studyOps'[Itself(d)]
                          kind == o.payload.kind
                      IN  /\ kind = "protocol" => o.payload.to \in Protocols /\ protocols'[o.payload.to] # Nothing
                          /\ kind = "amendment" => amendments'[d] # Nothing
                          /\ kind = "deviation" => deviations'[d] # Nothing
                          /\ kind = "bind-protocol"
                             => /\ o.payload.protocol \in Protocols /\ protocols'[o.payload.protocol] # Nothing
                                /\ protocols'[o.payload.protocol].status # "candidate"
                          /\ kind \notin {"protocol", "amendment", "deviation", "bind-protocol"} => reports'[d] # Nothing
    BY DEF OpsPlaced, Itself
  <2>1. CASE d = c
    BY <1>2, <1>3, <1>5, <2>1
  <2>2. CASE d # c
    <3>1. studyOps'[Itself(d)] = studyOps[Itself(d)] /\ reports'[d] = reports[d]
      BY <1>5, <1>13, <2>2
    <3> QED BY <1>1, <3>1 DEF StudyInv, OpsPlaced
  <2> QED BY <2>1, <2>2
<1>15. ChangeIsNoted'
  <2> SUFFICES ASSUME NEW d \in CommandIds, studyOps'[Itself(d)] # Nothing,
                      studyOps'[Itself(d)].status = "complete",
                      studyOps'[Itself(d)].payload.kind \in {"amendment", "deviation"}
               PROVE  ToReview(studyOps'[Itself(d)].payload) \subseteq impacts
    BY <1>1 DEF ChangeIsNoted, ToReview, Itself, allDecisionVars, branchVars
  <2>1. d # c
    BY <1>2, <1>3, <1>5
  <2> QED BY <1>13, <2>1 DEF StudyInv, ChangeIsNoted
<1> QED BY <1>6, <1>7, <1>10, <1>11, <1>12, <1>14, <1>15 DEF StudyInv

\* Bringing a protocol into force keeps everything.
LEMMA BindKeeps ==
  ASSUME StudyInv, NEW c \in CommandIds, NEW p \in Protocols, NEW i, BindProtocolInForce(c, p, i),
         i \in 1 .. MaxDecisions
  PROVE  StudyInv'
<1>0. PICK b : b = protocols[p].branch
  OBVIOUS
<1> DEFINE payload == [kind |-> "bind-protocol", protocol |-> p, commitment |-> i]
           op == [payload |-> payload, status |-> "complete"]
           sources == {amendments[d].from : d \in {x \in CommandIds :
                         amendments[x] # Nothing /\ amendments[x].to = p}}
           Bound(q) == IF q = p THEN [protocols[q] EXCEPT !.status = "in-force"]
                       ELSE IF IsInForce(q) /\ protocols[q].branch = b
                            THEN [protocols[q] EXCEPT !.status = "superseded"] ELSE protocols[q]
           Settled(d) == IF amendments[d] = Nothing \/ amendments[d].status # "proposed" THEN amendments[d]
                         ELSE IF amendments[d].to = p THEN [amendments[d] EXCEPT !.status = "adopted"]
                         ELSE IF amendments[d].from \in sources THEN [amendments[d] EXCEPT !.status = "superseded"]
                         ELSE amendments[d]
<1>1. /\ recording = Nothing /\ studyOps[Itself(c)] = Nothing
      /\ protocols' = [q \in Protocols |-> Bound(q)]
      /\ amendments' = [d \in CommandIds |-> Settled(d)]
      /\ studyOps' = [studyOps EXCEPT ![Itself(c)] = op]
      /\ UNCHANGED <<allDecisionVars, labels, deviations, reports, recording>>
  BY <1>0, Zenon DEF BindProtocolInForce, AddOp
<1>2. protocols[p] # Nothing /\ protocols[p].status # "superseded"
  BY DEF BindProtocolInForce, Bindable
<1>3. op \in StudyRows /\ op.payload = payload /\ payload.protocol = p /\ payload.kind = "bind-protocol"
  BY <1>1 DEF StudyRows, StudyPayloads, BindProtocolInForce, Bindable, StudyInv, StudyTypeOK, DecisionTypeOK
<1>4. op # Nothing
  BY <1>3, NullStudyAssumption
<1>5. /\ studyOps \in [StudyCommands -> StudyRows \cup {Nothing}] /\ Itself(c) \in StudyCommands
      /\ protocols \in [Protocols -> ProtocolRows \cup {Nothing}]
      /\ amendments \in [CommandIds -> AmendmentRows \cup {Nothing}]
  BY StudyRowTypes DEF StudyInv, StudyTypeOK
<1>6. /\ protocols'[p] = [protocols[p] EXCEPT !.status = "in-force"]
      /\ \A q \in Protocols : q # p /\ IsInForce(q) /\ protocols[q].branch = b
                              => protocols'[q] = [protocols[q] EXCEPT !.status = "superseded"]
      /\ \A q \in Protocols : q # p /\ ~(IsInForce(q) /\ protocols[q].branch = b)
                              => protocols'[q] = protocols[q]
  BY <1>1
<1>7. \A q \in Protocols : protocols[q] # Nothing =>
        /\ [protocols[q] EXCEPT !.status = "in-force"] \in ProtocolRows
        /\ [protocols[q] EXCEPT !.status = "superseded"] \in ProtocolRows
        /\ [protocols[q] EXCEPT !.status = "in-force"].status = "in-force"
        /\ [protocols[q] EXCEPT !.status = "superseded"].status = "superseded"
        /\ [protocols[q] EXCEPT !.status = "in-force"].branch = protocols[q].branch
        /\ [protocols[q] EXCEPT !.status = "superseded"].branch = protocols[q].branch
  BY StudyRowTypes DEF ProtocolRows
<1>8. /\ protocols'[p] \in ProtocolRows /\ protocols'[p].status = "in-force" /\ protocols'[p].branch = b
      /\ \A q \in Protocols : q # p /\ IsInForce(q) /\ protocols[q].branch = b
           => protocols'[q] \in ProtocolRows /\ protocols'[q].status = "superseded" /\ protocols'[q].branch = b
  <2>1. protocols'[p] \in ProtocolRows /\ protocols'[p].status = "in-force" /\ protocols'[p].branch = b
    BY <1>0, <1>2, <1>6, <1>7
  <2>2. ASSUME NEW q \in Protocols, q # p, IsInForce(q), protocols[q].branch = b
        PROVE  protocols'[q] \in ProtocolRows /\ protocols'[q].status = "superseded" /\ protocols'[q].branch = b
    <3>1. protocols'[q] = [protocols[q] EXCEPT !.status = "superseded"] /\ protocols[q] # Nothing
      BY <1>6, <2>2 DEF IsInForce
    <3> QED BY <1>7, <2>2, <3>1
  <2> QED BY <2>1, <2>2
<1>9. \A d \in CommandIds :
        /\ amendments[d] = Nothing \/ amendments[d].status # "proposed" => amendments'[d] = amendments[d]
        /\ amendments[d] # Nothing /\ amendments[d].status = "proposed" /\ amendments[d].to = p
           => amendments'[d] = [amendments[d] EXCEPT !.status = "adopted"]
        /\ amendments[d] # Nothing /\ amendments[d].status = "proposed" /\ amendments[d].to # p
           /\ amendments[d].from \in sources
           => amendments'[d] = [amendments[d] EXCEPT !.status = "superseded"]
        /\ amendments[d] # Nothing /\ amendments[d].status = "proposed" /\ amendments[d].to # p
           /\ amendments[d].from \notin sources
           => amendments'[d] = amendments[d]
  BY <1>1
<1>10. \A d \in CommandIds : amendments[d] # Nothing =>
         /\ amendments[d] \in AmendmentRows
         /\ [amendments[d] EXCEPT !.status = "adopted"] \in AmendmentRows
         /\ [amendments[d] EXCEPT !.status = "superseded"] \in AmendmentRows
         /\ [amendments[d] EXCEPT !.status = "adopted"].status = "adopted"
         /\ [amendments[d] EXCEPT !.status = "superseded"].status = "superseded"
         /\ [amendments[d] EXCEPT !.status = "adopted"].from = amendments[d].from
         /\ [amendments[d] EXCEPT !.status = "superseded"].from = amendments[d].from
         /\ [amendments[d] EXCEPT !.status = "adopted"].to = amendments[d].to
         /\ [amendments[d] EXCEPT !.status = "superseded"].to = amendments[d].to
  BY StudyRowTypes DEF AmendmentRows
<1>11. \A d \in CommandIds : \A a \in AmendmentRows : a # Nothing
  BY NullStudyAssumption
<1> HIDE DEF payload, op, Bound, Settled
\* What became of each amendment.
<1>12. \A d \in CommandIds :
         /\ amendments'[d] # Nothing <=> amendments[d] # Nothing
         /\ amendments[d] # Nothing =>
              /\ amendments'[d] \in AmendmentRows
              /\ amendments'[d].from = amendments[d].from /\ amendments'[d].to = amendments[d].to
              /\ amendments'[d].status = "proposed" => amendments[d].status = "proposed" /\ amendments[d].from \notin sources
              /\ amendments'[d].status = "adopted" => amendments[d].status = "adopted" \/ amendments[d].to = p
  <2> SUFFICES ASSUME NEW d \in CommandIds
               PROVE  /\ amendments'[d] # Nothing <=> amendments[d] # Nothing
                      /\ amendments[d] # Nothing =>
                           /\ amendments'[d] \in AmendmentRows
                           /\ amendments'[d].from = amendments[d].from /\ amendments'[d].to = amendments[d].to
                           /\ amendments'[d].status = "proposed"
                              => amendments[d].status = "proposed" /\ amendments[d].from \notin sources
                           /\ amendments'[d].status = "adopted"
                              => amendments[d].status = "adopted" \/ amendments[d].to = p
    OBVIOUS
  <2> HIDE DEF sources
  <2>1. CASE amendments[d] = Nothing \/ amendments[d].status # "proposed"
    BY <1>9, <1>10, <2>1
  <2>2. CASE amendments[d] # Nothing /\ amendments[d].status = "proposed" /\ amendments[d].to = p
    BY <1>9, <1>10, <1>11, <2>2
  <2>3. CASE amendments[d] # Nothing /\ amendments[d].status = "proposed" /\ amendments[d].to # p
    BY <1>9, <1>10, <1>11, <2>3
  <2> QED BY <2>1, <2>2, <2>3
<1>13. \A d \in CommandIds : amendments[d] # Nothing =>
         /\ amendments[d].from \in Protocols /\ amendments[d].to \in Protocols
         /\ \E x \in BranchNames : Amends(amendments[d].from, amendments[d].to, x)
  BY StudyRowTypes DEF AmendmentRows, StudyInv, AmendmentsPlaced
<1>14. RowsStay
  <2> SUFFICES ASSUME NEW q \in Protocols, protocols[q] # Nothing
               PROVE  /\ protocols'[q] # Nothing /\ protocols'[q].branch = protocols[q].branch
                      /\ protocols[q].status # "candidate" => protocols'[q].status # "candidate"
    BY DEF RowsStay
  <2>1. CASE q = p
    BY <1>0, <1>8, <2>1, NullStudyAssumption
  <2>2. CASE q # p /\ IsInForce(q) /\ protocols[q].branch = b
    BY <1>8, <2>2, NullStudyAssumption
  <2>3. CASE q # p /\ ~(IsInForce(q) /\ protocols[q].branch = b)
    BY <1>6, <2>3
  <2> QED BY <2>1, <2>2, <2>3
<1>15. DecisionInv'
  BY <1>1, DecisionStutters DEF StudyInv
<1>16. StudyTypeOK'
  <2>1. studyOps' \in [StudyCommands -> StudyRows \cup {Nothing}]
    BY <1>1, <1>3, <1>5
  <2>2. protocols' \in [Protocols -> ProtocolRows \cup {Nothing}]
    <3>1. \A q \in Protocols : protocols'[q] \in ProtocolRows \cup {Nothing}
      BY <1>5, <1>6, <1>8
    <3>2. protocols' = [q \in Protocols |-> protocols'[q]]
      BY <1>1
    <3> QED BY <3>1, <3>2
  <2>3. amendments' \in [CommandIds -> AmendmentRows \cup {Nothing}]
    <3>1. \A d \in CommandIds : amendments'[d] \in AmendmentRows \cup {Nothing}
      BY <1>12
    <3>2. amendments' = [d \in CommandIds |-> amendments'[d]]
      BY <1>1
    <3> QED BY <3>1, <3>2
  <2> QED BY <1>1, <1>15, <2>1, <2>2, <2>3 DEF StudyInv, StudyTypeOK, DecisionInv
<1>17. ProtocolsLabelled'
  <2>1. \A q \in Protocols : protocols'[q] # Nothing => protocols[q] # Nothing
    BY <1>2, <1>6 DEF IsInForce
  <2> QED BY <1>1, <2>1 DEF StudyInv, ProtocolsLabelled
<1>18. AmendmentsPlaced'
  <2> SUFFICES ASSUME NEW d \in CommandIds, amendments'[d] # Nothing
               PROVE  \E x \in BranchNames : \A from, to : from = amendments'[d].from /\ to = amendments'[d].to
                                                          => Amends(from, to, x)'
    BY DEF AmendmentsPlaced, Amends
  <2>1. PICK from \in Protocols, to \in Protocols, x \in BranchNames :
          from = amendments[d].from /\ to = amendments[d].to /\ Amends(from, to, x)
    BY <1>12, <1>13
  <2>2. Amends(from, to, x)'
    BY <1>14, <2>1, AmendsStay
  <2>3. amendments'[d].from = from /\ amendments'[d].to = to
    BY <1>12, <2>1
  <2> QED BY <2>2, <2>3
<1>19. \A d \in CommandIds : <<d, "successor">> # Itself(c) /\ (d # c => Itself(d) # Itself(c))
  BY DEF Itself
<1>20. studyOps'[Itself(c)] = op /\ \A d \in StudyCommands : d # Itself(c) => studyOps'[d] = studyOps[d]
  BY <1>1, <1>5
<1>21. SuccessorsPlaced'
  BY <1>14, <1>19, <1>20, StudyRowTypes, SuccessorsStay
<1>22. RecordingPlaced'
  BY <1>1 DEF RecordingPlaced
<1>23. \A d \in CommandIds : d # c => studyOps'[Itself(d)] = studyOps[Itself(d)]
  BY <1>19, <1>20, StudyRowTypes
<1>24. OpsPlaced'
  <2> SUFFICES ASSUME NEW d \in CommandIds, studyOps'[Itself(d)] # Nothing
               PROVE  LET o == studyOps'[Itself(d)]
                          kind == o.payload.kind
                      IN  /\ kind = "protocol" => o.payload.to \in Protocols /\ protocols'[o.payload.to] # Nothing
                          /\ kind = "amendment" => amendments'[d] # Nothing
                          /\ kind = "deviation" => deviations'[d] # Nothing
                          /\ kind = "bind-protocol"
                             => /\ o.payload.protocol \in Protocols /\ protocols'[o.payload.protocol] # Nothing
                                /\ protocols'[o.payload.protocol].status # "candidate"
                          /\ kind \notin {"protocol", "amendment", "deviation", "bind-protocol"} => reports'[d] # Nothing
    BY DEF OpsPlaced, Itself
  <2>1. CASE d = c
    BY <1>3, <1>8, <1>20, <2>1, NullStudyAssumption
  <2>2. CASE d # c
    <3>1. studyOps'[Itself(d)] = studyOps[Itself(d)]
      BY <1>23, <2>2
    <3> QED BY <1>1, <1>12, <1>14, <3>1 DEF StudyInv, OpsPlaced, RowsStay
  <2> QED BY <2>1, <2>2
<1>25. ChangeIsNoted'
  <2> SUFFICES ASSUME NEW d \in CommandIds, studyOps'[Itself(d)] # Nothing,
                      studyOps'[Itself(d)].status = "complete",
                      studyOps'[Itself(d)].payload.kind \in {"amendment", "deviation"}
               PROVE  ToReview(studyOps'[Itself(d)].payload) \subseteq impacts
    BY <1>1 DEF ChangeIsNoted, ToReview, Itself, allDecisionVars, branchVars
  <2>1. d # c
    BY <1>3, <1>20
  <2> QED BY <1>23, <2>1 DEF StudyInv, ChangeIsNoted
<1>26. OneInForce'
  <2> SUFFICES ASSUME NEW q1 \in Protocols, NEW q2 \in Protocols,
                      IsInForce(q1)', IsInForce(q2)', protocols'[q1].branch = protocols'[q2].branch
               PROVE  q1 = q2
    BY DEF OneInForce
  <2>1. ASSUME NEW q \in Protocols, IsInForce(q)', q # p
        PROVE  IsInForce(q) /\ protocols'[q] = protocols[q] /\ protocols[q].branch # b
    <3>1. protocols'[q].status = "in-force"
      BY <2>1 DEF IsInForce
    <3>2. ~(IsInForce(q) /\ protocols[q].branch = b)
      BY <1>8, <2>1, <3>1
    <3>3. protocols'[q] = protocols[q]
      BY <1>6, <2>1, <3>2
    <3>4. IsInForce(q)
      BY <2>1, <3>3 DEF IsInForce
    <3> QED BY <3>2, <3>3, <3>4
  <2>2. CASE q1 = p \/ q2 = p
    BY <1>8, <2>1, <2>2
  <2>3. CASE q1 # p /\ q2 # p
    BY <2>1, <2>3 DEF StudyInv, OneInForce
  <2> QED BY <2>2, <2>3
<1>27. AdoptedPlaced'
  <2> SUFFICES ASSUME NEW d \in CommandIds, amendments'[d] # Nothing, amendments'[d].status = "adopted"
               PROVE  /\ protocols'[amendments[d].from].status = "superseded"
                      /\ protocols'[amendments[d].to].status # "candidate"
                      /\ \A e \in CommandIds :
                           amendments[e] # Nothing /\ amendments[e].from = amendments[d].from
                           => amendments'[e].status # "proposed"
    BY <1>12 DEF AdoptedPlaced
  <2>1. PICK from, to : from = amendments[d].from /\ to = amendments[d].to
    OBVIOUS
  <2>2. from \in Protocols /\ to \in Protocols /\ \E x \in BranchNames : Amends(from, to, x)
    BY <1>12, <1>13, <2>1
  <2>3. CASE amendments[d].status = "adopted"
    <3>1. /\ protocols[from].status = "superseded" /\ protocols[to].status # "candidate"
          /\ \A e \in CommandIds : amendments[e] # Nothing /\ amendments[e].from = from
                                   => amendments[e].status # "proposed"
      BY <1>12, <2>1, <2>3 DEF StudyInv, AdoptedPlaced
    <3>2. protocols'[from] = protocols[from]
      BY <1>2, <1>6, <2>2, <3>1 DEF IsInForce
    <3>3. protocols'[to].status # "candidate"
      BY <1>14, <2>2, <3>1 DEF RowsStay, Amends
    <3> QED BY <1>12, <2>1, <3>1, <3>2, <3>3
  <2>4. CASE amendments[d].to = p
    <3>1. from # p /\ protocols[from] # Nothing /\ protocols[from].branch = b /\ protocols[from].status # "candidate"
      BY <1>0, <2>1, <2>2, <2>4 DEF Amends
    <3>2. protocols'[from].status = "superseded"
      <4>1. CASE IsInForce(from)
        BY <1>8, <2>2, <3>1, <4>1
      <4>2. CASE ~IsInForce(from)
        <5>1. protocols[from] \in ProtocolRows
          BY <2>2, <3>1, StudyRowTypes
        <5>2. protocols[from].status = "superseded"
          BY <3>1, <4>2, <5>1 DEF IsInForce, ProtocolRows
        <5> QED BY <1>6, <2>2, <3>1, <4>2, <5>2
      <4> QED BY <4>1, <4>2
    <3>3. from \in sources
      BY <1>12, <2>1, <2>4
    <3> HIDE DEF sources
    <3>4. \A e \in CommandIds : amendments[e] # Nothing /\ amendments[e].from = from
                               => amendments'[e].status # "proposed"
      BY <1>12, <3>3
    <3> QED BY <1>8, <2>1, <2>4, <3>2, <3>4
  <2> QED BY <1>12, <2>3, <2>4
<1> QED BY <1>15, <1>16, <1>17, <1>18, <1>21, <1>22, <1>24, <1>25, <1>26, <1>27 DEF StudyInv

\* Every step of the study, and of what surrounds it, keeps the invariant.
LEMMA StudyStepKeeps == ASSUME StudyInv, StudyNext PROVE StudyInv'
<1>1. CASE StudySteps
  <2>1. ASSUME NEW c \in CommandIds, NEW p \in Protocols,
               RecordProgress(c, p) \/ RecordReportedExecution(c, p) \/ RecordReportedPriorCommitment(c, p)
        PROVE  StudyInv'
    <3>1. \A kind \in {"progress", "reported-execution", "reported-prior-commitment"} :
            Report(kind, p, Nothing) \in Reports
      BY DEF Report, Reports
    <3> QED BY <2>1, <3>1, AddReportKeeps
            DEF RecordProgress, RecordReportedExecution, RecordReportedPriorCommitment
  <2>2. ASSUME NEW c \in CommandIds, NEW d \in CommandIds, RecordProgressCorrection(c, d)
        PROVE  StudyInv'
    <3>1. reports[d] \in Reports /\ reports[d].kind \in {"progress", "progress-correction"}
      BY <2>2 DEF RecordProgressCorrection, StudyInv, StudyTypeOK
    <3>2. reports[d].of \in Protocols
      BY <3>1 DEF Reports
    <3>3. Report("progress-correction", reports[d].of, d) \in Reports
      BY <3>2 DEF Report, Reports
    <3> QED BY <2>2, <3>3, AddReportKeeps DEF RecordProgressCorrection
  <2>3. ASSUME NEW c \in CommandIds, IngestProgressCandidate(c) PROVE StudyInv'
    <3>1. Report("candidate", Nothing, Nothing) \in Reports
      BY DEF Report, Reports
    <3> QED BY <2>3, <3>1, AddReportKeeps DEF IngestProgressCandidate
  <2> QED BY <1>1, <2>1, <2>2, <2>3, RecordProtocolVersionKeeps, RecordAmendmentKeeps, RecordDeviationKeeps,
             BindKeeps, RegisterKeeps, InsertProtocolKeeps, FailKeeps, InsertChangeKeeps, WriteImpactKeeps,
             CompleteKeeps, StudyCrashKeeps DEF StudySteps
<1>2. CASE recording = Nothing /\ DecisionNext /\ UNCHANGED studyVars
  BY <1>2, DecisionStepKeeps, ImpactsGrow, OthersKeep DEF StudyInv
<1> QED BY <1>1, <1>2 DEF StudyNext

LEMMA StudyInitially == StudyInit => StudyInv
<1> SUFFICES ASSUME StudyInit PROVE StudyInv
  OBVIOUS
<1>1. DecisionInv
  BY DecisionInitially DEF StudyInit
<1>2. StudyTypeOK
  BY <1>1 DEF StudyInit, StudyTypeOK, DecisionInv
<1>3. \A c \in CommandIds : studyOps[Itself(c)] = Nothing /\ studyOps[<<c, "successor">>] = Nothing
  BY DEF StudyInit, StudyCommands, Itself
<1>4. ProtocolsLabelled /\ AmendmentsPlaced /\ SuccessorsPlaced /\ RecordingPlaced /\ OpsPlaced
  BY <1>3 DEF StudyInit, ProtocolsLabelled, AmendmentsPlaced, SuccessorsPlaced, RecordingPlaced, OpsPlaced
<1>5. OneInForce /\ AdoptedPlaced /\ ChangeIsNoted
  BY <1>3 DEF StudyInit, OneInForce, IsInForce, AdoptedPlaced, ChangeIsNoted
<1> QED BY <1>1, <1>2, <1>4, <1>5 DEF StudyInv

LEMMA StudyInvariant == StudySpec => []StudyInv
<1>1. StudyInv /\ [StudyNext]_allStudyVars => StudyInv'
  <2>1. ASSUME StudyInv, UNCHANGED allStudyVars PROVE StudyInv'
    <3>1. UNCHANGED allDecisionVars /\ UNCHANGED studyVars
      BY <2>1 DEF allStudyVars
    <3>2. impacts \subseteq impacts'
      BY <3>1 DEF allDecisionVars, branchVars
    <3> QED BY <2>1, <3>1, <3>2, DecisionStutters, OthersKeep DEF StudyInv
  <2> QED BY <2>1, StudyStepKeeps
<1> QED BY <1>1, StudyInitially, PTL DEF StudySpec

\* What the invariant says of protocols, amendments and operations.
LEMMA ProtocolsFollow == ASSUME StudyInv PROVE ProtocolsHold
<1>1. AdoptedReplaces
  <2> SUFFICES ASSUME NEW c \in CommandIds, amendments[c] # Nothing, amendments[c].status = "adopted"
               PROVE  Currency(amendments[c].from) = "superseded"
    BY DEF AdoptedReplaces, StudyInv, AdoptedPlaced
  <2>1. protocols[amendments[c].from].status = "superseded"
    BY DEF StudyInv, AdoptedPlaced
  <2> QED BY <2>1 DEF Currency, IsInForce
<1>2. OperationsHaveRows
  <2> SUFFICES ASSUME NEW c \in CommandIds, studyOps[Itself(c)] # Nothing
               PROVE  LET op == studyOps[Itself(c)]
                      IN  CASE op.payload.kind = "protocol" -> protocols[op.payload.to] # Nothing
                            [] op.payload.kind = "amendment" -> amendments[c] # Nothing /\ protocols[amendments[c].to] # Nothing
                            [] op.payload.kind = "deviation" -> deviations[c] # Nothing
                            [] op.payload.kind = "bind-protocol" -> protocols[op.payload.protocol].status # "candidate"
                            [] OTHER -> reports[c] # Nothing
    BY DEF OperationsHaveRows
  <2>1. amendments[c] # Nothing => protocols[amendments[c].to] # Nothing
    BY DEF StudyInv, AmendmentsPlaced, Amends
  <2> QED BY <2>1 DEF StudyInv, OpsPlaced
<1> QED BY <1>1, <1>2 DEF ProtocolsHold, StudyInv

\* The study's records keep their types.
THEOREM StudyTypes == StudySpec => []StudyTypeOK
<1>1. StudyInv => StudyTypeOK
  BY DEF StudyInv
<1> QED BY <1>1, StudyInvariant, PTL

\* One protocol is in force on a branch, an adopted amendment replaces for good, a
\* change that was told recorded has its impacts, and every operation its row, through
\* any crashes, failed writes and retries of src/progress/protocol-store.ts.
THEOREM ProtocolsAreKept == StudySpec => []ProtocolsHold
<1> QED BY ProtocolsFollow, StudyInvariant, PTL

\* Beside the steps of a study, too, replaced sources are noted and approvals are of
\* what was reviewed.
THEOREM StudyDecisions == StudySpec => [](ReplacedSourceIsNoted /\ ApprovedIsReviewed)
<1>1. StudyInv => ReplacedSourceIsNoted /\ ApprovedIsReviewed
  BY ReviewedFollows DEF StudyInv, DecisionInv, BranchInv
<1> QED BY <1>1, StudyInvariant, PTL
=============================================================================
