----------------------------- MODULE StoreProofs -----------------------------
(***************************************************************************)
(* Proofs about the project's directory, for any processes, operations and  *)
(* bounds: projects are opened, inspected and founded beside each other, and  *)
(* while nothing is under way beside a replacement or a materialization       *)
(* (SwapsAlone) the store keeps its types, is atomic through any deaths, has   *)
(* one writer, and is not kept locked.  What breaks without that hypothesis    *)
(* MCOpenDuringReplace shows.                                                *)
(***************************************************************************)
EXTENDS ProjectStore, FiniteSetTheorems, TLAPS

-----------------------------------------------------------------------------
\* Types and counts, whatever runs beside what

\* The steps at which an operation holds the write lock.
OwnSteps == {"swapAgain", "database", "insert", "inspect", "stage", "move", "publish", "clean", "files"}

\* What a process has entered the write lock for: its handles, and its operation.
Entries(p) == Cardinality(handles[p]) + (IF task[p].own THEN 1 ELSE 0)

\* A process counts no less than it has entered for.
Counts(p) ==
  /\ IsFiniteSet(handles[p]) /\ Entries(p) <= count[p]
  /\ task[p].step \in OwnSteps => task[p].own
  /\ task[p].step \notin OwnSteps \cup {"mend", "sweep"} => ~task[p].own
Counted == \A p \in Procs : Counts(p)

CountInv == StoreTypeOK /\ Counted

LEMMA EntriesType ==
  ASSUME CountInv, NEW p \in Procs
  PROVE  /\ Cardinality(handles[p]) \in Nat /\ Entries(p) \in Nat
         /\ Entries(p) = Cardinality(handles[p]) + (IF task[p].own THEN 1 ELSE 0)
         /\ count[p] \in Nat /\ Entries(p) <= count[p]
         /\ task[p].own => count[p] >= 1
<1>1. Cardinality(handles[p]) \in Nat
  BY FS_CardinalityType DEF CountInv, Counted, Counts
<1> QED BY <1>1 DEF CountInv, Counted, Counts, Entries, StoreTypeOK

\* A process that is at a step of an operation is in one.
LEMMA AtType ==
  ASSUME StoreTypeOK, NEW p \in Procs, NEW op, NEW step, step # "idle", At(p, op, step)
  PROVE  task[p] \in Tasks /\ task[p] # Idle /\ task[p].step = step /\ alive[p]
BY DEF StoreTypeOK, At, Idle

LEMMA GotoType ==
  ASSUME StoreTypeOK, NEW p \in Procs, task[p] \in Tasks, NEW step \in Steps, Goto(p, step)
  PROVE  /\ task' \in [Procs -> Tasks \cup {Idle}]
         /\ task'[p] = [op |-> task[p].op, step |-> step, own |-> task[p].own]
         /\ task'[p].step = step /\ task'[p].op = task[p].op /\ task'[p].own = task[p].own
         /\ \A q \in Procs \ {p} : task'[q] = task[q]
<1>1. [task[p] EXCEPT !.step = step] = [op |-> task[p].op, step |-> step, own |-> task[p].own]
  BY DEF Tasks
<1>2. [op |-> task[p].op, step |-> step, own |-> task[p].own] \in Tasks
  BY DEF Tasks
<1>3. task' = [task EXCEPT ![p] = [op |-> task[p].op, step |-> step, own |-> task[p].own]]
  BY <1>1 DEF Goto
<1> QED BY <1>2, <1>3 DEF StoreTypeOK

LEMMA DoneType ==
  ASSUME StoreTypeOK, NEW p \in Procs, Done(p)
  PROVE  /\ task' \in [Procs -> Tasks \cup {Idle}] /\ task'[p] = Idle
         /\ task'[p].step = "idle" /\ task'[p].op = "none" /\ task'[p].own = FALSE
         /\ \A q \in Procs \ {p} : task'[q] = task[q]
BY DEF StoreTypeOK, Done, Idle

LEMMA AfterLockType ==
  ASSUME StoreTypeOK, NEW p \in Procs, task[p] \in Tasks, AfterLock(p)
  PROVE  /\ task' \in [Procs -> Tasks \cup {Idle}]
         /\ task'[p].step = (IF task[p].op = "replace" THEN "swapAgain" ELSE "database")
         /\ task'[p].own = TRUE /\ task'[p].op = task[p].op
         /\ \A q \in Procs \ {p} : task'[q] = task[q]
<1> DEFINE new == [op |-> task[p].op, step |-> IF task[p].op = "replace" THEN "swapAgain" ELSE "database",
                   own |-> TRUE]
<1>1. new \in Tasks
  BY DEF Tasks, Steps
<1>2. task'[p] = new /\ (\A q \in Procs \ {p} : task'[q] = task[q]) /\ DOMAIN task' = Procs
      /\ task' = [q \in Procs |-> task'[q]]
  BY DEF AfterLock, StoreTypeOK, Tasks
<1>3. \A q \in Procs : task'[q] \in Tasks \cup {Idle}
  BY <1>1, <1>2 DEF StoreTypeOK
<1> QED BY <1>1, <1>2, <1>3

\* What is left in a lock by a release.
LEMMA ReleaseType ==
  ASSUME NEW p \in Procs, NEW store \in Stores
  PROVE  /\ AfterRelease(p, store) \in Stores
         /\ AfterRelease(p, store).id = store.id /\ AfterRelease(p, store).gen = store.gen
         /\ AfterRelease(p, store).whole = store.whole
         /\ AfterRelease(p, store).lock = IF count[p] = 1 /\ store.lock = p THEN NoProc ELSE store.lock
BY DEF AfterRelease, Stores

\* The directories that operations make.
LEMMA MadeType ==
  /\ Absent \in Stores /\ EmptyDirectory \in Stores
  /\ StoreTypeOK => \A p \in Procs \cup {NoProc} : [live EXCEPT !.lock = p] \in Stores
BY DEF Absent, EmptyDirectory, Stores, StoreTypeOK

\* A step of one process leaves what the others count.
LEMMA OneCounts ==
  ASSUME Counted, NEW p \in Procs, Counts(p)',
         \A q \in Procs \ {p} : task'[q] = task[q] /\ count'[q] = count[q] /\ handles'[q] = handles[q]
  PROVE  Counted'
BY DEF Counted, Counts, Entries

\* A step that enters nothing, gives nothing up and stays with or without the lock.
LEMMA SameCounts ==
  ASSUME CountInv, NEW p \in Procs, UNCHANGED <<count, handles>>,
         \A q \in Procs \ {p} : task'[q] = task[q],
         task'[p].own = task[p].own \/ ~task'[p].own,
         task'[p].step \in OwnSteps => task'[p].own,
         task'[p].step \notin OwnSteps \cup {"mend", "sweep"} => ~task'[p].own
  PROVE  Counted'
<1>1. Entries(p)' <= count'[p]
  BY EntriesType DEF Entries
<1>2. Counts(p)'
  BY <1>1 DEF Counts, CountInv, Counted
<1> QED BY <1>2, OneCounts DEF CountInv

\* The end of an operation that releases the lock.
LEMMA DoneCounts ==
  ASSUME CountInv, NEW p \in Procs, task[p].own, ReleaseCount(p), Done(p), UNCHANGED handles
  PROVE  count' \in [Procs -> Nat] /\ count'[p] = count[p] - 1 /\ Counted'
         /\ \A q \in Procs \ {p} : count'[q] = count[q]
<1>1. count \in [Procs -> Nat] /\ count[p] \in Nat /\ count[p] >= 1
  BY EntriesType DEF CountInv, StoreTypeOK
<1>2. count' \in [Procs -> Nat] /\ count'[p] = count[p] - 1 /\ \A q \in Procs \ {p} : count'[q] = count[q]
  BY <1>1 DEF ReleaseCount
<1>3. task'[p].step = "idle" /\ task'[p].own = FALSE /\ \A q \in Procs \ {p} : task'[q] = task[q]
  BY DoneType DEF CountInv
<1>4. Entries(p)' <= count'[p]
  BY <1>1, <1>2, <1>3, EntriesType DEF Entries
<1>5. Counts(p)'
  BY <1>3, <1>4 DEF Counts, CountInv, Counted, OwnSteps
<1> QED BY <1>2, <1>3, <1>5, OneCounts DEF CountInv

-----------------------------------------------------------------------------
\* No action makes a process count less than it has entered for

\* An operation is begun, with no lock.
LEMMA BeginCounts ==
  ASSUME CountInv, NEW p \in Procs, NEW op \in Operations, Begin(p, op)
  PROVE  CountInv'
<1> DEFINE first == IF op = "materialize" \/ (op = "replace" /\ live # Absent) THEN "mkdir" ELSE "swap"
           new == [op |-> op, step |-> first, own |-> FALSE]
<1>1. new \in Tasks
  BY DEF Tasks, Steps
<1>2. task' = [task EXCEPT ![p] = new]
  BY DEF Begin
<1>3. task' \in [Procs -> Tasks \cup {Idle}] /\ task'[p] = new /\ \A q \in Procs \ {p} : task'[q] = task[q]
  BY <1>1, <1>2 DEF CountInv, StoreTypeOK
<1>4. UNCHANGED <<disk, count, handles, alive, stores, refusals>>
  BY DEF Begin
<1>5. task'[p].own = FALSE /\ task'[p].step \in {"mkdir", "swap"}
  BY <1>3
<1>6. Counted'
  BY <1>3, <1>4, <1>5, SameCounts DEF OwnSteps
<1> QED BY <1>3, <1>4, <1>6 DEF CountInv, StoreTypeOK, disk

\* A live owner of the swap lock refuses.
LEMMA TakeSwapCounts ==
  ASSUME CountInv, NEW p \in Procs, TakeSwapLock(p) \/ TakeSwapLockToo(p)
  PROVE  CountInv'
<1>1. task[p] \in Tasks /\ task[p].step \in {"swap", "swapAgain"}
  BY AtType DEF CountInv, TakeSwapLock, TakeSwapLockToo
<1>2. UNCHANGED <<live, backups, staged, count, handles, alive, stores, refusals>>
      /\ swapLock' \in Procs \cup {NoProc}
      /\ (Goto(p, "mend") \/ Done(p))
  BY DEF TakeSwapLock, TakeSwapLockToo, CountInv, StoreTypeOK
<1>3. CASE Goto(p, "mend")
  <2>1. task' \in [Procs -> Tasks \cup {Idle}] /\ task'[p].step = "mend" /\ task'[p].own = task[p].own
        /\ \A q \in Procs \ {p} : task'[q] = task[q]
    BY <1>1, <1>3, GotoType DEF CountInv, Steps
  <2>2. Counted'
    BY <1>2, <2>1, SameCounts DEF OwnSteps
  <2> QED BY <1>2, <2>1, <2>2 DEF CountInv, StoreTypeOK
<1>4. CASE Done(p)
  <2>1. task' \in [Procs -> Tasks \cup {Idle}] /\ task'[p].step = "idle" /\ task'[p].own = FALSE
        /\ \A q \in Procs \ {p} : task'[q] = task[q]
    BY <1>4, DoneType DEF CountInv
  <2>2. Counted'
    BY <1>2, <2>1, SameCounts DEF OwnSteps
  <2> QED BY <1>2, <2>1, <2>2 DEF CountInv, StoreTypeOK
<1> QED BY <1>2, <1>3, <1>4

\* What was moved aside is moved back, or the operation is given up.
LEMMA MendCounts ==
  ASSUME CountInv, StoreAssumption, NEW p \in Procs, Mend(p)
  PROVE  CountInv'
<1>1. task[p] \in Tasks /\ task[p].step = "mend"
  BY AtType DEF CountInv, Mend
<1>2. UNCHANGED <<handles, alive, stores, refusals, staged>>
  BY DEF Mend, disk
<1>3. live' \in Stores /\ backups' \subseteq Stores /\ swapLock' \in Procs \cup {NoProc}
  BY DEF Mend, disk, CountInv, StoreTypeOK
<1>4. CASE Goto(p, "sweep") /\ UNCHANGED count
  <2>1. task' \in [Procs -> Tasks \cup {Idle}] /\ task'[p].step = "sweep" /\ task'[p].own = task[p].own
        /\ \A q \in Procs \ {p} : task'[q] = task[q]
    BY <1>1, <1>4, GotoType DEF CountInv, Steps
  <2>2. Counted'
    BY <1>2, <1>4, <2>1, SameCounts DEF OwnSteps
  <2> QED BY <1>2, <1>3, <1>4, <2>1, <2>2 DEF CountInv, StoreTypeOK
<1>5. CASE Done(p) /\ task[p].own /\ ReleaseCount(p)
  <2>1. Counted' /\ count' \in [Procs -> Nat]
    BY <1>2, <1>5, DoneCounts
  <2>2. task' \in [Procs -> Tasks \cup {Idle}]
    BY <1>5, DoneType DEF CountInv
  <2> QED BY <1>2, <1>3, <2>1, <2>2 DEF CountInv, StoreTypeOK
<1>6. CASE Done(p) /\ ~task[p].own /\ UNCHANGED count
  <2>1. task' \in [Procs -> Tasks \cup {Idle}] /\ task'[p].step = "idle" /\ task'[p].own = FALSE
        /\ \A q \in Procs \ {p} : task'[q] = task[q]
    BY <1>6, DoneType DEF CountInv
  <2>2. Counted'
    BY <1>2, <1>6, <2>1, SameCounts DEF OwnSteps
  <2> QED BY <1>2, <1>3, <1>6, <2>1, <2>2 DEF CountInv, StoreTypeOK
<1>7. (Goto(p, "sweep") /\ UNCHANGED count) \/ (Done(p) /\ IF task[p].own THEN ReleaseCount(p) ELSE UNCHANGED count)
  BY DEF Mend
<1> QED BY <1>4, <1>5, <1>6, <1>7

\* What a removal of the backups leaves is typed.
LEMMA RemovalType ==
  ASSUME StoreTypeOK, StoreAssumption, RemoveBackups
  PROVE  backups' \subseteq Stores /\ refusals' \in 0 .. MaxRefusals
BY DEF StoreTypeOK, StoreAssumption, RemoveBackups

\* Backups and stages are swept away.
LEMMA SweepCounts ==
  ASSUME CountInv, StoreAssumption, NEW p \in Procs, Sweep(p)
  PROVE  CountInv'
<1>1. task[p] \in Tasks /\ task[p].step = "sweep"
  BY AtType DEF CountInv, Sweep
<1>2. UNCHANGED <<live, count, handles, alive, stores>> /\ staged' \in [Procs -> Nat]
      /\ backups' \subseteq Stores /\ refusals' \in 0 .. MaxRefusals
      /\ swapLock' \in Procs \cup {NoProc}
  BY RemovalType DEF Sweep, CountInv, StoreTypeOK
<1>3. \/ task[p].own /\ Goto(p, "inspect")
      \/ ~task[p].own /\ Goto(p, "check")
  BY DEF Sweep
<1>4. task' \in [Procs -> Tasks \cup {Idle}] /\ task'[p].own = task[p].own
      /\ task'[p].step = (IF task[p].own THEN "inspect" ELSE "check")
      /\ \A q \in Procs \ {p} : task'[q] = task[q]
  BY <1>1, <1>3, GotoType DEF CountInv, Steps
<1>5. task[p].own \in BOOLEAN
  BY <1>1 DEF Tasks
<1>6. Counted'
  BY <1>2, <1>4, <1>5, SameCounts DEF OwnSteps
<1> QED BY <1>2, <1>4, <1>6 DEF CountInv, StoreTypeOK

\* What there is to open, to create over or to replace.
LEMMA CheckCounts ==
  ASSUME CountInv, NEW p \in Procs, Check(p)
  PROVE  CountInv'
<1>1. task[p] \in Tasks /\ task[p].step = "check"
  BY AtType DEF CountInv, Check
<1>2. UNCHANGED <<disk, count, handles, alive, stores, refusals>> /\ (Goto(p, "mkdir") \/ Done(p))
  BY DEF Check
<1>3. task[p].own = FALSE
  BY <1>1 DEF CountInv, Counted, Counts, OwnSteps, Tasks
<1>4. task' \in [Procs -> Tasks \cup {Idle}] /\ task'[p].own = FALSE /\ task'[p].step \in {"mkdir", "idle"}
      /\ \A q \in Procs \ {p} : task'[q] = task[q]
  BY <1>1, <1>2, <1>3, GotoType, DoneType DEF CountInv, Steps
<1>5. Counted'
  BY <1>2, <1>4, SameCounts DEF OwnSteps
<1> QED BY <1>2, <1>4, <1>5 DEF CountInv, StoreTypeOK, disk

\* A directory is made, or the process counts once more.
LEMMA MakeDirectoryCounts ==
  ASSUME CountInv, NEW p \in Procs, MakeDirectory(p)
  PROVE  CountInv'
<1>1. task[p] \in Tasks /\ task[p].step = "mkdir"
  BY AtType DEF CountInv, MakeDirectory
<1>2. task[p].own = FALSE /\ count[p] \in Nat
  BY <1>1 DEF CountInv, StoreTypeOK, Counted, Counts, OwnSteps, Tasks
<1>3. UNCHANGED <<backups, staged, swapLock, handles, alive, stores, refusals>>
  BY DEF MakeDirectory
<1>4. live' \in Stores
  BY MadeType DEF MakeDirectory, CountInv, StoreTypeOK
<1>5. CASE count' = [count EXCEPT ![p] = @ + 1] /\ AfterLock(p)
  <2>1. task' \in [Procs -> Tasks \cup {Idle}] /\ task'[p].own = TRUE /\ task'[p].step \in OwnSteps
        /\ \A q \in Procs \ {p} : task'[q] = task[q]
    BY <1>1, <1>5, AfterLockType DEF CountInv, OwnSteps
  <2>2. count' \in [Procs -> Nat] /\ count'[p] = count[p] + 1 /\ \A q \in Procs \ {p} : count'[q] = count[q]
    BY <1>2, <1>5 DEF CountInv, StoreTypeOK
  <2>3. Entries(p)' <= count'[p]
    BY <1>2, <1>3, <2>1, <2>2, EntriesType DEF Entries
  <2>4. Counts(p)'
    BY <1>3, <2>1, <2>3 DEF Counts, CountInv, Counted
  <2>5. Counted'
    BY <1>3, <2>1, <2>2, <2>4, OneCounts DEF CountInv
  <2> QED BY <1>3, <1>4, <2>1, <2>2, <2>5 DEF CountInv, StoreTypeOK
<1>6. CASE (Goto(p, "lock") \/ Done(p)) /\ UNCHANGED count
  <2>1. task' \in [Procs -> Tasks \cup {Idle}] /\ task'[p].own = FALSE /\ task'[p].step \in {"lock", "idle"}
        /\ \A q \in Procs \ {p} : task'[q] = task[q]
    BY <1>1, <1>2, <1>6, GotoType, DoneType DEF CountInv, Steps
  <2>2. Counted'
    BY <1>3, <1>6, <2>1, SameCounts DEF OwnSteps
  <2> QED BY <1>3, <1>4, <1>6, <2>1, <2>2 DEF CountInv, StoreTypeOK
<1>7. \/ count' = [count EXCEPT ![p] = @ + 1] /\ AfterLock(p)
      \/ (Goto(p, "lock") \/ Done(p)) /\ UNCHANGED count
  BY DEF MakeDirectory
<1> QED BY <1>5, <1>6, <1>7

\* The lock file is taken with a count of one: the process held it not.
LEMMA TakeWriteLockCounts ==
  ASSUME CountInv, NEW p \in Procs, TakeWriteLock(p), count[p] = 0
  PROVE  CountInv'
<1>1. task[p] \in Tasks /\ task[p].step = "lock"
  BY AtType DEF CountInv, TakeWriteLock
<1>2. task[p].own = FALSE
  BY <1>1 DEF CountInv, Counted, Counts, OwnSteps, Tasks
<1>3. UNCHANGED <<backups, staged, swapLock, handles, alive, stores, refusals>>
  BY DEF TakeWriteLock
<1>4. live' \in Stores
  BY MadeType DEF TakeWriteLock, CountInv, StoreTypeOK
<1>5. CASE count' = [count EXCEPT ![p] = 1] /\ AfterLock(p)
  <2>1. task' \in [Procs -> Tasks \cup {Idle}] /\ task'[p].own = TRUE /\ task'[p].step \in OwnSteps
        /\ \A q \in Procs \ {p} : task'[q] = task[q]
    BY <1>1, <1>5, AfterLockType DEF CountInv, OwnSteps
  <2>2. count' \in [Procs -> Nat] /\ count'[p] = 1 /\ \A q \in Procs \ {p} : count'[q] = count[q]
    BY <1>5 DEF CountInv, StoreTypeOK
  <2>3. Entries(p)' <= count'[p]
    BY <1>2, <1>3, <2>1, <2>2, EntriesType DEF Entries
  <2>4. Counts(p)'
    BY <1>3, <2>1, <2>3 DEF Counts, CountInv, Counted
  <2>5. Counted'
    BY <1>3, <2>1, <2>2, <2>4, OneCounts DEF CountInv
  <2> QED BY <1>3, <1>4, <2>1, <2>2, <2>5 DEF CountInv, StoreTypeOK
<1>6. CASE Done(p) /\ UNCHANGED count
  <2>1. task' \in [Procs -> Tasks \cup {Idle}] /\ task'[p].own = FALSE /\ task'[p].step = "idle"
        /\ \A q \in Procs \ {p} : task'[q] = task[q]
    BY <1>6, DoneType DEF CountInv
  <2>2. Counted'
    BY <1>3, <1>6, <2>1, SameCounts DEF OwnSteps
  <2> QED BY <1>3, <1>4, <1>6, <2>1, <2>2 DEF CountInv, StoreTypeOK
<1> QED BY <1>5, <1>6 DEF TakeWriteLock

\* A handle is added where the operation's own entry is given up for it.
LEMMA HandCounts ==
  ASSUME CountInv, NEW p \in Procs, task[p].own, Done(p), Hand(p), live.id # 0, UNCHANGED count
  PROVE  handles' \in [Procs -> SUBSET (Nat \ {0})] /\ Counted'
         /\ handles'[p] = handles[p] \cup {live.id} /\ \A q \in Procs \ {p} : handles'[q] = handles[q]
<1>1. live.id \in Nat \ {0} /\ handles \in [Procs -> SUBSET (Nat \ {0})]
  BY DEF CountInv, StoreTypeOK, Stores
<1>2. handles'[p] = handles[p] \cup {live.id} /\ (\A q \in Procs \ {p} : handles'[q] = handles[q])
      /\ handles' \in [Procs -> SUBSET (Nat \ {0})]
  BY <1>1 DEF Hand
<1>3. IsFiniteSet(handles[p])
  BY DEF CountInv, Counted, Counts
<1>4. IsFiniteSet(handles'[p]) /\ Cardinality(handles'[p]) <= Cardinality(handles[p]) + 1
  <2>1. IsFiniteSet(handles[p] \cup {live.id})
        /\ Cardinality(handles[p] \cup {live.id})
           = IF live.id \in handles[p] THEN Cardinality(handles[p]) ELSE Cardinality(handles[p]) + 1
    BY <1>3, FS_AddElement
  <2>2. Cardinality(handles[p]) \in Nat
    BY <1>3, FS_CardinalityType
  <2> QED BY <1>2, <2>1, <2>2
<1>5. task'[p].step = "idle" /\ task'[p].own = FALSE /\ \A q \in Procs \ {p} : task'[q] = task[q]
  BY DoneType DEF CountInv
<1>6. Cardinality(handles'[p]) \in Nat
  BY <1>4, FS_CardinalityType
<1>7. Entries(p)' <= count'[p]
  BY <1>4, <1>5, <1>6, EntriesType DEF Entries
<1>8. Counts(p)'
  BY <1>4, <1>5, <1>7 DEF Counts, OwnSteps
<1> QED BY <1>2, <1>5, <1>8, OneCounts DEF CountInv

\* A new database, in the live directory.
LEMMA NewDatabaseType ==
  ASSUME StoreTypeOK, NEW generation \in Nat, NEW complete \in BOOLEAN, NewDatabase(generation, complete)
  PROVE  /\ stores' = stores + 1 /\ stores' \in Nat \ {0} /\ live' \in Stores
         /\ live'.id = stores' /\ live'.gen = generation /\ live'.whole = complete /\ live'.lock = live.lock
<1>1. stores' = stores + 1 /\ stores' \in Nat \ {0}
  BY DEF StoreTypeOK, NewDatabase
<1>2. live' = [id |-> stores', gen |-> generation, whole |-> complete, lock |-> live.lock]
  BY DEF StoreTypeOK, NewDatabase, Stores
<1> QED BY <1>1, <1>2 DEF StoreTypeOK, Stores

\* A project is opened, or not, and the operation's entry is the handle's.
LEMMA OpenCounts ==
  ASSUME CountInv, StoreAssumption, NEW p \in Procs, OpenDatabase(p), live.gen > 0 => live.id # 0
  PROVE  CountInv'
<1>1. task[p] \in Tasks /\ task[p].step = "database"
  BY AtType DEF CountInv, OpenDatabase
<1>2. task[p].own
  BY <1>1 DEF CountInv, Counted, Counts, OwnSteps
<1>3. UNCHANGED <<backups, staged, swapLock, alive, refusals>> /\ Done(p)
  BY DEF OpenDatabase
<1>4. task' \in [Procs -> Tasks \cup {Idle}] /\ task'[p].own = FALSE /\ task'[p].step = "idle"
      /\ \A q \in Procs \ {p} : task'[q] = task[q]
  BY <1>3, DoneType DEF CountInv
<1>5. CASE live = Absent /\ UNCHANGED <<live, count, handles, stores>>
  <2>1. Counted'
    BY <1>4, <1>5, SameCounts DEF OwnSteps
  <2> QED BY <1>3, <1>4, <1>5, <2>1 DEF CountInv, StoreTypeOK
<1>6. CASE /\ stores' = stores + 1
           /\ live' = [AfterRelease(p, live) EXCEPT !.id = stores']
           /\ ReleaseCount(p) /\ UNCHANGED handles
  <2>1. stores' \in Nat /\ AfterRelease(p, live) \in Stores
    BY <1>6, ReleaseType DEF CountInv, StoreTypeOK
  <2>2. live' \in Stores
    BY <1>6, <2>1 DEF Stores
  <2>3. Counted' /\ count' \in [Procs -> Nat]
    BY <1>2, <1>3, <1>6, DoneCounts
  <2> QED BY <1>3, <1>4, <1>6, <2>1, <2>2, <2>3 DEF CountInv, StoreTypeOK
<1>7. CASE ReleaseWrite(p) /\ UNCHANGED <<handles, stores>>
  <2>1. live' \in Stores
    BY <1>7, ReleaseType DEF CountInv, StoreTypeOK, ReleaseWrite
  <2>2. Counted' /\ count' \in [Procs -> Nat]
    BY <1>2, <1>3, <1>7, DoneCounts DEF ReleaseWrite
  <2> QED BY <1>3, <1>4, <1>7, <2>1, <2>2 DEF CountInv, StoreTypeOK
<1>8. CASE live.gen > 0 /\ Hand(p) /\ UNCHANGED <<live, count, stores>>
  <2>1. handles' \in [Procs -> SUBSET (Nat \ {0})] /\ Counted'
    BY <1>2, <1>3, <1>8, HandCounts
  <2> QED BY <1>3, <1>4, <1>8, <2>1 DEF CountInv, StoreTypeOK
<1> QED BY <1>5, <1>6, <1>7, <1>8 DEF OpenDatabase

\* A database is created, over none.
LEMMA CreateCounts ==
  ASSUME CountInv, NEW p \in Procs, CreateDatabase(p)
  PROVE  CountInv'
<1>1. task[p] \in Tasks /\ task[p].step = "database"
  BY AtType DEF CountInv, CreateDatabase
<1>2. task[p].own
  BY <1>1 DEF CountInv, Counted, Counts, OwnSteps
<1>3. UNCHANGED <<backups, staged, swapLock, handles, alive, refusals>>
  BY DEF CreateDatabase
<1>4. CASE NewDatabase(0, TRUE) /\ Goto(p, "insert") /\ UNCHANGED count
  <2>1. stores' \in Nat /\ live' \in Stores
    BY <1>4, NewDatabaseType DEF CountInv
  <2>2. task' \in [Procs -> Tasks \cup {Idle}] /\ task'[p].own = task[p].own /\ task'[p].step = "insert"
        /\ \A q \in Procs \ {p} : task'[q] = task[q]
    BY <1>1, <1>4, GotoType DEF CountInv, Steps
  <2>3. Counted'
    BY <1>2, <1>3, <1>4, <2>2, SameCounts DEF OwnSteps
  <2> QED BY <1>3, <1>4, <2>1, <2>2, <2>3 DEF CountInv, StoreTypeOK
<1>5. CASE ReleaseWrite(p) /\ Done(p) /\ UNCHANGED stores
  <2>1. live' \in Stores
    BY <1>5, ReleaseType DEF CountInv, StoreTypeOK, ReleaseWrite
  <2>2. Counted' /\ count' \in [Procs -> Nat]
    BY <1>2, <1>3, <1>5, DoneCounts DEF ReleaseWrite
  <2>3. task' \in [Procs -> Tasks \cup {Idle}]
    BY <1>5, DoneType DEF CountInv
  <2> QED BY <1>3, <1>5, <2>1, <2>2, <2>3 DEF CountInv, StoreTypeOK
<1> QED BY <1>4, <1>5 DEF CreateDatabase

\* The record of the project is inserted in a database that is there.
LEMMA InsertCounts ==
  ASSUME CountInv, NEW p \in Procs, InsertProject(p), live.id # 0
  PROVE  CountInv'
<1>1. task[p] \in Tasks /\ task[p].step = "insert"
  BY AtType DEF CountInv, InsertProject
<1>2. task[p].own
  BY <1>1 DEF CountInv, Counted, Counts, OwnSteps
<1>3. UNCHANGED <<backups, staged, swapLock, alive, stores, refusals>> /\ Done(p)
  BY DEF InsertProject
<1>4. task' \in [Procs -> Tasks \cup {Idle}]
  BY <1>3, DoneType DEF CountInv
<1>5. CASE live' = [live EXCEPT !.gen = 1] /\ Hand(p) /\ UNCHANGED count
  <2>1. live' \in Stores
    BY <1>5 DEF CountInv, StoreTypeOK, Stores
  <2>2. handles' \in [Procs -> SUBSET (Nat \ {0})] /\ Counted'
    BY <1>2, <1>3, <1>5, HandCounts
  <2> QED BY <1>3, <1>4, <1>5, <2>1, <2>2 DEF CountInv, StoreTypeOK
<1>6. CASE ReleaseWrite(p) /\ UNCHANGED handles
  <2>1. live' \in Stores
    BY <1>6, ReleaseType DEF CountInv, StoreTypeOK, ReleaseWrite
  <2>2. Counted' /\ count' \in [Procs -> Nat]
    BY <1>2, <1>3, <1>6, DoneCounts DEF ReleaseWrite
  <2> QED BY <1>3, <1>4, <1>6, <2>1, <2>2 DEF CountInv, StoreTypeOK
<1> QED BY <1>5, <1>6 DEF InsertProject

\* A handle is given up with the entry it was counted for.
LEMMA CloseCounts ==
  ASSUME CountInv, NEW p \in Procs, Close(p)
  PROVE  /\ CountInv' /\ count'[p] = count[p] - 1 /\ task[p].own = FALSE
         /\ Cardinality(handles'[p]) = Cardinality(handles[p]) - 1
         /\ handles'[p] \subseteq handles[p] /\ handles[p] # {}
         /\ \A q \in Procs \ {p} : handles'[q] = handles[q] /\ count'[q] = count[q]
<1>1. PICK id \in handles[p] : handles' = [handles EXCEPT ![p] = @ \ {id}]
  BY DEF Close
<1>2. task[p] = Idle /\ ReleaseWrite(p) /\ UNCHANGED <<backups, staged, swapLock, task, alive, stores, refusals>>
  BY DEF Close
<1>3. /\ handles \in [Procs -> SUBSET (Nat \ {0})] /\ IsFiniteSet(handles[p])
      /\ count \in [Procs -> Nat] /\ live \in Stores
  BY DEF CountInv, StoreTypeOK, Counted, Counts
<1>4. /\ handles'[p] = handles[p] \ {id} /\ \A q \in Procs \ {p} : handles'[q] = handles[q]
      /\ handles' \in [Procs -> SUBSET (Nat \ {0})]
  BY <1>1, <1>3
<1>5. IsFiniteSet(handles'[p]) /\ Cardinality(handles'[p]) = Cardinality(handles[p]) - 1
  BY <1>1, <1>3, <1>4, FS_RemoveElement
<1>6. task[p].own = FALSE /\ task[p].step = "idle"
  BY <1>2 DEF Idle
<1>7. Cardinality(handles'[p]) \in Nat /\ Cardinality(handles[p]) \in Nat /\ Cardinality(handles[p]) <= count[p]
  BY <1>5, <1>6, EntriesType, FS_CardinalityType
<1>8. count[p] \in Nat /\ count[p] >= 1
  BY <1>3, <1>5, <1>7
<1>9. count' \in [Procs -> Nat] /\ count'[p] = count[p] - 1 /\ \A q \in Procs \ {p} : count'[q] = count[q]
  BY <1>2, <1>3, <1>8 DEF ReleaseWrite, ReleaseCount
<1>10. task' = task
  BY <1>2
<1>11. Entries(p)' <= count'[p]
  BY <1>5, <1>6, <1>7, <1>8, <1>9, <1>10 DEF Entries
<1>12. Counts(p)'
  BY <1>5, <1>6, <1>10, <1>11 DEF Counts, OwnSteps
<1>13. Counted'
  BY <1>4, <1>9, <1>10, <1>12, OneCounts DEF CountInv
<1>14. live' \in Stores
  BY <1>2, <1>3, ReleaseType DEF ReleaseWrite
<1>15. CountInv'
  BY <1>2, <1>4, <1>9, <1>13, <1>14 DEF CountInv, StoreTypeOK
<1> QED BY <1>1, <1>4, <1>5, <1>6, <1>9, <1>15

\* A change of the project through a handle.
LEMMA WriteCounts ==
  ASSUME CountInv, NEW p \in Procs, Write(p)
  PROVE  CountInv'
<1>1. live' \in Stores
  BY DEF Write, CountInv, StoreTypeOK, Stores
<1>2. UNCHANGED <<backups, staged, swapLock, memory, stores, refusals>>
  BY DEF Write
<1>3. Counted'
  BY <1>2 DEF CountInv, Counted, Counts, Entries, memory
<1> QED BY <1>1, <1>2, <1>3 DEF CountInv, StoreTypeOK, memory

\* An operation that gives up both locks ends.
LEMMA ReleaseBothCounts ==
  ASSUME CountInv, NEW p \in Procs, task[p].own, ReleaseBoth(p), UNCHANGED handles
  PROVE  /\ Counted' /\ count' \in [Procs -> Nat] /\ task' \in [Procs -> Tasks \cup {Idle}]
         /\ live' \in Stores /\ swapLock' = NoProc /\ count'[p] = count[p] - 1 /\ task'[p] = Idle
         /\ \A q \in Procs \ {p} : count'[q] = count[q] /\ task'[q] = task[q]
<1>1. ReleaseCount(p) /\ Done(p) /\ live' = AfterRelease(p, live) /\ swapLock' = NoProc
  BY DEF ReleaseBoth, ReleaseWrite
<1>2. live' \in Stores
  BY <1>1, ReleaseType DEF CountInv, StoreTypeOK
<1> QED BY <1>1, <1>2, DoneCounts, DoneType DEF CountInv

\* A replacement is inspected and staged, or given up.
LEMMA InspectStageCounts ==
  ASSUME CountInv, NEW p \in Procs, Inspect(p) \/ Stage(p)
  PROVE  CountInv'
<1>1. task[p] \in Tasks /\ task[p].step \in {"inspect", "stage"}
  BY AtType DEF CountInv, Inspect, Stage
<1>2. task[p].own
  BY <1>1 DEF CountInv, Counted, Counts, OwnSteps
<1>3. UNCHANGED <<backups, handles, alive, stores, refusals>>
  BY DEF Inspect, Stage
<1>4. staged' \in [Procs -> Nat]
  BY DEF Inspect, Stage, CountInv, StoreTypeOK, Stores
<1>5. CASE (Goto(p, "stage") \/ Goto(p, "move")) /\ UNCHANGED <<live, swapLock, count>>
  <2>1. task' \in [Procs -> Tasks \cup {Idle}] /\ task'[p].own = task[p].own /\ task'[p].step \in OwnSteps
        /\ \A q \in Procs \ {p} : task'[q] = task[q]
    BY <1>1, <1>5, GotoType DEF CountInv, Steps, OwnSteps
  <2>2. Counted'
    BY <1>2, <1>3, <1>5, <2>1, SameCounts
  <2> QED BY <1>3, <1>4, <1>5, <2>1, <2>2 DEF CountInv, StoreTypeOK
<1>6. CASE ReleaseBoth(p)
  <2> QED BY <1>2, <1>3, <1>4, <1>6, ReleaseBothCounts DEF CountInv, StoreTypeOK
<1> QED BY <1>5, <1>6 DEF Inspect, Stage

\* The live directory is moved aside.
LEMMA MoveCounts ==
  ASSUME CountInv, NEW p \in Procs, MoveAside(p)
  PROVE  CountInv'
<1>1. task[p] \in Tasks /\ task[p].step = "move"
  BY AtType DEF CountInv, MoveAside
<1>2. task[p].own
  BY <1>1 DEF CountInv, Counted, Counts, OwnSteps
<1>3. UNCHANGED <<staged, swapLock, count, handles, alive, stores, refusals>> /\ Goto(p, "publish")
      /\ backups' = backups \cup {live} /\ live' = Absent
  BY DEF MoveAside
<1>4. task' \in [Procs -> Tasks \cup {Idle}] /\ task'[p].own = task[p].own /\ task'[p].step = "publish"
      /\ \A q \in Procs \ {p} : task'[q] = task[q]
  BY <1>1, <1>3, GotoType DEF CountInv, Steps
<1>5. Counted'
  BY <1>2, <1>3, <1>4, SameCounts DEF OwnSteps
<1>6. live' \in Stores /\ backups' \subseteq Stores
  BY <1>3, MadeType DEF CountInv, StoreTypeOK
<1> QED BY <1>3, <1>4, <1>5, <1>6 DEF CountInv, StoreTypeOK

\* What was staged is published, or what was moved aside moved back.
LEMMA PublishCounts ==
  ASSUME CountInv, StoreAssumption, NEW p \in Procs, Publish(p)
  PROVE  CountInv'
<1>1. task[p] \in Tasks /\ task[p].step = "publish"
  BY AtType DEF CountInv, Publish
<1>2. task[p].own
  BY <1>1 DEF CountInv, Counted, Counts, OwnSteps
<1>3. UNCHANGED <<handles, alive, refusals>> /\ staged' = [staged EXCEPT ![p] = 0]
  BY DEF Publish
<1>4. staged' \in [Procs -> Nat] /\ staged[p] \in Nat
  BY <1>3 DEF CountInv, StoreTypeOK
<1>5. CASE /\ stores' = stores + 1
           /\ live' = [id |-> stores', gen |-> staged[p], whole |-> TRUE, lock |-> p]
           /\ Goto(p, "clean")
           /\ UNCHANGED <<backups, swapLock, count>>
  <2>1. stores' \in Nat /\ live' \in Stores
    BY <1>4, <1>5 DEF CountInv, StoreTypeOK, Stores
  <2>2. task' \in [Procs -> Tasks \cup {Idle}] /\ task'[p].own = task[p].own /\ task'[p].step = "clean"
        /\ \A q \in Procs \ {p} : task'[q] = task[q]
    BY <1>1, <1>5, GotoType DEF CountInv, Steps
  <2>3. Counted'
    BY <1>2, <1>3, <1>5, <2>2, SameCounts DEF OwnSteps
  <2> QED BY <1>3, <1>4, <1>5, <2>1, <2>2, <2>3 DEF CountInv, StoreTypeOK
<1>6. CASE /\ \E b \in backups : backups' = backups \ {b} /\ live' = AfterRelease(p, b)
           /\ ReleaseCount(p) /\ swapLock' = NoProc /\ Done(p)
           /\ UNCHANGED stores
  <2>1. live' \in Stores /\ backups' \subseteq Stores
    BY <1>6, ReleaseType DEF CountInv, StoreTypeOK
  <2>2. Counted' /\ count' \in [Procs -> Nat]
    BY <1>2, <1>3, <1>6, DoneCounts
  <2>3. task' \in [Procs -> Tasks \cup {Idle}]
    BY <1>6, DoneType DEF CountInv
  <2> QED BY <1>3, <1>4, <1>6, <2>1, <2>2, <2>3 DEF CountInv, StoreTypeOK
<1>7. CASE ReleaseBoth(p) /\ UNCHANGED <<backups, stores>>
  <2> QED BY <1>2, <1>3, <1>4, <1>7, ReleaseBothCounts DEF CountInv, StoreTypeOK
<1> QED BY <1>5, <1>6, <1>7 DEF Publish

\* The old store is removed, if it can be.
LEMMA CleanCounts ==
  ASSUME CountInv, StoreAssumption, NEW p \in Procs, CleanUp(p)
  PROVE  CountInv'
<1>1. task[p] \in Tasks /\ task[p].step = "clean"
  BY AtType DEF CountInv, CleanUp
<1>2. task[p].own
  BY <1>1 DEF CountInv, Counted, Counts, OwnSteps
<1>3. UNCHANGED <<staged, handles, alive, stores>> /\ ReleaseBoth(p)
      /\ backups' \subseteq Stores /\ refusals' \in 0 .. MaxRefusals
  BY RemovalType DEF CleanUp, CountInv
<1> QED BY <1>2, <1>3, ReleaseBothCounts DEF CountInv, StoreTypeOK

\* A materialization copies the database, and then what its rows name.
LEMMA CopyCounts ==
  ASSUME CountInv, NEW p \in Procs, CopyDatabase(p) \/ CopyFiles(p)
  PROVE  CountInv'
<1>1. task[p] \in Tasks /\ task[p].step \in {"database", "files"}
  BY AtType DEF CountInv, CopyDatabase, CopyFiles
<1>2. task[p].own
  BY <1>1 DEF CountInv, Counted, Counts, OwnSteps
<1>3. UNCHANGED <<backups, staged, swapLock, handles, alive, refusals>>
  BY DEF CopyDatabase, CopyFiles
<1>4. CASE CopyDatabase(p)
  <2>1. NewDatabase(1, FALSE) /\ Goto(p, "files") /\ UNCHANGED count
    BY <1>4 DEF CopyDatabase
  <2>2. stores' \in Nat /\ live' \in Stores
    BY <2>1, NewDatabaseType DEF CountInv
  <2>3. task' \in [Procs -> Tasks \cup {Idle}] /\ task'[p].own = task[p].own /\ task'[p].step = "files"
        /\ \A q \in Procs \ {p} : task'[q] = task[q]
    BY <1>1, <2>1, GotoType DEF CountInv, Steps
  <2>4. Counted'
    BY <1>2, <1>3, <2>1, <2>3, SameCounts DEF OwnSteps
  <2> QED BY <1>3, <2>1, <2>2, <2>3, <2>4 DEF CountInv, StoreTypeOK
<1>5. CASE CopyFiles(p)
  <2>1. Done(p) /\ ReleaseCount(p) /\ UNCHANGED stores
        /\ (live' = Absent \/ live' = [AfterRelease(p, live) EXCEPT !.whole = TRUE])
    BY <1>5 DEF CopyFiles
  <2>2. AfterRelease(p, live) \in Stores
    BY ReleaseType DEF CountInv, StoreTypeOK
  <2>3. live' \in Stores
    BY <2>1, <2>2, MadeType DEF Stores
  <2>4. Counted' /\ count' \in [Procs -> Nat]
    BY <1>2, <1>3, <2>1, DoneCounts
  <2>5. task' \in [Procs -> Tasks \cup {Idle}]
    BY <2>1, DoneType DEF CountInv
  <2> QED BY <1>3, <2>1, <2>3, <2>4, <2>5 DEF CountInv, StoreTypeOK
<1> QED BY <1>4, <1>5

\* A process dies with everything it had in memory.
LEMMA CrashCounts ==
  ASSUME CountInv, NEW p \in Procs, Crash(p)
  PROVE  /\ CountInv' /\ task'[p] = Idle /\ count'[p] = 0 /\ handles'[p] = {} /\ alive'[p] = FALSE
         /\ \A q \in Procs \ {p} : /\ task'[q] = task[q] /\ count'[q] = count[q]
                                   /\ handles'[q] = handles[q] /\ alive'[q] = alive[q]
<1>1. task' \in [Procs -> Tasks \cup {Idle}] /\ task'[p] = Idle /\ task'[p].own = FALSE /\ task'[p].step = "idle"
      /\ \A q \in Procs \ {p} : task'[q] = task[q]
  BY DoneType DEF Crash, CountInv
<1>2. /\ count' \in [Procs -> Nat] /\ count'[p] = 0
      /\ handles' \in [Procs -> SUBSET (Nat \ {0})] /\ handles'[p] = {}
      /\ alive' \in [Procs -> BOOLEAN] /\ alive'[p] = FALSE
      /\ \A q \in Procs \ {p} : count'[q] = count[q] /\ handles'[q] = handles[q] /\ alive'[q] = alive[q]
  BY DEF Crash, CountInv, StoreTypeOK
<1>3. IsFiniteSet(handles'[p]) /\ Cardinality(handles'[p]) = 0
  BY <1>2, FS_EmptySet
<1>4. Counts(p)'
  BY <1>1, <1>2, <1>3 DEF Counts, Entries, OwnSteps
<1>5. Counted'
  BY <1>1, <1>2, <1>4, OneCounts DEF CountInv
<1>6. UNCHANGED <<disk, stores, refusals>>
  BY DEF Crash
<1> QED BY <1>1, <1>2, <1>5, <1>6 DEF CountInv, StoreTypeOK, disk

-----------------------------------------------------------------------------
\* The inductive invariant, while nothing is under way beside a swap

\* A process counts exactly what it has entered for, and its lock is in the live
\* directory, unless it has just moved that aside.
Held(p) ==
  /\ count[p] = Entries(p)
  /\ count[p] > 0 => alive[p] /\ (live.lock = p \/ task[p].step = "publish")
  /\ task[p].step = "lock" => count[p] = 0 /\ live # Absent
  /\ task[p].op = "materialize" => handles[p] = {}
  /\ handles[p] \subseteq 1 .. stores
LockHeld == \A p \in Procs : Held(p)

\* The swap lock of a living process is that of its operation.
SwapHeld(p) ==
  alive[p] /\ swapLock = p
  => task[p].step \in {"mend", "sweep", "inspect", "stage", "move", "publish", "clean"}
SwapLockHeld == \A p \in Procs : SwapHeld(p)

\* What lies about was a project once, each generation once, and the newer is the
\* more complete; beside a directory without a project there is nothing.
BackupsPlaced ==
  /\ backups # {} => live = Absent \/ live.gen > 0
  /\ \A x \in backups : /\ x.gen > 0 /\ x.id \in 1 .. stores
                        /\ live.gen > 0 => x.gen < live.gen /\ (x.whole => live.whole)
  /\ \A x, y \in backups : (x.gen = y.gen => x = y) /\ (x.gen < y.gen /\ x.whole => y.whole)
Generations ==
  /\ live.id = 0 => live.gen = 0
  /\ live # Absent /\ live.gen = 0 => live.whole
  /\ live.id <= stores
  /\ BackupsPlaced

Top(t) == t \in backups /\ \A x \in backups : x.gen <= t.gen

\* What an operation may count on at its steps.
Placed(p) ==
  /\ task[p].step \in {"sweep", "check", "mkdir"} => live # Absent \/ backups = {}
  /\ task[p].step = "insert"
     => live.id # 0 /\ live.gen = 0 /\ live.whole /\ \A q \in Procs : live.id \notin handles[q]
  /\ task[p].step \in {"stage", "move", "clean"} => live.gen > 0
  /\ task[p].step = "move" => staged[p] = live.gen + 1
  /\ task[p].step = "publish"
     => /\ live = Absent
        /\ \E t \in backups : Top(t) /\ t.lock = p /\ staged[p] = t.gen + 1
        /\ \A q \in Procs \ {p} : count[q] = 0
  /\ task[p].step = "files" => live.gen = 1 /\ ~live.whole
  /\ task[p].step \in {"stage", "move", "publish", "clean", "files"} => task[p].op \in Swaps
StepsPlaced == \A p \in Procs : Placed(p)

StoreInv == CountInv /\ LockHeld /\ SwapLockHeld /\ Generations /\ StepsPlaced

-----------------------------------------------------------------------------
\* What the invariant gives the process that acts

\* Beside a swap the others are in no operation.
LEMMA OthersIdle ==
  ASSUME SwapsAlone, NEW p \in Procs, task[p].op \in Swaps
  PROVE  \A q \in Procs \ {p} : task[q] = Idle
BY DEF SwapsAlone

\* Beside an operation nobody swaps.
Beside(p) == \A q \in Procs \ {p} : task[q].op \notin Swaps
LEMMA OthersOpen ==
  ASSUME SwapsAlone, NEW p \in Procs, task[p] # Idle
  PROVE  Beside(p)
BY DEF SwapsAlone, Beside

\* What an operation of another kind than a swap does to the directory: it stays,
\* and who does not own its lock changes nothing but that lock.
Undisturbed(p) ==
  /\ live' # Absent \/ (live = Absent /\ backups' \subseteq backups)
  /\ count[p] > 0 \/ live = Absent
     \/ (live'.id = live.id /\ live'.gen = live.gen /\ live'.whole = live.whole
         /\ handles'[p] \subseteq handles[p])

\* Who owns the lock of an operation that is not publishing is in the directory.
LEMMA OwnerInside ==
  ASSUME StoreInv, StoreAssumption, NEW p \in Procs, count[p] > 0 \/ task[p].own, task[p].step # "publish"
  PROVE  live.lock = p /\ live # Absent /\ alive[p] /\ count[p] >= 1
<1>1. count[p] >= 1 /\ count[p] \in Nat
  BY EntriesType DEF StoreInv, CountInv, StoreTypeOK
<1>2. live.lock = p /\ alive[p]
  BY <1>1 DEF StoreInv, LockHeld, Held
<1> QED BY <1>1, <1>2 DEF Absent, StoreAssumption

\* Beside a directory in which there is no project there are no backups.
LEMMA NothingBeside ==
  ASSUME StoreInv, live # Absent, live.gen = 0
  PROVE  backups = {}
BY DEF StoreInv, Generations, BackupsPlaced

\* A process with a handle counts it.
LEMMA HandleCounts ==
  ASSUME StoreInv, NEW p \in Procs, handles[p] # {}
  PROVE  count[p] > 0
<1>1. IsFiniteSet(handles[p]) /\ Cardinality(handles[p]) \in Nat /\ count[p] \in Nat
      /\ Cardinality(handles[p]) <= count[p]
  BY EntriesType, FS_CardinalityType DEF StoreInv, CountInv, Counted, Counts
<1>2. Cardinality(handles[p]) # 0
  BY <1>1, FS_EmptySet
<1> QED BY <1>1, <1>2

\* No two processes can write the live database.
LEMMA HandleOwns ==
  ASSUME StoreInv, StoreAssumption, NEW p \in Procs, live.id \in handles[p]
  PROVE  live.lock = p /\ task[p].step # "publish" /\ count[p] > 0
<1>1. live.id # 0
  BY DEF StoreInv, CountInv, StoreTypeOK
<1>2. task[p].step # "publish"
  BY <1>1 DEF StoreInv, StepsPlaced, Placed, Absent
<1>3. count[p] > 0
  BY HandleCounts
<1> QED BY <1>2, <1>3, OwnerInside

\* A step of one process leaves the others what they have, if it leaves their lock
\* and either they are idle or it does not disturb them.
LEMMA BusyKeeps ==
  ASSUME StoreInv, StoreAssumption, NEW p \in Procs,
         (\A q \in Procs \ {p} : task[q] = Idle) \/ (Beside(p) /\ Undisturbed(p)),
         \A q \in Procs \ {p} : task'[q] = task[q] /\ count'[q] = count[q] /\ handles'[q] = handles[q],
         alive' = alive, stores' = stores \/ stores' = stores + 1,
         live'.lock = live.lock \/ live.lock = p \/ Free(live.lock),
         swapLock' \in {swapLock, p, NoProc},
         CountInv', Held(p)', SwapHeld(p)', Placed(p)', Generations'
  PROVE  StoreInv'
<1> SUFFICES ASSUME NEW q \in Procs \ {p} PROVE Held(q)' /\ SwapHeld(q)' /\ Placed(q)'
  BY DEF StoreInv, LockHeld, SwapLockHeld, StepsPlaced
<1>1. /\ task[q].op \notin Swaps /\ task'[q] = task[q]
      /\ task[q] = Idle \/ Undisturbed(p)
  BY DEF Idle, Beside, Swaps
<1>2. task[q].step \notin {"stage", "move", "publish", "clean", "files"}
  BY <1>1 DEF StoreInv, StepsPlaced, Placed
<1>3. count[q] > 0 => alive[q] /\ live.lock = q /\ live'.lock = q
  <2>1. count[q] > 0 => alive[q] /\ live.lock = q
    BY <1>2 DEF StoreInv, LockHeld, Held
  <2> QED BY <2>1 DEF Free, Dead, StoreAssumption
<1>4. Held(q)'
  <2>1. count'[q] = Entries(q)'
    BY <1>1 DEF StoreInv, LockHeld, Held, Entries
  <2>2. handles'[q] \subseteq 1 .. stores'
    BY DEF StoreInv, LockHeld, Held, CountInv, StoreTypeOK
  <2>3. task[q].step = "lock" => count[q] = 0 /\ live' # Absent
    BY <1>1 DEF StoreInv, LockHeld, Held, Undisturbed, Idle
  <2> QED BY <1>1, <1>3, <2>1, <2>2, <2>3 DEF Held, Swaps
<1>5. SwapHeld(q)'
  BY <1>1 DEF StoreInv, SwapLockHeld, SwapHeld, StoreAssumption
<1>6. Placed(q)'
  <2>1. task[q].step \in {"sweep", "check", "mkdir"} => live' # Absent \/ backups' = {}
    BY <1>1 DEF StoreInv, StepsPlaced, Placed, Undisturbed, Idle
  <2>2. ASSUME task[q].step = "insert"
        PROVE  live'.id # 0 /\ live'.gen = 0 /\ live'.whole /\ \A r \in Procs : live'.id \notin handles'[r]
    <3>1. live.id # 0 /\ live.gen = 0 /\ live.whole /\ \A r \in Procs : live.id \notin handles[r]
      BY <2>2 DEF StoreInv, StepsPlaced, Placed
    <3>2. task[q].own
      BY <2>2 DEF StoreInv, CountInv, Counted, Counts, OwnSteps
    <3>3. live.lock = q /\ live # Absent
      BY <2>2, <3>2, OwnerInside
    <3>4. ~(count[p] > 0)
      <4>1. task[p].step # "publish"
        BY <3>3 DEF StoreInv, StepsPlaced, Placed
      <4> QED BY <3>3, <4>1, OwnerInside
    <3>5. Undisturbed(p)
      BY <1>1, <2>2 DEF Idle
    <3>6. live'.id = live.id /\ live'.gen = live.gen /\ live'.whole = live.whole
          /\ handles'[p] \subseteq handles[p]
      BY <3>3, <3>4, <3>5 DEF Undisturbed
    <3> QED BY <3>1, <3>6
  <2> QED BY <1>1, <1>2, <2>1, <2>2 DEF Placed
<1> QED BY <1>4, <1>5, <1>6

\* Outside the steps of a swap a process has no swap lock.
LEMMA NoSwapLock ==
  ASSUME StoreInv, NEW p \in Procs, alive[p],
         task[p].step \notin {"mend", "sweep", "inspect", "stage", "move", "publish", "clean"}
  PROVE  swapLock # p
BY DEF StoreInv, SwapLockHeld, SwapHeld

\* The entries of a process that enters nothing.
LEMMA SameEntries ==
  ASSUME StoreInv, NEW p \in Procs, UNCHANGED <<count, handles>>, task'[p].own = task[p].own
  PROVE  count'[p] = Entries(p)' /\ count'[p] = count[p] /\ handles'[p] = handles[p]
BY DEF StoreInv, LockHeld, Held, Entries

-----------------------------------------------------------------------------
\* No action breaks the invariant

LEMMA BeginKeeps ==
  ASSUME StoreInv, StoreAssumption, SwapsAlone', NEW p \in Procs, NEW op \in Operations, Begin(p, op)
  PROVE  StoreInv'
<1> DEFINE first == IF op = "materialize" \/ (op = "replace" /\ live # Absent) THEN "mkdir" ELSE "swap"
           new == [op |-> op, step |-> first, own |-> FALSE]
<1>1. task[p] = Idle /\ alive[p] /\ UNCHANGED <<disk, count, handles, alive, stores, refusals>>
      /\ task' = [task EXCEPT ![p] = new] /\ (op = "materialize" => live = Absent)
  BY DEF Begin
<1>2. CountInv'
  BY BeginCounts DEF StoreInv
<1>3. task[p].step = "idle" /\ task[p].own = FALSE /\ task[p].op = "none"
  BY <1>1 DEF Idle
<1>4. /\ task'[p].op = op /\ task'[p].step = first /\ task'[p].own = FALSE
      /\ \A q \in Procs \ {p} : task'[q] = task[q]
  BY <1>1 DEF StoreInv, CountInv, StoreTypeOK
<1>5. task'[p] # Idle
  BY <1>4 DEF Idle
<1>6. (\A q \in Procs \ {p} : task[q] = Idle) \/ (Beside(p) /\ Undisturbed(p))
  BY <1>1, <1>4, <1>5 DEF SwapsAlone, Beside, Undisturbed, disk
<1>7. Held(p)'
  <2>1. count'[p] = Entries(p)' /\ count'[p] = count[p] /\ handles'[p] = handles[p]
    BY <1>1, <1>3, <1>4, SameEntries
  <2>2. op = "materialize" => handles[p] = {}
    BY <1>1, <1>3, HandleCounts, OwnerInside
  <2>3. count[p] > 0 => alive[p] /\ live.lock = p
    BY <1>3, OwnerInside
  <2>4. task'[p].step # "lock" /\ handles[p] \subseteq 1 .. stores
    BY <1>4 DEF StoreInv, LockHeld, Held
  <2> QED BY <1>1, <1>4, <2>1, <2>2, <2>3, <2>4 DEF Held, disk
<1>8. SwapHeld(p)'
  BY <1>1, <1>3, NoSwapLock DEF SwapHeld, disk
<1>9. Placed(p)'
  <2>1. op = "materialize" => backups' = {}
    BY <1>4 DEF SwapsAlone
  <2>2. first = "mkdir" => live' # Absent \/ backups' = {}
    BY <1>1, <2>1 DEF disk
  <2> QED BY <1>4, <2>2 DEF Placed
<1>10. Generations'
  BY <1>1 DEF StoreInv, Generations, BackupsPlaced, disk
<1> QED BY <1>1, <1>2, <1>4, <1>6, <1>7, <1>8, <1>9, <1>10, BusyKeeps DEF disk

LEMMA TakeSwapKeeps ==
  ASSUME StoreInv, StoreAssumption, SwapsAlone, NEW p \in Procs, TakeSwapLock(p) \/ TakeSwapLockToo(p)
  PROVE  StoreInv'
<1>1. task[p] \in Tasks /\ task[p] # Idle /\ task[p].step \in {"swap", "swapAgain"} /\ alive[p]
  BY AtType DEF StoreInv, CountInv, TakeSwapLock, TakeSwapLockToo
<1>2. CountInv'
  BY TakeSwapCounts DEF StoreInv
<1>3. UNCHANGED <<live, backups, staged, count, handles, alive, stores, refusals>>
  BY DEF TakeSwapLock, TakeSwapLockToo
<1>4. Beside(p) /\ Undisturbed(p)
  BY <1>1, <1>3, OthersOpen DEF Undisturbed
<1>5. Generations'
  BY <1>3 DEF StoreInv, Generations, BackupsPlaced
<1>6. count[p] > 0 => live.lock = p
  BY <1>1, OwnerInside
<1>7. (task[p].op = "materialize" => handles[p] = {}) /\ handles[p] \subseteq 1 .. stores
  BY DEF StoreInv, LockHeld, Held
<1>8. CASE Free(swapLock) /\ swapLock' = p /\ Goto(p, "mend")
  <2>1. task'[p].step = "mend" /\ task'[p].own = task[p].own /\ task'[p].op = task[p].op
        /\ \A q \in Procs \ {p} : task'[q] = task[q]
    BY <1>1, <1>8, GotoType DEF StoreInv, CountInv, Steps
  <2>2. count'[p] = Entries(p)' /\ count'[p] = count[p] /\ handles'[p] = handles[p]
    BY <1>3, <2>1, SameEntries
  <2>3. Held(p)'
    BY <1>1, <1>3, <1>6, <1>7, <2>1, <2>2 DEF Held
  <2>4. SwapHeld(p)' /\ Placed(p)'
    BY <2>1 DEF SwapHeld, Placed
  <2> QED BY <1>2, <1>3, <1>4, <1>5, <1>8, <2>1, <2>3, <2>4, BusyKeeps
<1>9. CASE ~Free(swapLock) /\ Done(p) /\ UNCHANGED swapLock
  <2>1. task'[p].step = "idle" /\ task'[p].own = FALSE /\ task'[p].op = "none"
        /\ \A q \in Procs \ {p} : task'[q] = task[q]
    BY <1>9, DoneType DEF StoreInv, CountInv
  <2>2. CASE TakeSwapLockToo(p)
    <3>1. swapLock \in Procs /\ alive[swapLock]
      BY <1>9 DEF Free, Dead, StoreInv, CountInv, StoreTypeOK
    <3>2. \A q \in Procs \ {p} : task[q] = Idle
      BY <2>2, OthersIdle DEF TakeSwapLockToo, At, Swaps
    <3>3. swapLock = p
      BY <3>1, <3>2 DEF StoreInv, SwapLockHeld, SwapHeld, Idle
    <3> QED BY <1>1, <3>3, NoSwapLock
  <2>3. CASE TakeSwapLock(p)
    <3>1. task[p].own = FALSE
      BY <1>1, <2>3 DEF TakeSwapLock, At, StoreInv, CountInv, Counted, Counts, OwnSteps, Tasks
    <3>2. count'[p] = Entries(p)' /\ count'[p] = count[p] /\ handles'[p] = handles[p]
      BY <1>3, <2>1, <3>1, SameEntries
    <3>3. Held(p)'
      BY <1>1, <1>3, <1>6, <1>7, <2>1, <3>2 DEF Held
    <3>4. SwapHeld(p)' /\ Placed(p)'
      BY <1>1, <1>9, <2>1, NoSwapLock DEF SwapHeld, Placed
    <3> QED BY <1>2, <1>3, <1>4, <1>5, <1>9, <2>1, <3>3, <3>4, BusyKeeps
  <2> QED BY <2>2, <2>3
<1> QED BY <1>8, <1>9 DEF TakeSwapLock, TakeSwapLockToo

LEMMA MendKeeps ==
  ASSUME StoreInv, StoreAssumption, SwapsAlone, NEW p \in Procs, Mend(p)
  PROVE  StoreInv'
<1>1. task[p] \in Tasks /\ task[p] # Idle /\ task[p].step = "mend" /\ alive[p]
  BY AtType DEF StoreInv, CountInv, Mend
<1>2. CountInv'
  BY MendCounts DEF StoreInv
<1>3. UNCHANGED <<handles, alive, stores, refusals>>
  BY DEF Mend
<1>4. Beside(p)
  BY <1>1, OthersOpen
<1>5. (task[p].op = "materialize" => handles[p] = {}) /\ handles[p] \subseteq 1 .. stores
  BY DEF StoreInv, LockHeld, Held
<1>6. live = Absent => ~(count[p] > 0) /\ ~task[p].own
  BY <1>1, OwnerInside
<1>7. CASE Goto(p, "sweep") /\ UNCHANGED <<count, swapLock>> /\ (live' # Absent \/ backups' = {})
           /\ Generations' /\ (live' = live \/ live = Absent)
  <2>1. task'[p].step = "sweep" /\ task'[p].own = task[p].own /\ task'[p].op = task[p].op
        /\ \A q \in Procs \ {p} : task'[q] = task[q]
    BY <1>1, <1>7, GotoType DEF StoreInv, CountInv, Steps
  <2>2. count'[p] = Entries(p)' /\ count'[p] = count[p] /\ handles'[p] = handles[p]
    BY <1>3, <1>7, <2>1, SameEntries
  <2>3. count[p] > 0 => live'.lock = p
    BY <1>1, <1>6, <1>7, OwnerInside
  <2>4. Held(p)'
    BY <1>1, <1>3, <1>5, <2>1, <2>2, <2>3 DEF Held
  <2>5. SwapHeld(p)' /\ Placed(p)'
    BY <1>7, <2>1 DEF SwapHeld, Placed
  <2>6. live'.lock = live.lock \/ Free(live.lock)
    BY <1>7 DEF Absent, Free
  <2>7. Undisturbed(p)
    BY <1>3, <1>7, FS_EmptySet DEF Undisturbed
  <2> QED BY <1>2, <1>3, <1>4, <1>7, <2>1, <2>4, <2>5, <2>6, <2>7, BusyKeeps
<1>8. CASE live # Absent \/ backups = {}
  <2>1. Goto(p, "sweep") /\ UNCHANGED <<disk, count>>
    BY <1>1, <1>8, FS_EmptySet DEF Mend
  <2>2. Generations'
    BY <1>3, <2>1 DEF StoreInv, Generations, BackupsPlaced, disk
  <2> QED BY <1>7, <1>8, <2>1, <2>2 DEF disk
<1>9. CASE live = Absent /\ Goto(p, "sweep") /\ UNCHANGED <<swapLock, count>> /\ backups' = {}
           /\ \E b \in backups : backups = {b} /\ live' = b
  <2>1. Generations'
    BY <1>3, <1>9 DEF StoreInv, Generations, BackupsPlaced
  <2> QED BY <1>7, <1>9, <2>1
<1>10. CASE live = Absent /\ swapLock' = NoProc /\ Done(p) /\ UNCHANGED <<live, backups, staged>>
            /\ IF task[p].own THEN ReleaseCount(p) ELSE UNCHANGED count
  <2>1. task'[p].step = "idle" /\ task'[p].own = FALSE /\ task'[p].op = "none"
        /\ \A q \in Procs \ {p} : task'[q] = task[q]
    BY <1>10, DoneType DEF StoreInv, CountInv
  <2>2. UNCHANGED count /\ task[p].own \in BOOLEAN /\ ~task[p].own
    BY <1>1, <1>6, <1>10 DEF Tasks
  <2>3. count'[p] = Entries(p)' /\ count'[p] = count[p] /\ handles'[p] = handles[p]
    BY <1>3, <2>1, <2>2, SameEntries
  <2>4. Held(p)'
    BY <1>3, <1>5, <1>6, <1>10, <2>1, <2>3 DEF Held
  <2>5. SwapHeld(p)' /\ Placed(p)'
    BY <1>10, <2>1 DEF SwapHeld, Placed, StoreAssumption
  <2>6. Generations'
    BY <1>3, <1>10 DEF StoreInv, Generations, BackupsPlaced
  <2>7. Undisturbed(p)
    BY <1>3, <1>10 DEF Undisturbed
  <2> QED BY <1>2, <1>3, <1>4, <1>10, <2>1, <2>2, <2>4, <2>5, <2>6, <2>7, BusyKeeps
<1> QED BY <1>8, <1>9, <1>10 DEF Mend

LEMMA SweepKeeps ==
  ASSUME StoreInv, StoreAssumption, SwapsAlone, NEW p \in Procs, Sweep(p)
  PROVE  StoreInv'
<1>1. task[p] \in Tasks /\ task[p] # Idle /\ task[p].step = "sweep" /\ alive[p]
  BY AtType DEF StoreInv, CountInv, Sweep
<1>2. CountInv'
  BY SweepCounts DEF StoreInv
<1>3. UNCHANGED <<live, count, handles, alive, stores>> /\ backups' \subseteq backups
      /\ swapLock' \in {swapLock, NoProc}
  BY DEF Sweep, RemoveBackups
<1>4. Beside(p) /\ Undisturbed(p)
  BY <1>1, <1>3, OthersOpen DEF Undisturbed
<1>5. Generations'
  BY <1>3 DEF StoreInv, Generations, BackupsPlaced
<1>6. \/ task[p].own /\ Goto(p, "inspect")
      \/ ~task[p].own /\ Goto(p, "check") /\ swapLock' = NoProc
  BY DEF Sweep
<1>7. /\ task'[p].own = task[p].own /\ task'[p].op = task[p].op
      /\ task'[p].step = "inspect" \/ (task'[p].step = "check" /\ swapLock' = NoProc)
      /\ \A q \in Procs \ {p} : task'[q] = task[q]
  BY <1>1, <1>6, GotoType DEF StoreInv, CountInv, Steps
<1>8. count'[p] = Entries(p)' /\ count'[p] = count[p] /\ handles'[p] = handles[p]
  BY <1>3, <1>7, SameEntries
<1>9. Held(p)'
  <2>1. (task[p].op = "materialize" => handles[p] = {}) /\ handles[p] \subseteq 1 .. stores
    BY DEF StoreInv, LockHeld, Held
  <2>2. count[p] > 0 => live.lock = p
    BY <1>1, OwnerInside
  <2> QED BY <1>1, <1>3, <1>7, <1>8, <2>1, <2>2 DEF Held
<1>10. SwapHeld(p)'
  BY <1>7 DEF SwapHeld, StoreAssumption
<1>11. Placed(p)'
  <2>1. live # Absent \/ backups = {}
    BY <1>1 DEF StoreInv, StepsPlaced, Placed
  <2> QED BY <1>3, <1>7, <2>1 DEF Placed
<1> QED BY <1>2, <1>3, <1>4, <1>5, <1>7, <1>9, <1>10, <1>11, BusyKeeps

LEMMA CheckKeeps ==
  ASSUME StoreInv, StoreAssumption, SwapsAlone, NEW p \in Procs, Check(p)
  PROVE  StoreInv'
<1>1. task[p] \in Tasks /\ task[p] # Idle /\ task[p].step = "check" /\ alive[p]
  BY AtType DEF StoreInv, CountInv, Check
<1>2. CountInv'
  BY CheckCounts DEF StoreInv
<1>3. UNCHANGED <<disk, count, handles, alive, stores, refusals>> /\ (Goto(p, "mkdir") \/ Done(p))
  BY DEF Check
<1>4. Beside(p) /\ Undisturbed(p)
  BY <1>1, <1>3, OthersOpen DEF Undisturbed, disk
<1>5. Generations'
  BY <1>3 DEF StoreInv, Generations, BackupsPlaced, disk
<1>6. task[p].own = FALSE
  BY <1>1 DEF StoreInv, CountInv, Counted, Counts, OwnSteps, Tasks
<1>7. /\ task'[p].own = task[p].own /\ task'[p].op \in {task[p].op, "none"}
      /\ task'[p].step \in {"mkdir", "idle"}
      /\ \A q \in Procs \ {p} : task'[q] = task[q]
  BY <1>1, <1>3, <1>6, GotoType, DoneType DEF StoreInv, CountInv, Steps
<1>8. count'[p] = Entries(p)' /\ count'[p] = count[p] /\ handles'[p] = handles[p]
  BY <1>3, <1>7, SameEntries
<1>9. Held(p)'
  <2>1. (task[p].op = "materialize" => handles[p] = {}) /\ handles[p] \subseteq 1 .. stores
    BY DEF StoreInv, LockHeld, Held
  <2>2. count[p] > 0 => live.lock = p
    BY <1>1, OwnerInside
  <2> QED BY <1>1, <1>3, <1>7, <1>8, <2>1, <2>2 DEF Held, disk
<1>10. SwapHeld(p)'
  BY <1>1, <1>3, NoSwapLock DEF SwapHeld, disk
<1>11. Placed(p)'
  <2>1. live # Absent \/ backups = {}
    BY <1>1 DEF StoreInv, StepsPlaced, Placed
  <2> QED BY <1>3, <1>7, <2>1 DEF Placed, disk
<1> QED BY <1>2, <1>3, <1>4, <1>5, <1>7, <1>9, <1>10, <1>11, BusyKeeps DEF disk

\* An operation that releases the lock it entered leaves what the handles need.
LEMMA ReleaseHolds ==
  ASSUME StoreInv, NEW p \in Procs, task[p].own, alive[p], ReleaseCount(p), Done(p),
         UNCHANGED <<handles, alive>>, stores' = stores \/ stores' = stores + 1,
         swapLock' # p, count[p] # 1 => live'.lock = p
  PROVE  Held(p)' /\ SwapHeld(p)' /\ Placed(p)'
<1>1. task'[p].step = "idle" /\ task'[p].own = FALSE /\ task'[p].op = "none"
  BY DoneType DEF StoreInv, CountInv
<1>2. count[p] \in Nat /\ count[p] >= 1 /\ count'[p] = count[p] - 1
  BY EntriesType, DoneCounts DEF StoreInv
<1>3. count[p] = Cardinality(handles[p]) + 1 /\ Cardinality(handles[p]) \in Nat
  BY EntriesType DEF StoreInv, LockHeld, Held
<1>4. count'[p] = Entries(p)'
  BY <1>1, <1>2, <1>3 DEF Entries
<1>5. handles'[p] \subseteq 1 .. stores'
  BY DEF StoreInv, LockHeld, Held, CountInv, StoreTypeOK
<1>6. count'[p] > 0 => count[p] # 1
  BY <1>2
<1> QED BY <1>1, <1>4, <1>5, <1>6 DEF Held, SwapHeld, Placed

LEMMA MakeDirectoryKeeps ==
  ASSUME StoreInv, StoreAssumption, SwapsAlone, NEW p \in Procs, MakeDirectory(p)
  PROVE  StoreInv'
<1>1. task[p] \in Tasks /\ task[p] # Idle /\ task[p].step = "mkdir" /\ alive[p]
  BY AtType DEF StoreInv, CountInv, MakeDirectory
<1>2. CountInv'
  BY MakeDirectoryCounts DEF StoreInv
<1>3. UNCHANGED <<backups, staged, swapLock, handles, alive, stores, refusals>>
  BY DEF MakeDirectory
<1>4. Beside(p)
  BY <1>1, OthersOpen
<1>5. task[p].own = FALSE /\ count[p] \in Nat /\ count \in [Procs -> Nat]
  BY <1>1 DEF StoreInv, CountInv, StoreTypeOK, Counted, Counts, OwnSteps, Tasks
<1>6. (task[p].op = "materialize" => handles[p] = {}) /\ handles[p] \subseteq 1 .. stores
  BY DEF StoreInv, LockHeld, Held
<1>7. SwapHeld(p)'
  BY <1>1, <1>3, NoSwapLock DEF SwapHeld
<1>8. CASE task[p].op = "materialize" /\ live # Absent /\ Done(p) /\ UNCHANGED <<live, count>>
  <2>1. task'[p].step = "idle" /\ task'[p].own = task[p].own /\ task'[p].op = "none"
        /\ \A q \in Procs \ {p} : task'[q] = task[q]
    BY <1>5, <1>8, DoneType DEF StoreInv, CountInv
  <2>2. count'[p] = Entries(p)' /\ count'[p] = count[p] /\ handles'[p] = handles[p]
    BY <1>3, <1>8, <2>1, SameEntries
  <2>3. count[p] > 0 => live.lock = p
    BY <1>1, OwnerInside
  <2>4. Held(p)'
    BY <1>1, <1>3, <1>6, <1>8, <2>1, <2>2, <2>3 DEF Held
  <2>5. Placed(p)'
    BY <2>1 DEF Placed
  <2>6. Generations'
    BY <1>3, <1>8 DEF StoreInv, Generations, BackupsPlaced
  <2>7. Undisturbed(p)
    BY <1>3, <1>8 DEF Undisturbed
  <2> QED BY <1>2, <1>3, <1>4, <1>7, <1>8, <2>1, <2>4, <2>5, <2>6, <2>7, BusyKeeps
<1>9. CASE /\ count[p] > 0 /\ (task[p].op = "materialize" => live = Absent)
           /\ count' = [count EXCEPT ![p] = @ + 1]
           /\ AfterLock(p)
           /\ live' = IF task[p].op = "materialize" THEN EmptyDirectory ELSE live
  <2>1. live.lock = p /\ live # Absent
    BY <1>1, <1>9, OwnerInside
  <2>2. live' = live /\ task[p].op # "materialize"
    BY <1>9, <2>1
  <2>3. task'[p].step \in {"swapAgain", "database"} /\ task'[p].own = TRUE /\ task'[p].op = task[p].op
        /\ \A q \in Procs \ {p} : task'[q] = task[q]
    BY <1>1, <1>9, AfterLockType DEF StoreInv, CountInv
  <2>4. count'[p] = count[p] + 1 /\ handles'[p] = handles[p] /\ \A q \in Procs \ {p} : count'[q] = count[q]
    BY <1>3, <1>5, <1>9
  <2>5. count[p] = Cardinality(handles[p]) /\ Cardinality(handles[p]) \in Nat
    BY <1>5, EntriesType DEF StoreInv, LockHeld, Held
  <2>6. count'[p] = Entries(p)'
    BY <2>3, <2>4, <2>5 DEF Entries
  <2>7. Held(p)'
    BY <1>1, <1>3, <1>6, <2>1, <2>2, <2>3, <2>4, <2>6 DEF Held
  <2>8. Placed(p)'
    BY <2>3 DEF Placed
  <2>9. Generations'
    BY <1>3, <2>2 DEF StoreInv, Generations, BackupsPlaced
  <2>10. Undisturbed(p)
    BY <1>3, <2>1, <2>2 DEF Undisturbed
  <2> QED BY <1>2, <1>3, <1>4, <1>7, <2>2, <2>3, <2>4, <2>7, <2>8, <2>9, <2>10, BusyKeeps
<1>10. CASE /\ count[p] = 0
            /\ live' = IF live = Absent THEN EmptyDirectory ELSE live
            /\ Goto(p, "lock")
            /\ UNCHANGED count
  <2>1. task'[p].step = "lock" /\ task'[p].own = task[p].own /\ task'[p].op = task[p].op
        /\ \A q \in Procs \ {p} : task'[q] = task[q]
    BY <1>1, <1>10, GotoType DEF StoreInv, CountInv, Steps
  <2>2. count'[p] = Entries(p)' /\ count'[p] = count[p] /\ handles'[p] = handles[p]
    BY <1>3, <1>10, <2>1, SameEntries
  <2>3. live' # Absent
    BY <1>10 DEF Absent, EmptyDirectory
  <2>4. Held(p)'
    BY <1>3, <1>6, <1>10, <2>1, <2>2, <2>3 DEF Held
  <2>5. Placed(p)'
    BY <2>1 DEF Placed
  <2>6. live'.lock = live.lock \/ Free(live.lock)
    BY <1>10 DEF Absent, Free
  <2>7. Generations'
    <3>1. CASE live = Absent
      <4>1. backups = {}
        BY <1>1, <3>1 DEF StoreInv, StepsPlaced, Placed
      <4>2. live'.id = 0 /\ live'.gen = 0 /\ live'.whole /\ stores \in Nat
        BY <1>10, <3>1 DEF EmptyDirectory, StoreInv, CountInv, StoreTypeOK
      <4> QED BY <1>3, <4>1, <4>2 DEF Generations, BackupsPlaced
    <3>2. CASE live # Absent
      BY <1>3, <1>10, <3>2 DEF StoreInv, Generations, BackupsPlaced
    <3> QED BY <3>1, <3>2
  <2>8. Undisturbed(p)
    BY <1>3, <1>10, <2>3 DEF Undisturbed
  <2> QED BY <1>2, <1>3, <1>4, <1>7, <1>10, <2>1, <2>4, <2>5, <2>6, <2>7, <2>8, BusyKeeps
<1> QED BY <1>8, <1>9, <1>10 DEF MakeDirectory

LEMMA TakeWriteLockKeeps ==
  ASSUME StoreInv, StoreAssumption, SwapsAlone, NEW p \in Procs, TakeWriteLock(p)
  PROVE  StoreInv'
<1>1. task[p] \in Tasks /\ task[p] # Idle /\ task[p].step = "lock" /\ alive[p]
  BY AtType DEF StoreInv, CountInv, TakeWriteLock
<1>2. count[p] = 0 /\ live # Absent /\ handles[p] \subseteq 1 .. stores
      /\ (task[p].op = "materialize" => handles[p] = {})
  BY <1>1 DEF StoreInv, LockHeld, Held
<1>3. CountInv'
  BY <1>2, TakeWriteLockCounts DEF StoreInv
<1>4. UNCHANGED <<backups, staged, swapLock, handles, alive, stores, refusals>>
  BY DEF TakeWriteLock
<1>5. Beside(p)
  BY <1>1, OthersOpen
<1>6. task[p].own = FALSE
  BY <1>1 DEF StoreInv, CountInv, Counted, Counts, OwnSteps, Tasks
<1>7. SwapHeld(p)'
  BY <1>1, <1>4, NoSwapLock DEF SwapHeld
<1>8. CASE /\ Free(live.lock) \/ live.lock = p
           /\ live' = [live EXCEPT !.lock = p]
           /\ count' = [count EXCEPT ![p] = 1]
           /\ AfterLock(p)
  <2>1. task'[p].step \in {"swapAgain", "database"} /\ task'[p].own = TRUE /\ task'[p].op = task[p].op
        /\ \A q \in Procs \ {p} : task'[q] = task[q]
    BY <1>1, <1>8, AfterLockType DEF StoreInv, CountInv
  <2>2. count'[p] = 1 /\ \A q \in Procs \ {p} : count'[q] = count[q]
    BY <1>8 DEF StoreInv, CountInv, StoreTypeOK
  <2>3. live'.lock = p /\ live'.id = live.id /\ live'.gen = live.gen /\ live'.whole = live.whole
    BY <1>8 DEF StoreInv, CountInv, StoreTypeOK, Stores
  <2>4. Cardinality(handles[p]) = 0
    BY <1>2, <1>6, EntriesType DEF StoreInv, LockHeld, Held
  <2>5. count'[p] = Entries(p)'
    BY <1>4, <2>1, <2>2, <2>4 DEF Entries
  <2>6. Held(p)'
    BY <1>1, <1>2, <1>4, <2>1, <2>3, <2>5 DEF Held
  <2>7. Placed(p)'
    BY <2>1 DEF Placed
  <2>8. Generations'
    BY <1>2, <1>4, <2>3 DEF StoreInv, Generations, BackupsPlaced
  <2>9. Undisturbed(p)
    BY <1>4, <2>3, StoreAssumption DEF Undisturbed, Absent
  <2> QED BY <1>3, <1>4, <1>5, <1>7, <1>8, <2>1, <2>2, <2>3, <2>6, <2>7, <2>8, <2>9, BusyKeeps
<1>9. CASE Done(p) /\ UNCHANGED <<live, count>>
  <2>1. task'[p].step = "idle" /\ task'[p].own = task[p].own /\ task'[p].op = "none"
        /\ \A q \in Procs \ {p} : task'[q] = task[q]
    BY <1>6, <1>9, DoneType DEF StoreInv, CountInv
  <2>2. count'[p] = Entries(p)' /\ count'[p] = count[p] /\ handles'[p] = handles[p]
    BY <1>4, <1>9, <2>1, SameEntries
  <2>3. Held(p)'
    BY <1>2, <1>4, <2>1, <2>2 DEF Held
  <2>4. Placed(p)'
    BY <2>1 DEF Placed
  <2>5. Generations'
    BY <1>4, <1>9 DEF StoreInv, Generations, BackupsPlaced
  <2>6. Undisturbed(p)
    BY <1>4, <1>9 DEF Undisturbed
  <2> QED BY <1>3, <1>4, <1>5, <1>7, <1>9, <2>1, <2>3, <2>4, <2>5, <2>6, BusyKeeps
<1> QED BY <1>8, <1>9 DEF TakeWriteLock

\* A new database in a directory that had none, where nothing lay beside it.
LEMMA NewGenerations ==
  ASSUME StoreInv, live # Absent, live.id = 0, stores' = stores + 1, UNCHANGED backups, live'.id = stores',
         live'.gen = 0 => live'.whole
  PROVE  Generations' /\ \A q \in Procs : live'.id \notin handles[q]
<1>1. live.gen = 0
  BY DEF StoreInv, Generations
<1>2. backups = {}
  BY <1>1, NothingBeside
<1>3. stores \in Nat /\ stores' # 0 /\ stores' \in Nat
  BY DEF StoreInv, CountInv, StoreTypeOK
<1>4. \A q \in Procs : live'.id \notin handles[q]
  BY <1>3 DEF StoreInv, LockHeld, Held
<1> QED BY <1>2, <1>3, <1>4 DEF Generations, BackupsPlaced

\* The operation's entry becomes the entry of the handle it ends with.
LEMMA HandHolds ==
  ASSUME StoreInv, StoreAssumption, NEW p \in Procs, task[p].own, task[p].step # "publish",
         Done(p), Hand(p), UNCHANGED <<count, alive, stores, swapLock>>,
         live.id # 0, live.id \notin handles[p], live'.lock = live.lock, swapLock # p
  PROVE  Held(p)' /\ SwapHeld(p)' /\ Placed(p)'
<1>1. task'[p].step = "idle" /\ task'[p].own = FALSE /\ task'[p].op = "none"
  BY DoneType DEF StoreInv, CountInv
<1>2. IsFiniteSet(handles[p]) /\ Cardinality(handles[p]) \in Nat
  BY EntriesType DEF StoreInv, CountInv, Counted, Counts
<1>3. count[p] = Cardinality(handles[p]) + 1
  BY EntriesType DEF StoreInv, LockHeld, Held
<1>4. handles'[p] = handles[p] \cup {live.id}
  BY HandCounts DEF StoreInv
<1>5. Cardinality(handles'[p]) = Cardinality(handles[p]) + 1
  BY <1>2, <1>4, FS_AddElement
<1>6. count'[p] = Entries(p)'
  BY <1>1, <1>2, <1>3, <1>5 DEF Entries
<1>7. live.id \in 1 .. stores
  BY DEF StoreInv, Generations, CountInv, StoreTypeOK, Stores
<1>8. handles'[p] \subseteq 1 .. stores'
  BY <1>4, <1>7 DEF StoreInv, LockHeld, Held
<1>9. live.lock = p /\ alive[p]
  BY OwnerInside
<1> QED BY <1>1, <1>6, <1>8, <1>9 DEF Held, SwapHeld, Placed

\* The owner of the lock may put a database into the directory and change it.
LEMMA OwnerStays ==
  ASSUME StoreInv, NEW p \in Procs, count[p] >= 1, live # Absent,
         \/ live'.id = live.id /\ live'.gen = live.gen /\ live'.whole = live.whole
         \/ live' = live
         \/ live'.id # 0 \/ live'.gen # 0 \/ live'.whole
  PROVE  Undisturbed(p)
<1>1. count[p] \in Nat /\ count[p] > 0
  BY DEF StoreInv, CountInv, StoreTypeOK
<1>2. live.id # 0 \/ live.gen # 0 \/ live.whole
  BY DEF StoreInv, Generations
<1>3. live' # Absent
  BY <1>2 DEF Absent
<1> QED BY <1>1, <1>3 DEF Undisturbed

LEMMA OpenKeeps ==
  ASSUME StoreInv, StoreAssumption, SwapsAlone, NEW p \in Procs, OpenDatabase(p)
  PROVE  StoreInv'
<1>1. task[p] \in Tasks /\ task[p] # Idle /\ task[p].step = "database" /\ alive[p]
  BY AtType DEF StoreInv, CountInv, OpenDatabase
<1>2. live.gen > 0 => live.id # 0
  BY DEF StoreInv, Generations
<1>3. CountInv'
  BY <1>2, OpenCounts DEF StoreInv
<1>4. UNCHANGED <<backups, staged, swapLock, alive, refusals>> /\ Done(p)
  BY DEF OpenDatabase
<1>5. Beside(p)
  BY <1>1, OthersOpen
<1>6. task[p].own
  BY <1>1 DEF StoreInv, CountInv, Counted, Counts, OwnSteps
<1>7. live.lock = p /\ live # Absent /\ count[p] >= 1 /\ count[p] \in Nat
  BY <1>1, <1>6, OwnerInside DEF StoreInv, CountInv, StoreTypeOK
<1>8. swapLock # p
  BY <1>1, NoSwapLock
<1>9. \A q \in Procs \ {p} : task'[q] = task[q]
  BY <1>4, DoneType DEF StoreInv, CountInv
<1>10. CASE /\ live # Absent /\ live.id = 0 /\ stores' = stores + 1
            /\ live' = [AfterRelease(p, live) EXCEPT !.id = stores']
            /\ ReleaseCount(p) /\ UNCHANGED handles
  <2>1. AfterRelease(p, live) \in Stores /\ (count[p] # 1 => AfterRelease(p, live).lock = p)
        /\ AfterRelease(p, live).lock \in {p, NoProc}
    BY <1>7, ReleaseType DEF StoreInv, CountInv, StoreTypeOK
  <2>2. live'.id = stores' /\ live'.lock = AfterRelease(p, live).lock
        /\ live'.gen = live.gen /\ live'.whole = live.whole
    BY <1>10, <2>1, ReleaseType DEF Stores, StoreInv, CountInv, StoreTypeOK
  <2>3. Held(p)' /\ SwapHeld(p)' /\ Placed(p)'
    BY <1>1, <1>4, <1>6, <1>8, <1>10, <2>1, <2>2, ReleaseHolds
  <2>4. Generations'
    <3>1. live'.gen = 0 => live'.whole
      BY <1>10, <2>2 DEF StoreInv, Generations
    <3> QED BY <1>4, <1>10, <2>2, <3>1, NewGenerations
  <2>5. \A q \in Procs \ {p} : count'[q] = count[q]
    BY <1>4, <1>6, <1>10, DoneCounts DEF StoreInv
  <2>6. Undisturbed(p)
    <3>1. live'.id # 0
      BY <1>10, <2>2 DEF StoreInv, CountInv, StoreTypeOK
    <3> QED BY <1>7, <3>1, OwnerStays
  <2> QED BY <1>3, <1>4, <1>5, <1>7, <1>9, <1>10, <2>3, <2>4, <2>5, <2>6, BusyKeeps
<1>11. CASE ReleaseWrite(p) /\ UNCHANGED <<handles, stores>>
  <2>1. live'.id = live.id /\ live'.gen = live.gen /\ live'.whole = live.whole
        /\ (count[p] # 1 => live'.lock = p)
    BY <1>7, <1>11, ReleaseType DEF StoreInv, CountInv, StoreTypeOK, ReleaseWrite
  <2>2. Held(p)' /\ SwapHeld(p)' /\ Placed(p)'
    BY <1>1, <1>4, <1>6, <1>8, <1>11, <2>1, ReleaseHolds DEF ReleaseWrite
  <2>3. Generations'
    BY <1>4, <1>7, <1>11, <2>1 DEF StoreInv, Generations, BackupsPlaced
  <2>4. \A q \in Procs \ {p} : count'[q] = count[q]
    BY <1>4, <1>6, <1>11, DoneCounts DEF StoreInv, ReleaseWrite
  <2>5. Undisturbed(p)
    BY <1>7, <2>1, OwnerStays
  <2> QED BY <1>3, <1>4, <1>5, <1>7, <1>9, <1>11, <2>2, <2>3, <2>4, <2>5, BusyKeeps
<1>12. CASE live.gen > 0 /\ live.id \notin handles[p] /\ Hand(p) /\ UNCHANGED <<live, count, stores>>
  <2>1. Held(p)' /\ SwapHeld(p)' /\ Placed(p)'
    BY <1>1, <1>2, <1>4, <1>6, <1>8, <1>12, HandHolds
  <2>2. Generations'
    BY <1>4, <1>12 DEF StoreInv, Generations, BackupsPlaced
  <2>3. \A q \in Procs \ {p} : handles'[q] = handles[q]
    BY <1>2, <1>4, <1>6, <1>12, HandCounts DEF StoreInv
  <2>4. Undisturbed(p)
    BY <1>7, <1>12, OwnerStays
  <2> QED BY <1>3, <1>4, <1>5, <1>9, <1>12, <2>1, <2>2, <2>3, <2>4, BusyKeeps
<1> QED BY <1>7, <1>10, <1>11, <1>12 DEF OpenDatabase

LEMMA CreateKeeps ==
  ASSUME StoreInv, StoreAssumption, SwapsAlone, NEW p \in Procs, CreateDatabase(p)
  PROVE  StoreInv'
<1>1. task[p] \in Tasks /\ task[p] # Idle /\ task[p].step = "database" /\ alive[p] /\ task[p].op = "create"
  BY AtType DEF StoreInv, CountInv, CreateDatabase, At
<1>2. CountInv'
  BY CreateCounts DEF StoreInv
<1>3. UNCHANGED <<backups, staged, swapLock, handles, alive, refusals>>
  BY DEF CreateDatabase
<1>4. Beside(p)
  BY <1>1, OthersOpen
<1>5. task[p].own
  BY <1>1 DEF StoreInv, CountInv, Counted, Counts, OwnSteps
<1>6. live.lock = p /\ live # Absent /\ count[p] >= 1 /\ count[p] \in Nat
  BY <1>1, <1>5, OwnerInside DEF StoreInv, CountInv, StoreTypeOK
<1>7. swapLock # p
  BY <1>1, NoSwapLock
<1>8. CASE live.id = 0 /\ NewDatabase(0, TRUE) /\ Goto(p, "insert") /\ UNCHANGED count
  <2>1. stores' = stores + 1 /\ stores' # 0 /\ live'.id = stores' /\ live'.gen = 0 /\ live'.whole
        /\ live'.lock = live.lock
    <3>1. StoreTypeOK /\ NewDatabase(0, TRUE) /\ 0 \in Nat /\ TRUE \in BOOLEAN
      BY <1>8 DEF StoreInv, CountInv
    <3>2. stores' \in Nat \ {0} /\ stores' = stores + 1 /\ live'.id = stores' /\ live'.gen = 0
          /\ live'.whole = TRUE /\ live'.lock = live.lock
      BY <3>1, NewDatabaseType
    <3> QED BY <3>2
  <2>2. task'[p].step = "insert" /\ task'[p].own = task[p].own /\ task'[p].op = task[p].op
        /\ \A q \in Procs \ {p} : task'[q] = task[q]
    BY <1>1, <1>8, GotoType DEF StoreInv, CountInv, Steps
  <2>3. count'[p] = Entries(p)' /\ count'[p] = count[p] /\ handles'[p] = handles[p]
    BY <1>3, <1>8, <2>2, SameEntries
  <2>4. Generations' /\ \A q \in Procs : live'.id \notin handles[q]
    BY <1>3, <1>6, <1>8, <2>1, NewGenerations
  <2>5. handles[p] \subseteq 1 .. stores'
    BY <2>1 DEF StoreInv, LockHeld, Held, CountInv, StoreTypeOK
  <2>6. Held(p)'
    BY <1>1, <1>3, <1>6, <2>1, <2>2, <2>3, <2>5 DEF Held
  <2>7. SwapHeld(p)'
    BY <1>3, <1>7 DEF SwapHeld
  <2>8. Placed(p)'
    BY <1>3, <2>1, <2>2, <2>4 DEF Placed
  <2>9. Undisturbed(p)
    BY <1>6, <2>1, OwnerStays
  <2> QED BY <1>2, <1>3, <1>4, <1>8, <2>1, <2>2, <2>4, <2>6, <2>7, <2>8, <2>9, BusyKeeps
<1>9. CASE ReleaseWrite(p) /\ Done(p) /\ UNCHANGED stores
  <2>1. live'.id = live.id /\ live'.gen = live.gen /\ live'.whole = live.whole
        /\ (count[p] # 1 => live'.lock = p)
    BY <1>6, <1>9, ReleaseType DEF StoreInv, CountInv, StoreTypeOK, ReleaseWrite
  <2>2. Held(p)' /\ SwapHeld(p)' /\ Placed(p)'
    BY <1>1, <1>3, <1>5, <1>7, <1>9, <2>1, ReleaseHolds DEF ReleaseWrite
  <2>3. Generations'
    BY <1>3, <1>6, <1>9, <2>1 DEF StoreInv, Generations, BackupsPlaced
  <2>4. \A q \in Procs \ {p} : count'[q] = count[q] /\ task'[q] = task[q]
    BY <1>3, <1>5, <1>9, DoneCounts, DoneType DEF StoreInv, ReleaseWrite, CountInv
  <2>5. Undisturbed(p)
    BY <1>6, <2>1, OwnerStays
  <2> QED BY <1>2, <1>3, <1>4, <1>6, <1>9, <2>2, <2>3, <2>4, <2>5, BusyKeeps
<1> QED BY <1>8, <1>9 DEF CreateDatabase

LEMMA InsertKeeps ==
  ASSUME StoreInv, StoreAssumption, SwapsAlone, NEW p \in Procs, InsertProject(p)
  PROVE  StoreInv'
<1>1. task[p] \in Tasks /\ task[p] # Idle /\ task[p].step = "insert" /\ alive[p]
  BY AtType DEF StoreInv, CountInv, InsertProject
<1>2. live.id # 0 /\ live.gen = 0 /\ live.whole /\ \A q \in Procs : live.id \notin handles[q]
  BY <1>1 DEF StoreInv, StepsPlaced, Placed
<1>3. CountInv'
  BY <1>2, InsertCounts DEF StoreInv
<1>4. UNCHANGED <<backups, staged, swapLock, alive, stores, refusals>> /\ Done(p)
  BY DEF InsertProject
<1>5. Beside(p) /\ \A q \in Procs \ {p} : task'[q] = task[q]
  BY <1>1, <1>4, OthersOpen, DoneType DEF StoreInv, CountInv
<1>6. task[p].own
  BY <1>1 DEF StoreInv, CountInv, Counted, Counts, OwnSteps
<1>7. live.lock = p /\ live # Absent /\ count[p] >= 1 /\ count[p] \in Nat
  BY <1>1, <1>6, OwnerInside DEF StoreInv, CountInv, StoreTypeOK
<1>8. swapLock # p
  BY <1>1, NoSwapLock
<1>9. backups = {}
  BY <1>2, <1>7, NothingBeside
<1>10. CASE live' = [live EXCEPT !.gen = 1] /\ Hand(p) /\ UNCHANGED count
  <2>1. live'.id = live.id /\ live'.lock = live.lock /\ live'.gen = 1
    BY <1>10 DEF StoreInv, CountInv, StoreTypeOK, Stores
  <2>2. Held(p)' /\ SwapHeld(p)' /\ Placed(p)'
    BY <1>1, <1>2, <1>4, <1>6, <1>8, <1>10, <2>1, HandHolds
  <2>3. Generations'
    BY <1>2, <1>4, <1>9, <2>1 DEF StoreInv, Generations, BackupsPlaced
  <2>4. \A q \in Procs \ {p} : handles'[q] = handles[q]
    BY <1>2, <1>4, <1>6, <1>10, HandCounts DEF StoreInv
  <2>5. Undisturbed(p)
    BY <1>7, <2>1, OwnerStays
  <2> QED BY <1>3, <1>4, <1>5, <1>10, <2>1, <2>2, <2>3, <2>4, <2>5, BusyKeeps
<1>11. CASE ReleaseWrite(p) /\ UNCHANGED handles
  <2>1. live'.id = live.id /\ live'.gen = live.gen /\ live'.whole = live.whole
        /\ (count[p] # 1 => live'.lock = p)
    BY <1>7, <1>11, ReleaseType DEF StoreInv, CountInv, StoreTypeOK, ReleaseWrite
  <2>2. Held(p)' /\ SwapHeld(p)' /\ Placed(p)'
    BY <1>1, <1>4, <1>6, <1>8, <1>11, <2>1, ReleaseHolds DEF ReleaseWrite
  <2>3. Generations'
    BY <1>2, <1>4, <1>9, <2>1 DEF StoreInv, Generations, BackupsPlaced
  <2>4. \A q \in Procs \ {p} : count'[q] = count[q]
    BY <1>4, <1>6, <1>11, DoneCounts DEF StoreInv, ReleaseWrite
  <2>5. Undisturbed(p)
    BY <1>7, <2>1, OwnerStays
  <2> QED BY <1>3, <1>4, <1>5, <1>7, <1>11, <2>2, <2>3, <2>4, <2>5, BusyKeeps
<1> QED BY <1>10, <1>11 DEF InsertProject

LEMMA WriteKeeps ==
  ASSUME StoreInv, StoreAssumption, NEW p \in Procs, Write(p)
  PROVE  StoreInv'
<1>1. task[p] = Idle /\ live.id \in handles[p] /\ live.gen \in Nat /\ live.gen >= 1
      /\ live' = [live EXCEPT !.gen = @ + 1]
      /\ UNCHANGED <<backups, staged, swapLock, memory, stores, refusals>>
  BY DEF Write, StoreInv, CountInv, StoreTypeOK, Stores
<1>2. CountInv'
  BY WriteCounts DEF StoreInv
<1>3. live.lock = p /\ live.id # 0 /\ live # Absent
  <2>1. live.lock = p /\ live.id # 0
    BY <1>1, HandleOwns DEF StoreInv, CountInv, StoreTypeOK
  <2> QED BY <2>1 DEF Absent
<1>4. live'.lock = live.lock /\ live'.id = live.id /\ live'.gen = live.gen + 1 /\ live'.whole = live.whole
  BY <1>1 DEF StoreInv, CountInv, StoreTypeOK, Stores
<1>5. LockHeld'
  <2> SUFFICES ASSUME NEW q \in Procs PROVE Held(q)'
    BY DEF LockHeld
  <2>1. live' # Absent
    BY <1>1, <1>4 DEF Absent
  <2> QED BY <1>1, <1>4, <2>1 DEF StoreInv, LockHeld, Held, Entries, memory
<1>6. SwapLockHeld'
  BY <1>1 DEF StoreInv, SwapLockHeld, SwapHeld, memory
<1>7. \A x \in backups : x.gen < live.gen /\ x.gen \in Nat
  BY <1>1 DEF StoreInv, Generations, BackupsPlaced, CountInv, StoreTypeOK, Stores
<1>8. Generations'
  BY <1>1, <1>4, <1>7 DEF StoreInv, Generations, BackupsPlaced
<1>9. StepsPlaced'
  <2> SUFFICES ASSUME NEW q \in Procs PROVE Placed(q)'
    BY DEF StepsPlaced
  <2>1. task[q].step \notin OwnSteps
    <3>1. CASE q = p
      BY <1>1, <3>1 DEF Idle, OwnSteps
    <3>2. CASE q # p
      <4>1. task[q].step = "publish" => live = Absent
        BY DEF StoreInv, StepsPlaced, Placed
      <4>2. task[q].own => live.lock = q
        BY <1>3, <4>1, OwnerInside
      <4> QED BY <1>3, <3>2, <4>2 DEF StoreInv, CountInv, Counted, Counts
    <3> QED BY <3>1, <3>2
  <2>2. live' # Absent /\ task' = task
    BY <1>1, <1>4 DEF Absent, memory
  <2> QED BY <2>1, <2>2 DEF Placed, OwnSteps
<1> QED BY <1>2, <1>5, <1>6, <1>8, <1>9 DEF StoreInv

LEMMA CloseKeeps ==
  ASSUME StoreInv, StoreAssumption, NEW p \in Procs, Close(p)
  PROVE  StoreInv'
<1>1. /\ CountInv' /\ count'[p] = count[p] - 1 /\ task[p].own = FALSE
      /\ Cardinality(handles'[p]) = Cardinality(handles[p]) - 1
      /\ handles'[p] \subseteq handles[p] /\ handles[p] # {}
      /\ \A q \in Procs \ {p} : handles'[q] = handles[q] /\ count'[q] = count[q]
  BY CloseCounts DEF StoreInv
<1>2. task[p] = Idle /\ ReleaseWrite(p) /\ UNCHANGED <<backups, staged, swapLock, task, alive, stores, refusals>>
  BY DEF Close
<1>3. task[p].step = "idle" /\ task[p].op = "none"
  BY <1>2 DEF Idle
<1>4. count[p] > 0 /\ count[p] \in Nat
  BY <1>1, HandleCounts DEF StoreInv, CountInv, StoreTypeOK
<1>5. live.lock = p /\ live # Absent /\ alive[p]
  BY <1>3, <1>4, OwnerInside
<1>6. live'.id = live.id /\ live'.gen = live.gen /\ live'.whole = live.whole
      /\ (count[p] # 1 => live'.lock = p)
  BY <1>2, <1>5, ReleaseType DEF StoreInv, CountInv, StoreTypeOK, ReleaseWrite
<1>7. \A q \in Procs \ {p} : count[q] > 0 => task[q].step = "publish"
  BY <1>5 DEF StoreInv, LockHeld, Held
<1>8. \A q \in Procs : task[q].step \notin {"publish", "lock"} \/ live = Absent \/ count[q] = 0
  BY DEF StoreInv, LockHeld, Held, StepsPlaced, Placed
<1>9. \A q \in Procs \ {p} : ~(count[q] > 0) /\ ~task[q].own
  <2> TAKE q \in Procs \ {p}
  <2>1. task[q].step # "publish"
    BY <1>5 DEF StoreInv, StepsPlaced, Placed
  <2> QED BY <1>5, <2>1, OwnerInside
<1>10. live' = live \/ live' # Absent
  BY <1>5, <1>6 DEF StoreInv, Generations, Absent
<1>11. LockHeld'
  <2> SUFFICES ASSUME NEW q \in Procs PROVE Held(q)'
    BY DEF LockHeld
  <2>1. CASE q = p
    <3>1. count[p] = Cardinality(handles[p]) /\ Cardinality(handles[p]) \in Nat
      BY <1>1, EntriesType DEF StoreInv, LockHeld, Held
    <3>2. count'[p] = Entries(p)'
      BY <1>1, <1>2, <3>1 DEF Entries
    <3>3. count'[p] > 0 => count[p] # 1
      BY <1>1, <1>4
    <3>4. handles'[p] \subseteq 1 .. stores'
      BY <1>1, <1>2 DEF StoreInv, LockHeld, Held
    <3> QED BY <1>2, <1>3, <1>5, <1>6, <2>1, <3>2, <3>3, <3>4 DEF Held
  <2>2. CASE q # p
    <3>1. count'[q] = count[q] /\ handles'[q] = handles[q] /\ ~(count[q] > 0)
      BY <1>1, <1>9, <2>2
    <3>2. task[q].step = "lock" => live' # Absent
      BY <1>5, <1>10
    <3> QED BY <1>2, <3>1, <3>2 DEF StoreInv, LockHeld, Held, Entries
  <2> QED BY <2>1, <2>2
<1>12. SwapLockHeld'
  BY <1>2 DEF StoreInv, SwapLockHeld, SwapHeld
<1>13. Generations'
  BY <1>2, <1>5, <1>6 DEF StoreInv, Generations, BackupsPlaced
<1>14. StepsPlaced'
  <2> SUFFICES ASSUME NEW q \in Procs PROVE Placed(q)'
    BY DEF StepsPlaced
  <2>1. task[q].step \notin OwnSteps
    BY <1>3, <1>9 DEF StoreInv, CountInv, Counted, Counts, OwnSteps
  <2>2. live' # Absent
    BY <1>5, <1>10
  <2> QED BY <1>2, <2>1, <2>2 DEF Placed, OwnSteps
<1> QED BY <1>1, <1>11, <1>12, <1>13, <1>14 DEF StoreInv

\* A replacement that ends with both locks released, whatever becomes of backups
\* that are removed.
LEMMA ReleaseBothKeeps ==
  ASSUME StoreInv, StoreAssumption, SwapsAlone, NEW p \in Procs, ReleaseBoth(p),
         task[p].op \in Swaps, task[p].own, task[p].step # "publish", alive[p],
         UNCHANGED <<handles, alive, stores>>, backups' \subseteq backups, CountInv'
  PROVE  StoreInv'
<1>1. ReleaseCount(p) /\ Done(p) /\ live' = AfterRelease(p, live) /\ swapLock' = NoProc
  BY DEF ReleaseBoth, ReleaseWrite
<1>2. live.lock = p /\ live # Absent
  BY OwnerInside
<1>3. live'.id = live.id /\ live'.gen = live.gen /\ live'.whole = live.whole
      /\ (count[p] # 1 => live'.lock = p)
  BY <1>1, <1>2, ReleaseType DEF StoreInv, CountInv, StoreTypeOK
<1>4. Held(p)' /\ SwapHeld(p)' /\ Placed(p)'
  BY <1>1, <1>3, ReleaseHolds DEF StoreAssumption
<1>5. Generations'
  BY <1>2, <1>3 DEF StoreInv, Generations, BackupsPlaced
<1>6. \A q \in Procs \ {p} : count'[q] = count[q] /\ task'[q] = task[q] /\ task[q] = Idle
  BY <1>1, DoneCounts, DoneType, OthersIdle DEF StoreInv, CountInv
<1> QED BY <1>1, <1>2, <1>4, <1>5, <1>6, BusyKeeps

\* A step of a replacement that goes on to the next, with what it holds.
LEMMA GoesOnKeeps ==
  ASSUME StoreInv, StoreAssumption, SwapsAlone, NEW p \in Procs, task[p].op \in Swaps, task[p] \in Tasks, alive[p],
         task[p].own, task[p].step # "publish", NEW step \in {"stage", "move"}, Goto(p, step),
         UNCHANGED <<live, backups, swapLock, count, handles, alive, stores>>,
         live.gen > 0, step = "move" => staged'[p] = live.gen + 1, CountInv'
  PROVE  StoreInv'
<1>1. task'[p].step = step /\ task'[p].own = task[p].own /\ task'[p].op = task[p].op
      /\ \A q \in Procs \ {p} : task'[q] = task[q]
  BY GotoType DEF StoreInv, CountInv, Steps
<1>2. count'[p] = Entries(p)' /\ count'[p] = count[p] /\ handles'[p] = handles[p]
  BY <1>1, SameEntries
<1>3. Held(p)'
  <2>1. live.lock = p
    BY OwnerInside
  <2> QED BY <1>1, <1>2, <2>1 DEF Held, StoreInv, LockHeld
<1>4. SwapHeld(p)' /\ Placed(p)'
  BY <1>1 DEF SwapHeld, Placed
<1>5. Generations'
  BY DEF StoreInv, Generations, BackupsPlaced
<1> QED BY <1>1, <1>3, <1>4, <1>5, OthersIdle, BusyKeeps

LEMMA InspectStageKeeps ==
  ASSUME StoreInv, StoreAssumption, SwapsAlone, NEW p \in Procs, Inspect(p) \/ Stage(p)
  PROVE  StoreInv'
<1>1. task[p] \in Tasks /\ task[p] # Idle /\ task[p].step \in {"inspect", "stage"} /\ alive[p]
      /\ task[p].op \in Swaps
  BY AtType DEF StoreInv, CountInv, Inspect, Stage, At, Swaps
<1>2. task[p].own
  BY <1>1 DEF StoreInv, CountInv, Counted, Counts, OwnSteps
<1>3. CountInv'
  BY InspectStageCounts DEF StoreInv
<1>4. UNCHANGED <<backups, handles, alive, stores, refusals>>
  BY DEF Inspect, Stage
<1>5. CASE ReleaseBoth(p)
  BY <1>1, <1>2, <1>3, <1>4, <1>5, ReleaseBothKeeps
<1>6. CASE live.gen > 0 /\ Goto(p, "stage") /\ UNCHANGED <<live, swapLock, count>>
  BY <1>1, <1>2, <1>3, <1>4, <1>6, GoesOnKeeps
<1>7. CASE /\ live.gen \in 1 .. MaxGenerations - 1
           /\ staged' = [staged EXCEPT ![p] = live.gen + 1]
           /\ Goto(p, "move") /\ UNCHANGED <<live, swapLock, count>>
  <2>1. live.gen > 0 /\ staged'[p] = live.gen + 1
    BY <1>7 DEF StoreInv, CountInv, StoreTypeOK, Stores
  <2> QED BY <1>1, <1>2, <1>3, <1>4, <1>7, <2>1, GoesOnKeeps
<1> QED BY <1>5, <1>6, <1>7 DEF Inspect, Stage

LEMMA MoveKeeps ==
  ASSUME StoreInv, StoreAssumption, SwapsAlone, NEW p \in Procs, MoveAside(p)
  PROVE  /\ StoreInv' /\ live.gen > 0 /\ live'.gen = 0
         /\ \A t : t = live => Top(t)'
<1>1. task[p] \in Tasks /\ task[p] # Idle /\ task[p].step = "move" /\ alive[p] /\ task[p].op \in Swaps
  BY AtType DEF StoreInv, CountInv, MoveAside, At, Swaps
<1>2. task[p].own
  BY <1>1 DEF StoreInv, CountInv, Counted, Counts, OwnSteps
<1>3. CountInv'
  BY MoveCounts DEF StoreInv
<1>4. UNCHANGED <<staged, swapLock, count, handles, alive, stores, refusals>> /\ Goto(p, "publish")
      /\ backups' = backups \cup {live} /\ live' = Absent
  BY DEF MoveAside
<1>5. live.lock = p /\ live.gen > 0 /\ staged[p] = live.gen + 1 /\ live \in Stores
  BY <1>1, <1>2, OwnerInside DEF StoreInv, StepsPlaced, Placed, CountInv, StoreTypeOK
<1>6. \A x \in backups : x.gen < live.gen /\ x.gen \in Nat /\ live.gen \in Nat
  BY <1>5 DEF StoreInv, Generations, BackupsPlaced, CountInv, StoreTypeOK, Stores
<1>7. live.id \in 1 .. stores /\ stores \in Nat /\ live.gen \in Nat
  BY <1>5 DEF StoreInv, Generations, CountInv, StoreTypeOK, Stores
<1>8. task'[p].step = "publish" /\ task'[p].own = task[p].own /\ task'[p].op = task[p].op
      /\ \A q \in Procs \ {p} : task'[q] = task[q]
  BY <1>1, <1>4, GotoType DEF StoreInv, CountInv, Steps
<1>9. count'[p] = Entries(p)' /\ count'[p] = count[p] /\ handles'[p] = handles[p]
  BY <1>4, <1>8, SameEntries
<1>10. Held(p)'
  BY <1>1, <1>4, <1>8, <1>9 DEF Held, StoreInv, LockHeld
<1>11. \A q \in Procs \ {p} : task[q] = Idle /\ count[q] = 0
  <2> TAKE q \in Procs \ {p}
  <2>1. task[q] = Idle /\ task[q].step = "idle"
    BY <1>1, OthersIdle DEF Idle
  <2>2. ~(count[q] > 0)
    BY <1>5, <2>1, OwnerInside
  <2> QED BY <2>1, <2>2 DEF StoreInv, CountInv, StoreTypeOK
<1>12. \A t : t = live => Top(t)'
  <2>1. \A x \in backups \cup {live} : x.gen <= live.gen
    BY <1>6, <1>7
  <2> QED BY <1>4, <2>1 DEF Top
<1>13. Placed(p)'
  <2>1. \E t \in backups' : Top(t)' /\ t.lock = p /\ staged'[p] = t.gen + 1
    <3>1. PICK t : t = live
      OBVIOUS
    <3>2. t \in backups' /\ Top(t)' /\ t.lock = p /\ staged'[p] = t.gen + 1
      BY <1>4, <1>5, <1>12, <3>1
    <3> QED BY <3>2
  <2> QED BY <1>1, <1>4, <1>8, <1>11, <2>1 DEF Placed
<1>14. SwapHeld(p)'
  BY <1>8 DEF SwapHeld
<1>15. Generations'
  <2>1. live'.id = 0 /\ live'.gen = 0 /\ live' = Absent
    BY <1>4 DEF Absent
  <2>2. \A x \in backups \cup {live} : x.gen > 0 /\ x.id \in 1 .. stores
    BY <1>5, <1>7 DEF StoreInv, Generations, BackupsPlaced
  <2>3. \A x, y \in backups \cup {live} : (x.gen = y.gen => x = y) /\ (x.gen < y.gen /\ x.whole => y.whole)
    BY <1>5, <1>6, <1>7 DEF StoreInv, Generations, BackupsPlaced
  <2> QED BY <1>4, <1>7, <2>1, <2>2, <2>3 DEF Generations, BackupsPlaced
<1>16. live'.lock = NoProc /\ live'.gen = 0
  BY <1>4 DEF Absent
<1>17. StoreInv'
  BY <1>3, <1>4, <1>5, <1>8, <1>10, <1>11, <1>13, <1>14, <1>15, BusyKeeps
<1> QED BY <1>5, <1>12, <1>16, <1>17

\* At the step that publishes, what was moved aside is the newest of the backups.
LEMMA PublishFrom ==
  ASSUME StoreInv, NEW p \in Procs, task[p].step = "publish"
  PROVE  /\ live = Absent /\ live.gen = 0 /\ live.lock = NoProc
         /\ \A q \in Procs \ {p} : count[q] = 0
         /\ \E t \in backups : /\ Top(t) /\ t.lock = p /\ staged[p] = t.gen + 1 /\ t \in Stores
                               /\ \A b \in backups : Top(b) => b = t
<1>1. /\ live = Absent
      /\ \E t \in backups : Top(t) /\ t.lock = p /\ staged[p] = t.gen + 1
      /\ \A q \in Procs \ {p} : count[q] = 0
  BY DEF StoreInv, StepsPlaced, Placed
<1>2. PICK t \in backups : Top(t) /\ t.lock = p /\ staged[p] = t.gen + 1
  BY <1>1
<1>3. \A b \in backups : b \in Stores /\ b.gen \in Nat
  BY DEF StoreInv, CountInv, StoreTypeOK, Stores
<1>4. \A b \in backups : Top(b) => b.gen = t.gen
  BY <1>2, <1>3 DEF Top
<1>5. \A b \in backups : Top(b) => b = t
  BY <1>4 DEF StoreInv, Generations, BackupsPlaced
<1> QED BY <1>1, <1>2, <1>3, <1>5 DEF Absent

LEMMA PublishKeeps ==
  ASSUME StoreInv, StoreAssumption, SwapsAlone, NEW p \in Procs, Publish(p)
  PROVE  StoreInv'
<1>1. task[p] \in Tasks /\ task[p] # Idle /\ task[p].step = "publish" /\ alive[p] /\ task[p].op \in Swaps
  BY AtType DEF StoreInv, CountInv, Publish, At, Swaps
<1>2. task[p].own
  BY <1>1 DEF StoreInv, CountInv, Counted, Counts, OwnSteps
<1>3. CountInv'
  BY PublishCounts DEF StoreInv
<1>4. UNCHANGED <<handles, alive, refusals>>
  BY DEF Publish
<1>5. live = Absent /\ live.gen = 0 /\ live.lock = NoProc /\ \A q \in Procs \ {p} : count[q] = 0
  BY <1>1, PublishFrom
<1>6. PICK t \in backups : /\ Top(t) /\ t.lock = p /\ staged[p] = t.gen + 1 /\ t \in Stores
                           /\ \A b \in backups : Top(b) => b = t
  BY <1>1, PublishFrom
<1>7. \A q \in Procs \ {p} : task[q] = Idle
  BY <1>1, OthersIdle
<1>8. /\ t.gen \in Nat /\ t.gen > 0 /\ t.id \in 1 .. stores /\ stores \in Nat
      /\ \A x \in backups : x.gen \in Nat /\ x.gen <= t.gen
  BY <1>6 DEF StoreInv, Generations, BackupsPlaced, CountInv, StoreTypeOK, Stores, Top
<1>9. CASE /\ stores' = stores + 1
           /\ live' = [id |-> stores', gen |-> staged[p], whole |-> TRUE, lock |-> p]
           /\ Goto(p, "clean")
           /\ UNCHANGED <<backups, swapLock, count>>
  <2>1. task'[p].step = "clean" /\ task'[p].own = task[p].own /\ task'[p].op = task[p].op
        /\ \A q \in Procs \ {p} : task'[q] = task[q]
    BY <1>1, <1>9, GotoType DEF StoreInv, CountInv, Steps
  <2>2. count'[p] = Entries(p)' /\ count'[p] = count[p] /\ handles'[p] = handles[p]
    BY <1>4, <1>9, <2>1, SameEntries
  <2>3. live'.lock = p /\ live'.gen = t.gen + 1 /\ live'.id = stores' /\ live'.whole = TRUE
    BY <1>6, <1>9
  <2>4. handles[p] \subseteq 1 .. stores' /\ (task[p].op = "materialize" => handles[p] = {})
    BY <1>8, <1>9 DEF StoreInv, LockHeld, Held
  <2>5. Held(p)'
    BY <1>1, <1>4, <2>1, <2>2, <2>3, <2>4 DEF Held
  <2>6. SwapHeld(p)' /\ Placed(p)'
    BY <1>1, <1>8, <2>1, <2>3 DEF SwapHeld, Placed
  <2>7. Generations'
    <3>1. \A x \in backups : x.gen < live'.gen
      BY <1>8, <2>3
    <3> QED BY <1>8, <1>9, <2>3, <3>1 DEF StoreInv, Generations, BackupsPlaced
  <2> QED BY <1>3, <1>4, <1>5, <1>7, <1>9, <2>1, <2>5, <2>6, <2>7, BusyKeeps DEF Free
<1>10. CASE /\ \E b \in backups : (\A c \in backups : c.gen <= b.gen)
                 /\ backups' = backups \ {b} /\ live' = AfterRelease(p, b)
            /\ ReleaseCount(p) /\ swapLock' = NoProc /\ Done(p)
            /\ UNCHANGED stores
  <2>1. backups' = backups \ {t} /\ live' = AfterRelease(p, t)
    BY <1>6, <1>10 DEF Top
  <2>2. live'.id = t.id /\ live'.gen = t.gen /\ live'.whole = t.whole /\ (count[p] # 1 => live'.lock = p)
    BY <1>6, <2>1, ReleaseType
  <2>3. Held(p)' /\ SwapHeld(p)' /\ Placed(p)'
    BY <1>1, <1>2, <1>4, <1>10, <2>2, ReleaseHolds DEF StoreAssumption
  <2>4. Generations'
    <3>1. \A x \in backups' : x.gen < t.gen /\ x \in backups
      BY <1>6, <1>8, <2>1 DEF StoreInv, Generations, BackupsPlaced
    <3> QED BY <1>6, <1>8, <1>10, <2>2, <3>1 DEF StoreInv, Generations, BackupsPlaced
  <2>5. \A q \in Procs \ {p} : count'[q] = count[q] /\ task'[q] = task[q]
    BY <1>2, <1>4, <1>10, DoneCounts, DoneType DEF StoreInv, CountInv
  <2> QED BY <1>3, <1>4, <1>5, <1>7, <1>10, <2>3, <2>4, <2>5, BusyKeeps DEF Free
<1> QED BY <1>5, <1>9, <1>10 DEF Publish

LEMMA CleanKeeps ==
  ASSUME StoreInv, StoreAssumption, SwapsAlone, NEW p \in Procs, CleanUp(p)
  PROVE  StoreInv'
<1>1. task[p] \in Tasks /\ task[p] # Idle /\ task[p].step = "clean" /\ alive[p] /\ task[p].op \in Swaps
  BY AtType DEF StoreInv, CountInv, CleanUp, At, Swaps
<1>2. task[p].own
  BY <1>1 DEF StoreInv, CountInv, Counted, Counts, OwnSteps
<1>3. CountInv'
  BY CleanCounts DEF StoreInv
<1>4. ReleaseBoth(p) /\ UNCHANGED <<staged, handles, alive, stores>> /\ backups' \subseteq backups
  BY DEF CleanUp, RemoveBackups
<1> QED BY <1>1, <1>2, <1>3, <1>4, ReleaseBothKeeps

LEMMA CopyDatabaseKeeps ==
  ASSUME StoreInv, StoreAssumption, SwapsAlone, NEW p \in Procs, CopyDatabase(p)
  PROVE  StoreInv' /\ live.gen = 0 /\ live'.gen = 1 /\ ~live'.whole /\ backups = {}
<1>1. task[p] \in Tasks /\ task[p] # Idle /\ task[p].step = "database" /\ alive[p]
      /\ task[p].op = "materialize"
  BY AtType DEF StoreInv, CountInv, CopyDatabase, At
<1>2. task[p].own
  BY <1>1 DEF StoreInv, CountInv, Counted, Counts, OwnSteps
<1>3. CountInv'
  BY CopyCounts DEF StoreInv
<1>4. UNCHANGED <<backups, staged, swapLock, count, handles, alive, refusals>>
      /\ live # Absent /\ live.id = 0 /\ NewDatabase(1, FALSE) /\ Goto(p, "files")
  BY DEF CopyDatabase
<1>5. backups = {} /\ live.gen = 0
  BY <1>1, <1>4 DEF SwapsAlone, StoreInv, Generations
<1>6. stores' = stores + 1 /\ stores' \in Nat \ {0} /\ live'.id = stores' /\ live'.gen = 1
      /\ live'.whole = FALSE /\ live'.lock = live.lock
  <2>1. StoreTypeOK /\ 1 \in Nat /\ FALSE \in BOOLEAN
    BY DEF StoreInv, CountInv
  <2> QED BY <1>4, <2>1, NewDatabaseType
<1>7. task'[p].step = "files" /\ task'[p].own = task[p].own /\ task'[p].op = task[p].op
      /\ \A q \in Procs \ {p} : task'[q] = task[q]
  BY <1>1, <1>4, GotoType DEF StoreInv, CountInv, Steps
<1>8. count'[p] = Entries(p)' /\ count'[p] = count[p] /\ handles'[p] = handles[p]
  BY <1>4, <1>7, SameEntries
<1>9. Held(p)'
  <2>1. live.lock = p
    BY <1>1, <1>2, OwnerInside
  <2>2. handles[p] = {}
    BY <1>1 DEF StoreInv, LockHeld, Held
  <2> QED BY <1>1, <1>4, <1>6, <1>7, <1>8, <2>1, <2>2 DEF Held
<1>10. SwapHeld(p)'
  BY <1>1, <1>4, NoSwapLock DEF SwapHeld
<1>11. Placed(p)'
  BY <1>1, <1>6, <1>7 DEF Placed, Swaps
<1>12. Generations'
  BY <1>4, <1>5, <1>6 DEF Generations, BackupsPlaced
<1>13. StoreInv'
  BY <1>1, <1>3, <1>4, <1>6, <1>7, <1>9, <1>10, <1>11, <1>12, OthersIdle, BusyKeeps DEF Swaps
<1> QED BY <1>5, <1>6, <1>13

LEMMA CopyFilesKeeps ==
  ASSUME StoreInv, StoreAssumption, SwapsAlone, NEW p \in Procs, CopyFiles(p)
  PROVE  /\ StoreInv' /\ live.gen = 1 /\ ~live.whole /\ backups = {} /\ backups' = {}
         /\ live'.gen = 0 \/ (live'.gen = 1 /\ live'.whole)
<1>1. task[p] \in Tasks /\ task[p] # Idle /\ task[p].step = "files" /\ alive[p]
      /\ task[p].op = "materialize"
  BY AtType DEF StoreInv, CountInv, CopyFiles, At
<1>2. task[p].own
  BY <1>1 DEF StoreInv, CountInv, Counted, Counts, OwnSteps
<1>3. CountInv'
  BY CopyCounts DEF StoreInv
<1>4. UNCHANGED <<backups, staged, swapLock, handles, alive, stores, refusals>>
      /\ Done(p) /\ ReleaseCount(p)
      /\ (live' = Absent \/ live' = [AfterRelease(p, live) EXCEPT !.whole = TRUE])
  BY DEF CopyFiles
<1>5. live.gen = 1 /\ ~live.whole
  BY <1>1 DEF StoreInv, StepsPlaced, Placed
<1>6. backups = {} /\ live.lock = p /\ live # Absent
  BY <1>1, <1>2, OwnerInside DEF SwapsAlone
<1>7. count[p] = 1
  <2>1. handles[p] = {} /\ count[p] = Entries(p)
    BY <1>1 DEF StoreInv, LockHeld, Held
  <2>2. Cardinality(handles[p]) = 0
    BY <2>1, FS_EmptySet
  <2>3. Entries(p) = Cardinality(handles[p]) + 1
    BY <1>2, EntriesType DEF StoreInv
  <2> QED BY <2>1, <2>2, <2>3
<1>8. swapLock' # p
  BY <1>1, <1>4, NoSwapLock
<1>9. Held(p)' /\ SwapHeld(p)' /\ Placed(p)'
  BY <1>1, <1>2, <1>4, <1>7, <1>8, ReleaseHolds
<1>10. live' = Absent \/ (live'.id = live.id /\ live'.gen = live.gen /\ live'.whole = TRUE)
  BY <1>4, ReleaseType DEF StoreInv, CountInv, StoreTypeOK, Stores
<1>11. live'.gen = 0 \/ (live'.gen = 1 /\ live'.whole)
  BY <1>5, <1>10 DEF Absent
<1>12. Generations'
  BY <1>4, <1>6, <1>10 DEF StoreInv, Generations, BackupsPlaced, Absent, CountInv, StoreTypeOK
<1>13. \A q \in Procs \ {p} : count'[q] = count[q] /\ task'[q] = task[q] /\ task[q] = Idle
  BY <1>1, <1>2, <1>4, DoneCounts, DoneType, OthersIdle DEF StoreInv, CountInv, Swaps
<1>14. StoreInv'
  BY <1>3, <1>4, <1>6, <1>9, <1>12, <1>13, BusyKeeps
<1> QED BY <1>4, <1>5, <1>6, <1>11, <1>14

LEMMA CrashKeeps ==
  ASSUME StoreInv, StoreAssumption, NEW p \in Procs, Crash(p)
  PROVE  StoreInv'
<1>1. /\ CountInv' /\ task'[p] = Idle /\ count'[p] = 0 /\ handles'[p] = {} /\ alive'[p] = FALSE
      /\ \A q \in Procs \ {p} : /\ task'[q] = task[q] /\ count'[q] = count[q]
                                /\ handles'[q] = handles[q] /\ alive'[q] = alive[q]
  BY CrashCounts DEF StoreInv
<1>2. UNCHANGED <<disk, stores, refusals>>
  BY DEF Crash
<1>3. task'[p].step = "idle" /\ task'[p].own = FALSE /\ task'[p].op = "none"
  BY <1>1 DEF Idle
<1>4. LockHeld'
  <2>1. Held(p)'
    BY <1>1, <1>3, FS_EmptySet DEF Held, Entries
  <2>2. ASSUME NEW q \in Procs \ {p} PROVE Held(q)'
    BY <1>1, <1>2 DEF Held, Entries, StoreInv, LockHeld, disk
  <2> QED BY <2>1, <2>2 DEF LockHeld
<1>5. SwapLockHeld'
  BY <1>1, <1>2 DEF StoreInv, SwapLockHeld, SwapHeld, disk
<1>6. Generations'
  BY <1>2 DEF StoreInv, Generations, BackupsPlaced, disk
<1>7. StepsPlaced'
  <2>1. Placed(p)'
    BY <1>3 DEF Placed
  <2>2. ASSUME NEW q \in Procs \ {p} PROVE Placed(q)'
    <3>1. Placed(q) /\ task'[q] = task[q] /\ live' = live /\ backups' = backups /\ staged' = staged
      BY <1>1, <1>2 DEF StoreInv, StepsPlaced, disk
    <3>2. \A r \in Procs : (count[r] = 0 => count'[r] = 0) /\ handles'[r] \subseteq handles[r]
      BY <1>1
    <3> QED BY <3>1, <3>2 DEF Placed, Top
  <2> QED BY <2>1, <2>2 DEF StepsPlaced
<1> QED BY <1>1, <1>4, <1>5, <1>6, <1>7 DEF StoreInv

-----------------------------------------------------------------------------
\* The invariant holds, and what it means for the processes

LEMMA StoreInitially ==
  ASSUME StoreAssumption, StoreInit
  PROVE  StoreInv
<1>1. CountInv
  <2>1. StoreTypeOK
    BY MadeType DEF StoreInit, StoreTypeOK, StoreAssumption
  <2>2. Counted
    BY FS_EmptySet DEF StoreInit, Counted, Counts, Entries, Idle, OwnSteps
  <2> QED BY <2>1, <2>2 DEF CountInv
<1>2. LockHeld
  BY FS_EmptySet DEF StoreInit, LockHeld, Held, Entries, Idle
<1>3. SwapLockHeld
  BY DEF StoreInit, SwapLockHeld, SwapHeld, StoreAssumption
<1>4. Generations
  BY DEF StoreInit, Generations, BackupsPlaced, Absent
<1>5. StepsPlaced
  BY DEF StoreInit, StepsPlaced, Placed, Idle
<1> QED BY <1>1, <1>2, <1>3, <1>4, <1>5 DEF StoreInv

LEMMA StoreStepKeeps ==
  ASSUME StoreInv, StoreAssumption, SwapsAlone, SwapsAlone', StoreNext
  PROVE  StoreInv'
<1>1. PICK p \in Procs :
        \/ \E op \in Operations : Begin(p, op)
        \/ TakeSwapLock(p) \/ Mend(p) \/ Sweep(p) \/ Check(p)
        \/ MakeDirectory(p) \/ TakeWriteLock(p)
        \/ OpenDatabase(p) \/ CreateDatabase(p) \/ InsertProject(p)
        \/ Write(p) \/ Close(p)
        \/ TakeSwapLockToo(p) \/ Inspect(p) \/ Stage(p)
        \/ MoveAside(p) \/ Publish(p) \/ CleanUp(p)
        \/ CopyDatabase(p) \/ CopyFiles(p)
        \/ Crash(p)
  BY DEF StoreNext
<1>2. CASE \E op \in Operations : Begin(p, op)
  BY <1>2, BeginKeeps
<1>3. CASE TakeSwapLock(p) \/ TakeSwapLockToo(p)
  BY <1>3, TakeSwapKeeps
<1>4. CASE Mend(p)
  BY <1>4, MendKeeps
<1>5. CASE Sweep(p)
  BY <1>5, SweepKeeps
<1>6. CASE Check(p)
  BY <1>6, CheckKeeps
<1>7. CASE MakeDirectory(p)
  BY <1>7, MakeDirectoryKeeps
<1>8. CASE TakeWriteLock(p)
  BY <1>8, TakeWriteLockKeeps
<1>9. CASE OpenDatabase(p)
  BY <1>9, OpenKeeps
<1>10. CASE CreateDatabase(p)
  BY <1>10, CreateKeeps
<1>11. CASE InsertProject(p)
  BY <1>11, InsertKeeps
<1>12. CASE Write(p)
  BY <1>12, WriteKeeps
<1>13. CASE Close(p)
  BY <1>13, CloseKeeps
<1>14. CASE Inspect(p) \/ Stage(p)
  BY <1>14, InspectStageKeeps
<1>15. CASE MoveAside(p)
  BY <1>15, MoveKeeps
<1>16. CASE Publish(p)
  BY <1>16, PublishKeeps
<1>17. CASE CleanUp(p)
  BY <1>17, CleanKeeps
<1>18. CASE CopyDatabase(p)
  BY <1>18, CopyDatabaseKeeps
<1>19. CASE CopyFiles(p)
  BY <1>19, CopyFilesKeeps
<1>20. CASE Crash(p)
  BY <1>20, CrashKeeps
<1> QED BY <1>1, <1>2, <1>3, <1>4, <1>5, <1>6, <1>7, <1>8, <1>9, <1>10, <1>11, <1>12, <1>13,
           <1>14, <1>15, <1>16, <1>17, <1>18, <1>19, <1>20

LEMMA StoreInvariant == StoreSpec /\ []SwapsAlone => []StoreInv
<1>1. StoreInit => StoreInv
  BY StoreInitially, StoreAssumption
<1>2. StoreInv /\ SwapsAlone /\ SwapsAlone' /\ [StoreNext]_storeVars => StoreInv'
  <2>1. ASSUME StoreInv, UNCHANGED storeVars PROVE StoreInv'
    <3>1. CountInv'
      BY <2>1 DEF storeVars, disk, memory, StoreInv, CountInv, StoreTypeOK, Counted, Counts, Entries
    <3>2. LockHeld' /\ SwapLockHeld'
      BY <2>1 DEF storeVars, disk, memory, StoreInv, LockHeld, Held, Entries, SwapLockHeld, SwapHeld
    <3>3. Generations' /\ StepsPlaced'
      BY <2>1 DEF storeVars, disk, memory, StoreInv, Generations, BackupsPlaced, StepsPlaced, Placed, Top
    <3> QED BY <3>1, <3>2, <3>3 DEF StoreInv
  <2> QED BY <2>1, StoreStepKeeps, StoreAssumption
<1> QED BY <1>1, <1>2, PTL DEF StoreSpec

\* The directory, its backups and stages, the locks and what the processes have in
\* memory keep their types (StoreTypeOK), while nothing is under way beside a swap.
THEOREM StoreTypes == StoreSpec /\ []SwapsAlone => []StoreTypeOK
<1>1. StoreInv => StoreTypeOK
  BY DEF StoreInv, CountInv
<1> QED BY <1>1, StoreInvariant, PTL

\* Two processes never both have a handle that assertWritable of
\* src/project/project-store.ts lets write, however they open, found, close and die
\* beside each other and whatever directories were swapped, if nothing was under way
\* beside a swap.  An opener beside a replacement can break it.
THEOREM StoreHasOneWriter == StoreSpec /\ []SwapsAlone => []OneWriter
<1>1. StoreInv => OneWriter
  BY HandleOwns, StoreAssumption DEF OneWriter
<1> QED BY <1>1, StoreInvariant, PTL

\* A process that has finished its operations and closed its handles keeps neither
\* the write lock nor the swap lock, whatever failed on the way, if nothing was
\* under way beside a swap: a replacement that is refused the swap lock keeps the
\* write lock.
THEOREM IdleReleases == StoreSpec /\ []SwapsAlone => []IdleHoldsNothing
<1>1. StoreInv => IdleHoldsNothing
  <2> SUFFICES ASSUME StoreInv, NEW p \in Procs, alive[p], task[p] = Idle, handles[p] = {}
               PROVE  count[p] = 0 /\ swapLock # p
    BY DEF IdleHoldsNothing
  <2>1. task[p].step = "idle" /\ task[p].own = FALSE
    BY DEF Idle
  <2>2. count[p] = Entries(p) /\ Cardinality(handles[p]) = 0
    BY FS_EmptySet DEF StoreInv, LockHeld, Held
  <2>3. Entries(p) = 0
    BY <2>1, <2>2 DEF Entries
  <2> QED BY <2>1, <2>2, <2>3, NoSwapLock
<1> QED BY <1>1, StoreInvariant, PTL

-----------------------------------------------------------------------------
\* The store is atomic

\* The state of the project, as it is in a directory and what lies beside it.
Complete(store) == IF store.whole THEN store.gen ELSE 0
NewestOf(store, aside) ==
  IF store.gen > 0 THEN Complete(store) ELSE Max({Complete(b) : b \in aside} \cup {0})

\* The largest of a set of numbers.
LEMMA MaxIs ==
  ASSUME NEW S \in SUBSET Nat, NEW m \in S, \A x \in S : x <= m
  PROVE  Max(S) = m
<1>1. \A y \in S : m >= y
  OBVIOUS
<1>2. Max(S) \in S /\ \A y \in S : Max(S) >= y
  BY <1>1 DEF Max
<1>3. Max(S) >= m /\ Max(S) \in Nat /\ m \in Nat /\ Max(S) <= m
  BY <1>2
<1> QED BY <1>3

\* A directory with a project has its state, whatever lies beside it.
LEMMA NewestLive ==
  ASSUME NEW store, NEW aside, store.gen > 0
  PROVE  NewestOf(store, aside) = Complete(store)
BY DEF NewestOf

\* Where there is neither, there is no state.
LEMMA NewestNone ==
  ASSUME NEW store, store.gen = 0
  PROVE  NewestOf(store, {}) = 0
<1>1. ~(store.gen > 0)
  OBVIOUS
<1>2. {Complete(b) : b \in {}} \cup {0} = {0}
  OBVIOUS
<1>3. Max({0}) = 0
  BY MaxIs
<1> QED BY <1>1, <1>2, <1>3 DEF NewestOf

\* Without a project in the directory the newest of the backups has the state.
LEMMA NewestTop ==
  ASSUME NEW store, NEW aside \in SUBSET Stores, NEW t \in aside, store.gen = 0,
         \A x \in aside : x.gen <= t.gen,
         \A x, y \in aside : (x.gen = y.gen => x = y) /\ (x.gen < y.gen /\ x.whole => y.whole)
  PROVE  NewestOf(store, aside) = Complete(t)
<1> DEFINE S == {Complete(b) : b \in aside} \cup {0}
<1>1. ~(store.gen > 0)
  OBVIOUS
<1>2. \A x \in aside : x.gen \in Nat /\ Complete(x) \in Nat
  BY DEF Stores, Complete
<1>3. S \in SUBSET Nat /\ Complete(t) \in S
  BY <1>2
<1>4. \A x \in aside : Complete(x) <= Complete(t)
  <2> TAKE x \in aside
  <2>1. CASE x.gen = t.gen
    BY <1>2, <2>1
  <2>2. CASE x.gen # t.gen
    <3>1. x.gen < t.gen /\ (x.whole => t.whole)
      BY <1>2, <2>2
    <3> QED BY <1>2, <3>1 DEF Complete
  <2> QED BY <2>1, <2>2
<1>5. \A n \in S : n <= Complete(t)
  BY <1>2, <1>4
<1>6. Max(S) = Complete(t)
  BY <1>3, <1>5, MaxIs
<1> QED BY <1>1, <1>6 DEF NewestOf

\* The state the refinement maps to, before a step and after it.
LEMMA NewestIs == Newest = NewestOf(live, backups) /\ Newest' = NewestOf(live', backups')
BY DEF Newest, NewestOf, Complete

\* A step that neither changes what is in the directory, nor what is beside one
\* without a project, leaves the state.
LEMMA NewestStays ==
  ASSUME StoreInv, live'.gen = live.gen, live'.whole = live.whole \/ live.gen = 0,
         live.gen > 0 \/ backups' = backups
  PROVE  Newest' = Newest
<1>1. CASE live.gen > 0
  BY <1>1, NewestLive, NewestIs DEF Complete
<1>2. CASE ~(live.gen > 0)
  <2>1. backups' = backups /\ ~(live'.gen > 0)
    BY <1>2
  <2> QED BY <1>2, <2>1, NewestIs DEF NewestOf
<1> QED BY <1>1, <1>2

\* The state is that of the only backup, where there is no project in the directory.
LEMMA MendStays ==
  ASSUME StoreInv, NEW p \in Procs, Mend(p)
  PROVE  Newest' = Newest
<1>1. CASE UNCHANGED live /\ UNCHANGED backups
  BY <1>1, NewestStays
<1>2. CASE live = Absent /\ \E b \in backups : backups = {b} /\ live' = b
  <2>1. PICK b \in backups : backups = {b} /\ live' = b
    BY <1>2
  <2>2. live.gen = 0 /\ b \in Stores /\ b.gen \in Nat /\ b.gen > 0
    BY <1>2 DEF Absent, StoreInv, CountInv, StoreTypeOK, Stores, Generations, BackupsPlaced
  <2>3. NewestOf(live', backups') = Complete(b)
    BY <2>1, <2>2, NewestLive
  <2>4. NewestOf(live, backups) = Complete(b)
    <3>1. backups \in SUBSET Stores /\ \A x \in backups : x.gen <= b.gen
      BY <2>1, <2>2
    <3>2. \A x, y \in backups : (x.gen = y.gen => x = y) /\ (x.gen < y.gen /\ x.whole => y.whole)
      BY DEF StoreInv, Generations, BackupsPlaced
    <3> QED BY <2>2, <3>1, <3>2, NewestTop
  <2> QED BY <2>3, <2>4, NewestIs
<1>3. \/ UNCHANGED live /\ UNCHANGED backups
      \/ live = Absent /\ \E b \in backups : backups = {b} /\ live' = b
  BY DEF Mend, disk
<1> QED BY <1>1, <1>2, <1>3

\* A directory is moved aside with its state.
LEMMA MoveStays ==
  ASSUME StoreInv, StoreAssumption, SwapsAlone, NEW p \in Procs, MoveAside(p)
  PROVE  Newest' = Newest
<1>1. StoreInv' /\ live.gen > 0 /\ live'.gen = 0 /\ (\A t : t = live => Top(t)')
  BY MoveKeeps
<1>2. PICK t : t = live
  OBVIOUS
<1>3. t \in backups' /\ \A x \in backups' : x.gen <= t.gen
  BY <1>1, <1>2 DEF Top
<1>4. backups' \in SUBSET Stores
  BY <1>1 DEF StoreInv, CountInv, StoreTypeOK
<1>5. \A x, y \in backups' : (x.gen = y.gen => x = y) /\ (x.gen < y.gen /\ x.whole => y.whole)
  BY <1>1 DEF StoreInv, Generations, BackupsPlaced
<1>6. NewestOf(live', backups') = Complete(t)
  BY <1>1, <1>3, <1>4, <1>5, NewestTop
<1>7. NewestOf(live, backups) = Complete(t)
  BY <1>1, <1>2, NewestLive
<1> QED BY <1>6, <1>7, NewestIs

\* The rename that publishes is the change, or what was moved aside is moved back.
LEMMA PublishAdvances ==
  ASSUME StoreInv, StoreAssumption, NEW p \in Procs, Publish(p)
  PROVE  Newest' = Newest \/ Atomic!Found \/ Atomic!Advance
<1>1. task[p].step = "publish"
  BY DEF Publish, At
<1>2. live = Absent /\ live.gen = 0
  BY <1>1, PublishFrom
<1>3. PICK t \in backups : /\ Top(t) /\ staged[p] = t.gen + 1 /\ t \in Stores
                           /\ \A b \in backups : Top(b) => b = t
  BY <1>1, PublishFrom
<1>4. backups \in SUBSET Stores /\ t.gen \in Nat /\ t.gen > 0
  BY <1>3 DEF StoreInv, CountInv, StoreTypeOK, Stores, Generations, BackupsPlaced
<1>5. Newest = Complete(t)
  <2>1. \A x, y \in backups : (x.gen = y.gen => x = y) /\ (x.gen < y.gen /\ x.whole => y.whole)
    BY DEF StoreInv, Generations, BackupsPlaced
  <2>2. \A x \in backups : x.gen <= t.gen
    BY <1>3 DEF Top
  <2> QED BY <1>2, <1>3, <1>4, <2>1, <2>2, NewestTop, NewestIs
<1>6. CASE live' = [id |-> stores', gen |-> staged[p], whole |-> TRUE, lock |-> p]
  <2>1. live'.gen = t.gen + 1 /\ live'.whole = TRUE
    BY <1>3, <1>6
  <2>2. Newest' = t.gen + 1
    <3>1. live'.gen > 0
      BY <1>4, <2>1
    <3> QED BY <2>1, <3>1, NewestLive, NewestIs DEF Complete
  <2>3. CASE t.whole
    BY <1>4, <1>5, <2>2, <2>3 DEF Complete, Atomic!Advance
  <2>4. CASE ~t.whole
    BY <1>4, <1>5, <2>2, <2>4 DEF Complete, Atomic!Found
  <2> QED BY <2>3, <2>4
<1>7. CASE \E b \in backups : (\A c \in backups : c.gen <= b.gen) /\ live' = AfterRelease(p, b)
  <2>1. live' = AfterRelease(p, t)
    BY <1>3, <1>7 DEF Top
  <2>2. live'.gen = t.gen /\ live'.whole = t.whole
    BY <1>3, <2>1, ReleaseType
  <2>3. Newest' = Complete(t)
    <3>1. live'.gen > 0
      BY <1>4, <2>2
    <3> QED BY <2>2, <3>1, NewestLive, NewestIs DEF Complete
  <2> QED BY <1>5, <2>3
<1> QED BY <1>2, <1>6, <1>7 DEF Publish

\* The database is not the project's before its artifacts are copied: then it is
\* founded, or removed.
LEMMA CopyFounds ==
  ASSUME StoreInv, StoreAssumption, SwapsAlone, NEW p \in Procs, CopyDatabase(p) \/ CopyFiles(p)
  PROVE  Newest' = Newest \/ Atomic!Found \/ Atomic!Advance
<1>1. CASE CopyDatabase(p)
  <2>1. live.gen = 0 /\ live'.gen = 1 /\ ~live'.whole /\ backups = {}
    BY <1>1, CopyDatabaseKeeps
  <2>2. NewestOf(live, backups) = 0
    BY <2>1, NewestNone
  <2>3. live'.gen > 0
    BY <2>1
  <2>4. NewestOf(live', backups') = 0
    BY <2>1, <2>3, NewestLive DEF Complete
  <2> QED BY <2>2, <2>4, NewestIs
<1>2. CASE CopyFiles(p)
  <2>1. /\ live.gen = 1 /\ ~live.whole /\ backups' = {}
        /\ live'.gen = 0 \/ (live'.gen = 1 /\ live'.whole)
    BY <1>2, CopyFilesKeeps
  <2>2. live.gen > 0
    BY <2>1
  <2>3. NewestOf(live, backups) = 0
    BY <2>1, <2>2, NewestLive DEF Complete
  <2>4. CASE live'.gen = 0
    BY <2>1, <2>3, <2>4, NewestNone, NewestIs
  <2>5. CASE live'.gen = 1 /\ live'.whole
    <3>1. live'.gen > 0
      BY <2>5
    <3>2. NewestOf(live', backups') = 1
      BY <2>5, <3>1, NewestLive DEF Complete
    <3> QED BY <2>3, <3>2, NewestIs DEF Atomic!Found
  <2> QED BY <2>1, <2>4, <2>5
<1> QED BY <1>1, <1>2

\* Founding a project, and each change through a handle.
LEMMA WriteAdvances ==
  ASSUME StoreInv, StoreAssumption, NEW p \in Procs, InsertProject(p) \/ Write(p)
  PROVE  Newest' = Newest \/ Atomic!Found \/ Atomic!Advance
<1>1. live \in Stores /\ live.gen \in Nat
  BY DEF StoreInv, CountInv, StoreTypeOK, Stores
<1>2. CASE ReleaseWrite(p) /\ UNCHANGED backups
  BY <1>1, <1>2, ReleaseType, NewestStays DEF ReleaseWrite
<1>3. CASE InsertProject(p) /\ live' = [live EXCEPT !.gen = 1]
  <2>1. live.id # 0 /\ live.gen = 0 /\ live.whole
    BY <1>3 DEF InsertProject, At, StoreInv, StepsPlaced, Placed
  <2>2. backups = {}
    BY <2>1, NothingBeside DEF Absent
  <2>3. live'.gen = 1 /\ live'.gen > 0 /\ live'.whole
    BY <1>1, <1>3, <2>1 DEF Stores
  <2>4. NewestOf(live, backups) = 0
    BY <2>1, <2>2, NewestNone
  <2>5. NewestOf(live', backups') = 1
    BY <2>3, NewestLive DEF Complete
  <2> QED BY <2>4, <2>5, NewestIs DEF Atomic!Found
<1>4. CASE Write(p)
  <2>1. live.gen > 0 /\ live' = [live EXCEPT !.gen = @ + 1]
    BY <1>1, <1>4 DEF Write
  <2>2. live'.gen = live.gen + 1 /\ live'.gen > 0 /\ live'.whole = live.whole
    BY <1>1, <2>1 DEF Stores
  <2>3. NewestOf(live, backups) = Complete(live) /\ NewestOf(live', backups') = Complete(live')
    BY <2>1, <2>2, NewestLive
  <2>4. CASE live.whole
    BY <1>1, <2>1, <2>2, <2>3, <2>4, NewestIs DEF Complete, Atomic!Advance
  <2>5. CASE ~live.whole
    BY <2>2, <2>3, <2>5, NewestIs DEF Complete
  <2> QED BY <2>4, <2>5
<1> QED BY <1>2, <1>3, <1>4 DEF InsertProject

\* What sweeps the backups away does so beside a project, or where there are none.
LEMMA SweepStays ==
  ASSUME StoreInv, StoreAssumption, NEW p \in Procs, Sweep(p) \/ CleanUp(p)
  PROVE  Newest' = Newest
<1>1. live \in Stores /\ live'.gen = live.gen /\ live'.whole = live.whole
  BY ReleaseType DEF Sweep, CleanUp, ReleaseBoth, ReleaseWrite, StoreInv, CountInv, StoreTypeOK
<1>2. live.gen \in Nat /\ (live.gen > 0 \/ live.gen = 0)
  BY <1>1 DEF Stores
<1>3. live.gen > 0 \/ backups = {}
  <2>1. CASE Sweep(p)
    <3>1. live # Absent \/ backups = {}
      BY <2>1 DEF Sweep, At, StoreInv, StepsPlaced, Placed
    <3> QED BY <1>2, <3>1, NothingBeside
  <2>2. CASE CleanUp(p)
    BY <2>2 DEF CleanUp, At, StoreInv, StepsPlaced, Placed
  <2> QED BY <2>1, <2>2
<1>4. backups = {} => backups' = backups
  BY DEF Sweep, CleanUp, RemoveBackups
<1> QED BY <1>1, <1>3, <1>4, NewestStays

\* The other steps change no state of the project.
LEMMA OthersStay ==
  ASSUME StoreInv, StoreAssumption, NEW p \in Procs,
         \/ \E op \in Operations : Begin(p, op)
         \/ TakeSwapLock(p) \/ TakeSwapLockToo(p) \/ Check(p) \/ Crash(p)
         \/ MakeDirectory(p) \/ TakeWriteLock(p) \/ OpenDatabase(p) \/ CreateDatabase(p)
         \/ Inspect(p) \/ Stage(p) \/ Close(p)
  PROVE  Newest' = Newest
<1>1. live \in Stores /\ stores \in Nat /\ stores + 1 \in Nat
  BY DEF StoreInv, CountInv, StoreTypeOK
<1>2. UNCHANGED live \/ ReleaseWrite(p) => live'.gen = live.gen /\ live'.whole = live.whole
  BY <1>1, ReleaseType DEF ReleaseWrite
<1>3. CASE UNCHANGED backups /\ (UNCHANGED live \/ ReleaseWrite(p))
  BY <1>2, <1>3, NewestStays
<1>4. CASE (\E op \in Operations : Begin(p, op)) \/ TakeSwapLock(p) \/ TakeSwapLockToo(p) \/ Check(p) \/ Crash(p)
  BY <1>3, <1>4 DEF Begin, TakeSwapLock, TakeSwapLockToo, Check, Crash, disk
<1>5. CASE Inspect(p) \/ Stage(p) \/ Close(p)
  BY <1>3, <1>5 DEF Inspect, Stage, Close, ReleaseBoth
<1>6. CASE MakeDirectory(p)
  <2>1. UNCHANGED backups
    BY <1>6 DEF MakeDirectory
  <2>2. CASE live' = EmptyDirectory /\ live = Absent
    BY <2>1, <2>2, NewestStays DEF EmptyDirectory, Absent
  <2>3. live' = live \/ (live' = EmptyDirectory /\ live = Absent)
    BY <1>6 DEF MakeDirectory
  <2> QED BY <1>3, <2>1, <2>2, <2>3
<1>7. CASE TakeWriteLock(p)
  <2>1. UNCHANGED backups /\ live'.gen = live.gen /\ live'.whole = live.whole
    BY <1>1, <1>7 DEF TakeWriteLock, Stores
  <2> QED BY <2>1, NewestStays
<1>8. CASE OpenDatabase(p)
  <2>1. UNCHANGED backups
    BY <1>8 DEF OpenDatabase
  <2>2. CASE live' = [AfterRelease(p, live) EXCEPT !.id = stores']
    <3>1. AfterRelease(p, live) \in Stores /\ AfterRelease(p, live).gen = live.gen
          /\ AfterRelease(p, live).whole = live.whole
      BY <1>1, ReleaseType
    <3>2. live'.gen = live.gen /\ live'.whole = live.whole
      BY <2>2, <3>1 DEF Stores
    <3> QED BY <2>1, <3>2, NewestStays
  <2> QED BY <1>3, <1>8, <2>1, <2>2 DEF OpenDatabase
<1>9. CASE CreateDatabase(p)
  <2>1. UNCHANGED backups
    BY <1>9 DEF CreateDatabase
  <2>2. CASE live.id = 0 /\ NewDatabase(0, TRUE)
    <3>1. live.gen = 0
      BY <2>2 DEF StoreInv, Generations
    <3>2. StoreTypeOK /\ 0 \in Nat /\ TRUE \in BOOLEAN
      BY DEF StoreInv, CountInv
    <3>3. live'.gen = 0
      BY <2>2, <3>2, NewDatabaseType
    <3> QED BY <2>1, <3>1, <3>3, NewestStays
  <2> QED BY <1>3, <1>9, <2>1, <2>2 DEF CreateDatabase
<1> QED BY <1>4, <1>5, <1>6, <1>7, <1>8, <1>9

LEMMA StoreStepAtomic ==
  ASSUME StoreInv, StoreAssumption, SwapsAlone, StoreNext
  PROVE  Newest' = Newest \/ Atomic!Found \/ Atomic!Advance
<1>1. PICK p \in Procs :
        \/ \E op \in Operations : Begin(p, op)
        \/ TakeSwapLock(p) \/ Mend(p) \/ Sweep(p) \/ Check(p)
        \/ MakeDirectory(p) \/ TakeWriteLock(p)
        \/ OpenDatabase(p) \/ CreateDatabase(p) \/ InsertProject(p)
        \/ Write(p) \/ Close(p)
        \/ TakeSwapLockToo(p) \/ Inspect(p) \/ Stage(p)
        \/ MoveAside(p) \/ Publish(p) \/ CleanUp(p)
        \/ CopyDatabase(p) \/ CopyFiles(p)
        \/ Crash(p)
  BY DEF StoreNext
<1>2. CASE Mend(p)
  BY <1>2, MendStays
<1>3. CASE MoveAside(p)
  BY <1>3, MoveStays
<1>4. CASE Publish(p)
  BY <1>4, PublishAdvances
<1>5. CASE CopyDatabase(p) \/ CopyFiles(p)
  BY <1>5, CopyFounds
<1>6. CASE InsertProject(p) \/ Write(p)
  BY <1>6, WriteAdvances
<1>7. CASE Sweep(p) \/ CleanUp(p)
  BY <1>7, SweepStays
<1>8. CASE \/ \E op \in Operations : Begin(p, op)
           \/ TakeSwapLock(p) \/ TakeSwapLockToo(p) \/ Check(p) \/ Crash(p)
           \/ MakeDirectory(p) \/ TakeWriteLock(p) \/ OpenDatabase(p) \/ CreateDatabase(p)
           \/ Inspect(p) \/ Stage(p) \/ Close(p)
  BY <1>8, OthersStay
<1> QED BY <1>1, <1>2, <1>3, <1>4, <1>5, <1>6, <1>7, <1>8

\* Past the reconciliation the state of the project is in the directory.
LEMMA ReconciledIsThere ==
  ASSUME StoreInv, StoreAssumption
  PROVE  ReconciledIsLive
<1> SUFFICES ASSUME NEW p \in Procs, task[p].step \in {"check", "mkdir", "lock", "inspect"}, Newest > 0
             PROVE  live.gen = Newest
  BY DEF ReconciledIsLive
<1>1. live # Absent \/ backups = {}
  <2>1. CASE task[p].step = "inspect"
    <3>1. task[p].own
      BY <2>1 DEF StoreInv, CountInv, Counted, Counts, OwnSteps
    <3> QED BY <2>1, <3>1, OwnerInside
  <2>2. CASE task[p].step = "lock"
    BY <2>2 DEF StoreInv, LockHeld, Held
  <2>3. CASE task[p].step \in {"check", "mkdir"}
    BY <2>3 DEF StoreInv, StepsPlaced, Placed
  <2> QED BY <2>1, <2>2, <2>3
<1>2. live.gen \in Nat /\ (live = Absent => live.gen = 0)
  BY DEF StoreInv, CountInv, StoreTypeOK, Stores, Absent
<1>3. CASE live.gen = 0
  <2>1. backups = {}
    BY <1>1, <1>3, NothingBeside
  <2>2. Newest = 0
    BY <1>3, <2>1, NewestNone, NewestIs
  <2> QED BY <2>2
<1>4. CASE live.gen > 0
  <2>1. Newest = Complete(live)
    BY <1>4, NewestLive, NewestIs
  <2> QED BY <2>1 DEF Complete
<1> QED BY <1>2, <1>3, <1>4

\* Whatever process dies at whatever step of founding, opening, replacing or
\* materializing a project, its state goes from one complete state to the next,
\* as AtomicStore promises, and reconcileProjectStoreSwap leaves it in the directory,
\* if nothing was under way beside a swap.
THEOREM StoreImplementsAtomic == StoreSpec /\ []SwapsAlone => StoreIsAtomic
<1>1. StoreInit => Atomic!AtomicInit
  <2> SUFFICES ASSUME StoreInit PROVE Newest = 0
    BY DEF Atomic!AtomicInit
  <2>1. live.gen = 0 /\ backups = {}
    BY DEF StoreInit, Absent
  <2> QED BY <2>1, NewestNone, NewestIs
<1>2. StoreInv /\ SwapsAlone /\ [StoreNext]_storeVars => [Atomic!Found \/ Atomic!Advance]_Newest
  <2>1. StoreInv /\ UNCHANGED storeVars => Newest' = Newest
    BY NewestStays DEF storeVars, disk
  <2> QED BY <2>1, StoreStepAtomic, StoreAssumption
<1>3. StoreInv => ReconciledIsLive
  BY ReconciledIsThere, StoreAssumption
<1> QED BY <1>1, <1>2, <1>3, StoreInvariant, PTL
        DEF StoreSpec, StoreIsAtomic, Atomic!AtomicSpec

\* "A live store means the new complete store was installed; old backups are safe to
\* discard" (src/portability/restore-store.ts): so it is, where nothing is under way
\* beside a swap.
THEOREM StoreKeepsState == StoreSpec /\ []SwapsAlone => NothingLost
<1>1. StoreInit => Newest \in Nat
  <2> SUFFICES ASSUME StoreInit PROVE Newest = 0
    OBVIOUS
  <2>1. live.gen = 0 /\ backups = {}
    BY DEF StoreInit, Absent
  <2> QED BY <2>1, NewestNone, NewestIs
<1>2. StoreInv /\ SwapsAlone /\ Newest \in Nat /\ [StoreNext]_storeVars
      => (Newest \in Nat)' /\ [Newest' >= Newest]_storeVars
  <2>1. StoreInv /\ UNCHANGED storeVars => Newest' = Newest
    BY NewestStays DEF storeVars, disk
  <2>2. ASSUME StoreInv, SwapsAlone, Newest \in Nat, StoreNext PROVE Newest' \in Nat /\ Newest' >= Newest
    <3>1. Newest' = Newest \/ Atomic!Found \/ Atomic!Advance
      BY <2>2, StoreStepAtomic, StoreAssumption
    <3> QED BY <2>2, <3>1 DEF Atomic!Found, Atomic!Advance
  <2> QED BY <2>1, <2>2
<1> QED BY <1>1, <1>2, StoreInvariant, PTL DEF StoreSpec, NothingLost
=============================================================================
