---------------------------- MODULE ProjectStore ----------------------------
(***************************************************************************)
(* The .ganesh directory of a project: founding and opening it              *)
(* (src/project/project-store.ts), replacing it by a restored one and       *)
(* materializing one (src/portability/restore-store.ts), and putting it in  *)
(* order after a death in between (reconcileProjectStoreSwap).              *)
(*                                                                         *)
(* Processes work on the directory through renames and two lock files; the  *)
(* write lock lives inside the directory and moves with it.  Taking either  *)
(* lock is one step here: ProjectLock has the steps it consists of.  A      *)
(* process that dies stays dead; the next one is another process.           *)
(***************************************************************************)
EXTENDS Integers, FiniteSets, FiniteSetsExt

CONSTANTS
  Procs,           \* processes, each with a pid of its own
  Operations,      \* the operations that processes begin
  MaxStores,       \* bound: databases ever created
  MaxGenerations,  \* bound: changes of the project
  MaxRefusals,     \* bound: directories the file system refuses to remove
  NoProc           \* null value

ASSUME StoreAssumption ==
  /\ NoProc \notin Procs
  /\ Operations \subseteq {"open", "view", "create", "replace", "materialize"}
  /\ MaxStores \in Nat /\ MaxGenerations \in Nat /\ MaxRefusals \in Nat

\* id: the inode of project.sqlite, 0 without one; gen: the state of the
\* project, 0 before there is a project record; lock: the pid in write.lock.
Stores == [id : Nat, gen : Nat, whole : BOOLEAN, lock : Procs \cup {NoProc}]
EmptyDirectory == [id |-> 0, gen |-> 0, whole |-> TRUE, lock |-> NoProc]
Absent == [id |-> 0, gen |-> 0, whole |-> FALSE, lock |-> NoProc]

VARIABLES
  live,      \* .ganesh
  backups,   \* .ganesh.replace-backup-*
  staged,    \* generation in each process's .ganesh.replace-stage-*, or 0
  swapLock,  \* the pid in the swap lock
  task,      \* the operation each process is in, and its next step
  count,     \* activeLocks: how often each process holds the write lock
  handles,   \* databases each process has open for writing
  alive,
  stores,    \* databases ever created
  refusals

disk == <<live, backups, staged, swapLock>>
memory == <<task, count, handles, alive>>
storeVars == <<disk, memory, stores, refusals>>

Steps == {"swap", "mend", "sweep", "check", "mkdir", "lock", "swapAgain", "database",
          "insert", "inspect", "stage", "move", "publish", "clean", "files"}
\* own: the operation holds the write lock.
Tasks == [op : Operations, step : Steps, own : BOOLEAN]
Idle == [op |-> "none", step |-> "idle", own |-> FALSE]

StoreTypeOK ==
  /\ live \in Stores /\ backups \subseteq Stores
  /\ staged \in [Procs -> Nat]
  /\ swapLock \in Procs \cup {NoProc}
  /\ task \in [Procs -> Tasks \cup {Idle}]
  /\ count \in [Procs -> Nat]
  /\ handles \in [Procs -> SUBSET (Nat \ {0})]
  /\ alive \in [Procs -> BOOLEAN]
  /\ stores \in Nat /\ refusals \in 0 .. MaxRefusals

StoreInit ==
  /\ live = Absent /\ backups = {}
  /\ staged = [p \in Procs |-> 0]
  /\ swapLock = NoProc
  /\ task = [p \in Procs |-> Idle]
  /\ count = [p \in Procs |-> 0]
  /\ handles = [p \in Procs |-> {}]
  /\ alive = [p \in Procs |-> TRUE]
  /\ stores = 0 /\ refusals = 0

-----------------------------------------------------------------------------
\* Helpers

At(p, op, step) == alive[p] /\ task[p].op \in op /\ task[p].step = step
Goto(p, step) == task' = [task EXCEPT ![p].step = step]
Done(p) == task' = [task EXCEPT ![p] = Idle]

Dead(p) == p # NoProc /\ ~alive[p]
Free(lock) == lock = NoProc \/ Dead(lock)

\* The release of the write lock: the last one unlinks the file that is now at
\* the path, if that carries the process's pid.
AfterRelease(p, store) ==
  IF count[p] = 1 /\ store.lock = p THEN [store EXCEPT !.lock = NoProc] ELSE store
\* Mutated form: a release counts without an entry.
ReleaseTwice(p) == count' = [count EXCEPT ![p] = @ - 2]
ReleaseCount(p) == count' = [count EXCEPT ![p] = @ - 1]
ReleaseWrite(p) == live' = AfterRelease(p, live) /\ ReleaseCount(p)

\* The state of the project that is not lost: that of the live store, or else
\* of what a swap moved aside.  One whose artifacts were not all copied is none.
Newest ==
  LET Complete(store) == IF store.whole THEN store.gen ELSE 0
  IN  IF live.gen > 0 THEN Complete(live)
      ELSE Max({Complete(b) : b \in backups} \cup {0})

-----------------------------------------------------------------------------
\* An interrupted swap is put in order first, but not by a materialization

Begin(p, op) ==
  /\ alive[p] /\ task[p] = Idle
  /\ op = "materialize" => live = Absent
  /\ LET first == IF op = "materialize" \/ (op = "replace" /\ live # Absent)
                  THEN "mkdir" ELSE "swap"
     IN  task' = [task EXCEPT ![p] = [op |-> op, step |-> first, own |-> FALSE]]
  /\ UNCHANGED <<disk, count, handles, alive, stores, refusals>>

\* acquireProjectSwapLock for reconcileProjectStoreSwap: a live owner refuses.
TakeSwapLock(p) ==
  /\ At(p, Operations, "swap")
  /\ \/ Free(swapLock) /\ swapLock' = p /\ Goto(p, "mend")
     \/ ~Free(swapLock) /\ Done(p) /\ UNCHANGED swapLock
  /\ UNCHANGED <<live, backups, staged, count, handles, alive, stores, refusals>>

\* Mutated form: backups are leftovers whether there is a live store or not.
MendNothing(p) ==
  /\ At(p, Operations, "mend")
  /\ Goto(p, "sweep")
  /\ UNCHANGED <<disk, count, handles, alive, stores, refusals>>

\* Without a live store a process died between the two renames of its swap: what
\* it moved aside is moved back.  Of several backups none is chosen.
Mend(p) ==
  /\ At(p, Operations, "mend")
  /\ \/ /\ live # Absent \/ backups = {}
        /\ Goto(p, "sweep")
        /\ UNCHANGED <<disk, count>>
     \/ /\ live = Absent
        /\ \E b \in backups : backups = {b} /\ live' = b
        /\ backups' = {}
        /\ Goto(p, "sweep")
        /\ UNCHANGED <<staged, swapLock, count>>
     \/ /\ live = Absent /\ Cardinality(backups) > 1
        /\ swapLock' = NoProc
        /\ IF task[p].own THEN ReleaseCount(p) ELSE UNCHANGED count
        /\ Done(p)
        /\ UNCHANGED <<live, backups, staged>>
  /\ UNCHANGED <<handles, alive, stores, refusals>>

\* rmSync of the backups, which the file system may refuse.
RemoveBackups ==
  \/ backups' = {} /\ UNCHANGED refusals
  \/ backups # {} /\ refusals < MaxRefusals /\ refusals' = refusals + 1 /\ UNCHANGED backups

\* A replacement goes on under the swap lock it holds already.
Sweep(p) ==
  /\ At(p, Operations, "sweep")
  /\ RemoveBackups
  /\ staged' = [q \in Procs |-> 0]
  /\ \/ task[p].own /\ Goto(p, "inspect") /\ UNCHANGED swapLock
     \/ ~task[p].own /\ Goto(p, "check") /\ swapLock' = NoProc
  /\ UNCHANGED <<live, count, handles, alive, stores>>

\* existsSync: a project to open, none to create over, a store to replace.  An
\* inspection opens the database and changes nothing.
Check(p) ==
  /\ At(p, Operations, "check")
  /\ IF \/ task[p].op = "open" /\ live.id # 0
        \/ task[p].op = "create" /\ live.id = 0
        \/ task[p].op = "replace" /\ live # Absent
     THEN Goto(p, "mkdir") ELSE Done(p)
  /\ UNCHANGED <<disk, count, handles, alive, stores, refusals>>

-----------------------------------------------------------------------------
\* acquireProjectWriteLock

AfterLock(p) ==
  task' = [task EXCEPT ![p].own = TRUE,
                       ![p].step = IF task[p].op = "replace" THEN "swapAgain" ELSE "database"]

\* A process that holds the lock only counts; another makes the directory.  A
\* materialization gives way to a directory it did not make itself.
MakeDirectory(p) ==
  /\ At(p, Operations, "mkdir")
  /\ LET materialize == task[p].op = "materialize"
     IN  \/ /\ materialize /\ live # Absent
            /\ Done(p) /\ UNCHANGED <<live, count>>
         \/ /\ count[p] > 0 /\ (materialize => live = Absent)
            /\ count' = [count EXCEPT ![p] = @ + 1]
            /\ AfterLock(p)
            /\ live' = IF materialize THEN EmptyDirectory ELSE live
         \/ /\ count[p] = 0 /\ (materialize => live = Absent)
            /\ live' = IF live = Absent THEN EmptyDirectory ELSE live
            /\ Goto(p, "lock")
            /\ UNCHANGED count
  /\ UNCHANGED <<backups, staged, swapLock, handles, alive, stores, refusals>>

\* The owner of the file is nobody, dead, or the process itself.  The directory
\* may have been moved away since it was made.
TakeWriteLock(p) ==
  /\ At(p, Operations, "lock")
  /\ \/ /\ live # Absent /\ (Free(live.lock) \/ live.lock = p)
        /\ live' = [live EXCEPT !.lock = p]
        /\ count' = [count EXCEPT ![p] = 1]
        /\ AfterLock(p)
     \/ /\ live = Absent \/ ~(Free(live.lock) \/ live.lock = p)
        /\ Done(p)
        /\ UNCHANGED <<live, count>>
  /\ UNCHANGED <<backups, staged, swapLock, handles, alive, stores, refusals>>

-----------------------------------------------------------------------------
\* openProject and createProject, with the write lock

NewDatabase(generation, complete) ==
  /\ stores < MaxStores /\ stores' = stores + 1
  /\ live' = [live EXCEPT !.id = stores', !.gen = generation, !.whole = complete]

Hand(p) == handles' = [handles EXCEPT ![p] = @ \cup {live.id}]

\* A database that has gone with its directory cannot be opened, and the lock is
\* kept; one that is missing is created, and found to be no project.  An error,
\* another schema or a directory that cannot be written end without the lock.
OpenDatabase(p) ==
  /\ At(p, {"open"}, "database") /\ Done(p)
  /\ \/ live = Absent /\ UNCHANGED <<live, count, handles, stores>>
     \/ /\ live # Absent /\ live.id = 0
        /\ stores < MaxStores /\ stores' = stores + 1
        /\ live' = [AfterRelease(p, live) EXCEPT !.id = stores']
        /\ ReleaseCount(p)
        /\ UNCHANGED handles
     \/ live.id # 0 /\ ReleaseWrite(p) /\ UNCHANGED <<handles, stores>>
     \/ /\ live.gen > 0 /\ live.id \notin handles[p]
        /\ Hand(p)
        /\ UNCHANGED <<live, count, stores>>
  /\ UNCHANGED <<backups, staged, swapLock, alive, refusals>>

\* The schema is created first, the project's record in a transaction after it.
CreateDatabase(p) ==
  /\ At(p, {"create"}, "database")
  /\ \/ live # Absent /\ live.id = 0 /\ NewDatabase(0, TRUE) /\ Goto(p, "insert")
        /\ UNCHANGED count
     \/ (live = Absent \/ live.id # 0) /\ ReleaseWrite(p) /\ Done(p) /\ UNCHANGED stores
  /\ UNCHANGED <<backups, staged, swapLock, handles, alive, refusals>>

\* The directory existed before, because the lock made it: after an error
\* nothing is removed.
InsertProject(p) ==
  /\ At(p, {"create"}, "insert") /\ Done(p)
  /\ \/ live' = [live EXCEPT !.gen = 1] /\ Hand(p) /\ UNCHANGED count
     \/ ReleaseWrite(p) /\ UNCHANGED handles
  /\ UNCHANGED <<backups, staged, swapLock, alive, stores, refusals>>

\* Whatever a store does with its handle: assertWritable, then a transaction.
Write(p) ==
  /\ alive[p] /\ task[p] = Idle
  /\ live.id \in handles[p] /\ live.gen \in 1 .. MaxGenerations - 1
  /\ live' = [live EXCEPT !.gen = @ + 1]
  /\ UNCHANGED <<backups, staged, swapLock, memory, stores, refusals>>

\* A handle may outlive the store it was opened on.
Close(p) ==
  /\ alive[p] /\ task[p] = Idle
  /\ \E id \in handles[p] : handles' = [handles EXCEPT ![p] = @ \ {id}]
  /\ ReleaseWrite(p)
  /\ UNCHANGED <<backups, staged, swapLock, task, alive, stores, refusals>>

-----------------------------------------------------------------------------
\* replaceRestore, with the write lock

\* The swap lock is taken outside the try block whose end releases the other.
TakeSwapLockToo(p) ==
  /\ At(p, {"replace"}, "swapAgain")
  /\ \/ Free(swapLock) /\ swapLock' = p /\ Goto(p, "mend")
     \/ ~Free(swapLock) /\ Done(p) /\ UNCHANGED swapLock
  /\ UNCHANGED <<live, backups, staged, count, handles, alive, stores, refusals>>

ReleaseBoth(p) == ReleaseWrite(p) /\ swapLock' = NoProc /\ Done(p)

\* Mutated form: the early return releases nothing but the swap lock.
InspectKeepingLock(p) ==
  /\ At(p, {"replace"}, "inspect")
  /\ \/ live.gen > 0 /\ Goto(p, "stage") /\ UNCHANGED swapLock
     \/ Done(p) /\ swapLock' = NoProc
  /\ UNCHANGED <<live, count, backups, staged, handles, alive, stores, refusals>>

\* The live project must be the capability's and the command a new one.
Inspect(p) ==
  /\ At(p, {"replace"}, "inspect")
  /\ \/ live.gen > 0 /\ Goto(p, "stage") /\ UNCHANGED <<live, swapLock, count>>
     \/ ReleaseBoth(p)
  /\ UNCHANGED <<backups, staged, handles, alive, stores, refusals>>

\* The packet and what must survive of the live store are written to the stage;
\* an error on the way removes it.
Stage(p) ==
  /\ At(p, {"replace"}, "stage")
  /\ \/ /\ live.gen \in 1 .. MaxGenerations - 1
        /\ staged' = [staged EXCEPT ![p] = live.gen + 1]
        /\ Goto(p, "move")
        /\ UNCHANGED <<live, swapLock, count>>
     \/ ReleaseBoth(p) /\ UNCHANGED staged
  /\ UNCHANGED <<backups, handles, alive, stores, refusals>>

MoveAside(p) ==
  /\ At(p, {"replace"}, "move")
  /\ live # Absent
  /\ backups' = backups \cup {live} /\ live' = Absent
  /\ Goto(p, "publish")
  /\ UNCHANGED <<staged, swapLock, count, handles, alive, stores, refusals>>

\* Mutated form: the marker is not written to the stage.
PublishUnmarked(p) ==
  /\ At(p, {"replace"}, "publish")
  /\ live \in {Absent, EmptyDirectory}
  /\ stores < MaxStores /\ stores' = stores + 1
  /\ live' = [id |-> stores', gen |-> staged[p], whole |-> TRUE, lock |-> NoProc]
  /\ staged' = [staged EXCEPT ![p] = 0]
  /\ Goto(p, "clean")
  /\ UNCHANGED <<backups, swapLock, count, handles, alive, refusals>>

\* A directory is renamed over nothing or over an empty one, with the process's
\* pid in it.  Where it fails, what was moved aside is moved back, unless there
\* is a directory again.
Publish(p) ==
  /\ At(p, {"replace"}, "publish")
  /\ staged' = [staged EXCEPT ![p] = 0]
  /\ \/ /\ live \in {Absent, EmptyDirectory}
        /\ stores < MaxStores /\ stores' = stores + 1
        /\ live' = [id |-> stores', gen |-> staged[p], whole |-> TRUE, lock |-> p]
        /\ Goto(p, "clean")
        /\ UNCHANGED <<backups, swapLock, count>>
     \/ /\ live = Absent
        /\ \E b \in backups : (\A c \in backups : c.gen <= b.gen)
             /\ backups' = backups \ {b} /\ live' = AfterRelease(p, b)
        /\ ReleaseCount(p) /\ swapLock' = NoProc /\ Done(p)
        /\ UNCHANGED stores
     \/ live # Absent /\ ReleaseBoth(p) /\ UNCHANGED <<backups, stores>>
  /\ UNCHANGED <<handles, alive, refusals>>

\* The new store is live, the old one is removed if it can be.
CleanUp(p) ==
  /\ At(p, {"replace"}, "clean")
  /\ RemoveBackups
  /\ ReleaseBoth(p)
  /\ UNCHANGED <<staged, handles, alive, stores>>

-----------------------------------------------------------------------------
\* materializeRestore, with the write lock

\* The database is copied before the artifacts its rows name.
CopyDatabase(p) ==
  /\ At(p, {"materialize"}, "database")
  /\ live # Absent /\ live.id = 0
  /\ NewDatabase(1, FALSE)
  /\ Goto(p, "files")
  /\ UNCHANGED <<backups, staged, swapLock, count, handles, alive, refusals>>

\* After an error the directory is removed with everything in it.
CopyFiles(p) ==
  /\ At(p, {"materialize"}, "files") /\ Done(p)
  /\ live' = Absent \/ live' = [AfterRelease(p, live) EXCEPT !.whole = TRUE]
  /\ ReleaseCount(p)
  /\ UNCHANGED <<backups, staged, swapLock, handles, alive, stores, refusals>>

-----------------------------------------------------------------------------
Crash(p) ==
  /\ alive[p]
  /\ alive' = [alive EXCEPT ![p] = FALSE]
  /\ Done(p)
  /\ count' = [count EXCEPT ![p] = 0]
  /\ handles' = [handles EXCEPT ![p] = {}]
  /\ UNCHANGED <<disk, stores, refusals>>

StoreNext ==
  \E p \in Procs :
    \/ \E op \in Operations : Begin(p, op)
    \/ TakeSwapLock(p) \/ Mend(p) \/ Sweep(p) \/ Check(p)
    \/ MakeDirectory(p) \/ TakeWriteLock(p)
    \/ OpenDatabase(p) \/ CreateDatabase(p) \/ InsertProject(p)
    \/ Write(p) \/ Close(p)
    \/ TakeSwapLockToo(p) \/ Inspect(p) \/ Stage(p)
    \/ MoveAside(p) \/ Publish(p) \/ CleanUp(p)
    \/ CopyDatabase(p) \/ CopyFiles(p)
    \/ Crash(p)

StoreSpec == StoreInit /\ [][StoreNext]_storeVars

-----------------------------------------------------------------------------
\* Properties

Swaps == {"replace", "materialize"}

\* Projects are opened, inspected and founded beside each other and beside other
\* processes' handles, but nothing is under way beside a replacement or a
\* materialization.  Materializing where an interrupted swap left a backup is left
\* out: it founds a second project beside the one in the backup.
SwapsAlone ==
  /\ \A p, q \in Procs : task[p].op \in Swaps /\ task[q] # Idle => p = q
  /\ \A p \in Procs : task[p].op = "materialize" => backups = {}

\* Whoever is past the reconciliation finds the project where it belongs, not
\* in a backup.
ReconciledIsLive ==
  \A p \in Procs :
    /\ task[p].op # "materialize"
    /\ task[p].step \in {"check", "mkdir", "lock", "inspect"}
    /\ Newest > 0
    => live.gen = Newest

\* Whatever dies wherever, the project goes from one complete state to the next:
\* the swap of directories is a single change, or none, and whoever looks after
\* reconciling finds it.
Atomic == INSTANCE AtomicStore WITH project <- Newest
StoreIsAtomic == Atomic!AtomicSpec /\ []ReconciledIsLive

\* Two processes never both have a handle that assertWritable lets write.
OneWriter ==
  \A p, q \in Procs :
    live.id \in handles[p] /\ live.id \in handles[q] => p = q

\* A process that is in no operation and has nothing open keeps no lock: nobody
\* is shut out until it exits.
IdleHoldsNothing ==
  \A p \in Procs :
    alive[p] /\ task[p] = Idle /\ handles[p] = {} => count[p] = 0 /\ swapLock # p

\* "A live store means the new complete store was installed; old backups are
\* safe to discard": the state of the project is never lost.
NothingLost == [][Newest' >= Newest]_storeVars
=============================================================================
