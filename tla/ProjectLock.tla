----------------------------- MODULE ProjectLock -----------------------------
(***************************************************************************)
(* The PID lock file of a project (src/project/project-lock.ts), one       *)
(* file-system call per step.  kind = "write" is acquireProjectWriteLock    *)
(* (.ganesh/write.lock), kind = "swap" is acquireProjectSwapLock            *)
(* (.ganesh.replace.lock): the two differ only in what they do with an      *)
(* unreadable owner and with a file that already carries their own pid.     *)
(*                                                                         *)
(* A process is named by its pid.  A pid that crashed may be handed out     *)
(* again by the operating system: Restart.                                  *)
(***************************************************************************)
EXTENDS Naturals, FiniteSets

CONSTANTS
  Procs,             \* pids of the processes that may open the project
  MaxAttempts,       \* the retry bound of the code (10)
  MaxDepth,          \* bound: reentrant acquisitions held by one process
  MaxCrashes,        \* bound: process crashes
  MaxRestarts,       \* bound: pids handed out again
  MaxWriteFailures,  \* bound: writes of the pid that fail after the create
  NoProc, NoFile     \* null values

ASSUME LockAssumption ==
  /\ NoProc \notin Procs
  /\ NoFile \notin [owner : Procs, written : BOOLEAN]
  /\ MaxAttempts \in Nat \ {0} /\ MaxDepth \in Nat \ {0}
  /\ MaxCrashes \in Nat /\ MaxRestarts \in Nat /\ MaxWriteFailures \in Nat

VARIABLES
  kind,      \* which of the two locks a behaviour is about: it never changes
  file,      \* the lock file: absent, or created by owner, with or without its pid
  pc,        \* the next file-system call of each process
  seen,      \* the owner pid a process has read and is judging
  attempt,   \* the loop counter of the acquisition in progress
  count,     \* activeLocks: the depth of the lock this process believes it holds
  alive,     \* whether the pid is a running process
  crashes, restarts, writeFailures

vars == <<kind, file, pc, seen, attempt, count, alive, crashes, restarts, writeFailures>>
memory == <<pc, seen, attempt, count>>
world == <<kind, alive, crashes, restarts, writeFailures>>

Files == [owner : Procs, written : BOOLEAN]
Steps == {"idle", "create", "write", "read", "probe", "reread", "unlink",
          "relRead", "relUnlink"}

TypeOK ==
  /\ kind \in {"write", "swap"}
  /\ file \in Files \cup {NoFile}
  /\ pc \in [Procs -> Steps]
  /\ seen \in [Procs -> Procs \cup {NoProc}]
  /\ attempt \in [Procs -> 0 .. MaxAttempts - 1]
  /\ count \in [Procs -> 0 .. MaxDepth]
  /\ alive \in [Procs -> BOOLEAN]
  /\ crashes \in 0 .. MaxCrashes
  /\ restarts \in 0 .. MaxRestarts
  /\ writeFailures \in 0 .. MaxWriteFailures

Init ==
  /\ kind \in {"write", "swap"}
  /\ file = NoFile
  /\ pc = [p \in Procs |-> "idle"]
  /\ seen = [p \in Procs |-> NoProc]
  /\ attempt = [p \in Procs |-> 0]
  /\ count = [p \in Procs |-> 0]
  /\ alive = [p \in Procs |-> TRUE]
  /\ crashes = 0 /\ restarts = 0 /\ writeFailures = 0

-----------------------------------------------------------------------------
\* Helpers

\* The file carries the pid of p: the content comparison of unlinkOwnedLock.
Names(p) == file # NoFile /\ file.written /\ file.owner = p

\* isProjectLocked, which operational health reports: an unreadable owner counts
\* as locked, and so does any owner not proven dead.
IsProjectLocked == file # NoFile /\ (file.written => alive[file.owner])

At(p, step) == alive[p] /\ pc[p] = step
Goto(p, step) == pc' = [pc EXCEPT ![p] = step]

\* Mutated form: the loop's bound is off by one.
RetryOnceMore(p) ==
  /\ \/ attempt[p] < MaxAttempts
        /\ attempt' = [attempt EXCEPT ![p] = @ + 1]
        /\ Goto(p, "create")
     \/ attempt[p] >= MaxAttempts
        /\ attempt' = [attempt EXCEPT ![p] = 0]
        /\ Goto(p, "idle")
  /\ seen' = [seen EXCEPT ![p] = NoProc]
  /\ UNCHANGED count

\* One more turn of the loop, or the error after the last one.
Retry(p) ==
  /\ \/ attempt[p] + 1 < MaxAttempts
        /\ attempt' = [attempt EXCEPT ![p] = @ + 1]
        /\ Goto(p, "create")
     \/ attempt[p] + 1 >= MaxAttempts
        /\ attempt' = [attempt EXCEPT ![p] = 0]
        /\ Goto(p, "idle")
  /\ seen' = [seen EXCEPT ![p] = NoProc]
  /\ UNCHANGED count

\* The acquisition throws project-locked.
Refuse(p) ==
  /\ Goto(p, "idle")
  /\ attempt' = [attempt EXCEPT ![p] = 0]
  /\ seen' = [seen EXCEPT ![p] = NoProc]
  /\ UNCHANGED count

\* activeLocks.set(root, {pid, count: 1})
Hold(p) ==
  /\ Goto(p, "idle")
  /\ attempt' = [attempt EXCEPT ![p] = 0]
  /\ count' = [count EXCEPT ![p] = 1]
  /\ UNCHANGED seen

-----------------------------------------------------------------------------
\* Acquisition

\* Reentry only counts; otherwise the loop starts.
Acquire(p) ==
  /\ At(p, "idle")
  /\ \/ /\ count[p] \in 1 .. MaxDepth - 1
        /\ count' = [count EXCEPT ![p] = @ + 1]
        /\ UNCHANGED pc
     \/ count[p] = 0 /\ Goto(p, "create") /\ UNCHANGED count
  /\ UNCHANGED <<file, seen, attempt, world>>

\* Mutated form: the file is opened without the flag that makes it exclusive.
CreateAnyway(p) ==
  /\ At(p, "create")
  /\ file' = [owner |-> p, written |-> FALSE]
  /\ Goto(p, "write")
  /\ UNCHANGED <<seen, attempt, count, world>>

\* writeFileSync with flag wx opens the file exclusively ...
TryCreate(p) ==
  /\ At(p, "create")
  /\ \/ /\ file = NoFile
        /\ file' = [owner |-> p, written |-> FALSE]
        /\ Goto(p, "write")
     \/ file # NoFile /\ Goto(p, "read") /\ UNCHANGED file
  /\ UNCHANGED <<seen, attempt, count, world>>

\* ... and then writes the pid, through the descriptor: a file unlinked in
\* between is not the one that is written.
WriteOwner(p) ==
  /\ At(p, "write")
  /\ file' = IF file = [owner |-> p, written |-> FALSE]
             THEN [owner |-> p, written |-> TRUE] ELSE file
  /\ Hold(p)
  /\ UNCHANGED world

\* The write fails (no space, I/O error): rethrown, the empty file stays.
WriteFails(p) ==
  /\ At(p, "write")
  /\ writeFailures < MaxWriteFailures
  /\ writeFailures' = writeFailures + 1
  /\ Refuse(p)
  /\ UNCHANGED <<kind, file, alive, crashes, restarts>>

\* The owner is read back.  An empty file is an invalid owner: the write lock
\* refuses, the swap lock tries again.  Only the write lock adopts its own pid.
ReadOwner(p) ==
  /\ At(p, "read")
  /\ \/ file = NoFile /\ Retry(p)
     \/ /\ file # NoFile /\ ~file.written
        /\ \/ kind = "write" /\ Refuse(p)
           \/ kind = "swap" /\ Retry(p)
     \/ Names(p) /\ kind = "write" /\ Hold(p)
     \/ /\ file # NoFile /\ file.written
        /\ kind = "write" => file.owner # p
        /\ seen' = [seen EXCEPT ![p] = file.owner]
        /\ Goto(p, "probe")
        /\ UNCHANGED <<attempt, count>>
  /\ UNCHANGED <<file, world>>

\* Mutated form: whoever holds the lock is taken for dead.
ProbeNothing(p) ==
  /\ At(p, "probe") /\ Goto(p, "reread")
  /\ UNCHANGED <<file, seen, attempt, count, world>>

\* process.kill(owner, 0): only a pid proven dead is reclaimed.
Probe(p) ==
  /\ At(p, "probe")
  /\ \/ alive[seen[p]] /\ Refuse(p)
     \/ ~alive[seen[p]] /\ Goto(p, "reread") /\ UNCHANGED <<seen, attempt, count>>
  /\ UNCHANGED <<file, world>>

\* unlinkOwnedLock: the content is read once more, then the path is unlinked.
Reread(p) ==
  /\ At(p, "reread")
  /\ \/ Names(seen[p]) /\ Goto(p, "unlink") /\ UNCHANGED <<seen, attempt, count>>
     \/ ~Names(seen[p]) /\ Retry(p)
  /\ UNCHANGED <<file, world>>

\* Mutated form: the error of a failed unlink is swallowed.
UnlinkNothing(p) ==
  /\ At(p, "unlink") /\ Retry(p)
  /\ UNCHANGED <<file, world>>

Unlink(p) ==
  /\ At(p, "unlink")
  /\ file' = NoFile
  /\ Retry(p)
  /\ UNCHANGED world

-----------------------------------------------------------------------------
\* Release

\* Mutated form: the file is removed by an inner release already.
ReleaseAtOnce(p) ==
  /\ At(p, "idle") /\ count[p] > 0
  /\ count' = [count EXCEPT ![p] = @ - 1]
  /\ Goto(p, "relRead")
  /\ UNCHANGED <<file, seen, attempt, world>>

Release(p) ==
  /\ At(p, "idle") /\ count[p] > 0
  /\ count' = [count EXCEPT ![p] = @ - 1]
  /\ Goto(p, IF count[p] = 1 THEN "relRead" ELSE "idle")
  /\ UNCHANGED <<file, seen, attempt, world>>

ReleaseRead(p) ==
  /\ At(p, "relRead")
  /\ Goto(p, IF Names(p) THEN "relUnlink" ELSE "idle")
  /\ UNCHANGED <<file, seen, attempt, count, world>>

ReleaseUnlink(p) ==
  /\ At(p, "relUnlink")
  /\ file' = NoFile
  /\ Goto(p, "idle")
  /\ UNCHANGED <<seen, attempt, count, world>>

-----------------------------------------------------------------------------
\* Faults

Crash(p) ==
  /\ alive[p] /\ crashes < MaxCrashes
  /\ crashes' = crashes + 1
  /\ alive' = [alive EXCEPT ![p] = FALSE]
  /\ Goto(p, "idle")
  /\ seen' = [seen EXCEPT ![p] = NoProc]
  /\ attempt' = [attempt EXCEPT ![p] = 0]
  /\ count' = [count EXCEPT ![p] = 0]
  /\ UNCHANGED <<kind, file, restarts, writeFailures>>

Restart(p) ==
  /\ ~alive[p] /\ restarts < MaxRestarts
  /\ restarts' = restarts + 1
  /\ alive' = [alive EXCEPT ![p] = TRUE]
  /\ UNCHANGED <<kind, file, memory, crashes, writeFailures>>

Advance(p) ==
  \/ TryCreate(p) \/ WriteOwner(p) \/ ReadOwner(p) \/ Probe(p)
  \/ Reread(p) \/ Unlink(p) \/ ReleaseRead(p) \/ ReleaseUnlink(p)

Next ==
  \E p \in Procs :
    \/ Acquire(p) \/ Advance(p) \/ Release(p)
    \/ WriteFails(p) \/ Crash(p) \/ Restart(p)

Spec == Init /\ [][Next]_vars

\* A call that has started runs on: it is synchronous and holds the thread.
\* Nothing obliges a caller to acquire or to release.
FairSpec == Spec /\ \A p \in Procs : WF_vars(Advance(p))

-----------------------------------------------------------------------------
\* Properties

Holders == {p \in Procs : alive[p] /\ count[p] > 0}

\* At most one running process believes it holds the lock: what the whole
\* single-writer discipline of the store rests on.  A pid handed out again may
\* share the lock with whoever is reclaiming it.
MutualExclusion == restarts = 0 => Cardinality(Holders) <= 1

\* As long as no process has died, the lock excludes, however many contend:
\* the exclusive create of acquireProjectWriteLock decides.
MutexUntilCrash == crashes = 0 => \A p, q \in Holders : p = q

\* As long as no process has died, a holder's own pid is what the file says, so
\* that everyone who inspects it is refused.
HolderNamedUntilCrash == crashes = 0 => \A p \in Holders : Names(p)

\* "Only a PID proven dead can be unlinked and retried": the file of a running
\* process disappears only by that process's own release.
OnlyDeadOwnerUnlinked ==
  [][(restarts = 0 /\ file # NoFile /\ file' = NoFile /\ alive[file.owner])
       => pc[file.owner] = "relUnlink"]_vars

\* An acquisition that finds the file of a dead process, before its last
\* attempt, gets the lock: the stale file is reclaimed without an operator,
\* unless its own pid cannot be written.
StaleLockReclaimed ==
  \A p \in Procs :
    (/\ At(p, "create") /\ attempt[p] + 1 < MaxAttempts
     /\ file # NoFile /\ file.written /\ ~alive[file.owner])
      ~> (p \in Holders \/ ~alive[p] \/ restarts > 0 \/ writeFailures > 0)
=============================================================================
