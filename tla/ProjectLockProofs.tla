-------------------------- MODULE ProjectLockProofs --------------------------
(***************************************************************************)
(* The lock file excludes, for any number of processes and any retry bound, *)
(* as long as no process dies; and whoever dies, it fails in one way only:   *)
(* two processes are between the comparison and the unlink of                *)
(* unlinkOwnedLock at once, as MCLockTwoReclaimers shows.                    *)
(***************************************************************************)
EXTENDS ProjectLock, FiniteSetTheorems, TLAPS

\* The inductive invariant.  While everyone lives nobody reaches the unlink of a
\* reclaim; so the file belongs to its creator from the create to the release.
CreatorOwns ==
  crashes = 0 =>
    \A p \in Procs :
      /\ alive[p]
      /\ pc[p] \notin {"reread", "unlink"}
      /\ pc[p] = "write" => file = [owner |-> p, written |-> FALSE]
      /\ pc[p] \in {"relRead", "relUnlink"} => Names(p)
      /\ count[p] > 0 => Names(p) /\ pc[p] = "idle"

\* A process that probes has read an owner.
ProbesSomeone == \A p \in Procs : pc[p] \in {"probe", "reread", "unlink"} => seen[p] \in Procs

IInv == TypeOK /\ ProbesSomeone /\ CreatorOwns

LEMMA LockInit == Init => IInv
  BY LockAssumption, SMT DEF Init, IInv, TypeOK, ProbesSomeone, CreatorOwns, Steps, Files

\* A lock file is a file, and says who created it.
LEMMA FileOf ==
  ASSUME NEW p \in Procs, NEW w \in BOOLEAN
  PROVE  /\ [owner |-> p, written |-> w] \in Files
         /\ [owner |-> p, written |-> w] # NoFile
         /\ [owner |-> p, written |-> w].owner = p
         /\ [owner |-> p, written |-> w].written = w
  BY LockAssumption DEF Files

LEMMA LockRetry ==
  ASSUME TypeOK, NEW p \in Procs, Retry(p)
  PROVE  /\ pc' \in [Procs -> Steps]
         /\ pc' = [pc EXCEPT ![p] = "create"] \/ pc' = [pc EXCEPT ![p] = "idle"]
         /\ seen' = [seen EXCEPT ![p] = NoProc]
         /\ attempt' \in [Procs -> 0 .. MaxAttempts - 1]
         /\ count' = count
  BY LockAssumption DEF Retry, TypeOK, Goto, Steps

LEMMA LockStep == IInv /\ [Next]_vars => IInv'
<1> SUFFICES ASSUME IInv, [Next]_vars PROVE IInv'
  OBVIOUS
<1> USE LockAssumption DEF IInv
<1>1. CASE UNCHANGED vars
  BY <1>1 DEF vars, TypeOK, ProbesSomeone, CreatorOwns, Names
<1>2. CASE Next
  <2> SUFFICES ASSUME NEW p \in Procs,
                      Acquire(p) \/ Advance(p) \/ Release(p)
                        \/ WriteFails(p) \/ Crash(p) \/ Restart(p)
               PROVE  IInv'
    BY <1>2 DEF Next
  <2> USE DEF TypeOK, ProbesSomeone, CreatorOwns, Names, At, Goto, Steps, Files, world
  <2>1. CASE Acquire(p)
    <3>1. CASE count[p] = 0 /\ Goto(p, "create") /\ UNCHANGED count
      BY <2>1, <3>1 DEF Acquire
    <3>2. CASE /\ count[p] \in 1 .. MaxDepth - 1
               /\ count' = [count EXCEPT ![p] = @ + 1]
               /\ UNCHANGED pc
      <4>1. count' \in [Procs -> 0 .. MaxDepth] /\ count[p] > 0
        BY <3>2
      <4>2. TypeOK' /\ ProbesSomeone'
        BY <2>1, <3>2, <4>1 DEF Acquire
      <4>3. \A q \in Procs : count'[q] > 0 => count[q] > 0
        BY <3>2, <4>1
      <4>4. CreatorOwns'
        BY <2>1, <3>2, <4>1, <4>3 DEF Acquire
      <4> QED
        BY <4>2, <4>4
    <3> QED
      BY <2>1, <3>1, <3>2 DEF Acquire
  <2>2. CASE TryCreate(p)
    <3>1. CASE file # NoFile /\ Goto(p, "read") /\ UNCHANGED file
      BY <2>2, <3>1 DEF TryCreate
    <3>2. CASE /\ file = NoFile
               /\ file' = [owner |-> p, written |-> FALSE]
               /\ Goto(p, "write")
      <4>1. TypeOK' /\ ProbesSomeone'
        BY <2>2, <3>2 DEF TryCreate
      <4>2. crashes = 0 => \A q \in Procs : count[q] = 0 /\ pc[q] \notin {"write", "relRead", "relUnlink"}
        <5> SUFFICES ASSUME crashes = 0, NEW q \in Procs
                     PROVE  count[q] = 0 /\ pc[q] \notin {"write", "relRead", "relUnlink"}
          OBVIOUS
        <5>1. count[q] \in 0 .. MaxDepth /\ ~(count[q] > 0)
          BY <3>2
        <5>2. [owner |-> q, written |-> FALSE] # NoFile
          BY FileOf
        <5> QED
          BY <3>2, <5>1, <5>2
      <4>3. CreatorOwns'
        BY <2>2, <3>2, <4>2 DEF TryCreate
      <4> QED
        BY <4>1, <4>3
    <3> QED
      BY <2>2, <3>1, <3>2 DEF TryCreate
  <2>3. CASE WriteOwner(p)
    <3>1. TypeOK' /\ ProbesSomeone'
      BY <2>3 DEF WriteOwner, Hold
    <3>2. CASE crashes = 0
      <4>1. /\ file' = [owner |-> p, written |-> TRUE]
            /\ file' # NoFile /\ file'.written /\ file'.owner = p
        BY <2>3, <3>2, FileOf DEF WriteOwner
      <4>2. \A q \in Procs \ {p} :
              count[q] = 0 /\ pc[q] \notin {"write", "relRead", "relUnlink"}
        BY <2>3, <3>2, FileOf DEF WriteOwner
      <4> QED
        BY <2>3, <3>1, <4>1, <4>2 DEF WriteOwner, Hold
    <3>3. CASE crashes # 0
      BY <2>3, <3>1, <3>3 DEF WriteOwner
    <3> QED
      BY <3>2, <3>3
  <2>4. CASE ReadOwner(p)
    <3>1. CASE file = NoFile /\ Retry(p)
      BY <2>4, <3>1, LockRetry DEF ReadOwner
    <3>2. CASE kind = "write" /\ Refuse(p)
      BY <2>4, <3>2 DEF ReadOwner, Refuse
    <3>3. CASE kind = "swap" /\ Retry(p)
      BY <2>4, <3>3, LockRetry DEF ReadOwner
    <3>4. CASE Names(p) /\ Hold(p)
      BY <2>4, <3>4 DEF ReadOwner, Hold
    <3>5. CASE /\ file # NoFile /\ file.written
               /\ seen' = [seen EXCEPT ![p] = file.owner]
               /\ Goto(p, "probe")
               /\ UNCHANGED <<attempt, count>>
      BY <2>4, <3>5 DEF ReadOwner
    <3> QED
      BY <2>4, <3>1, <3>2, <3>3, <3>4, <3>5 DEF ReadOwner
  <2>5. CASE Probe(p)
    BY <2>5 DEF Probe, Refuse
  <2>6. CASE Reread(p)
    BY <2>6, LockRetry DEF Reread
  <2>7. CASE Unlink(p)
    BY <2>7, LockRetry DEF Unlink
  <2>8. CASE ReleaseRead(p)
    BY <2>8 DEF ReleaseRead
  <2>9. CASE ReleaseUnlink(p)
    BY <2>9 DEF ReleaseUnlink
  <2>10. CASE Release(p)
    BY <2>10 DEF Release
  <2>11. CASE WriteFails(p)
    BY <2>11 DEF WriteFails, Refuse
  <2>12. CASE Crash(p)
    BY <2>12 DEF Crash
  <2>13. CASE Restart(p)
    BY <2>13 DEF Restart, memory
  <2> QED
    BY <2>1, <2>2, <2>3, <2>4, <2>5, <2>6, <2>7, <2>8, <2>9, <2>10, <2>11, <2>12, <2>13
    DEF Advance
<1> QED
  BY <1>1, <1>2

\* Every variable of the lock protocol keeps its type.
THEOREM LockTypeCorrect == Spec => []TypeOK
<1>1. IInv => TypeOK
  BY DEF IInv
<1> QED
  BY <1>1, LockInit, LockStep, PTL DEF Spec

\* Any number of processes contending for the lock file, through the create, the
\* refusals and the releases: at most one holds it, until a process dies.
THEOREM LockExcludes == Spec => []MutexUntilCrash
<1>1. IInv => MutexUntilCrash
  <2> SUFFICES ASSUME IInv, crashes = 0, NEW p \in Holders, NEW q \in Holders
               PROVE  p = q
    BY DEF MutexUntilCrash
  <2>1. Names(p) /\ Names(q)
    BY DEF IInv, CreatorOwns, Holders
  <2> QED
    BY <2>1 DEF Names
<1> QED
  BY <1>1, LockInit, LockStep, PTL DEF Spec

\* Until a process dies the file names its holder, so that every inspection of
\* it ends in a refusal and never in a reclaim.
THEOREM LockNamesHolder == Spec => []HolderNamedUntilCrash
<1>1. IInv => HolderNamedUntilCrash
  BY DEF IInv, CreatorOwns, HolderNamedUntilCrash, Holders
<1> QED
  BY <1>1, LockInit, LockStep, PTL DEF Spec

-----------------------------------------------------------------------------
\* Processes die, and any number of them reclaims what the dead left

\* Two processes have both found the pid of a dead owner in the file and both go on
\* to unlink the path.
ReclaimersRace == \E p, q \in Procs : p # q /\ pc[p] = "unlink" /\ pc[q] = "unlink"

\* Who reclaims has proven the owner dead, and the dead do nothing.
ReclaimsTheDead ==
  restarts = 0 =>
    \A p \in Procs :
      /\ ~alive[p] => pc[p] = "idle" /\ count[p] = 0
      /\ pc[p] \in {"reread", "unlink"} => seen[p] \in Procs /\ ~alive[seen[p]]

\* While reclaimers do not race, the file is what its creator, its holder and its
\* reclaimer take it for.
FileIsTheirs ==
  restarts = 0 =>
    \A p \in Procs :
      /\ pc[p] = "write" => file = [owner |-> p, written |-> FALSE]
      /\ pc[p] \in {"relRead", "relUnlink"} => Names(p)
      /\ count[p] > 0 => Names(p) /\ pc[p] = "idle"
      /\ pc[p] = "unlink" => Names(seen[p])

LEMMA RestartsCount ==
  ASSUME TypeOK, [Next]_vars, restarts' = 0
  PROVE  restarts = 0 /\ ~ \E p \in Procs : Restart(p)
<1>1. ~ \E p \in Procs : Restart(p)
  BY LockAssumption DEF Restart, TypeOK
<1> QED BY <1>1 DEF Next, vars, world, Acquire, Advance, Release, TryCreate, WriteOwner, WriteFails,
              ReadOwner, Probe, Reread, Unlink, ReleaseRead, ReleaseUnlink, Crash

LEMMA ReclaimsTheDeadStep ==
  ASSUME TypeOK, ProbesSomeone, ReclaimsTheDead, [Next]_vars
  PROVE  ReclaimsTheDead'
<1> SUFFICES ASSUME restarts' = 0 PROVE ReclaimsTheDead'
  BY DEF ReclaimsTheDead
<1> USE DEF TypeOK, ReclaimsTheDead, At, Goto, world, memory
<1>1. restarts = 0 /\ ~ \E p \in Procs : Restart(p)
  BY RestartsCount
<1>2. CASE UNCHANGED vars
  BY <1>1, <1>2 DEF vars
<1>3. ASSUME NEW p \in Procs, Acquire(p) \/ Release(p) \/ WriteFails(p)
      PROVE  ReclaimsTheDead'
  BY <1>1, <1>3 DEF Acquire, Release, WriteFails, Refuse
<1>4. ASSUME NEW p \in Procs, TryCreate(p) \/ WriteOwner(p)
      PROVE  ReclaimsTheDead'
  BY <1>1, <1>4 DEF TryCreate, WriteOwner, Hold
<1>5. ASSUME NEW p \in Procs, ReadOwner(p) \/ Probe(p)
      PROVE  ReclaimsTheDead'
  BY <1>1, <1>5, LockRetry DEF ReadOwner, Probe, Hold, Refuse, ProbesSomeone
<1>6. ASSUME NEW p \in Procs, Reread(p) \/ Unlink(p)
      PROVE  ReclaimsTheDead'
  BY <1>1, <1>6, LockRetry DEF Reread, Unlink
<1>7. ASSUME NEW p \in Procs, ReleaseRead(p) \/ ReleaseUnlink(p)
      PROVE  ReclaimsTheDead'
  BY <1>1, <1>7 DEF ReleaseRead, ReleaseUnlink
<1>8. ASSUME NEW p \in Procs, Crash(p)
      PROVE  ReclaimsTheDead'
  BY <1>1, <1>8 DEF Crash
<1> QED BY <1>1, <1>2, <1>3, <1>4, <1>5, <1>6, <1>7, <1>8 DEF Next, Advance

LEMMA FileIsTheirsStep ==
  ASSUME TypeOK, ReclaimsTheDead, FileIsTheirs, ~ReclaimersRace, [Next]_vars
  PROVE  FileIsTheirs'
<1> SUFFICES ASSUME restarts' = 0 PROVE FileIsTheirs'
  BY DEF FileIsTheirs
<1> USE DEF TypeOK, FileIsTheirs, At, Goto, world, memory, Names
<1>1. restarts = 0 /\ ~ \E p \in Procs : Restart(p)
  BY RestartsCount
<1>2. CASE UNCHANGED vars
  BY <1>1, <1>2 DEF vars
<1>3. ASSUME NEW p \in Procs, Acquire(p)
      PROVE  FileIsTheirs'
  BY <1>1, <1>3 DEF Acquire
<1>4. ASSUME NEW p \in Procs, Release(p)
      PROVE  FileIsTheirs'
  BY <1>1, <1>4 DEF Release
<1>5. ASSUME NEW p \in Procs, TryCreate(p)
      PROVE  FileIsTheirs'
  <2>1. CASE file # NoFile
    BY <1>1, <1>5, <2>1 DEF TryCreate
  <2>2. CASE file = NoFile
    <3>1. \A q \in Procs : ~(count[q] > 0) /\ pc[q] \notin {"write", "relRead", "relUnlink", "unlink"}
      BY <1>1, <2>2, FileOf
    <3> QED BY <1>1, <1>5, <2>2, <3>1 DEF TryCreate
  <2> QED BY <2>1, <2>2
<1>6. ASSUME NEW p \in Procs, WriteOwner(p)
      PROVE  FileIsTheirs'
  <2>1. file = [owner |-> p, written |-> FALSE] /\ file' = [owner |-> p, written |-> TRUE]
    BY <1>1, <1>6 DEF WriteOwner
  <2>2. \A q \in Procs \ {p} : ~(count[q] > 0) /\ pc[q] \notin {"write", "relRead", "relUnlink", "unlink"}
    BY <1>1, <2>1, FileOf
  <2>3. file' # NoFile /\ file'.written /\ file'.owner = p
    BY <2>1, FileOf
  <2> QED BY <1>1, <1>6, <2>2, <2>3 DEF WriteOwner, Hold
<1>7. ASSUME NEW p \in Procs, WriteFails(p)
      PROVE  FileIsTheirs'
  BY <1>1, <1>7 DEF WriteFails, Refuse
<1>8. ASSUME NEW p \in Procs, ReadOwner(p)
      PROVE  FileIsTheirs'
  <2>1. CASE Names(p) /\ Hold(p)
    BY <1>1, <1>8, <2>1 DEF ReadOwner, Hold
  <2>2. CASE Retry(p) \/ Refuse(p)
    BY <1>1, <1>8, <2>2, LockRetry DEF ReadOwner, Refuse
  <2>3. CASE seen' = [seen EXCEPT ![p] = file.owner] /\ Goto(p, "probe") /\ UNCHANGED <<attempt, count>>
    BY <1>1, <1>8, <2>3 DEF ReadOwner
  <2> QED BY <1>8, <2>1, <2>2, <2>3 DEF ReadOwner
<1>9. ASSUME NEW p \in Procs, Probe(p)
      PROVE  FileIsTheirs'
  BY <1>1, <1>9 DEF Probe, Refuse
<1>10. ASSUME NEW p \in Procs, Reread(p)
       PROVE  FileIsTheirs'
  BY <1>1, <1>10, LockRetry DEF Reread
<1>11. ASSUME NEW p \in Procs, Unlink(p)
       PROVE  FileIsTheirs'
  <2>1. Names(seen[p]) /\ seen[p] \in Procs /\ ~alive[seen[p]]
    BY <1>1, <1>11 DEF Unlink, ReclaimsTheDead
  <2>2. \A q \in Procs \ {p} : ~(count[q] > 0) /\ pc[q] \notin {"write", "relRead", "relUnlink"}
    BY <1>1, <2>1, FileOf DEF ReclaimsTheDead
  <2>3. \A q \in Procs \ {p} : pc[q] # "unlink"
    BY <1>11 DEF Unlink, ReclaimersRace
  <2> QED BY <1>1, <1>11, <2>2, <2>3, LockRetry DEF Unlink
<1>12. ASSUME NEW p \in Procs, ReleaseRead(p)
       PROVE  FileIsTheirs'
  BY <1>1, <1>12 DEF ReleaseRead
<1>13. ASSUME NEW p \in Procs, ReleaseUnlink(p)
       PROVE  FileIsTheirs'
  <2>1. Names(p) /\ alive[p]
    BY <1>1, <1>13 DEF ReleaseUnlink
  <2>2. \A q \in Procs \ {p} : ~(count[q] > 0) /\ pc[q] \notin {"write", "relRead", "relUnlink", "unlink"}
    BY <1>1, <2>1, FileOf DEF ReclaimsTheDead
  <2> QED BY <1>1, <1>13, <2>2 DEF ReleaseUnlink
<1>14. ASSUME NEW p \in Procs, Crash(p)
       PROVE  FileIsTheirs'
  BY <1>1, <1>14 DEF Crash
<1> QED BY <1>1, <1>2, <1>3, <1>4, <1>5, <1>6, <1>7, <1>8, <1>9, <1>10, <1>11, <1>12, <1>13, <1>14
        DEF Next, Advance

\* "Only a PID proven dead can be unlinked and retried" (src/project/project-lock.ts):
\* as long as no pid is handed out again, whoever goes on to the unlink of a reclaim
\* has read the pid of a process that does not run, whatever the others do.
THEOREM OnlyTheDeadAreReclaimed == Spec => []ReclaimsTheDead
<1>1. Init => ReclaimsTheDead
  BY DEF Init, ReclaimsTheDead
<1>2. IInv /\ ReclaimsTheDead /\ [Next]_vars => ReclaimsTheDead'
  BY ReclaimsTheDeadStep DEF IInv
<1> QED BY <1>1, <1>2, LockInit, LockStep, PTL DEF Spec

LEMMA FileInvariant == Spec /\ []~ReclaimersRace => []FileIsTheirs
<1>1. Init => FileIsTheirs
  BY LockAssumption DEF Init, FileIsTheirs
<1>2. IInv /\ ReclaimsTheDead /\ FileIsTheirs /\ ~ReclaimersRace /\ [Next]_vars => FileIsTheirs'
  BY FileIsTheirsStep DEF IInv
<1> QED BY <1>1, <1>2, LockInit, LockStep, OnlyTheDeadAreReclaimed, PTL DEF Spec

\* Any number of processes contend, die and reclaim: either at most one running
\* process ever believes it holds the lock, or two were between the comparison and
\* the unlink of unlinkOwnedLock at once.  Nothing else breaks the exclusion.
THEOREM ExclusionFailsByRaceOnly == Spec => ([]MutualExclusion \/ <>ReclaimersRace)
<1>1. FileIsTheirs => MutualExclusion
  <2> SUFFICES ASSUME FileIsTheirs, restarts = 0
               PROVE  Cardinality(Holders) <= 1
    BY DEF MutualExclusion
  <2>1. \A p, q \in Holders : p = q
    BY DEF FileIsTheirs, Holders, Names
  <2>2. CASE Holders = {}
    BY <2>2, FS_EmptySet
  <2>3. CASE Holders # {}
    <3> PICK p \in Holders : TRUE
      BY <2>3
    <3>1. Holders = {p}
      BY <2>1
    <3>2. Cardinality({p}) = 1
      BY FS_Singleton
    <3> QED BY <3>1, <3>2
  <2> QED BY <2>2, <2>3
<1> QED BY <1>1, FileInvariant, PTL

\* The file of a running process disappears by its own release only, among any number
\* of processes and deaths, or else two reclaimers raced.
THEOREM UnlinkFailsByRaceOnly == Spec => (OnlyDeadOwnerUnlinked \/ <>ReclaimersRace)
<1>1. IInv /\ ReclaimsTheDead /\ FileIsTheirs /\ [Next]_vars =>
        [(restarts = 0 /\ file # NoFile /\ file' = NoFile /\ alive[file.owner])
           => pc[file.owner] = "relUnlink"]_vars
  <2> SUFFICES ASSUME IInv, ReclaimsTheDead, FileIsTheirs, Next, restarts = 0, file # NoFile,
                      file' = NoFile, alive[file.owner]
               PROVE  pc[file.owner] = "relUnlink"
    OBVIOUS
  <2> USE DEF IInv, TypeOK, ReclaimsTheDead, FileIsTheirs, Names, At, world
  <2>1. ASSUME NEW p \in Procs, Unlink(p)
        PROVE  FALSE
    BY <2>1 DEF Unlink
  <2>2. ASSUME NEW p \in Procs, ReleaseUnlink(p)
        PROVE  pc[file.owner] = "relUnlink"
    BY <2>2 DEF ReleaseUnlink
  <2>3. ASSUME NEW p \in Procs, TryCreate(p) \/ WriteOwner(p)
        PROVE  FALSE
    BY <2>3, FileOf DEF TryCreate, WriteOwner
  <2>4. ASSUME UNCHANGED file PROVE FALSE
    BY <2>4
  <2> QED BY <2>1, <2>2, <2>3, <2>4 DEF Next, Advance, Acquire, Release, WriteFails, ReadOwner, Probe,
             Reread, ReleaseRead, Crash, Restart
<1> QED BY <1>1, FileInvariant, OnlyTheDeadAreReclaimed, LockInit, LockStep, PTL
        DEF Spec, OnlyDeadOwnerUnlinked
=============================================================================
