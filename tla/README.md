# Verification of Ganesh

Ganesh keeps a researcher's project in a SQLite store (`.ganesh/`) beside its artifact files.
One process at a time writes it; specialists (language-model sessions) work on it under bounded
contracts; nothing leaves the machine and nothing enters the record unless the owner's policy
allows it; and the owner can back it up, delete from it and restore it.

This directory holds TLA+ models of the parts of the program whose correctness depends on the
order of things — lock files, awaits, crashes, revocations that arrive while something is under
way, restores of old state — the TLC configurations that check them, and TLAPS proofs.
Paths below are relative to the repository; `X.ts:n` is line n of X.

    tlasany M.tla                       parse
    tlc -config MCName.cfg MCModule     model-check
    tlapm MProofs.tla                   check the proofs

PROJECT.json says, for every definition, which lines of the source it stands for.

## 1. Inventory

### Modelled

**Project locks** (`src/project/project-lock.ts`). State: two lock files that hold a pid
(`.ganesh.swap.lock`, `.ganesh/project.lock`) and a per-process table of re-entrance counts.
Operations: acquire (create exclusively, else read the owner, probe it, unlink a dead owner's
file, try again up to ten times), release (count down, unlink if the file still names us),
`isProjectLocked`. Hard: every file-system call is a separate step of a process that may die; pids are
reused; an empty file is left by a death between create and write. Correct when at most one
live process holds a lock, the file names the holder, a live owner's file is never removed, and a
dead owner's write lock is eventually reclaimed.

**Work runtime** (`src/work/work-runtime.ts`, `work-store.ts`, `provider-admission.ts`). State:
contracts with versions, runs and their lifecycle operations, fences, provider attempt rows,
candidates, quarantine, and per process a map of dispatches with an abort signal each.
Operations: propose, authorize, revise and cancel a contract; queue, retry, dispatch, cancel and pause a run;
submit a candidate. Hard: `dispatchRun` awaits a rate-limit wait, admission, the provider against
a timer, and the settlement of its budget; at each of these the owner cancels, the policy changes,
another run takes the same budget, a late answer is handled, or the process dies. Correct when
no fenced run calls a provider, an external call and an acceptance happen only when
policy permits them at that moment, a run is accepted once, calls stay inside their reservation,
and every dispatch ends.

**Budget ledger** (`src/work/budget-ledger.ts`). State: per run what is reserved and spent in
each dimension. Operations: reserve, hold (settle with `uncertain`), settle. Runs under all
versions of one contract share its limits. Correct when the group never exceeds the limit and a
run is never charged beyond what was reserved for it.

**Data policy and disclosure** (`src/policy/policy-store.ts`, `disclosure-gateway.ts`). State:
classification rows, permission rows (active, withdrawn, expired, or past their date).
Operations: classify, grant, withdraw, expire, evaluate a request, compute the effective restriction along
all dependencies, decide a disclosure. Hard: permissions end while something reads them, and there are
three readers with different rules. Correct when derived content is never more open than
its sources, a disclosure the gateway allows is one the gate allows, and a withdrawal is final.

**External authorization** (`src/ethics/authorization-store.ts`, `authorization-assessment.ts`).
State: append-only rows for an activity. Operations: record, withdraw, expire, assess by the
latest row. Correct when a later withdrawal beats an earlier approval and a new approval beats both.

**Lifecycle gate** (`src/lifecycle/lifecycle-gate.ts`). State: one row per operation (status,
immutable snapshot), revocation fences, quarantined output. Operations: create, check at
dispatch/external/resume/acceptance, accept a candidate, resume, fence, and the status writes of its
callers. Hard: a check writes the status in one transaction and the fence in
another; statuses are overwritten by callers. Correct when a fence is final and every start and
acceptance is authorized under the policy and authorization of that moment.

**Artifact store, deletion, recovery** (`src/artifacts/artifact-store.ts`,
`src/portability/deletion-store.ts`, `src/branches/recovery.ts`). State: version rows, files,
temporary files, tombstones, deletion events with their list of files still to remove.
Operations: register (temporary file, link, drop temporary, row), discard, delete with dependents,
retry a deletion, recover. Hard: rows and files change in different steps and a crash or a
refusing file system may come between. Correct when an available row has its bytes, whatever a
deletion left behind is recorded, and deleted content never comes back.

**Portability** (`src/portability/backup-store.ts`, `export-store.ts`, `restore-store.ts`).
State: backups inside the store, exported packets outside it. Operations: back up, export with
redaction, validate, restore by replacement. Hard: a packet is an old state: a restore must not
undo deletions and withdrawals made since. Correct when tombstones survive every
restore and an ended permission stays ended.

**Project store** (`src/project/project-store.ts`, the swap in `restore-store.ts`). State: the `.ganesh`
directory with its database, artifact files and write lock, the stage and backup directories of a
replacement, open handles. Operations: create, open, inspect, write, close, reconcile an interrupted swap,
replace, materialize. Hard: a death between the two renames, an opener in that window,
handles older than the directory. Correct when the store goes from one complete state to the
next and one process at a time can write it.

**History** (`src/persistence/history-store.ts`) and **branches** (`src/branches`). State: the references
of each branch in numbered snapshots, the impacts noted for review, and for every command what it was
used for. Operations: create a branch, update a reference, promote, correct a shared source. Hard: answers get lost and commands are
repeated when the branch has moved on. Correct when a command takes effect once and every
dependent of something replaced is noted.

**Decisions and commitments** (`src/decisions`). State: packets with their revisions, the owner's
decisions with a commitment each, findings, overrides. Operations: create and revise a packet, decide,
archive, supersede, reopen, adopt an alternative, record a finding, override it, resolve a
disagreement. Hard: the branch moves on between all of these. Correct when what is approved and ready is
what was reviewed, and a packet is revised once.

**Progress and protocols** (`src/progress`). State: protocol versions and their artifacts, amendments,
deviations, reports, the operations table. Operations: record a version, bind it, amend, record a
deviation, report. Hard: an amendment is five transactions or more, one after the other, with a retry that
continues. Correct when one version is in force on a branch, an adopted amendment replaces for
good, and a recorded change has everything it touches noted.

**Evidence and claims** (`src/evidence`). State: items, claims with a stored support, links, citations,
reassessments, appraisals, syntheses. Hard: the stored support is written after the row it follows from, and
sources change and are retracted under it. Correct when doubt stays and support is earned.

**Literature** (`src/literature`). State: protocols, queries, search events, corpus, gaps, counter-searches,
screening decisions, the uncertainty queue. Hard: retrieval awaits an adapter; a gap read before the
await is written after it. Correct when a tested gap stays tested and is challenged by all that was found, and
screening decisions can be traced.

**Writing** (`src/writing`). State: drafts and what is attached to them, review cycles, export rows and files.
Hard: file, row and note of an operation are separate steps, and the policy changes between a try and its retry. Correct when
a cycle asks for one revision, a file does not show what its record lists as omitted, and what is noted has its row.

**Analysis runs** (`src/analysis`). State: the execution mode, the owner's confirmations of exact commands, runs with
their result and a mark "reproduced", outputs made elsewhere, quarantined outputs, and an operations table. Operations:
configure, confirm, run, import an output, reproduce it, attach candidates, probes and diagnostics. Hard: a run is a
lifecycle operation, an execution, artifacts, a row, a status, a quarantine and a record, one after the other;
confirmations outlive the mode; a reproduction may be answered by an earlier run. Correct when a run was confirmed in
the mode it ran in, a repeated command is executed once unless something cut it short, and "reproduced" means the output
was compared and is the same.

### Not modelled

**Capability broker** (`src/authority`). Owner and worker capabilities, `ownerAction`,
`protectCanonicalWrite`, `executeLocalCommand`: guards of every other store. Correct when a narrowed capability never
allows more than its parent and a revoked one nothing.

**Declassification** (`src/policy/declassification-store.ts`). Request, owner's review,
`authorizeTransformedDisclosure`; nothing under `src/src` calls it yet, and its decision restates the guards of one
function. Hard: the record outlives the restriction it was approved
against (`declassification-store.ts:176-190`). Correct when a disclosure rests on an approval of the current content and restriction.

**Ethics records** (`src/ethics`: data plans, risks, guidance, consultations). Append-only rows
behind a command ledger; a row and its artifact are written in two steps with a compensating discard.

**Session adapter and specialists** (`src/work/session-adapter.ts`, `specialist-coordination.ts`).
One provider session per run; role snapshots; `recordDisagreement`, `requestTargetedRevision`. Hard: the revision is queued and counted in
two statements. Correct when a disagreement costs at most one revision and then waits for the owner.

**Methodology** (`src/methodology`). Orientation, questions, designs, constructs, plans, alignment audits: versioned records, each
stale when what it rests on is revised.

**Sources** (`src/sources`). Intake (pending, completed, failed import), parsing in
worker processes with limits on time and size, matching. Correct when an import is completed once and a parser
that dies or runs over leaves a failed import.

**Operations** (`src/operations`). A bounded diagnostic log, export, health, retention.
**Workspace** (`src/workspace`): terminal commands, confirmation, steering. **Runtime**
(`src/runtime`): environment preflight. **Qualification**, **distribution**: release evidence and packaging. The
last three keep no running state.

### How they interact

All stores share one SQLite handle of one process, so a synchronous function is atomic with
respect to the others; concurrency exists (a) between processes, on lock files and renames, (b) at
`await`s, in the work runtime, the session adapter, analysis commands and parser workers, and (c) with crashes,
between any two transactions or file operations. The runtime and the analysis runs call
the gate; the gate reads policy, authorization and protocol currency; the gateway and deletion follow
the dependencies the artifact store records; portability moves the whole store under the two
locks. PROJECT.json, "hazards", lists where this bites, line by line.

## 2. Modules and the code

| Module | Models | Builds on |
|---|---|---|
| ProjectLock | either lock file, one file-system call per action | |
| BudgetLedger | reservations of one contract: the abstract specification | |
| WorkRuntime | contracts, queue, dispatch, cancellation, candidates, crashes | INSTANCE BudgetLedger |
| DataPolicy | classification, permissions, evaluation, gateway | |
| ActivityAuthorization | authorization rows and their assessment | |
| LifecycleGate | operations, checks, fences | DataPolicy, ActivityAuthorization |
| ArtifactStore | registration, discarding, deletion, recovery | DataPolicy (dependencies) |
| Portability | backup, export, restore | ArtifactStore |
| AtomicStore | what the owner is promised of the store: abstract | |
| ProjectStore | the `.ganesh` directory, its locks, renames and handles | implements AtomicStore |
| CommandLedger | what a caller who repeats a command is promised: abstract | |
| Branches | snapshots, promotion, corrections, history | implements CommandLedger |
| Decisions | packets, decisions, commitments, adoption, findings | Branches |
| Protocols | protocol versions, amendments, deviations, reports | Decisions |
| Evidence | items, claims, links, citations, notices | Branches |
| Writing | drafts, cycles, exports | Evidence |
| Literature | retrieval, gaps, counter-searches, screening | Branches |
| AnalysisRuns | confirmed commands, runs, outputs and reproduction | Branches (command ids) |
| MCProjectLock, MCWorkRuntime, MCWorkRun, MCGovernance, MCPortability, MCProjectStore, MCStudy | instances for TLC | |
| ProjectLockProofs, WorkRuntimeProofs, WorkCountsProofs, GovernanceProofs, PortabilityProofs, StoreProofs, StudyProofs, RecordsProofs | theorems | the modules they are about |

**ProjectLock.** `file` is the lock file (absent; created; with its owner's pid written), `pc`,
`seen`, `attempt` are the local variables of a call, `count` the re-entrance table. `TryCreate`,
`WriteOwner`, `ReadOwner`, `Probe`, `Reread`, `Unlink` are the system calls of
`acquireProjectSwapLock`/`acquireProjectWriteLock`, `Release…` those of a release. `kind` chooses
which lock the state space is about: they differ in what they do with an empty file, with the
caller's own pid in the file (`project-lock.ts:275`) and in how often they try. `Restart` brings a
process back with its pid reused and an empty table.

**WorkRuntime.** The database is `contract`, `ledger`, `run`, `op`, `fenced`, `slots` (provider
attempt rows), `session`, `accepted`, `quarantined`. `task[r]` is the dispatch of run r; its `pc`
names the await it stands at, and one action runs from an await to the next: `Dispatch` (from the
call to the rate-limit wait), `PostWait` (checks after the wait), `Rejected`, `Proceed` (the last
checks and the provider call), `ProviderAnswers`/`TimeoutFires`/`AbortObserved`/`LateAnswer`
(the race), `Returned` (the handling of its result), `AfterSettle` (what follows `await
settleBudget`). `CancelRun`, `CancelContract`, `PauseRun`, `SubmitCandidate`, `QueueRun`, `RetryRun` come
from outside at any time. `PolicyChange` is the policy, authorization and protocol the
gate reads, reduced to what its verdict can be for the run's inputs. `CrashIn…` are crashes
between the transactions of one function; `Crash` between actions.

**LifecycleGate.** `Verdict` is `evaluateLifecycleGate`, in the order of its early returns: shut by
status or fence, authorization, protocol currency, the inputs under the use the options name.
`Check` applies it; `CheckCutShort` is a crash between its two transactions, where a refused authorization fences. `UpdateStatus` is the
status write exported to callers. `Options` are the options callers pass; `SnapshotKinds` the
kinds of operation there are (inputs, a population of participants, a protocol).

**DataPolicy.** `Uses` stand for destination, purpose and transformation; permission rows are numbered
in the order they are made because the last matching row decides the reason of a denial
(`policy-store.ts:451`). `Reach` follows every derivation.

**ArtifactStore.** `job` is the synchronous function under way with the files it still has to
handle; a `Crash` drops it. Registration is three steps in the order of `artifact-store.ts:181`.
Deletion marks rows and event in one transaction and unlinks one file per step, each of which may
be refused; `RecordCleanup` stores what was left.

**Portability.** A packet is an image of the store at the time it was made plus its files.
`RestoredPermissions`, `RestoredContent`, `RestoredBytes` are the merge of `replaceRestore`.

**ProjectStore.** `live` is the directory at `.ganesh`: its database by number (an inode), the generation of
the project in it, whether its artifacts are all there, and the pid in its write lock, which moves with
the directory. `backups` and `staged` are the directories beside it. `task[p]` is the operation a process
is in and its next step; each file-system call that others can see is a step: `TakeSwapLock`, `Mend` and `Sweep`
are `reconcileProjectStoreSwap`; `MakeDirectory` and `TakeWriteLock` are `acquireProjectWriteLock`; `MoveAside`, `Publish` and
`CleanUp` are the two renames and the removal of `replaceRestore`; `CopyDatabase` and `CopyFiles` are
`materializeRestore`. `Newest` is the refinement mapping to AtomicStore: the generation of the live
store, or of the best backup where there is none.

**Branches.** `snapshots[b]` is the sequence of a branch's references, `history` what each command id
was used for, `lastAnswer` what the last caller was told. A function of the source is one transaction and one
action. `AnswerOnly` comes first in each: `existingMutationResult`, then the expected revision. `Ledger` maps
`history` and what commands change to CommandLedger.

**Decisions** keeps packets and decision records in the order they were made; a decision carries
the status of its commitment. `Readiness` and `GatesPass` are assessments without a state of their own.

**Protocols.** `recording` is the recording the process is in the middle of: `RegisterProtocolArtifact`,
`InsertProtocol`, `InsertChange`, `WriteImpact` (one statement each), `CompleteOperation`; `StudyCrash` drops it,
and the same command again continues from what is recorded. `Currency` is what LifecycleGate takes as its input.

**Evidence, Writing.** An operation is one step with the crash that may cut it short as an alternative:
the row with its consequence, or the row alone. `interrupted` and `cut` remember where that happened, so that the
properties can say what holds then.

**Literature.** `litRows` holds the rows of all tables by their command, `litOps` the operations table. `calls` are the
retrievals and counter-searches that await their adapter; the corpus rows of a hit come before the event and outside its
transaction, so `RetrievalFails` and an `ExploreCitations` that is cut leave some behind; `RunCounterSearch` reads the
gap and `FinishCounterSearch` writes what was read. `LitRows`, `LitOps` and `LitCalls` list the columns that matter of
each table, so that `LiteratureTypeOK` says which rows a row can name. `RecordedForGood` says what no later command may
change: what is complete, a row but for the state of a gap, and the decision that superseded another or resolved an
entry.

**AnalysisRuns.** `analyses` and `outputs` are the rows by their command, `analysisOps` the operations table. The runner
is synchronous (`spawnSync`), so a run is one step with the last of its `RunStages` as the point where a crash, or a
statement that throws, cut it short: `Perform` (no row yet), `PerformAgain` (a row without its record), `Refuse`. `Left`
is the status the lifecycle operation is left with: what throws after the execution and before the record blocks it.
`ReproduceAnalysisRun` confirms with `Oldest` and compares with `Agrees`, after a new run or after the answer to a
command that ran already. `executed`, `again`, `cutShort` and `strays` are history: what was executed, more than once,
interrupted by a crash or a failing statement, and left behind.

### Simplifications

- The runtime counts no time. A timer may fire whenever the provider has not answered, the time
  dimension of the budget is left out of `Dimensions`, and its effects ("exhausted", an overrun when
  settling) are nondeterministic choices.
- `Promise.resolve().then(start)` is folded into `Proceed`: nothing but other microtasks of
  the same dispatch runs in between. `dispatchRun`'s `map.delete` is folded into its last action.
  `options.wait` is not assumed to throw.
- A usage report is one of `UsageReports`; two dimensions (calls and one other) behave as all do.
- In Portability backup, export and restore are one step each; ProjectStore has the steps of a restore
  and the crashes between them, and no contents. Permissions that differ in transformations
  only are not told apart in Portability, and dates do not pass there (they do in DataPolicy).
- Drills, the registry of commands, and packets of another project are
  left out; the `derived_materials` table is read as the dependency graph.
- Classifications: whether there is one; its level changes no decision the properties speak of.
- In ProjectStore taking a lock is one step (ProjectLock has its calls), a process that died does not come back
  (its successor is another process), and schema upgrades are left out.
- In the modules of the scholarly record the owner's capability is granted, what throws without a
  change is left out, and so are wording, locators, identifiers the caller does not choose, dependency versions of
  packets, external commitments, and repeated commands where the repetition changes nothing.
- An imported output is stored with its content, never by the id of an artifact that exists already. In AnalysisRuns the
  plan and the label a run derives from it are left out, and so are inputs and parameters beside the argv.
- The seven parts of the scholarly record share the branches and little else. MCStudy therefore lets a
  behaviour be about one part (`focus`) after a common start; interactions that are modelled, such as protocols with
  branches and decisions, exports with evidence, and notices with the history, are inside a focus.

## 3. Runs

| Run | Instance | States | Shows |
|---|---|---|---|
| MCProjectLock | 2 processes, either lock, 3 attempts, re-entrance 2, 1 crash, 1 pid reuse, 1 failed write | 2,889 | exclusion, naming, only dead owners unlinked, a stale write lock is reclaimed |
| MCLockTwoReclaimers | 3 processes, 2 attempts, 1 crash | violation | two reclaimers of one stale lock both hold it |
| MCWorkRun | 1 run, local with 2 submissions, or external, protocol-bound and paused after its end with 1; 2 retries, 2 policy changes, 1 crash | 341,044 | no call after a fence, acceptance and external calls only when clear, calls within the reservation, admission rows returned, one acceptance unless reopened, every dispatch ends |
| MCWorkBudget | 3 runs, 2 versions with limits 3 and 4, two usage reports; no crash, policy change or submission (`BudgetNext`) | 414,576 | the group limit, and that every step is a step BudgetLedger allows |
| MCWorkOverspend | 2 runs, limit of 3 calls | violation | a paused run's calls are freed at the dispatch checkpoint and made again by another |
| MCGovernance | 2 versions, 3 permissions, 2 uses, 2 populations, 4 kinds of operation, 5 of options | 47,230 | fences and withdrawals are final, gate and gateway agree, starts and acceptances are authorized |
| MCGateCancelled | the same, inputs only | violation | a resumed cancelled operation accepts a candidate |
| MCPortability | 2 versions, 2 permissions of the same terms, 2 packets, 1 deletion | 128,439 | rows have bytes, leftovers are known, deletion is final, a restore reopens nothing |
| MCRestoreTwice | the same | violation | a permission back in force after two restores |
| MCProjectStore | 3 processes, nothing beside a replacement or a materialization, 3 databases, 4 generations, 1 refused removal, any crash | 805,394 | the store is atomic, one writer, reconciliation finds it, an idle process holds no lock |
| MCOpenDuringReplace | 2 processes inside at once | violation | an opener between the renames, and the only complete store is removed |
| MCStudy | 2 branches, 4 works, 7 commands, 3 packets, 2 decisions, 2 protocols, 1 source, 3 execution modes, 2 analysis commands | 804,133 | CommandLedger, impacts, reviewed decisions, protocols, claims, counter-searches and screening and that they stay as recorded, cycles and exports, analysis runs |

**Bounds, and why they are enough.** Locks: the race needs a holder, a reclaimer and one more; with one crash of the
holder two processes show every interleaving of one reclaim, three the double one. Three attempts reach every branch of
the loop (first, retry, last); ten only repeat the middle one. Runtime: with two retries there is a first, a middle and
a last attempt; a policy change and its reversal are two changes; an unsolicited submission and a crash each meet a
dispatch at each of its awaits, and the second submission of the local run is what a second acceptance would need.
Budget: two equal runs compete for a limit that admits them only when one has settled, the third comes in under a
revised limit; the equal two are symmetric. Gate: the chain interview → summary is the shortest with an inherited
restriction; three permissions in the order interview, summary, interview are the fewest in which a later grant follows
a withdrawal of the same and of another version; `Relevant` only removes changes of state the operation in question does
not read. Portability: two packets are needed for restores of states older and newer than an event, one deletion with
one dependent shows all of deletion; `OneConcern` separates histories of content from histories of permissions, which
meet in `Restore` only through the tombstone merge and the permission merge, two independent conjuncts. The same run
with two deletions (1.15 million states) passes as well but takes longer than is useful. ProjectStore: a process that
dies in a replacement, its successor that opens, and a third whose handle was open all along; three databases are the
founded one, a replacement and one made by an opener. The constraint `SwapsAlone` lets processes found, open, inspect
and close beside each other, and next to the handles of all, but nothing be under way beside a replacement or a
materialization: with an opener there the store is not atomic, which is what MCOpenDuringReplace shows, and two writers
and a kept lock are possible too. The passing run says that crashes and openers alone never lose the project.
`SwapsAlone` also leaves out a materialization over an interrupted swap (below). Study: two branches, one a copy of the
other; a protocol that rests on the one it replaces and on a plan, and a report on the first protocol, which may stay on
a branch whose protocol is replaced; seven commands are enough for three updates, a binding, an amendment and a
rebinding, or for a gap with two counter-searches that overlap, or for two modes, two confirmations, an output, a run
and its reproduction; each focus bounds its own commands, that of the literature a gap recorded as proposed or rejected,
and that of the analyses has one cut, one refusal or one deletion in a behaviour.

**Deadlock** is not checked where the system may really stop: every process dead or done
(locks, store), all bounds used and all runs over (runtime), one operation completed or fenced with no
relevant change left (gate), all commands used (study). Portability never stops and is checked.

**Fairness.** ProjectLock: weak fairness of each process's `Advance`, the next step of a call it
is in: the calls are synchronous and a live process continues. Beginning a call and releasing are never forced; a
crash ends the obligation. WorkRuntime: weak fairness of each dispatch's `Advance`: Node's event loop fires
timers and continues settled promises. A provider owes no answer; the invocation has a timer, and
that is why `DispatchEnds` holds. Owner, policy and specialists owe nothing. The other modules state no fairness and no liveness.

**Refinement.** WorkRuntime implements BudgetLedger (`LedgerDiscipline`, also proved), ProjectStore implements AtomicStore
(`StoreIsAtomic`, project ← Newest), Branches with Decisions implements CommandLedger
(`CommandsTakeEffectOnce`, taken ← the payloads of the history).

Each property has a mutant in PROJECT.json: a changed definition under which the same run finds it violated. Properties that join
several statements (`ProtocolsHold`, `EvidenceHolds`, `LiteratureHolds`, `WritingHolds`, `ApprovedIsReviewed`) have further
mutated forms in their modules, each caught by the same run: `BindableAgain` for the trigger on superseded
protocols, `InsertAnotherRevision` for the one revision of a packet, `FinishAnyway` for contrary records without evidence,
`DisposedAgain` for a second revision of a cycle, `AgreesIfSucceeded` and `RanBeforeAnyhow` for a reproduction that is not compared.
`AnalysesHold` joins five statements, and `StoreIsAtomic` the refinement with `ReconciledIsLive`.

### What the runs found

- **Two reclaimers** (`project-lock.ts:109`). Comparing and unlinking are two calls; in between another
  reclaimer may have removed the stale file and created its own. Both then hold the lock. With only two
  processes, one of which is the dead owner, it cannot happen, which is why MCProjectLock passes; with more it is the only
  way there is (`ExclusionFailsByRaceOnly`).
- **Opened during a replacement** (`project-lock.ts:57`, `restore-store.ts:932-933`). Between the renames there is
  no `.ganesh`, and the lock an opener takes makes one. The second rename fails, the old store stays in the backup
  because there is a directory now, and the next reconciliation takes it for superfluous.
- **Calls freed** (`work-runtime.ts:517`). The owner pauses a run in its second call. Dispatched again under a policy that
  denies it by now, the run is refused at the dispatch checkpoint, which settles its reservation to nothing although it
  made two calls; another run of the contract reserves the same calls and makes them.
- **Cancelled, resumed, accepted** (`lifecycle-gate.ts:805`). The refused resume writes
  "blocked" over "cancelled" and so removes what kept the operation shut.
- **Withdrawn, restored twice, active** (`restore-store.ts:771`). The first restore loses the row that the second one needed.

Two statements of WorkRuntime are not part of a run, because the runbook they come from
(docs/runbooks/provider-outage.md:25, "late candidate output is quarantined") is contradicted by two small
windows in the code; added as a PROPERTY to MCWorkRun.cfg each has a counterexample of a few steps.
`LateOutputQuarantined`: a candidate in a result that is handled after the signal was set is dropped
without a record (`work-runtime.ts:639`). `TimedOutOutputQuarantined`: while the budget of a timed-out run is being settled the
run still reads "running", and a late answer is accepted (`work-runtime.ts:643`).

### What the models show besides

The models have these behaviours; the properties are stated so that they allow them, because no document promises
otherwise, or say in their comment where they hold only otherwise.

*Runtime.* What blocks a local run under a protocol after its first call, in the last check before a retry
(`work-runtime.ts:584-603`), leaves its reservation as it is; dispatched again, the run counts its calls from zero
and may make three with two reserved. `CallsWithinReservation` and its theorem therefore ask that a run under a protocol be external, as in
MCWorkRun's second place. The refusal before the call (`work-runtime.ts:556-573`) writes "blocked" over
"succeeded" when a candidate was accepted during the wait for the rate limit, and a run that is queued again may have a
second one accepted: at an external provider, whose policy can change in between. `AcceptedOnce` speaks of
local runs.

*Store.* When the swap lock is refused, `replaceRestore` keeps the write lock until the process exits
(`restore-store.ts:657`): without `SwapsAlone` TLC finds `IdleHoldsNothing` violated. A materialization does not reconcile
first: over an interrupted swap it founds a second store, and the next open discards the project in the
backup. After a crash between its database and its files a half-restored project opens. After an error
`createProject` removes nothing, because the lock had made the directory. Two backups without a live store stay ambiguous for good.

*Branches and decisions.* `updateBranchReference` replaces a source without noting its dependents. Two approvals of one packet are
possible, and archiving closes the latest commitment only (`decision-lifecycle-store.ts:66`). A superseded packet can be reopened
beside its successor. An archived commitment may assess as ready once its packet is reopened.

*Protocols.* A retry of a pending amendment is refused once its successor is bound; a crash between artifact and row uses up the
version label; an amendment that was superseded still makes its source "needs-review".

*Evidence.* After a crash between a notice's history row and its reassessments the notice is a duplicate and the claims are never marked
(`claim-matrix-store.ts:85-93`); a support that was due when the process died stays as it was until the next link or
citation; the status of a link is read once. `DoubtStays` speaks of the reassessments that were recorded.

*Literature.* Of two overlapping counter-searches of a gap the later one drops the qualification of the other
(`gap-store.ts:329`, `:450`), and the last one decides between narrowed and revised. The retry of a complete
counter-search throws (`gap-store.ts:361`). A command cut between its row and its completion is refused for good. A gap
may be recorded as narrowed, revised or rejected without any counter-search (`gap-store.ts:153`). A retrieval whose hits
belong to another protocol, and an exploration that fails, leave the corpus rows they made before
(`retrieval-store.ts:141-190`, `:392-424`). A repeated resolution resolves the next open entry of the record
(`screening-store.ts:359`).

*Analysis.* A run can be marked as the reproduction of its own output: `reproduceAnalysisRun` under the run's own
command id is answered with the row there is (`external-output-store.ts:137`). After a change of the mode a reproduction
is refused although the argv was confirmed again, because the oldest confirmation is of the old mode
(`external-output-store.ts:136`); confirming again under the default command id is a payload conflict
(`command-runner.ts:154`). After a crash between row and record every retry executes the command and is refused its row
(`run-store.ts:303`). No crash is needed: where an artifact cannot be registered after the execution
(`run-store.ts:141`, `:149`: a failing disk, or twice the same input, which the dependencies' primary key refuses) there
is neither row nor record, the operation is blocked, and every retry executes the command; the first artifact stays when
the second fails. `SettledUnlessCut` therefore speaks of commands that no crash and no failing statement interrupted,
and `StatusIsTrue` of all. Artifacts of a refused row are discarded, except where the run has inputs:
`discardArtifactVersion` refuses what has dependencies (`artifact-store.ts:256-262`), so that one more stays with each
retry. The output a run names need not exist (`schema.ts:1144`). An import that was cut leaves an artifact no row names.
`cancelAnalysisRun` never changes a row, because every row is inserted with its final status (`run-store.ts:333`).

*Writing.* A request for revision that was cut before it was noted counts twice when it is retried and returns the cycle to the owner
(`cycle-store.ts:249-262`). An export that was cut writes its file again under the policy of the retry and is then refused
its row, so the file may show what the record lists as omitted; a command used for two kinds of operation keeps the first kind with
the last entity (`writing-utils.ts:133-152`).

## 4. Proofs

All theorems hold for every value of the constants that meets the named assumptions: any number of processes, runs,
versions, permissions, packets, branches, works and commands. The assumptions are what the code gives: limits and depths
are numbers, of retries two at most (`LockAssumption`, `WorkAssumption`, `StoreAssumption`, `BranchAssumption`,
`DecisionAssumption`, `WritingAssumption`), functions and sets are over the sets they name (`PolicyAssumption`,
`GateAssumption`, `BranchAssumption`, `SourceAssumption`, `DecisionAssumption`), ids of different tables differ
(`PlaceAssumption`, `BranchAssumption`, `WritingAssumption`), protocols are versions of one object
(`ProtocolAssumption`), "full-access" is a mode (`AnalysisAssumption`), and the value that stands for a missing row is
no row (`NullAssumption`, `NullFindingAssumption`, `NullStudyAssumption`, `NullEvidenceAssumption`,
`NullWritingAssumption`, `NullAnalysisAssumption`, `LiteratureAssumption`, which also keeps the ids made from a command
apart from the commands), and the runs of a group are finitely many (`BudgetConstants`). TLC evaluates them in the runs.

**ProjectLockProofs.** IInv = TypeOK ∧ ProbesSomeone ∧ CreatorOwns. CreatorOwns says, while nobody has crashed, that a
process past the creation of the file and any holder is the file's owner: exclusion alone is not inductive, because
nothing in it says who may unlink. Theorems: `LockTypeCorrect`, `LockExcludes` (`MutexUntilCrash`, no two holders before
a crash, for any number of processes; of MCProjectLock's two `MutualExclusion` says more, so only that is in the run),
`LockNamesHolder`. After a crash exclusion is false for three processes, see above, so it is not a theorem. What is one,
for any number of processes and any crashes as long as no pid is handed out again: `OnlyTheDeadAreReclaimed` (whoever
goes on to an unlink has read a dead owner), and that two running holders (`ExclusionFailsByRaceOnly`) or a running
owner's file that another unlinks (`UnlinkFailsByRaceOnly`) come only after two reclaimers were between the comparison
and the unlink at once (`ReclaimersRace`): the race of MCLockTwoReclaimers is the only one there is. FileIsTheirs is the
invariant until then: the file names whoever holds or is to release it, and a reclaimer at its unlink has a dead owner's
file in front of it.

**WorkRuntimeProofs.** IInv = TypeOK ∧ FenceShut ∧ AbsentIsIdle ∧ SlotHeld. FenceShut is the reason a dispatch may rely
on statuses without reading the fence: a fenced run's operation is fenced, cancelled or blocked, or it is quarantined
and the run cancelled, and `Proceed` calls from none of these. There is one lemma for each action, built on lemmas about
the operators (`SettleType`, `MarkedKeeps`, `SubmissionKeeps`, …). Theorems: `WorkTypeCorrect`, `FencedRunNeverCalls`,
`AcceptanceRespectsPolicy`, `ExternalStepsAreClear` (every call and every acceptance abroad is allowed in the state it
starts from: by `CallIsClear` and `AcceptanceIsClear`, a call has one place, `Proceed`, which checks again after the
last await), and `RuntimeImplementsLedger`: under the identity on `contract` and `ledger`, every step of the runtime is
a step of BudgetLedger or leaves both unchanged.

**WorkCountsProofs.** What is counted per run, by an invariant over each run's account (Accounts). RowsCounted: an admission row runs
exactly at the awaits that will end it (`RowsAreReturned`). CallsCounted: a dispatch that may call found its reservation open and
knows of every call made before, and a run that can be dispatched again has made none or has nothing reserved
(`CallsAreReserved`; hypothesis `ProtocolBound => External`, which the code needs, see above). OnceCounted: a run with an accepted
candidate is over and nothing dispatches it again (`OneAcceptedCandidate`; the invariant's clause has the hypotheses of
`AcceptedOnce`).

What is counted over all runs of a group is a fold of the library, that is, a function chosen by a recursive equation.
That there is one (`SumExists`), and what the sum becomes when one run's share changes (`SumUpdate`), follow by minimal
counterexamples: where such a statement fails for some number or subset it fails for a least number (`LeastNatural`) or
a smallest subset (`SmallestSubset`), both from the well-foundedness of the naturals, and one run less leads to a
contradiction. This needs no induction theorem over an operator. LedgerInv = the types of the ledger ∧ rows that were
never booked are empty ∧ each dimension of each group within its limit: `LedgerStaysWithinLimit` is about BudgetLedger
alone, and `GroupStaysWithinLimit` carries it to the runtime through `RuntimeImplementsLedger`.

**GovernanceProofs.** Most results are properties of every state or step rather than of an induction:
`DerivedIsRestricted` (by `ReachProperties`, closure of Reach under sources), `GateCoversDisclosure`,
`WithdrawalIsMonotonic`, `StartsAreAuthorized`. `FenceHolds` rests on `ShutVerdict`: a check of a fenced
operation is refused whatever the policy. `GateTypeCorrect` is the type invariant they use.

**PortabilityProofs.** IInv = PortabilityTypeOK ∧ IdentifiersUsed ∧ JobInv ∧ TombstonesKept ∧ CleanupIsDead ∧
AvailableHasBytes ∧ LeftoverRecorded ∧ ImagesSound. JobInv says, for each kind of work under way, which of
its files exist and that what it removes is dead; CleanupIsDead lets a retry remove files
long after; ImagesSound carries the whole statement over into packets, so that a restore starts
from a good state. LeftoverRecorded extends RemainderIsRecorded to rows that are unavailable without a
tombstone, because a later deletion may put one on them and records files of available rows only.
Theorems: `PortabilityTypeCorrect`, `RowsHaveTheirFiles`, `LeftoversAreKnown`, `DeletedForGood`,
`EndedPermissionsStayEnded`.

**StoreProofs.** StoreInv = CountInv ∧ LockHeld ∧ SwapLockHeld ∧ Generations ∧ StepsPlaced. CountInv says that a process
counts one entry of the write lock for each handle and each lock its operation holds; it needs no hypothesis. LockHeld
and SwapLockHeld place the locks of the living; Generations orders what lies beside the live directory (each generation
once, the newer at least as complete), which is why `Mend` finds the newest; StepsPlaced is what each step of an
operation may rely on. The hypothesis is `[]SwapsAlone`, nothing under way beside a replacement or a materialization,
while foundings, openings, inspections and closings run beside each other: MCOpenDuringReplace shows that an opener
beside a replacement breaks it. Theorems: `StoreTypes`, `StoreHasOneWriter`, `IdleReleases`, `StoreImplementsAtomic`
(each step maps to a step of AtomicStore or a stutter, under project ← Newest), and `StoreKeepsState`, the statement
MCOpenDuringReplace refutes without the hypothesis.

**StudyProofs.** BranchInv adds to `ReplacedSourceIsNoted` that a row of the history names revisions its branch has, so that appending to a
branch leaves the snapshots it speaks of alone. DecisionInv adds that packets and decisions name what exists and that a packet has one
revision. StudyInv adds where a recording under way stands and what each operation left (`RecordingPlaced`, `OpsPlaced`), which a
retry after a crash or a failed write starts from. `ReplacedSourcesAreNoted`, `ApprovalsAreReviewed`, `DecisionTypes` are about
`DecisionSpec` (every action of Branches and Decisions, in any order), `StudyTypes`, `ProtocolsAreKept`, `StudyDecisions` about `StudySpec`,
which adds Protocols. `CommandsOnce`, that Branches implements CommandLedger, is about `DecisionSpec`: in `StudySpec` a change of a
protocol notes impacts under a command that may be in the history as well, and the abstract effects would change with them.

**RecordsProofs.** EvidenceInv adds that links and citations are of claims that exist, and that a claim marked by a
notice is one the notice reached; WritingInv that cycles count the requests noted for them and that what is noted of a
disposition is one that was made; AnalysisInv that a command with a row or an execution is recorded or was cut short,
that statuses are true (`StatusIsTrue`), and that a recorded run is of the argv and output its operation names, which a
reproduction relies on that finds the command done. `EvidenceIsKept`, `WritingIsKept`, `WritingKeepsEvidence`,
`AnalysesAreKept` are about `EvidenceSpec`, `WritingSpec` and `AnalysisSpec`: the actions of the module, with those of
the modules below it, in any order, with any arguments.

LiteratureInv adds to `LiteratureHolds` what its rows and calls rely on. RowsPlaced: an event is of a query, a gap of an
event and of queries, a counter-search of a gap, all of one protocol. SearchesPlaced: the search of a counter-search is
for the query of its command. CompleteIsNoted: a complete decision has the row it was noted with, which a repeated
resolution relies on. CallsPlaced: what a call read is there when it ends, whatever other calls wrote meanwhile; a gap
may have been tested since, but its event and its queries are those that were read. DecisionsInOrder: a decision has one
place in the order, and what supersedes or resolves is a decision. Each action then only has to show that rows grow
(RowsGrow) and operations keep their payload (OpsGrow); `PlacesStay`, `CompleteStays`, `SearchesStay`, `CallsStay` and
`ScreeningStays` do the rest. That the last decision under another protocol exists is `GreatestExists`. Theorems about
`LiteratureSpec`: `LiteratureTypes`, `LiteratureIsKept`, `ReviewIsRecordedForGood`.

The specifications of the record are wider than MCStudy, which restricts their actions to few commands and to one focus;
the theorems hold where the run does not reach.

**Only model-checked.** Liveness under fairness (`StaleLockReclaimed`, `DispatchEnds`), which the prover does not reach.
`MCStudy.TypeOK` is the conjunction of the proved type invariants. `AcceptedOnceUnlessReopened` and
`ExternalOnlyWhenClear` are `AcceptedOnce` and `ExternalStepIsClear` for the two places of MCWorkRun, and are proved in
that form. `MutualExclusion` where two reclaimers raced or a pid came back, the store with an opener beside a
replacement and a second acceptance at an external provider are no theorems because they are false.

## 5. Plan

Order, most important first:

1. *Done:* ProjectLock, BudgetLedger ⟵ WorkRuntime, DataPolicy + ActivityAuthorization →
   LifecycleGate, ArtifactStore → Portability, with their proofs.
2. *Done:* AtomicStore ⟵ ProjectStore; CommandLedger ⟵ Branches → Decisions → Protocols; Evidence → Writing; Literature; AnalysisRuns.
3. *Done:* proofs of these.
4. **Declassification** — over DataPolicy: a record that outlives the restriction it was approved against; an expiry that
   overwrites "withdrawn"; an active row over a withdrawn ancestor (`declassification-store.ts:176-190`).
5. **Specialists** — disagreement and revision over the runtime's queue; session lifetime.
6. **Sources** — intake against a dying worker. **Ethics**, **methodology**, **retention** last: rows behind a command ledger.

Left out for good: terminal presentation, preflight, qualification and distribution (no state), the migrations and parsing (data and pure
computation).

Points met while reading that a coming module should settle: cancelling a queued run never
settles its reservation (`work-runtime.ts:795-816`); a usage above the reservation drops the candidate
(`work-runtime.ts:677-693`); a candidate's artifact is registered before its acceptance is checked
(`work-runtime.ts:769-773`); retrying an external run with a spend cap is always refused
(`work-runtime.ts:339-350`); a revised contract leaves the old version authorized (`work-store.ts:218`); the
two statements of a targeted revision (`specialist-coordination.ts:65-66`); a restore closes a valid
new grant of the same terms as an ended one (`restore-store.ts:771`); a deferred packet that was then
archived can be reopened (`decision-lifecycle-store.ts:40-45`).
