---------------------------- MODULE ArtifactStore ----------------------------
(***************************************************************************)
(* Artifact versions (src/artifacts/artifact-store.ts), the controlled      *)
(* deletion of their content (src/portability/deletion-store.ts) and the    *)
(* recovery after a crash (src/branches/recovery.ts).                       *)
(*                                                                         *)
(* A version is a row of the database and a file.  The writer is alone and  *)
(* its operations run to their end, one file-system call or transaction per *)
(* step; the process may die between any two.                               *)
(***************************************************************************)
EXTENDS DataPolicy

CONSTANTS
  Packets,   \* packet identifiers
  Live,      \* the project's own store
  Deletions  \* command identifiers of deletions

ASSUME PlaceAssumption == Live \notin Packets

Paths == ({Live} \cup Packets) \X Versions

VARIABLES
  content,     \* row of each version: "absent", "available", "unavailable"
  bytes,       \* <<place, version>> whose file exists
  temporary,   \* versions of which a temporary file is left
  tombstones,  \* versions with an evidence tombstone
  deleted,     \* deletions with an event
  cleanup,     \* files each deletion still has to remove
  inside,      \* packets that are backups inside the project's store
  job,         \* the operation under way
  used         \* version identifiers that were ever used (history)

artifactVars == <<content, bytes, temporary, tombstones, deleted, cleanup, job, used>>

Idle == [kind |-> "idle"]
RegisterSteps == {"link", "tidy", "insert"}
JobOf(kind, v) == [kind |-> kind, version |-> v]
Unlinking(d, files) == [kind |-> "unlink", deletion |-> d, files |-> files, todo |-> files]

Jobs == {Idle}
        \cup [kind : RegisterSteps \cup {"discard"}, version : Versions]
        \cup [kind : {"unlink"}, deletion : Deletions, files : SUBSET Paths, todo : SUBSET Paths]

ArtifactTypeOK ==
  /\ content \in [Versions -> {"absent", "available", "unavailable"}]
  /\ bytes \subseteq Paths
  /\ temporary \subseteq Versions /\ tombstones \subseteq Versions
  /\ used \subseteq Versions /\ deleted \subseteq Deletions
  /\ cleanup \in [Deletions -> SUBSET Paths]
  /\ inside \subseteq Packets
  /\ job \in Jobs

ArtifactInit ==
  /\ content = [v \in Versions |-> "absent"]
  /\ bytes = {} /\ temporary = {} /\ tombstones = {} /\ deleted = {} /\ used = {}
  /\ cleanup = [d \in Deletions |-> {}]
  /\ inside = {}
  /\ job = Idle

Registered(v) == content[v] # "absent"
Dependents(v) == {w \in Versions : Registered(w) /\ v \in Reach({w})}

-----------------------------------------------------------------------------
\* registerArtifactVersion

\* Mutated form: the row is inserted when the temporary file is written.
WriteTemporaryAndRow(v) ==
  /\ job = Idle /\ v \notin used
  /\ temporary' = temporary \cup {v} /\ used' = used \cup {v}
  /\ content' = [content EXCEPT ![v] = "available"]
  /\ job' = JobOf("link", v)
  /\ UNCHANGED <<bytes, tombstones, deleted, cleanup>>

WriteTemporary(v) ==
  /\ job = Idle /\ v \notin used
  /\ temporary' = temporary \cup {v} /\ used' = used \cup {v}
  /\ job' = JobOf("link", v)
  /\ UNCHANGED <<content, bytes, tombstones, deleted, cleanup>>

LinkFile ==
  /\ job.kind = "link"
  /\ bytes' = bytes \cup {<<Live, job.version>>}
  /\ job' = JobOf("tidy", job.version)
  /\ UNCHANGED <<content, temporary, tombstones, deleted, cleanup, used>>

DropTemporary ==
  /\ job.kind = "tidy"
  /\ temporary' = temporary \ {job.version}
  /\ job' = JobOf("insert", job.version)
  /\ UNCHANGED <<content, bytes, tombstones, deleted, cleanup, used>>

\* The row follows the file.  A dependency that is not there rolls the
\* transaction back, and the file is removed again.
InsertRow ==
  /\ job.kind = "insert"
  /\ \/ /\ \A w \in Sources[job.version] : Registered(w)
        /\ content' = [content EXCEPT ![job.version] = "available"]
        /\ job' = Idle
        /\ UNCHANGED bytes
     \/ /\ \E w \in Sources[job.version] : ~Registered(w)
        /\ bytes' = bytes \ {<<Live, job.version>>}
        /\ job' = Idle
        /\ UNCHANGED content
  /\ UNCHANGED <<temporary, tombstones, deleted, cleanup, used>>

\* A version whose content is not at hand has a row alone.
RegisterUnavailable(v) ==
  /\ job = Idle /\ v \notin used
  /\ \A w \in Sources[v] : Registered(w)
  /\ content' = [content EXCEPT ![v] = "unavailable"]
  /\ used' = used \cup {v}
  /\ UNCHANGED <<bytes, temporary, tombstones, deleted, cleanup, job>>

\* discardArtifactVersion: a row nothing refers to is deleted first, its file
\* after it.
Discard(v) ==
  /\ job = Idle /\ Registered(v) /\ Sources[v] = {}
  /\ ~ \E w \in Versions : Registered(w) /\ v \in Sources[w]
  /\ v \notin classified /\ RowsOf(v) = {}
  /\ content' = [content EXCEPT ![v] = "absent"]
  /\ job' = IF content[v] = "available" THEN JobOf("discard", v) ELSE Idle
  /\ UNCHANGED <<bytes, temporary, tombstones, deleted, cleanup, used>>

RemoveDiscarded ==
  /\ job.kind = "discard"
  /\ bytes' = bytes \ {<<Live, job.version>>}
  /\ job' = Idle
  /\ UNCHANGED <<content, temporary, tombstones, deleted, cleanup, used>>

-----------------------------------------------------------------------------
\* deleteArtifactContent

\* The files of a version, those in the backups inside the store if asked for.
\* Only an available row still knows where its files are.
FilesOf(v, withBackups) ==
  LET places == {Live} \cup (IF withBackups THEN inside ELSE {})
  IN  IF content[v] = "available" THEN bytes \cap (places \X {v}) ELSE {}

\* Mutated form: what is to be removed is recorded only when it was tried.
DeleteContentUnrecorded(d, v, withBackups) ==
  /\ job = Idle /\ Registered(v) /\ d \notin deleted
  /\ LET affected == {v} \cup Dependents(v)
         todo == UNION {FilesOf(w, withBackups) : w \in affected}
     IN  /\ content' = [w \in Versions |-> IF w \in affected THEN "unavailable" ELSE content[w]]
         /\ tombstones' = tombstones \cup affected
         /\ deleted' = deleted \cup {d}
         /\ job' = Unlinking(d, todo)
  /\ UNCHANGED <<bytes, temporary, cleanup, used>>

\* The decision is committed, with the files to remove, before any is removed.
DeleteContent(d, v, withBackups) ==
  /\ job = Idle /\ Registered(v) /\ d \notin deleted
  /\ LET affected == {v} \cup Dependents(v)
         todo == UNION {FilesOf(w, withBackups) : w \in affected}
     IN  /\ content' = [w \in Versions |-> IF w \in affected THEN "unavailable" ELSE content[w]]
         /\ tombstones' = tombstones \cup affected
         /\ deleted' = deleted \cup {d}
         /\ cleanup' = [cleanup EXCEPT ![d] = todo]
         /\ job' = Unlinking(d, todo)
  /\ UNCHANGED <<bytes, temporary, used>>

\* The same command again takes up what the event still has to remove.
RetryDeletion(d) ==
  /\ job = Idle /\ d \in deleted
  /\ job' = Unlinking(d, cleanup[d])
  /\ UNCHANGED <<content, bytes, temporary, tombstones, deleted, cleanup, used>>

\* Removed or found missing, or left because the file system refuses.
UnlinkFile(path) ==
  /\ job.kind = "unlink" /\ path \in job.todo
  /\ \/ /\ bytes' = bytes \ {path}
        /\ job' = [job EXCEPT !.todo = @ \ {path}, !.files = @ \ {path}]
     \/ /\ path \in bytes
        /\ job' = [job EXCEPT !.todo = @ \ {path}]
        /\ UNCHANGED bytes
  /\ UNCHANGED <<content, temporary, tombstones, deleted, cleanup, used>>

RecordCleanup ==
  /\ job.kind = "unlink" /\ job.todo = {}
  /\ cleanup' = [cleanup EXCEPT ![job.deletion] = job.files]
  /\ job' = Idle
  /\ UNCHANGED <<content, bytes, temporary, tombstones, deleted, used>>

-----------------------------------------------------------------------------

\* The process dies; the database keeps its committed rows.
Crash ==
  /\ job # Idle
  /\ job' = Idle
  /\ UNCHANGED <<content, bytes, temporary, tombstones, deleted, cleanup, used>>

\* recoverProject removes temporary files and what deletions left behind, as far
\* as the file system lets it.
RecoverProject ==
  /\ job = Idle
  /\ temporary' = {}
  /\ LET left == UNION {cleanup[d] : d \in deleted}
     IN  \E kept \in SUBSET (left \cap bytes) :
           /\ bytes' = bytes \ (left \ kept)
           /\ cleanup' = [d \in Deletions |-> cleanup[d] \cap kept]
  /\ UNCHANGED <<content, tombstones, deleted, job, used>>

ArtifactStep ==
  \/ \E v \in Versions :
       \/ WriteTemporary(v) \/ RegisterUnavailable(v) \/ Discard(v)
       \/ \E d \in Deletions, withBackups \in BOOLEAN : DeleteContent(d, v, withBackups)
  \/ \E d \in Deletions : RetryDeletion(d)
  \/ LinkFile \/ DropTemporary \/ InsertRow \/ RemoveDiscarded
  \/ \E path \in Paths : UnlinkFile(path)
  \/ RecordCleanup \/ Crash \/ RecoverProject

-----------------------------------------------------------------------------
\* Properties

\* A row that says its content is available has its file, at every moment of
\* every operation: "an unreferenced file is safer than a row that points at
\* missing bytes".
AvailableHasBytes ==
  \A v \in Versions : content[v] = "available" => <<Live, v>> \in bytes

\* What is left of deleted content is known to a deletion event, so a recovery
\* can finish what a crash interrupted.
RemainderIsRecorded ==
  \A v \in tombstones :
    <<Live, v>> \in bytes => \E d \in deleted : <<Live, v>> \in cleanup[d]
=============================================================================
