-------------------------- MODULE PortabilityProofs --------------------------
(***************************************************************************)
(* Proofs about Portability, for every set of versions, dependencies,       *)
(* permissions, packets and deletions.                                      *)
(***************************************************************************)
EXTENDS Portability, TLAPS

\* Identifiers that are anywhere were used: no version is registered twice.
IdentifiersUsed ==
  /\ \A v \in Versions : content[v] # "absent" \/ <<Live, v>> \in bytes => v \in used
  /\ tombstones \subseteq used

\* No live file of a deletion belongs to a version that may be available.
DeadFiles(paths, dead) == \A v \in Versions : <<Live, v>> \in paths => v \in dead

\* What the operation under way has established so far.
JobInv ==
  /\ job.kind \in RegisterSteps =>
       content[job.version] = "absent" /\ job.version \in used \ tombstones
  /\ job.kind \in {"tidy", "insert"} => <<Live, job.version>> \in bytes
  /\ job.kind = "discard" => content[job.version] = "absent"
  /\ job.kind = "unlink" =>
       /\ job.deletion \in deleted
       /\ job.todo \subseteq job.files
       /\ DeadFiles(job.files, tombstones)
       /\ cleanup[job.deletion] \cap bytes \subseteq job.files

TombstonesKept == \A v \in tombstones : content[v] # "available"

CleanupIsDead == \A d \in Deletions : DeadFiles(cleanup[d], tombstones)

\* A file of a version that is registered without content is left over from a
\* deletion, and recorded.
LeftoverRecorded ==
  \A v \in Versions :
    <<Live, v>> \in bytes /\ (v \in tombstones \/ content[v] = "unavailable") =>
      \E d \in deleted : <<Live, v>> \in cleanup[d]

\* A packet is a state the project was in, redacted perhaps.
SoundImage(image) ==
  /\ \A v \in Versions : image.content[v] # "absent" => v \in used
  /\ \A v \in Versions : image.content[v] = "available" <=> v \in image.manifest
  /\ image.tombstones \subseteq used \ image.manifest
  /\ \A d \in Deletions : DeadFiles(image.cleanup[d], image.tombstones)

ImagesSound == \A p \in Packets : packets[p] # NoPacket => SoundImage(packets[p])

IInv ==
  /\ PortabilityTypeOK /\ IdentifiersUsed /\ JobInv /\ TombstonesKept /\ CleanupIsDead
  /\ AvailableHasBytes /\ LeftoverRecorded /\ ImagesSound

-----------------------------------------------------------------------------
\* Operations under way

LEMMA JobShape ==
  ASSUME job \in Jobs
  PROVE  /\ job = Idle <=> job.kind = "idle"
         /\ job.kind \in RegisterSteps \cup {"discard"} => job.version \in Versions
         /\ job.kind = "unlink" =>
              job.deletion \in Deletions /\ job.files \in SUBSET Paths /\ job.todo \in SUBSET Paths
  BY DEF Jobs, Idle, RegisterSteps

LEMMA JobOfShape ==
  ASSUME NEW kind \in RegisterSteps \cup {"discard"}, NEW v \in Versions
  PROVE  /\ JobOf(kind, v) \in Jobs
         /\ JobOf(kind, v).kind = kind /\ JobOf(kind, v).version = v
  BY DEF Jobs, JobOf

LEMMA UnlinkingShape ==
  ASSUME NEW d \in Deletions, NEW files \in SUBSET Paths, NEW todo \in SUBSET Paths,
         NEW j, j = [kind |-> "unlink", deletion |-> d, files |-> files, todo |-> todo]
  PROVE  /\ j \in Jobs /\ j.kind = "unlink" /\ j.deletion = d
         /\ j.files = files /\ j.todo = todo
  BY DEF Jobs

LEMMA NothingUnderWay ==
  ASSUME job' = Idle
  PROVE  JobInv' /\ job' \in Jobs
  BY DEF JobInv, Idle, RegisterSteps, Jobs

\* A packet stays sound: identifiers are never taken back.
LEMMA ImagesStaySound ==
  ASSUME ImagesSound, packets' = packets, used \subseteq used'
  PROVE  ImagesSound'
  BY DEF ImagesSound, SoundImage

\* Steps of the artifact store leave the rest alone.
Apart == UNCHANGED <<policyVars, inside, packets, issued, revoked>>

-----------------------------------------------------------------------------
\* Registration

LEMMA WriteTemporaryKeeps ==
  ASSUME IInv, Apart, NEW v \in Versions, WriteTemporary(v)
  PROVE  IInv'
<1> USE DEF IInv, PortabilityTypeOK, ArtifactTypeOK
<1>1. job' \in Jobs /\ job'.kind = "link" /\ job'.version = v
  BY JobOfShape DEF WriteTemporary, RegisterSteps
<1>2. PortabilityTypeOK'
  BY <1>1 DEF WriteTemporary, Apart, PolicyTypeOK, policyVars
<1>3. IdentifiersUsed' /\ JobInv' /\ TombstonesKept' /\ CleanupIsDead'
  BY <1>1 DEF WriteTemporary, IdentifiersUsed, JobInv, TombstonesKept, CleanupIsDead, DeadFiles
<1>4. AvailableHasBytes' /\ LeftoverRecorded'
  BY DEF WriteTemporary, AvailableHasBytes, LeftoverRecorded
<1>5. ImagesSound'
  BY ImagesStaySound DEF WriteTemporary, Apart
<1> QED BY <1>2, <1>3, <1>4, <1>5

LEMMA LinkFileKeeps ==
  ASSUME IInv, Apart, LinkFile
  PROVE  IInv'
<1> USE DEF IInv, PortabilityTypeOK, ArtifactTypeOK
<1>1. job.version \in Versions /\ job.kind = "link"
  BY JobShape DEF LinkFile, RegisterSteps
<1>2. job' \in Jobs /\ job'.kind = "tidy" /\ job'.version = job.version
  BY <1>1, JobOfShape DEF LinkFile, RegisterSteps
<1>3. PortabilityTypeOK'
  BY <1>1, <1>2 DEF LinkFile, Apart, PolicyTypeOK, policyVars, Paths
<1>4. content[job.version] = "absent" /\ job.version \in used \ tombstones
  BY <1>1 DEF JobInv, RegisterSteps
<1>5. IdentifiersUsed' /\ JobInv' /\ TombstonesKept' /\ CleanupIsDead'
  BY <1>1, <1>2, <1>4
  DEF LinkFile, IdentifiersUsed, JobInv, TombstonesKept, CleanupIsDead, DeadFiles, RegisterSteps
<1>6. AvailableHasBytes' /\ LeftoverRecorded'
  BY <1>1, <1>4 DEF LinkFile, AvailableHasBytes, LeftoverRecorded
<1>7. ImagesSound'
  BY ImagesStaySound DEF LinkFile, Apart
<1> QED BY <1>3, <1>5, <1>6, <1>7

LEMMA DropTemporaryKeeps ==
  ASSUME IInv, Apart, DropTemporary
  PROVE  IInv'
<1> USE DEF IInv, PortabilityTypeOK, ArtifactTypeOK
<1>1. job.version \in Versions /\ job.kind = "tidy"
  BY JobShape DEF DropTemporary, RegisterSteps
<1>2. job' \in Jobs /\ job'.kind = "insert" /\ job'.version = job.version
  BY <1>1, JobOfShape DEF DropTemporary, RegisterSteps
<1>3. PortabilityTypeOK'
  BY <1>1, <1>2 DEF DropTemporary, Apart, PolicyTypeOK, policyVars
<1>4. IdentifiersUsed' /\ JobInv' /\ TombstonesKept' /\ CleanupIsDead'
  BY <1>1, <1>2
  DEF DropTemporary, IdentifiersUsed, JobInv, TombstonesKept, CleanupIsDead, DeadFiles, RegisterSteps
<1>5. AvailableHasBytes' /\ LeftoverRecorded'
  BY DEF DropTemporary, AvailableHasBytes, LeftoverRecorded
<1>6. ImagesSound'
  BY ImagesStaySound DEF DropTemporary, Apart
<1> QED BY <1>3, <1>4, <1>5, <1>6

LEMMA InsertRowKeeps ==
  ASSUME IInv, Apart, InsertRow
  PROVE  IInv'
<1> USE DEF IInv, PortabilityTypeOK, ArtifactTypeOK
<1>1. job.version \in Versions /\ job.kind = "insert"
  BY JobShape DEF InsertRow, RegisterSteps
<1>2. /\ content[job.version] = "absent" /\ job.version \in used \ tombstones
      /\ <<Live, job.version>> \in bytes
  BY <1>1 DEF JobInv, RegisterSteps
<1>3. JobInv' /\ job' \in Jobs
  BY NothingUnderWay DEF InsertRow
<1>4. PortabilityTypeOK'
  BY <1>1, <1>3 DEF InsertRow, Apart, PolicyTypeOK, policyVars
<1>5. CASE content' = [content EXCEPT ![job.version] = "available"] /\ bytes' = bytes
  <2>1. IdentifiersUsed' /\ TombstonesKept' /\ CleanupIsDead'
    BY <1>1, <1>2, <1>5 DEF InsertRow, IdentifiersUsed, TombstonesKept, CleanupIsDead, DeadFiles
  <2>2. AvailableHasBytes' /\ LeftoverRecorded'
    BY <1>1, <1>2, <1>5 DEF InsertRow, AvailableHasBytes, LeftoverRecorded
  <2> QED BY <1>3, <1>4, <2>1, <2>2, ImagesStaySound DEF InsertRow, Apart
<1>6. CASE content' = content /\ bytes' = bytes \ {<<Live, job.version>>}
  <2>1. IdentifiersUsed' /\ TombstonesKept' /\ CleanupIsDead'
    BY <1>6 DEF InsertRow, IdentifiersUsed, TombstonesKept, CleanupIsDead, DeadFiles
  <2>2. AvailableHasBytes' /\ LeftoverRecorded'
    BY <1>1, <1>2, <1>6 DEF InsertRow, AvailableHasBytes, LeftoverRecorded
  <2> QED BY <1>3, <1>4, <2>1, <2>2, ImagesStaySound DEF InsertRow, Apart
<1> QED BY <1>5, <1>6 DEF InsertRow

LEMMA RegisterUnavailableKeeps ==
  ASSUME IInv, Apart, NEW v \in Versions, RegisterUnavailable(v)
  PROVE  IInv'
<1> USE DEF IInv, PortabilityTypeOK, ArtifactTypeOK
<1>1. JobInv' /\ job' \in Jobs
  BY NothingUnderWay DEF RegisterUnavailable
<1>2. PortabilityTypeOK'
  BY <1>1 DEF RegisterUnavailable, Apart, PolicyTypeOK, policyVars
<1>3. <<Live, v>> \notin bytes /\ v \notin tombstones
  BY DEF RegisterUnavailable, IdentifiersUsed
<1>4. IdentifiersUsed' /\ TombstonesKept' /\ CleanupIsDead'
  BY <1>3 DEF RegisterUnavailable, IdentifiersUsed, TombstonesKept, CleanupIsDead, DeadFiles
<1>5. AvailableHasBytes' /\ LeftoverRecorded'
  BY <1>3 DEF RegisterUnavailable, AvailableHasBytes, LeftoverRecorded
<1>6. ImagesSound'
  BY ImagesStaySound DEF RegisterUnavailable, Apart
<1> QED BY <1>1, <1>2, <1>4, <1>5, <1>6

LEMMA DiscardKeeps ==
  ASSUME IInv, Apart, NEW v \in Versions, Discard(v)
  PROVE  IInv'
<1> USE DEF IInv, PortabilityTypeOK, ArtifactTypeOK
<1>1. job' \in Jobs /\ JobInv'
  <2>1. CASE job' = Idle
    BY <2>1, NothingUnderWay
  <2>2. CASE job' = JobOf("discard", v)
    <3>1. job' \in Jobs /\ job'.kind = "discard" /\ job'.version = v
      BY <2>2, JobOfShape
    <3> QED BY <3>1 DEF Discard, JobInv, RegisterSteps
  <2> QED BY <2>1, <2>2 DEF Discard
<1>2. PortabilityTypeOK'
  BY <1>1 DEF Discard, Apart, PolicyTypeOK, policyVars
<1>3. IdentifiersUsed' /\ TombstonesKept' /\ CleanupIsDead'
  BY DEF Discard, Registered, IdentifiersUsed, TombstonesKept, CleanupIsDead, DeadFiles
<1>4. AvailableHasBytes' /\ LeftoverRecorded'
  BY DEF Discard, AvailableHasBytes, LeftoverRecorded
<1>5. ImagesSound'
  BY ImagesStaySound DEF Discard, Apart
<1> QED BY <1>1, <1>2, <1>3, <1>4, <1>5

LEMMA RemoveDiscardedKeeps ==
  ASSUME IInv, Apart, RemoveDiscarded
  PROVE  IInv'
<1> USE DEF IInv, PortabilityTypeOK, ArtifactTypeOK
<1>1. job.version \in Versions /\ content[job.version] = "absent"
  BY JobShape DEF RemoveDiscarded, JobInv
<1>2. JobInv' /\ job' \in Jobs
  BY NothingUnderWay DEF RemoveDiscarded
<1>3. PortabilityTypeOK'
  BY <1>2 DEF RemoveDiscarded, Apart, PolicyTypeOK, policyVars
<1>4. IdentifiersUsed' /\ TombstonesKept' /\ CleanupIsDead'
  BY DEF RemoveDiscarded, IdentifiersUsed, TombstonesKept, CleanupIsDead, DeadFiles
<1>5. AvailableHasBytes' /\ LeftoverRecorded'
  BY <1>1 DEF RemoveDiscarded, AvailableHasBytes, LeftoverRecorded
<1>6. ImagesSound'
  BY ImagesStaySound DEF RemoveDiscarded, Apart
<1> QED BY <1>2, <1>3, <1>4, <1>5, <1>6

-----------------------------------------------------------------------------
\* Deletion and recovery

LEMMA DeleteContentKeeps ==
  ASSUME IInv, Apart, NEW d \in Deletions, NEW v \in Versions, NEW withBackups \in BOOLEAN,
         DeleteContent(d, v, withBackups)
  PROVE  IInv'
<1> USE DEF IInv, PortabilityTypeOK, ArtifactTypeOK
<1> DEFINE affected == {v} \cup Dependents(v)
           todo == UNION {FilesOf(w, withBackups) : w \in affected}
<1>1. affected \subseteq Versions /\ \A w \in affected : content[w] # "absent"
  BY DEF DeleteContent, Dependents, Registered
<1>2. /\ todo \in SUBSET Paths /\ todo \subseteq bytes
      /\ DeadFiles(todo, affected)
      /\ \A w \in affected : content[w] = "available" /\ <<Live, w>> \in bytes => <<Live, w>> \in todo
  <2>1. \A w \in affected : FilesOf(w, withBackups) \subseteq bytes
    BY DEF FilesOf
  <2>2. ASSUME NEW w \in Versions, <<Live, w>> \in todo PROVE w \in affected
    <3>1. PICK x \in affected : <<Live, w>> \in FilesOf(x, withBackups)
      BY <2>2
    <3> QED BY <3>1 DEF FilesOf
  <2>3. ASSUME NEW w \in affected, content[w] = "available", <<Live, w>> \in bytes
        PROVE  <<Live, w>> \in todo
    <3>1. <<Live, w>> \in FilesOf(w, withBackups)
      BY <2>3 DEF FilesOf
    <3> QED BY <3>1
  <2>4. todo \subseteq bytes
    BY <2>1
  <2> HIDE DEF todo, affected
  <2> QED BY <2>2, <2>3, <2>4 DEF DeadFiles
<1>3. /\ content' = [w \in Versions |-> IF w \in affected THEN "unavailable" ELSE content[w]]
      /\ tombstones' = tombstones \cup affected /\ deleted' = deleted \cup {d}
      /\ cleanup' = [cleanup EXCEPT ![d] = todo]
      /\ job' = [kind |-> "unlink", deletion |-> d, files |-> todo, todo |-> todo]
      /\ bytes' = bytes /\ temporary' = temporary /\ used' = used
      /\ d \notin deleted
  BY DEF DeleteContent, Unlinking
<1> HIDE DEF todo, affected
<1>4. job' \in Jobs /\ job'.kind = "unlink" /\ job'.deletion = d /\ job'.files = todo /\ job'.todo = todo
  BY <1>2, <1>3, UnlinkingShape
<1>5. PortabilityTypeOK'
  <2>1. content' \in [Versions -> {"absent", "available", "unavailable"}]
    BY <1>3
  <2>2. cleanup' \in [Deletions -> SUBSET Paths]
    BY <1>2, <1>3
  <2> QED BY <1>1, <1>3, <1>4, <2>1, <2>2 DEF Apart, PolicyTypeOK, policyVars
<1>6. IdentifiersUsed'
  BY <1>1, <1>3 DEF IdentifiersUsed
<1>7. DeadFiles(todo, tombstones')
  BY <1>2, <1>3 DEF DeadFiles
<1>8. JobInv'
  BY <1>2, <1>3, <1>4, <1>7 DEF JobInv, RegisterSteps
<1>9. TombstonesKept'
  BY <1>1, <1>3 DEF TombstonesKept
<1>10. CleanupIsDead'
  BY <1>2, <1>3, <1>7 DEF CleanupIsDead, DeadFiles
<1>11. AvailableHasBytes'
  BY <1>3 DEF AvailableHasBytes
<1>12. LeftoverRecorded'
  <2> SUFFICES ASSUME NEW w \in Versions, <<Live, w>> \in bytes,
                      w \in tombstones' \/ content'[w] = "unavailable"
               PROVE  \E e \in deleted' : <<Live, w>> \in cleanup'[e]
    BY <1>3 DEF LeftoverRecorded
  <2>1. CASE w \in affected /\ content[w] = "available"
    BY <1>2, <1>3, <2>1
  <2>2. CASE ~(w \in affected /\ content[w] = "available")
    <3>1. w \in tombstones \/ content[w] = "unavailable"
      BY <1>1, <1>3, <2>2
    <3>2. PICK e \in deleted : <<Live, w>> \in cleanup[e]
      BY <3>1 DEF LeftoverRecorded
    <3> QED BY <3>2, <1>3
  <2> QED BY <2>1, <2>2
<1>13. ImagesSound'
  BY <1>3, ImagesStaySound DEF Apart
<1> QED BY <1>5, <1>6, <1>8, <1>9, <1>10, <1>11, <1>12, <1>13

LEMMA RetryDeletionKeeps ==
  ASSUME IInv, Apart, NEW d \in Deletions, RetryDeletion(d)
  PROVE  IInv'
<1> USE DEF IInv, PortabilityTypeOK, ArtifactTypeOK
<1>1. /\ job' \in Jobs /\ job'.kind = "unlink" /\ job'.deletion = d
      /\ job'.files = cleanup[d] /\ job'.todo = cleanup[d]
  BY UnlinkingShape DEF RetryDeletion, Unlinking
<1>2. PortabilityTypeOK'
  BY <1>1 DEF RetryDeletion, Apart, PolicyTypeOK, policyVars
<1>3. JobInv'
  BY <1>1 DEF RetryDeletion, JobInv, RegisterSteps, CleanupIsDead, DeadFiles
<1>4. IdentifiersUsed' /\ TombstonesKept' /\ CleanupIsDead'
  BY DEF RetryDeletion, IdentifiersUsed, TombstonesKept, CleanupIsDead, DeadFiles
<1>5. AvailableHasBytes' /\ LeftoverRecorded'
  BY DEF RetryDeletion, AvailableHasBytes, LeftoverRecorded
<1>6. ImagesSound'
  BY ImagesStaySound DEF RetryDeletion, Apart
<1> QED BY <1>2, <1>3, <1>4, <1>5, <1>6

LEMMA UnlinkFileKeeps ==
  ASSUME IInv, Apart, NEW path \in Paths, UnlinkFile(path)
  PROVE  IInv'
<1> USE DEF IInv, PortabilityTypeOK, ArtifactTypeOK
<1>1. /\ job.kind = "unlink" /\ job.deletion \in deleted
      /\ job.files \in SUBSET Paths /\ job.todo \in SUBSET Paths /\ job.todo \subseteq job.files
      /\ DeadFiles(job.files, tombstones) /\ cleanup[job.deletion] \cap bytes \subseteq job.files
  BY JobShape DEF UnlinkFile, JobInv
<1>2. /\ job' \in Jobs /\ job'.kind = "unlink" /\ job'.deletion = job.deletion
      /\ job'.todo = job.todo \ {path}
      /\ \/ bytes' = bytes \ {path} /\ job'.files = job.files \ {path}
         \/ bytes' = bytes /\ job'.files = job.files
  <2>1. job \in [kind : {"unlink"}, deletion : Deletions, files : SUBSET Paths, todo : SUBSET Paths]
    BY <1>1 DEF Jobs, Idle, RegisterSteps
  <2>2. CASE bytes' = bytes \ {path} /\ job' = [job EXCEPT !.todo = @ \ {path}, !.files = @ \ {path}]
    BY <1>1, <2>1, <2>2 DEF Jobs
  <2>3. CASE bytes' = bytes /\ job' = [job EXCEPT !.todo = @ \ {path}]
    BY <1>1, <2>1, <2>3 DEF Jobs
  <2> QED BY <2>2, <2>3 DEF UnlinkFile
<1>3. /\ UNCHANGED <<content, temporary, tombstones, deleted, cleanup, used>>
      /\ bytes' \subseteq bytes
      /\ \A v \in Versions : <<Live, v>> \in bytes \ bytes' => v \in tombstones
  BY <1>1, <1>2 DEF UnlinkFile, DeadFiles
<1>4. PortabilityTypeOK'
  BY <1>2, <1>3 DEF Apart, PolicyTypeOK, policyVars
<1>5. JobInv'
  BY <1>1, <1>2, <1>3 DEF JobInv, RegisterSteps, DeadFiles
<1>6. IdentifiersUsed' /\ TombstonesKept' /\ CleanupIsDead'
  BY <1>3 DEF IdentifiersUsed, TombstonesKept, CleanupIsDead, DeadFiles
<1>7. AvailableHasBytes' /\ LeftoverRecorded'
  BY <1>3 DEF AvailableHasBytes, LeftoverRecorded, TombstonesKept
<1>8. ImagesSound'
  BY <1>3, ImagesStaySound DEF Apart
<1> QED BY <1>4, <1>5, <1>6, <1>7, <1>8

LEMMA RecordCleanupKeeps ==
  ASSUME IInv, Apart, RecordCleanup
  PROVE  IInv'
<1> USE DEF IInv, PortabilityTypeOK, ArtifactTypeOK
<1>1. /\ job.deletion \in Deletions /\ job.files \in SUBSET Paths
      /\ DeadFiles(job.files, tombstones) /\ cleanup[job.deletion] \cap bytes \subseteq job.files
  BY JobShape DEF RecordCleanup, JobInv
<1>2. JobInv' /\ job' \in Jobs
  BY NothingUnderWay DEF RecordCleanup
<1>3. PortabilityTypeOK'
  BY <1>1, <1>2 DEF RecordCleanup, Apart, PolicyTypeOK, policyVars
<1>4. IdentifiersUsed' /\ TombstonesKept' /\ CleanupIsDead'
  BY <1>1 DEF RecordCleanup, IdentifiersUsed, TombstonesKept, CleanupIsDead, DeadFiles
<1>5. AvailableHasBytes' /\ LeftoverRecorded'
  BY <1>1 DEF RecordCleanup, AvailableHasBytes, LeftoverRecorded
<1>6. ImagesSound'
  BY ImagesStaySound DEF RecordCleanup, Apart
<1> QED BY <1>2, <1>3, <1>4, <1>5, <1>6

LEMMA CrashKeeps ==
  ASSUME IInv, Apart, Crash
  PROVE  IInv'
<1> USE DEF IInv, PortabilityTypeOK, ArtifactTypeOK
<1>1. JobInv' /\ job' \in Jobs
  BY NothingUnderWay DEF Crash
<1>2. PortabilityTypeOK'
  BY <1>1 DEF Crash, Apart, PolicyTypeOK, policyVars
<1>3. IdentifiersUsed' /\ TombstonesKept' /\ CleanupIsDead'
  BY DEF Crash, IdentifiersUsed, TombstonesKept, CleanupIsDead, DeadFiles
<1>4. AvailableHasBytes' /\ LeftoverRecorded'
  BY DEF Crash, AvailableHasBytes, LeftoverRecorded
<1>5. ImagesSound'
  BY ImagesStaySound DEF Crash, Apart
<1> QED BY <1>1, <1>2, <1>3, <1>4, <1>5

LEMMA RecoverProjectKeeps ==
  ASSUME IInv, Apart, RecoverProject
  PROVE  IInv'
<1> USE DEF IInv, PortabilityTypeOK, ArtifactTypeOK
<1> DEFINE left == UNION {cleanup[d] : d \in deleted}
<1>1. PICK kept \in SUBSET (left \cap bytes) :
        bytes' = bytes \ (left \ kept) /\ cleanup' = [d \in Deletions |-> cleanup[d] \cap kept]
  BY DEF RecoverProject
<1>2. /\ UNCHANGED <<content, tombstones, deleted, job, used, packets>>
      /\ temporary' = {} /\ job = Idle
  BY DEF RecoverProject, Apart
<1>3. DeadFiles(left, tombstones)
  BY DEF CleanupIsDead, DeadFiles
<1>4. \A d \in deleted : cleanup[d] \subseteq left
  OBVIOUS
<1> HIDE DEF left
<1>5. JobInv' /\ job' \in Jobs
  BY <1>2, NothingUnderWay
<1>6. PortabilityTypeOK'
  <2>1. cleanup' \in [Deletions -> SUBSET Paths]
    BY <1>1
  <2> QED BY <1>1, <1>2, <1>5, <2>1 DEF Apart, PolicyTypeOK, policyVars
<1>7. IdentifiersUsed' /\ TombstonesKept' /\ CleanupIsDead'
  BY <1>1, <1>2 DEF IdentifiersUsed, TombstonesKept, CleanupIsDead, DeadFiles
<1>8. AvailableHasBytes'
  BY <1>1, <1>2, <1>3 DEF AvailableHasBytes, TombstonesKept, DeadFiles
<1>9. LeftoverRecorded'
  BY <1>1, <1>2, <1>4 DEF LeftoverRecorded
<1>10. ImagesSound'
  BY <1>2, ImagesStaySound
<1> QED BY <1>5, <1>6, <1>7, <1>8, <1>9, <1>10

-----------------------------------------------------------------------------
\* Packets and permissions

\* What a packet is copied from satisfies the invariant, so the packet is sound.
LEMMA CopyIsSound ==
  ASSUME IInv, NEW omitted \in SUBSET Available
  PROVE  Copy(omitted) \in Images /\ SoundImage(Copy(omitted))
<1> USE DEF IInv, PortabilityTypeOK, ArtifactTypeOK
<1> DEFINE image == Copy(omitted)
<1>1. /\ image.manifest = Available \ omitted
      /\ image.content = [v \in Versions |-> IF v \in omitted THEN "unavailable" ELSE content[v]]
      /\ image.tombstones = tombstones /\ image.cleanup = cleanup
  BY DEF Copy
<1>2. image \in Images
  BY DEF Copy, Images, Available, PolicyTypeOK
<1> HIDE DEF image
<1>3. \A v \in Versions : image.content[v] # "absent" => v \in used
  BY <1>1 DEF IdentifiersUsed, Available
<1>4. \A v \in Versions : image.content[v] = "available" <=> v \in image.manifest
  BY <1>1 DEF Available
<1>5. image.tombstones \subseteq used \ image.manifest
  BY <1>1 DEF IdentifiersUsed, TombstonesKept, Available
<1>6. \A d \in Deletions : DeadFiles(image.cleanup[d], image.tombstones)
  BY <1>1 DEF CleanupIsDead
<1> QED BY <1>2, <1>3, <1>4, <1>5, <1>6 DEF SoundImage, image

LEMMA MakePacketKeeps ==
  ASSUME IInv, NEW p \in Packets, NEW omitted \in SUBSET Available, NEW kept \in SUBSET {p},
         MakePacket(p, Copy(omitted), kept)
  PROVE  IInv'
<1> USE DEF IInv, PortabilityTypeOK, ArtifactTypeOK
<1> DEFINE image == Copy(omitted)
<1>1. image \in Images /\ SoundImage(image)
  BY CopyIsSound
<1>2. /\ packets' = [packets EXCEPT ![p] = image]
      /\ bytes' = bytes \cup ({p} \X image.manifest)
      /\ inside' = inside \cup kept
      /\ UNCHANGED <<content, temporary, tombstones, deleted, cleanup, job, used, policyVars, issued, revoked>>
      /\ job = Idle
  BY DEF MakePacket
<1> HIDE DEF image
<1>3. image.manifest \subseteq Versions
  BY <1>1 DEF Images
<1>4. \A v \in Versions : <<Live, v>> \in bytes' <=> <<Live, v>> \in bytes
  BY <1>2, PlaceAssumption
<1>5. JobInv' /\ job' \in Jobs
  BY <1>2, NothingUnderWay
<1>6. PortabilityTypeOK'
  BY <1>1, <1>2, <1>3, <1>5 DEF PolicyTypeOK, policyVars, Paths
<1>7. IdentifiersUsed' /\ TombstonesKept' /\ CleanupIsDead'
  BY <1>2, <1>4 DEF IdentifiersUsed, TombstonesKept, CleanupIsDead, DeadFiles
<1>8. AvailableHasBytes' /\ LeftoverRecorded'
  BY <1>2, <1>4 DEF AvailableHasBytes, LeftoverRecorded
<1>9. ImagesSound'
  BY <1>1, <1>2 DEF ImagesSound, SoundImage
<1> QED BY <1>5, <1>6, <1>7, <1>8, <1>9

LEMMA PacketKeeps ==
  ASSUME IInv, NEW p \in Packets, BackupProject(p) \/ ExportProject(p)
  PROVE  IInv'
<1>1. CASE BackupProject(p)
  BY <1>1, MakePacketKeeps DEF BackupProject
<1>2. CASE MakePacket(p, Copy({}), {})
  BY <1>2, MakePacketKeeps
<1>3. ASSUME NEW use \in Uses,
             MakePacket(p, Copy({v \in Available : ~Disclosable({v}, use)}), {})
      PROVE  IInv'
  <2> DEFINE withheld == {v \in Available : ~Disclosable({v}, use)}
  <2>1. withheld \in SUBSET Available /\ {} \in SUBSET {p} /\ MakePacket(p, Copy(withheld), {})
    BY <1>3
  <2> HIDE DEF withheld
  <2> QED BY <2>1, MakePacketKeeps
<1> QED BY <1>1, <1>2, <1>3 DEF ExportProject

\* Permissions and classifications: the files and versions are left alone.
LEMMA PolicyKeeps ==
  ASSUME IInv, UNCHANGED <<artifactVars, inside, packets>>,
         PolicyTypeOK', issued' \subseteq Grants, revoked' \subseteq Grants
  PROVE  IInv'
<1> USE DEF IInv, PortabilityTypeOK, ArtifactTypeOK
<1>1. PortabilityTypeOK'
  BY DEF artifactVars
<1>2. IdentifiersUsed' /\ TombstonesKept' /\ CleanupIsDead' /\ JobInv'
  BY DEF artifactVars, IdentifiersUsed, TombstonesKept, CleanupIsDead, DeadFiles, JobInv
<1>3. AvailableHasBytes' /\ LeftoverRecorded'
  BY DEF artifactVars, AvailableHasBytes, LeftoverRecorded
<1>4. ImagesSound'
  BY ImagesStaySound DEF artifactVars
<1> QED BY <1>1, <1>2, <1>3, <1>4

LEMMA GrantsKeep ==
  ASSUME IInv, NEW g \in Grants, GrantPermission(g) \/ EndPermission(g)
  PROVE  IInv'
<1> USE DEF IInv, PortabilityTypeOK
<1>1. PolicyTypeOK' /\ issued' \subseteq Grants /\ revoked' \subseteq Grants
  BY DEF GrantPermission, EndPermission, WithdrawDataUse, ExpireDataUse, PolicyTypeOK, PermissionStatuses
<1>2. UNCHANGED <<artifactVars, inside, packets>>
  BY DEF GrantPermission, EndPermission
<1> QED BY <1>1, <1>2, PolicyKeeps

LEMMA ClassifyKeeps ==
  ASSUME IInv, NEW v \in Versions, ClassifyVersion(v)
  PROVE  IInv'
<1> USE DEF IInv, PortabilityTypeOK
<1>1. PolicyTypeOK' /\ issued' \subseteq Grants /\ revoked' \subseteq Grants
  BY DEF ClassifyVersion, ClassifyInput, PolicyTypeOK
<1>2. UNCHANGED <<artifactVars, inside, packets>>
  BY DEF ClassifyVersion
<1> QED BY <1>1, <1>2, PolicyKeeps

-----------------------------------------------------------------------------
\* Restoring a packet

\* Nothing the new store says is available was deleted in the old one or in
\* the packet, and all of it is among the files installed.
LEMMA RestoreKeeps ==
  ASSUME IInv, NEW p \in Packets, Restore(p)
  PROVE  IInv'
<1> USE DEF IInv, PortabilityTypeOK, ArtifactTypeOK
<1> DEFINE image == packets[p]
<1>1. image \in Images /\ SoundImage(image) /\ {p} \X image.manifest \subseteq bytes
  BY DEF Restore, Valid, ImagesSound
<1>2. /\ image.manifest \subseteq Versions /\ image.tombstones \subseteq Versions
      /\ image.content \in [Versions -> {"absent", "available", "unavailable"}]
      /\ image.deleted \subseteq Deletions /\ image.cleanup \in [Deletions -> SUBSET Paths]
      /\ image.classified \subseteq Versions /\ image.permission \in [Grants -> PermissionStatuses]
  BY <1>1 DEF Images
<1>3. /\ content' = [v \in Versions |->
           IF v \in tombstones /\ image.content[v] # "absent" THEN "unavailable" ELSE image.content[v]]
      /\ tombstones' = tombstones \cup image.tombstones
      /\ deleted' = deleted \cup image.deleted
      /\ cleanup' = [d \in Deletions |-> IF d \in image.deleted THEN image.cleanup[d] ELSE cleanup[d]]
      /\ job = Idle /\ job' = Idle /\ used' = used /\ temporary' = {}
      /\ bytes' = ({Live} \X (image.manifest \ tombstones))
                    \cup {path \in bytes : path[1] = p \/ path[1] \in Packets \ inside}
  BY DEF Restore, RestoredContent, RestoredBytes
<1>4. \A v \in Versions : <<Live, v>> \in bytes' <=> v \in image.manifest \ tombstones
  BY <1>3, PlaceAssumption
<1>5. JobInv' /\ job' \in Jobs
  BY <1>3, NothingUnderWay
<1>6. PolicyTypeOK'
  BY <1>2 DEF Restore, RestoredPermissions, PolicyTypeOK, PermissionStatuses
<1>7. packets' \in [Packets -> Images \cup {NoPacket}] /\ inside' \subseteq Packets
      /\ issued' = issued /\ revoked' = revoked
  BY DEF Restore
<1>8. PortabilityTypeOK'
  <2>1. content' \in [Versions -> {"absent", "available", "unavailable"}]
    BY <1>2, <1>3
  <2>2. cleanup' \in [Deletions -> SUBSET Paths]
    BY <1>2, <1>3
  <2>3. bytes' \subseteq Paths
    BY <1>2, <1>3 DEF Paths
  <2> HIDE DEF image
  <2> QED BY <1>2, <1>3, <1>5, <1>6, <1>7, <2>1, <2>2, <2>3
<1>9. ImagesSound'
  BY <1>3 DEF ImagesSound, SoundImage, Restore
<1> HIDE DEF image
<1>10. /\ \A v \in Versions : image.content[v] # "absent" => v \in used
       /\ \A v \in Versions : image.content[v] = "available" <=> v \in image.manifest
       /\ image.tombstones \subseteq used \ image.manifest
       /\ \A d \in Deletions : DeadFiles(image.cleanup[d], image.tombstones)
  BY <1>1 DEF SoundImage
<1>11. \A v \in Versions : content'[v] = "available" <=> v \in image.manifest \ tombstones
  BY <1>3, <1>10
<1>12. IdentifiersUsed'
  BY <1>3, <1>4, <1>10 DEF IdentifiersUsed
<1>13. TombstonesKept'
  BY <1>3, <1>8, <1>10, <1>11 DEF TombstonesKept
<1>14. CleanupIsDead'
  BY <1>3, <1>10 DEF CleanupIsDead, DeadFiles
<1>15. AvailableHasBytes' /\ LeftoverRecorded'
  BY <1>4, <1>11, <1>13 DEF AvailableHasBytes, LeftoverRecorded, TombstonesKept
<1> QED BY <1>5, <1>8, <1>9, <1>12, <1>13, <1>14, <1>15

-----------------------------------------------------------------------------
\* The invariant

LEMMA ArtifactStepKeeps ==
  ASSUME IInv, ArtifactStep, Apart
  PROVE  IInv'
  BY WriteTemporaryKeeps, RegisterUnavailableKeeps, DiscardKeeps, DeleteContentKeeps,
     RetryDeletionKeeps, LinkFileKeeps, DropTemporaryKeeps, InsertRowKeeps, RemoveDiscardedKeeps,
     UnlinkFileKeeps, RecordCleanupKeeps, CrashKeeps, RecoverProjectKeeps
  DEF ArtifactStep

LEMMA StoreInvariant == PortabilitySpec => []IInv
<1>1. PortabilityInit => IInv
  <2> SUFFICES ASSUME PortabilityInit PROVE IInv
    OBVIOUS
  <2> USE DEF PortabilityInit, PolicyInit, ArtifactInit
  <2>1. JobInv /\ job \in Jobs
    BY DEF JobInv, Idle, RegisterSteps, Jobs
  <2>2. PortabilityTypeOK
    BY <2>1 DEF PortabilityTypeOK, PolicyTypeOK, PermissionStatuses, ArtifactTypeOK
  <2>3. IdentifiersUsed /\ TombstonesKept /\ CleanupIsDead
    BY DEF IdentifiersUsed, TombstonesKept, CleanupIsDead, DeadFiles
  <2>4. AvailableHasBytes /\ LeftoverRecorded /\ ImagesSound
    BY DEF AvailableHasBytes, LeftoverRecorded, ImagesSound
  <2> QED BY <2>1, <2>2, <2>3, <2>4 DEF IInv
<1>2. IInv /\ [PortabilityNext]_portabilityVars => IInv'
  <2> SUFFICES ASSUME IInv, [PortabilityNext]_portabilityVars PROVE IInv'
    OBVIOUS
  <2>1. CASE ArtifactStep /\ Apart
    BY <2>1, ArtifactStepKeeps
  <2>2. CASE \E p \in Packets : BackupProject(p) \/ ExportProject(p) \/ Restore(p)
    BY <2>2, PacketKeeps, RestoreKeeps
  <2>3. CASE \E g \in Grants : GrantPermission(g) \/ EndPermission(g)
    BY <2>3, GrantsKeep
  <2>4. CASE \E v \in Versions : ClassifyVersion(v)
    BY <2>4, ClassifyKeeps
  <2>5. CASE UNCHANGED portabilityVars
    BY <2>5, PolicyKeeps DEF portabilityVars, policyVars, IInv, PortabilityTypeOK, PolicyTypeOK
  <2> QED BY <2>1, <2>2, <2>3, <2>4, <2>5 DEF PortabilityNext, Apart
<1> QED BY <1>1, <1>2, PTL DEF PortabilitySpec

-----------------------------------------------------------------------------
\* Theorems

\* Types, over every interleaving of registrations, deletions, crashes,
\* recoveries, packets and restores.
THEOREM PortabilityTypeCorrect == PortabilitySpec => []PortabilityTypeOK
<1>1. IInv => PortabilityTypeOK
  BY DEF IInv
<1> QED BY <1>1, StoreInvariant, PTL

\* A version whose row says "available" has its file: wherever a registration
\* or a deletion is cut short, and whatever is restored (artifact-store.ts).
THEOREM RowsHaveTheirFiles == PortabilitySpec => []AvailableHasBytes
<1>1. IInv => AvailableHasBytes
  BY DEF IInv
<1> QED BY <1>1, StoreInvariant, PTL

\* What a deletion left on disk is known to some deletion event
\* (deletion-store.ts), so recoverProject can remove it.
THEOREM LeftoversAreKnown == PortabilitySpec => []RemainderIsRecorded
<1>1. IInv => RemainderIsRecorded
  BY DEF IInv, LeftoverRecorded, RemainderIsRecorded, PortabilityTypeOK, ArtifactTypeOK
<1> QED BY <1>1, StoreInvariant, PTL

LEMMA TombstonesGrow ==
  ASSUME [PortabilityNext]_portabilityVars
  PROVE  tombstones \subseteq tombstones'
<1>1. CASE ArtifactStep
  BY <1>1
  DEF ArtifactStep, WriteTemporary, RegisterUnavailable, Discard, DeleteContent, RetryDeletion, LinkFile,
      DropTemporary, InsertRow, RemoveDiscarded, UnlinkFile, RecordCleanup, Crash, RecoverProject
<1>2. CASE \E p \in Packets : BackupProject(p) \/ ExportProject(p) \/ Restore(p)
  BY <1>2 DEF BackupProject, ExportProject, MakePacket, Restore
<1>3. CASE \E g \in Grants : GrantPermission(g) \/ EndPermission(g)
  BY <1>3 DEF GrantPermission, EndPermission, artifactVars
<1>4. CASE \E v \in Versions : ClassifyVersion(v)
  BY <1>4 DEF ClassifyVersion, artifactVars
<1>5. CASE UNCHANGED portabilityVars
  BY <1>5 DEF portabilityVars, artifactVars
<1> QED BY <1>1, <1>2, <1>3, <1>4, <1>5 DEF PortabilityNext

\* No restore, of any packet in any order, brings deleted content back
\* (restore-store.ts carries the live tombstones over).
THEOREM DeletedForGood == PortabilitySpec => DeletionIsFinal
<1>1. IInv' /\ [PortabilityNext]_portabilityVars =>
        [/\ tombstones \subseteq tombstones'
         /\ \A v \in tombstones : content'[v] # "available"]_portabilityVars
  BY TombstonesGrow DEF IInv, TombstonesKept
<1> QED BY <1>1, StoreInvariant, PTL DEF PortabilitySpec, DeletionIsFinal

\* A restore leaves no permission in force beside one of the same terms that
\* was withdrawn or expired in the live store (restore-store.ts).
THEOREM EndedPermissionsStayEnded == PortabilitySpec => RestoreReopensNothing
<1> DEFINE Kept == \A g, h \in Grants :
       permission[g] \in Ended /\ Scope[h] = Scope[g] /\ permission'[h] \in {"active", "lapsed"} =>
         permission[h] \in {"active", "lapsed"} \/ h \notin issued
<1>1. ASSUME PortabilityTypeOK, [PortabilityNext]_portabilityVars PROVE Kept
  <2> USE DEF PortabilityTypeOK, PolicyTypeOK
  <2>1. CASE permission' = permission
    BY <2>1
  <2>2. ASSUME NEW x \in Grants, GrantPermission(x) PROVE Kept
    BY <2>2 DEF GrantPermission
  <2>3. ASSUME NEW x \in Grants, EndPermission(x) PROVE Kept
    <3>1. \E status \in {"withdrawn", "expired"} : permission' = [permission EXCEPT ![x] = status]
      BY <2>3 DEF EndPermission, WithdrawDataUse, ExpireDataUse
    <3> QED BY <3>1
  <2>4. ASSUME NEW p \in Packets, Restore(p) PROVE Kept
    <3> SUFFICES ASSUME NEW g \in Grants, NEW h \in Grants, permission[g] \in Ended,
                        Scope[h] = Scope[g]
                 PROVE  permission'[h] \notin {"active", "lapsed"}
      OBVIOUS
    <3>1. g \in Twins(h)
      BY DEF Twins
    <3> QED BY <2>4, <3>1 DEF Restore, RestoredPermissions
  <2>5. CASE ArtifactStep /\ Apart
    BY <2>1, <2>5 DEF Apart, policyVars
  <2>6. CASE \E p \in Packets : BackupProject(p) \/ ExportProject(p)
    BY <2>1, <2>6 DEF BackupProject, ExportProject, MakePacket, policyVars
  <2>7. CASE \E v \in Versions : ClassifyVersion(v)
    BY <2>1, <2>7 DEF ClassifyVersion, ClassifyInput
  <2>8. CASE UNCHANGED portabilityVars
    BY <2>1, <2>8 DEF portabilityVars, policyVars
  <2> HIDE DEF Kept
  <2> QED BY <1>1, <2>2, <2>3, <2>4, <2>5, <2>6, <2>7, <2>8 DEF PortabilityNext, Apart
<1>2. PortabilityTypeOK /\ [PortabilityNext]_portabilityVars => [Kept]_portabilityVars
  BY <1>1
<1> HIDE DEF Kept
<1>3. PortabilitySpec => [][Kept]_portabilityVars
  BY <1>2, PortabilityTypeCorrect, PTL DEF PortabilitySpec
<1> QED BY <1>3 DEF RestoreReopensNothing, Kept
=============================================================================
