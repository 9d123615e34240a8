----------------------------- MODULE Portability -----------------------------
(***************************************************************************)
(* Backups, exported packets and the restore that replaces a project's      *)
(* store (src/portability), over the artifact store and the data-use        *)
(* policy.  The replacement itself is one step here; the renames it consists *)
(* of belong to project-lock.ts.                                            *)
(***************************************************************************)
EXTENDS ArtifactStore

VARIABLES
  packets,  \* image of each packet, NoPacket before it is made
  issued,   \* permission identifiers that were ever used (history)
  revoked   \* permissions that were ever withdrawn or expired (history)

portabilityVars == <<artifactVars, policyVars, inside, packets, issued, revoked>>

NoPacket == [manifest |-> {}]

\* The copied database and the files the manifest names.
Images == [manifest : SUBSET Versions,
           content : [Versions -> {"absent", "available", "unavailable"}],
           tombstones : SUBSET Versions, deleted : SUBSET Deletions,
           cleanup : [Deletions -> SUBSET Paths],
           classified : SUBSET Versions, permission : [Grants -> PermissionStatuses]]

PortabilityTypeOK ==
  /\ PolicyTypeOK /\ ArtifactTypeOK
  /\ packets \in [Packets -> Images \cup {NoPacket}]
  /\ issued \subseteq Grants /\ revoked \subseteq Grants

PortabilityInit ==
  /\ PolicyInit /\ ArtifactInit
  /\ packets = [p \in Packets |-> NoPacket]
  /\ issued = {} /\ revoked = {}

Available == {v \in Versions : content[v] = "available"}
Ended == {"withdrawn", "expired"}

\* A copy in which the content of some versions is redacted.
Copy(omitted) ==
  [manifest |-> Available \ omitted,
   content |-> [v \in Versions |-> IF v \in omitted THEN "unavailable" ELSE content[v]],
   tombstones |-> tombstones, deleted |-> deleted, cleanup |-> cleanup,
   classified |-> classified, permission |-> permission]

MakePacket(p, image, kept) ==
  /\ job = Idle /\ packets[p] = NoPacket
  /\ \A v \in Available : <<Live, v>> \in bytes
  /\ packets' = [packets EXCEPT ![p] = image]
  /\ bytes' = bytes \cup ({p} \X image.manifest)
  /\ inside' = inside \cup kept
  /\ UNCHANGED <<content, temporary, tombstones, deleted, cleanup, job, used, policyVars, issued, revoked>>

\* backupProject: the packet is published inside the store.
BackupProject(p) == MakePacket(p, Copy({}), {p})

\* exportProject: a packet for another destination leaves out what may not be
\* disclosed there.
ExportProject(p) ==
  \/ MakePacket(p, Copy({}), {})
  \/ \E use \in Uses : MakePacket(p, Copy({v \in Available : ~Disclosable({v}, use)}), {})

\* grantDataUse: a row names a registered version; its identifier is new.
GrantPermission(g) ==
  /\ job = Idle /\ Registered(Scope[g].version)
  /\ g \notin issued /\ \A h \in Grants : h < g => h \in issued
  /\ issued' = issued \cup {g}
  /\ permission' = [permission EXCEPT ![g] = "active"]
  /\ UNCHANGED <<classified, revoked, artifactVars, inside, packets>>

EndPermission(g) ==
  /\ job = Idle
  /\ WithdrawDataUse(g) \/ ExpireDataUse(g)
  /\ revoked' = revoked \cup {g}
  /\ UNCHANGED <<artifactVars, inside, packets, issued>>

ClassifyVersion(v) ==
  /\ job = Idle /\ Registered(v) /\ ClassifyInput(v)
  /\ UNCHANGED <<artifactVars, inside, packets, issued, revoked>>

-----------------------------------------------------------------------------
\* restoreProject in mode "replace"

\* Every file the manifest names is there.  Deletion may have taken some out of
\* a backup inside the store.
Valid(p) == packets[p] # NoPacket /\ {p} \X packets[p].manifest \subseteq bytes

\* Mutated form: rows are matched by their identifier alone.
TwinsById(g) == {h \in Grants : permission[h] \in Ended /\ h = g}

\* An active row of the packet takes over the status of a live row that ended,
\* itself or one of the same version and terms.
Twins(g) == {h \in Grants : permission[h] \in Ended /\ (h = g \/ Scope[h] = Scope[g])}

RestoredPermissions(image) ==
  [g \in Grants |->
     IF image.permission[g] \in {"active", "lapsed"} /\ Twins(g) # {}
     THEN IF \E h \in Twins(g) : permission[h] = "withdrawn" /\ \A k \in Twins(g) : h <= k
          THEN "withdrawn" ELSE "expired"
     ELSE image.permission[g]]

\* Mutated forms: the packet's rows are taken as they are; the status is one
\* that no reader knows.
RestoredAsPacked(image) == image.content
RestoredAsDeleted(image) ==
  [v \in Versions |-> IF v \in tombstones THEN "deleted" ELSE image.content[v]]

\* What is deleted in the live store stays deleted.
RestoredContent(image) ==
  [v \in Versions |->
     IF v \in tombstones /\ image.content[v] # "absent" THEN "unavailable" ELSE image.content[v]]

\* Files of the new store: the packet's but those deleted, with the packet
\* itself when it was a backup inside the old one.
RestoredBytes(p) ==
  ({Live} \X (packets[p].manifest \ tombstones))
    \cup {path \in bytes : path[1] = p \/ path[1] \in Packets \ inside}

\* The live terminations, tombstones and deletion events are carried over; an
\* event the packet has as well stays as the packet has it.
Restore(p) ==
  /\ job = Idle /\ Valid(p)
  /\ content' = RestoredContent(packets[p])
  /\ bytes' = RestoredBytes(p)
  /\ temporary' = {}
  /\ tombstones' = tombstones \cup packets[p].tombstones
  /\ deleted' = deleted \cup packets[p].deleted
  /\ cleanup' = [d \in Deletions |->
                   IF d \in packets[p].deleted THEN packets[p].cleanup[d] ELSE cleanup[d]]
  /\ inside' = inside \cap {p}
  /\ permission' = RestoredPermissions(packets[p])
  /\ classified' = packets[p].classified
  /\ packets' = [q \in Packets |-> IF q \in inside \ {p} THEN NoPacket ELSE packets[q]]
  /\ UNCHANGED <<job, used, issued, revoked>>

PortabilityNext ==
  \/ ArtifactStep /\ UNCHANGED <<policyVars, inside, packets, issued, revoked>>
  \/ \E p \in Packets : BackupProject(p) \/ ExportProject(p) \/ Restore(p)
  \/ \E g \in Grants : GrantPermission(g) \/ EndPermission(g)
  \/ \E v \in Versions : ClassifyVersion(v)

PortabilitySpec == PortabilityInit /\ [][PortabilityNext]_portabilityVars

-----------------------------------------------------------------------------
\* Properties

\* Deleted content stays deleted: whatever is restored, a tombstone is kept and
\* its version is never available again.
DeletionIsFinal ==
  [][/\ tombstones \subseteq tombstones'
     /\ \A v \in tombstones : content'[v] # "available"]_portabilityVars

\* A row is never reopened by a restore, nor by anything else: an active row
\* beside a withdrawn or expired one of the same terms was active before or is
\* newly granted.
RestoreReopensNothing ==
  [][\A g, h \in Grants :
       permission[g] \in Ended /\ Scope[h] = Scope[g] /\ permission'[h] \in {"active", "lapsed"} =>
         permission[h] \in {"active", "lapsed"} \/ h \notin issued]_portabilityVars

\* What the runbook says of restores: a withdrawn permission is never in force
\* again, however many packets are restored.
WithdrawnStaysWithdrawn == \A g \in revoked : permission[g] \notin {"active", "lapsed"}
=============================================================================
