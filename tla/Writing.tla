------------------------------ MODULE Writing ------------------------------
(***************************************************************************)
(* Drafts and what is attached to them, review cycles, revisions and        *)
(* exports (src/writing).                                                   *)
(*                                                                         *)
(* An operation writes its row and then, in another statement, notes itself *)
(* in writing_operations; the process may die between the two.  A row is    *)
(* named by its command id, which its table holds unique, and so is its     *)
(* draft's artifact version.  A call that throws or returns an earlier row  *)
(* without a change is left out.  So are capabilities, wording and formats. *)
(***************************************************************************)
EXTENDS Evidence

CONSTANTS MaxVersion  \* bound: version number of a draft

ASSUME WritingAssumption == Sources \cap CommandIds = {} /\ MaxVersion \in Nat

VARIABLES
  drafts,       \* drafts
  attached,     \* by table, the rows that belong to a draft or, feedback, to a cycle
  cycles,       \* review_cycles
  exports,      \* writing_exports and review_packet_exports, by the kind of export
  files,        \* what the file of an export shows: sources, and drafts by their command
  writingOps,   \* writing_operations
  denied,       \* what the policy denies to an export (src/policy)
  dispositions, \* what owners asked of a cycle (history)
  cut           \* commands that are not noted as they should: the process died before, or
                \* they were used for several kinds of operation (history)

writingVars == <<drafts, attached, cycles, exports, files, writingOps, denied, dispositions, cut>>

Tables == {"assertions", "limitations", "contributions", "issues", "tables", "feedback", "candidates"}
Single == {"markdown", "docx", "csv", "bibliography"}
Kinds == Single \cup {"packet"}
Wishes == {"revise", "return", "finish"}

DraftRows == [prior : CommandIds \cup {Nothing}, version : 0 .. MaxVersion,
              finding : {"asked", "insufficient-evidence"}]
AttachedRows == [on : CommandIds \cup {Nothing}, item : CommandIds \cup {Nothing}]
CycleRows == [draft : CommandIds, count : 0 .. 1,
              status : {"open", "revision-requested", "returned-to-owner", "completed"}]
ExportRows == [draft : CommandIds, cycle : CommandIds \cup {Nothing}, omitted : SUBSET (Sources \cup CommandIds)]
NotedTables == {"drafts", "cycles"} \cup Kinds \cup Tables
NotedKinds ==
  {"record-draft", "request-draft-revision", "complete-insufficient-evidence", "open-review-cycle",
   "record-owner-cycle-disposition"} \cup Kinds \cup Tables
NotedRows == [kind : NotedKinds, table : NotedTables, entity : CommandIds]

WritingTypeOK ==
  /\ drafts \in [CommandIds -> DraftRows \cup {Nothing}]
  /\ attached \in [Tables -> [CommandIds -> AttachedRows \cup {Nothing}]]
  /\ cycles \in [CommandIds -> CycleRows \cup {Nothing}]
  /\ exports \in [Kinds -> [CommandIds -> ExportRows \cup {Nothing}]]
  /\ files \in [Kinds -> [CommandIds -> SUBSET (Sources \cup CommandIds)]]
  /\ writingOps \in [CommandIds -> NotedRows \cup {Nothing}]
  /\ denied \subseteq Sources \cup CommandIds
  /\ dispositions \subseteq [cycle : CommandIds, command : CommandIds, wish : Wishes]
  /\ cut \subseteq CommandIds

ASSUME NullWritingAssumption ==
  Nothing \notin DraftRows \cup AttachedRows \cup CycleRows \cup ExportRows \cup NotedRows

WritingInit ==
  /\ drafts = NoRows /\ cycles = NoRows /\ writingOps = NoRows
  /\ attached = [t \in Tables |-> NoRows]
  /\ exports = [kind \in Kinds |-> NoRows]
  /\ files = [kind \in Kinds |-> [c \in CommandIds |-> {}]]
  /\ denied \in SUBSET Sources
  /\ dispositions = {} /\ cut = {}

-----------------------------------------------------------------------------
\* findWritingOperation asks for the kind as well as the command.
Done(c, kind, table) ==
  writingOps[c] # Nothing /\ writingOps[c].kind = kind /\ writingOps[c].table = table

\* recordWritingOperation: a command that is noted already keeps its first kind, with the
\* entity of the last.  The process may have died before.
Note(c, kind, table, entity) ==
  \/ LET first == IF writingOps[c] = Nothing THEN kind ELSE writingOps[c].kind
     IN  /\ writingOps' = [writingOps EXCEPT ![c] = [kind |-> first, table |-> table, entity |-> entity]]
         /\ cut' = IF first = kind THEN cut ELSE cut \cup {c}
  \/ cut' = cut \cup {c} /\ UNCHANGED writingOps

\* recordDraft: version and prior are what the request says.
RecordDraft(c, version, prior) ==
  /\ drafts[c] = Nothing /\ prior # Nothing => drafts[prior] # Nothing
  /\ drafts' = [drafts EXCEPT ![c] = [prior |-> prior, version |-> version, finding |-> "asked"]]
  /\ Note(c, "record-draft", "drafts", c)
  /\ UNCHANGED <<evidenceVars, branchVars, attached, cycles, exports, files, denied, dispositions>>

RequestDraftRevision(c, d) ==
  /\ drafts[d] # Nothing /\ drafts[c] = Nothing /\ drafts[d].version < MaxVersion
  /\ drafts' = [drafts EXCEPT ![c] =
       [prior |-> d, version |-> drafts[d].version + 1, finding |-> drafts[d].finding]]
  /\ Note(c, "request-draft-revision", "drafts", c)
  /\ UNCHANGED <<evidenceVars, branchVars, attached, cycles, exports, files, denied, dispositions>>

\* It is not asked whether the command came before.
CompleteWithInsufficientEvidence(c, d) ==
  /\ drafts[d] # Nothing
  /\ drafts' = [drafts EXCEPT ![d].finding = "insufficient-evidence"]
  /\ Note(c, "complete-insufficient-evidence", "drafts", d)
  /\ UNCHANGED <<evidenceVars, branchVars, attached, cycles, exports, files, denied, dispositions>>

Attach(c, table, on, item) ==
  /\ attached[table][c] = Nothing
  /\ attached' = [attached EXCEPT ![table][c] = [on |-> on, item |-> item]]
  /\ Note(c, table, table, c)
  /\ UNCHANGED <<evidenceVars, branchVars, drafts, cycles, exports, files, denied, dispositions>>

\* The assertion rests on evidence, or on a claim or an analysis only.
LinkDraftAssertion(c, d, item) ==
  drafts[d] # Nothing /\ (item # Nothing => evidence[item] # Nothing) /\ Attach(c, "assertions", d, item)
RecordDraftLimitation(c, d) == drafts[d] # Nothing /\ Attach(c, "limitations", d, Nothing)
RecordAiContribution(c, d) == drafts[d] # Nothing /\ Attach(c, "contributions", d, Nothing)
RecordReviewIssue(c, d) == drafts[d] # Nothing /\ Attach(c, "issues", d, Nothing)
RecordDraftTable(c, d) == drafts[d] # Nothing /\ Attach(c, "tables", d, Nothing)
RecordSupervisorFeedback(c, k) == cycles[k] # Nothing /\ Attach(c, "feedback", k, Nothing)
IngestWritingCandidate(c) == Attach(c, "candidates", Nothing, Nothing)

-----------------------------------------------------------------------------
\* Review cycles

OpenReviewCycle(c, d) ==
  /\ drafts[d] # Nothing /\ cycles[c] = Nothing
  /\ cycles' = [cycles EXCEPT ![c] = [draft |-> d, count |-> 0, status |-> "open"]]
  /\ Note(c, "open-review-cycle", "cycles", c)
  /\ UNCHANGED <<evidenceVars, branchVars, drafts, attached, exports, files, denied, dispositions>>

\* Mutated form: a cycle that was revised may be asked for a revision again.
DisposedAgain(row, wish) ==
  CASE wish = "revise" -> [row EXCEPT !.status = "revision-requested", !.count = @ + 1]
    [] wish = "return" -> [row EXCEPT !.status = "returned-to-owner"]
    [] wish = "finish" -> [row EXCEPT !.status = "completed"]

Disposed(row, wish) ==
  CASE wish = "revise" /\ row.count = 0 -> [draft |-> row.draft, count |-> 1, status |-> "revision-requested"]
    [] wish = "revise" /\ row.count = 1 -> [row EXCEPT !.status = "returned-to-owner"]
    [] wish = "return" -> [row EXCEPT !.status = "returned-to-owner"]
    [] wish = "finish" -> [row EXCEPT !.status = "completed"]

\* The status of the cycle is not asked, and a command that was cut acts again.
RecordOwnerCycleDisposition(c, k, wish) ==
  LET kind == "record-owner-cycle-disposition"
  IN  /\ cycles[k] # Nothing /\ ~Done(c, kind, "cycles")
      /\ cycles' = [cycles EXCEPT ![k] = Disposed(@, wish)]
      /\ dispositions' = dispositions \cup {[cycle |-> k, command |-> c, wish |-> wish]}
      /\ Note(c, kind, "cycles", k)
      /\ UNCHANGED <<evidenceVars, branchVars, drafts, attached, exports, files, denied>>

-----------------------------------------------------------------------------
\* Exports

Linked(d) ==
  {evidence[a.item].source :
     a \in {attached["assertions"][c] : c \in {x \in CommandIds :
              attached["assertions"][x] # Nothing /\ attached["assertions"][x].on = d
                                                 /\ attached["assertions"][x].item # Nothing}}}

\* Each of these is asked of the policy by itself.  A bibliography without linked sources
\* is of all of them.
Asked(kind, d) ==
  CASE kind = "packet" -> {d} \cup Linked(d)
    [] kind = "bibliography" -> IF Linked(d) = {} THEN Sources ELSE Linked(d)
    [] OTHER -> {d}

\* Mutated form: a packet asks for its draft only.
ShownAskingOnce(kind, d) == IF d \in denied THEN {} ELSE Asked(kind, d)

Shown(kind, d) == Asked(kind, d) \ denied

\* The command of each row is unique in its table.
HasExported(c, kind) ==
  IF kind = "packet" THEN exports[kind][c] # Nothing ELSE \E x \in Single : exports[x][c] # Nothing

\* The file is written, then the row, then the operation is noted; a crash falls between
\* any two.  A row of an earlier call refuses this one, after the file.
Export(c, kind, d, k) ==
  /\ drafts[d] # Nothing /\ ~Done(c, kind, kind)
  /\ files' = [files EXCEPT ![kind][c] = Shown(kind, d)]
  /\ \/ /\ ~HasExported(c, kind)
        /\ exports' = [exports EXCEPT ![kind][c] =
             [draft |-> d, cycle |-> k, omitted |-> Asked(kind, d) \cap denied]]
        /\ Note(c, kind, kind, c)
     \/ /\ cut' = IF HasExported(c, kind) THEN cut ELSE cut \cup {c}
        /\ UNCHANGED <<exports, writingOps>>
  /\ UNCHANGED <<evidenceVars, branchVars, drafts, attached, cycles, denied, dispositions>>

ExportDraftMarkdown(c, d) == Export(c, "markdown", d, Nothing)
ExportDraftDocx(c, d) == Export(c, "docx", d, Nothing)
ExportDraftBibliography(c, d) == Export(c, "bibliography", d, Nothing)
ExportDraftTableCsv(c, d) ==
  /\ \E x \in CommandIds : attached["tables"][x] # Nothing /\ attached["tables"][x].on = d
  /\ Export(c, "csv", d, Nothing)

\* The cycle is the one asked for, or the latest of the draft, or there is none.
ExportReviewPacket(c, d, k) ==
  /\ IF k = Nothing THEN \A x \in CommandIds : cycles[x] # Nothing => cycles[x].draft # d
     ELSE cycles[k] # Nothing /\ cycles[k].draft = d
  /\ Export(c, "packet", d, k)

PolicyChanges(x) ==
  /\ denied' = (denied \ {x}) \cup ({x} \ denied)
  /\ UNCHANGED <<evidenceVars, branchVars, drafts, attached, cycles, exports, files,
                 writingOps, dispositions, cut>>

WritingSteps ==
  \/ \E c, d \in CommandIds :
       \/ \E prior \in CommandIds \cup {Nothing}, n \in 0 .. MaxVersion : RecordDraft(c, n, prior)
       \/ RequestDraftRevision(c, d) \/ CompleteWithInsufficientEvidence(c, d)
       \/ \E item \in CommandIds \cup {Nothing} : LinkDraftAssertion(c, d, item)
       \/ RecordDraftLimitation(c, d) \/ RecordAiContribution(c, d) \/ RecordReviewIssue(c, d)
       \/ RecordDraftTable(c, d) \/ RecordSupervisorFeedback(c, d) \/ IngestWritingCandidate(c)
       \/ OpenReviewCycle(c, d)
       \/ \E wish \in Wishes : RecordOwnerCycleDisposition(c, d, wish)
       \/ ExportDraftMarkdown(c, d) \/ ExportDraftDocx(c, d)
       \/ ExportDraftBibliography(c, d) \/ ExportDraftTableCsv(c, d)
       \/ \E k \in CommandIds \cup {Nothing} : ExportReviewPacket(c, d, k)
  \/ \E x \in Sources \cup CommandIds : PolicyChanges(x)

WritingNext == WritingSteps \/ (EvidenceNext /\ UNCHANGED writingVars)

WritingSpec ==
  /\ BranchInit /\ EvidenceInit /\ WritingInit
  /\ [][WritingNext]_<<branchVars, evidenceVars, writingVars>>

-----------------------------------------------------------------------------
\* Properties

Askers(k) == {x.command : x \in {y \in dispositions : y.cycle = k /\ y.wish = "revise"}}

\* A cycle waits for a revision only once: asked for a second it is back with the owner.
\* It gets there in no other way than that, by being returned, or by the retry of a
\* request that was cut.
OneRevisionAsked ==
  \A k \in CommandIds :
    cycles[k] # Nothing =>
      /\ cycles[k].status = "revision-requested" => Cardinality(Askers(k)) = 1
      /\ cycles[k].status = "returned-to-owner" =>
           \/ \E x \in dispositions : x.cycle = k /\ x.wish = "return"
           \/ Cardinality(Askers(k)) > 1 \/ Askers(k) \cap cut # {}

\* What the record of an export lists as omitted is not in its file, once the export is
\* noted: one that was cut writes its file again when it is tried again, by a policy that
\* may have changed.
OmittedIsNotShown ==
  \A c \in CommandIds, kind \in Kinds :
    exports[kind][c] # Nothing /\ Done(c, kind, kind) => files[kind][c] \cap exports[kind][c].omitted = {}

\* An operation that is noted has its row, whatever else its command was used for.
NotedHasRow ==
  \A c \in CommandIds :
    LET op == writingOps[c]
        table == CASE op.table = "drafts" -> drafts
                   [] op.table = "cycles" -> cycles
                   [] op.table \in Kinds -> exports[op.table]
                   [] OTHER -> attached[op.table]
    IN  op # Nothing => table[op.entity] # Nothing

\* Nobody is told of a revision, an export or a row that is not what the record says.
WritingHolds == OneRevisionAsked /\ OmittedIsNotShown /\ NotedHasRow
=============================================================================
