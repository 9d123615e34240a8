----------------------------- MODULE Literature -----------------------------
(***************************************************************************)
(* The review of the literature (src/literature): protocols, queries,       *)
(* retrieval, gaps and the counter-searches that test them, screening and   *)
(* its amendments.                                                          *)
(*                                                                         *)
(* Every command notes its operation, writes its rows and completes the     *)
(* operation.  Only retrieval waits for something, so calls of retrieval    *)
(* and counter-search interleave with everything; the rest is a step that a *)
(* crash may cut short.  A row is named by its command id, which is unique: *)
(* a command whose row is there and whose operation is not complete is      *)
(* refused for good.  Capabilities and wording are left out.                *)
(***************************************************************************)
EXTENDS Branches

CONSTANT Identities  \* bibliographic identities of works

VARIABLES
  litRows,     \* the rows of all tables that have a command
  litOps,      \* literature_operations
  corpus,      \* corpus_records
  edges,       \* citation_edges
  screened,    \* screening decisions in the order they were made
  queue,       \* uncertainty_queue: what resolved the entry of a decision
  challenged,  \* <<counter-search, record>> with the claim and its challenging link
  calls        \* retrievals and counter-searches under way

litVars == <<litRows, litOps, corpus, edges, screened, queue, challenged, calls>>

\* The rows that a command writes under ids derived from its own.
LitCommands == CommandIds \cup (CommandIds \X {"search", "protocol"})
Records == [protocol : LitCommands, identity : Identities, by : CommandIds \cup {"retrieval"}]
Status == {"proposed", "narrowed", "revised", "rejected"}
Verdicts == {"include", "exclude", "uncertain"}

\* The columns of each table that matter here.
LitRows ==
  [kind : {"protocol"}]
  \cup [kind : {"query"}, protocol : LitCommands, parent : CommandIds \cup {Nothing}]
  \cup [kind : {"landscape"}, protocol : LitCommands, queries : SUBSET CommandIds]
  \cup [kind : {"corpus"}, protocol : LitCommands, identity : Identities]
  \cup [kind : {"event"}, query : CommandIds, records : SUBSET Records]
  \cup [kind : {"gap"}, event : LitCommands, queries : SUBSET CommandIds, status : Status,
        notes : SUBSET CommandIds]
  \cup [kind : {"contribution"}, gap : CommandIds]
  \cup [kind : {"counter"}, gap : CommandIds, event : LitCommands, contrary : SUBSET Records]
  \cup [kind : {"decision"}, record : Records, protocol : LitCommands, decision : Verdicts,
        by : CommandIds \cup {Nothing}]
  \cup [kind : {"amendment"}, from : LitCommands, to : LitCommands]

\* What an operation is noted with: its row, or what is known of the row beforehand.
LitPayloads ==
  LitRows
  \cup [kind : {"event"}, query : CommandIds]
  \cup [kind : {"counter"}, gap : CommandIds, query : CommandIds]
  \cup [kind : {"exploration"}, protocol : LitCommands, identities : SUBSET Identities,
         edges : SUBSET (Records \X Records)]
LitOps == [payload : LitPayloads, status : {"pending", "complete"}]
LitCalls == [stage : {"asked", "found"}, row : LitCommands, query : CommandIds,
             gap : CommandIds \cup {Nothing}, notes : SUBSET CommandIds]

ASSUME LiteratureAssumption ==
  /\ Nothing \notin CommandIds \cup LitRows \cup LitOps \cup LitCalls
  /\ CommandIds \cap (CommandIds \X {"search", "protocol"}) = {} /\ CommandIds \cap {"none", "open"} = {}

LiteratureTypeOK ==
  /\ litRows \in [LitCommands -> LitRows \cup {Nothing}]
  /\ litOps \in [LitCommands -> LitOps \cup {Nothing}]
  /\ corpus \subseteq Records /\ edges \subseteq corpus \X corpus
  /\ screened \in Seq(CommandIds)
  /\ queue \in [CommandIds -> CommandIds \cup {"none", "open"}]
  /\ challenged \subseteq CommandIds \X corpus
  /\ calls \in [CommandIds -> LitCalls \cup {Nothing}]

NoCalls == [c \in CommandIds |-> Nothing]

LiteratureInit ==
  /\ litRows = [c \in LitCommands |-> Nothing] /\ litOps = [c \in LitCommands |-> Nothing]
  /\ corpus = {} /\ edges = {} /\ challenged = {}
  /\ screened = <<>> /\ queue = [c \in CommandIds |-> "none"]
  /\ calls = NoCalls

-----------------------------------------------------------------------------
Is(c, kind) == litRows[c] # Nothing /\ litRows[c].kind = kind
Pending(row) == [payload |-> row, status |-> "pending"]
Complete(row) == [payload |-> row, status |-> "complete"]

\* beginOperation; the row must not be there, or inserting it fails.
Begins(c, row) == litOps[c] \in {Nothing, Pending(row)}
Fresh(c, row) == Begins(c, row) /\ litRows[c] = Nothing

\* The operation is noted only, the row is there too, or all is done: a crash may
\* come before each, and takes the calls under way with it.
Record1(c, row, Rest) ==
  /\ Fresh(c, row)
  /\ \/ /\ litOps' = [litOps EXCEPT ![c] = Pending(row)] /\ calls' = NoCalls
        /\ UNCHANGED <<litRows, corpus, screened, queue>>
     \/ /\ litOps' = [litOps EXCEPT ![c] = Pending(row)] /\ calls' = NoCalls
        /\ Rest
     \/ /\ litOps' = [litOps EXCEPT ![c] = Complete(row)] /\ UNCHANGED calls
        /\ Rest
  /\ UNCHANGED <<edges, challenged>>

InsertOnly(c, row) ==
  litRows' = [litRows EXCEPT ![c] = row] /\ UNCHANGED <<corpus, screened, queue>>

RecordReviewProtocol(c) ==
  LET row == [kind |-> "protocol"] IN Record1(c, row, InsertOnly(c, row))

\* A query descends from a query of the same protocol, or from none.
RecordQueryVersion(c, p, parent) ==
  LET row == [kind |-> "query", protocol |-> p, parent |-> parent]
  IN  /\ Is(p, "protocol")
      /\ parent # Nothing => Is(parent, "query") /\ litRows[parent].protocol = p
      /\ Record1(c, row, InsertOnly(c, row))

RecordLandscapeMap(c, p, Q) ==
  LET row == [kind |-> "landscape", protocol |-> p, queries |-> Q]
  IN  /\ Is(p, "protocol") /\ Q # {} /\ \A q \in Q : Is(q, "query") /\ litRows[q].protocol = p
      /\ Record1(c, row, InsertOnly(c, row))

\* A record of its own, whether or not the identity is known.
RecordCorpusIdentity(c, p, i) ==
  LET row == [kind |-> "corpus", protocol |-> p, identity |-> i]
      record == [protocol |-> p, identity |-> i, by |-> c]
  IN  /\ Is(p, "protocol")
      /\ Record1(c, row, /\ litRows' = [litRows EXCEPT ![c] = row]
                         /\ corpus' = corpus \cup {record} /\ UNCHANGED <<screened, queue>>)

\* The record of the protocol that has the identity, or a new one.
RecordOf(p, i) ==
  LET known == {r \in corpus : r.protocol = p /\ r.identity = i}
  IN  IF known = {} THEN [protocol |-> p, identity |-> i, by |-> "retrieval"]
      ELSE CHOOSE r \in known : TRUE

\* The sources' records that are new enter the corpus one by one, then the edges of the
\* request, of any protocol, and those found to records of this one are a transaction.
\* Records that came before a crash, a failing insert or an edge from nowhere stay.
ExploreCitations(c, p, I, E, found) ==
  LET row == [kind |-> "exploration", protocol |-> p, identities |-> I, edges |-> E]
      records == {RecordOf(p, i) : i \in I}
  IN  /\ Begins(c, row)
      /\ \/ /\ \E some \in SUBSET records : corpus' = corpus \cup some
            /\ litOps' = [litOps EXCEPT ![c] = Pending(row)] /\ calls' \in {calls, NoCalls}
            /\ UNCHANGED edges
         \/ /\ corpus' = corpus \cup records
            /\ E \subseteq corpus' \X corpus' /\ found \subseteq corpus' \X {r \in corpus' : r.protocol = p}
            /\ edges' = edges \cup E \cup found
            /\ \/ litOps' = [litOps EXCEPT ![c] = Complete(row)] /\ UNCHANGED calls
               \/ litOps' = [litOps EXCEPT ![c] = Pending(row)] /\ calls' = NoCalls
      /\ corpus' # corpus => Is(p, "protocol")
      /\ UNCHANGED <<litRows, screened, queue, challenged>>

-----------------------------------------------------------------------------
\* Gaps

\* A gap is stated about the snapshot of a search, with queries of its protocol and any
\* status that is declared: the four that are refused are not.
RecordGapAssessment(c, event, Q, status) ==
  LET row == [kind |-> "gap", event |-> event, queries |-> Q, status |-> status, notes |-> {}]
  IN  /\ Is(event, "event") /\ Q # {}
      /\ \A q \in Q : Is(q, "query") /\ litRows[q].protocol = litRows[litRows[event].query].protocol
      /\ Record1(c, row, InsertOnly(c, row))

RecordContributionProposal(c, g) ==
  LET row == [kind |-> "contribution", gap |-> g]
  IN  Is(g, "gap") /\ Record1(c, row, InsertOnly(c, row))

\* The call waits for its adapter, or the disclosure of the query is denied first.
Ask(c, call) == calls' = [calls EXCEPT ![c] = call] \/ UNCHANGED calls

RunAuthorizedRetrieval(c, q) ==
  LET payload == [kind |-> "event", query |-> q]
  IN  /\ calls[c] = Nothing /\ Is(q, "query") /\ Begins(c, payload)
      /\ litOps' = [litOps EXCEPT ![c] = Pending(payload)]
      /\ Ask(c, [stage |-> "asked", row |-> c, query |-> q, gap |-> Nothing, notes |-> {}])
      /\ UNCHANGED <<litRows, corpus, edges, screened, queue, challenged>>

\* The gap is read here, and what was read of it is written when the search is over.
\* A search that is complete is not made again.
RunCounterSearch(c, g, q) ==
  LET payload == [kind |-> "counter", gap |-> g, query |-> q]
      search == <<c, "search">>
      call == [stage |-> IF Is(search, "event") /\ litOps[search].status = "complete" THEN "found" ELSE "asked",
               row |-> search, query |-> q, gap |-> g, notes |-> litRows[g].notes]
  IN  /\ calls[c] = Nothing /\ Is(g, "gap") /\ q \in litRows[g].queries /\ Begins(c, payload)
      /\ litOps' = [litOps EXCEPT
           ![c] = Pending(payload),
           ![search] = IF @ = Nothing THEN Pending([kind |-> "event", query |-> q]) ELSE @]
      /\ Ask(c, call)
      /\ UNCHANGED <<litRows, corpus, edges, screened, queue, challenged>>

Report1(c, hits) ==
  LET call == calls[c]
      records == {RecordOf(litRows[call.query].protocol, i) : i \in hits}
      over == [calls EXCEPT ![c] = IF call.gap = Nothing THEN Nothing ELSE [call EXCEPT !.stage = "found"]]
  IN  /\ call # Nothing /\ call.stage = "asked"
      /\ corpus' = corpus \cup records
      /\ \/ /\ litRows[call.row] = Nothing
            /\ litRows' = [litRows EXCEPT ![call.row] =
                             [kind |-> "event", query |-> call.query, records |-> records]]
            /\ \/ litOps' = [litOps EXCEPT ![call.row].status = "complete"] /\ calls' = over
               \/ UNCHANGED litOps /\ calls' = NoCalls
         \/ /\ litRows[call.row] # Nothing
            /\ calls' = [calls EXCEPT ![c] = Nothing] /\ UNCHANGED <<litRows, litOps>>
      /\ UNCHANGED <<edges, screened, queue, challenged>>

\* The adapter fails, a hit belongs to another protocol, an insert fails or a crash comes
\* before the event: the records of the hits before that are in the corpus.
RetrievalFails(c, hits) ==
  /\ calls[c] # Nothing /\ calls[c].stage = "asked"
  /\ corpus' = corpus \cup {RecordOf(litRows[calls[c].query].protocol, i) : i \in hits}
  /\ calls' \in {[calls EXCEPT ![c] = Nothing], NoCalls}
  /\ UNCHANGED <<litRows, litOps, edges, screened, queue, challenged>>

\* Mutated form: the gap is revised though some contrary record has no evidence.
FinishAnyway(c, located) ==
  LET call == calls[c]
      contrary == litRows[call.row].records
  IN  /\ call # Nothing /\ call.stage = "found" /\ located \subseteq contrary
      /\ challenged' = challenged \cup {<<c, r>> : r \in located}
      /\ litRows[c] = Nothing
      /\ litRows' = [litRows EXCEPT
           ![c] = [kind |-> "counter", gap |-> call.gap, event |-> call.row, contrary |-> contrary],
           ![call.gap].status = IF contrary = {} THEN "narrowed" ELSE "revised",
           ![call.gap].notes = call.notes \cup {c}]
      /\ litOps' = [litOps EXCEPT ![c].status = "complete"] /\ calls' = [calls EXCEPT ![c] = Nothing]
      /\ UNCHANGED <<corpus, edges, screened, queue>>

\* Each contrary record that evidence is located for challenges the gap's proposition.
\* Where one has none the call fails after those before it.
FinishCounterSearch(c, located) ==
  LET call == calls[c]
      contrary == litRows[call.row].records
  IN  /\ call # Nothing /\ call.stage = "found" /\ located \subseteq contrary
      /\ challenged' = challenged \cup {<<c, r>> : r \in located}
      /\ \/ /\ located = contrary /\ litRows[c] = Nothing
            /\ litRows' = [litRows EXCEPT
                 ![c] = [kind |-> "counter", gap |-> call.gap, event |-> call.row, contrary |-> contrary],
                 ![call.gap].status = IF contrary = {} THEN "narrowed" ELSE "revised",
                 ![call.gap].notes = call.notes \cup {c}]
            /\ \/ litOps' = [litOps EXCEPT ![c].status = "complete"] /\ calls' = [calls EXCEPT ![c] = Nothing]
               \/ UNCHANGED litOps /\ calls' = NoCalls
         \/ /\ located # contrary \/ litRows[c] # Nothing
            /\ calls' = [calls EXCEPT ![c] = Nothing] /\ UNCHANGED <<litRows, litOps>>
      /\ UNCHANGED <<corpus, edges, screened, queue>>

LiteratureCrash ==
  /\ calls # NoCalls /\ calls' = NoCalls
  /\ UNCHANGED <<litRows, litOps, corpus, edges, screened, queue, challenged>>

-----------------------------------------------------------------------------
\* Screening

InOrder(c) == CHOOSE i \in DOMAIN screened : screened[i] = c

\* The latest decision under another protocol that none has superseded yet.
Superseded(r, p) ==
  LET others == {i \in DOMAIN screened :
        LET d == litRows[screened[i]] IN d.record = r /\ d.protocol # p /\ d.by = Nothing}
  IN  IF others = {} THEN {} ELSE {screened[CHOOSE i \in others : \A j \in others : j <= i]}

InsertDecision(c, row) ==
  /\ litRows' = [d \in LitCommands |->
       IF d = c THEN row
       ELSE IF d \in Superseded(row.record, row.protocol) THEN [litRows[d] EXCEPT !.by = c] ELSE litRows[d]]
  /\ screened' = Append(screened, c)
  /\ UNCHANGED corpus

Decides(r, p, decision) ==
  [kind |-> "decision", record |-> r, protocol |-> p, decision |-> decision, by |-> Nothing]

RecordScreeningDecision(c, r, p, decision) ==
  LET row == Decides(r, p, decision)
  IN  /\ r \in corpus /\ Is(p, "protocol")
      /\ Record1(c, row, /\ InsertDecision(c, row)
                         /\ queue' = IF decision = "uncertain" THEN [queue EXCEPT ![c] = "open"] ELSE queue)

\* Mutated form: whatever entry is open is resolved.
FirstOpenAnywhere(r) ==
  LET open == {d \in CommandIds : queue[d] = "open"}
  IN  {d \in open : \A e \in open : InOrder(d) <= InOrder(e)}

\* Mutated form: the first entry of the record, resolved or not.
FirstEntry(r) ==
  LET entries == {d \in CommandIds : queue[d] # "none" /\ litRows[d].record = r}
  IN  {d \in entries : \A e \in entries : InOrder(d) <= InOrder(e)}

\* The first open entry of the record.
FirstOpen(r) ==
  LET open == {d \in CommandIds : queue[d] = "open" /\ litRows[d].record = r}
  IN  {d \in open : \A e \in open : InOrder(d) <= InOrder(e)}

Resolved(c, r) == [d \in CommandIds |-> IF d \in FirstOpen(r) THEN c ELSE queue[d]]

\* A decision, then the first open entry; cut short it is a decision alone.  The command
\* again returns its decision, and resolves the entry that is the first by then.
ResolveUncertainty(c, r, p, decision) ==
  LET row == Decides(r, p, decision)
  IN  /\ r \in corpus /\ Is(p, "protocol") /\ decision # "uncertain"
      /\ queue' = Resolved(c, r)
      /\ \/ /\ Fresh(c, row) /\ InsertDecision(c, row)
            /\ litOps' = [litOps EXCEPT ![c] = Complete(row)]
         \/ litOps[c] = Complete(row) /\ UNCHANGED <<litRows, litOps, corpus, screened>>
      /\ UNCHANGED <<edges, challenged, calls>>

\* The amended protocol, the amendment and the completion are one transaction.
AmendEligibility(c, p) ==
  LET row == [kind |-> "amendment", from |-> p, to |-> <<c, "protocol">>]
  IN  /\ Is(p, "protocol") /\ Fresh(c, row)
      /\ \/ /\ litRows' = [litRows EXCEPT ![c] = row, ![<<c, "protocol">>] = [kind |-> "protocol"]]
            /\ litOps' = [litOps EXCEPT ![c] = Complete(row)] /\ UNCHANGED calls
         \/ litOps' = [litOps EXCEPT ![c] = Pending(row)] /\ calls' = NoCalls /\ UNCHANGED litRows
      /\ UNCHANGED <<corpus, edges, screened, queue, challenged>>

LiteratureNext ==
  \/ \E c \in CommandIds :
       \/ RecordReviewProtocol(c)
       \/ \E p \in LitCommands :
            \/ \E q \in CommandIds \cup {Nothing} : RecordQueryVersion(c, p, q)
            \/ \E Q \in SUBSET CommandIds : RecordLandscapeMap(c, p, Q)
            \/ \E i \in Identities : RecordCorpusIdentity(c, p, i)
            \/ \E I \in SUBSET Identities, E \in SUBSET (Records \X Records), found \in SUBSET (Records \X Records) :
                 ExploreCitations(c, p, I, E, found)
            \/ AmendEligibility(c, p)
            \/ \E r \in corpus :
                 \/ \E d \in Verdicts : RecordScreeningDecision(c, r, p, d)
                 \/ \E d \in {"include", "exclude"} : ResolveUncertainty(c, r, p, d)
       \/ \E e \in LitCommands, Q \in SUBSET CommandIds, s \in Status : RecordGapAssessment(c, e, Q, s)
       \/ \E g \in CommandIds : RecordContributionProposal(c, g)
       \/ \E q \in CommandIds : \/ RunAuthorizedRetrieval(c, q)
                                \/ \E g \in CommandIds : RunCounterSearch(c, g, q)
       \/ \E hits \in SUBSET Identities : Report1(c, hits) \/ RetrievalFails(c, hits)
       \/ \E located \in SUBSET corpus : FinishCounterSearch(c, located)
  \/ LiteratureCrash

LiteratureSpec == LiteratureInit /\ [][LiteratureNext]_litVars

-----------------------------------------------------------------------------
\* Properties

\* What a caller was told is complete has its row, through crashes and retries.
CompleteHasRow ==
  \A c \in LitCommands :
    litOps[c] # Nothing /\ litOps[c].status = "complete"
    => Is(c, litOps[c].payload.kind) \/ litOps[c].payload.kind = "exploration"

\* A gap is narrowed or revised once it was tested, never proposed or rejected, and every contrary record that
\* a recorded counter-search found challenges it and belongs to the gap's protocol,
\* whatever other counter-searches of the gap were under way.
TestedGapIsChallenged ==
  \A c \in CommandIds :
    Is(c, "counter") =>
      LET row == litRows[c]
          gap == litRows[row.gap]
      IN  /\ gap.status \in {"narrowed", "revised"} /\ gap.notes # {}
          /\ \A r \in row.contrary :
               /\ <<c, r>> \in challenged
               /\ r.protocol = litRows[litRows[gap.event].query].protocol

\* A decision is superseded by a later one about the same record under another
\* protocol; an uncertainty is resolved by a decision about its record that is not
\* itself uncertain.
ScreeningIsTraceable ==
  \A c \in CommandIds :
    Is(c, "decision") =>
      LET row == litRows[c]
      IN  /\ row.by # Nothing =>
               /\ litRows[row.by].record = row.record /\ litRows[row.by].protocol # row.protocol
               /\ InOrder(c) < InOrder(row.by)
          /\ queue[c] \in CommandIds =>
               litRows[queue[c]].record = row.record /\ litRows[queue[c]].decision # "uncertain"
          /\ (queue[c] # "none") = (row.decision = "uncertain")

\* What the review recorded stays, however often a command is sent again: what is complete,
\* what a row says but for the state of a gap, and the one decision that superseded another
\* or resolved an entry.
Recorded ==
  /\ \A c \in LitCommands : litOps[c] # Nothing /\ litOps[c].status = "complete" => litOps'[c] = litOps[c]
  /\ \A c \in LitCommands :
       LET row == litRows[c]
           now == litRows'[c]
       IN  row # Nothing /\ now # row =>
             \/ row.kind = "gap" /\ now = [row EXCEPT !.status = now.status, !.notes = now.notes]
             \/ row.kind = "decision" /\ row.by = Nothing /\ now = [row EXCEPT !.by = now.by]
  /\ \A c \in CommandIds : queue[c] \in CommandIds => queue'[c] = queue[c]
RecordedForGood == [][Recorded]_litVars

\* The review through crashes, retries and searches that overlap.
LiteratureHolds == CompleteHasRow /\ TestedGapIsChallenged /\ ScreeningIsTraceable
=============================================================================
