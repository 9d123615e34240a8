------------------------------ MODULE MCStudy ------------------------------
(***************************************************************************)
(* The scholarly record on a small instance.  Its parts share a project but *)
(* little state, so a behaviour is about one of them, its focus, chosen at  *)
(* the start: the sum of the parts is explored, not their product.          *)
(*                                                                         *)
(* Command ids that nothing distinguishes are used in order.  Where what is *)
(* done under a command does not matter each operation has its own.         *)
(***************************************************************************)
EXTENDS Protocols, Writing, Literature, AnalysisRuns, TLC

CONSTANTS main, alt, p1, p2, plan, report, c1, c2, c3, c4, c5, c6, c7

VARIABLE focus

otherThanBranches == <<decisionVars, studyVars, evidenceVars, writingVars, litVars, analysisVars, focus>>
otherThanStudy == <<evidenceVars, writingVars, litVars, analysisVars, focus>>
otherThanEvidence == <<decisionVars, studyVars, writingVars, litVars, analysisVars, focus>>
otherThanWriting == <<decisionVars, studyVars, litVars, analysisVars, focus>>
otherThanLiterature == <<allDecisionVars, studyVars, evidenceVars, writingVars, analysisVars, focus>>
otherThanAnalyses == <<decisionVars, studyVars, evidenceVars, writingVars, litVars, focus>>
mcVars == <<branchVars, otherThanBranches>>

\* The second protocol rests on the first and on the plan, the report on the first.
MCObjectOf(w) == IF w = plan THEN "plan" ELSE IF w = report THEN "report" ELSE "protocol"
MCRestsOn(w) == IF w = p2 THEN {p1, plan} ELSE IF w = report THEN {p1} ELSE {}
MCReviewedWith(p) == {plan}
MCOffers == {{p1}, {p2}}

InTurn == <<c1, c2, c3, c4, c5, c6, c7>>
\* The commands used so far and the next one, of the first n.
Usable(used, n) ==
  {InTurn[i] : i \in {j \in 1 .. n : \A k \in 1 .. j - 1 : InTurn[k] \in used}}

Focuses == {"branches", "decisions", "protocols", "evidence", "review", "export", "search", "screen",
            "analysis"}
Init ==
  /\ StudyInit /\ EvidenceInit /\ WritingInit /\ LiteratureInit /\ AnalysisInit
  /\ focus \in Focuses
  /\ focus # "evidence" => access = [s \in Sources |-> [full |-> TRUE, kept |-> TRUE]]
  /\ denied \subseteq (IF focus = "export" THEN {plan} ELSE {})

-----------------------------------------------------------------------------
\* Nothing comes after an answer that changed nothing.
Accepted == lastAnswer # Nothing => lastAnswer.status = "accepted"

\* Main may hold the report before anything else is done.
Branching ==
  \/ \E b, parent \in BranchNames : CreateBranch(b, parent)
  \/ history = [c \in DOMAIN history |-> Nothing] /\ UpdateBranchReference(c7, main, report, 0)
  \/ \E c \in Usable({x \in CommandIds : history[x] # Nothing}, 3) :
       \/ \E b \in BranchNames, w \in {p1, p2}, e \in 0 .. MaxRevision : UpdateBranchReference(c, b, w, e)
       \/ \E source, b \in BranchNames, e \in 0 .. MaxRevision : PromoteBranch(c, source, b, {"protocol"}, e)
       \/ \E w \in Works : RecordSharedSourceCorrection(c, w)

\* Current revisions only, and few records in all.
Size ==
  Cardinality({c \in CommandIds : history[c] # Nothing}) + Len(packets) + Len(decisions)
    + Cardinality({f \in Findings : findings[f] # Nothing})
Deciding ==
  /\ \/ DecisionSteps
     \/ /\ \/ CreateBranch(alt, main)
           \/ \E b \in BranchNames, w \in {p1, p2} : UpdateBranchReference(c1, b, w, Revision(b))
           \/ PromoteBranch(c2, alt, main, {"protocol"}, Revision(main))
        /\ UNCHANGED decisionVars
  /\ \A c \in CommandIds \ {c1, c2, c3} : history'[c] = Nothing
  /\ Len(packets') = 3 => Size' < 4
  /\ Size < 4 \/ (history' = history /\ lastAnswer' # lastAnswer /\ Len(packets) = 1)

UsedForStudy == {c \in CommandIds : studyOps[<<c, "itself">>] # Nothing \/ studyOps[<<c, "successor">>] # Nothing}
Changes == {c \in CommandIds : amendments[c] # Nothing} \cup {c \in CommandIds : deviations[c] # Nothing}
Reported == {c \in CommandIds : reports[c] # Nothing}
Planning ==
  \/ \E c \in Usable(UsedForStudy, 5), p \in Protocols, i \in 1 .. MaxDecisions : BindProtocolInForce(c, p, i)
  \/ \E c \in Usable(UsedForStudy, 4) :
       \/ \E p \in Protocols : RecordProtocolVersion(c, p, main, "a")
       \/ Changes \subseteq {c} /\ \E p, q \in Protocols : RecordAmendment(c, p, q, "b")
       \/ Changes \subseteq {c} /\ \E p \in Protocols : RecordDeviation(c, p, "b")
       \/ /\ packets = <<>> /\ Cardinality(UsedForStudy) <= 2
          /\ \/ \E p \in Protocols : \/ RecordProgress(c, p) \/ RecordReportedExecution(c, p)
                                     \/ RecordReportedPriorCommitment(c, p)
             \/ \E d \in CommandIds : RecordProgressCorrection(c, d)
             \/ IngestProgressCandidate(c)
  \/ RegisterProtocolArtifact \/ InsertProtocol \/ FailProtocol
  \/ InsertChange \/ WriteImpact \/ CompleteOperation \/ StudyCrash
  \/ /\ recording = Nothing /\ Reported = {}
     /\ \/ \E p \in Protocols :
             /\ protocols[p] # Nothing /\ Current(main)["protocol"] # p
             /\ \E i \in 5 .. 7 :
                  /\ history[InTurn[i]] = Nothing /\ (i > 5 => history[InTurn[i - 1]] # Nothing)
                  /\ UpdateBranchReference(InTurn[i], main, p, Revision(main))
             /\ UNCHANGED decisionVars
        \/ \E p \in Protocols :
             /\ Current(main)["protocol"] = p
             /\ \A i \in DOMAIN packets : packets[i].candidates # {p}
             /\ CreateDecisionPacket(main, Revision(main), {p})
        \/ \E i \in DOMAIN packets :
             \/ /\ \A j \in DOMAIN decisions : decisions[j].packet # i
                /\ RecordOwnerDecision(i, "approved", packets[i].candidates)
             \/ ArchiveDecision(i)
     /\ UNCHANGED studyVars

\* One claim, c1.  Appraisals and items that are not there yet come before the links.
Weighing ==
  LET linked == links # NoRows \/ citations # NoRows
  IN  \/ RecordClaim(c1)
      \/ ~linked /\ \E c \in {c1, c2}, s \in Sources, x \in BOOLEAN :
                      /\ RecordEvidenceItem(c, [source |-> s, excerpt |-> x])
                      /\ c = c2 => evidenceOps'[c].status = "complete"
      \/ appraisals = NoRows /\ evidence = NoRows /\ claims = NoRows
           /\ \E s \in Sources, m \in Methods, i, a \in BOOLEAN : RecordAppraisal(c1, s, m, i, a)
      \/ appraisals = NoRows
           /\ \/ \E c \in {c1, c2}, role \in {"supporting", "challenging"} :
                (c = c2 => role = "challenging") /\ LinkClaimEvidence(c, c1, c, role)
              \/ \E s \in Sources, a \in {"yes", "no", "unsaid"} : VerifyCitation(c1, c1, s, a)
              \/ \E s \in Sources : ApplySourceNotice(c1, s) \/ (claims # NoRows /\ SourceChanges(s))
              \/ SynthesizeClaims(c1, {c1})

\* A draft, its revision and one cycle; c5 and c6 are used for whatever there is, and
\* nothing follows what is done under c7.
Reviewing ==
  /\ attached["contributions"][c7] = Nothing /\ attached["issues"][c7] = Nothing
  /\ \/ dispositions = {}
            /\ \/ RecordDraft(c1, 1, Nothing) \/ RecordDraft(c2, 1, c1) \/ RequestDraftRevision(c2, c1)
               \/ OpenReviewCycle(c4, c1) \/ IngestWritingCandidate(c3)
     \/ drafts[c2] = Nothing /\ attached["candidates"][c3] = Nothing
            /\ \/ \E wish \in Wishes : RecordOwnerCycleDisposition(c5, c4, wish)
               \/ RecordOwnerCycleDisposition(c6, c4, "revise")
               \/ CompleteWithInsufficientEvidence(c5, c1) \/ RecordDraftLimitation(c5, c1)
               \/ dispositions = {} /\ RecordSupervisorFeedback(c6, c4)
     \/ dispositions = {} /\ cycles = NoRows /\ (RecordAiContribution(c7, c1) \/ RecordReviewIssue(c7, c1))

\* What there is to export comes first, then exports by c5 of one kind or as a packet.
Exporting ==
  LET begun == {kind \in Kinds : exports[kind][c5] # Nothing \/ files[kind][c5] # {}}
  IN
  \/ begun = {}
       /\ UNCHANGED cut
       /\ \/ RecordDraft(c1, 1, Nothing) \/ OpenReviewCycle(c4, c1)
          \/ RecordEvidenceItem(c3, [source |-> plan, excerpt |-> FALSE])
               /\ evidenceOps'[c3].status = "complete" /\ UNCHANGED writingVars
          \/ LinkDraftAssertion(c3, c1, c3) \/ RecordDraftTable(c2, c1)
  \/ begun \subseteq {"markdown", "packet"} /\ ExportDraftMarkdown(c5, c1)
  \/ begun \subseteq {"docx"} /\ ExportDraftDocx(c5, c1)
  \/ begun \subseteq {"bibliography"} /\ ExportDraftBibliography(c5, c1)
  \/ begun \subseteq {"csv"} /\ ExportDraftTableCsv(c5, c1)
  \/ begun \subseteq {"packet", "markdown"} /\ \E k \in {c4, Nothing} : ExportReviewPacket(c5, c1, k)
  \/ \E x \in {c1, plan} : begun # {} /\ PolicyChanges(x)

\* A protocol, a query, a retrieval, a gap, a counter-search of it, a proposal and another
\* counter-search, which may overlap the first.
Searching ==
  \/ RecordReviewProtocol(c1)
  \/ RecordQueryVersion(c2, c1, Nothing)
  \/ RunAuthorizedRetrieval(c3, c2)
  \/ \E status \in {"proposed", "rejected"} : RecordGapAssessment(c4, c3, {c2}, status)
  \/ \E c \in {c5, c6} : RunCounterSearch(c, c4, c2) \/ \E located \in SUBSET corpus : FinishCounterSearch(c, located)
  \/ \E c \in {c3, c5, c6}, hits \in SUBSET Identities : Report1(c, hits) \/ RetrievalFails(c, hits)
  \/ LiteratureCrash
  \/ calls = NoCalls /\ litOps[c6] = Nothing /\ RecordContributionProposal(c7, c4)

\* A protocol and the one that amends it, two records, three decisions in turn.
Screening ==
  \/ RecordReviewProtocol(c1)
  \/ RecordQueryVersion(c7, c1, Nothing) /\ screened = <<>>
  \/ RecordLandscapeMap(c6, c1, {c7}) /\ corpus = {}
  \/ AmendEligibility(c2, c1)
  \/ \E c \in {c3, c7}, i \in Identities :
       litOps[c2] # Nothing /\ RecordCorpusIdentity(c, c1, i) /\ (c = c7 => litOps'[c].status = "complete")
  \/ \E I \in SUBSET Identities, E, found \in SUBSET (corpus \X corpus) :
       screened = <<>> /\ Cardinality(I) + Cardinality(E) + Cardinality(found) = 1 /\ (I # {} => corpus = {})
       /\ ExploreCitations(c6, c1, I, E, found)
  \/ \E r \in corpus, p \in {c1, <<c2, "protocol">>}, c \in Usable({screened[i] : i \in DOMAIN screened} \cup {c1, c2, c3}, 6) :
       /\ c \in {c4, c5, c6}
       /\ c = c6 => litOps[c5].status = "complete"
       /\ \/ \E d \in {"include", "uncertain"} : RecordScreeningDecision(c, r, p, d)
          \/ ResolveUncertainty(c, r, p, "include")

\* An output; a mode and another, at most two confirmations, a run and its reproduction;
\* one cut, one refusal, or one deletion.
Analysing ==
  /\ \/ /\ runMode = Nothing /\ gates = {}
        /\ \/ notes = {} /\ \E argv \in {"fit", Nothing}, last \in RunStages :
                 ImportOutput(c5, [content |-> "one", argv |-> argv], last)
           \/ \E mode \in {"ask", "full-access"} : notes = {} /\ ConfigureExecution(c1, mode, TRUE)
           \/ \E kind \in NoteKinds, whole \in BOOLEAN : AddNote(kind, c7, whole)
     \/ runMode # Nothing /\ ConfigureExecution(c2, "approve", TRUE)
     \/ confirmed = <<>> /\ gates = {} /\ ConfirmCommand(c3, "fit", TRUE)
     \/ Len(confirmed) = 1 /\ gates = {} /\ \E argv \in Argvs : ConfirmCommand(c4, argv, TRUE)
     \/ \E i \in 0 .. Len(confirmed), output \in {c5, Nothing} : RunAuthorizedAnalysis(c6, "fit", output, i)
     \/ \E c \in {c6, c7} : ReproduceAnalysisRun(c, c5, c6)
     \/ analyses[c7] = Nothing /\ gone = {} /\ \E of \in {<<"run", c6>>, <<"output", c5>>} : DeleteContent(of)
  /\ Cardinality(cutShort' \cup {c \in CommandIds : <<c, "blocked">> \in gates'}) + Cardinality(gone') <= 1
  /\ Cardinality(gates') <= 2 /\ (c7 \in executed' => gates' \subseteq {c6, c7} \X {"completed", "quarantined"})
  /\ \A c \in {c6, c7} : analyses'[c] # Nothing /\ analyses'[c].status = "failed" => analyses'[c].stdout = "two"

Next ==
  \/ focus = "branches" /\ Accepted /\ Branching /\ UNCHANGED otherThanBranches
  \/ focus = "decisions" /\ Accepted /\ Deciding /\ UNCHANGED <<studyVars, otherThanStudy>>
  \/ focus = "protocols" /\ Planning /\ UNCHANGED otherThanStudy
  \/ focus = "evidence" /\ Weighing /\ UNCHANGED otherThanEvidence
  \/ focus = "review" /\ Reviewing /\ UNCHANGED otherThanWriting
  \/ focus = "export" /\ Exporting /\ UNCHANGED otherThanWriting
  \/ focus = "search" /\ Searching /\ UNCHANGED otherThanLiterature
  \/ focus = "screen" /\ Screening /\ UNCHANGED otherThanLiterature
  \/ focus = "analysis" /\ Analysing /\ UNCHANGED otherThanAnalyses

Spec == Init /\ [][Next]_mcVars

TypeOK == StudyTypeOK /\ EvidenceTypeOK /\ WritingTypeOK /\ LiteratureTypeOK /\ AnalysisTypeOK
=============================================================================
