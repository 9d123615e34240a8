---------------------------- MODULE AnalysisRuns ----------------------------
(***************************************************************************)
(* Local analyses of a project (src/analysis): the execution mode, owners'  *)
(* confirmations of exact commands, runs and what they leave, outputs made  *)
(* elsewhere and their reproduction.                                        *)
(*                                                                         *)
(* The command itself is awaited synchronously, so that nothing else of the *)
(* process runs meanwhile: an operation is one step that a crash, or a      *)
(* statement that throws, may cut short.  What throws without a change is   *)
(* left out: capabilities, policy, authorizations, protocols, and the same  *)
(* command id with another payload.                                         *)
(***************************************************************************)
EXTENDS Branches

CONSTANTS
  Modes,    \* execution modes, "full-access" among them
  Argvs,    \* commands with their arguments
  Contents  \* what a command may print, or an output say

ASSUME AnalysisAssumption ==
  "full-access" \in Modes /\ Nothing \notin Modes \cup Argvs \cup Contents

VARIABLES
  runMode,      \* analysis_execution_policies
  confirmed,    \* analysis_command_confirmations, in the order they were made
  analyses,     \* analysis_runs, by their command
  outputs,      \* external_analysis_outputs
  notes,        \* analysis_candidates, analysis_tool_probes and analysis_diagnostics
  analysisOps,  \* analysis_operations
  gates,        \* the lifecycle operations made for a command, and their status
  held,         \* commands with rows in quarantined_outputs
  gone,         \* outputs and results whose content was deleted since
  executed,     \* commands carried out at least once (history)
  again,        \* and more than once (history)
  cutShort,     \* commands that a crash or a failing statement interrupted (history)
  strays        \* commands that left an artifact no row names

analysisVars == <<runMode, confirmed, analyses, outputs, notes, analysisOps, gates, held, gone,
                  executed, again, cutShort, strays>>

NoteKinds == {"candidate", "probe", "diagnostic"}
Confirmations == [command : CommandIds, argv : Argvs, mode : Modes]
\* A result that was quarantined, or is empty, is no artifact.
Analyses == [argv : Argvs, mode : Modes, output : CommandIds \cup {Nothing}, reproduced : BOOLEAN,
             status : {"succeeded", "failed", "quarantined"}, stdout : Contents \cup {Nothing}]
\* An output without an argv is identified by its script.
Outputs == [content : Contents, argv : Argvs \cup {Nothing}]
\* What an operation is of: a mode, an argv and a mode, an argv and an output, a content
\* and an argv, or a kind of notes.
Operations ==
  [kind : {"execution-policy", "command-confirmation", "analysis-run", "external-analysis-import"} \cup NoteKinds,
   terms : {<<m>> : m \in Modes \cup NoteKinds} \cup (Argvs \X Modes)
             \cup (Argvs \X (CommandIds \cup {Nothing})) \cup (Contents \X (Argvs \cup {Nothing}))]

ASSUME NullAnalysisAssumption == Nothing \notin Analyses \cup Outputs \cup Operations

AnalysisTypeOK ==
  /\ runMode \in Modes \cup {Nothing} /\ confirmed \in Seq(Confirmations)
  /\ analyses \in [CommandIds -> Analyses \cup {Nothing}]
  /\ outputs \in [CommandIds -> Outputs \cup {Nothing}]
  /\ notes \subseteq NoteKinds \X CommandIds
  /\ analysisOps \in [CommandIds -> Operations \cup {Nothing}]
  /\ gates \subseteq CommandIds \X {"queued", "blocked", "completed", "quarantined"}
  /\ gone \subseteq {"run", "output"} \X CommandIds
  /\ held \cup executed \cup again \cup cutShort \cup strays \subseteq CommandIds

AnalysisInit ==
  /\ runMode = Nothing /\ confirmed = <<>>
  /\ analyses = [c \in CommandIds |-> Nothing]
  /\ outputs = [c \in CommandIds |-> Nothing]
  /\ analysisOps = [c \in CommandIds |-> Nothing]
  /\ notes = {} /\ gates = {} /\ held = {} /\ gone = {}
  /\ executed = {} /\ again = {} /\ cutShort = {} /\ strays = {}

-----------------------------------------------------------------------------
\* operationResult: no operation is recorded for the command.
Unrecorded(c) == analysisOps[c] = Nothing

\* recordOperation comes last, unless the process died or something threw before.
RecordOperation(c, kind, terms, whole) ==
  IF whole THEN /\ analysisOps' = [analysisOps EXCEPT ![c] = [kind |-> kind, terms |-> terms]]
                /\ UNCHANGED cutShort
           ELSE /\ cutShort' = cutShort \cup {c}
                /\ UNCHANGED analysisOps

ConfigureExecution(c, mode, whole) ==
  /\ Unrecorded(c)
  /\ runMode' = mode
  /\ RecordOperation(c, "execution-policy", <<mode>>, whole)
  /\ UNCHANGED <<branchVars, confirmed, analyses, outputs, notes, gates, held, gone, executed, again, strays>>

\* A confirmation is of one argv in the mode of the moment.
ConfirmCommand(c, argv, whole) ==
  /\ Unrecorded(c) /\ runMode # Nothing
  /\ \A i \in DOMAIN confirmed : confirmed[i].command # c \/ confirmed[i].argv # argv
  /\ confirmed' = Append(confirmed, [command |-> c, argv |-> argv, mode |-> runMode])
  /\ RecordOperation(c, "command-confirmation", <<argv, runMode>>, whole)
  /\ UNCHANGED <<branchVars, runMode, analyses, outputs, notes, gates, held, gone, executed, again, strays>>

-----------------------------------------------------------------------------
\* Runs

\* Mutated form: a confirmation outlives a change of the mode.
MayRunOnceConfirmed(argv, i) ==
  \/ runMode = "full-access"
  \/ runMode # Nothing /\ i \in DOMAIN confirmed /\ confirmed[i].argv = argv

\* runLocalCommand, with the i-th confirmation, or with none.
MayRun(argv, i) ==
  \/ runMode = "full-access"
  \/ i \in DOMAIN confirmed /\ confirmed[i].argv = argv /\ confirmed[i].mode = runMode

Terms(argv, output) == <<argv, output>>

Execute(c) ==
  /\ executed' = executed \cup {c}
  /\ again' = again \cup ({c} \cap executed)

\* What a run has done when it stops: made its lifecycle operation, executed and
\* stored the output, inserted its row, set the operation's status, and
\* quarantined what is not kept.  Last comes the record.
RunStages == {"queued", "executed", "inserted", "settled", "held", "recorded"}
Before(stage) ==
  CASE stage = "queued"   -> {}
    [] stage = "executed" -> {"queued"}
    [] stage = "inserted" -> {"queued", "executed"}
    [] stage = "settled"  -> {"queued", "executed", "inserted"}
    [] stage = "held"     -> {"queued", "executed", "inserted", "settled"}
    [] stage = "recorded" -> RunStages \ {"recorded"}
Reached(stage, last) == stage = last \/ stage \in Before(last)

\* The status it leaves to the lifecycle operation: what throws after the execution
\* and before the record (an artifact that cannot be registered, twice the same
\* input, a row or a quarantine that is not written) blocks it.
Left(row, last) ==
  LET settled == IF row.status = "quarantined" THEN "quarantined" ELSE "completed"
  IN  CASE last = "queued"                 -> {"queued"}
        [] last \in {"executed", "inserted"} -> {"queued", "blocked"}
        [] last = "settled"                -> {settled, IF settled = "quarantined" THEN "blocked" ELSE settled}
        [] OTHER                           -> {settled}

\* runAuthorizedAnalysis under a command without a row: row is what it leaves.
\* Artifacts without a row may stay: the one that was registered before the other
\* failed, and those with inputs, which discardArtifactVersion refuses.
Perform(c, row, i, last) ==
  /\ Unrecorded(c) /\ analyses[c] = Nothing /\ MayRun(row.argv, i)
  /\ IF Reached("executed", last) THEN Execute(c) ELSE UNCHANGED <<executed, again>>
  /\ analyses' = IF Reached("inserted", last) THEN [analyses EXCEPT ![c] = row] ELSE analyses
  /\ strays' \in {strays, IF last = "executed" /\ row.status # "quarantined" THEN strays \cup {c} ELSE strays}
  /\ \E left \in Left(row, last) : gates' = gates \cup {<<c, left>>}
  /\ held' = IF Reached("held", last) /\ row.status = "quarantined" THEN held \cup {c} ELSE held
  /\ RecordOperation(c, "analysis-run", Terms(row.argv, row.output), last = "recorded")

\* A run that was cut short may have its row without the record.  The command is
\* executed and its row refused; its artifacts are discarded, unless it has inputs.
PerformAgain(c, argv, i) ==
  /\ Unrecorded(c) /\ analyses[c] # Nothing /\ MayRun(argv, i)
  /\ Execute(c)
  /\ gates' = gates \cup {<<c, "blocked">>}
  /\ strays' \in {strays, strays \cup {c}}
  /\ UNCHANGED <<analyses, held, analysisOps, cutShort>>

\* Not configured, denied by the guard, or not confirmed.
Refuse(c) ==
  /\ Unrecorded(c)
  /\ gates' = gates \cup {<<c, "blocked">>}
  /\ UNCHANGED <<analyses, executed, again, strays, held, analysisOps, cutShort>>

\* A command that succeeds, fails or is cancelled; what was cancelled is not kept.
Results(argv, output) ==
  {[argv |-> argv, mode |-> runMode, output |-> output, reproduced |-> FALSE,
    status |-> status, stdout |-> IF status = "quarantined" THEN Nothing ELSE stdout] :
     status \in {"succeeded", "failed", "quarantined"}, stdout \in Contents \cup {Nothing}}

\* That the output it names exists is not asked.
RunAuthorizedAnalysis(c, argv, output, i) ==
  /\ \/ \E row \in Results(argv, output), last \in RunStages : Perform(c, row, i, last)
     \/ PerformAgain(c, argv, i)
     \/ Refuse(c)
  /\ UNCHANGED <<branchVars, runMode, confirmed, outputs, notes, gone>>

-----------------------------------------------------------------------------
\* Outputs made elsewhere

\* importExternalAnalysisOutput stores the artifact first.  The row of a command
\* that was cut short refuses another, and the artifact stays.
ImportOutput(c, output, last) ==
  /\ Unrecorded(c) /\ last \in {"executed", "inserted", "recorded"}
  /\ IF last = "executed" \/ outputs[c] # Nothing
     THEN /\ strays' = strays \cup {c}
          /\ cutShort' = cutShort \cup {c}
          /\ UNCHANGED <<outputs, analysisOps>>
     ELSE /\ outputs' = [outputs EXCEPT ![c] = output]
          /\ RecordOperation(c, "external-analysis-import", <<output.content, output.argv>>, last = "recorded")
          /\ UNCHANGED strays
  /\ UNCHANGED <<branchVars, runMode, confirmed, analyses, notes, gates, held, gone, executed, again>>

\* The oldest confirmation of the argv, whatever the mode it was made in.
Oldest(argv) ==
  LET made == {i \in DOMAIN confirmed : confirmed[i].argv = argv}
  IN  IF made = {} THEN 0 ELSE CHOOSE i \in made : \A j \in made : i <= j

\* Mutated form: that the run succeeded is enough.
AgreesIfSucceeded(c, row, x) == row.status = "succeeded" /\ row.stdout # Nothing

\* Both contents are still there, and the same.
Agrees(c, row, x) ==
  /\ row.status = "succeeded" /\ row.stdout = outputs[x].content
  /\ {<<"run", c>>, <<"output", x>>} \cap gone = {}

\* Mutated form: a command id that was used for any run is taken for this one.
RanBeforeAnyhow(c, argv, x) == ~Unrecorded(c) /\ analysisOps[c].kind = "analysis-run"

RanBefore(c, argv, x) == analysisOps[c] = [kind |-> "analysis-run", terms |-> Terms(argv, x)]

\* reproduceAnalysisRun of output x like run a: another run, or under a command
\* that ran already the one there is, is compared and marked.
ReproduceAnalysisRun(c, x, a) ==
  /\ outputs[x] # Nothing /\ analyses[a] # Nothing
  /\ outputs[x].argv \in {analyses[a].argv, Nothing}
  /\ LET argv == analyses[a].argv
     IN  \/ \E row \in Results(argv, x), last \in RunStages, compared \in BOOLEAN :
              /\ compared => last = "recorded"
              /\ Perform(c, [row EXCEPT !.reproduced = compared /\ Agrees(c, row, x)], Oldest(argv), last)
         \/ PerformAgain(c, argv, Oldest(argv))
         \/ Refuse(c)
         \/ /\ RanBefore(c, argv, x) /\ Agrees(c, analyses[c], x)
            /\ analyses' = [analyses EXCEPT ![c].reproduced = TRUE]
            /\ UNCHANGED <<analysisOps, gates, held, executed, again, cutShort, strays>>
  /\ UNCHANGED <<branchVars, runMode, confirmed, outputs, notes, gone>>

-----------------------------------------------------------------------------
\* ingestAnalysisCandidate, probeAnalysisTools, attachAnalysisDiagnostics: a row, then the record.
AddNote(kind, c, whole) ==
  /\ Unrecorded(c) /\ <<kind, c>> \notin notes
  /\ notes' = notes \cup {<<kind, c>>}
  /\ RecordOperation(c, kind, <<kind>>, whole)
  /\ UNCHANGED <<branchVars, runMode, confirmed, analyses, outputs, gates, held, gone, executed, again, strays>>

\* A controlled deletion takes the content of a result or an output.
DeleteContent(of) ==
  /\ of \in {"run", "output"} \X CommandIds /\ of \notin gone
  /\ IF of[1] = "run" THEN analyses[of[2]] # Nothing /\ analyses[of[2]].stdout # Nothing
                      ELSE outputs[of[2]] # Nothing
  /\ gone' = gone \cup {of}
  /\ UNCHANGED <<branchVars, runMode, confirmed, analyses, outputs, notes, analysisOps, gates,
                 held, executed, again, cutShort, strays>>

AnalysisNext ==
  \E c \in CommandIds :
    \/ \E m \in Modes, whole \in BOOLEAN : ConfigureExecution(c, m, whole)
    \/ \E argv \in Argvs, whole \in BOOLEAN : ConfirmCommand(c, argv, whole)
    \/ \E argv \in Argvs, output \in CommandIds \cup {Nothing}, i \in Nat :
         RunAuthorizedAnalysis(c, argv, output, i)
    \/ \E output \in Outputs, last \in RunStages : ImportOutput(c, output, last)
    \/ \E x, a \in CommandIds : ReproduceAnalysisRun(c, x, a)
    \/ \E kind \in NoteKinds, whole \in BOOLEAN : AddNote(kind, c, whole)
    \/ \E of \in {"run", "output"} : DeleteContent(<<of, c>>)

AnalysisSpec == AnalysisInit /\ [][AnalysisNext]_analysisVars

-----------------------------------------------------------------------------
\* Properties

\* Whatever the mode was changed to and from, a run that was not made with full
\* access was confirmed, with this argv and in the mode it ran in.
RunsConfirmed ==
  \A c \in CommandIds : analyses[c] # Nothing /\ analyses[c].mode # "full-access" =>
    \E i \in DOMAIN confirmed :
      confirmed[i].argv = analyses[c].argv /\ confirmed[i].mode = analyses[c].mode

\* A run marked as reproduced succeeded and printed what the output it names says,
\* by the same command if that names one, whichever way the mark came.
ReproducedAgree ==
  \A c \in CommandIds : analyses[c] # Nothing /\ analyses[c].reproduced =>
    \E x \in CommandIds :
      /\ outputs[x] # Nothing /\ analyses[c].output = x
      /\ analyses[c].status = "succeeded" /\ analyses[c].stdout = outputs[x].content
      /\ outputs[x].argv \in {analyses[c].argv, Nothing}

\* A command is executed once however often it is sent, its result is where its
\* status says, and no artifact is left over, unless a crash or a failing statement
\* cut an execution of it short: until then it is executed for every repetition.
SettledUnlessCut ==
  /\ again \cup strays \subseteq cutShort
  /\ \A c \in CommandIds \ cutShort : analyses[c] # Nothing =>
       IF analyses[c].status = "quarantined"
       THEN c \in held /\ <<c, "quarantined">> \in gates
       ELSE c \notin held /\ <<c, "completed">> \in gates

\* However a run was cut short, an operation that says "completed" has a result
\* that is kept, and one that is quarantined, or holds something back, one that is not.
StatusIsTrue ==
  \A c \in CommandIds :
    /\ <<c, "completed">> \in gates => analyses[c] # Nothing /\ analyses[c].status # "quarantined"
    /\ c \in held \/ <<c, "quarantined">> \in gates =>
         analyses[c] # Nothing /\ analyses[c].status = "quarantined"

\* Nothing is recorded as done whose row is not there.
RecordedIsDone ==
  \A c \in CommandIds : ~Unrecorded(c) =>
    LET kind == analysisOps[c].kind
    IN  /\ kind = "analysis-run" => analyses[c] # Nothing
        /\ kind = "external-analysis-import" => outputs[c] # Nothing
        /\ kind = "command-confirmation" => \E i \in DOMAIN confirmed : confirmed[i].command = c
        /\ kind \in NoteKinds => <<kind, c>> \in notes

AnalysesHold == RunsConfirmed /\ ReproducedAgree /\ SettledUnlessCut /\ StatusIsTrue /\ RecordedIsDone
=============================================================================
