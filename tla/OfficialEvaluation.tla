------------------------- MODULE OfficialEvaluation -------------------------
(***************************************************************************)
(* The official evaluation of a champion (evaluation/pipeline.py): a plan  *)
(* of two games against a human, their replay by the Rust exporter, a      *)
(* teacher's analysis of every decision and the hard examples among them.  *)
(* Every file is written once and never over another; `analyze` holds the  *)
(* lock of the directory, `prepare-games` takes none.  A command may be    *)
(* killed anywhere; the exporter it has started, in a session of its own,  *)
(* goes on without it.  The registry, the teacher and the games may be     *)
(* replaced in between.  The engine and its receipt stay what they were.   *)
(***************************************************************************)
EXTENDS Naturals, Sequences, FiniteSets

CONSTANTS
    Games,             \* the games of the plan: numbers
    Plies,             \* decisions of a game
    Severity,          \* severityCp of the row of each decision: [Games \X Plies -> Nat]
    HardCp,            \* hard_example_cp
    MaxHard,           \* max_hard_examples
    MaxAttempts,       \* MAX_EXPORT_ATTEMPTS
    Overlaps,          \* prepare-games may run beside analyze
    MaxEvaluatorKills, \* bound: commands killed
    MaxTimeouts,       \* bound: exporters that time out
    MaxReplacements    \* bound: registries, teachers and games replaced

ASSUME EvaluationAssumption == MaxAttempts \in Nat

Commands == {"analyze", "prepare"}
Decisions == Games \X Plies
Attempts == 1..MaxAttempts
NotPlayed == [take |-> 0, registry |-> 0]
NoGames == [g \in Games |-> NotPlayed]
NoRow == [of |-> NotPlayed, named |-> 0, by |-> 0]
NoAnalyses == [d \in Decisions |-> NoRow]
NoReport == [games |-> NoGames, rows |-> NoAnalyses, teacher |-> 0]
NoHard == {<<0, 0>>}
Untouched == [exported |-> FALSE, output |-> NoGames, logs |-> FALSE, receipt |-> "none"]
Unstarted == [pc |-> "idle", attempt |-> 0, code |-> "none", named |-> 0, by |-> 0]

VARIABLES
    registry,     \* revision of the model registry
    teacherFiles, \* revision of the teacher's files
    played,       \* the CSA and decision log of each game; under which registry
    plan,         \* the registry revision of plan.json
    attempts,     \* validation/attempt-00n: games.jsonl, logs, receipt
    manifest,     \* games-manifest.json
    analyses,     \* rows: of which game; teacher recorded; teacher that searched
    report, hard,
    evaluator,
    orphans,      \* exporters in each attempt whose command was killed
    crowded,      \* history: an exporter was started where another still ran
    evaluatorKills, timeouts, replacements

officials == <<registry, teacherFiles, played>>
tallies == <<evaluatorKills, timeouts, replacements>>
exporters == <<orphans, crowded>>
evaluationFiles == <<plan, attempts, manifest, analyses, report, hard>>
evaluationVars == <<officials, evaluationFiles, evaluator, exporters, tallies>>

EvaluationInit ==
    /\ registry = 1
    /\ teacherFiles = 1
    /\ played = NoGames
    /\ plan = 0
    /\ attempts = [a \in Attempts |-> Untouched]
    /\ manifest = NoGames
    /\ analyses = NoAnalyses
    /\ report = NoReport
    /\ hard = NoHard
    /\ evaluator = [c \in Commands |-> Unstarted]
    /\ orphans = [a \in Attempts |-> 0]
    /\ crowded = FALSE
    /\ evaluatorKills = 0
    /\ timeouts = 0
    /\ replacements = 0

EvaluatorAt(c, pc) == evaluator[c].pc = pc
EvaluatorBecomes(c, state) == evaluator' = [evaluator EXCEPT ![c] = state]
EvaluatorGoes(c, pc) == evaluator' = [evaluator EXCEPT ![c].pc = pc]
EvaluatorStops(c) == EvaluatorBecomes(c, Unstarted)
-----------------------------------------------------------------------------
(* plan, and the games played by its commands                              *)

BuildPlan ==
    /\ plan = 0
    /\ plan' = registry
    /\ UNCHANGED <<officials, attempts, manifest, analyses, report, hard, evaluator, exporters, tallies>>
\* The plan's reference is to the very bytes of the registry.
PlanHolds == plan = registry
\* The log of a game names the registry that its engine was loaded from.
PlayGame(g) ==
    /\ plan # 0
    /\ played[g] = NotPlayed
    /\ played' = [played EXCEPT ![g] = [take |-> replacements + 1, registry |-> registry]]
    /\ UNCHANGED <<registry, teacherFiles, evaluationFiles, evaluator, exporters, tallies>>
IsPlanned(game) == game.registry = plan
-----------------------------------------------------------------------------
(* prepare_official_games, _run_csa_export                                 *)

ManifestHolds == PlanHolds /\ manifest = played
Start(c) ==
    /\ EvaluatorAt(c, "idle")
    /\ Overlaps \/ \A other \in Commands : EvaluatorAt(other, "idle")
    /\ PlanHolds
    /\ report = NoReport
    /\ manifest # NoGames => c = "analyze" /\ ManifestHolds
    /\ EvaluatorGoes(c, IF manifest = NoGames THEN "choose" ELSE "resume")
    /\ UNCHANGED <<officials, evaluationFiles, exporters, tallies>>

\* Files without a receipt are those of an attempt that was cut short.
AttemptIsFree(a) == attempts[a] = Untouched \/ attempts[a].receipt # "none"
ExporterRuns(a) ==
    orphans[a] > 0 \/ \E c \in Commands : EvaluatorAt(c, "run") /\ evaluator[c].attempt = a
\* The exporter is started by the same step.
ChooseAttempt(c) ==
    LET free == {a \in Attempts : AttemptIsFree(a)}
    IN  /\ EvaluatorAt(c, "choose")
        /\ IF free = {} \/ (\E g \in Games : played[g] = NotPlayed)
           THEN EvaluatorStops(c) /\ UNCHANGED crowded
           ELSE \E a \in free :
                    /\ \A b \in free : a <= b
                    /\ EvaluatorBecomes(c, [Unstarted EXCEPT !.attempt = a,
                           !.pc = IF attempts[a].receipt # "none" THEN "read" ELSE "run"])
                    /\ crowded' = (crowded \/ (attempts[a].receipt = "none" /\ ExporterRuns(a)))
        /\ UNCHANGED <<officials, evaluationFiles, orphans, tallies>>
Exported(c, code) ==
    EvaluatorBecomes(c, [evaluator[c] EXCEPT !.pc = "log", !.code = code])
\* The exporter refuses a file that is there already.
IsExported(a) == attempts[a].exported
PlaceOutput(a) == attempts' = [attempts EXCEPT ![a].exported = TRUE, ![a].output = played]
Export(c) ==
    /\ EvaluatorAt(c, "run")
    /\ IF IsExported(evaluator[c].attempt)
       THEN Exported(c, "failed") /\ UNCHANGED attempts
       ELSE Exported(c, "ok") /\ PlaceOutput(evaluator[c].attempt)
    /\ UNCHANGED <<officials, plan, manifest, analyses, report, hard, exporters, tallies>>
\* It is ended at its deadline, and may have committed by then.
TimeOutExporter(c) ==
    /\ EvaluatorAt(c, "run")
    /\ timeouts < MaxTimeouts
    /\ timeouts' = timeouts + 1
    /\ Exported(c, "failed")
    /\ \/ UNCHANGED attempts
       \/ ~IsExported(evaluator[c].attempt) /\ PlaceOutput(evaluator[c].attempt)
    /\ UNCHANGED <<officials, plan, manifest, analyses, report, hard, exporters,
                   evaluatorKills, replacements>>
\* One whose command was killed commits all the same, or dies on its own.
OrphanEnds(a) ==
    /\ orphans[a] > 0
    /\ orphans' = [orphans EXCEPT ![a] = @ - 1]
    /\ UNCHANGED attempts \/ (~IsExported(a) /\ PlaceOutput(a))
    /\ UNCHANGED <<officials, plan, manifest, analyses, report, hard, evaluator, crowded, tallies>>
WriteLogs(c) ==
    /\ EvaluatorAt(c, "log")
    /\ IF attempts[evaluator[c].attempt].logs
       THEN EvaluatorStops(c) /\ UNCHANGED attempts
       ELSE /\ EvaluatorGoes(c, "receipt")
            /\ attempts' = [attempts EXCEPT ![evaluator[c].attempt].logs = TRUE]
    /\ UNCHANGED <<officials, plan, manifest, analyses, report, hard, exporters, tallies>>
WriteAttemptReceipt(c) ==
    /\ EvaluatorAt(c, "receipt")
    /\ attempts' = [attempts EXCEPT ![evaluator[c].attempt].receipt = evaluator[c].code]
    /\ EvaluatorGoes(c, "read")
    /\ UNCHANGED <<officials, plan, manifest, analyses, report, hard, exporters, tallies>>
\* A failure that left a receipt is the answer of every later call.
ReadReceipt(c) ==
    /\ EvaluatorAt(c, "read")
    /\ IF attempts[evaluator[c].attempt].receipt = "ok"
       THEN EvaluatorGoes(c, "bind") ELSE EvaluatorStops(c)
    /\ UNCHANGED <<officials, evaluationFiles, exporters, tallies>>
\* Every CSA is the exporter's own text of it, every log the plan's.
Binds(a) ==
    /\ PlanHolds
    /\ attempts[a].output = played
    /\ \A g \in Games : IsPlanned(played[g])
WriteGamesManifest(c) ==
    /\ EvaluatorAt(c, "bind")
    /\ IF Binds(evaluator[c].attempt) /\ manifest = NoGames
       THEN /\ manifest' = played
            /\ IF c = "analyze"
               THEN EvaluatorBecomes(c, [Unstarted EXCEPT !.pc = "resume"]) ELSE EvaluatorStops(c)
       ELSE EvaluatorStops(c) /\ UNCHANGED manifest
    /\ UNCHANGED <<officials, plan, attempts, analyses, report, hard, exporters, tallies>>
-----------------------------------------------------------------------------
(* analyze_official_evaluation                                             *)

IsRowOf(row, d, fingerprint) == row.of = manifest[d[1]] /\ row.named = fingerprint
Written == {d \in Decisions : analyses[d] # NoRow}
Resume ==
    /\ EvaluatorAt("analyze", "resume")
    /\ IF ManifestHolds /\ \A d \in Written : IsRowOf(analyses[d], d, teacherFiles)
       THEN EvaluatorBecomes("analyze",
                [Unstarted EXCEPT !.pc = IF Written = Decisions THEN "report" ELSE "start",
                                  !.named = teacherFiles])
       ELSE EvaluatorStops("analyze")
    /\ UNCHANGED <<officials, evaluationFiles, exporters, tallies>>
StartTeacher ==
    /\ EvaluatorAt("analyze", "start")
    /\ EvaluatorBecomes("analyze", [evaluator["analyze"] EXCEPT !.pc = "search",
                                                                !.by = teacherFiles])
    /\ UNCHANGED <<officials, evaluationFiles, exporters, tallies>>
Precedes(d, e) == d[1] < e[1] \/ (d[1] = e[1] /\ d[2] < e[2])
\* The teacher answers within its legal moves, or the run ends.
Row(d) ==
    [of |-> manifest[d[1]], named |-> evaluator["analyze"].named,
     by |-> evaluator["analyze"].by]
AnalyzePosition(d) ==
    /\ EvaluatorAt("analyze", "search")
    /\ d \notin Written
    /\ \A e \in Decisions \ Written : e # d => Precedes(d, e)
    /\ IF ManifestHolds
       THEN analyses' = [analyses EXCEPT ![d] = Row(d)] /\ UNCHANGED evaluator
       ELSE EvaluatorStops("analyze") /\ UNCHANGED analyses
    /\ UNCHANGED <<officials, plan, attempts, manifest, report, hard, exporters, tallies>>
EndSearch ==
    /\ EvaluatorAt("analyze", "search")
    /\ Written = Decisions
    /\ EvaluatorGoes("analyze", "report")
    /\ UNCHANGED <<officials, evaluationFiles, exporters, tallies>>
\* Bug: the rows are held against the fingerprint the run began with.
ReportHolds_AsStarted(named) ==
    ManifestHolds /\ \A d \in Decisions : IsRowOf(analyses[d], d, named)
\* The teacher's files are hashed again.
ReportHolds(named) ==
    /\ ManifestHolds
    /\ named = teacherFiles
    /\ \A d \in Decisions : IsRowOf(analyses[d], d, teacherFiles)
WriteReport ==
    /\ EvaluatorAt("analyze", "report")
    /\ report' = IF ReportHolds(evaluator["analyze"].named)
                 THEN [games |-> manifest, rows |-> analyses,
                       teacher |-> evaluator["analyze"].named]
                 ELSE report
    /\ EvaluatorStops("analyze")
    /\ UNCHANGED <<officials, plan, attempts, manifest, analyses, hard, exporters, tallies>>
-----------------------------------------------------------------------------
(* curate_hard_examples                                                    *)

Candidates == {d \in Decisions : Severity[d] >= HardCp}
MoreSevere(d, e) ==
    Severity[d] > Severity[e] \/ (Severity[d] = Severity[e] /\ Precedes(d, e))
HardExamples ==
    {d \in Candidates : Cardinality({e \in Candidates : MoreSevere(e, d)}) < MaxHard}
Curate ==
    /\ report # NoReport
    /\ ReportHolds(report.teacher)
    /\ hard = NoHard
    /\ hard' = HardExamples
    /\ UNCHANGED <<officials, plan, attempts, manifest, analyses, report, evaluator, exporters, tallies>>
-----------------------------------------------------------------------------
KillEvaluator(c) ==
    /\ ~EvaluatorAt(c, "idle")
    /\ evaluatorKills < MaxEvaluatorKills
    /\ evaluatorKills' = evaluatorKills + 1
    /\ orphans' = IF EvaluatorAt(c, "run")
                  THEN [orphans EXCEPT ![evaluator[c].attempt] = @ + 1] ELSE orphans
    /\ EvaluatorStops(c)
    /\ UNCHANGED <<officials, evaluationFiles, crowded, timeouts, replacements>>
ReplaceInput ==
    /\ replacements < MaxReplacements
    /\ replacements' = replacements + 1
    /\ UNCHANGED <<evaluationFiles, evaluator, exporters, evaluatorKills, timeouts>>
PromoteChampion ==
    ReplaceInput /\ registry' = registry + 1 /\ UNCHANGED <<teacherFiles, played>>
ReplaceTeacher ==
    ReplaceInput /\ teacherFiles' = teacherFiles + 1 /\ UNCHANGED <<registry, played>>
RemoveGame(g) ==
    /\ played[g] # NotPlayed
    /\ ReplaceInput
    /\ played' = [played EXCEPT ![g] = NotPlayed]
    /\ UNCHANGED <<registry, teacherFiles>>

EvaluationNext ==
    \/ BuildPlan
    \/ \E g \in Games : PlayGame(g) \/ RemoveGame(g)
    \/ \E c \in Commands :
        \/ Start(c) \/ ChooseAttempt(c) \/ Export(c) \/ TimeOutExporter(c)
        \/ WriteLogs(c) \/ WriteAttemptReceipt(c)
        \/ ReadReceipt(c) \/ WriteGamesManifest(c) \/ KillEvaluator(c)
    \/ \E a \in Attempts : OrphanEnds(a)
    \/ Resume \/ StartTeacher \/ EndSearch \/ WriteReport \/ Curate
    \/ \E d \in Decisions : AnalyzePosition(d)
    \/ PromoteChampion \/ ReplaceTeacher
EvaluationSpec == EvaluationInit /\ [][EvaluationNext]_evaluationVars
-----------------------------------------------------------------------------
(* A report tells of games played as the plan has them, and each of its    *)
(* rows was searched by the one teacher it names, although the analysis    *)
(* may have been killed, resumed and begun with files replaced since.      *)
ReportIsOneTeacher ==
    report # NoReport =>
        /\ \A g \in Games : report.games[g].take > 0 /\ report.games[g].registry = plan
        /\ \A d \in Decisions :
            report.rows[d].of = report.games[d[1]] /\ report.rows[d].by = report.teacher

(* Fewer kills than there are attempts leave one for the next command, and *)
(* no failed receipt that would refuse every later one, as long as no      *)
(* exporter ran into its deadline or was started in an attempt where that  *)
(* of a killed command still ran: the second of two exporters finds the    *)
(* file of the first, its failure has a receipt, and the receipt stays.    *)
KillsAreRecoverable ==
    evaluatorKills < MaxAttempts /\ timeouts = 0 /\ ~crowded
    /\ (\A c \in Commands : EvaluatorAt(c, "idle")) =>
        /\ \E a \in Attempts : AttemptIsFree(a)
        /\ \A a \in Attempts : attempts[a].receipt # "failed"

(* Both: what is reported was played and searched as it says, and a killed *)
(* evaluation can go on (evaluation/pipeline.py).                          *)
EvaluationIsSound == ReportIsOneTeacher /\ KillsAreRecoverable
=============================================================================
