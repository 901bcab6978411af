---- MODULE MCRunTools ----
(***************************************************************************)
(* Small instances of the modules about commands, runs and evaluations.    *)
(* Every behaviour is of one part; only ProcessTable is of two.            *)
(* The variables of ArenaReport and EvaluatorArena are v1, v2, ... in the  *)
(* order of their INSTANCE; the other parts have their own variables here. *)
(***************************************************************************)
EXTENDS Naturals, Sequences, TLC, CommandProcess, StageGroup, CommandRuntime, EngineBuild, OfficialEvaluation, RunRevisions, C4Iteration

CONSTANTS
    Parts   \* the parts to check

VARIABLES
    part,   \* the part this behaviour is of
    \* the variables of that part; those it does not use stay 0
    v1, v2, v3, v4, v5

all == <<part, v1, v2, v3, v4, v5, commandVars, stageVars, runtimeVars, buildVars,
evaluationVars, revisionVars, iterationVars>>

\* The build inputs of the commits: two have the same.
CommitTrees == <<1, 1, 2>>
\* What the stages run.
StagePrograms == <<"first", "second">>

\* The worst loss of the official player at each ply of each game.
Severities == <<1, 1>> :> 3 @@ <<1, 2>> :> 0 @@ <<2, 1>> :> 2 @@ <<2, 2>> :> 2

\* The pairs of games an arena can bring: clean, with a flaw the report must
\* find, with an illegal move, and with little work of one engine.
Doing(flaw, illegal, aw, at, bw, bt) ==
    [flaw |-> flaw, illegal |-> illegal, work |-> [a |-> aw, b |-> bw],
     time |-> [a |-> at, b |-> bt]]
Plain == Doing("none", 0, 2, 1, 2, 1)
Plays ==
    <<{Plain, Doing("unswapped", 0, 2, 1, 2, 1)},
      {Plain, Doing("miscounted", 0, 2, 1, 2, 1), Doing("miscredited", 0, 1, 1, 4, 1)},
      {Plain, Doing("none", 1, 2, 1, 2, 1), Doing("none", 0, 1, 1, 6, 1)}>>
Policy ==
    [promoteScore |-> 55, promoteWilson |-> 50, rejectScore |-> 45, rejectWilson |-> 50,
     minGroupScore |-> 80, maxSideGap |-> 40, minGames |-> 6, minDecisive |-> 3,
     minGroupGames |-> 2, maxIllegal |-> 0, maxCrashes |-> 0, requireMetrics |-> TRUE,
     maxSlowdown |-> 150]
Policies ==
    {Policy, [Policy EXCEPT !.promoteScore = 40, !.promoteWilson = 0, !.rejectScore = 10,
                            !.minGroupScore = 0]}

AR == INSTANCE ArenaReport WITH
    Jobs <- 1..3, Group <- <<"initial", "start_set", "start_set">>, Menu <- Plays,
    ReportsProofs <- FALSE, MaxFailures <- 1, Policies <- Policies,
    attempts <- v1, results <- v2, analysis <- v3, decision <- v4

EA == INSTANCE EvaluatorArena WITH
    Games <- 3, Evaluated <- 2, Clock <- 2, Share <- 2, MaxPlies <- 2, MaxWall <- 5,
    Mixed <- TRUE, MaxFaults <- 1,
    attempts <- v1, result <- v2, proc <- v3, stop <- v4, faults <- v5

Init ==
    /\ part \in Parts
    /\ CommandInit
    /\ StageInit
    /\ RuntimeInit
    /\ BuildInit
    /\ part # "build" => buildHead = 1
    /\ EvaluationInit
    /\ RevisionsInit
    /\ part # "revisions" => config.kind = "c4"
    /\ IterationInit
    /\ \/ /\ part = "process"
          /\ v1 = 0 /\ v2 = 0 /\ v3 = 0 /\ v4 = 0 /\ v5 = 0
       \/ /\ part = "stage"
          /\ v1 = 0 /\ v2 = 0 /\ v3 = 0 /\ v4 = 0 /\ v5 = 0
       \/ /\ part = "command"
          /\ v1 = 0 /\ v2 = 0 /\ v3 = 0 /\ v4 = 0 /\ v5 = 0
       \/ /\ part = "build"
          /\ v1 = 0 /\ v2 = 0 /\ v3 = 0 /\ v4 = 0 /\ v5 = 0
       \/ /\ part = "official"
          /\ v1 = 0 /\ v2 = 0 /\ v3 = 0 /\ v4 = 0 /\ v5 = 0
       \/ /\ part = "report" /\ AR!Init
          /\ v5 = 0
       \/ /\ part = "arena" /\ EA!Init
       \/ /\ part = "revisions"
          /\ v1 = 0 /\ v2 = 0 /\ v3 = 0 /\ v4 = 0 /\ v5 = 0
       \/ /\ part = "iteration"
          /\ v1 = 0 /\ v2 = 0 /\ v3 = 0 /\ v4 = 0 /\ v5 = 0

Next ==
    /\ UNCHANGED part
    /\ \/ /\ part = "process" /\ CommandNext
          /\ UNCHANGED <<v1, v2, v3, v4, v5, receipt, sup, stage, launched, moves,
             hit, runtimeVars, buildVars, evaluationVars, revisionVars,
             iterationVars>>
       \/ /\ part = "stage" /\ StageNext
          /\ UNCHANGED <<v1, v2, v3, v4, v5, where, supervision, moved, mistaken,
             heirs, runtimeVars, buildVars, evaluationVars, revisionVars,
             iterationVars>>
       \/ /\ part = "command" /\ RuntimeNext
          /\ UNCHANGED <<v1, v2, v3, v4, v5, commandVars, stageVars, buildVars,
             evaluationVars, revisionVars, iterationVars>>
       \/ /\ part = "build" /\ BuildNext
          /\ UNCHANGED <<v1, v2, v3, v4, v5, commandVars, stageVars, runtimeVars,
             evaluationVars, revisionVars, iterationVars>>
       \/ /\ part = "official" /\ EvaluationNext
          /\ UNCHANGED <<v1, v2, v3, v4, v5, commandVars, stageVars, runtimeVars,
             buildVars, revisionVars, iterationVars>>
       \/ /\ part = "report" /\ AR!Next
          /\ UNCHANGED <<v5, commandVars, stageVars, runtimeVars, buildVars,
             evaluationVars, revisionVars, iterationVars>>
       \/ /\ part = "arena" /\ EA!Next
          /\ UNCHANGED <<commandVars, stageVars, runtimeVars, buildVars,
             evaluationVars, revisionVars, iterationVars>>
       \/ /\ part = "revisions" /\ RevisionsNext
          /\ UNCHANGED <<v1, v2, v3, v4, v5, commandVars, stageVars, runtimeVars,
             buildVars, evaluationVars, iterationVars>>
       \/ /\ part = "iteration" /\ IterationNext
          /\ UNCHANGED <<v1, v2, v3, v4, v5, commandVars, stageVars, runtimeVars,
             buildVars, evaluationVars, revisionVars>>

Spec == Init /\ [][Next]_all

(* What decides about the challenger of an arena is what was played, whoever   *)
(* had which colour, and is decided upon (selfplay/arena.py).                  *)
EvidenceIsSound == part = "report" => AR!EvidenceIsSound

(* A promoted challenger would not be promoted with the roles exchanged, and   *)
(* won overall and from either kind of start (arena.py, selfplay/config.py).   *)
PromotionIsOneSided == part = "report" => AR!PromotionIsOneSided

(* Retries of an arena are bounded over restarts, a game is one game however   *)
(* often it was stopped, adoption rests on all attempts, and no receipt is     *)
(* lost (evaluator_arena.py).                                                  *)
ArenaIsSound ==
    /\ [](part = "arena" => EA!ArenaIsSound)
    /\ [][part = "arena" => EA!NothingIsForgotten]_all
============================================================
