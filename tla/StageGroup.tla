----------------------------- MODULE StageGroup -----------------------------
(***************************************************************************)
(* The process group of an evaluator stage (evaluator_run.py): the         *)
(* supervisor holds the stage's leader unreaped until the whole group is   *)
(* gone, so that killpg needs no identity; a supervisor that is lost       *)
(* leaves the receipt stage-process.json, and no stage is started while    *)
(* the group it names has members.                                         *)
(*                                                                         *)
(* The writer lease, held by the supervisor and the leader, is modelled in *)
(* EvaluatorRun.                                                           *)
(***************************************************************************)
EXTENDS ProcessTable, Sequences

VARIABLES
    receipt,    \* stage-process.json: the pid of the group, and its status
    sup,        \* where the supervisor is
    stage,      \* the pid it started
    launched,   \* stages started so far
    moves,      \* what the processes have done by themselves
    hit         \* whether a signal has reached another program

CONSTANTS MaxMoves,   \* bound: moves of the processes by themselves
          Programs    \* what the stages run, in order; bound: stages started

\* Pids are numbers other than those of init and of the runner, and a stage
\* is no other program.
ASSUME StageAssumption ==
    /\ Pids \subseteq Nat /\ Nobody \notin Pids /\ Runner \notin Pids
    /\ MaxBirths \in Nat
    /\ Programs \in Seq(STRING)
    /\ \A n \in DOMAIN Programs : Programs[n] \notin {"none", "stranger"}

stageVars == <<table, receipt, sup, stage, launched, moves, hit>>
NoReceipt == [pid |-> Nobody, birth |-> 0, status |-> "none"]
StageInit == /\ TableInit /\ receipt = NoReceipt /\ sup = "idle"
             /\ stage = Nobody /\ launched = 0 /\ moves = 0 /\ hit = FALSE

IsStage(p) == ~IsFree(p) /\ table[p].who # "stranger"

\* _residual_stage_group: an active receipt whose group has members, zombies
\* included; no signal is sent to a group that is only known by its number.
Residual == receipt.status = "active"
            /\ \E p \in Pids : ~IsFree(p) /\ table[p].group = receipt.pid

\* _stage_group_snapshot: our unreaped child, at the head of its own group.
IsAuthentic == /\ stage \in Pids /\ table[stage].parent = Runner
               /\ table[stage].group = stage
Active == MembersOf(stage)
-----------------------------------------------------------------------------
(* The supervisor                                                          *)

\* No stage is started beside a residual group.
LaunchStage ==
          /\ sup = "idle" /\ ~Residual /\ launched < Len(Programs)
          /\ launched' = launched + 1
          /\ \E p \in Pids, deaf \in BOOLEAN :
                /\ MayTake(p) /\ stage' = p
                /\ table' = [table EXCEPT ![p] =
                      Process(Programs[launched + 1], p, Runner, p, FALSE, deaf)]
          /\ sup' = "watch"
          /\ UNCHANGED <<receipt, moves, hit>>

\* _sample_owned: the stage is over, or is to end.
BeginCleanup == /\ sup = "watch" /\ IsAuthentic /\ sup' = "grace"
                /\ UNCHANGED <<table, receipt, stage, launched, moves, hit>>

Signal(S) == /\ table' = After(S, {})
             /\ hit' = (hit \/ \E p \in S : table[p].who = "stranger")

\* _cleanup: SIGTERM to the group that the grace period has not emptied.
TermGroup == /\ sup = "grace" /\ IsAuthentic /\ Active # {}
             /\ Signal(Hearing(Active)) /\ sup' = "termed"
             /\ UNCHANGED <<receipt, stage, launched, moves>>

\* Three seconds later, SIGKILL.
KillGroup == /\ sup = "termed" /\ IsAuthentic /\ Active # {}
             /\ Signal(Active) /\ sup' = "grace"
             /\ UNCHANGED <<receipt, stage, launched, moves>>

\* Bug: the leader is reaped before its group is empty.
ReapLeader_First ==
    /\ sup \in {"grace", "termed"} /\ IsAuthentic /\ table[stage].zombie
    /\ table' = After({}, {stage})
    /\ sup' = "mark"
    /\ UNCHANGED <<receipt, stage, launched, moves, hit>>

\* _cleanup: the leader is reaped once no member of its group can fork.
ReapLeader ==
    /\ sup \in {"grace", "termed"} /\ IsAuthentic /\ Active = {}
    /\ table' = After({}, {stage})
    /\ sup' = "mark"
    /\ UNCHANGED <<receipt, stage, launched, moves, hit>>

\* _mark_group_cleaned
MarkCleaned ==
    /\ sup = "mark" /\ sup' = "idle"
    /\ receipt' = IF receipt.pid = stage
                  THEN [receipt EXCEPT !.status = "cleaned"] ELSE receipt
    /\ UNCHANGED <<table, stage, launched, moves, hit>>

\* The supervisor is killed: its stage is an orphan.
SupervisorDies ==
    /\ sup \notin {"idle", "lost"} /\ sup' = "lost"
    /\ table' = [p \in Pids |->
          IF table[p].parent # Runner THEN table[p]
          ELSE IF table[p].zombie THEN Free(table[p].birth)
          ELSE [table[p] EXCEPT !.parent = Nobody]]
    /\ UNCHANGED <<receipt, stage, launched, moves, hit>>

\* Another takes the lease, once the leader of the last stage has ended.
Restart == /\ sup = "lost" /\ ~(IsLive(stage) /\ IsStage(stage))
           /\ sup' = "idle"
           /\ UNCHANGED <<table, receipt, stage, launched, moves, hit>>
-----------------------------------------------------------------------------
(* The stage and other programs                                            *)

Registered(p) == receipt = [pid |-> p, birth |-> table[p].birth,
                            status |-> "active"]

\* _register_stage_group: before the leader creates any child.
Register(p) ==
    /\ IsLive(p) /\ IsStage(p) /\ table[p].group = p /\ ~Residual
    /\ receipt' = [pid |-> p, birth |-> table[p].birth, status |-> "active"]
    /\ UNCHANGED <<table, sup, stage, launched, moves, hit>>

Others ==
    /\ moves < MaxMoves /\ moves' = moves + 1
    /\ \/ \E p, q \in Pids : /\ table[p].group = p => Registered(p)
                             /\ Fork(p, q)
       \/ \E p \in Pids : Exit(p) \/ ReapChild(p) \/ Reuse(p)
    /\ UNCHANGED <<receipt, sup, stage, launched, hit>>

StageNext == \/ LaunchStage \/ BeginCleanup \/ TermGroup \/ KillGroup \/ ReapLeader
             \/ MarkCleaned \/ SupervisorDies \/ Restart \/ Others
             \/ \E p \in Pids : Register(p)

StageSpec == StageInit /\ [][StageNext]_stageVars
-----------------------------------------------------------------------------
(* Properties                                                              *)

\* killpg never reaches a process of another program: the leader is held as a
\* zombie while its group has members (_cleanup).
OnlyTheGroupIsSignalled == ~hit

\* Two stages never run at once, whatever supervisor is lost: the receipt and
\* _residual_stage_group.
StagesNeverOverlap ==
    \A p, q \in Pids : IsLive(p) /\ IsLive(q) /\ IsStage(p) /\ IsStage(q)
                       => table[p].who = table[q].who

StageGroupsAreExclusive == OnlyTheGroupIsSignalled /\ StagesNeverOverlap
=============================================================================
