------------------------------ MODULE C4Games ------------------------------
(***************************************************************************)
(* The games of one C4 generation (r4_c4_data.py, generate and Teacher):   *)
(* each ply may ask the teacher for labels through a ledger that allows    *)
(* two attempts per task, the cursor of the game is saved after each ply,  *)
(* and a finished game becomes a shard and then a receipt.  The process    *)
(* may be killed between any two writes and is run again from the top.     *)
(*                                                                         *)
(* Searches are deterministic, so what a ply may ask is fixed; what the    *)
(* teacher answers is not.  The positions after a strong root are left     *)
(* out: they are asked for and entered as the root is.                     *)
(***************************************************************************)
EXTENDS Naturals, Sequences, FiniteSets

CONSTANTS
    PlannedGames,   \* spec.games
    Plies,          \* max_plies
    SampledPlies,   \* the plies on the sample stride
    TeacherPlies,   \* the plies at which the teacher plays, by game
    StrongPlies,    \* the plies that call for strong labels (swing, random)
    Contested,      \* those where a scored label differs from the actor's move
    StrongRoots,    \* strong_roots_per_game
    MaxExits,       \* maximum_worker_exits
    Streak,         \* consecutive failures that are systemic (4)
    MaxKills        \* bound: kills of the process

GameIds == 1..PlannedGames
Tasks == GameIds \X (1..Plies) \X {"broad", "strong"}
\* What the teacher answers: a score or a mate, or a claim to end the game,
\* with a score or without.
Answers == {"cp", "mate", "claim_cp", "claim"}
Slots == 2

VARIABLES
    task,      \* the ledger: status, attempts and result of every task
    exits,     \* the ledger's worker_exits
    closed,    \* how the last Streak tasks were closed, in order
    cursor,    \* the ledger's checkpoints
    shard,     \* game-NNNNNN.json.gz
    receipt,   \* game-NNNNNN.json.receipt.json
    report,    \* result.json
    proc,      \* the process: where it is, its game and its working copy
    kills

ledger == <<task, exits, closed>>
outputs == <<shard, receipt, report>>
vars == <<ledger, cursor, outputs, proc, kills>>

Fresh == [ply |-> 0, rows |-> <<>>, strong |-> 0, outcome |-> "none"]
NoShard == [made |-> FALSE, saved |-> Fresh]
NoReport == [made |-> FALSE, games |-> 0, rows |-> 0]
Idle == [pc |-> "down", game |-> 1, saved |-> Fresh, kind |-> "broad",
         label |-> "none", games |-> 0, rows |-> 0]

Init ==
    /\ task = [k \in Tasks |-> [status |-> "pending", attempts |-> 0, result |-> "none"]]
    /\ exits = 0 /\ closed = <<>>
    /\ cursor = [g \in GameIds |-> Fresh] /\ shard = [g \in GameIds |-> NoShard]
    /\ receipt = [g \in GameIds |-> FALSE] /\ report = NoReport
    /\ proc = Idle /\ kills = 0

Go(pc) == proc' = [proc EXCEPT !.pc = pc]
Key == <<proc.game, proc.saved.ply + 1, proc.kind>>

\* generate, from the top.
Launch ==
    /\ proc.pc = "down" /\ ~report.made
    /\ proc' = [Idle EXCEPT !.pc = "game"]
    /\ UNCHANGED <<ledger, cursor, outputs, kills>>

\* Bug: only the games finished by this process are counted.
OpenGame_Uncounted ==
    /\ proc.pc = "game" /\ proc.game <= PlannedGames
    /\ LET g == proc.game
       IN proc' = IF receipt[g] THEN [proc EXCEPT !.game = @ + 1]
                  ELSE [proc EXCEPT !.pc = "ply", !.saved = cursor[g]]
    /\ UNCHANGED <<ledger, cursor, outputs, kills>>

\* A game with a receipt is counted and skipped, another one goes on at its cursor.
OpenGame ==
    /\ proc.pc = "game" /\ proc.game <= PlannedGames
    /\ LET g == proc.game
       IN proc' = IF receipt[g]
                  THEN [proc EXCEPT !.game = @ + 1, !.games = @ + 1,
                                    !.rows = @ + Len(shard[g].saved.rows)]
                  ELSE [proc EXCEPT !.pc = "ply", !.saved = cursor[g]]
    /\ UNCHANGED <<ledger, cursor, outputs, kills>>

\* The next ply asks for its broad label if it is sampled or the teacher's,
\* unless the game is over.
IsSampled(ply) == ply \in SampledPlies
IsTeachers(g, ply) == ply \in TeacherPlies[g]
NextPly ==
    /\ proc.pc = "ply"
    /\ LET ply == proc.saved.ply + 1
       IN proc' = IF ply > Plies \/ proc.saved.outcome # "none"
                  THEN [proc EXCEPT !.pc = "shard"]
                  ELSE IF IsSampled(ply) \/ IsTeachers(proc.game, ply)
                  THEN [proc EXCEPT !.pc = "ask", !.kind = "broad"]
                  ELSE [proc EXCEPT !.pc = "labelled", !.kind = "broad", !.label = "none"]
    /\ UNCHANGED <<ledger, cursor, outputs, kills>>

-----------------------------------------------------------------------------
(* Teacher.observe                                                         *)

\* The last closed tasks all failed in the engine, on different positions.
Systemic ==
    /\ Len(closed) = Streak
    /\ \A i \in 1..Streak : closed[i].how = "error"
    /\ \E i, j \in 1..Streak : closed[i].at # closed[j].at

\* _health
Healthy == exits <= MaxExits /\ ~Systemic

Close(how) ==
    LET all == Append(closed, [at |-> <<Key[1], Key[2]>>, how |-> how])
    IN closed' = IF Len(all) > Streak THEN Tail(all) ELSE all

Labelled(label) == proc' = [proc EXCEPT !.pc = "labelled", !.label = label]

\* A closed task is answered from the ledger.
Known == task[Key].status \in {"accepted", "deferred"}

AskLedger ==
    /\ proc.pc = "ask" /\ Known /\ Labelled(task[Key].result)
    /\ UNCHANGED <<ledger, cursor, outputs, kills>>

\* Ledger.begin reserves one of the two slots before the engine is asked.
Begin ==
    /\ proc.pc = "ask" /\ ~Known
    /\ IF ~Healthy THEN Go("failed") /\ UNCHANGED ledger
       ELSE IF task[Key].attempts >= Slots
       THEN /\ task' = [task EXCEPT ![Key].status = "deferred", ![Key].result = "none"]
            /\ Close("interrupted") /\ Labelled("none") /\ UNCHANGED exits
       ELSE /\ task' = [task EXCEPT ![Key].status = "running", ![Key].attempts = @ + 1]
            /\ Go("asking") /\ UNCHANGED <<exits, closed>>
    /\ UNCHANGED <<cursor, outputs, kills>>

\* terminal_signal: a resignation or declaration may come with a candidate; one
\* that the rules do not confirm counts like any other answer.
Answer ==
    /\ proc.pc = "asking"
    /\ \E value \in Answers :
          /\ task' = [task EXCEPT ![Key].status = "accepted", ![Key].result = value]
          /\ Labelled(value)
    /\ Close("accepted")
    /\ UNCHANGED <<exits, cursor, outputs, kills>>

\* A protocol error, a timeout or the engine's exit: the second slot is used at
\* once, then the label is missing.
Fails ==
    /\ proc.pc = "asking"
    /\ \E gone \in {0, 1} : exits' = exits + gone
    /\ IF task[Key].attempts < Slots
       THEN /\ task' = [task EXCEPT ![Key].status = "pending", ![Key].result = "missing"]
            /\ UNCHANGED closed
            /\ Go(IF exits' <= MaxExits /\ ~Systemic THEN "ask" ELSE "failed")
       ELSE /\ task' = [task EXCEPT ![Key].status = "deferred", ![Key].result = "missing"]
            /\ Close("error")
            /\ IF exits' <= MaxExits /\ ~Systemic' THEN Labelled("none") ELSE Go("failed")
    /\ UNCHANGED <<cursor, outputs, kills>>

\* The engine ran out of memory: the run waits for resources and begins again.
OutOfMemory ==
    /\ proc.pc = "asking" /\ kills < MaxKills /\ kills' = kills + 1
    /\ task' = [task EXCEPT ![Key].status = "pending"]
    /\ proc' = Idle
    /\ UNCHANGED <<exits, closed, cursor, outputs>>

-----------------------------------------------------------------------------
(* The ply goes on with its label.                                         *)

\* scalar and row: a centipawn score of a sampled ply, the claim's included.
IsScored(label) == label \in {"cp", "claim_cp"}
Row(label) ==
    IF IsSampled(proc.saved.ply + 1) /\ IsScored(label) THEN <<Key>> ELSE <<>>

\* player_outcome: a claim of the teacher ends the game it plays.
TeacherEnds ==
    /\ IsTeachers(proc.game, proc.saved.ply + 1) /\ proc.label \in {"claim", "claim_cp"}

\* strong_budget: the plies of a phase share a part of the strong roots.
StrongAllowed == proc.saved.strong < StrongRoots

WantsStrong ==
    LET ply == proc.saved.ply + 1
    IN /\ proc.kind = "broad" /\ IsSampled(ply) /\ StrongAllowed
       /\ ply \in StrongPlies \/ (ply \in Contested /\ IsScored(proc.label))

\* The rows gathered so far, in the working copy only.
Gather ==
    /\ proc.pc = "labelled"
    /\ LET saved == [proc.saved EXCEPT !.rows = @ \o Row(proc.label),
                        !.strong = IF proc.kind = "strong" THEN @ + 1 ELSE @]
       IN proc' = IF proc.kind = "broad" /\ TeacherEnds
                  THEN [proc EXCEPT !.pc = "ended", !.saved = saved]
                  ELSE IF WantsStrong
                  THEN [proc EXCEPT !.pc = "ask", !.kind = "strong", !.saved = saved]
                  ELSE [proc EXCEPT !.pc = "move", !.saved = saved]
    /\ UNCHANGED <<ledger, cursor, outputs, kills>>

\* Ledger.checkpoint: after the move, or with the outcome.
Checkpoint ==
    /\ proc.pc \in {"move", "ended"}
    /\ LET saved == IF proc.pc = "move" THEN [proc.saved EXCEPT !.ply = @ + 1]
                    ELSE [proc.saved EXCEPT !.outcome = "teacher"]
       IN /\ cursor' = [cursor EXCEPT ![proc.game] = saved]
          /\ proc' = [proc EXCEPT !.pc = "ply", !.saved = saved]
    /\ UNCHANGED <<ledger, outputs, kills>>

WriteShard ==
    /\ proc.pc = "shard"
    /\ shard' = [shard EXCEPT ![proc.game] = [made |-> TRUE, saved |-> proc.saved]]
    /\ Go("receipt")
    /\ UNCHANGED <<ledger, cursor, receipt, report, kills>>

WriteReceipt ==
    /\ proc.pc = "receipt"
    /\ receipt' = [receipt EXCEPT ![proc.game] = TRUE]
    /\ proc' = [proc EXCEPT !.pc = "game", !.game = @ + 1, !.games = @ + 1,
                            !.rows = @ + Len(proc.saved.rows)]
    /\ UNCHANGED <<ledger, cursor, shard, report, kills>>

WriteReport ==
    /\ proc.pc = "game" /\ proc.game > PlannedGames
    /\ report' = [made |-> TRUE, games |-> proc.games, rows |-> proc.rows]
    /\ proc' = Idle
    /\ UNCHANGED <<ledger, cursor, shard, receipt, kills>>

\* A kill, or a STOP seen before a game or a ply.
Kill ==
    /\ proc.pc \notin {"down", "failed"} /\ kills < MaxKills /\ kills' = kills + 1
    /\ proc' = Idle
    /\ UNCHANGED <<ledger, cursor, outputs>>

Next ==
    \/ Launch \/ OpenGame \/ NextPly
    \/ AskLedger \/ Begin \/ Answer \/ Fails \/ OutOfMemory
    \/ Gather \/ Checkpoint \/ WriteShard \/ WriteReceipt \/ WriteReport \/ Kill

Spec == Init /\ [][Next]_vars

-----------------------------------------------------------------------------
\* The rows an undisturbed game would have: one for each scored label the ledger
\* holds for a sampled ply that was played, the one that ended the game too.
Played(g) == shard[g].saved.ply + (IF shard[g].saved.outcome = "none" THEN 0 ELSE 1)
LabelsOf(g) ==
    {k \in Tasks :
        /\ k[1] = g /\ task[k].status = "accepted" /\ task[k].result \in {"cp", "claim_cp"}
        /\ k[2] \in SampledPlies /\ k[2] <= Played(g)}

(* A game that was interrupted anywhere has the rows of the game that was  *)
(* not: every scored label of its sampled plies, each one once.            *)
GamesAreWhole ==
    \A g \in GameIds : receipt[g] =>
        LET rows == shard[g].saved.rows
        IN /\ shard[g].made
           /\ {rows[i] : i \in DOMAIN rows} = LabelsOf(g)
           /\ Len(rows) = Cardinality(LabelsOf(g))
           /\ shard[g].saved.strong <= StrongRoots
           /\ shard[g].saved = cursor[g]

(* No restart mints a new attempt, and the teacher is asked no more once   *)
(* its failures are systemic.                                              *)
AttemptsAreBounded ==
    /\ \A k \in Tasks : task[k].attempts <= Slots
    /\ exits <= MaxExits + 1

(* The report counts every planned game and all their rows, those of       *)
(* earlier processes included.                                             *)
RowsUpTo[n \in 0..PlannedGames] ==
    IF n = 0 THEN 0 ELSE RowsUpTo[n - 1] + Len(shard[n].saved.rows)

ReportCountsAll ==
    report.made =>
        /\ \A g \in GameIds : receipt[g]
        /\ report.games = PlannedGames /\ report.rows = RowsUpTo[PlannedGames]

\* The variables keep their types and bounds.
TypeOK ==
    /\ \A k \in Tasks : task[k].status \in {"pending", "running", "accepted", "deferred"}
    /\ proc.game \in 1..(PlannedGames + 1) /\ kills \in 0..MaxKills
    /\ \A g \in GameIds : cursor[g].ply \in 0..Plies

\* Whatever is killed, the games are whole, their attempts bounded, the report complete.
GamesAreSound == TypeOK /\ GamesAreWhole /\ AttemptsAreBounded /\ ReportCountsAll

(* A label that was accepted stays what it is; a task given up stays so.   *)
LabelsAreFinal ==
    \A k \in Tasks : task[k].status \in {"accepted", "deferred"} => task'[k] = task[k]
=============================================================================
