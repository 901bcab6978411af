--------------------------- MODULE TeacherLedger ----------------------------
(***************************************************************************)
(* The generate stage of an evaluator run with a recovery policy: one      *)
(* worker plays trajectories (evaluator_data.py), asks the teacher for     *)
(* every sampled position through a transactional ledger of tasks          *)
(* (evaluator_ledger.py), commits shards and receipts, drains the queue of *)
(* hard tasks, and freezes the dataset; a dataset that covers too little   *)
(* is archived under a journal and supplemented once (_prepare_recovery in *)
(* evaluator_run.py).  The worker may die between any two writes.          *)
(*                                                                         *)
(* A trajectory is a number of plies, fewer when its moves lead to the end *)
(* of the game; at FocusPly the weaker player's deviation is an optional   *)
(* task as well.  A ledger transaction is one action; seconds are the      *)
(* units in which the policy reserves time.                                *)
(***************************************************************************)
EXTENDS Naturals, FiniteSets

CONSTANTS
    Games,              \* config games: the planned trajectories
    Supplement,         \* maximum_supplemental_games
    Plies,              \* max_plies
    FocusPly,           \* the ply with an optional deviation
    AttemptSeconds,     \* maximum_attempt_seconds
    TaskSeconds,        \* maximum_task_seconds
    HardAttempts,       \* maximum_hard_attempts
    HardSeconds,        \* maximum_hard_seconds
    WorkerRestarts,     \* maximum_worker_restarts
    ReceiptQuotas,      \* what coverage may ask of the committed games
    ManifestQuotas,     \* and of the games of a dataset
    MaxDeaths           \* bound: deaths of the worker

ASSUME LedgerAssumption ==
    /\ {Games, Plies, AttemptSeconds} \subseteq Nat \ {0}
    /\ {Supplement, FocusPly, TaskSeconds, HardAttempts, HardSeconds,
        WorkerRestarts, MaxDeaths} \subseteq Nat
    /\ ReceiptQuotas \union ManifestQuotas \subseteq Nat

Maximum == 2    \* attempts of a task, over every process that ever ran
AllGames == 1..(Games + Supplement)
Branches == {"root", "focus"}
Tasks == AllGames \X (1..Plies) \X Branches
TaskStates == {"absent", "running", "accepted", "ended", "hard", "deferred",
               "failed"}
Labelled == {"accepted", "ended"}    \* accepted, with a move or a terminal
Closed == Labelled \union {"deferred", "failed"}
Unknown == AttemptSeconds            \* elapsed_s missing: the whole attempt
\* A row of the table: the number of attempts, and while another one may
\* follow, whether the last was hard, whether its time is still reserved,
\* the seconds of the first and whether it fell short of its depth.
Rows == [status : TaskStates, tried : 0..Maximum, hard : BOOLEAN,
         reserved : BOOLEAN, seconds : 0..AttemptSeconds, short : BOOLEAN]
NewRow == [status |-> "absent", tried |-> 0, hard |-> FALSE,
           reserved |-> FALSE, seconds |-> 0, short |-> FALSE]
NoDataset == {}

VARIABLES
    task,       \* the tasks table: status and attempts
    counters,   \* the counters table
    cursor,     \* the checkpoints table: ply of each game, 0 without a row
    shard,      \* games with a .json.gz
    receipt,    \* games with a .receipt.json
    dirs,       \* datasets by directory, as the set of their source games
    journal,    \* manifest-supplement.json
    stop,       \* STOP
    worker,     \* the generate stage's process
    quota,      \* coverage of the receipts, and of a manifest, asks for these
    length,     \* the ply at which the moves of a game end it, if they do
    deaths,     \* bound
    spent       \* history: seconds the teacher really searched hard requests

db == <<task, counters, cursor>>
disk == <<shard, receipt, dirs, journal>>
given == <<quota, length>>    \* what the data decides, once and for all
vars == <<db, disk, stop, worker, given, deaths, spent>>

NoJournal == [phase |-> "none", manifest |-> {}]
Idle == [pc |-> "dead", phase |-> "main", queue |-> {}, round |-> 0,
         game |-> 1, ply |-> 1, branch |-> "root", again |-> FALSE,
         forced |-> FALSE]

Init ==
    /\ task = [t \in Tasks |-> NewRow]
    /\ counters = [attempts |-> 0, seconds |-> 0, restarts |-> 0]
    /\ cursor = [g \in AllGames |-> 0]
    /\ shard = {} /\ receipt = {}
    /\ dirs = [generated |-> {}, dataset |-> {}, oldGenerated |-> {},
               oldDataset |-> {}]
    /\ journal = NoJournal
    /\ quota \in [receipts : ReceiptQuotas, manifest : ManifestQuotas]
    /\ length \in [AllGames -> 2..(Plies + 1)]
    /\ stop = FALSE /\ worker = Idle /\ deaths = 0 /\ spent = 0
-----------------------------------------------------------------------------
(* The ledger                                                              *)

Current == <<worker.game, worker.ply, worker.branch>>
Status(t) == task[t].status
Tried(t) == task[t].tried
Close(row, status) == [NewRow EXCEPT !.status = status, !.tried = row.tried]
SetTask(t, status) == task' = [task EXCEPT ![t] = Close(@, status)]

\* A request is a hard one when an earlier one fell short of its depth.
IsHard(t) == task[t].short

\* begin: attempts, the task's time with unknown seconds in full, and for a
\* hard request the queue's attempts and seconds.
BudgetIsLeft(t) ==
    /\ Tried(t) < Maximum
    /\ task[t].seconds + AttemptSeconds <= TaskSeconds
    /\ IsHard(t) => /\ counters.attempts < HardAttempts
                    /\ counters.seconds + AttemptSeconds <= HardSeconds

\* begin: the attempt is charged, and its time reserved, before the request.
Charged(row) ==
    [row EXCEPT !.status = "running", !.tried = @ + 1, !.hard = row.short,
                !.reserved = row.short,
                !.seconds = IF row.tried = 0 THEN Unknown ELSE @]
Begin(t) ==
    /\ task' = [task EXCEPT ![t] = Charged(@)]
    /\ counters' = IF IsHard(t)
                   THEN [counters EXCEPT !.attempts = @ + 1,
                                         !.seconds = @ + AttemptSeconds]
                   ELSE counters

\* finish: the answer's own time replaces the reservation, once.
Missed(row, elapsed, short) ==
    [row EXCEPT !.status = "hard", !.hard = FALSE, !.reserved = FALSE,
                !.seconds = elapsed, !.short = short]
Finish(t, status, short, elapsed) ==
    /\ task' = [task EXCEPT ![t] = IF status \in Closed THEN Close(@, status)
                                  ELSE Missed(@, elapsed, short)]
    /\ counters' = IF task[t].reserved
                   THEN [counters EXCEPT !.seconds =
                            @ + elapsed - AttemptSeconds]
                   ELSE counters
-----------------------------------------------------------------------------
(* One trajectory: _generate_group for one game                            *)

Go(pc) == worker' = [worker EXCEPT !.pc = pc]
Ends(why) == worker' = [Idle EXCEPT !.pc = why]
NextGame(g) == worker' = [worker EXCEPT !.pc = "next", !.queue = @ \ {g}]
GoOn(w) == [w EXCEPT !.pc = "ply", !.ply = @ + 1, !.branch = "root",
                     !.again = FALSE]

\* The next game of the queue, whose order is that of the numbers in a pass
\* and that of the families in a drain: a receipt ends it, a checkpoint
\* places it.
TakeGame ==
    /\ worker.pc = "next"
    /\ \E g \in worker.queue :
          IF g \in receipt THEN NextGame(g)
          ELSE worker' = [worker EXCEPT !.pc = "ply", !.game = g,
                             !.ply = IF cursor[g] = 0 THEN 1 ELSE cursor[g],
                             !.branch = "root", !.again = FALSE]
    /\ UNCHANGED <<db, disk, stop, deaths, spent, given>>

\* The head of the ply loop: the checkpoint, then STOP, then the end of the
\* game that the moves have led to.
Ply ==
    /\ worker.pc = "ply"
    /\ IF worker.ply > Plies
       THEN Go("shard") /\ cursor' = cursor
       ELSE /\ cursor' = [cursor EXCEPT ![worker.game] = worker.ply]
            /\ IF stop THEN Ends("dead")
               ELSE IF worker.ply = length[worker.game] THEN Go("shard")
               ELSE Go("observe")
    /\ UNCHANGED <<task, counters, disk, stop, deaths, spent, given>>

\* What follows an answer that is in the ledger.
Answered(status) ==
    IF worker.branch = "root" /\ status = "ended" THEN Go("shard")
    ELSE IF worker.branch = "root" /\ worker.ply = FocusPly
    THEN worker' = [worker EXCEPT !.pc = "observe", !.branch = "focus"]
    ELSE worker' = GoOn(worker)

\* DeferredTaskError: a root leaves its game, a focus is tried once more and
\* then recorded as unlabelled (_optional_focus_observation).
Deferred == IF worker.branch = "root" THEN NextGame(worker.game)
            ELSE IF ~worker.again
            THEN worker' = [worker EXCEPT !.pc = "observe", !.again = TRUE]
            ELSE worker' = GoOn(worker)

\* _ledger_observation up to the request.
Observe ==
    /\ worker.pc = "observe"
    /\ LET t == Current IN
       \/ /\ Status(t) \in Labelled
          /\ UNCHANGED <<task, counters>> /\ Answered(Status(t))
       \/ /\ Status(t) = "deferred"
          /\ UNCHANGED <<task, counters>> /\ Deferred
       \/ /\ Status(t) \notin Labelled \union {"deferred"} /\ ~BudgetIsLeft(t)
          /\ SetTask(t, "deferred") /\ UNCHANGED counters /\ Deferred
       \/ /\ Status(t) \notin Labelled \union {"deferred"} /\ BudgetIsLeft(t)
          /\ Begin(t) /\ Go("ask")
    /\ UNCHANGED <<cursor, disk, stop, deaths, spent, given>>

\* The time a hard request took, whatever became of it.
Searched(seconds) ==
    spent' = IF task[Current].hard THEN spent + seconds ELSE spent

\* _ledger_observation: a complete answer, with a move or a valid terminal.
Accept ==
    /\ worker.pc = "ask"
    /\ \E s \in 1..AttemptSeconds, r \in Labelled :
          /\ worker.branch = "focus" => r = "accepted"
          /\ Finish(Current, r, FALSE, s) /\ Searched(s) /\ Answered(r)
    /\ UNCHANGED <<cursor, disk, stop, deaths, given>>

\* An incomplete depth or a lost teacher: hard at first, then deferred; a
\* lost teacher is restarted before the error is raised.  check_health may
\* end the stage after either.
Miss ==
    /\ worker.pc = "ask"
    /\ \E s \in 1..AttemptSeconds, o \in {"depth", "process"} :
          /\ Finish(Current, IF Tried(Current) = 1 THEN "hard" ELSE "deferred",
                    o = "depth", s)
          /\ Searched(s)
          /\ IF o = "process" THEN Go("restart") ELSE Deferred \/ Ends("failed")
    /\ UNCHANGED <<cursor, disk, stop, deaths, given>>

\* A malformed or illegal answer: its evidence has no elapsed time, so that
\* the reservation stays, and the stage fails.
Reject ==
    /\ worker.pc = "ask"
    /\ SetTask(Current, "failed")
    /\ \E s \in 1..AttemptSeconds : Searched(s)
    /\ Ends("failed")
    /\ UNCHANGED <<counters, cursor, disk, stop, deaths, given>>

\* The restart loop: each start of a teacher takes a slot of the budget.
Restart ==
    /\ worker.pc = "restart"
    /\ counters' = [counters EXCEPT !.restarts = @ + 1]
    /\ IF counters.restarts >= WorkerRestarts THEN Ends("failed")
       ELSE UNCHANGED worker \/ Ends("failed") \/ Deferred
    /\ UNCHANGED <<task, cursor, disk, stop, deaths, spent, given>>

\* The shard, then its receipt.
WriteShard ==
    /\ worker.pc = "shard"
    /\ shard' = shard \union {worker.game} /\ Go("receipt")
    /\ UNCHANGED <<db, receipt, dirs, journal, stop, deaths, spent, given>>

WriteReceipt ==
    /\ worker.pc = "receipt"
    /\ receipt' = receipt \union {worker.game} /\ NextGame(worker.game)
    /\ UNCHANGED <<db, shard, dirs, journal, stop, deaths, spent, given>>
-----------------------------------------------------------------------------
(* generate and _prepare_recovery                                          *)

Planned == 1..Games
Supplemented == (Games + 1)..(Games + Supplement)
HardRoots == {g \in AllGames : \E p \in 1..Plies : Status(<<g, p, "root">>) = "hard"}
Covered == Cardinality(receipt) >= quota.receipts

\* The stage starts: one pass over the planned games.
Launch ==
    /\ worker.pc = "dead"
    /\ stop' = FALSE
    /\ worker' = [Idle EXCEPT !.pc = "next", !.queue = Planned]
    /\ UNCHANGED <<db, disk, deaths, spent, given>>

\* _drain_hard_queue: rounds over the games with a hard root, at most one
\* round for each ply.
Rounds == Plies
Drain ==
    /\ worker.pc = "next" /\ worker.queue = {}
    /\ LET drained == HardRoots = {} \/ worker.round = Rounds
       IN worker' = IF drained
                    THEN [worker EXCEPT !.pc = "cover", !.round = 0]
                    ELSE [worker EXCEPT !.queue = HardRoots,
                                        !.round = @ + 1]
    /\ UNCHANGED <<db, disk, stop, deaths, spent, given>>

\* generate: a short or forced coverage asks for the supplemental games.
Cover ==
    /\ worker.pc = "cover"
    /\ IF \E t \in Tasks : Status(t) = "failed" THEN Ends("failed")
       ELSE IF worker.phase = "main" /\ (worker.forced \/ ~Covered)
       THEN worker' = [worker EXCEPT !.pc = "next", !.phase = "supplement",
                          !.queue = Supplemented]
       ELSE IF ~Covered THEN Ends("failed")
       ELSE Go("recover")
    /\ UNCHANGED <<db, disk, stop, deaths, spent, given>>

\* prepare: an existing dataset is verified and returned, otherwise the
\* committed games are encoded and the directory is moved into place.
PrepareGenerated ==
    /\ worker.pc \in {"recover", "again"}
    /\ worker.pc = "recover" => journal.phase = "none"
    /\ dirs.dataset = NoDataset /\ dirs.generated = NoDataset
    /\ IF shard # receipt \/ receipt = {} THEN Ends("failed") /\ dirs' = dirs
       ELSE dirs' = [dirs EXCEPT !.generated = receipt] /\ worker' = worker
    /\ UNCHANGED <<db, shard, receipt, journal, stop, deaths, spent, given>>

PrepareDataset ==
    /\ worker.pc \in {"recover", "again"}
    /\ worker.pc = "recover" => journal.phase = "none"
    /\ dirs.dataset = NoDataset /\ dirs.generated # NoDataset
    /\ dirs' = [dirs EXCEPT !.dataset = dirs.generated]
    /\ worker' = worker
    /\ UNCHANGED <<db, shard, receipt, journal, stop, deaths, spent, given>>

Covers(manifest) == Cardinality(manifest) >= quota.manifest

\* Bug: whatever dataset is there is taken for the final one.
Recover_TrustsDataset ==
    /\ worker.pc = "recover"
    /\ journal.phase # "none" \/ dirs.dataset # NoDataset
    /\ IF dirs.dataset # NoDataset THEN Go("done") /\ journal' = journal
       ELSE Go(journal.phase) /\ journal' = journal
    /\ UNCHANGED <<db, shard, receipt, dirs, stop, deaths, spent, given>>

\* _prepare_recovery: a journal of an earlier process is continued; a
\* manifest that covers enough is the result; otherwise a journal is opened.
Recover ==
    /\ worker.pc = "recover"
    /\ journal.phase # "none" \/ dirs.dataset # NoDataset
    /\ IF journal.phase # "none" THEN Go(journal.phase) /\ journal' = journal
       ELSE IF Covers(dirs.dataset) THEN Go("done") /\ journal' = journal
       ELSE /\ journal' = [phase |-> "archiving", manifest |-> dirs.dataset]
            /\ Go("archiving")
    /\ UNCHANGED <<db, shard, receipt, dirs, stop, deaths, spent, given>>

\* The two renames, each skipped when its destination is there already.
ArchiveGenerated ==
    /\ worker.pc = "archiving" /\ dirs.oldGenerated = NoDataset
    /\ dirs' = [dirs EXCEPT !.oldGenerated = dirs.generated,
                            !.generated = NoDataset]
    /\ UNCHANGED <<db, shard, receipt, journal, stop, worker, deaths, spent, given>>

ArchiveDataset ==
    /\ worker.pc = "archiving" /\ dirs.oldGenerated # NoDataset
    /\ dirs.oldDataset = NoDataset
    /\ dirs' = [dirs EXCEPT !.oldDataset = dirs.dataset, !.dataset = NoDataset]
    /\ UNCHANGED <<db, shard, receipt, journal, stop, worker, deaths, spent, given>>

\* Both are archived: the journal moves on when the manifest is the recorded
\* one, and the stage fails otherwise.
Supplementing ==
    /\ worker.pc = "archiving"
    /\ dirs.oldGenerated # NoDataset /\ dirs.oldDataset # NoDataset
    /\ IF dirs.oldDataset = journal.manifest
       THEN Go("supplementing") /\ journal' = [journal EXCEPT !.phase = "supplementing"]
       ELSE Ends("failed") /\ journal' = journal
    /\ UNCHANGED <<db, shard, receipt, dirs, stop, deaths, spent, given>>

\* Bug: the supplement begins with an empty directory of games.
Supplemental_StartsOver ==
    /\ worker.pc = "supplementing"
    /\ shard' = {} /\ receipt' = {}
    /\ worker' = IF worker.forced THEN [worker EXCEPT !.pc = "again"]
                 ELSE [Idle EXCEPT !.pc = "next", !.queue = Planned,
                                   !.forced = TRUE]
    /\ UNCHANGED <<db, dirs, journal, stop, deaths, spent, given>>

\* Bug: the open journal asks for the supplement again and again.
Supplemental_Repeats ==
    /\ worker.pc = "supplementing"
    /\ worker' = [Idle EXCEPT !.pc = "next", !.queue = Planned,
                              !.forced = TRUE]
    /\ UNCHANGED <<db, disk, stop, deaths, spent, given>>

\* The supplemental generation, unless this process has just done it.
Supplemental ==
    /\ worker.pc = "supplementing"
    /\ worker' = IF worker.forced THEN [worker EXCEPT !.pc = "again"]
                 ELSE [Idle EXCEPT !.pc = "next", !.queue = Planned,
                                   !.forced = TRUE]
    /\ UNCHANGED <<db, disk, stop, deaths, spent, given>>

\* The second manifest is final: it covers enough, or the stage fails.
CloseJournal ==
    /\ worker.pc = "again" /\ dirs.dataset # NoDataset
    /\ IF Covers(dirs.dataset) THEN journal' = NoJournal /\ Go("done")
       ELSE journal' = journal /\ Ends("failed")
    /\ UNCHANGED <<db, shard, receipt, dirs, stop, deaths, spent, given>>
-----------------------------------------------------------------------------
(* The environment                                                         *)

Stop == /\ worker.pc \notin {"dead", "done", "failed"} /\ ~stop
        /\ deaths < MaxDeaths /\ deaths' = deaths + 1
        /\ stop' = TRUE
        /\ UNCHANGED <<db, disk, worker, spent, given>>

\* The worker dies; an open request has used some of its time.
Die == /\ worker.pc \notin {"dead", "done", "failed"}
       /\ deaths < MaxDeaths /\ deaths' = deaths + 1
       /\ Ends("dead")
       /\ IF worker.pc = "ask"
          THEN \E s \in 0..AttemptSeconds : Searched(s) ELSE spent' = spent
       /\ UNCHANGED <<db, disk, stop, given>>

Trajectory == TakeGame \/ Ply \/ Observe \/ Accept \/ Miss \/ Reject
              \/ Restart \/ WriteShard \/ WriteReceipt
Dataset == PrepareGenerated \/ PrepareDataset \/ Recover \/ ArchiveGenerated
           \/ ArchiveDataset \/ Supplementing \/ Supplemental \/ CloseJournal
Work == Launch \/ Trajectory \/ Drain \/ Cover \/ Dataset
Finished == worker.pc \in {"done", "failed"} /\ UNCHANGED vars

Next == Work \/ Stop \/ Die \/ Finished
Spec == Init /\ [][Next]_vars /\ WF_vars(Work)
-----------------------------------------------------------------------------
(* Properties                                                              *)

Pcs == {"dead", "next", "ply", "observe", "ask", "restart", "shard", "receipt",
        "cover", "recover", "archiving", "supplementing", "again", "done",
        "failed"}

Counters == [attempts : Nat, seconds : Nat, restarts : Nat]
Directories == [generated : SUBSET AllGames, dataset : SUBSET AllGames,
                oldGenerated : SUBSET AllGames, oldDataset : SUBSET AllGames]
Journals == [phase : {"none", "archiving", "supplementing"},
             manifest : SUBSET AllGames]
Workers == [pc : Pcs, phase : {"main", "supplement"}, queue : SUBSET AllGames,
            round : 0..Rounds, game : AllGames, ply : 1..(Plies + 1),
            branch : Branches, again : BOOLEAN, forced : BOOLEAN]

TypeOK ==
    /\ task \in [Tasks -> Rows]
    /\ counters \in Counters
    /\ cursor \in [AllGames -> 0..Plies]
    /\ shard \subseteq AllGames /\ receipt \subseteq AllGames
    /\ dirs \in Directories /\ journal \in Journals
    /\ quota \in [receipts : ReceiptQuotas, manifest : ManifestQuotas]
    /\ length \in [AllGames -> 2..(Plies + 1)]
    /\ stop \in BOOLEAN /\ deaths \in 0..MaxDeaths /\ spent \in Nat
    /\ worker \in Workers

(* Every budget is cumulative over retries, drains and processes: hard     *)
(* requests, the time they reserve, and restarts of the teacher, of which  *)
(* a process that finds the budget spent still counts one (Ledger.begin,   *)
(* Ledger.increment).                                                      *)
BudgetsHold ==
    /\ counters.attempts <= HardAttempts /\ counters.seconds <= HardSeconds
    /\ counters.restarts <= WorkerRestarts + 1 + deaths

(* The hard time on the books is never less than the time really searched, *)
(* although a worker that dies reports none.                               *)
HardTimeIsCharged == spent <= counters.seconds

(* A checkpoint, and a receipt, stand on accepted answers: the trajectory  *)
(* up to the cursor can be replayed without asking the teacher again.      *)
CursorIsBacked ==
    \A g \in AllGames :
        /\ \A p \in 1..Plies : p < cursor[g] => Status(<<g, p, "root">>) = "accepted"
        /\ g \in receipt => /\ g \in shard
                            /\ cursor[g] > 0
                            /\ \/ cursor[g] = length[g]
                               \/ Status(<<g, cursor[g], "root">>) \in Labelled

(* The drain leaves no hard root behind: one round per ply is enough.      *)
QueueIsDrained ==
    worker.pc \in {"cover", "recover", "archiving", "supplementing", "again",
                   "done"} => HardRoots = {}

(* The dataset a finished stage hands on is made of every committed game   *)
(* and covers enough, with the first attempt either kept or never made.    *)
FinalDatasetIsWhole ==
    worker.pc = "done" =>
        /\ dirs.dataset = receipt /\ shard = receipt /\ journal = NoJournal
        /\ Covers(dirs.dataset)

(* While the journal is open the manifest it names is never lost, wherever *)
(* the worker died between the two renames.                                *)
ManifestIsKept ==
    journal.phase # "none" =>
        journal.manifest \in {dirs.oldDataset}
            \union IF journal.phase = "archiving" THEN {dirs.dataset} ELSE {}

(* Whatever dies between two writes, budgets, checkpoints, queue, dataset   *)
(* and journal agree (evaluator_ledger.py, evaluator_data.py).              *)
LedgerIsSound ==
    /\ TypeOK /\ BudgetsHold /\ HardTimeIsCharged /\ CursorIsBacked /\ QueueIsDrained
    /\ FinalDatasetIsWhole /\ ManifestIsKept

(* An accepted answer is never asked again, charged again or changed.      *)
AnswersArePermanent ==
    [][\A t \in Tasks : Status(t) \in Labelled => task'[t] = task[t]]_vars

(* A committed game and an archived manifest stay as they are.             *)
CommitsArePermanent ==
    [][/\ receipt \subseteq receipt'
       /\ dirs.oldDataset # NoDataset => dirs'.oldDataset = dirs.oldDataset]_vars

(* What was paid for is kept: answers, committed games and the archive.    *)
LedgerIsPermanent == AnswersArePermanent /\ CommitsArePermanent

(* Retries, drains, supplements and relaunches are finite: the stage ends. *)
GenerationEnds == <>(worker.pc \in {"done", "failed"})
=============================================================================
