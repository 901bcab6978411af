------------------------ MODULE TeacherLedgerProofs -------------------------
(***************************************************************************)
(* The budgets, the checkpoints, the queue, the dataset and the journal of *)
(* a generate stage agree whatever dies between two writes, for any number *)
(* of games, plies and deaths, and what was paid for is kept.              *)
(*                                                                         *)
(* The invariant follows one game.  Its cursor separates accepted answers  *)
(* from positions nobody asked about, so that only the row at the cursor   *)
(* can be hard; a game the worker has left is settled or has such a row,   *)
(* and in round n of the drain such a row stands at ply n or later, which  *)
(* is why one round per ply is enough.  Once a dataset is frozen every     *)
(* game that a pass would look at is settled, so nothing moves under it.   *)
(*                                                                         *)
(* The other sources of games and positions, the scans of LeakageScan and  *)
(* PopulationScan, have their theorems at the end.  A scan that is killed  *)
(* and run again enters an artifact once and says nothing final before all *)
(* are in; of a population one occurrence of a position is effective, in   *)
(* the most protected split that any record gives it.                      *)
(***************************************************************************)
EXTENDS TeacherLedger, LeakageScan, PopulationScan, SequenceTheorems,
        FiniteSetTheorems, TLAPS

OnRoot(g, p) == Status(<<g, p, "root">>)

\* A game is settled when no pass asks for it again, and hard when a drain
\* does.
Parked(g) == cursor[g] > 0 /\ OnRoot(g, cursor[g]) = "deferred"
Settled(g) == g \in receipt \/ Parked(g)
Hard(g) == cursor[g] > 0 /\ OnRoot(g, cursor[g]) = "hard"

\* The whole trajectory of a game is in the ledger.
Complete(g) ==
    /\ cursor[g] > 0
    /\ \/ cursor[g] = length[g]
       \/ OnRoot(g, cursor[g]) = "ended"
       \/ (cursor[g] = Plies /\ OnRoot(g, cursor[g]) = "accepted")

Asking == worker.pc \in {"observe", "ask", "restart"}
Playing == worker.pc = "ply" \/ Asking \/ worker.pc \in {"shard", "receipt"}
Passing == Playing \/ worker.pc = "next"
Closing == worker.pc \in {"recover", "archiving", "supplementing", "again"}
InReach == IF worker.phase = "main" THEN Planned ELSE AllGames
Frozen == dirs.generated # {} \/ dirs.dataset # {}

\* A position without an answer was never charged, and a hard one has one
\* attempt left.
RowIsKept(row) == /\ row.status = "absent" => row = NewRow
                  /\ row.status = "hard" => row.tried = 1
RowsAreKept == \A t \in Tasks : RowIsKept(task[t])

\* The cursor of a game separates accepted answers from unasked positions.
GameIsPlaced(g) ==
    /\ cursor[g] <= length[g]
    /\ \A p \in 1..Plies :
        /\ p < cursor[g] => OnRoot(g, p) = "accepted"
        /\ p > cursor[g] => OnRoot(g, p) = "absent"
        /\ OnRoot(g, p) # "absent" => p < length[g]
GamesArePlaced == \A g \in AllGames : GameIsPlaced(g)

\* Before its answer a hard request has its whole time reserved.
RequestIsReserved ==
    worker.pc = "ask" =>
        /\ Status(Current) = "running"
        /\ task[Current].hard = task[Current].reserved
        /\ task[Current].reserved => spent + AttemptSeconds <= counters.seconds

BudgetIsKept ==
    /\ counters.attempts <= HardAttempts
    /\ counters.seconds <= HardSeconds
    /\ counters.restarts <= WorkerRestarts + 1
    /\ worker.pc # "failed" => counters.restarts <= WorkerRestarts
    /\ spent <= counters.seconds
    /\ RequestIsReserved

\* Where the worker stands in its game.
AtPly ==
    /\ worker.branch = "root" /\ worker.ply <= length[worker.game]
    /\ cursor[worker.game] \in {worker.ply, worker.ply - 1}
    /\ \A p \in 1..Plies : p < worker.ply => OnRoot(worker.game, p) = "accepted"
AtRequest ==
    /\ cursor[worker.game] = worker.ply /\ worker.ply < length[worker.game]
    /\ worker.branch = "focus" => OnRoot(worker.game, worker.ply) = "accepted"
WorkerIsPlaced ==
    /\ Playing => worker.game \in worker.queue /\ worker.game \notin receipt
    /\ worker.pc = "ply" => AtPly
    /\ Asking => AtRequest
    /\ worker.pc = "restart" => Status(Current) \in {"hard", "deferred"}
    /\ worker.pc \in {"shard", "receipt"} => Complete(worker.game)
    /\ worker.pc = "receipt" => worker.game \in shard

ShardsAreComplete == receipt \subseteq shard /\ \A g \in shard : Complete(g)

\* A pass leaves each of its games settled or hard, and ends with no hard one.
PassIsThorough ==
    /\ Passing => \A g \in InReach \ worker.queue : Settled(g) \/ Hard(g)
    /\ worker.pc \in {"cover", "done"} \/ Closing =>
        /\ worker.queue = {} /\ worker.round = 0 /\ HardRoots = {}
        /\ \A g \in InReach : Settled(g)

\* In a round of the drain a hard position stands at that ply or later, and
\* behind the worker later; the worker asks a second time for one at that ply.
SecondTry ==
    worker.branch = "root" /\ worker.ply <= worker.round =>
        /\ worker.pc \in {"ply", "observe"} => Hard(worker.game)
        /\ worker.pc = "ask" => Tried(Current) = 2
        /\ worker.pc = "restart" => Status(Current) = "deferred"
DrainAdvances ==
    Passing /\ worker.round > 0 =>
        /\ \A g \in worker.queue :
              \/ Playing /\ g = worker.game
              \/ Hard(g) /\ cursor[g] >= worker.round
        /\ \A g \in AllGames \ worker.queue : Hard(g) => cursor[g] > worker.round
        /\ Playing => cursor[worker.game] >= worker.round /\ SecondTry

\* While a dataset stands, a pass finds nothing to do.
DatasetIsFrozen ==
    Frozen =>
        /\ dirs.generated \in {{}, receipt} /\ dirs.dataset \in {{}, receipt}
        /\ shard = receipt /\ HardRoots = {} /\ Covered
        /\ \A g \in Planned \union worker.queue : Settled(g)
        /\ journal.phase = "supplementing" => \A g \in AllGames : Settled(g)

\* What the journal says of the directories.
Moved(old, new) == <<old, new>> \in {<<{}, journal.manifest>>,
                                     <<journal.manifest, {}>>}
DirectoriesAgree ==
    /\ journal.phase = "none" => journal = NoJournal
    /\ journal.phase = "none" /\ worker.pc # "done" =>
          dirs.oldGenerated = {} /\ dirs.oldDataset = {}
    /\ journal.phase # "none" => journal.manifest # {}
    /\ journal.phase = "archiving" =>
          /\ Moved(dirs.oldGenerated, dirs.generated)
          /\ Moved(dirs.oldDataset, dirs.dataset)
    /\ journal.phase # "archiving" /\ dirs.dataset # {} =>
          dirs.generated = dirs.dataset
    /\ journal.phase = "supplementing" => dirs.oldDataset = journal.manifest

JournalIsFollowed ==
    /\ worker.forced /\ worker.pc # "done" => journal.phase = "supplementing"
    /\ worker.forced /\ Closing => worker.phase = "supplement"
    /\ worker.pc = "again" => worker.forced
    /\ journal.phase # "none" \/ Closing => Covered
    /\ worker.pc \in {"archiving", "supplementing"} => journal.phase = worker.pc
    /\ worker.pc = "done" =>
          dirs.dataset # {} /\ Covers(dirs.dataset) /\ journal.phase = "none"

IInv ==
    /\ TypeOK /\ RowsAreKept /\ GamesArePlaced /\ BudgetIsKept /\ WorkerIsPlaced
    /\ ShardsAreComplete /\ PassIsThorough /\ DrainAdvances /\ DatasetIsFrozen
    /\ DirectoriesAgree /\ JournalIsFollowed
-----------------------------------------------------------------------------
(* The values of the model                                                 *)

LEMMA Constants ==
    /\ Games \in Nat /\ Games > 0 /\ Plies \in Nat /\ Plies > 0
    /\ AttemptSeconds \in Nat /\ AttemptSeconds > 0
    /\ Supplement \in Nat /\ FocusPly \in Nat /\ TaskSeconds \in Nat
    /\ HardAttempts \in Nat /\ HardSeconds \in Nat /\ WorkerRestarts \in Nat
    /\ MaxDeaths \in Nat /\ ReceiptQuotas \subseteq Nat
    BY LedgerAssumption

LEMMA GameSets ==
    /\ Planned \subseteq AllGames /\ Supplemented \subseteq AllGames
    /\ AllGames = Planned \union Supplemented /\ 1 \in AllGames
    BY Constants DEF Planned, Supplemented, AllGames

LEMMA IsTask ==
    ASSUME NEW g \in AllGames, NEW p \in 1..Plies, NEW b \in Branches
    PROVE  <<g, p, b>> \in Tasks
    BY DEF Tasks

LEMMA IdleIsWorker == Idle \in Workers /\ Idle.pc = "dead" /\ ~Idle.forced
                      /\ Idle.queue = {} /\ Idle.phase = "main" /\ Idle.round = 0
    BY Constants, GameSets DEF Idle, Workers, Pcs, Rounds, Branches

LEMMA RowsAreRows == NewRow \in Rows /\ NewRow.status = "absent"
    BY Constants DEF NewRow, Rows, TaskStates, Maximum
-----------------------------------------------------------------------------
(* What the steps of a worker do to its record                             *)

Keeps == /\ worker'.phase = worker.phase /\ worker'.round = worker.round
         /\ worker'.forced = worker.forced
Stays == Keeps /\ worker'.game = worker.game /\ worker'.queue = worker.queue

LEMMA Goes ==
    ASSUME worker \in Workers, NEW pc \in Pcs, Go(pc)
    PROVE  worker' \in Workers /\ worker'.pc = pc /\ Stays
           /\ worker'.ply = worker.ply /\ worker'.branch = worker.branch
           /\ worker'.again = worker.again
    BY DEF Go, Workers, Stays, Keeps

LEMMA EndsSo ==
    ASSUME NEW pc \in Pcs, Ends(pc)
    PROVE  worker' \in Workers /\ worker'.pc = pc /\ ~worker'.forced
           /\ worker'.queue = {} /\ worker'.phase = "main" /\ worker'.round = 0
    BY IdleIsWorker DEF Ends, Idle, Workers

LEMMA TakesNext ==
    ASSUME worker \in Workers, NEW g \in AllGames, NextGame(g)
    PROVE  worker' \in Workers /\ worker'.pc = "next" /\ Keeps
           /\ worker'.queue = worker.queue \ {g} /\ worker'.game = worker.game
    BY DEF NextGame, Workers, Keeps, Pcs

LEMMA GoesOn ==
    ASSUME worker \in Workers, worker.ply <= Plies, worker' = GoOn(worker)
    PROVE  worker' \in Workers /\ worker'.pc = "ply" /\ Stays
           /\ worker'.ply = worker.ply + 1 /\ worker'.branch = "root"
  <1>1. worker.ply + 1 \in 1..(Plies + 1)
      BY Constants DEF Workers
  <1> QED
      BY <1>1 DEF GoOn, Workers, Stays, Keeps, Pcs, Branches

LEMMA AsksAgain ==
    ASSUME worker \in Workers, NEW b \in Branches, NEW a \in BOOLEAN,
           worker' = [worker EXCEPT !.pc = "observe", !.branch = b, !.again = a]
    PROVE  worker' \in Workers /\ worker'.pc = "observe" /\ Stays
           /\ worker'.ply = worker.ply /\ worker'.branch = b
    BY DEF Workers, Stays, Keeps, Pcs
-----------------------------------------------------------------------------
(* What the steps of the ledger do to its rows                             *)

Only(t) == /\ task' \in [Tasks -> Rows] /\ RowIsKept(task'[t])
           /\ \A u \in Tasks \ {t} : task'[u] = task[u]

LEMMA CloseKeeps ==
    ASSUME NEW row \in Rows, NEW s \in Closed
    PROVE  Close(row, s) \in Rows /\ Close(row, s).status = s
  <1>1. s \in TaskStates /\ s \notin {"absent", "hard"}
      BY DEF Closed, Labelled, TaskStates
  <1> QED
      BY <1>1, RowsAreRows DEF Close, Rows

LEMMA ClosedIsFinal == \A s \in Closed : s \notin {"absent", "hard"}
    BY DEF Closed, Labelled

LEMMA TaskSet ==
    ASSUME task \in [Tasks -> Rows], NEW t \in Tasks, NEW s \in Closed,
           SetTask(t, s)
    PROVE  Only(t) /\ Status(t)' = s
  <1>1. task[t] \in Rows
      OBVIOUS
  <1>2. Close(task[t], s) \in Rows /\ Close(task[t], s).status = s
      BY <1>1, CloseKeeps
  <1>3. task' = [task EXCEPT ![t] = Close(@, s)]
      BY DEF SetTask
  <1>4. task' \in [Tasks -> Rows] /\ task'[t] = Close(task[t], s)
        /\ \A u \in Tasks \ {t} : task'[u] = task[u]
      BY <1>2, <1>3
  <1> QED
      BY <1>2, <1>4, ClosedIsFinal DEF Only, RowIsKept, Status

LEMMA ChargeEffect ==
    ASSUME NEW row \in Rows, row.tried < Maximum
    PROVE  /\ Charged(row) \in Rows
           /\ Charged(row).status = "running" /\ Charged(row).tried = row.tried + 1
           /\ Charged(row).hard = row.short /\ Charged(row).reserved = row.short
  <1>1. row.tried + 1 \in 0..Maximum
      BY DEF Rows, Maximum
  <1>2. (IF row.tried = 0 THEN Unknown ELSE row.seconds) \in 0..AttemptSeconds
      BY Constants DEF Rows, Unknown
  <1>3. row.short \in BOOLEAN /\ "running" \in TaskStates
      BY DEF Rows, TaskStates
  <1> DEFINE seconds == IF row.tried = 0 THEN Unknown ELSE row.seconds
             tried == row.tried + 1
  <1>4. Charged(row) = [row EXCEPT !.status = "running", !.tried = tried,
                            !.hard = row.short, !.reserved = row.short,
                            !.seconds = seconds]
      BY DEF Charged, Rows
  <1>5. tried \in 0..Maximum /\ seconds \in 0..AttemptSeconds
      BY <1>1, <1>2
  <1> HIDE DEF seconds, tried
  <1>6. /\ Charged(row) \in Rows
        /\ Charged(row).status = "running" /\ Charged(row).tried = tried
        /\ Charged(row).hard = row.short /\ Charged(row).reserved = row.short
      BY <1>3, <1>4, <1>5 DEF Rows
  <1> QED
      BY <1>6 DEF tried

LEMMA TaskBegins ==
    ASSUME task \in [Tasks -> Rows], counters \in Counters, NEW t \in Tasks,
           Begin(t), BudgetIsLeft(t),
           counters.attempts <= HardAttempts, counters.seconds <= HardSeconds
    PROVE  /\ Only(t) /\ Status(t)' = "running" /\ Tried(t)' = Tried(t) + 1
           /\ task'[t].hard = task'[t].reserved
           /\ counters' \in Counters /\ counters'.restarts = counters.restarts
           /\ counters'.attempts <= HardAttempts
           /\ counters'.seconds <= HardSeconds
           /\ counters'.seconds >= counters.seconds
           /\ task'[t].reserved =>
                 counters'.seconds = counters.seconds + AttemptSeconds
  <1>1. task[t] \in Rows /\ task[t].tried < Maximum
      BY DEF BudgetIsLeft, Tried
  <1>2. task' \in [Tasks -> Rows] /\ task'[t] = Charged(task[t])
        /\ \A u \in Tasks \ {t} : task'[u] = task[u]
      BY <1>1, ChargeEffect DEF Begin
  <1>3. /\ Only(t) /\ Status(t)' = "running" /\ Tried(t)' = Tried(t) + 1
        /\ task'[t].hard = task'[t].reserved
        /\ task'[t].reserved <=> IsHard(t)
    <2>1. task'[t].status = "running" /\ task'[t].tried = task[t].tried + 1
          /\ task'[t].hard = task[t].short /\ task'[t].reserved = task[t].short
        BY <1>1, <1>2, ChargeEffect
    <2> QED
        BY <1>2, <2>1 DEF Only, RowIsKept, Status, Tried, IsHard
  <1>4. /\ counters' \in Counters /\ counters'.restarts = counters.restarts
        /\ counters'.attempts <= HardAttempts
        /\ counters'.seconds <= HardSeconds
        /\ counters'.seconds >= counters.seconds
        /\ IsHard(t) => counters'.seconds = counters.seconds + AttemptSeconds
    <2>1. CASE IsHard(t)
      <3>1. counters' = [counters EXCEPT !.attempts = @ + 1,
                                         !.seconds = @ + AttemptSeconds]
          BY <2>1 DEF Begin
      <3>2. /\ counters.attempts < HardAttempts
            /\ counters.seconds + AttemptSeconds <= HardSeconds
          BY <2>1 DEF BudgetIsLeft
      <3>3. counters' \in Counters /\ counters'.restarts = counters.restarts
            /\ counters'.attempts = counters.attempts + 1
            /\ counters'.seconds = counters.seconds + AttemptSeconds
        <4>1. counters.attempts + 1 \in Nat
              /\ counters.seconds + AttemptSeconds \in Nat
            BY Constants DEF Counters
        <4> QED
            BY <3>1, <4>1 DEF Counters
      <3> QED
          BY <3>2, <3>3, Constants DEF Counters
    <2>2. CASE ~IsHard(t)
        BY <2>2 DEF Begin, Counters
    <2> QED
        BY <2>1, <2>2
  <1> QED
      BY <1>3, <1>4

LEMMA MissEffect ==
    ASSUME NEW row \in Rows, NEW s \in 1..AttemptSeconds, NEW short \in BOOLEAN
    PROVE  Missed(row, s, short) \in Rows /\ Missed(row, s, short).status = "hard"
           /\ Missed(row, s, short).tried = row.tried
  <1>1. s \in 0..AttemptSeconds /\ "hard" \in TaskStates
      BY Constants DEF TaskStates
  <1> QED
      BY <1>1 DEF Missed, Rows

LEMMA TaskFinishes ==
    ASSUME task \in [Tasks -> Rows], counters \in Counters, spent \in Nat,
           NEW t \in Tasks, NEW s \in 1..AttemptSeconds, NEW short \in BOOLEAN,
           NEW status \in Closed \union {"hard"}, Finish(t, status, short, s),
           status = "hard" => Tried(t) = 1,
           counters.seconds <= HardSeconds,
           spent <= counters.seconds,
           task[t].reserved => spent + AttemptSeconds <= counters.seconds
    PROVE  /\ Only(t) /\ Status(t)' = status
           /\ counters' \in Counters /\ counters'.restarts = counters.restarts
           /\ counters'.attempts = counters.attempts
           /\ counters'.seconds <= HardSeconds
           /\ IF task[t].reserved THEN spent + s <= counters'.seconds
              ELSE spent <= counters'.seconds
  <1>1. task[t] \in Rows
      OBVIOUS
  <1>2. Only(t) /\ Status(t)' = status
    <2>1. CASE status \in Closed
      <3>1. Close(task[t], status) \in Rows
            /\ Close(task[t], status).status = status
          BY <1>1, <2>1, CloseKeeps
      <3>2. task' \in [Tasks -> Rows] /\ task'[t] = Close(task[t], status)
            /\ \A u \in Tasks \ {t} : task'[u] = task[u]
          BY <2>1, <3>1 DEF Finish
      <3> QED
          BY <2>1, <3>1, <3>2, ClosedIsFinal DEF Only, RowIsKept, Status
    <2>2. CASE status \notin Closed
      <3>1. Missed(task[t], s, short) \in Rows
            /\ Missed(task[t], s, short).status = "hard"
            /\ Missed(task[t], s, short).tried = task[t].tried
          BY <1>1, MissEffect
      <3>2. task' \in [Tasks -> Rows] /\ task'[t] = Missed(task[t], s, short)
            /\ \A u \in Tasks \ {t} : task'[u] = task[u]
          BY <2>2, <3>1 DEF Finish
      <3>3. status = "hard"
          BY <2>2
      <3> QED
          BY <3>1, <3>2, <3>3 DEF Only, RowIsKept, Status, Tried
    <2> QED
        BY <2>1, <2>2
  <1>3. /\ counters' \in Counters /\ counters'.restarts = counters.restarts
        /\ counters'.attempts = counters.attempts
        /\ counters'.seconds <= HardSeconds
        /\ IF task[t].reserved THEN spent + s <= counters'.seconds
           ELSE spent <= counters'.seconds
    <2>1. CASE task[t].reserved
      <3>1. counters' = [counters EXCEPT !.seconds = @ + s - AttemptSeconds]
          BY <2>1 DEF Finish
      <3> QED
          BY <2>1, <3>1, Constants DEF Counters
    <2>2. CASE ~task[t].reserved
        BY <2>2 DEF Finish
    <2> QED
        BY <2>1, <2>2
  <1> QED
      BY <1>2, <1>3
-----------------------------------------------------------------------------
(* A turn: what becomes of the game at one request                         *)

LEMMA AnswerLeads ==
    ASSUME worker \in Workers, worker.ply <= Plies, NEW s \in Labelled,
           Answered(s)
    PROVE  /\ worker' \in Workers /\ Stays
           /\ \/ worker'.pc = "shard" /\ worker.branch = "root" /\ s = "ended"
              \/ /\ worker'.pc = "observe" /\ worker'.ply = worker.ply
                 /\ worker.branch = "root" /\ worker'.branch = "focus"
                 /\ s = "accepted"
              \/ /\ worker'.pc = "ply" /\ worker'.ply = worker.ply + 1
                 /\ worker'.branch = "root"
                 /\ worker.branch = "root" => s = "accepted"
  <1>1. CASE worker.branch = "root" /\ s = "ended"
    <2>1. Go("shard") /\ "shard" \in Pcs
        BY <1>1 DEF Answered, Pcs
    <2> QED
        BY <1>1, <2>1, Goes
  <1>2. CASE ~(worker.branch = "root" /\ s = "ended") /\ worker.branch = "root"
             /\ worker.ply = FocusPly
    <2>1. worker' = [worker EXCEPT !.pc = "observe", !.branch = "focus",
                                   !.again = worker.again]
        BY <1>2 DEF Answered, Workers
    <2>2. worker.again \in BOOLEAN /\ "focus" \in Branches
        BY DEF Workers, Branches
    <2> QED
        BY <1>2, <2>1, <2>2, AsksAgain DEF Labelled
  <1>3. CASE ~(worker.branch = "root" /\ s = "ended")
             /\ ~(worker.branch = "root" /\ worker.ply = FocusPly)
    <2>1. worker' = GoOn(worker)
        BY <1>3 DEF Answered
    <2> QED
        BY <1>3, <2>1, GoesOn DEF Labelled
  <1> QED
      BY <1>1, <1>2, <1>3

LEMMA DeferredLeads ==
    ASSUME worker \in Workers, worker.ply <= Plies, Deferred
    PROVE  /\ worker' \in Workers /\ Keeps /\ worker'.game = worker.game
           /\ \/ /\ worker.branch = "root" /\ worker'.pc = "next"
                 /\ worker'.queue = worker.queue \ {worker.game}
              \/ /\ worker.branch = "focus" /\ Stays
                 /\ worker'.pc = "observe" /\ worker'.ply = worker.ply
                 /\ worker'.branch = "focus"
              \/ /\ worker.branch = "focus" /\ Stays
                 /\ worker'.pc = "ply" /\ worker'.ply = worker.ply + 1
                 /\ worker'.branch = "root"
  <1>1. CASE worker.branch = "root"
    <2>1. worker.game \in AllGames /\ NextGame(worker.game)
        BY <1>1 DEF Deferred, Workers
    <2> QED
        BY <1>1, <2>1, TakesNext
  <1>2. CASE worker.branch # "root" /\ ~worker.again
    <2>1. worker.branch = "focus" /\ "focus" \in Branches
        BY <1>2 DEF Workers, Branches
    <2>2. worker' = [worker EXCEPT !.pc = "observe", !.branch = "focus",
                                   !.again = TRUE]
        BY <1>2, <2>1 DEF Deferred, Workers
    <2> QED
        BY <2>1, <2>2, AsksAgain DEF Stays
  <1>3. CASE worker.branch # "root" /\ worker.again
    <2>1. worker.branch = "focus" /\ worker' = GoOn(worker)
        BY <1>3 DEF Workers, Branches, Deferred
    <2> QED
        BY <2>1, GoesOn DEF Stays
  <1> QED
      BY <1>1, <1>2, <1>3

\* The row asked for, and the root of its ply, after the step.
Now == task'[Current].status
RootNow == task'[<<worker.game, worker.ply, "root">>].status

Failing == Ends("failed")
Committing == Stays /\ worker'.pc = "shard" /\ RootNow = "ended"
Advancing == /\ Stays /\ worker'.pc = "ply" /\ worker'.ply = worker.ply + 1
             /\ worker'.branch = "root" /\ RootNow = "accepted"
Deviating == /\ Stays /\ worker'.pc = "observe" /\ worker'.ply = worker.ply
             /\ worker'.branch = "focus" /\ RootNow = "accepted"
Leaving == /\ Keeps /\ worker'.pc = "next" /\ worker.branch = "root"
           /\ worker'.queue = worker.queue \ {worker.game}
           /\ Now \in {"hard", "deferred"}
           /\ Now = "hard" /\ worker.round > 0 => worker.ply > worker.round
Staying == /\ Stays /\ worker'.pc \in {"ask", "restart"}
           /\ worker'.ply = worker.ply /\ worker'.branch = worker.branch
           /\ worker'.pc = "ask" => Now = "running"
           /\ worker'.pc = "restart" => Now \in {"hard", "deferred"}
           /\ worker.branch = "root" /\ worker.round > 0
              /\ worker.ply <= worker.round =>
                 /\ worker'.pc = "ask" => task'[Current].tried = 2
                 /\ worker'.pc = "restart" => Now = "deferred"
Outcome == \/ Failing \/ Committing \/ Advancing \/ Deviating \/ Leaving
           \/ Staying
Turn == /\ Only(Current) /\ worker' \in Workers /\ Outcome
        /\ Now # "absent" /\ UNCHANGED <<cursor, shard, receipt>>

LEMMA AskingIsAtTask ==
    ASSUME TypeOK, WorkerIsPlaced, Asking
    PROVE  /\ Current \in Tasks /\ worker \in Workers /\ worker.ply <= Plies
           /\ worker.ply \in 1..Plies /\ worker.game \in AllGames
           /\ worker.branch \in {"root", "focus"}
           /\ worker.branch = "focus" =>
                 task[<<worker.game, worker.ply, "root">>].status = "accepted"
           /\ <<worker.game, worker.ply, "root">> \in Tasks
  <1>1. worker.game \in AllGames /\ worker.ply \in 1..(Plies + 1)
        /\ worker.branch \in Branches /\ worker \in Workers
      BY DEF TypeOK, Workers
  <1>2. cursor[worker.game] \in 0..Plies /\ cursor[worker.game] = worker.ply
      BY <1>1 DEF TypeOK, WorkerIsPlaced, AtRequest
  <1>3. worker.ply \in 1..Plies
      BY <1>1, <1>2, Constants
  <1>4. worker.branch = "focus" =>
                 task[<<worker.game, worker.ply, "root">>].status = "accepted"
      BY DEF WorkerIsPlaced, AtRequest, OnRoot, Status
  <1>5. Current \in Tasks /\ <<worker.game, worker.ply, "root">> \in Tasks
      BY <1>1, <1>3, IsTask DEF Current, Branches
  <1>6. worker.branch \in {"root", "focus"}
      BY <1>1 DEF Branches
  <1>7. worker.ply <= Plies
      BY <1>3, Constants
  <1> QED
      BY <1>1, <1>3, <1>4, <1>5, <1>6, <1>7

\* In a round of the drain the row at that ply was hard when it was taken.
LEMMA SecondTryIsHard ==
    ASSUME TypeOK, RowsAreKept, WorkerIsPlaced, DrainAdvances, Asking,
           worker.branch = "root", worker.round > 0, worker.ply <= worker.round
    PROVE  /\ worker.pc = "observe" => /\ Status(Current) = "hard"
                                       /\ Tried(Current) = 1
           /\ worker.pc = "ask" => Tried(Current) = 2
           /\ worker.pc = "restart" => Status(Current) = "deferred"
  <1>1. Current \in Tasks
      BY AskingIsAtTask
  <1>2. SecondTry
      BY DEF DrainAdvances, Passing, Playing
  <1>3. worker.pc = "observe" => Status(Current) = "hard"
      BY <1>2 DEF SecondTry, WorkerIsPlaced, AtRequest, Asking, Hard, Current,
         OnRoot
  <1> QED
      BY <1>1, <1>2, <1>3 DEF RowsAreKept, RowIsKept, SecondTry,
         Status, Tried
LEMMA RootStays ==
    ASSUME TypeOK, WorkerIsPlaced, Asking, Only(Current), worker.branch = "focus"
    PROVE  RootNow = "accepted"
  <1>1. <<worker.game, worker.ply, "root">> # Current
      BY DEF Current
  <1> QED
      BY <1>1, AskingIsAtTask DEF Only, RootNow

LEMMA AnswerTurn ==
    ASSUME TypeOK, WorkerIsPlaced, Asking, Only(Current), NEW s \in Labelled,
           Now = s, Answered(s)
    PROVE  Outcome /\ worker' \in Workers
  <1>1. worker \in Workers /\ worker.ply <= Plies
      BY AskingIsAtTask
  <1>2. worker.branch = "root" =>
           RootNow = s
      BY DEF Now, RootNow, Current
  <1>3. worker.branch = "focus" =>
           RootNow = "accepted"
      BY RootStays
  <1>4. worker.branch \in {"root", "focus"}
      BY AskingIsAtTask
  <1>5. Committing \/ Deviating \/ Advancing
      BY <1>1, <1>2, <1>3, <1>4, AnswerLeads DEF Committing, Deviating,
         Advancing
  <1> QED
      BY <1>1, <1>5, AnswerLeads DEF Outcome

LEMMA DeferredTurn ==
    ASSUME TypeOK, WorkerIsPlaced, Asking, Only(Current), Deferred,
           Now \in {"hard", "deferred"},
           worker.branch = "root" /\ Now = "hard" /\ worker.round > 0 =>
              worker.ply > worker.round
    PROVE  Outcome /\ worker' \in Workers
  <1>1. worker \in Workers /\ worker.ply <= Plies
      BY AskingIsAtTask
  <1>2. worker.branch = "focus" =>
           RootNow = "accepted"
      BY RootStays
  <1>3. Leaving \/ Deviating \/ Advancing
      BY <1>1, <1>2, DeferredLeads DEF Leaving, Deviating, Advancing
  <1> QED
      BY <1>1, <1>3, DeferredLeads DEF Outcome

LEMMA FailingTurn ==
    ASSUME Ends("failed")
    PROVE  Outcome /\ worker' \in Workers
    BY EndsSo DEF Outcome, Failing, Pcs

LEMMA ObserveTurn ==
    ASSUME TypeOK, RowsAreKept, BudgetIsKept, WorkerIsPlaced, DrainAdvances,
           Observe
    PROVE  Turn
  <1>1. Asking /\ worker.pc = "observe"
      BY DEF Observe, Asking
  <1>2. Current \in Tasks /\ task \in [Tasks -> Rows] /\ worker \in Workers
      BY <1>1, AskingIsAtTask DEF TypeOK
  <1>3. UNCHANGED <<cursor, shard, receipt>>
      BY DEF Observe, disk
  <1>4. CASE Status(Current) \in Labelled /\ task' = task
             /\ Answered(Status(Current))
    <2>1. Only(Current) /\ Now = Status(Current)
        BY <1>2, <1>4 DEF Only, RowsAreKept, RowIsKept, Now, Status, Tried
    <2>2. Outcome /\ worker' \in Workers
        BY <1>1, <1>4, <2>1, AnswerTurn
    <2> QED
        BY <1>3, <1>4, <2>1, <2>2 DEF Turn, Labelled
  <1>5. CASE Status(Current) = "deferred" /\ task' = task /\ Deferred
    <2>1. Only(Current) /\ Now = "deferred"
        BY <1>2, <1>5 DEF Only, RowsAreKept, RowIsKept, Now, Status, Tried
    <2>2. Outcome /\ worker' \in Workers
        BY <1>1, <1>5, <2>1, DeferredTurn
    <2> QED
        BY <1>3, <2>1, <2>2 DEF Turn
  <1>6. CASE SetTask(Current, "deferred") /\ Deferred
    <2>1. Only(Current) /\ Now = "deferred"
        BY <1>2, <1>6, TaskSet DEF Now, Status, Closed
    <2>2. Outcome /\ worker' \in Workers
        BY <1>1, <1>6, <2>1, DeferredTurn
    <2> QED
        BY <1>3, <2>1, <2>2 DEF Turn
  <1>7. CASE Begin(Current) /\ BudgetIsLeft(Current) /\ Go("ask")
    <2>1. /\ Only(Current) /\ Now = "running"
          /\ task'[Current].tried = Tried(Current) + 1
        BY <1>2, <1>7, TaskBegins DEF Now, Status, Tried, TypeOK, BudgetIsKept
    <2>2. worker' \in Workers /\ worker'.pc = "ask" /\ Stays
          /\ worker'.ply = worker.ply /\ worker'.branch = worker.branch
        BY <1>2, <1>7, Goes DEF Pcs
    <2>3. worker.branch = "root" /\ worker.round > 0
          /\ worker.ply <= worker.round => Tried(Current) = 1
        BY <1>1, SecondTryIsHard
    <2>4. Staying
        BY <2>1, <2>2, <2>3 DEF Staying
    <2> QED
        BY <1>3, <2>1, <2>2, <2>4 DEF Turn, Outcome
  <1> QED
      BY <1>4, <1>5, <1>6, <1>7 DEF Observe

LEMMA AcceptTurn ==
    ASSUME TypeOK, BudgetIsKept, WorkerIsPlaced, Accept
    PROVE  Turn
  <1>1. Asking /\ worker.pc = "ask"
      BY DEF Accept, Asking
  <1>2. Current \in Tasks
      BY <1>1, AskingIsAtTask
  <1>3. PICK s \in 1..AttemptSeconds, r \in Labelled :
           Finish(Current, r, FALSE, s) /\ Answered(r)
      BY DEF Accept
  <1>4. Only(Current) /\ Now = r
    <2>1. r \in Closed \union {"hard"} /\ r # "hard"
        BY DEF Closed, Labelled
    <2> QED
        BY <1>1, <1>2, <1>3, <2>1, TaskFinishes DEF TypeOK, BudgetIsKept,
           RequestIsReserved, Now, Status
  <1>5. Outcome /\ worker' \in Workers
      BY <1>1, <1>3, <1>4, AnswerTurn
  <1>6. UNCHANGED <<cursor, shard, receipt>>
      BY DEF Accept, disk
  <1> QED
      BY <1>4, <1>5, <1>6 DEF Turn, Labelled

LEMMA MissTurn ==
    ASSUME TypeOK, RowsAreKept, BudgetIsKept, WorkerIsPlaced, DrainAdvances, Miss
    PROVE  Turn
  <1>1. Asking /\ worker.pc = "ask"
      BY DEF Miss, Asking
  <1>2. Current \in Tasks /\ worker \in Workers
      BY <1>1, AskingIsAtTask
  <1> DEFINE missed == IF Tried(Current) = 1 THEN "hard" ELSE "deferred"
  <1>3. PICK s \in 1..AttemptSeconds, o \in {"depth", "process"} :
           /\ Finish(Current, missed, o = "depth", s)
           /\ IF o = "process" THEN Go("restart")
              ELSE Deferred \/ Ends("failed")
      BY DEF Miss
  <1>4. Only(Current) /\ Now = missed
    <2>1. missed \in Closed \union {"hard"}
        /\ (missed = "hard" => Tried(Current) = 1)
        BY DEF Closed
    <2>2. (o = "depth") \in BOOLEAN
        OBVIOUS
    <2> HIDE DEF missed
    <2> QED
        BY ZenonT(60), <1>1, <1>2, <1>3, <2>1, <2>2, TaskFinishes DEF TypeOK, BudgetIsKept,
           RequestIsReserved, Now, Status
  <1>5. worker.branch = "root" /\ worker.round > 0
        /\ worker.ply <= worker.round => missed = "deferred"
      BY <1>1, SecondTryIsHard
  <1>6. missed \in {"hard", "deferred"}
      OBVIOUS
  <1>7. UNCHANGED <<cursor, shard, receipt>>
      BY DEF Miss, disk
  <1>8. Outcome /\ worker' \in Workers
    <2>1. CASE Go("restart")
      <3>1. worker' \in Workers /\ worker'.pc = "restart" /\ Stays
            /\ worker'.ply = worker.ply /\ worker'.branch = worker.branch
          BY <1>2, <2>1, Goes DEF Pcs
      <3>2. Staying
          BY <1>4, <1>5, <1>6, <3>1 DEF Staying
      <3> QED
          BY <3>1, <3>2 DEF Outcome
    <2>2. CASE Deferred
      <3>1. worker.ply \in Nat /\ worker.round \in Nat
          BY <1>2, Constants DEF Workers, Rounds
      <3>2. worker.branch = "root" /\ Now = "hard" /\ worker.round > 0 =>
               worker.ply > worker.round
          BY <1>4, <1>5, <3>1
      <3> QED
          BY <1>1, <1>4, <1>6, <2>2, <3>2, DeferredTurn
    <2>3. CASE Ends("failed")
        BY <2>3, FailingTurn
    <2> QED
        BY <1>3, <2>1, <2>2, <2>3
  <1> QED
      BY <1>4, <1>6, <1>7, <1>8 DEF Turn

LEMMA RejectTurn ==
    ASSUME TypeOK, WorkerIsPlaced, Reject
    PROVE  Turn
  <1>1. Asking
      BY DEF Reject, Asking
  <1>2. Only(Current) /\ Now = "failed"
    <2>1. "failed" \in Closed /\ SetTask(Current, "failed") /\ Current \in Tasks
        BY <1>1, AskingIsAtTask DEF Closed, Reject
    <2> QED
        BY <2>1, TaskSet DEF TypeOK, Now, Status
  <1>3. Outcome /\ worker' \in Workers
      BY FailingTurn DEF Reject
  <1>4. UNCHANGED <<cursor, shard, receipt>>
      BY DEF Reject, disk
  <1> QED
      BY <1>2, <1>3, <1>4 DEF Turn

LEMMA RestartTurn ==
    ASSUME TypeOK, RowsAreKept, WorkerIsPlaced, DrainAdvances, Restart
    PROVE  Turn
  <1>1. Asking /\ worker.pc = "restart"
      BY DEF Restart, Asking
  <1>2. Current \in Tasks /\ worker \in Workers
      BY <1>1, AskingIsAtTask
  <1>3. Only(Current) /\ Now = Status(Current)
      BY <1>2 DEF Restart, Only, RowsAreKept, RowIsKept, Now, Status, Tried,
         TypeOK
  <1>4. Now \in {"hard", "deferred"}
      BY <1>1, <1>3 DEF WorkerIsPlaced
  <1>5. worker.branch = "root" /\ worker.round > 0
        /\ worker.ply <= worker.round => Now = "deferred"
      BY <1>1, <1>3, SecondTryIsHard
  <1>6. UNCHANGED <<cursor, shard, receipt>>
      BY DEF Restart, disk
  <1>7. Outcome /\ worker' \in Workers
    <2>1. CASE worker' = worker
      <3>1. worker' \in Workers /\ worker'.pc = "restart" /\ Stays
            /\ worker'.ply = worker.ply /\ worker'.branch = worker.branch
          BY <1>1, <1>2, <2>1 DEF Stays, Keeps
      <3>2. Staying
          BY <1>4, <1>5, <3>1 DEF Staying
      <3> QED
          BY <3>1, <3>2 DEF Outcome
    <2>2. CASE Deferred
      <3>1. worker.ply \in Nat /\ worker.round \in Nat
          BY <1>2, Constants DEF Workers, Rounds
      <3>2. worker.branch = "root" /\ Now = "hard" /\ worker.round > 0 =>
               worker.ply > worker.round
          BY <1>5, <3>1
      <3> QED
          BY <1>1, <1>3, <1>4, <2>2, <3>2, DeferredTurn
    <2>3. CASE Ends("failed")
        BY <2>3, FailingTurn
    <2> QED
        BY <2>1, <2>2, <2>3 DEF Restart
  <1> QED
      BY <1>3, <1>4, <1>6, <1>7 DEF Turn

LEMMA Turns ==
    ASSUME TypeOK, RowsAreKept, BudgetIsKept, WorkerIsPlaced, DrainAdvances,
           Observe \/ Accept \/ Miss \/ Reject \/ Restart
    PROVE  Turn /\ Asking
  <1>1. Asking
      BY DEF Observe, Accept, Miss, Reject, Restart, Asking
  <1> QED
      BY <1>1, ObserveTurn, AcceptTurn, MissTurn, RejectTurn, RestartTurn
-----------------------------------------------------------------------------
(* The invariant over a turn                                               *)

LEMMA GameTypes ==
    ASSUME TypeOK, NEW g \in AllGames
    PROVE  /\ cursor[g] \in 0..Plies /\ length[g] \in 2..(Plies + 1)
           /\ cursor[g] > 0 => cursor[g] \in 1..Plies
           /\ cursor[g] \in Nat /\ length[g] \in Nat
  <1>1. cursor[g] \in 0..Plies /\ length[g] \in 2..(Plies + 1)
      BY DEF TypeOK
  <1> QED
      BY <1>1, Constants

LEMMA WorkerTypes ==
    ASSUME TypeOK
    PROVE  /\ worker \in Workers /\ worker.pc \in Pcs /\ worker.game \in AllGames
           /\ worker.ply \in 1..(Plies + 1) /\ worker.ply \in Nat
           /\ worker.round \in Nat /\ worker.round <= Plies
           /\ worker.queue \subseteq AllGames /\ InReach \subseteq AllGames
           /\ worker.forced \in BOOLEAN /\ worker.phase \in {"main", "supplement"}
  <1>1. /\ worker \in Workers /\ worker.pc \in Pcs /\ worker.game \in AllGames
        /\ worker.ply \in 1..(Plies + 1) /\ worker.round \in 0..Plies
        /\ worker.queue \subseteq AllGames /\ worker.forced \in BOOLEAN
        /\ worker.phase \in {"main", "supplement"}
      BY DEF TypeOK, Workers, Rounds
  <1>2. InReach \subseteq AllGames
      BY GameSets DEF InReach
  <1> QED
      BY <1>1, <1>2, Constants

\* Where the worker stands while it asks, in terms of the tables.
LEMMA AskingAt ==
    ASSUME TypeOK, WorkerIsPlaced, Asking
    PROVE  /\ worker.game \in AllGames /\ worker.game \in worker.queue
           /\ worker.game \notin receipt
           /\ worker.ply \in 1..Plies /\ cursor[worker.game] = worker.ply
           /\ worker.ply < length[worker.game]
           /\ worker.ply \in Nat /\ worker.ply > 0
  <1>1. worker.game \in worker.queue /\ worker.game \notin receipt
      BY DEF WorkerIsPlaced, Playing
  <1>2. cursor[worker.game] = worker.ply /\ worker.ply < length[worker.game]
      BY DEF WorkerIsPlaced, AtRequest
  <1> QED
      BY <1>1, <1>2, AskingIsAtTask, Constants

LEMMA OtherRoots ==
    ASSUME TypeOK, WorkerIsPlaced, Asking, Only(Current),
           NEW g \in AllGames, NEW p \in 1..Plies,
           g # worker.game \/ p # worker.ply
    PROVE  OnRoot(g, p)' = OnRoot(g, p)
  <1>1. <<g, p, "root">> \in Tasks \ {Current}
      BY IsTask DEF Current, Branches
  <1> QED
      BY <1>1 DEF Only, OnRoot, Status

\* A game whose cursor, and the row there, stay.
LEMMA SameGame ==
    ASSUME NEW g \in AllGames, cursor'[g] = cursor[g],
           cursor[g] > 0 => OnRoot(g, cursor[g])' = OnRoot(g, cursor[g]),
           length' = length
    PROVE  /\ Hard(g)' <=> Hard(g)
           /\ Parked(g)' <=> Parked(g)
           /\ Complete(g)' <=> Complete(g)
    BY DEF Hard, Parked, Complete, OnRoot, Status

LEMMA TurnElsewhere ==
    ASSUME TypeOK, WorkerIsPlaced, Asking, Turn, length' = length,
           NEW g \in AllGames, g # worker.game
    PROVE  /\ Hard(g)' <=> Hard(g)
           /\ Settled(g)' <=> Settled(g)
           /\ Complete(g)' <=> Complete(g)
           /\ GameIsPlaced(g) => GameIsPlaced(g)'
  <1>1. cursor'[g] = cursor[g] /\ receipt' = receipt /\ Only(Current)
      BY DEF Turn
  <1>2. \A p \in 1..Plies : OnRoot(g, p)' = OnRoot(g, p)
      BY <1>1, OtherRoots
  <1>3. cursor[g] > 0 => OnRoot(g, cursor[g])' = OnRoot(g, cursor[g])
    <2>1. cursor[g] > 0 => cursor[g] \in 1..Plies
        BY GameTypes
    <2> QED
        BY <1>1, <1>2, <2>1 DEF OnRoot, Status
  <1>4. GameIsPlaced(g) => GameIsPlaced(g)'
      BY <1>1, <1>2 DEF GameIsPlaced
  <1> QED
      BY <1>1, <1>3, <1>4, SameGame DEF Settled

\* The game of the worker itself.
LEMMA TurnHere ==
    ASSUME TypeOK, WorkerIsPlaced, GamesArePlaced, Asking, Turn, length' = length,
           NEW g \in AllGames, g = worker.game
    PROVE  /\ GameIsPlaced(g)'
           /\ Hard(g)' <=> task'[<<g, worker.ply, "root">>].status = "hard"
           /\ Parked(g)' <=>
                 task'[<<g, worker.ply, "root">>].status = "deferred"
           /\ task'[<<g, worker.ply, "root">>].status = "ended" => Complete(g)'
           /\ worker.branch = "root" =>
                 task'[<<g, worker.ply, "root">>].status = Now
  <1>1. PICK p \in 1..Plies : p = worker.ply
      BY AskingAt
  <1>2. cursor[g] = p /\ p < length[g] /\ p \in Nat /\ p > 0
      BY <1>1, AskingAt
  <1>3. cursor'[g] = p /\ length'[g] = length[g] /\ Only(Current)
      BY <1>2 DEF Turn
  <1>4. OnRoot(g, p)' = task'[<<g, p, "root">>].status
      BY DEF OnRoot, Status
  <1>5. GameIsPlaced(g)'
    <2>1. \A q \in 1..Plies : q # p => OnRoot(g, q)' = OnRoot(g, q)
        BY <1>1, <1>3, OtherRoots
    <2>2. GameIsPlaced(g)
        BY DEF GamesArePlaced
    <2>3. \A q \in 1..Plies : q < p \/ q > p => q # p
        BY <1>2
    <2>4. \A q \in 1..Plies :
             /\ q < p => OnRoot(g, q)' = "accepted"
             /\ q > p => OnRoot(g, q)' = "absent"
             /\ OnRoot(g, q)' # "absent" => q < length[g]
        BY <1>2, <2>1, <2>2, <2>3 DEF GameIsPlaced
    <2> QED
        BY <1>2, <1>3, <2>2, <2>4 DEF GameIsPlaced
  <1>6. worker.branch = "root" => task'[<<g, p, "root">>].status = Now
      BY <1>1 DEF Now, Current
  <1>7. /\ Hard(g)' <=> OnRoot(g, p)' = "hard"
        /\ Parked(g)' <=> OnRoot(g, p)' = "deferred"
        /\ OnRoot(g, p)' = "ended" => Complete(g)'
      BY <1>2, <1>3 DEF Hard, Parked, Complete, OnRoot, Status
  <1> QED
      BY <1>1, <1>4, <1>5, <1>6, <1>7
LEMMA TurnKeepsTables ==
    ASSUME TypeOK, RowsAreKept, WorkerIsPlaced, GamesArePlaced, Asking, Turn,
           length' = length
    PROVE  RowsAreKept' /\ GamesArePlaced'
  <1>1. Only(Current)
      BY DEF Turn
  <1>2. RowsAreKept'
    <2>1. \A t \in Tasks : RowIsKept(task'[t])
        BY <1>1 DEF Only, RowsAreKept
    <2> QED
        BY <2>1 DEF RowsAreKept, RowIsKept
  <1>3. ASSUME NEW g \in AllGames PROVE GameIsPlaced(g)'
    <2>1. CASE g = worker.game
        BY <2>1, TurnHere
    <2>2. CASE g # worker.game
        BY <2>2, TurnElsewhere DEF GamesArePlaced
    <2> QED
        BY <2>1, <2>2
  <1> QED
      BY <1>2, <1>3 DEF GamesArePlaced

LEMMA TurnKeepsPlace ==
    ASSUME TypeOK, WorkerIsPlaced, GamesArePlaced, Asking, Turn, length' = length
    PROVE  WorkerIsPlaced'
  <1>1. PICK g \in AllGames : g = worker.game
      BY AskingAt
  <1>2. /\ g \in worker.queue /\ g \notin receipt /\ cursor[g] = worker.ply
        /\ worker.ply \in Nat /\ worker.ply > 0 /\ worker.ply < length[g]
        /\ length[g] \in Nat
      BY <1>1, AskingAt, GameTypes
  <1>3. receipt' = receipt /\ cursor' = cursor
      BY DEF Turn
  <1>4. CASE Failing
      BY <1>4, EndsSo DEF Failing, WorkerIsPlaced, Playing, Asking, Pcs
  <1>5. CASE Committing
    <2>1. worker'.game = g /\ worker'.queue = worker.queue /\ worker'.pc = "shard"
        BY <1>1, <1>5 DEF Committing, Stays
    <2>2. Complete(g)'
        BY <1>1, <1>5, TurnHere DEF Committing, RootNow
    <2>3. Complete(worker.game)'
        BY <2>1, <2>2 DEF Complete, OnRoot, Status
    <2> QED
        BY <1>2, <1>3, <2>1, <2>3 DEF WorkerIsPlaced, Asking
  <1>6. CASE Advancing
    <2>1. worker'.game = g /\ worker'.queue = worker.queue /\ worker'.pc = "ply"
          /\ worker'.ply = worker.ply + 1 /\ worker'.branch = "root"
        BY <1>1, <1>6 DEF Advancing, Stays
    <2>2. \A p \in 1..Plies : p < worker.ply + 1 => OnRoot(g, p)' = "accepted"
      <3>1. \A p \in 1..Plies :
               p < worker.ply + 1 => p < cursor'[g] \/ p = worker.ply
          BY <1>2, <1>3
      <3>2. GameIsPlaced(g)'
          BY <1>1, TurnHere
      <3>3. \A p \in 1..Plies : p < cursor'[g] => OnRoot(g, p)' = "accepted"
          BY <3>2 DEF GameIsPlaced
      <3>4. \A p \in 1..Plies : p = worker.ply => OnRoot(g, p)' = "accepted"
          BY <1>1, <1>6 DEF Advancing, RootNow, OnRoot, Status
      <3> QED
          BY <3>1, <3>3, <3>4
    <2>3. AtPly'
      <3>1. length'[g] = length[g] /\ cursor'[g] = cursor[g]
          BY <1>3
      <3>2. worker'.ply <= length'[g] /\ cursor'[g] \in {worker'.ply, worker'.ply - 1}
          BY <1>2, <2>1, <3>1
      <3>3. \A p \in 1..Plies : p < worker'.ply => OnRoot(worker.game, p)' = "accepted"
          BY <2>1, <2>2 DEF OnRoot, Status
      <3> QED
          BY <2>1, <3>2, <3>3 DEF AtPly
    <2> QED
        BY <1>2, <1>3, <2>1, <2>3 DEF WorkerIsPlaced, Asking
  <1>7. CASE Deviating
    <2>1. worker'.game = g /\ worker'.queue = worker.queue
          /\ worker'.pc = "observe" /\ worker'.ply = worker.ply
        BY <1>1, <1>7 DEF Deviating, Stays
    <2>2. AtRequest'
        BY <1>1, <1>2, <1>3, <1>7, <2>1 DEF AtRequest, Deviating, RootNow,
           OnRoot, Status
    <2> QED
        BY <1>2, <1>3, <2>1, <2>2 DEF WorkerIsPlaced, Asking
  <1>8. CASE Leaving
      BY <1>8 DEF Leaving, WorkerIsPlaced, Playing, Asking
  <1>9. CASE Staying
    <2>1. worker'.game = g /\ worker'.queue = worker.queue
          /\ worker'.pc \in {"ask", "restart"} /\ worker'.ply = worker.ply
          /\ worker'.branch = worker.branch
        BY <1>1, <1>9 DEF Staying, Stays
    <2>2. worker.branch = "focus" =>
             RootNow = "accepted"
        BY RootStays DEF Turn
    <2>3. AtRequest'
        BY <1>1, <1>2, <1>3, <2>1, <2>2 DEF AtRequest, RootNow, OnRoot,
           Status
    <2>4. worker'.pc = "restart" => Status(Current)' \in {"hard", "deferred"}
        BY <1>1, <1>9, <2>1 DEF Staying, Now, Status, Current
    <2> QED
        BY <1>2, <1>3, <2>1, <2>3, <2>4 DEF WorkerIsPlaced, Asking
  <1> QED
      BY <1>4, <1>5, <1>6, <1>7, <1>8, <1>9 DEF Turn, Outcome

LEMMA TurnKeepsPass ==
    ASSUME TypeOK, WorkerIsPlaced, GamesArePlaced, PassIsThorough, Asking, Turn,
           length' = length
    PROVE  PassIsThorough'
  <1>1. PICK g \in AllGames : g = worker.game
      BY AskingAt
  <1>2. g \in worker.queue /\ InReach \subseteq AllGames
      BY <1>1, AskingAt, WorkerTypes
  <1>3. \A h \in InReach \ worker.queue : Settled(h) \/ Hard(h)
      BY DEF PassIsThorough, Passing, Playing
  <1>4. \A h \in InReach \ worker.queue : Settled(h)' \/ Hard(h)'
      BY <1>1, <1>2, <1>3, TurnElsewhere
  <1>5. CASE Failing
      BY <1>5, EndsSo DEF Failing, PassIsThorough, Passing, Playing, Asking,
         Closing, Pcs
  <1>6. CASE Stays /\ worker'.pc \in {"shard", "ply", "observe", "ask", "restart"}
      BY <1>4, <1>6 DEF Stays, Keeps, PassIsThorough, InReach, Closing
  <1>7. CASE Leaving
    <2>1. Settled(g)' \/ Hard(g)'
        BY <1>1, <1>7, TurnHere DEF Leaving, Settled
    <2>2. InReach' = InReach /\ worker'.queue = worker.queue \ {g}
          /\ worker'.pc = "next"
        BY <1>1, <1>7 DEF Leaving, Keeps, InReach
    <2> QED
        BY <1>4, <2>1, <2>2 DEF PassIsThorough, Closing
  <1>8. Failing \/ Leaving
        \/ (Stays /\ worker'.pc \in {"shard", "ply", "observe", "ask", "restart"})
      BY DEF Turn, Outcome, Committing, Advancing, Deviating, Staying
  <1> QED
      BY <1>5, <1>6, <1>7, <1>8

LEMMA TurnKeepsDrain ==
    ASSUME TypeOK, WorkerIsPlaced, GamesArePlaced, DrainAdvances, Asking, Turn,
           length' = length
    PROVE  DrainAdvances'
  <1> SUFFICES ASSUME Passing', worker'.round > 0
               PROVE  DrainAdvances'
      BY DEF DrainAdvances
  <1>1. PICK g \in AllGames : g = worker.game
      BY AskingAt
  <1>2. /\ g \in worker.queue /\ worker.queue \subseteq AllGames
        /\ worker.round \in Nat /\ worker.ply \in Nat /\ cursor[g] = worker.ply
      BY <1>1, AskingAt, WorkerTypes
  <1>3. cursor' = cursor
      BY DEF Turn
  <1>4. ~Failing
      BY EndsSo DEF Failing, Passing, Playing, Asking, Pcs
  <1>5. Keeps /\ worker'.round = worker.round /\ worker.round > 0
      BY <1>4 DEF Turn, Outcome, Committing, Advancing, Deviating, Leaving,
         Staying, Stays, Keeps
  <1>6. /\ \A h \in worker.queue \ {g} : Hard(h) /\ cursor[h] >= worker.round
        /\ \A h \in AllGames \ worker.queue : Hard(h) => cursor[h] > worker.round
        /\ cursor[g] >= worker.round
      BY <1>1, <1>5 DEF DrainAdvances, Passing, Playing
  <1>7. /\ \A h \in worker.queue \ {g} :
              Hard(h)' /\ cursor'[h] >= worker.round
        /\ \A h \in AllGames \ worker.queue :
              Hard(h)' => cursor'[h] > worker.round
      BY <1>1, <1>2, <1>3, <1>6, TurnElsewhere
  <1>8. CASE Leaving
    <2>1. worker'.queue = worker.queue \ {g} /\ worker'.pc = "next"
        BY <1>1, <1>8 DEF Leaving
    <2>2. Hard(g)' => cursor'[g] > worker.round
        BY <1>1, <1>2, <1>3, <1>5, <1>8, TurnHere DEF Leaving
    <2> QED
        BY <1>5, <1>7, <2>1, <2>2 DEF DrainAdvances, Playing, Asking
  <1>9. CASE Stays /\ worker'.pc \in {"shard", "ply", "observe", "ask", "restart"}
             /\ SecondTry'
      BY <1>1, <1>3, <1>5, <1>6, <1>7, <1>9 DEF Stays, DrainAdvances, Playing,
         Asking
  <1>10. Leaving \/ SecondTry'
    <2>1. CASE Committing
        BY <2>1 DEF Committing, SecondTry
    <2>2. CASE Advancing
        BY <1>2, <1>5, <1>6, <2>2 DEF Advancing, SecondTry
    <2>3. CASE Deviating
        BY <2>3 DEF Deviating, SecondTry
    <2>4. CASE Staying
        BY <1>5, <2>4 DEF Staying, Stays, SecondTry, Now, Status, Tried,
           Current
    <2> QED
        BY <1>4, <2>1, <2>2, <2>3, <2>4 DEF Turn, Outcome
  <1> QED
      BY <1>4, <1>8, <1>9, <1>10 DEF Turn, Outcome, Committing, Advancing,
         Deviating, Staying
-----------------------------------------------------------------------------
(* Answers, requests and budgets                                           *)

Answers == \A t \in Tasks : Status(t) \in Labelled => task'[t] = task[t]

LEMMA AnswersStay ==
    ASSUME TypeOK, BudgetIsKept, WorkerIsPlaced, [Next]_vars
    PROVE  Answers
  <1>1. CASE task' = task
      BY <1>1 DEF Answers
  <1>2. CASE Asking /\ \E u \in {Current} :
                          /\ Status(u) \notin Labelled
                          /\ \A t \in Tasks \ {u} : task'[t] = task[t]
      BY <1>2 DEF Answers
  <1>3. CASE Observe
    <2>1. Asking
        BY <1>3 DEF Observe, Asking
    <2>2. CASE SetTask(Current, "deferred") /\ Status(Current) \notin Labelled
        BY <1>2, <2>1, <2>2 DEF SetTask, TypeOK
    <2>3. CASE Begin(Current) /\ Status(Current) \notin Labelled
        BY <1>2, <2>1, <2>3 DEF Begin, TypeOK
    <2> QED
        BY <1>1, <1>3, <2>2, <2>3 DEF Observe
  <1>4. CASE worker.pc = "ask" /\ \E s, f, e : Finish(Current, s, f, e)
    <2>1. Status(Current) = "running" /\ Asking
        BY <1>4 DEF BudgetIsKept, RequestIsReserved, Asking
    <2> QED
        BY <1>2, <1>4, <2>1 DEF Finish, TypeOK, Labelled
  <1>5. CASE Accept \/ Miss
      BY <1>4, <1>5 DEF Accept, Miss
  <1>6. CASE Reject
    <2>1. Status(Current) = "running" /\ Asking /\ SetTask(Current, "failed")
        BY <1>6 DEF Reject, BudgetIsKept, RequestIsReserved, Asking
    <2> QED
        BY <1>2, <2>1 DEF SetTask, TypeOK, Labelled
  <1>7. ASSUME ~(Observe \/ Accept \/ Miss \/ Reject)
        PROVE  task' = task
      BY <1>7 DEF Next, Work, Trajectory, Dataset, Launch, Drain, Cover, Stop,
         Die, Finished, TakeGame, Ply, Restart, WriteShard, WriteReceipt,
         PrepareGenerated, PrepareDataset, Recover, ArchiveGenerated,
         ArchiveDataset, Supplementing, Supplemental, CloseJournal, db, vars
  <1> QED
      BY <1>1, <1>3, <1>5, <1>6, <1>7

\* An answer that is in the ledger keeps a game complete.
LEMMA CompleteStays ==
    ASSUME TypeOK, Answers, length' = length,
           NEW g \in AllGames, Complete(g), cursor'[g] = cursor[g]
    PROVE  Complete(g)'
  <1>1. PICK p \in 1..Plies : p = cursor[g]
      BY GameTypes DEF Complete
  <1>2. <<g, p, "root">> \in Tasks
      BY IsTask DEF Branches
  <1>3. OnRoot(g, p) \in Labelled => OnRoot(g, p)' = OnRoot(g, p)
      BY <1>2 DEF Answers, OnRoot, Status
  <1> QED
      BY <1>1, <1>3 DEF Complete, Labelled, OnRoot, Status

LEMMA TurnKeepsShards ==
    ASSUME TypeOK, ShardsAreComplete, Answers, Turn, length' = length
    PROVE  ShardsAreComplete'
    BY CompleteStays DEF Turn, ShardsAreComplete, TypeOK

\* The time of a request is on the books before it is searched.
LEMMA ObserveBudget ==
    ASSUME TypeOK, WorkerIsPlaced, BudgetIsKept, Observe
    PROVE  BudgetIsKept' /\ counters' \in Counters /\ spent' \in Nat
  <1>1. Current \in Tasks /\ worker \in Workers /\ worker.ply <= Plies
        /\ worker.pc = "observe"
      BY AskingIsAtTask DEF Observe, Asking
  <1>2. spent' = spent /\ spent \in Nat /\ counters \in Counters
      BY DEF Observe, TypeOK
  <1>3. CASE counters' = counters
             /\ ((\E s \in Labelled : Answered(s)) \/ Deferred)
    <2>1. worker'.pc \notin {"ask", "failed"}
        BY <1>1, <1>3, AnswerLeads, DeferredLeads
    <2> QED
        BY <1>1, <1>2, <1>3, <2>1 DEF BudgetIsKept, RequestIsReserved
  <1>4. CASE Begin(Current) /\ BudgetIsLeft(Current) /\ Go("ask")
    <2>1. /\ task'[Current].status = "running"
          /\ task'[Current].hard = task'[Current].reserved
          /\ counters' \in Counters /\ counters'.restarts = counters.restarts
          /\ counters'.attempts <= HardAttempts
          /\ counters'.seconds <= HardSeconds
          /\ counters'.seconds >= counters.seconds
          /\ task'[Current].reserved =>
                counters'.seconds = counters.seconds + AttemptSeconds
        BY <1>1, <1>4, TaskBegins DEF TypeOK, BudgetIsKept, Status
    <2>2. Current' = Current /\ worker'.pc = "ask"
        BY <1>1, <1>4, Goes DEF Pcs, Current, Stays
    <2>3. /\ Status(Current)' = task'[Current].status
          /\ task[Current]' = task'[Current]
        BY <2>2 DEF Status
    <2>4. RequestIsReserved'
        BY <1>2, <2>1, <2>2, <2>3, Constants DEF RequestIsReserved,
           BudgetIsKept, Counters
    <2> QED
        BY <1>1, <1>2, <2>1, <2>2, <2>4 DEF BudgetIsKept, Counters
  <1> QED
      BY <1>2, <1>3, <1>4 DEF Observe

LEMMA AnswerBudget ==
    ASSUME TypeOK, WorkerIsPlaced, BudgetIsKept, worker.pc = "ask",
           NEW s \in 1..AttemptSeconds, NEW short \in BOOLEAN,
           NEW status \in Closed \union {"hard"},
           status = "hard" => Tried(Current) = 1,
           Finish(Current, status, short, s), Searched(s), worker'.pc # "ask"
    PROVE  BudgetIsKept' /\ counters' \in Counters /\ spent' \in Nat
  <1>1. Current \in Tasks /\ task \in [Tasks -> Rows] /\ spent \in Nat
        /\ counters \in Counters
      BY AskingIsAtTask DEF Asking, TypeOK
  <1>2. /\ counters.seconds <= HardSeconds /\ spent <= counters.seconds
        /\ task[Current].hard = task[Current].reserved
        /\ task[Current].reserved => spent + AttemptSeconds <= counters.seconds
      BY DEF BudgetIsKept, RequestIsReserved
  <1>3. /\ counters' \in Counters /\ counters'.restarts = counters.restarts
        /\ counters'.attempts = counters.attempts
        /\ counters'.seconds <= HardSeconds
        /\ IF task[Current].reserved THEN spent + s <= counters'.seconds
           ELSE spent <= counters'.seconds
      BY <1>1, <1>2, TaskFinishes
  <1>4. spent' = IF task[Current].reserved THEN spent + s ELSE spent
      BY <1>2 DEF Searched
  <1>5. spent' <= counters'.seconds /\ spent' \in Nat
      BY <1>1, <1>3, <1>4, Constants
  <1>6. counters'.restarts <= WorkerRestarts
      BY <1>3 DEF BudgetIsKept
  <1> QED
      BY <1>3, <1>5, <1>6, Constants DEF BudgetIsKept, RequestIsReserved,
         Counters

LEMMA AcceptBudget ==
    ASSUME TypeOK, WorkerIsPlaced, BudgetIsKept, Accept
    PROVE  BudgetIsKept' /\ counters' \in Counters /\ spent' \in Nat
  <1>1. PICK s \in 1..AttemptSeconds, r \in Labelled :
           Finish(Current, r, FALSE, s) /\ Answered(r) /\ Searched(s)
      BY DEF Accept
  <1>2. worker \in Workers /\ worker.ply <= Plies /\ worker.pc = "ask"
      BY AskingIsAtTask DEF Accept, Asking
  <1>3. worker'.pc # "ask"
      BY <1>1, <1>2, AnswerLeads
  <1>4. r \in Closed \union {"hard"} /\ r # "hard"
      BY DEF Closed, Labelled
  <1> QED
      BY <1>1, <1>2, <1>3, <1>4, AnswerBudget

LEMMA MissBudget ==
    ASSUME TypeOK, WorkerIsPlaced, BudgetIsKept, Miss
    PROVE  BudgetIsKept' /\ counters' \in Counters /\ spent' \in Nat
  <1> DEFINE missed == IF Tried(Current) = 1 THEN "hard" ELSE "deferred"
  <1>1. PICK s \in 1..AttemptSeconds, o \in {"depth", "process"} :
           /\ Finish(Current, missed, o = "depth", s) /\ Searched(s)
           /\ IF o = "process" THEN Go("restart")
              ELSE Deferred \/ Ends("failed")
      BY DEF Miss
  <1>2. worker \in Workers /\ worker.ply <= Plies /\ worker.pc = "ask"
      BY AskingIsAtTask DEF Miss, Asking
  <1>3. worker'.pc # "ask"
      BY <1>1, <1>2, DeferredLeads, Goes, EndsSo DEF Pcs
  <1>4. missed \in Closed \union {"hard"}
        /\ (missed = "hard" => Tried(Current) = 1)
        /\ (o = "depth") \in BOOLEAN
      BY DEF Closed
  <1> HIDE DEF missed
  <1> QED
      BY <1>1, <1>2, <1>3, <1>4, AnswerBudget

LEMMA SpendStays ==
    ASSUME TypeOK, BudgetIsKept, worker.pc = "ask", NEW s \in 0..AttemptSeconds,
           Searched(s)
    PROVE  spent' \in Nat /\ spent' <= counters.seconds
  <1>1. /\ spent \in Nat /\ spent <= counters.seconds /\ counters.seconds \in Nat
        /\ task[Current].hard => spent + AttemptSeconds <= counters.seconds
      BY DEF BudgetIsKept, RequestIsReserved, TypeOK, Counters
  <1> QED
      BY <1>1, Constants DEF Searched

LEMMA RejectBudget ==
    ASSUME TypeOK, BudgetIsKept, Reject
    PROVE  BudgetIsKept' /\ counters' \in Counters /\ spent' \in Nat
  <1>1. PICK s \in 1..AttemptSeconds : Searched(s)
      BY DEF Reject
  <1>2. s \in 0..AttemptSeconds /\ worker.pc = "ask" /\ counters' = counters
      BY Constants DEF Reject
  <1>3. spent' \in Nat /\ spent' <= counters.seconds
      BY <1>1, <1>2, SpendStays
  <1>4. worker'.pc = "failed"
      BY EndsSo DEF Reject, Pcs
  <1> QED
      BY <1>2, <1>3, <1>4 DEF BudgetIsKept, RequestIsReserved, TypeOK

LEMMA RestartBudget ==
    ASSUME TypeOK, WorkerIsPlaced, BudgetIsKept, Restart
    PROVE  BudgetIsKept' /\ counters' \in Counters /\ spent' \in Nat
  <1>1. worker \in Workers /\ worker.ply <= Plies /\ worker.pc = "restart"
      BY AskingIsAtTask DEF Restart, Asking
  <1>2. counters \in Counters /\ counters.restarts \in Nat
        /\ counters.restarts + 1 \in Nat
      BY DEF TypeOK, Counters
  <1>3. /\ counters' \in Counters /\ counters'.restarts = counters.restarts + 1
        /\ counters'.seconds = counters.seconds
        /\ counters'.attempts = counters.attempts
      BY <1>2 DEF Restart, Counters
  <1>4. spent' = spent /\ spent \in Nat
      BY DEF Restart, TypeOK
  <1>5. worker'.pc # "ask"
      BY <1>1, DeferredLeads, EndsSo DEF Restart, Pcs
  <1>6. counters.restarts >= WorkerRestarts => worker'.pc = "failed"
      BY EndsSo DEF Restart, Pcs
  <1>7. /\ counters'.restarts <= WorkerRestarts + 1
        /\ worker'.pc # "failed" => counters'.restarts <= WorkerRestarts
      BY <1>1, <1>2, <1>3, <1>6, Constants DEF BudgetIsKept
  <1> QED
      BY <1>3, <1>4, <1>5, <1>7 DEF BudgetIsKept, RequestIsReserved
-----------------------------------------------------------------------------
(* Under a frozen dataset                                                  *)

\* A game that is settled is never asked about again.
LEMMA SettledIsLeft ==
    ASSUME TypeOK, GamesArePlaced, WorkerIsPlaced, BudgetIsKept, Asking,
           \A g \in worker.queue : Settled(g),
           Observe \/ Accept \/ Miss \/ Reject \/ Restart
    PROVE  task' = task
  <1>1. /\ worker.game \in worker.queue /\ worker.game \notin receipt
        /\ cursor[worker.game] = worker.ply /\ worker.branch \in {"root", "focus"}
      BY AskingAt, AskingIsAtTask
  <1>2. OnRoot(worker.game, worker.ply) = "deferred"
      BY <1>1 DEF Settled, Parked
  <1>3. Status(Current) = "deferred"
      BY <1>1, <1>2 DEF WorkerIsPlaced, AtRequest, Current, OnRoot
  <1>4. worker.pc # "ask"
      BY <1>3 DEF BudgetIsKept, RequestIsReserved
  <1> QED
      BY <1>3, <1>4 DEF Observe, Accept, Miss, Reject, Restart

\* What DatasetIsFrozen says is kept by a step that leaves the tables alone.
LEMMA FrozenStays ==
    ASSUME DatasetIsFrozen, journal' = journal, dirs' = dirs,
           worker'.queue \subseteq worker.queue \union Planned,
           Frozen => UNCHANGED <<task, cursor, shard, receipt, quota>>
    PROVE  DatasetIsFrozen'
    BY DEF DatasetIsFrozen, Frozen, Settled, Parked, HardRoots, OnRoot, Status,
       Covered

LEMMA TurnKeepsFrozen ==
    ASSUME TypeOK, GamesArePlaced, WorkerIsPlaced, BudgetIsKept, DatasetIsFrozen,
           Asking, Turn, Observe \/ Accept \/ Miss \/ Reject \/ Restart
    PROVE  DatasetIsFrozen'
  <1>1. Frozen => task' = task
      BY SettledIsLeft DEF DatasetIsFrozen
  <1>2. worker'.queue \subseteq worker.queue \union Planned
      BY EndsSo DEF Turn, Outcome, Failing, Committing, Advancing, Deviating,
         Leaving, Staying, Stays, Pcs
  <1>3. UNCHANGED <<journal, dirs, quota>>
      BY DEF Observe, Accept, Miss, Reject, Restart, disk, given
  <1> QED
      BY <1>1, <1>2, <1>3, FrozenStays DEF Turn

\* What the directories and the journal say is kept by the steps of a game.
LEMMA JournalStays ==
    ASSUME DirectoriesAgree, JournalIsFollowed, UNCHANGED <<dirs, journal>>,
           worker'.pc # "done", worker.pc # "done", ~Closing',
           worker'.forced => worker.forced, Covered => Covered'
    PROVE  DirectoriesAgree' /\ JournalIsFollowed'
  <1>1. DirectoriesAgree'
      BY DEF DirectoriesAgree, Moved
  <1>2. JournalIsFollowed'
      BY DEF JournalIsFollowed, Closing
  <1> QED
      BY <1>1, <1>2

LEMMA TurnKeepsJournal ==
    ASSUME DirectoriesAgree, JournalIsFollowed, Asking, Turn,
           UNCHANGED <<dirs, journal, quota>>
    PROVE  DirectoriesAgree' /\ JournalIsFollowed'
  <1>1. worker'.pc \in {"failed", "shard", "ply", "observe", "next", "ask",
                        "restart"} /\ (worker'.forced => worker.forced)
      BY EndsSo DEF Turn, Outcome, Failing, Committing, Advancing, Deviating,
         Leaving, Staying, Stays, Keeps, Pcs
  <1>2. Covered => Covered'
      BY DEF Turn, Covered
  <1> QED
      BY <1>1, <1>2, JournalStays DEF Asking, Closing

LEMMA TurnBudget ==
    ASSUME TypeOK, WorkerIsPlaced, BudgetIsKept,
           Observe \/ Accept \/ Miss \/ Reject \/ Restart
    PROVE  BudgetIsKept' /\ counters' \in Counters /\ spent' \in Nat
    BY ObserveBudget, AcceptBudget, MissBudget, RejectBudget, RestartBudget

LEMMA TurnTypes ==
    ASSUME TypeOK, Turn, counters' \in Counters, spent' \in Nat,
           UNCHANGED <<dirs, journal, stop, quota, length, deaths>>
    PROVE  TypeOK'
    BY DEF Turn, Only, TypeOK

LEMMA TurnStep ==
    ASSUME IInv, Observe \/ Accept \/ Miss \/ Reject \/ Restart
    PROVE  IInv'
  <1>1. UNCHANGED <<dirs, journal, stop, quota, length, deaths>>
      BY DEF Observe, Accept, Miss, Reject, Restart, disk, given
  <1>2. Turn /\ Asking
      BY Turns DEF IInv
  <1>3. Answers
    <2>1. [Next]_vars
        BY DEF Next, Work, Trajectory
    <2> QED
        BY <2>1, AnswersStay DEF IInv
  <1>4. BudgetIsKept' /\ counters' \in Counters /\ spent' \in Nat
      BY TurnBudget DEF IInv
  <1>5. TypeOK'
      BY <1>1, <1>2, <1>4, TurnTypes DEF IInv
  <1>6. RowsAreKept' /\ GamesArePlaced'
      BY <1>1, <1>2, TurnKeepsTables DEF IInv
  <1>7. WorkerIsPlaced' /\ PassIsThorough' /\ DrainAdvances'
      BY <1>1, <1>2, TurnKeepsPlace, TurnKeepsPass, TurnKeepsDrain DEF IInv
  <1>8. ShardsAreComplete'
      BY <1>1, <1>2, <1>3, TurnKeepsShards DEF IInv
  <1>9. DatasetIsFrozen'
      BY <1>2, TurnKeepsFrozen DEF IInv
  <1>10. DirectoriesAgree' /\ JournalIsFollowed'
      BY <1>1, <1>2, TurnKeepsJournal DEF IInv
  <1> QED
      BY <1>4, <1>5, <1>6, <1>7, <1>8, <1>9, <1>10 DEF IInv
-----------------------------------------------------------------------------
(* The steps around a turn                                                 *)

\* A game whose trajectory is complete is neither hard nor deferred.
LEMMA CompleteIsOver ==
    ASSUME TypeOK, NEW g \in AllGames, GameIsPlaced(g), Complete(g)
    PROVE  ~Hard(g) /\ ~Parked(g)
  <1>1. PICK p \in 1..Plies : p = cursor[g]
      BY GameTypes DEF Complete
  <1>2. OnRoot(g, p) # "absent" => p < length[g]
      BY DEF GameIsPlaced
  <1>3. p = length[g] => ~(p < length[g])
      BY GameTypes
  <1> QED
      BY <1>1, <1>2, <1>3 DEF Complete, Hard, Parked

LEMMA TablesStay ==
    ASSUME UNCHANGED <<task, cursor, length>>
    PROVE  /\ RowsAreKept => RowsAreKept'
           /\ GamesArePlaced => GamesArePlaced'
           /\ UNCHANGED <<shard, receipt>> /\ ShardsAreComplete
                 => ShardsAreComplete'
           /\ \A g : Hard(g)' <=> Hard(g)
           /\ \A g : Parked(g)' <=> Parked(g)
           /\ \A g : Complete(g)' <=> Complete(g)
           /\ HardRoots' = HardRoots
           /\ \A g, p : OnRoot(g, p)' = OnRoot(g, p)
  <1>1. RowsAreKept => RowsAreKept'
      BY DEF RowsAreKept, RowIsKept
  <1>2. GamesArePlaced => GamesArePlaced'
      BY DEF GamesArePlaced, GameIsPlaced, OnRoot, Status
  <1>3. \A g : Complete(g)' <=> Complete(g)
      BY DEF Complete, OnRoot, Status
  <1>4. UNCHANGED <<shard, receipt>> /\ ShardsAreComplete => ShardsAreComplete'
      BY <1>3 DEF ShardsAreComplete
  <1>5. /\ \A g : Hard(g)' <=> Hard(g)
        /\ \A g : Parked(g)' <=> Parked(g)
        /\ \A g, p : OnRoot(g, p)' = OnRoot(g, p)
      BY DEF Hard, Parked, OnRoot, Status
  <1>6. HardRoots' = HardRoots
      BY DEF HardRoots, Status
  <1> QED
      BY <1>1, <1>2, <1>3, <1>4, <1>5, <1>6

LEMMA BudgetStays ==
    ASSUME BudgetIsKept, UNCHANGED <<counters, spent>>, worker'.pc # "ask",
           worker.pc # "failed"
    PROVE  BudgetIsKept'
    BY DEF BudgetIsKept, RequestIsReserved

LEMMA TypesStay ==
    ASSUME TypeOK, worker' \in Workers,
           UNCHANGED <<task, counters, cursor, shard, receipt, dirs, journal,
                       stop, given, deaths, spent>>
    PROVE  TypeOK'
    BY DEF TypeOK, given

LEMMA TakeGameStep ==
    ASSUME IInv, TakeGame
    PROVE  IInv'
  <1>1. PICK g \in worker.queue :
          IF g \in receipt THEN NextGame(g)
          ELSE worker' = [worker EXCEPT !.pc = "ply", !.game = g,
                             !.ply = IF cursor[g] = 0 THEN 1 ELSE cursor[g],
                             !.branch = "root", !.again = FALSE]
      BY DEF TakeGame
  <1>2. /\ worker \in Workers /\ worker.pc = "next" /\ g \in AllGames
        /\ worker.queue \subseteq AllGames /\ InReach \subseteq AllGames
        /\ worker.round \in Nat
      BY WorkerTypes DEF TakeGame, IInv
  <1>3. UNCHANGED <<task, counters, cursor, shard, receipt, dirs, journal, stop,
                    given, deaths, spent>>
      BY DEF TakeGame, db, disk
  <1>4. UNCHANGED <<quota, length>>
      BY <1>3 DEF given
  <1> DEFINE ply == IF cursor[g] = 0 THEN 1 ELSE cursor[g]
  <1>5. /\ ply \in 1..(Plies + 1) /\ cursor[g] \in {ply, ply - 1}
        /\ ply \in Nat /\ ply <= length[g] /\ cursor[g] \in Nat
        /\ \A p \in 1..Plies : p < ply => OnRoot(g, p) = "accepted"
        /\ cursor[g] > 0 => ply = cursor[g]
    <2>1. cursor[g] \in 0..Plies /\ length[g] \in 2..(Plies + 1)
          /\ cursor[g] \in Nat
        BY <1>2, GameTypes DEF IInv
    <2>2. cursor[g] <= length[g]
          /\ \A p \in 1..Plies : p < cursor[g] => OnRoot(g, p) = "accepted"
        BY <1>2 DEF IInv, GamesArePlaced, GameIsPlaced
    <2>3. CASE cursor[g] = 0
      <3>1. \A p \in 1..Plies : ~(p < 1)
          OBVIOUS
      <3> QED
          BY <2>1, <2>3, <3>1, Constants
    <2>4. CASE cursor[g] # 0
        BY <2>1, <2>2, <2>4, Constants
    <2> QED
        BY <2>3, <2>4
  <1> HIDE DEF ply
  <1>6. CASE g \in receipt
    <2>1. worker' \in Workers /\ worker'.pc = "next" /\ Keeps
          /\ worker'.queue = worker.queue \ {g}
        BY <1>1, <1>2, <1>6, TakesNext
    <2>2. ~Hard(g)
        BY <1>2, <1>6, CompleteIsOver DEF IInv, GamesArePlaced,
           ShardsAreComplete
    <2>3. PassIsThorough'
      <3>1. \A h \in (InReach \ worker.queue) \union {g} :
               Settled(h)' \/ Hard(h)'
          BY <1>2, <1>3, <1>4, <1>6, TablesStay DEF IInv, PassIsThorough,
             Passing, Settled
      <3> QED
          BY <2>1, <3>1 DEF PassIsThorough, InReach, Keeps, Closing
    <2>4. DrainAdvances'
      <3>1. worker.round > 0 =>
              /\ \A h \in worker.queue : Hard(h)' /\ cursor'[h] >= worker.round
              /\ \A h \in AllGames \ worker'.queue :
                    Hard(h)' => cursor'[h] > worker.round
          BY <1>2, <1>3, <1>4, <2>1, <2>2, TablesStay DEF IInv, DrainAdvances,
             Passing, Playing, Asking
      <3> QED
          BY <2>1, <3>1 DEF DrainAdvances, Keeps, Playing, Asking
    <2>5. WorkerIsPlaced'
        BY <2>1 DEF WorkerIsPlaced, Playing, Asking
    <2> QED
        BY <1>2, <1>3, <1>4, <2>1, <2>3, <2>4, <2>5, TypesStay, TablesStay,
           BudgetStays, FrozenStays, JournalStays
        DEF IInv, Closing, Keeps, Covered
  <1>7. CASE g \notin receipt
    <2>1. worker' = [worker EXCEPT !.pc = "ply", !.game = g, !.ply = ply,
                                   !.branch = "root", !.again = FALSE]
        BY <1>1, <1>7 DEF ply
    <2>2. worker' \in Workers /\ worker'.pc = "ply" /\ Keeps
          /\ worker'.queue = worker.queue /\ worker'.game = g
          /\ worker'.ply = ply /\ worker'.branch = "root"
        BY <1>2, <1>5, <2>1 DEF Workers, Keeps, Pcs, Branches
    <2>3. PassIsThorough'
      <3>1. \A h \in InReach \ worker.queue : Settled(h)' \/ Hard(h)'
          BY <1>2, <1>3, <1>4, TablesStay DEF IInv, PassIsThorough, Passing,
             Settled
      <3> QED
          BY <2>2, <3>1 DEF PassIsThorough, InReach, Keeps, Closing
    <2>4. DrainAdvances'
      <3>1. worker.round > 0 =>
              /\ \A h \in worker.queue : Hard(h)' /\ cursor'[h] >= worker.round
              /\ \A h \in AllGames \ worker.queue :
                    Hard(h)' => cursor'[h] > worker.round
          BY <1>2, <1>3, <1>4, TablesStay DEF IInv, DrainAdvances,
             Passing, Playing, Asking
      <3>2. worker.round > 0 => Hard(worker.game)'
          BY <2>2, <3>1 DEF Hard, OnRoot, Status
      <3>3. worker.round > 0 => SecondTry'
          BY <2>2, <3>2 DEF SecondTry
      <3> QED
          BY <2>2, <3>1, <3>3 DEF DrainAdvances, Keeps, Playing
    <2>5. AtPly'
      <3>1. /\ worker'.ply <= length'[worker'.game] /\ worker'.branch = "root"
            /\ cursor'[worker'.game] \in {worker'.ply, worker'.ply - 1}
          BY <1>3, <1>4, <1>5, <2>2
      <3>2. \A p \in 1..Plies : p < worker'.ply =>
               task'[<<worker'.game, p, "root">>].status = "accepted"
          BY <1>3, <1>5, <2>2 DEF OnRoot, Status
      <3> QED
          BY <3>1, <3>2 DEF AtPly, OnRoot, Status
    <2>6. WorkerIsPlaced'
        BY <1>3, <1>7, <2>2, <2>5 DEF WorkerIsPlaced, Asking
    <2> QED
        BY <1>2, <1>3, <1>4, <2>2, <2>3, <2>4, <2>6, TypesStay, TablesStay,
           BudgetStays, FrozenStays, JournalStays
        DEF IInv, Closing, Keeps, Covered
  <1> QED
      BY <1>6, <1>7
\* The cursor moves only past an accepted answer, to a position nobody asked
\* about.
LEMMA PlyMoves ==
    ASSUME TypeOK, GamesArePlaced, WorkerIsPlaced, Ply,
           NEW g \in AllGames, g = worker.game
    PROVE  /\ cursor' \in [AllGames -> 0..Plies]
           /\ \A h \in AllGames \ {g} : cursor'[h] = cursor[h]
           /\ worker.ply \in Nat /\ worker.ply > 0
           /\ IF worker.ply > Plies THEN cursor' = cursor /\ cursor[g] = Plies
              ELSE cursor'[g] = worker.ply /\ worker.ply \in 1..Plies
           /\ \A p \in 1..Plies : p < worker.ply => OnRoot(g, p) = "accepted"
           /\ worker.ply <= length[g] /\ cursor[g] \in {worker.ply, worker.ply - 1}
           /\ g \in worker.queue /\ g \notin receipt
  <1>1. /\ worker.ply \in 1..(Plies + 1) /\ worker.ply \in Nat
        /\ cursor \in [AllGames -> 0..Plies] /\ worker.pc = "ply"
      BY WorkerTypes DEF TypeOK, Ply
  <1>2. AtPly /\ worker.game \in worker.queue /\ worker.game \notin receipt
      BY <1>1 DEF WorkerIsPlaced, Playing
  <1>3. worker.ply <= length[g] /\ cursor[g] \in {worker.ply, worker.ply - 1}
        /\ \A p \in 1..Plies : p < worker.ply => OnRoot(g, p) = "accepted"
      BY <1>2 DEF AtPly
  <1>4. CASE worker.ply > Plies
      BY <1>1, <1>2, <1>3, <1>4, GameTypes, Constants DEF Ply
  <1>5. CASE ~(worker.ply > Plies)
    <2>1. worker.ply \in 1..Plies /\ worker.ply \in 0..Plies
        BY <1>1, <1>5, Constants
    <2>2. cursor' = [cursor EXCEPT ![worker.game] = worker.ply]
        BY <1>5 DEF Ply
    <2> QED
        BY <1>1, <1>2, <1>3, <1>5, <2>1, <2>2, Constants
  <1> QED
      BY <1>4, <1>5

LEMMA PlyKeepsGame ==
    ASSUME TypeOK, GamesArePlaced, WorkerIsPlaced, Ply, NEW g \in AllGames
    PROVE  /\ Hard(g)' <=> Hard(g)
           /\ Parked(g)' <=> Parked(g)
           /\ Complete(g) => Complete(g)'
           /\ GameIsPlaced(g)'
           /\ cursor'[g] >= cursor[g]
           /\ Hard(g) \/ Parked(g) => cursor'[g] = cursor[g]
  <1>1. task' = task /\ length' = length /\ GameIsPlaced(g)
        /\ cursor[g] \in Nat
      BY GameTypes DEF Ply, given, GamesArePlaced
  <1>2. CASE cursor'[g] = cursor[g]
    <2>1. GameIsPlaced(g)'
        BY <1>1, <1>2 DEF GameIsPlaced, OnRoot, Status
    <2>2. \A p : OnRoot(g, p)' = OnRoot(g, p)
        BY <1>1 DEF OnRoot, Status
    <2> QED
        BY <1>1, <1>2, <2>1, <2>2, SameGame
  <1>3. CASE cursor'[g] # cursor[g]
    <2>1. PICK p \in 1..Plies :
             /\ cursor'[g] = p /\ cursor[g] = p - 1 /\ p <= length[g]
             /\ \A q \in 1..Plies : q < p => OnRoot(g, q) = "accepted"
        BY <1>3, PlyMoves, WorkerTypes
    <2>2. p \in Nat /\ p > 0 /\ length[g] \in Nat /\ Plies \in Nat
        BY GameTypes, Constants
    <2>3. OnRoot(g, p)' = OnRoot(g, p) /\ OnRoot(g, p) = "absent"
        BY <1>1, <2>1, <2>2 DEF GameIsPlaced, OnRoot, Status
    <2>4. ~Hard(g)' /\ ~Parked(g)'
        BY <2>1, <2>3 DEF Hard, Parked, OnRoot, Status
    <2>5. cursor[g] > 0 => cursor[g] \in 1..Plies /\ cursor[g] < p
        BY <2>1, <2>2
    <2>6. cursor[g] > 0 => OnRoot(g, cursor[g]) = "accepted"
        BY <2>1, <2>5
    <2>7. ~Hard(g) /\ ~Parked(g)
        BY <2>6 DEF Hard, Parked
    <2>8. ~Complete(g)
        BY <2>1, <2>2, <2>6 DEF Complete
    <2>9. GameIsPlaced(g)'
      <3>1. \A q \in 1..Plies :
               /\ q < p => OnRoot(g, q) = "accepted"
               /\ q > p => OnRoot(g, q) = "absent"
               /\ OnRoot(g, q) # "absent" => q < length[g]
          BY <1>1, <2>1, <2>2 DEF GameIsPlaced
      <3>2. \A q : OnRoot(g, q)' = OnRoot(g, q)
          BY <1>1 DEF OnRoot, Status
      <3> QED
          BY <1>1, <2>1, <3>1, <3>2 DEF GameIsPlaced
    <2> QED
        BY <2>1, <2>2, <2>4, <2>7, <2>8, <2>9
  <1> QED
      BY <1>2, <1>3

LEMMA PlyStep ==
    ASSUME IInv, Ply
    PROVE  IInv'
  <1>1. PICK g \in AllGames : g = worker.game
      BY WorkerTypes DEF IInv
  <1>2. /\ worker \in Workers /\ worker.pc = "ply" /\ worker.branch = "root"
        /\ worker.queue \subseteq AllGames /\ InReach \subseteq AllGames
        /\ worker.round \in Nat /\ g \in worker.queue /\ g \notin receipt
        /\ worker.ply \in Nat
      BY <1>1, WorkerTypes, PlyMoves DEF Ply, IInv, WorkerIsPlaced, AtPly
  <1>3. UNCHANGED <<task, counters, shard, receipt, dirs, journal, stop,
                    given, deaths, spent>> /\ UNCHANGED <<quota, length>>
      BY DEF Ply, disk, given
  <1>4. \A h \in AllGames :
           /\ Hard(h)' <=> Hard(h)
           /\ Settled(h)' <=> Settled(h)
           /\ Complete(h) => Complete(h)'
           /\ GameIsPlaced(h)'
           /\ cursor'[h] >= cursor[h]
           /\ Hard(h) => cursor'[h] = cursor[h]
      BY <1>3, PlyKeepsGame DEF IInv, Settled
  <1>5. /\ \/ Ends("dead")
           \/ Go("shard") /\ Complete(g)'
           \/ Go("observe") /\ cursor'[g] = worker.ply /\ worker.ply < length[g]
    <2>1. CASE worker.ply > Plies
      <3>1. cursor[g] = Plies /\ cursor'[g] = cursor[g] /\ Plies \in 1..Plies
            /\ Plies < worker.ply
          BY <1>1, <2>1, PlyMoves, Constants DEF IInv
      <3>2. OnRoot(g, cursor[g]) = "accepted"
          BY <1>1, <3>1, PlyMoves DEF IInv
      <3>3. Complete(g)'
          BY <1>3, <3>1, <3>2, Constants DEF Complete, OnRoot, Status
      <3> QED
          BY <2>1, <3>3 DEF Ply
    <2>2. CASE ~(worker.ply > Plies)
      <3>1. cursor'[g] = worker.ply /\ worker.ply > 0 /\ worker.ply <= length[g]
            /\ length[g] \in Nat
          BY <1>1, <2>2, PlyMoves, GameTypes DEF IInv
      <3>2. worker.ply = length[g] => Complete(g)'
          BY <1>3, <3>1 DEF Complete
      <3>3. worker.ply # length[g] => worker.ply < length[g]
          BY <1>2, <3>1
      <3> QED
          BY <1>1, <2>2, <3>1, <3>2, <3>3 DEF Ply
    <2> QED
        BY <2>1, <2>2
  <1>6. /\ worker' \in Workers /\ worker'.pc \in {"dead", "shard", "observe"}
        /\ worker'.pc = "dead" =>
              /\ worker'.queue = {} /\ ~worker'.forced
        /\ worker'.pc # "dead" =>
              /\ Stays /\ worker'.ply = worker.ply /\ worker'.branch = "root"
      BY <1>2, <1>5, Goes, EndsSo DEF Pcs
  <1>7. TypeOK'
    <2>1. cursor' \in [AllGames -> 0..Plies]
        BY <1>1, PlyMoves DEF IInv
    <2> QED
        BY <1>3, <1>6, <2>1 DEF IInv, TypeOK
  <1>8. RowsAreKept' /\ GamesArePlaced' /\ ShardsAreComplete'
      BY <1>3, <1>4 DEF IInv, RowsAreKept, RowIsKept, GamesArePlaced,
         ShardsAreComplete, TypeOK
  <1>9. WorkerIsPlaced'
    <2>1. worker'.pc = "shard" => Complete(worker.game)'
      <3>1. worker'.pc = "shard" => Complete(g)' /\ worker'.game = g
          BY <1>1, <1>2, <1>5, <1>6, Goes, EndsSo DEF Stays, Pcs
      <3> QED
          BY <3>1 DEF Complete, OnRoot, Status
    <2>2. worker'.pc = "observe" => AtRequest'
      <3>1. worker'.pc = "observe" =>
               cursor'[g] = worker.ply /\ worker.ply < length[g]
          BY <1>2, <1>5, Goes, EndsSo DEF Pcs
      <3> QED
          BY <1>1, <1>3, <1>6, <3>1 DEF AtRequest, Stays
    <2>3. worker'.pc # "dead" =>
             worker'.game \in worker'.queue /\ worker'.game \notin receipt'
        BY <1>1, <1>2, <1>3, <1>6 DEF Stays
    <2> QED
        BY <1>6, <2>1, <2>2, <2>3 DEF WorkerIsPlaced, Asking, Playing
  <1>10. PassIsThorough'
    <2>1. worker'.pc # "dead" => InReach' = InReach /\ worker'.queue = worker.queue
        BY <1>6 DEF InReach, Stays, Keeps
    <2>2. \A h \in InReach \ worker.queue : Settled(h)' \/ Hard(h)'
        BY <1>2, <1>4 DEF IInv, PassIsThorough, Passing, Playing
    <2> QED
        BY <1>6, <2>1, <2>2 DEF PassIsThorough, Passing, Playing, Asking,
           Closing
  <1>11. DrainAdvances'
    <2>1. SUFFICES ASSUME worker'.pc # "dead", worker'.round > 0
                   PROVE  DrainAdvances'
        BY <1>6 DEF DrainAdvances, Passing, Playing, Asking
    <2>2. worker'.round = worker.round /\ worker'.queue = worker.queue
          /\ worker'.game = g /\ worker'.ply = worker.ply /\ worker.round > 0
        BY <1>1, <1>6, <2>1 DEF Stays, Keeps
    <2>3. /\ \A h \in worker.queue \ {g} : Hard(h) /\ cursor[h] >= worker.round
          /\ \A h \in AllGames \ worker.queue : Hard(h) => cursor[h] > worker.round
          /\ cursor[g] >= worker.round
          /\ worker.ply <= worker.round => Hard(g)
        BY <1>1, <1>2, <2>2 DEF IInv, DrainAdvances, Passing, Playing,
           SecondTry
    <2>4. /\ \A h \in worker.queue \ {g} : Hard(h)' /\ cursor'[h] >= worker.round
          /\ \A h \in AllGames \ worker.queue : Hard(h)' => cursor'[h] > worker.round
        BY <1>2, <1>4, <2>3
    <2>5. cursor'[g] >= worker.round
      <3>1. cursor[g] \in Nat /\ cursor'[g] \in Nat
        <4>1. cursor'[g] \in 0..Plies
            BY <1>1, PlyMoves DEF IInv
        <4> QED
            BY <4>1, GameTypes, Constants DEF IInv
      <3> QED
          BY <1>2, <1>4, <2>3, <3>1
    <2>6. worker.ply <= worker.round => Hard(worker.game)'
      <3>1. worker.ply <= worker.round => Hard(g)'
          BY <1>4, <2>3
      <3> QED
          BY <2>2, <3>1 DEF Hard, OnRoot, Status
    <2>7. SecondTry'
        BY <1>6, <2>1, <2>2, <2>6 DEF SecondTry
    <2> QED
        BY <2>1, <2>2, <2>4, <2>5, <2>7, <1>6 DEF DrainAdvances, Playing,
           Asking
  <1>12. DatasetIsFrozen'
    <2>1. Frozen => cursor' = cursor
      <3>1. Frozen => Parked(g)
          BY <1>2 DEF IInv, DatasetIsFrozen, Settled
      <3>2. Frozen => cursor'[g] = cursor[g]
          BY <3>1, PlyKeepsGame DEF IInv
      <3>3. cursor' \in [AllGames -> 0..Plies] /\ cursor \in [AllGames -> 0..Plies]
            /\ \A h \in AllGames \ {g} : cursor'[h] = cursor[h]
          BY <1>1, PlyMoves DEF IInv, TypeOK
      <3> QED
          BY <3>2, <3>3
    <2>2. worker'.queue \subseteq worker.queue \union Planned
        BY <1>6 DEF Stays
    <2> QED
        BY <1>3, <2>1, <2>2, FrozenStays DEF IInv
  <1>13. DirectoriesAgree' /\ JournalIsFollowed' /\ BudgetIsKept'
      BY <1>2, <1>3, <1>6, JournalStays, BudgetStays DEF IInv, Closing,
         Covered, Stays, Keeps
  <1> QED
      BY <1>7, <1>8, <1>9, <1>10, <1>11, <1>12, <1>13 DEF IInv
\* Committed games are only ever added, so that coverage lasts.
LEMMA CoverageLasts ==
    ASSUME TypeOK, receipt' \subseteq AllGames, receipt \subseteq receipt',
           quota' = quota, Covered
    PROVE  Covered'
  <1>1. IsFiniteSet(AllGames)
      BY Constants, FS_Interval DEF AllGames
  <1>2. IsFiniteSet(receipt')
      BY <1>1, FS_Subset
  <1>3. Cardinality(receipt) <= Cardinality(receipt')
        /\ Cardinality(receipt') \in Nat /\ IsFiniteSet(receipt)
      BY <1>2, FS_Subset, FS_CardinalityType
  <1>4. Cardinality(receipt) \in Nat /\ quota.receipts \in Nat
      BY <1>3, FS_CardinalityType, Constants DEF TypeOK
  <1> QED
      BY <1>3, <1>4 DEF Covered

LEMMA WriteShardStep ==
    ASSUME IInv, WriteShard
    PROVE  IInv'
  <1>1. PICK g \in AllGames : g = worker.game
      BY WorkerTypes DEF IInv
  <1>2. /\ worker \in Workers /\ worker.pc = "shard" /\ g \in worker.queue
        /\ g \notin receipt /\ Complete(g)
      BY <1>1, WorkerTypes DEF WriteShard, IInv, WorkerIsPlaced, Playing
  <1>3. UNCHANGED <<task, counters, cursor, receipt, dirs, journal, stop,
                    given, deaths, spent>> /\ UNCHANGED <<quota, length>>
        /\ shard' = shard \union {g}
      BY <1>1 DEF WriteShard, db, given
  <1>4. worker' \in Workers /\ worker'.pc = "receipt" /\ Stays
      BY <1>2, Goes DEF WriteShard, Pcs
  <1>5. TypeOK'
      BY <1>1, <1>3, <1>4 DEF IInv, TypeOK
  <1>6. /\ \A h : Hard(h)' <=> Hard(h)
        /\ \A h : Parked(h)' <=> Parked(h)
        /\ \A h : Complete(h)' <=> Complete(h)
        /\ RowsAreKept' /\ GamesArePlaced'
      BY <1>3, TablesStay DEF IInv
  <1>7. ShardsAreComplete'
      BY <1>2, <1>3, <1>6 DEF IInv, ShardsAreComplete
  <1>8. WorkerIsPlaced'
    <2>1. Complete(g)' /\ worker'.game = g /\ worker'.queue = worker.queue
        BY <1>1, <1>2, <1>4, <1>6 DEF Stays
    <2>2. Complete(worker.game)'
        BY <2>1 DEF Complete, OnRoot, Status
    <2> QED
        BY <1>2, <1>3, <1>4, <2>1, <2>2 DEF WorkerIsPlaced, Asking
  <1>9. PassIsThorough'
    <2>1. \A h \in InReach \ worker.queue : Settled(h)' \/ Hard(h)'
        BY <1>2, <1>3, <1>6 DEF IInv, PassIsThorough, Passing, Playing, Settled
    <2> QED
        BY <1>4, <2>1 DEF PassIsThorough, Closing, Stays, Keeps, InReach
  <1>10. DrainAdvances'
    <2>1. worker.round > 0 =>
            /\ \A h \in worker.queue \ {g} : Hard(h) /\ cursor[h] >= worker.round
            /\ \A h \in AllGames \ worker.queue : Hard(h) => cursor[h] > worker.round
            /\ cursor[g] >= worker.round
        BY <1>1, <1>2 DEF IInv, DrainAdvances, Passing, Playing
    <2>2. SecondTry'
        BY <1>4 DEF SecondTry
    <2> QED
        BY <1>1, <1>3, <1>4, <1>6, <2>1, <2>2 DEF DrainAdvances, Stays, Keeps,
           Playing
  <1>11. DatasetIsFrozen'
    <2>1. ~Frozen
      <3>1. ~Parked(g)
          BY <1>2, CompleteIsOver DEF IInv, GamesArePlaced
      <3> QED
          BY <1>2, <3>1 DEF IInv, DatasetIsFrozen, Settled
    <2> QED
        BY <1>3, <2>1 DEF DatasetIsFrozen, Frozen
  <1>12. DirectoriesAgree' /\ JournalIsFollowed' /\ BudgetIsKept'
      BY <1>2, <1>3, <1>4, JournalStays, BudgetStays DEF IInv, Closing,
         Covered, Stays, Keeps
  <1> QED
      BY <1>5, <1>6, <1>7, <1>8, <1>9, <1>10, <1>11, <1>12 DEF IInv

LEMMA WriteReceiptStep ==
    ASSUME IInv, WriteReceipt
    PROVE  IInv'
  <1>1. PICK g \in AllGames : g = worker.game
      BY WorkerTypes DEF IInv
  <1>2. /\ worker \in Workers /\ worker.pc = "receipt" /\ g \in worker.queue
        /\ g \notin receipt /\ Complete(g) /\ g \in shard
      BY <1>1, WorkerTypes DEF WriteReceipt, IInv, WorkerIsPlaced, Playing
  <1>3. UNCHANGED <<task, counters, cursor, shard, dirs, journal, stop,
                    given, deaths, spent>> /\ UNCHANGED <<quota, length>>
        /\ receipt' = receipt \union {g}
      BY <1>1 DEF WriteReceipt, db, given
  <1>4. worker' \in Workers /\ worker'.pc = "next" /\ Keeps
        /\ worker'.queue = worker.queue \ {g}
      BY <1>1, <1>2, TakesNext DEF WriteReceipt
  <1>5. TypeOK'
      BY <1>1, <1>3, <1>4 DEF IInv, TypeOK
  <1>6. /\ \A h : Hard(h)' <=> Hard(h)
        /\ \A h : Parked(h)' <=> Parked(h)
        /\ \A h : Complete(h)' <=> Complete(h)
        /\ RowsAreKept' /\ GamesArePlaced'
      BY <1>3, TablesStay DEF IInv
  <1>7. ShardsAreComplete'
      BY <1>2, <1>3, <1>6 DEF IInv, ShardsAreComplete
  <1>8. WorkerIsPlaced'
      BY <1>4 DEF WorkerIsPlaced, Asking, Playing
  <1>9. ~Parked(g) /\ ~Hard(g)
      BY <1>2, CompleteIsOver DEF IInv, GamesArePlaced
  <1>10. PassIsThorough'
    <2>1. \A h \in InReach \ worker.queue : Settled(h)' \/ Hard(h)'
        BY <1>2, <1>3, <1>6 DEF IInv, PassIsThorough, Passing, Playing, Settled
    <2>2. Settled(g)'
        BY <1>3 DEF Settled
    <2> QED
        BY <1>4, <2>1, <2>2 DEF PassIsThorough, Closing, Keeps, InReach
  <1>11. DrainAdvances'
    <2>1. worker.round > 0 =>
            /\ \A h \in worker.queue \ {g} : Hard(h) /\ cursor[h] >= worker.round
            /\ \A h \in AllGames \ worker.queue : Hard(h) => cursor[h] > worker.round
        BY <1>1, <1>2 DEF IInv, DrainAdvances, Passing, Playing
    <2> QED
        BY <1>1, <1>3, <1>4, <1>6, <1>9, <2>1 DEF DrainAdvances, Keeps,
           Playing, Asking
  <1>12. DatasetIsFrozen'
    <2>1. ~Frozen
        BY <1>2, <1>9 DEF IInv, DatasetIsFrozen, Settled
    <2> QED
        BY <1>3, <2>1 DEF DatasetIsFrozen, Frozen
  <1>13. DirectoriesAgree' /\ JournalIsFollowed' /\ BudgetIsKept'
    <2>1. Covered => Covered'
        BY <1>3, <1>5, CoverageLasts DEF IInv, TypeOK
    <2> QED
        BY <1>2, <1>3, <1>4, <2>1, JournalStays, BudgetStays DEF IInv,
           Closing, Keeps
  <1> QED
      BY <1>5, <1>6, <1>7, <1>8, <1>10, <1>11, <1>12, <1>13 DEF IInv

LEMMA TrajectoryStep ==
    ASSUME IInv, Trajectory
    PROVE  IInv'
    BY TakeGameStep, PlyStep, TurnStep, WriteShardStep, WriteReceiptStep DEF
       Trajectory
-----------------------------------------------------------------------------
(* Passes, drains and coverage                                             *)

LEMMA HardRootsAreHard ==
    ASSUME TypeOK, GamesArePlaced
    PROVE  HardRoots = {g \in AllGames : Hard(g)}
  <1>1. ASSUME NEW g \in AllGames, NEW p \in 1..Plies, OnRoot(g, p) = "hard"
        PROVE  Hard(g)
    <2>1. ~(p < cursor[g]) /\ ~(p > cursor[g])
        BY <1>1 DEF GamesArePlaced, GameIsPlaced
    <2>2. p = cursor[g] /\ cursor[g] > 0
        BY <2>1, GameTypes, Constants
    <2> QED
        BY <1>1, <2>2 DEF Hard
  <1>2. ASSUME NEW g \in AllGames, Hard(g)
        PROVE  \E p \in 1..Plies : OnRoot(g, p) = "hard"
      BY <1>2, GameTypes DEF Hard
  <1> QED
      BY <1>1, <1>2 DEF HardRoots, OnRoot

AtRest == worker.pc \in {"dead", "next", "cover", "done", "failed"} \/ Closing

\* A step that touches no table and plays no game.
LEMMA RestStays ==
    ASSUME IInv, worker' \in Workers, AtRest', worker.pc # "failed",
           UNCHANGED <<task, counters, cursor, shard, receipt, given, spent>>,
           dirs' \in Directories, journal' \in Journals, stop' \in BOOLEAN,
           deaths' \in 0..MaxDeaths
    PROVE  /\ TypeOK' /\ RowsAreKept' /\ GamesArePlaced' /\ ShardsAreComplete'
           /\ WorkerIsPlaced' /\ BudgetIsKept'
           /\ \A h : Hard(h)' <=> Hard(h)
           /\ \A h : Settled(h)' <=> Settled(h)
           /\ HardRoots' = HardRoots /\ (Covered' <=> Covered)
           /\ ~Playing'
  <1>1. UNCHANGED <<quota, length>>
      BY DEF given
  <1>2. ~Playing' /\ worker'.pc # "ask"
      BY DEF Playing, Asking, AtRest, Closing
  <1>3. TypeOK'
      BY <1>1 DEF IInv, TypeOK
  <1>4. WorkerIsPlaced'
      BY <1>2 DEF WorkerIsPlaced, Playing, Asking
  <1>5. BudgetIsKept'
      BY <1>2, BudgetStays DEF IInv
  <1>6. Covered' <=> Covered
      BY <1>1 DEF Covered
  <1> QED
      BY <1>1, <1>2, <1>3, <1>4, <1>5, <1>6, TablesStay DEF IInv, Settled

LEMMA EndsStep ==
    ASSUME IInv, NEW why \in {"dead", "failed"}, Ends(why), worker.pc # "done",
           worker.pc # "failed",
           UNCHANGED <<task, counters, cursor, shard, receipt, given, dirs,
                       journal, stop, spent>>, deaths' \in 0..MaxDeaths
    PROVE  IInv'
  <1>1. worker' \in Workers /\ worker'.pc = why /\ ~worker'.forced
        /\ worker'.queue = {}
      BY EndsSo DEF Pcs
  <1>2. AtRest' /\ ~Passing' /\ ~Closing' /\ worker'.pc \notin {"cover", "done"}
      BY <1>1 DEF AtRest, Passing, Playing, Asking, Closing
  <1>3. /\ TypeOK' /\ RowsAreKept' /\ GamesArePlaced' /\ ShardsAreComplete'
        /\ WorkerIsPlaced' /\ BudgetIsKept' /\ (Covered => Covered')
      BY <1>1, <1>2, RestStays DEF IInv, TypeOK
  <1>4. PassIsThorough' /\ DrainAdvances'
      BY <1>2 DEF PassIsThorough, DrainAdvances
  <1>5. DatasetIsFrozen'
      BY <1>1, FrozenStays DEF IInv, given
  <1>6. DirectoriesAgree' /\ JournalIsFollowed'
      BY <1>1, <1>2, <1>3, JournalStays DEF IInv
  <1> QED
      BY <1>3, <1>4, <1>5, <1>6 DEF IInv

LEMMA StartsPass ==
    ASSUME NEW f \in BOOLEAN, worker' = [Idle EXCEPT !.pc = "next",
                                    !.queue = Planned, !.forced = f]
    PROVE  worker' \in Workers /\ worker'.pc = "next" /\ worker'.queue = Planned
           /\ worker'.forced = f /\ worker'.phase = "main" /\ worker'.round = 0
    BY IdleIsWorker, GameSets DEF Idle, Workers, Pcs

\* The pass that a launch and a supplement begin.
LEMMA PassBegins ==
    ASSUME IInv, NEW f \in BOOLEAN,
           worker' = [Idle EXCEPT !.pc = "next", !.queue = Planned, !.forced = f],
           worker.pc \in {"dead", "supplementing"},
           f => journal.phase = "supplementing", stop' \in BOOLEAN,
           UNCHANGED <<db, disk, given, spent, deaths>>
    PROVE  IInv'
  <1>1. /\ worker' \in Workers /\ worker'.pc = "next" /\ worker'.queue = Planned
        /\ worker'.forced = f /\ worker'.phase = "main" /\ worker'.round = 0
      BY StartsPass
  <1>2. UNCHANGED <<task, counters, cursor, shard, receipt, given, dirs,
                    journal, spent, deaths>>
      BY DEF db, disk
  <1>3. AtRest' /\ ~Closing' /\ worker'.pc \notin {"cover", "done"}
      BY <1>1 DEF AtRest, Closing
  <1>4. /\ TypeOK' /\ RowsAreKept' /\ GamesArePlaced' /\ ShardsAreComplete'
        /\ WorkerIsPlaced' /\ BudgetIsKept' /\ (Covered => Covered')
      BY <1>1, <1>2, <1>3, RestStays DEF IInv, TypeOK
  <1>5. PassIsThorough' /\ DrainAdvances'
      BY <1>1, <1>3 DEF PassIsThorough, DrainAdvances, InReach
  <1>6. DatasetIsFrozen'
      BY <1>1, <1>2, FrozenStays DEF IInv, given
  <1>7. DirectoriesAgree'
      BY <1>1, <1>2 DEF IInv, DirectoriesAgree, Moved
  <1>8. JournalIsFollowed'
      BY <1>1, <1>2, <1>3, <1>4 DEF IInv, JournalIsFollowed, Closing
  <1> QED
      BY <1>4, <1>5, <1>6, <1>7, <1>8 DEF IInv

LEMMA LaunchStep ==
    ASSUME IInv, Launch
    PROVE  IInv'
  <1>1. worker' = [Idle EXCEPT !.pc = "next", !.queue = Planned, !.forced = FALSE]
    <2>1. worker' = [Idle EXCEPT !.pc = "next", !.queue = Planned]
        BY DEF Launch
    <2>2. Idle.forced = FALSE /\ Idle \in Workers
        BY IdleIsWorker DEF Idle
    <2> QED
        BY <2>1, <2>2 DEF Workers
  <1> QED
      BY <1>1, PassBegins DEF Launch

LEMMA DrainStep ==
    ASSUME IInv, Drain
    PROVE  IInv'
  <1>1. /\ worker \in Workers /\ worker.pc = "next" /\ worker.queue = {}
        /\ InReach \subseteq AllGames /\ worker.round \in Nat
        /\ worker.round <= Plies
      BY WorkerTypes DEF Drain, IInv
  <1>2. UNCHANGED <<task, counters, cursor, shard, receipt, given, dirs,
                    journal, spent, deaths, stop>>
      BY DEF Drain, db, disk
  <1>3. HardRoots = {g \in AllGames : Hard(g)}
      BY HardRootsAreHard DEF IInv
  <1>4. \A g \in InReach : Settled(g) \/ Hard(g)
      BY <1>1 DEF IInv, PassIsThorough, Passing
  <1>5. worker.round > 0 =>
           \A g \in AllGames : Hard(g) => cursor[g] > worker.round
      BY <1>1 DEF IInv, DrainAdvances, Passing
  <1>6. \A g \in AllGames : Hard(g) => cursor[g] \in Nat /\ cursor[g] > 0
                                       /\ cursor[g] <= Plies
      BY GameTypes, Constants DEF IInv, Hard
  <1>7. CASE HardRoots = {} \/ worker.round = Rounds
    <2>1. worker' = [worker EXCEPT !.pc = "cover", !.round = 0]
        BY <1>7 DEF Drain
    <2>2. /\ worker' \in Workers /\ worker'.pc = "cover" /\ worker'.round = 0
          /\ worker'.queue = {} /\ worker'.phase = worker.phase
          /\ worker'.forced = worker.forced
      <3>1. 0 \in 0..Rounds
          BY Constants DEF Rounds
      <3> QED
          BY <1>1, <2>1, <3>1 DEF Workers, Pcs
    <2>3. HardRoots = {}
      <3>1. CASE worker.round = Rounds
        <4>1. \A g \in AllGames : ~Hard(g)
            BY <1>1, <1>5, <1>6, <3>1, Constants DEF Rounds
        <4> QED
            BY <1>3, <4>1
      <3> QED
          BY <1>7, <3>1
    <2>4. AtRest' /\ ~Passing' /\ ~Closing'
        BY <2>2 DEF AtRest, Passing, Playing, Asking, Closing
    <2>5. /\ TypeOK' /\ RowsAreKept' /\ GamesArePlaced' /\ ShardsAreComplete'
          /\ WorkerIsPlaced' /\ BudgetIsKept' /\ (Covered => Covered')
          /\ \A h : Settled(h)' <=> Settled(h)
          /\ HardRoots' = HardRoots
        BY <1>1, <1>2, <2>2, <2>4, RestStays DEF IInv, TypeOK
    <2>6. InReach' = InReach
        BY <2>2 DEF InReach
    <2>7. \A g \in InReach : Settled(g)
        BY <1>1, <1>3, <1>4, <2>3
    <2>8. PassIsThorough' /\ DrainAdvances'
        BY <2>2, <2>3, <2>4, <2>5, <2>6, <2>7 DEF PassIsThorough, DrainAdvances
    <2>9. DatasetIsFrozen'
        BY <1>2, <2>2, FrozenStays DEF IInv, given
    <2>10. DirectoriesAgree' /\ JournalIsFollowed'
        BY <1>1, <1>2, <2>2, <2>4, <2>5, JournalStays DEF IInv
    <2> QED
        BY <2>5, <2>8, <2>9, <2>10 DEF IInv
  <1>8. CASE ~(HardRoots = {} \/ worker.round = Rounds)
    <2>1. worker' = [worker EXCEPT !.queue = HardRoots, !.round = @ + 1]
        BY <1>8 DEF Drain
    <2>2. worker.round + 1 \in 0..Rounds
        BY <1>1, <1>8, Constants DEF Rounds
    <2>3. HardRoots \subseteq AllGames
        BY <1>3
    <2>4. /\ worker' \in Workers /\ worker'.pc = "next"
          /\ worker'.round = worker.round + 1
          /\ worker'.queue = HardRoots /\ worker'.phase = worker.phase
          /\ worker'.forced = worker.forced
        BY <1>1, <2>1, <2>2, <2>3 DEF Workers
    <2>5. AtRest' /\ ~Closing'
        BY <2>4 DEF AtRest, Closing
    <2>6. /\ TypeOK' /\ RowsAreKept' /\ GamesArePlaced' /\ ShardsAreComplete'
          /\ WorkerIsPlaced' /\ BudgetIsKept' /\ (Covered => Covered')
          /\ \A h : Settled(h)' <=> Settled(h)
          /\ \A h : Hard(h)' <=> Hard(h)
          /\ ~Playing'
        BY <1>1, <1>2, <2>4, <2>5, RestStays DEF IInv, TypeOK
    <2>7. InReach' = InReach
        BY <2>4 DEF InReach
    <2>8. PassIsThorough'
        BY <1>1, <1>3, <1>4, <2>4, <2>5, <2>6, <2>7 DEF PassIsThorough
    <2>9. DrainAdvances'
      <3>1. \A g \in AllGames : Hard(g) => cursor[g] >= worker.round + 1
          BY <1>1, <1>5, <1>6
      <3> QED
          BY <1>2, <1>3, <2>4, <2>6, <3>1 DEF DrainAdvances
    <2>10. DatasetIsFrozen'
      <3>1. ~Frozen
          BY <1>8 DEF IInv, DatasetIsFrozen
      <3> QED
          BY <1>2, <3>1 DEF DatasetIsFrozen, Frozen
    <2>11. DirectoriesAgree' /\ JournalIsFollowed'
        BY <1>1, <1>2, <2>4, <2>5, <2>6, JournalStays DEF IInv
    <2> QED
        BY <2>6, <2>8, <2>9, <2>10, <2>11 DEF IInv
  <1> QED
      BY <1>7, <1>8

LEMMA CoverStep ==
    ASSUME IInv, Cover
    PROVE  IInv'
  <1>1. /\ worker \in Workers /\ worker.pc = "cover" /\ worker.queue = {}
        /\ worker.round = 0 /\ HardRoots = {} /\ \A g \in InReach : Settled(g)
        /\ worker.phase \in {"main", "supplement"}
      BY WorkerTypes DEF Cover, IInv, PassIsThorough
  <1>2. UNCHANGED <<task, counters, cursor, shard, receipt, given, dirs,
                    journal, spent, deaths, stop>>
      BY DEF Cover, db, disk
  <1>3. CASE Ends("failed")
      BY <1>1, <1>2, <1>3, EndsStep DEF IInv, TypeOK
  <1>4. CASE worker.phase = "main" /\ (worker.forced \/ ~Covered)
             /\ worker' = [worker EXCEPT !.pc = "next", !.phase = "supplement",
                                         !.queue = Supplemented]
    <2>1. /\ worker' \in Workers /\ worker'.pc = "next" /\ worker'.round = 0
          /\ worker'.queue = Supplemented /\ worker'.phase = "supplement"
          /\ worker'.forced = worker.forced
        BY <1>1, <1>4, GameSets DEF Workers, Pcs
    <2>2. AtRest' /\ ~Closing'
        BY <2>1 DEF AtRest, Closing
    <2>3. /\ TypeOK' /\ RowsAreKept' /\ GamesArePlaced' /\ ShardsAreComplete'
          /\ WorkerIsPlaced' /\ BudgetIsKept' /\ (Covered => Covered')
          /\ \A h : Settled(h)' <=> Settled(h)
          /\ HardRoots' = HardRoots
        BY <1>1, <1>2, <2>1, <2>2, RestStays DEF IInv, TypeOK
    <2>4. InReach = Planned /\ InReach' = AllGames
        BY <1>4, <2>1 DEF InReach
    <2>5. PassIsThorough' /\ DrainAdvances'
        BY <1>1, <2>1, <2>2, <2>3, <2>4, GameSets DEF PassIsThorough,
           DrainAdvances
    <2>6. DatasetIsFrozen'
      <3>1. Frozen => \A g \in AllGames : Settled(g)
          BY <1>1, <1>4 DEF IInv, DatasetIsFrozen, JournalIsFollowed
      <3>2. Frozen' <=> Frozen
          BY <1>2 DEF Frozen
      <3>3. UNCHANGED quota
          BY <1>2 DEF given
      <3>4. Frozen => /\ dirs.generated \in {{}, receipt}
                      /\ dirs.dataset \in {{}, receipt}
                      /\ shard = receipt /\ HardRoots = {} /\ Covered
          BY DEF IInv, DatasetIsFrozen
      <3> QED
          BY <1>2, <2>1, <2>3, <3>1, <3>2, <3>4, GameSets DEF DatasetIsFrozen
    <2>7. DirectoriesAgree' /\ JournalIsFollowed'
        BY <1>1, <1>2, <2>1, <2>2, <2>3, JournalStays DEF IInv
    <2> QED
        BY <2>3, <2>5, <2>6, <2>7 DEF IInv
  <1>5. CASE ~(worker.phase = "main" /\ (worker.forced \/ ~Covered)) /\ Covered
             /\ Go("recover")
    <2>1. /\ worker' \in Workers /\ worker'.pc = "recover" /\ Stays
        BY <1>1, <1>5, Goes DEF Pcs
    <2>2. AtRest' /\ Closing' /\ ~Passing'
        BY <2>1 DEF AtRest, Closing, Passing, Playing, Asking
    <2>3. /\ TypeOK' /\ RowsAreKept' /\ GamesArePlaced' /\ ShardsAreComplete'
          /\ WorkerIsPlaced' /\ BudgetIsKept' /\ Covered'
          /\ \A h : Settled(h)' <=> Settled(h)
          /\ HardRoots' = HardRoots
        BY <1>1, <1>2, <1>5, <2>1, <2>2, RestStays DEF IInv, TypeOK
    <2>4. InReach' = InReach
        BY <2>1 DEF InReach, Stays, Keeps
    <2>5. PassIsThorough' /\ DrainAdvances'
        BY <1>1, <2>1, <2>2, <2>3, <2>4 DEF PassIsThorough, DrainAdvances,
           Stays, Keeps
    <2>6. DatasetIsFrozen'
        BY <1>2, <2>1, FrozenStays DEF IInv, given, Stays
    <2>7. DirectoriesAgree'
        BY <1>1, <1>2, <2>1 DEF IInv, DirectoriesAgree, Moved
    <2>8. JournalIsFollowed'
        BY <1>1, <1>2, <1>5, <2>1, <2>3 DEF IInv, JournalIsFollowed, Stays,
           Keeps
    <2> QED
        BY <2>3, <2>5, <2>6, <2>7, <2>8 DEF IInv
  <1> QED
      BY <1>3, <1>4, <1>5 DEF Cover
-----------------------------------------------------------------------------
(* The dataset and the journal                                             *)

\* What the steps of _prepare_recovery leave alone.
LEMMA ClosingStays ==
    ASSUME IInv, Closing, worker' \in Workers, Stays,
           Closing' \/ worker'.pc = "done",
           UNCHANGED <<task, counters, cursor, shard, receipt, given, spent,
                       stop, deaths>>,
           dirs' \in Directories, journal' \in Journals
    PROVE  /\ TypeOK' /\ RowsAreKept' /\ GamesArePlaced' /\ ShardsAreComplete'
           /\ WorkerIsPlaced' /\ BudgetIsKept' /\ PassIsThorough'
           /\ DrainAdvances'
           /\ \A h : Settled(h)' <=> Settled(h)
           /\ HardRoots' = HardRoots /\ Covered /\ Covered'
  <1>1. AtRest' /\ ~Passing' /\ worker.pc # "failed"
      BY DEF AtRest, Closing, Passing, Playing, Asking
  <1>2. /\ TypeOK' /\ RowsAreKept' /\ GamesArePlaced' /\ ShardsAreComplete'
        /\ WorkerIsPlaced' /\ BudgetIsKept' /\ (Covered' <=> Covered)
        /\ \A h : Settled(h)' <=> Settled(h)
        /\ HardRoots' = HardRoots
      BY <1>1, RestStays DEF IInv, TypeOK
  <1>3. InReach' = InReach
      BY DEF InReach, Stays, Keeps
  <1>4. Covered
      BY DEF IInv, JournalIsFollowed
  <1>5. PassIsThorough'
      BY <1>1, <1>2, <1>3 DEF IInv, PassIsThorough, Stays, Keeps
  <1>6. DrainAdvances'
      BY <1>1 DEF DrainAdvances
  <1> QED
      BY <1>2, <1>4, <1>5, <1>6

\* A dataset is made of the committed games when nothing is left to ask.
LEMMA PreparingKnows ==
    ASSUME IInv, worker.pc \in {"recover", "again"},
           worker.pc = "recover" => journal.phase = "none"
    PROVE  /\ Closing /\ worker \in Workers /\ HardRoots = {} /\ Covered
           /\ worker.queue = {} /\ \A g \in Planned : Settled(g)
           /\ journal.phase = "supplementing" => \A g \in AllGames : Settled(g)
           /\ journal.phase # "archiving"
  <1>1. Closing /\ worker \in Workers /\ HardRoots = {} /\ worker.queue = {}
        /\ \A g \in InReach : Settled(g)
      BY DEF IInv, TypeOK, Closing, PassIsThorough
  <1>2. worker.pc = "again" => /\ worker.forced /\ journal.phase = "supplementing"
                               /\ worker.phase = "supplement"
      BY <1>1 DEF IInv, JournalIsFollowed
  <1>3. journal.phase = "supplementing" => InReach = AllGames
      BY <1>2 DEF InReach
  <1>4. Planned \subseteq InReach
      BY GameSets DEF InReach
  <1>5. Covered
      BY <1>1 DEF IInv, JournalIsFollowed
  <1> QED
      BY <1>1, <1>2, <1>3, <1>4, <1>5

LEMMA PrepareGeneratedStep ==
    ASSUME IInv, PrepareGenerated
    PROVE  IInv'
  <1>1. UNCHANGED <<task, counters, cursor, shard, receipt, given, spent, stop,
                    deaths, journal>> /\ quota' = quota
        /\ worker.pc \in {"recover", "again"}
        /\ dirs.dataset = {} /\ dirs.generated = {}
      BY DEF PrepareGenerated, db, given, NoDataset
  <1>2. /\ Closing /\ worker \in Workers /\ HardRoots = {} /\ Covered
        /\ worker.queue = {} /\ \A g \in Planned : Settled(g)
        /\ journal.phase = "supplementing" => \A g \in AllGames : Settled(g)
        /\ journal.phase # "archiving"
      BY PreparingKnows DEF PrepareGenerated
  <1>3. CASE Ends("failed") /\ dirs' = dirs
      BY <1>1, <1>3, EndsStep DEF IInv, TypeOK
  <1>4. CASE shard = receipt /\ receipt # {} /\ worker' = worker
             /\ dirs' = [dirs EXCEPT !.generated = receipt]
    <2>1. /\ dirs' \in Directories /\ dirs'.generated = receipt
          /\ dirs'.dataset = {} /\ dirs'.oldGenerated = dirs.oldGenerated
          /\ dirs'.oldDataset = dirs.oldDataset
        BY <1>1, <1>4 DEF IInv, TypeOK, Directories
    <2>2. Stays /\ Closing' /\ journal' \in Journals /\ worker' \in Workers
        BY <1>1, <1>2, <1>4 DEF Stays, Keeps, Closing, IInv, TypeOK
    <2>3. /\ TypeOK' /\ RowsAreKept' /\ GamesArePlaced' /\ ShardsAreComplete'
          /\ WorkerIsPlaced' /\ BudgetIsKept' /\ PassIsThorough'
          /\ DrainAdvances'
          /\ \A h : Settled(h)' <=> Settled(h)
          /\ HardRoots' = HardRoots /\ Covered'
        BY <1>1, <1>2, <2>1, <2>2, ClosingStays
    <2>4. DatasetIsFrozen'
        BY <1>1, <1>2, <1>4, <2>1, <2>3 DEF DatasetIsFrozen
    <2>5. DirectoriesAgree'
        BY <1>1, <1>2, <1>4, <2>1 DEF IInv, DirectoriesAgree
    <2>6. JournalIsFollowed'
        BY <1>1, <1>4, <2>2, <2>3 DEF IInv, JournalIsFollowed, Closing
    <2> QED
        BY <2>3, <2>4, <2>5, <2>6 DEF IInv
  <1> QED
      BY <1>3, <1>4 DEF PrepareGenerated

LEMMA PrepareDatasetStep ==
    ASSUME IInv, PrepareDataset
    PROVE  IInv'
  <1>1. UNCHANGED <<task, counters, cursor, shard, receipt, given, spent, stop,
                    deaths, journal>> /\ quota' = quota
        /\ worker.pc \in {"recover", "again"} /\ worker' = worker
        /\ dirs.dataset = {} /\ dirs.generated # {}
      BY DEF PrepareDataset, db, given, NoDataset
  <1>2. /\ Closing /\ worker \in Workers /\ HardRoots = {} /\ Covered
        /\ worker.queue = {} /\ \A g \in Planned : Settled(g)
        /\ journal.phase = "supplementing" => \A g \in AllGames : Settled(g)
        /\ journal.phase # "archiving"
      BY PreparingKnows DEF PrepareDataset
  <1>3. dirs.generated = receipt /\ shard = receipt
      BY <1>1 DEF IInv, DatasetIsFrozen, Frozen
  <1>4. /\ dirs' \in Directories /\ dirs'.generated = receipt
        /\ dirs'.dataset = receipt /\ dirs'.oldGenerated = dirs.oldGenerated
        /\ dirs'.oldDataset = dirs.oldDataset
      BY <1>1, <1>3 DEF IInv, TypeOK, Directories, PrepareDataset
  <1>5. Stays /\ Closing' /\ journal' \in Journals /\ worker' \in Workers
      BY <1>1, <1>2 DEF Stays, Keeps, Closing, IInv, TypeOK
  <1>6. /\ TypeOK' /\ RowsAreKept' /\ GamesArePlaced' /\ ShardsAreComplete'
        /\ WorkerIsPlaced' /\ BudgetIsKept' /\ PassIsThorough'
        /\ DrainAdvances'
        /\ \A h : Settled(h)' <=> Settled(h)
        /\ HardRoots' = HardRoots /\ Covered'
      BY <1>1, <1>2, <1>4, <1>5, ClosingStays
  <1>7. DatasetIsFrozen'
      BY <1>1, <1>2, <1>3, <1>4, <1>6 DEF DatasetIsFrozen
  <1>8. DirectoriesAgree'
      BY <1>1, <1>2, <1>4 DEF IInv, DirectoriesAgree
  <1>9. JournalIsFollowed'
      BY <1>1, <1>5, <1>6 DEF IInv, JournalIsFollowed, Closing
  <1> QED
      BY <1>6, <1>7, <1>8, <1>9 DEF IInv

LEMMA RecoverStep ==
    ASSUME IInv, Recover
    PROVE  IInv'
  <1>1. UNCHANGED <<task, counters, cursor, shard, receipt, given, spent, stop,
                    deaths, dirs>> /\ quota' = quota
        /\ worker.pc = "recover" /\ Closing /\ worker \in Workers
      BY DEF Recover, db, given, Closing, IInv, TypeOK
  <1>2. dirs' \in Directories /\ dirs \in Directories /\ journal \in Journals
      BY <1>1 DEF IInv, TypeOK
  <1>3. CASE journal.phase # "none" /\ Go(journal.phase) /\ journal' = journal
    <2>1. journal.phase \in {"archiving", "supplementing"} /\ journal.phase \in Pcs
        BY <1>2, <1>3 DEF Journals, Pcs
    <2>2. worker' \in Workers /\ worker'.pc = journal.phase /\ Stays
        BY <1>1, <1>3, <2>1, Goes
    <2>3. Closing' /\ worker'.pc \in {"archiving", "supplementing"}
        BY <2>1, <2>2 DEF Closing
    <2>4. /\ TypeOK' /\ RowsAreKept' /\ GamesArePlaced' /\ ShardsAreComplete'
          /\ WorkerIsPlaced' /\ BudgetIsKept' /\ PassIsThorough'
          /\ DrainAdvances' /\ Covered'
        BY <1>1, <1>2, <1>3, <2>2, <2>3, ClosingStays
    <2>5. DatasetIsFrozen'
        BY <1>1, <1>3, <2>2, FrozenStays DEF IInv, Stays
    <2>6. DirectoriesAgree'
        BY <1>1, <1>3, <2>3 DEF IInv, DirectoriesAgree, Moved
    <2>7. JournalIsFollowed'
        BY <1>1, <1>3, <2>2, <2>3, <2>4 DEF IInv, JournalIsFollowed, Closing,
           Stays, Keeps
    <2> QED
        BY <2>4, <2>5, <2>6, <2>7 DEF IInv
  <1>4. CASE journal.phase = "none" /\ Covers(dirs.dataset) /\ Go("done")
             /\ journal' = journal
    <2>1. worker' \in Workers /\ worker'.pc = "done" /\ Stays
        BY <1>1, <1>4, Goes DEF Pcs
    <2>2. /\ TypeOK' /\ RowsAreKept' /\ GamesArePlaced' /\ ShardsAreComplete'
          /\ WorkerIsPlaced' /\ BudgetIsKept' /\ PassIsThorough'
          /\ DrainAdvances' /\ Covered'
        BY <1>1, <1>2, <1>4, <2>1, ClosingStays
    <2>3. DatasetIsFrozen'
        BY <1>1, <1>4, <2>1, FrozenStays DEF IInv, Stays
    <2>4. dirs.dataset # {} /\ Covers(dirs.dataset)'
        BY <1>1, <1>4 DEF Recover, NoDataset, Covers
    <2>5. DirectoriesAgree'
        BY <1>1, <1>4, <2>1 DEF IInv, DirectoriesAgree, Moved
    <2>6. JournalIsFollowed'
        BY <1>1, <1>4, <2>1, <2>2, <2>4 DEF IInv, JournalIsFollowed, Closing
    <2> QED
        BY <2>2, <2>3, <2>5, <2>6 DEF IInv
  <1>5. CASE journal.phase = "none" /\ Go("archiving")
             /\ journal' = [phase |-> "archiving", manifest |-> dirs.dataset]
    <2>1. worker' \in Workers /\ worker'.pc = "archiving" /\ Stays /\ Closing'
        BY <1>1, <1>5, Goes DEF Pcs, Closing
    <2>2. journal' \in Journals /\ journal'.phase = "archiving"
          /\ journal'.manifest = dirs.dataset
        BY <1>2, <1>5 DEF Journals, Directories
    <2>3. /\ TypeOK' /\ RowsAreKept' /\ GamesArePlaced' /\ ShardsAreComplete'
          /\ WorkerIsPlaced' /\ BudgetIsKept' /\ PassIsThorough'
          /\ DrainAdvances' /\ Covered'
          /\ \A h : Settled(h)' <=> Settled(h)
          /\ HardRoots' = HardRoots
        BY <1>1, <1>2, <2>1, <2>2, ClosingStays
    <2>4. DatasetIsFrozen'
        BY <1>1, <2>1, <2>2, <2>3 DEF IInv, DatasetIsFrozen, Frozen, Stays
    <2>5. dirs.dataset # {} /\ ~worker.forced
        BY <1>1, <1>5 DEF IInv, Recover, NoDataset, JournalIsFollowed
    <2>6. /\ dirs.generated = dirs.dataset
          /\ dirs.oldGenerated = {} /\ dirs.oldDataset = {}
        BY <1>1, <1>5, <2>5 DEF IInv, DirectoriesAgree
    <2>7. DirectoriesAgree'
        BY <1>1, <2>2, <2>5, <2>6 DEF DirectoriesAgree, Moved
    <2>8. JournalIsFollowed'
        BY <2>1, <2>2, <2>3, <2>5 DEF JournalIsFollowed, Stays, Keeps
    <2> QED
        BY <2>3, <2>4, <2>7, <2>8 DEF IInv
  <1> QED
      BY <1>3, <1>4, <1>5 DEF Recover

\* While the journal says archiving, each directory is in one of two places.
LEMMA ArchivingKnows ==
    ASSUME IInv, worker.pc = "archiving"
    PROVE  /\ Closing /\ worker \in Workers /\ journal.phase = "archiving"
           /\ journal.manifest # {} /\ Covered
           /\ Moved(dirs.oldGenerated, dirs.generated)
           /\ Moved(dirs.oldDataset, dirs.dataset)
           /\ dirs \in Directories /\ journal \in Journals
    BY DEF IInv, TypeOK, Closing, JournalIsFollowed, DirectoriesAgree

LEMMA ArchiveStep ==
    ASSUME IInv, ArchiveGenerated \/ ArchiveDataset
    PROVE  IInv'
  <1>1. UNCHANGED <<task, counters, cursor, shard, receipt, given, spent, stop,
                    deaths, journal>> /\ quota' = quota
        /\ worker.pc = "archiving" /\ worker' = worker
      BY DEF ArchiveGenerated, ArchiveDataset, db, given
  <1>2. /\ Closing /\ worker \in Workers /\ journal.phase = "archiving"
        /\ journal.manifest # {}
        /\ Moved(dirs.oldGenerated, dirs.generated)
        /\ Moved(dirs.oldDataset, dirs.dataset)
        /\ dirs \in Directories /\ journal \in Journals
      BY <1>1, ArchivingKnows
  <1>3. /\ dirs' \in Directories
        /\ \/ /\ dirs.oldGenerated = {} /\ dirs'.oldGenerated = dirs.generated
              /\ dirs'.generated = {} /\ dirs'.dataset = dirs.dataset
              /\ dirs'.oldDataset = dirs.oldDataset
           \/ /\ dirs.oldDataset = {} /\ dirs'.oldDataset = dirs.dataset
              /\ dirs'.dataset = {} /\ dirs'.generated = dirs.generated
              /\ dirs'.oldGenerated = dirs.oldGenerated
      BY <1>2 DEF ArchiveGenerated, ArchiveDataset, Directories, NoDataset
  <1>4. Stays /\ Closing'
      BY <1>1, <1>2 DEF Stays, Keeps, Closing
  <1>5. /\ TypeOK' /\ RowsAreKept' /\ GamesArePlaced' /\ ShardsAreComplete'
        /\ WorkerIsPlaced' /\ BudgetIsKept' /\ PassIsThorough'
        /\ DrainAdvances' /\ Covered'
        /\ \A h : Settled(h)' <=> Settled(h)
        /\ HardRoots' = HardRoots
      BY <1>1, <1>2, <1>3, <1>4, ClosingStays
  <1>6. DatasetIsFrozen'
    <2>1. Frozen' => Frozen
        BY <1>3 DEF Frozen
    <2>2. dirs'.generated \in {{}, dirs.generated}
          /\ dirs'.dataset \in {{}, dirs.dataset}
        BY <1>3
    <2> QED
        BY <1>1, <1>2, <1>5, <2>1, <2>2 DEF IInv, DatasetIsFrozen
  <1>7. DirectoriesAgree'
      BY <1>1, <1>2, <1>3 DEF IInv, DirectoriesAgree, Moved
  <1>8. JournalIsFollowed'
      BY <1>1, <1>4, <1>5 DEF IInv, JournalIsFollowed, Closing
  <1> QED
      BY <1>5, <1>6, <1>7, <1>8 DEF IInv

LEMMA SupplementingStep ==
    ASSUME IInv, Supplementing
    PROVE  IInv'
  <1>1. UNCHANGED <<task, counters, cursor, shard, receipt, given, spent, stop,
                    deaths, dirs>> /\ quota' = quota
        /\ worker.pc = "archiving"
        /\ dirs.oldGenerated # {} /\ dirs.oldDataset # {}
      BY DEF Supplementing, db, given, NoDataset
  <1>2. /\ Closing /\ worker \in Workers /\ journal.phase = "archiving"
        /\ journal.manifest # {}
        /\ Moved(dirs.oldGenerated, dirs.generated)
        /\ Moved(dirs.oldDataset, dirs.dataset)
        /\ dirs \in Directories /\ journal \in Journals
      BY <1>1, ArchivingKnows
  <1>3. /\ dirs.generated = {} /\ dirs.dataset = {}
        /\ dirs.oldDataset = journal.manifest
      BY <1>1, <1>2 DEF Moved
  <1>4. Go("supplementing") /\ journal' = [journal EXCEPT !.phase = "supplementing"]
      BY <1>3 DEF Supplementing
  <1>5. worker' \in Workers /\ worker'.pc = "supplementing" /\ Stays /\ Closing'
      BY <1>2, <1>4, Goes DEF Pcs, Closing
  <1>6. journal' \in Journals /\ journal'.phase = "supplementing"
        /\ journal'.manifest = journal.manifest
      BY <1>2, <1>4 DEF Journals
  <1>7. /\ TypeOK' /\ RowsAreKept' /\ GamesArePlaced' /\ ShardsAreComplete'
        /\ WorkerIsPlaced' /\ BudgetIsKept' /\ PassIsThorough'
        /\ DrainAdvances' /\ Covered'
      BY <1>1, <1>2, <1>5, <1>6, ClosingStays
  <1>8. DatasetIsFrozen'
      BY <1>1, <1>3 DEF DatasetIsFrozen, Frozen
  <1>9. DirectoriesAgree'
      BY <1>1, <1>2, <1>3, <1>6 DEF DirectoriesAgree
  <1>10. JournalIsFollowed'
      BY <1>2, <1>5, <1>6, <1>7 DEF IInv, JournalIsFollowed, Stays, Keeps
  <1> QED
      BY <1>7, <1>8, <1>9, <1>10 DEF IInv

LEMMA SupplementalStep ==
    ASSUME IInv, Supplemental
    PROVE  IInv'
  <1>1. worker.pc = "supplementing" /\ Closing /\ worker \in Workers
        /\ worker.forced \in BOOLEAN /\ journal.phase = "supplementing"
      BY WorkerTypes DEF Supplemental, Closing, IInv, JournalIsFollowed
  <1>2. UNCHANGED <<task, counters, cursor, shard, receipt, given, spent, stop,
                    deaths, dirs, journal>> /\ quota' = quota
      BY DEF Supplemental, db, disk, given
  <1>3. CASE worker.forced
    <2>1. Go("again")
        BY <1>3 DEF Supplemental, Go
    <2>2. worker' \in Workers /\ worker'.pc = "again" /\ Stays /\ Closing'
        BY <1>1, <2>1, Goes DEF Pcs, Closing
    <2>3. dirs' \in Directories /\ journal' \in Journals
        BY <1>2 DEF IInv, TypeOK
    <2>4. /\ TypeOK' /\ RowsAreKept' /\ GamesArePlaced' /\ ShardsAreComplete'
          /\ WorkerIsPlaced' /\ BudgetIsKept' /\ PassIsThorough'
          /\ DrainAdvances' /\ Covered'
        BY <1>1, <1>2, <2>2, <2>3, ClosingStays
    <2>5. DatasetIsFrozen'
        BY <1>2, <2>2, FrozenStays DEF IInv, Stays
    <2>6. DirectoriesAgree'
        BY <1>1, <1>2, <2>2 DEF IInv, DirectoriesAgree, Moved
    <2>7. JournalIsFollowed'
        BY <1>1, <1>2, <1>3, <2>2, <2>4 DEF IInv, JournalIsFollowed, Stays,
           Keeps
    <2> QED
        BY <2>4, <2>5, <2>6, <2>7 DEF IInv
  <1>4. CASE ~worker.forced
    <2>1. worker' = [Idle EXCEPT !.pc = "next", !.queue = Planned, !.forced = TRUE]
        BY <1>4 DEF Supplemental
    <2>2. stop' \in BOOLEAN
        BY <1>2 DEF IInv, TypeOK
    <2> QED
        BY <1>1, <2>1, <2>2, PassBegins DEF Supplemental
  <1> QED
      BY <1>3, <1>4

LEMMA CloseJournalStep ==
    ASSUME IInv, CloseJournal
    PROVE  IInv'
  <1>1. UNCHANGED <<task, counters, cursor, shard, receipt, given, spent, stop,
                    deaths, dirs>> /\ quota' = quota
        /\ worker.pc = "again" /\ Closing /\ worker \in Workers
        /\ dirs.dataset # {}
      BY DEF CloseJournal, db, given, Closing, IInv, TypeOK, NoDataset
  <1>2. CASE Ends("failed") /\ journal' = journal
      BY <1>1, <1>2, EndsStep DEF IInv, TypeOK
  <1>3. CASE Covers(dirs.dataset) /\ journal' = NoJournal /\ Go("done")
    <2>1. worker' \in Workers /\ worker'.pc = "done" /\ Stays
        BY <1>1, <1>3, Goes DEF Pcs
    <2>2. journal' \in Journals /\ journal'.phase = "none" /\ dirs' \in Directories
        BY <1>1, <1>3 DEF Journals, NoJournal, IInv, TypeOK
    <2>3. /\ TypeOK' /\ RowsAreKept' /\ GamesArePlaced' /\ ShardsAreComplete'
          /\ WorkerIsPlaced' /\ BudgetIsKept' /\ PassIsThorough'
          /\ DrainAdvances' /\ Covered'
          /\ \A h : Settled(h)' <=> Settled(h)
          /\ HardRoots' = HardRoots
        BY <1>1, <2>1, <2>2, ClosingStays
    <2>4. DatasetIsFrozen'
        BY <1>1, <2>1, <2>2, <2>3 DEF IInv, DatasetIsFrozen, Frozen, Stays
    <2>5. Covers(dirs.dataset)'
        BY <1>1, <1>3 DEF Covers
    <2>6. journal.phase = "supplementing"
        BY <1>1 DEF IInv, JournalIsFollowed
    <2>7. DirectoriesAgree'
        BY <1>1, <1>3, <2>1, <2>2, <2>6 DEF IInv, DirectoriesAgree
    <2>8. JournalIsFollowed'
        BY <1>1, <2>1, <2>2, <2>3, <2>5 DEF JournalIsFollowed, Closing
    <2> QED
        BY <2>3, <2>4, <2>7, <2>8 DEF IInv
  <1> QED
      BY <1>2, <1>3 DEF CloseJournal
-----------------------------------------------------------------------------
(* The environment, and the theorems                                       *)

\* A stop, and a step that changes nothing.
LEMMA StillStep ==
    ASSUME IInv, Stop \/ UNCHANGED vars
    PROVE  IInv'
  <1>1. UNCHANGED <<task, counters, cursor, shard, receipt, quota, length,
                    spent, dirs, journal, worker>>
      BY DEF Stop, vars, db, disk, given
  <1>2. stop' \in BOOLEAN /\ deaths' \in 0..MaxDeaths
    <2>1. stop \in BOOLEAN /\ deaths \in 0..MaxDeaths
        BY DEF IInv, TypeOK
    <2>2. CASE Stop
      <3>1. stop' = TRUE /\ deaths' = deaths + 1 /\ deaths < MaxDeaths
          BY <2>2 DEF Stop
      <3> QED
          BY <2>1, <3>1, Constants
    <2>3. CASE UNCHANGED vars
        BY <2>1, <2>3 DEF vars
    <2> QED
        BY <2>2, <2>3
  <1>3. TypeOK' /\ RowsAreKept' /\ GamesArePlaced' /\ ShardsAreComplete'
      BY <1>1, <1>2, TablesStay DEF IInv, TypeOK
  <1>4. BudgetIsKept' /\ WorkerIsPlaced'
      BY <1>1 DEF IInv, BudgetIsKept, RequestIsReserved, WorkerIsPlaced, AtPly,
         AtRequest, Complete, Playing, Asking, Current, Status, OnRoot
  <1>5. PassIsThorough'
      BY <1>1, TablesStay DEF IInv, PassIsThorough, Passing, Playing, Asking,
         Closing, InReach, Settled
  <1>6. SecondTry => SecondTry'
      BY <1>1 DEF SecondTry, Hard, OnRoot, Status, Tried, Current
  <1>7. DrainAdvances'
      BY <1>1, <1>6, TablesStay DEF IInv, DrainAdvances, Passing, Playing,
         Asking
  <1>8. DatasetIsFrozen'
      BY <1>1, FrozenStays DEF IInv
  <1>9. DirectoriesAgree' /\ JournalIsFollowed'
      BY <1>1 DEF IInv, DirectoriesAgree, Moved, JournalIsFollowed, Closing,
         Covered, Covers
  <1> QED
      BY <1>3, <1>4, <1>5, <1>7, <1>8, <1>9 DEF IInv

LEMMA DieStep ==
    ASSUME IInv, Die
    PROVE  IInv'
  <1>1. UNCHANGED <<task, counters, cursor, shard, receipt, given, dirs,
                    journal, stop>> /\ Ends("dead")
        /\ worker.pc # "done" /\ worker.pc # "failed"
      BY DEF Die, db, disk
  <1>2. deaths' \in 0..MaxDeaths
    <2>1. deaths \in 0..MaxDeaths
        BY DEF IInv, TypeOK
    <2> QED
        BY <2>1, Constants DEF Die
  <1>3. CASE spent' = spent
      BY <1>1, <1>2, <1>3, EndsStep
  <1>4. CASE spent' # spent
    <2>1. PICK s \in 0..AttemptSeconds : Searched(s) /\ worker.pc = "ask"
        BY <1>4 DEF Die
    <2>2. spent' \in Nat /\ spent' <= counters.seconds
        BY <2>1, SpendStays DEF IInv
    <2>3. worker' \in Workers /\ worker'.pc = "dead" /\ ~worker'.forced
          /\ worker'.queue = {}
        BY <1>1, EndsSo DEF Pcs
    <2>4. ~Passing' /\ ~Playing' /\ ~Asking' /\ ~Closing'
          /\ worker'.pc \notin {"cover", "done", "ask"}
        BY <2>3 DEF Passing, Playing, Asking, Closing
    <2>5. TypeOK'
        BY <1>1, <1>2, <2>2, <2>3 DEF IInv, TypeOK, given
    <2>6. BudgetIsKept'
        BY <1>1, <2>1, <2>2, <2>4 DEF IInv, BudgetIsKept, RequestIsReserved
    <2>7. RowsAreKept' /\ GamesArePlaced' /\ ShardsAreComplete'
        BY <1>1, TablesStay DEF IInv, given
    <2>8. WorkerIsPlaced' /\ PassIsThorough' /\ DrainAdvances'
        BY <2>3, <2>4 DEF WorkerIsPlaced, PassIsThorough, DrainAdvances, Asking
    <2>9. DatasetIsFrozen'
        BY <1>1, <2>3, FrozenStays DEF IInv, given
    <2>10. DirectoriesAgree' /\ JournalIsFollowed'
        BY <1>1, <2>3, <2>4, JournalStays DEF IInv, given, Covered
    <2> QED
        BY <2>5, <2>6, <2>7, <2>8, <2>9, <2>10 DEF IInv
  <1> QED
      BY <1>3, <1>4

LEMMA InitHolds ==
    ASSUME Init
    PROVE  IInv
  <1>1. /\ worker.pc = "dead" /\ ~worker.forced /\ worker.queue = {}
        /\ worker \in Workers
      BY IdleIsWorker DEF Init
  <1>2. ~Passing /\ ~Playing /\ ~Asking /\ ~Closing
      BY <1>1 DEF Passing, Playing, Asking, Closing
  <1>3. \A t \in Tasks : task[t] = NewRow /\ Status(t) = "absent"
      BY RowsAreRows DEF Init, Status
  <1>4. \A g \in AllGames : cursor[g] = 0 /\ length[g] \in 2..(Plies + 1)
      BY DEF Init
  <1>5. TypeOK
    <2>1. counters \in Counters /\ dirs \in Directories /\ journal \in Journals
        BY DEF Init, Counters, Directories, Journals, NoJournal
    <2>2. task \in [Tasks -> Rows]
        BY RowsAreRows DEF Init
    <2>3. 0 \in 0..Plies /\ 0 \in 0..MaxDeaths /\ 0 \in Nat
        BY Constants
    <2> QED
        BY <1>1, <2>1, <2>2, <2>3 DEF Init, TypeOK
  <1>6. RowsAreKept
      BY <1>3 DEF RowsAreKept, RowIsKept, Status
  <1>7. GamesArePlaced
    <2>1. ASSUME NEW g \in AllGames PROVE GameIsPlaced(g)
      <3>1. cursor[g] = 0 /\ cursor[g] <= length[g]
          BY <1>4, Constants
      <3>2. ASSUME NEW p \in 1..Plies PROVE OnRoot(g, p) = "absent"
        <4>1. <<g, p, "root">> \in Tasks
            BY IsTask DEF Branches
        <4> QED
            BY <1>3, <4>1 DEF OnRoot
      <3>3. \A p \in 1..Plies : ~(p < 0)
          OBVIOUS
      <3> QED
          BY <3>1, <3>2, <3>3 DEF GameIsPlaced
    <2> QED
        BY <2>1 DEF GamesArePlaced
  <1>8. BudgetIsKept
      BY <1>1, Constants DEF Init, BudgetIsKept, RequestIsReserved
  <1>9. WorkerIsPlaced /\ PassIsThorough /\ DrainAdvances
      BY <1>1, <1>2 DEF WorkerIsPlaced, PassIsThorough, DrainAdvances, Asking
  <1>10. ShardsAreComplete
      BY DEF Init, ShardsAreComplete
  <1>11. DatasetIsFrozen
      BY DEF Init, DatasetIsFrozen, Frozen
  <1>12. DirectoriesAgree /\ JournalIsFollowed
      BY <1>1, <1>2 DEF Init, DirectoriesAgree, JournalIsFollowed, NoJournal
  <1> QED
      BY <1>5, <1>6, <1>7, <1>8, <1>9, <1>10, <1>11, <1>12 DEF IInv

LEMMA StepHolds == IInv /\ [Next]_vars => IInv'
    BY TrajectoryStep, LaunchStep, DrainStep, CoverStep, PrepareGeneratedStep,
       PrepareDatasetStep, RecoverStep, ArchiveStep, SupplementingStep,
       SupplementalStep, CloseJournalStep, DieStep, StillStep
    DEF Next, Work, Dataset, Finished

(* The tables, the worker's place, the dataset and the journal agree in    *)
(* every state of a generate stage.                                        *)
THEOREM InvariantHolds == Spec => []IInv
<1>1. Init => IInv
    BY InitHolds
<1>2. IInv /\ [Next]_vars => IInv'
    BY StepHolds
<1> QED
    BY <1>1, <1>2, PTL DEF Spec

(* Whatever dies between two writes, the budgets hold over every process,  *)
(* a cursor and a receipt stand on answers, the drain leaves nothing hard, *)
(* the final dataset is whole and a journal's manifest is kept.            *)
THEOREM Ledger == Spec => []LedgerIsSound
<1>1. IInv => LedgerIsSound
  <2> SUFFICES ASSUME IInv PROVE LedgerIsSound
      OBVIOUS
  <2>1. TypeOK
      BY DEF IInv
  <2>2. BudgetsHold /\ HardTimeIsCharged
    <3>1. /\ counters.attempts <= HardAttempts /\ counters.seconds <= HardSeconds
          /\ counters.restarts <= WorkerRestarts + 1 /\ spent <= counters.seconds
        BY DEF IInv, BudgetIsKept
    <3>2. counters.restarts \in Nat /\ deaths \in Nat
        BY <2>1, Constants DEF TypeOK, Counters
    <3> QED
        BY <3>1, <3>2, Constants DEF BudgetsHold, HardTimeIsCharged
  <2>3. CursorIsBacked
    <3>1. ASSUME NEW g \in AllGames, NEW p \in 1..Plies, p < cursor[g]
          PROVE  OnRoot(g, p) = "accepted"
        BY <3>1 DEF IInv, GamesArePlaced, GameIsPlaced
    <3>2. ASSUME NEW g \in AllGames, g \in receipt
          PROVE  /\ g \in shard /\ cursor[g] > 0
                 /\ cursor[g] = length[g] \/ OnRoot(g, cursor[g]) \in Labelled
        BY <3>2 DEF IInv, ShardsAreComplete, Complete, Labelled
    <3> QED
        BY <3>1, <3>2 DEF CursorIsBacked, OnRoot
  <2>4. QueueIsDrained
      BY DEF IInv, PassIsThorough, QueueIsDrained, Closing
  <2>5. FinalDatasetIsWhole
      BY DEF IInv, FinalDatasetIsWhole, JournalIsFollowed, DirectoriesAgree,
         DatasetIsFrozen, Frozen
  <2>6. ManifestIsKept
      BY <2>1 DEF IInv, ManifestIsKept, DirectoriesAgree, Moved, TypeOK,
         Journals
  <2> QED
      BY <2>1, <2>2, <2>3, <2>4, <2>5, <2>6 DEF LedgerIsSound
<1> QED
    BY <1>1, InvariantHolds, PTL

(* No step asks again for an accepted answer or changes it, and no step    *)
(* takes back a committed game or an archived manifest.                    *)
THEOREM Permanence == Spec => LedgerIsPermanent
<1>1. IInv /\ [Next]_vars =>
         [\A t \in Tasks : Status(t) \in Labelled => task'[t] = task[t]]_vars
    BY AnswersStay DEF IInv, Answers
<1>2. IInv /\ [Next]_vars =>
         [/\ receipt \subseteq receipt'
          /\ dirs.oldDataset # NoDataset => dirs'.oldDataset = dirs.oldDataset]_vars
  <2> SUFFICES ASSUME IInv, [Next]_vars
               PROVE  /\ receipt \subseteq receipt'
                      /\ dirs.oldDataset # NoDataset =>
                            dirs'.oldDataset = dirs.oldDataset
      OBVIOUS
  <2>1. dirs \in Directories
      BY DEF IInv, TypeOK
  <2>2. receipt \subseteq receipt'
    <3>1. CASE WriteReceipt
        BY <3>1 DEF WriteReceipt
    <3>2. CASE ~WriteReceipt
      <4>1. receipt' = receipt
          BY <3>2 DEF Next, Work, Trajectory, Dataset, Launch, Drain, Cover,
             Stop, Die, Finished, TakeGame, Ply, Observe, Accept, Miss,
             Reject, Restart, WriteShard, PrepareGenerated, PrepareDataset,
             Recover, ArchiveGenerated, ArchiveDataset, Supplementing,
             Supplemental, CloseJournal, db, disk, vars
      <4> QED
          BY <4>1
    <3> QED
        BY <3>1, <3>2
  <2>3. dirs.oldDataset # NoDataset => dirs'.oldDataset = dirs.oldDataset
    <3>1. CASE PrepareGenerated \/ PrepareDataset \/ ArchiveGenerated
               \/ ArchiveDataset
        BY <2>1, <3>1 DEF PrepareGenerated, PrepareDataset, ArchiveGenerated,
           ArchiveDataset, Directories
    <3>2. CASE ~(PrepareGenerated \/ PrepareDataset \/ ArchiveGenerated
                 \/ ArchiveDataset)
      <4>1. dirs' = dirs
          BY <3>2 DEF Next, Work, Trajectory, Dataset, Launch, Drain, Cover,
             Stop, Die, Finished, TakeGame, Ply, Observe, Accept, Miss,
             Reject, Restart, WriteShard, WriteReceipt, Recover,
             Supplementing, Supplemental, CloseJournal, disk, vars
      <4> QED
          BY <4>1
    <3> QED
        BY <3>1, <3>2
  <2> QED
      BY <2>2, <2>3
<1>3. Spec => AnswersArePermanent
    BY <1>1, InvariantHolds, PTL DEF Spec, AnswersArePermanent
<1>4. Spec => CommitsArePermanent
    BY <1>2, InvariantHolds, PTL DEF Spec, CommitsArePermanent
<1> QED
    BY <1>3, <1>4 DEF LedgerIsPermanent

-----------------------------------------------------------------------------
(* LeakageScan                                                             *)

Entered == Seq(SourceArtifacts) \union {Unpublished}
Scanning == {"scan", "overlaps", "proof"}

ScanTypes ==
    /\ input \in Inputs /\ bound \in Inputs \union {Unpublished}
    /\ database \in [exists : BOOLEAN, bound : Inputs \union {Unpublished, <<>>},
                     rows : Seq(SourceArtifacts), completed : SUBSET SourceArtifacts]
    /\ run \in [pc : Scanning \union {"idle", "open"}, left : SUBSET SourceArtifacts,
                completed : SUBSET SourceArtifacts, failed : SUBSET SourceArtifacts,
                written : Entered]
    /\ manifest \in [full : Entered, partial : Entered]

\* The completed set is the artifacts of the rows, and each is entered once.
RowsAreCommitted ==
    /\ ElementsOf(database.rows) = database.completed
    /\ IsFiniteSet(database.completed)
    /\ Cardinality(database.completed) = Len(database.rows)

\* A scan knows what the database has, and has not entered what is left.
ScanKnows ==
    /\ run.pc \in Scanning => run.completed = database.completed
    /\ run.pc = "scan" => run.left \intersect run.completed = {}
    /\ run.pc \in {"overlaps", "proof"} /\ Missing = {} =>
          run.written = database.rows /\ manifest.full = database.rows

\* The inputs of a directory stay, and what was said of a full database: that cannot grow.
FullIsFinal ==
    /\ run.pc # "idle" \/ proof # Unpublished => bound \in Inputs
    /\ manifest.full # Unpublished =>
          manifest.full = database.rows /\ database.completed = SourceArtifacts
    /\ proof # Unpublished =>
          /\ proof.missing = {} => /\ database.completed = SourceArtifacts
                                   /\ proof.manifest = database.rows
                                   /\ manifest.full = database.rows
          /\ proof.passed => /\ proof.missing = {} /\ proof.rows = database.rows
                             /\ Overlaps(ScannedRows(database.rows)) = {}

ScanInvariant == ScanTypes /\ RowsAreCommitted /\ ScanKnows /\ FullIsFinal

\* When nothing crosses the splits of the rows, games of different splits are apart: a
\* game has a row for each of its positions, and has one.
LEMMA DisjointRowsAreDisjointGames ==
  ASSUME bound \in Inputs, NEW rows, ElementsOf(rows) = SourceArtifacts,
         Overlaps(ScannedRows(rows)) = {}
  PROVE  \A a, b \in SourceArtifacts : \A i \in DOMAIN bound[a], j \in DOMAIN bound[b] :
            SplitOfGame(a, i) # SplitOfGame(b, j) =>
                /\ bound[a][i].record # bound[b][j].record
                /\ bound[a][i].positions \intersect bound[b][j].positions = {}
<1>1. ~Crosses(ScannedRows(rows), "record") /\ ~Crosses(ScannedRows(rows), "position")
  BY DEF Overlaps
<1>2. \A a \in SourceArtifacts : \A i \in DOMAIN bound[a] : bound[a][i].positions # {}
  <2>1. ASSUME NEW a \in SourceArtifacts, NEW i \in DOMAIN bound[a] PROVE bound[a] \in Versions[a]
    BY <2>1 DEF Inputs
  <2> QED BY <2>1, ScanAssumption
<1>3. \A a \in SourceArtifacts : \A i \in DOMAIN bound[a] : \A p \in bound[a][i].positions :
         /\ Row(a, bound[a], i, p) \in ScannedRows(rows)
         /\ Row(a, bound[a], i, p).position = p
         /\ Row(a, bound[a], i, p).record = bound[a][i].record
         /\ Row(a, bound[a], i, p).split = SplitOfGame(a, i)
  BY DEF ScannedRows, RowsOf, Row, SplitOfGame
<1>4. SUFFICES ASSUME NEW a \in SourceArtifacts, NEW b \in SourceArtifacts,
                      NEW i \in DOMAIN bound[a], NEW j \in DOMAIN bound[b],
                      SplitOfGame(a, i) # SplitOfGame(b, j)
               PROVE  /\ bound[a][i].record # bound[b][j].record
                      /\ bound[a][i].positions \intersect bound[b][j].positions = {}
  OBVIOUS
<1>5. bound[a][i].record # bound[b][j].record
  <2>1. PICK p \in bound[a][i].positions : TRUE BY <1>2
  <2>2. PICK q \in bound[b][j].positions : TRUE BY <1>2
  <2> DEFINE x == Row(a, bound[a], i, p)  y == Row(b, bound[b], j, q)
  <2>3. /\ x \in ScannedRows(rows) /\ y \in ScannedRows(rows)
        /\ x.record = bound[a][i].record /\ y.record = bound[b][j].record
        /\ x.split = SplitOfGame(a, i) /\ y.split = SplitOfGame(b, j)
    BY <1>3
  <2> HIDE DEF x, y
  <2>4. x.split # y.split BY <2>3, <1>4
  <2>5. x["record"] # y["record"] BY <2>3, <2>4, <1>1 DEF Crosses
  <2> QED BY <2>3, <2>5
<1>6. ASSUME NEW p \in bound[a][i].positions, p \in bound[b][j].positions PROVE FALSE
  <2> DEFINE x == Row(a, bound[a], i, p)  y == Row(b, bound[b], j, p)
  <2>3. /\ x \in ScannedRows(rows) /\ y \in ScannedRows(rows)
        /\ x.position = p /\ y.position = p
        /\ x.split = SplitOfGame(a, i) /\ y.split = SplitOfGame(b, j)
    BY <1>3, <1>6
  <2> HIDE DEF x, y
  <2>4. x.split # y.split BY <2>3, <1>4
  <2>5. x["position"] # y["position"] BY <2>3, <2>4, <1>1 DEF Crosses
  <2> QED BY <2>3, <2>5
<1> QED BY <1>5, <1>6

LEMMA ScanStarts == ScanInit => ScanInvariant
<1> SUFFICES ASSUME ScanInit PROVE ScanInvariant OBVIOUS
<1>1. ScanTypes
  BY DEF ScanInit, ScanTypes, NoRun, Empty, Scanning, Entered
<1>2. RowsAreCommitted
  <2>1. ElementsOf(database.rows) = {} /\ database.completed = {} /\ Len(database.rows) = 0
    BY DEF ScanInit, Empty, ElementsOf
  <2> QED BY <2>1, FS_EmptySet DEF RowsAreCommitted
<1>3. ScanKnows /\ FullIsFinal
  BY DEF ScanInit, ScanKnows, FullIsFinal, NoRun, Scanning
<1> QED BY <1>1, <1>2, <1>3 DEF ScanInvariant

LEMMA ScanTypesStay ==
  ASSUME ScanInvariant, [ScanNext]_scanVars, LateCommits \subseteq {FALSE}
  PROVE  ScanTypes'
<1> USE DEF ScanInvariant, ScanTypes, Scanning, scanFiles
<1>1. ASSUME NEW a \in SourceArtifacts, ChangeInput(a) PROVE ScanTypes'
  <2>1. PICK v \in Versions[a] : input' = [input EXCEPT ![a] = v]
    BY <1>1 DEF ChangeInput
  <2>2. input' \in Inputs BY <2>1 DEF Inputs
  <2> QED BY <1>1, <2>2 DEF ChangeInput
<1>2. ASSUME NEW a \in SourceArtifacts, SkipArtifact(a) PROVE ScanTypes'
  BY <1>2 DEF SkipArtifact, Fails
<1>3. ASSUME NEW a \in SourceArtifacts, ScanArtifact(a) PROVE ScanTypes'
  <2>1. Append(database.rows, a) \in Seq(SourceArtifacts) BY DEF Seq
  <2> QED BY <1>3, <2>1 DEF ScanArtifact
<1>4. ASSUME NEW a \in SourceArtifacts, FailArtifact(a) PROVE ScanTypes'
  <2>1. run' = [run EXCEPT !.left = @ \ {a}, !.failed = @ \union {a}, !.completed = @]
    BY <1>4 DEF FailArtifact
  <2> QED BY <1>4, <2>1 DEF FailArtifact
<1>5. CASE StartScan BY <1>5 DEF StartScan, NoRun, Entered
<1>6. CASE OpenDatabase BY <1>6 DEF OpenDatabase
<1>7. CASE WriteLeakage
  <2>1. \A f \in Entered : Kept(f) \in Entered BY DEF Kept, Entered
  <2> QED BY <1>7, <2>1 DEF WriteLeakage
<1>8. CASE PublishOverlaps BY <1>8 DEF PublishOverlaps
<1>9. CASE PublishProof BY <1>9 DEF PublishProof, NoRun, Entered
<1>10. CASE KillScan BY <1>10 DEF KillScan, NoRun, Entered
<1>11. CASE UNCHANGED scanVars BY <1>11 DEF scanVars
<1> QED
  BY <1>1, <1>2, <1>3, <1>4, <1>5, <1>6, <1>7, <1>8, <1>9, <1>10, <1>11 DEF ScanNext

\* An artifact is entered when the database has it not, and only while some is missing.
LEMMA EntryIsNew ==
  ASSUME ScanInvariant, NEW a \in SourceArtifacts, ScanArtifact(a)
  PROVE  /\ a \notin database.completed
         /\ database'.rows = Append(database.rows, a)
         /\ database'.completed = database.completed \union {a}
         /\ run'.completed = database.completed \union {a} /\ run'.pc = "scan"
         /\ run'.left = run.left \ {a}
  BY DEF ScanArtifact, IsNextArtifact, ScanInvariant, ScanTypes, ScanKnows, Scanning

LEMMA RowsStayCommitted ==
  ASSUME ScanInvariant, [ScanNext]_scanVars
  PROVE  RowsAreCommitted'
<1>1. CASE database'.rows = database.rows /\ database'.completed = database.completed
  BY <1>1 DEF ScanInvariant, RowsAreCommitted, ElementsOf
<1>2. ASSUME NEW a \in SourceArtifacts, ScanArtifact(a) PROVE RowsAreCommitted'
  <2>1. database.rows \in Seq(SourceArtifacts) BY DEF ScanInvariant, ScanTypes
  <2>2. /\ Len(Append(database.rows, a)) = Len(database.rows) + 1
        /\ DOMAIN Append(database.rows, a) = 1..Len(database.rows) + 1
        /\ DOMAIN database.rows = 1..Len(database.rows) /\ Len(database.rows) \in Nat
        /\ \A i \in 1..Len(database.rows) : Append(database.rows, a)[i] = database.rows[i]
        /\ Append(database.rows, a)[Len(database.rows) + 1] = a
    BY <2>1
  <2>3. ElementsOf(Append(database.rows, a)) = ElementsOf(database.rows) \union {a}
    BY <2>2 DEF ElementsOf
  <2>4. /\ IsFiniteSet(database.completed \union {a})
        /\ Cardinality(database.completed \union {a}) = Cardinality(database.completed) + 1
    BY <1>2, EntryIsNew, FS_AddElement DEF ScanInvariant, RowsAreCommitted
  <2> QED BY <1>2, EntryIsNew, <2>2, <2>3, <2>4 DEF ScanInvariant, RowsAreCommitted
<1>3. CASE OpenDatabase
  BY <1>3, <1>1 DEF OpenDatabase, ScanInvariant, ScanTypes
<1>4. CASE UNCHANGED database
  BY <1>4, <1>1
<1> QED
  BY <1>2, <1>3, <1>4 DEF ScanNext, scanVars, ChangeInput, SkipArtifact, FailArtifact,
     StartScan, WriteLeakage, PublishOverlaps, PublishProof, KillScan

\* A full manifest that is written, or kept, is of the database as it is.
LEMMA FullManifest ==
  ASSUME ScanInvariant, WriteLeakage, Missing = {}
  PROVE  /\ database.completed = SourceArtifacts
         /\ manifest'.full = database.rows /\ run'.written = database.rows
<1>1. database.completed = SourceArtifacts
  BY DEF WriteLeakage, Missing, ScanInvariant, ScanTypes, ScanKnows, Scanning
<1>2. Kept(manifest.full) = database.rows
  BY DEF Kept, ScanInvariant, FullIsFinal
<1> QED BY <1>1, <1>2 DEF WriteLeakage, ScanInvariant, ScanTypes

LEMMA ScanStillKnows ==
  ASSUME ScanInvariant, [ScanNext]_scanVars, LateCommits \subseteq {FALSE}
  PROVE  ScanKnows'
<1> USE DEF ScanInvariant, ScanKnows, Scanning
<1>t. ScanTypes BY DEF ScanInvariant
<1>1. ASSUME NEW a \in SourceArtifacts, ChangeInput(a) PROVE ScanKnows'
  BY <1>1 DEF ChangeInput, scanFiles, Missing
<1>2. ASSUME NEW a \in SourceArtifacts, SkipArtifact(a) PROVE ScanKnows'
  BY <1>2, <1>t DEF SkipArtifact, Fails, IsNextArtifact, scanFiles, Missing, ScanTypes
<1>3. ASSUME NEW a \in SourceArtifacts, ScanArtifact(a) PROVE ScanKnows'
  BY <1>3, EntryIsNew DEF ScanArtifact, IsNextArtifact
<1>4. ASSUME NEW a \in SourceArtifacts, FailArtifact(a) PROVE ScanKnows'
  BY <1>4, <1>t DEF FailArtifact, IsNextArtifact, scanFiles, Missing, ScanTypes
<1>5. CASE StartScan BY <1>5 DEF StartScan, NoRun
<1>6. CASE OpenDatabase BY <1>6, <1>t DEF OpenDatabase, ScanTypes
<1>7. CASE WriteLeakage
  <2>1. run'.pc = "overlaps" /\ run'.completed = run.completed /\ database' = database
    BY <1>7, <1>t DEF WriteLeakage, ScanTypes
  <2> QED BY <1>7, <2>1, FullManifest DEF WriteLeakage, Missing
<1>8. CASE PublishOverlaps BY <1>8, <1>t DEF PublishOverlaps, Missing, ScanTypes
<1>9. CASE PublishProof BY <1>9 DEF PublishProof, NoRun
<1>10. CASE KillScan BY <1>10 DEF KillScan, NoRun
<1>11. CASE UNCHANGED scanVars BY <1>11 DEF scanVars, scanFiles, Missing
<1> QED
  BY <1>1, <1>2, <1>3, <1>4, <1>5, <1>6, <1>7, <1>8, <1>9, <1>10, <1>11 DEF ScanNext

LEMMA FullStaysFinal ==
  ASSUME ScanInvariant, [ScanNext]_scanVars, LateCommits \subseteq {FALSE}
  PROVE  FullIsFinal'
<1>t. ScanTypes /\ ScanKnows /\ FullIsFinal BY DEF ScanInvariant
<1>1. CASE /\ UNCHANGED <<bound, manifest, proof>>
           /\ database'.rows = database.rows /\ database'.completed = database.completed
           /\ run'.pc = "idle" \/ run.pc # "idle"
  BY <1>1, <1>t DEF FullIsFinal, ScannedRows, ElementsOf
<1>2. ASSUME NEW a \in SourceArtifacts, ChangeInput(a) PROVE FullIsFinal'
  BY <1>2, <1>1 DEF ChangeInput, scanFiles, NoRun
<1>3. ASSUME NEW a \in SourceArtifacts, ScanArtifact(a) PROVE FullIsFinal'
  <2>1. database.completed # SourceArtifacts BY <1>3, EntryIsNew
  <2>2. manifest.full = Unpublished /\ (proof # Unpublished => proof.missing # {} /\ ~proof.passed)
    BY <2>1, <1>t DEF FullIsFinal
  <2>3. UNCHANGED <<bound, manifest, proof>> /\ run.pc # "idle"
    BY <1>3 DEF ScanArtifact, IsNextArtifact, scanFiles
  <2> QED BY <2>2, <2>3, <1>t DEF FullIsFinal
<1>4. CASE StartScan
  <2>1. bound' \in Inputs /\ UNCHANGED <<database, manifest, proof>>
    BY <1>4, <1>t DEF StartScan, ScanTypes
  <2>2. proof # Unpublished => bound' = bound
    BY <1>4, <1>t, ScanAssumption DEF StartScan, FullIsFinal
  <2> QED BY <2>1, <2>2, <1>t DEF FullIsFinal, ScannedRows, ElementsOf
<1>5. CASE WriteLeakage
  <2>1. /\ UNCHANGED <<bound, proof, database>> /\ run.pc # "idle"
        /\ Missing # {} => manifest'.full = manifest.full
    BY <1>5, <1>t DEF WriteLeakage, ScanTypes
  <2>2. CASE Missing # {}
    BY <2>1, <2>2, <1>t DEF FullIsFinal, ScannedRows, ElementsOf
  <2>3. CASE Missing = {}
    BY <2>1, <2>3, <1>5, <1>t, FullManifest DEF FullIsFinal, ScannedRows, ElementsOf
  <2> QED BY <2>2, <2>3
<1>6. CASE PublishProof
  <2>1. /\ UNCHANGED <<bound, manifest, database>> /\ run'.pc = "idle"
        /\ run.pc = "proof" /\ bound \in Inputs
    BY <1>6, <1>t DEF PublishProof, NoRun, FullIsFinal
  <2>2. /\ proof'.missing = Missing /\ proof'.passed = IsPassed
        /\ proof'.rows = database.rows /\ proof'.manifest = run.written
    BY <1>6 DEF PublishProof
  <2>3. Missing = {} => /\ database.completed = SourceArtifacts
                        /\ run.written = database.rows /\ manifest.full = database.rows
    BY <2>1, <1>t DEF ScanKnows, Missing, ScanTypes, Scanning
  <2>4. IsPassed => Missing = {} /\ Overlaps(ScannedRows(database.rows)) = {}
    BY DEF IsPassed
  <2>5. Overlaps(ScannedRows(database.rows))' = Overlaps(ScannedRows(database.rows))
    BY <2>1 DEF ScannedRows
  <2> HIDE DEF Missing, IsPassed
  <2> QED BY <2>1, <2>2, <2>3, <2>4, <2>5, <1>t DEF FullIsFinal
<1>7. CASE OpenDatabase
  BY <1>7, <1>1, <1>t DEF OpenDatabase, ScanTypes, scanFiles
<1>8. ASSUME NEW a \in SourceArtifacts, SkipArtifact(a) \/ FailArtifact(a) PROVE FullIsFinal'
  BY <1>8, <1>1 DEF SkipArtifact, FailArtifact, IsNextArtifact, scanFiles
<1>9. CASE PublishOverlaps
  BY <1>9, <1>1 DEF PublishOverlaps
<1>10. CASE KillScan
  BY <1>10, <1>1 DEF KillScan, scanFiles, NoRun
<1>11. CASE UNCHANGED scanVars
  BY <1>11, <1>1, <1>t DEF scanVars, scanFiles, FullIsFinal, ScannedRows, ElementsOf
<1> QED
  BY <1>2, <1>3, <1>4, <1>5, <1>6, <1>7, <1>8, <1>9, <1>10, <1>11 DEF ScanNext

LEMMA FullIsSound == ScanInvariant => ScanIsSound
<1> SUFFICES ASSUME ScanInvariant PROVE ScanIsSound OBVIOUS
<1>1. ManifestIsTheDatabase
  BY DEF ManifestIsTheDatabase, ScanInvariant, RowsAreCommitted, FullIsFinal
<1>2. ASSUME proof # Unpublished, proof.passed
      PROVE  /\ bound \in Inputs /\ proof.rows = database.rows
             /\ ElementsOf(proof.rows) = SourceArtifacts
             /\ Len(proof.rows) = Cardinality(SourceArtifacts)
             /\ Overlaps(ScannedRows(proof.rows)) = {}
  BY <1>2 DEF ScanInvariant, FullIsFinal, RowsAreCommitted
<1>3. PassedIsClean
  BY <1>2, DisjointRowsAreDisjointGames DEF PassedIsClean
<1> QED BY <1>1, <1>3 DEF ScanIsSound

\* However often the scan of a directory is killed and run again, and whatever is replayed
\* in between, as long as no commit fails: what passes has no leakage between its games.
THEOREM LeakageScans ==
  ASSUME LateCommits \subseteq {FALSE}
  PROVE  ScanSpec => []ScanIsSound
<1>1. ScanInit => ScanInvariant BY ScanStarts
<1>2. ScanInvariant /\ [ScanNext]_scanVars => ScanInvariant'
  BY ScanTypesStay, RowsStayCommitted, ScanStillKnows, FullStaysFinal DEF ScanInvariant
<1> QED BY <1>1, <1>2, FullIsSound, PTL DEF ScanSpec

-----------------------------------------------------------------------------
(* PopulationScan                                                          *)

RevisionOrNone == Revisions \union {Absent}
PopulationTypes ==
    /\ accepted \in [Revisions -> SUBSET Records]
    /\ fixed \in [GuardedRecords -> {"train", "validation", "final_holdout"}]
    /\ completion \in RevisionOrNone
    /\ scan = [input |-> scan.input, database |-> scan.database, loaded |-> scan.loaded,
               decisions |-> scan.decisions, effective |-> scan.effective,
               manifest |-> scan.manifest, proof |-> scan.proof]
    /\ scan.proof \in RevisionOrNone
    /\ prepared = [base |-> prepared.base, outcomes |-> prepared.outcomes,
                   train |-> prepared.train, manifest |-> prepared.manifest]
    /\ prepared.manifest \in RevisionOrNone
    /\ running = [pc |-> running.pc, rev |-> running.rev]
    /\ running.rev \in RevisionOrNone

TrainingRows(rev) == {row \in PreparedRows(rev) : row.split = "train"}

\* What a preparation has written is of the revision it began with: no other command runs
\* meanwhile, and a preparation that was cut off is never taken up.
PreparationIsOfOneScan ==
    /\ running.pc \in {"base", "train", "prepared"} => running.rev \in Revisions
    /\ running.pc = "base" => scan.database = running.rev
    /\ running.pc \in {"base", "train", "prepared"} => prepared.manifest = Absent
    /\ \A rev \in Revisions :
          /\ running.pc = "train" /\ running.rev = rev => prepared.base = PreparedRows(rev)
          /\ running.pc = "prepared" /\ running.rev = rev =>
                prepared.train = TrainingRows(rev)
          /\ prepared.manifest = rev => prepared.train = TrainingRows(rev)

PopulationInvariant == PopulationTypes /\ PreparationIsOfOneScan

\* Each game of a revision is in one of the four splits.
LEMMA SplitsAreKnown ==
  ASSUME PopulationTypes, NEW rev \in Revisions, NEW game
  PROVE  SplitOf(rev, game) \in {"train", "validation", "source_held_out", "final_holdout"}
<1> DEFINE guarded == {r \in accepted[rev] \cap GuardedRecords : plays[r] = game}
<1>1. guarded # {} => LastOf(guarded) \in guarded
  <2>1. guarded \subseteq Records BY PopulationAssumption
  <2>2. guarded # {} => \E r \in guarded : \A s \in guarded : s <= r
    BY <2>1, PopulationAssumption
  <2> HIDE DEF guarded
  <2> QED BY <2>2 DEF LastOf
<1>2. guarded # {} => fixed[LastOf(guarded)] \in {"train", "validation", "final_holdout"}
  BY <1>1 DEF PopulationTypes
<1> QED BY <1>2 DEF SplitOf

\* A row that trains owns its position, so that nothing with that position is held out.
LEMMA TrainingRowsAreOwned ==
  ASSUME PopulationTypes, NEW rev \in Revisions,
         NEW row \in TrainingRows(rev), NEW other \in Occurrences(rev),
         other.position = row.position
  PROVE  other.split = "train"
<1>1. row \in Effective(rev) /\ row.split = "train"
  BY DEF TrainingRows, PreparedRows
<1>2. Wins(row, other)
  BY <1>1 DEF Effective
<1>3. other.split \in {"train", "validation", "source_held_out", "final_holdout"}
  BY SplitsAreKnown DEF Occurrences
<1> QED BY <1>1, <1>2, <1>3 DEF Wins, Rank

\* Of two records of one play in one stream only one has rows: the play has one split, so
\* that the lesser record wins every position of it.
LEMMA ProofsAlwaysJoin ==
  ASSUME PopulationTypes, NEW rev \in Revisions
  PROVE  ProofsJoin(rev)
<1>1. ASSUME NEW r \in Effective(rev), NEW b \in accepted[rev], plays[b] = plays[r.record]
      PROVE  r.record \in accepted[rev] /\ r.record <= b
  <2>1. PICK a \in accepted[rev] : \E i \in 1..Len(plays[a]) :
               r = [record |-> a, index |-> i, position |-> plays[a][i],
                    split |-> SplitOf(rev, plays[a])]
    BY DEF Effective, Occurrences
  <2>2. PICK i \in 1..Len(plays[a]) :
               r = [record |-> a, index |-> i, position |-> plays[a][i],
                    split |-> SplitOf(rev, plays[a])]
    BY <2>1
  <2> DEFINE o == [record |-> b, index |-> i, position |-> plays[b][i],
                   split |-> SplitOf(rev, plays[b])]
  <2>3. plays[b] = plays[a]
    BY <1>1, <2>2
  <2>4. o \in Occurrences(rev)
    BY <2>3 DEF Occurrences
  <2>5. o.position = r.position /\ o.split = r.split /\ o.record = b
    BY <2>2, <2>3
  <2>6. Wins(r, o)
    BY <2>4, <2>5 DEF Effective
  <2>7. a \in Nat /\ b \in Nat
    BY PopulationAssumption DEF PopulationTypes
  <2>8. Rank[r.split] \in Nat
    BY SplitsAreKnown, <2>2 DEF Rank
  <2>9. r.record = a
    BY <2>2
  <2> HIDE DEF o
  <2> QED BY <2>5, <2>6, <2>7, <2>8, <2>9 DEF Wins
<1>2. ASSUME NEW stream \in Streams, NEW a \in RelevantGames(rev, stream),
             NEW b \in RelevantGames(rev, stream), plays[a] = plays[b]
      PROVE  a = b
  <2>1. PICK r \in Effective(rev) : r.record = a BY DEF RelevantGames
  <2>2. PICK s \in Effective(rev) : s.record = b BY DEF RelevantGames
  <2>3. /\ a \in accepted[rev] /\ b \in accepted[rev]
    BY <1>1, <2>1, <2>2 DEF Effective, Occurrences
  <2>4. a <= b /\ b <= a
    BY <1>1, <1>2, <2>1, <2>2, <2>3
  <2>5. a \in Nat /\ b \in Nat
    BY <2>3, PopulationAssumption DEF PopulationTypes
  <2> QED BY <2>4, <2>5
<1> QED BY <1>2 DEF ProofsJoin

LEMMA PopulationStarts == PopulationInit => PopulationInvariant
<1> SUFFICES ASSUME PopulationInit PROVE PopulationInvariant OBVIOUS
<1>1. PopulationTypes
  <2>1. accepted \in [Revisions -> SUBSET Records]
    BY DEF PopulationInit
  <2> QED BY <2>1 DEF PopulationInit, PopulationTypes, NoScan, Unprepared, NoProcess,
             RevisionOrNone
<1>2. PreparationIsOfOneScan
  BY PopulationAssumption DEF PopulationInit, PreparationIsOfOneScan, Unprepared, NoProcess, Absent
<1> QED BY <1>1, <1>2 DEF PopulationInvariant

LEMMA InputsStay == [PopulationNext]_populationVars => UNCHANGED inputs
  BY DEF PopulationNext, populationVars, RunReplay, WriteReplay, WriteProofs,
     WritePositions, AssignSplits, CompleteReplay, RunScan, WriteInput, CreateDatabase,
     LoadPositions, RefusePositions, CollisionDecisions, PopulateEffective, WriteManifest,
     WriteProof, PrepareScale, WriteBaseFiles, WriteTrain, PublishManifest, KillCommand,
     Scan, Prepare

\* What is prepared from a revision depends on the inputs only.
LEMMA RowsStay ==
  ASSUME UNCHANGED inputs, NEW rev
  PROVE  PreparedRows(rev)' = PreparedRows(rev) /\ TrainingRows(rev)' = TrainingRows(rev)
<1>1. ASSUME NEW game PROVE SplitOf(rev, game)' = SplitOf(rev, game)
  BY DEF inputs, SplitOf, PlaysOf, PlaceOf
<1>2. Occurrences(rev)' = Occurrences(rev)
  BY <1>1 DEF inputs, Occurrences
<1>3. Effective(rev)' = Effective(rev)
  BY <1>2 DEF Effective
<1>4. PreparedRows(rev)' = PreparedRows(rev)
  BY <1>3 DEF PreparedRows
<1> QED BY <1>4 DEF TrainingRows

LEMMA PopulationStep ==
  ASSUME PopulationInvariant, [PopulationNext]_populationVars
  PROVE  PopulationInvariant'
<1> USE DEF PopulationInvariant
<1>0. /\ UNCHANGED inputs /\ PopulationTypes /\ PreparationIsOfOneScan
      /\ \A rev \in Revisions :
            PreparedRows(rev)' = PreparedRows(rev) /\ TrainingRows(rev)' = TrainingRows(rev)
  BY InputsStay, RowsStay
<1>i. accepted' = accepted /\ fixed' = fixed
  BY <1>0 DEF inputs
\* A step that begins or ends a command of another kind, or is inside one.
<1>1. ASSUME UNCHANGED prepared, running'.pc \notin {"base", "train", "prepared"}
      PROVE  PreparationIsOfOneScan'
  BY <1>0, <1>1 DEF PreparationIsOfOneScan
<1>2. ASSUME UNCHANGED <<completion, prepared>>, running' = [running EXCEPT !.pc = running'.pc],
             running'.pc \notin {"base", "train", "prepared"}, scan'.proof = scan.proof,
             scan' = [input |-> scan'.input, database |-> scan'.database,
                      loaded |-> scan'.loaded, decisions |-> scan'.decisions,
                      effective |-> scan'.effective, manifest |-> scan'.manifest,
                      proof |-> scan'.proof]
      PROVE  PopulationInvariant'
  BY <1>0, <1>i, <1>1, <1>2 DEF PopulationTypes
<1>3. ASSUME NEW rev \in Revisions, RunReplay(rev) PROVE PopulationInvariant'
  BY <1>0, <1>i, <1>1, <1>3 DEF RunReplay, PopulationTypes, RevisionOrNone
<1>4. ASSUME NEW s \in Streams,
             WriteReplay(s) \/ WriteProofs(s) \/ WritePositions(s) \/ AssignSplits(s)
      PROVE  PopulationInvariant'
  BY <1>0, <1>i, <1>1, <1>4 DEF WriteReplay, WriteProofs, WritePositions, AssignSplits, IsAt,
     PopulationTypes
<1>5. CASE CompleteReplay \/ RefusePositions \/ KillCommand
  <2>1. /\ running' = NoProcess /\ UNCHANGED <<scan, prepared>>
        /\ completion' \in {completion, running.rev}
    BY <1>5 DEF CompleteReplay, RefusePositions, KillCommand, EndCommand
  <2>2. PopulationTypes'
    BY <1>0, <1>i, <2>1 DEF PopulationTypes, RevisionOrNone, NoProcess
  <2> QED BY <2>1, <2>2, <1>1 DEF NoProcess
<1>6. CASE RunScan
  BY <1>0, <1>i, <1>1, <1>6 DEF RunScan, PopulationTypes
<1>7. CASE WriteInput \/ CreateDatabase \/ LoadPositions \/ CollisionDecisions
            \/ PopulateEffective \/ WriteManifest
  <2>1. CASE WriteInput BY <1>0, <1>2, <2>1 DEF WriteInput, Scan, GoesTo, PopulationTypes
  <2>2. CASE CreateDatabase BY <1>0, <1>2, <2>2 DEF CreateDatabase, Scan, GoesTo, PopulationTypes
  <2>3. CASE LoadPositions BY <1>0, <1>2, <2>3 DEF LoadPositions, Scan, GoesTo, PopulationTypes
  <2>4. CASE CollisionDecisions BY <1>0, <1>2, <2>4 DEF CollisionDecisions, Scan, GoesTo, PopulationTypes
  <2>5. CASE PopulateEffective BY <1>0, <1>2, <2>5 DEF PopulateEffective, Scan, GoesTo, PopulationTypes
  <2>6. CASE WriteManifest BY <1>0, <1>2, <2>6 DEF WriteManifest, Scan, GoesTo, PopulationTypes
  <2> QED BY <1>7, <2>1, <2>2, <2>3, <2>4, <2>5, <2>6
<1>8. CASE WriteProof
  BY <1>0, <1>i, <1>1, <1>8 DEF WriteProof, EndCommand, NoProcess, PopulationTypes,
     RevisionOrNone
<1>9. CASE PrepareScale
  <2>1. /\ scan.proof \in Revisions /\ scan.database = scan.proof
        /\ running' = [pc |-> "base", rev |-> scan.proof]
        /\ UNCHANGED <<completion, scan, prepared>> /\ prepared.manifest = Absent
    BY <1>0, <1>9 DEF PrepareScale, HasScan, PopulationTypes, RevisionOrNone, Unprepared
  <2>2. PopulationTypes'
    BY <1>0, <1>i, <2>1 DEF PopulationTypes, RevisionOrNone
  <2>3. PreparationIsOfOneScan'
    BY <2>1, PopulationAssumption DEF PreparationIsOfOneScan, Absent
  <2> QED BY <2>2, <2>3
<1>10. CASE WriteBaseFiles
  <2>1. /\ running.pc = "base" /\ running' = [pc |-> "train", rev |-> running.rev]
        /\ UNCHANGED <<completion, scan>> /\ prepared'.base = PreparedRows(scan.database)
        /\ prepared' = [base |-> prepared'.base, outcomes |-> prepared'.outcomes,
                        train |-> prepared'.train, manifest |-> prepared.manifest]
    BY <1>0, <1>10 DEF WriteBaseFiles, Prepare, IsAt, PopulationTypes
  <2>2. PopulationTypes'
    BY <1>0, <1>i, <2>1 DEF PopulationTypes
  <2>3. PreparationIsOfOneScan'
    BY <1>0, <2>1, PopulationAssumption DEF PreparationIsOfOneScan, Absent
  <2> QED BY <2>2, <2>3
<1>11. CASE WriteTrain
  <2>1. /\ running.pc = "train" /\ running' = [pc |-> "prepared", rev |-> running.rev]
        /\ UNCHANGED <<completion, scan>>
        /\ prepared'.train = {row \in prepared.base : row.split = "train"}
        /\ prepared' = [base |-> prepared'.base, outcomes |-> prepared'.outcomes,
                        train |-> prepared'.train, manifest |-> prepared.manifest]
    BY <1>0, <1>11 DEF WriteTrain, Prepare, IsAt, PopulationTypes
  <2>2. PopulationTypes'
    BY <1>0, <1>i, <2>1 DEF PopulationTypes
  <2>3. \A rev \in Revisions : running.rev = rev => prepared'.train = TrainingRows(rev)
    BY <1>0, <2>1 DEF PreparationIsOfOneScan, TrainingRows
  <2>4. PreparationIsOfOneScan'
    BY <1>0, <2>1, <2>3, PopulationAssumption DEF PreparationIsOfOneScan, Absent
  <2> QED BY <2>2, <2>4
<1>12. CASE PublishManifest
  <2>1. /\ running.pc = "prepared" /\ running' = NoProcess
        /\ UNCHANGED <<completion, scan>> /\ prepared'.manifest = running.rev
        /\ prepared' = [base |-> prepared'.base, outcomes |-> prepared'.outcomes,
                        train |-> prepared.train, manifest |-> prepared'.manifest]
    BY <1>0, <1>12 DEF PublishManifest, Prepare, IsAt, PopulationTypes
  <2>2. PopulationTypes'
    BY <1>0, <1>i, <2>1 DEF PopulationTypes, NoProcess, RevisionOrNone
  <2>3. PreparationIsOfOneScan'
    BY <1>0, <2>1 DEF PreparationIsOfOneScan, NoProcess
  <2> QED BY <2>2, <2>3
<1>13. CASE UNCHANGED populationVars
  BY <1>0, <1>13 DEF populationVars, PopulationTypes, PreparationIsOfOneScan, inputs
<1> QED
  BY <1>3, <1>4, <1>5, <1>6, <1>7, <1>8, <1>9, <1>10, <1>11, <1>12, <1>13 DEF PopulationNext

LEMMA PopulationHolds == PopulationInvariant => PopulationIsSound
<1> SUFFICES ASSUME PopulationInvariant PROVE PopulationIsSound OBVIOUS
<1>1. HoldoutsStayOut
  <2>1. SUFFICES ASSUME Validates, NEW row \in prepared.train,
                        NEW other \in Occurrences(completion), other.split # "train"
                 PROVE  other.position # row.position
    BY DEF HoldoutsStayOut
  <2>2. completion \in Revisions /\ prepared.manifest = completion
    BY <2>1 DEF Validates, HasScan, PopulationInvariant, PopulationTypes, RevisionOrNone
  <2>3. row \in TrainingRows(completion)
    BY <2>1, <2>2 DEF PopulationInvariant, PreparationIsOfOneScan
  <2> QED BY <2>1, <2>2, <2>3, TrainingRowsAreOwned DEF PopulationInvariant
<1>2. ScannedIsPreparable
  BY ProofsAlwaysJoin DEF ScannedIsPreparable, HasScan, PopulationInvariant, PopulationTypes,
     RevisionOrNone
<1> QED BY <1>1, <1>2 DEF PopulationIsSound

\* For any games in any streams, any order of their hashes, and any number of replays and
\* of killed commands: a preparation that validates trains on nothing held out, and a
\* population that was scanned can be prepared.
THEOREM PopulationScans == PopulationSpec => []PopulationIsSound
<1>1. PopulationInit => PopulationInvariant BY PopulationStarts
<1>2. PopulationInvariant /\ [PopulationNext]_populationVars => PopulationInvariant'
  BY PopulationStep
<1> QED BY <1>1, <1>2, PopulationHolds, PTL DEF PopulationSpec
=============================================================================
