---------------------------- MODULE TimedMatch ----------------------------
(***************************************************************************)
(* One USI session on the clock (engine/usi/src/pure.rs, with the          *)
(* TimeManager it shares with its search thread).                          *)
(*                                                                         *)
(* The main thread handles one command at a time.  A command that ends the *)
(* running search first cancels it and joins its thread, which reports its *)
(* spend to the manager before it exits: `command' is the handler that     *)
(* waits for the join.  A new `go' is planned before that join.            *)
(*                                                                         *)
(* The GUI is external: it keeps the clocks of the game, sends them with   *)
(* each `go' and charges the time until the answer.  A charge exceeds what *)
(* the search measured by at most Lag: the time between two polls of the   *)
(* deadline and the time the lines take on the way.  `usable' is the time  *)
(* the GUI granted to the move, NoTime when the search is no match move.   *)
(* `recent' and `leftover' are history variables: which of the game's last *)
(* searches were extended, the latest first, and whether the search that   *)
(* still runs belongs to a game that is over.                              *)
(***************************************************************************)
EXTENDS TimeControl, Sequences

CONSTANTS
  Games,           \* [base, increment, byoyomi], the time rules games are played by
  OpponentClocks,  \* what the GUI may show of the other side's clock
  Presets,         \* movetimes a GUI adds to a match go, NoTime among them
  OtherRequests,   \* go lines that are not match moves
  Interrupts,      \* may the GUI send the next command before the search has answered?
  Lag,             \* see above
  MoveBound        \* bound: moves of one game

\* A game has an increment or a byoyomi, never both.
ASSUME MatchAssumption ==
  /\ Games \subseteq [base : Nat, increment : Nat, byoyomi : Nat]
  /\ \A g \in Games : g.increment = 0 \/ g.byoyomi = 0
  /\ \A g \in Games : g.increment <= MaxClock
  /\ OpponentClocks \subseteq Nat
  /\ Presets \subseteq Times
  /\ OtherRequests \subseteq Requests
  /\ Interrupts \in BOOLEAN
  /\ Lag \in Nat /\ MoveBound \in Nat
  /\ Lag <= SafetyMargin /\ Lag <= MarginCap
  /\ 4 * EmergencyFraction <= FractionScale

VARIABLES
  side, game, clock, moves,  \* the GUI: the engine's side, the rules, its clock, its moves
  playing,                   \* the game goes on
  forfeited,                 \* the usable time of the move that lost on time, or NoTime
  cooldown,                  \* TimeManager.extension_cooldown
  command,                   \* the handler waiting for the join
  held,                      \* pending_ponder
  planned,                   \* the planned search of a waiting go
  worker, job,               \* the search thread and its request
  recent, leftover

gui == <<side, game, clock, moves, playing, forfeited>>
history == <<recent, leftover>>
matchVars == <<side, game, clock, moves, playing, forfeited, cooldown, command, held,
              planned, worker, job, recent, leftover>>

CooldownMoves == 3
NoHistory == [i \in 1..CooldownMoves |-> FALSE]
NoJob == [plan |-> WithoutDeadline("Infinite"), usable |-> NoTime]
NoPonder == [none |-> TRUE]

-----------------------------------------------------------------------------
(***************************************************************************)
(* The lines the GUI sends about the game.                                 *)
(***************************************************************************)
NoTimes == [s \in Sides |-> NoTime]

\* A go without clocks: a bare one, or one with only a preset move time.
Clockless(movetime) ==
  [time |-> NoTimes, increment |-> NoTimes, byoyomi |-> NoTime, movetime |-> movetime,
   nodes |-> FALSE, depth |-> FALSE, infinite |-> FALSE]

\* The fields btime, wtime, and byoyomi or binc and winc.
WithClocks(go, theirs) ==
  [go EXCEPT !.time = [s \in Sides |-> IF s = side THEN clock ELSE theirs],
             !.increment = IF game.increment > 0 THEN [s \in Sides |-> game.increment] ELSE @,
             !.byoyomi = IF game.increment > 0 THEN @ ELSE game.byoyomi]

Usable == clock + game.increment + game.byoyomi

\* The GUI is waiting for a move of the engine.
OurTurn == playing /\ moves < MoveBound

-----------------------------------------------------------------------------

MatchInit ==
  /\ side \in Sides /\ game \in Games /\ clock = game.base /\ moves = 0
  /\ playing = TRUE /\ forfeited = NoTime
  /\ cooldown = 0 /\ recent = NoHistory /\ leftover = FALSE
  /\ command = "none" /\ held = NoPonder /\ planned = NoJob
  /\ worker = "idle" /\ job = NoJob

\* finish(Supersede), up to the join: the answer of the running search is revoked.
Cancel(handler) ==
  /\ command = "none"
  /\ Interrupts \/ worker = "idle"
  /\ command' = handler
  /\ worker' = IF worker = "searching" THEN "superseded" ELSE worker

\* start_search: a request the manager rejects changes nothing.
StartSearch(go, usable) ==
  LET request == TimeControlOf(go)
  IN  /\ Validate(request)
      /\ planned' = [plan |-> PlanFor(side, request, cooldown), usable |-> usable]
      /\ Cancel("go")
      /\ held' = NoPonder
      /\ UNCHANGED <<gui, cooldown, history, job>>

Go ==
  /\ command = "none"
  /\ \/ /\ OurTurn
        /\ \E theirs \in OpponentClocks, preset \in Presets :
             StartSearch(WithClocks(Clockless(preset), theirs), Usable)
     \/ \E go \in OtherRequests : StartSearch(go, NoTime)

\* go ponder, with the clocks or (EarlyPonder) without them: the request is held.
GoPonder ==
  /\ OurTurn
  /\ \E theirs \in OpponentClocks :
       held' \in {Clockless(NoTime), WithClocks(Clockless(NoTime), theirs)}
  /\ Cancel("ponder")
  /\ UNCHANGED <<gui, cooldown, history, planned, job>>

\* ponderhit: the held request is taken, and carries the clocks at the latest now.
PonderHit ==
  /\ command = "none" /\ held # NoPonder /\ OurTurn
  /\ \E theirs \in OpponentClocks :
       StartSearch(ClockOverride(held, WithClocks(Clockless(NoTime), theirs)), Usable)

\* stop with a held request: it is discarded, and the GUI discards the answer.
StopPonder ==
  /\ command = "none" /\ held # NoPonder
  /\ held' = NoPonder
  /\ UNCHANGED <<gui, cooldown, history, command, planned, worker, job>>

\* The game is over for whatever search still runs.
Abandon == recent' = NoHistory /\ leftover' = (worker # "idle")

\* usinewgame, and the game the GUI starts with it.
NewGame ==
  /\ Cancel("newgame")
  /\ side' \in Sides /\ game' \in Games /\ clock' = game'.base /\ moves' = 0
  /\ playing' = TRUE /\ forfeited' = NoTime /\ held' = NoPonder
  /\ Abandon
  /\ UNCHANGED <<cooldown, planned, job>>

GameOver ==
  /\ Cancel("gameover")
  /\ playing' = FALSE /\ held' = NoPonder
  /\ Abandon
  /\ UNCHANGED <<side, game, clock, moves, forfeited, cooldown, planned, job>>

\* position, sent while a search may be running.
SetPosition ==
  /\ Cancel("position")
  /\ held' = NoPonder
  /\ UNCHANGED <<gui, cooldown, history, planned, job>>

-----------------------------------------------------------------------------
(***************************************************************************)
(* The handler after the join.                                             *)
(***************************************************************************)
Joined_NoWait == TRUE
Joined == worker = "idle"

Launch ==
  /\ command = "go" /\ Joined
  /\ worker' = "searching" /\ job' = planned
  /\ command' = "none" /\ planned' = NoJob
  /\ UNCHANGED <<gui, cooldown, history, held>>

\* The handlers of usinewgame and gameover reset the spend history.
ResetsHistory(handler) == handler \in {"newgame", "gameover"}

Finish ==
  /\ command \in {"newgame", "gameover", "position", "ponder"} /\ Joined
  /\ cooldown' = IF ResetsHistory(command) THEN 0 ELSE cooldown
  /\ command' = "none"
  /\ UNCHANGED <<gui, history, held, planned, worker, job>>

-----------------------------------------------------------------------------
(***************************************************************************)
(* The search thread ends: at its hard deadline, or earlier (a completed   *)
(* depth, a mate, a stop, a superseding command).                          *)
(***************************************************************************)
Push(extended) ==
  [i \in 1..CooldownMoves |-> IF i = 1 THEN extended ELSE recent[i - 1]]

\* Only match clocks carry spending information.
Observe(spent) ==
  IF job.plan.mode = "Clock"
  THEN /\ cooldown' = CooldownAfter(cooldown, job.plan, spent)
       /\ recent' = IF leftover THEN recent
                     ELSE Push(job.plan.soft > 0 /\ 5 * spent > 6 * job.plan.soft)
  ELSE UNCHANGED <<cooldown, recent>>

\* The GUI charges the published move: first the clock, then the byoyomi period.
Charge(charged) ==
  /\ IF charged > job.usable
     THEN forfeited' = job.usable /\ playing' = FALSE /\ UNCHANGED clock
     ELSE /\ clock' = Minus(clock + game.increment, charged)
          /\ UNCHANGED <<playing, forfeited>>
  /\ moves' = moves + 1
  /\ UNCHANGED <<side, game>>

\* A search without a hard deadline ends when it is done; its time is not looked at.
MayTake == IF job.plan.hard = NoTime THEN 0..Lag ELSE 0..(job.plan.hard + Lag)

SearchEnds ==
  /\ worker # "idle"
  /\ \E spent \in MayTake :
       /\ Observe(spent)
       /\ IF worker = "searching" /\ job.usable # NoTime
          THEN \E charged \in {t \in MayTake : spent <= t /\ t <= spent + Lag} : Charge(charged)
          ELSE UNCHANGED gui
  /\ worker' = "idle" /\ job' = NoJob /\ leftover' = FALSE
  /\ UNCHANGED <<command, held, planned>>

MatchNext ==
  \/ Go \/ GoPonder \/ PonderHit \/ StopPonder \/ NewGame \/ GameOver \/ SetPosition
  \/ Launch \/ Finish \/ SearchEnds

MatchSpec == MatchInit /\ [][MatchNext]_matchVars

-----------------------------------------------------------------------------
(***************************************************************************)
(* Properties.                                                             *)
(***************************************************************************)
Jobs == [plan : Plans, usable : Times]

\* Every variable has a value of its kind; cooldown is the code's small counter.
MatchTypeOK ==
  /\ side \in Sides /\ game \in Games /\ clock \in Nat /\ moves \in Nat
  /\ playing \in BOOLEAN
  /\ forfeited \in Times
  /\ cooldown \in 0..CooldownMoves
  /\ command \in {"none", "go", "newgame", "gameover", "position", "ponder"}
  /\ held \in Requests \cup {NoPonder}
  /\ planned \in Jobs /\ job \in Jobs
  /\ worker \in {"idle", "searching", "superseded"}
  /\ recent \in [1..CooldownMoves -> BOOLEAN] /\ leftover \in BOOLEAN

\* The engine never loses on time: a move is charged more than the GUI granted only when
\* the whole grant was smaller than the margin kept for delays.  (A clock beyond the
\* defensive bound is cut to it, an answer late by Lag or less is covered by the margin.)
DeadlineMargin == Least(SafetyMargin, MarginCap)
NoForfeit == forfeited = NoTime \/ forfeited <= DeadlineMargin

\* The limits of a running match search are ordered: the soft target and the spending
\* floor lie within the hard deadline, which lies within what was allocated, which the
\* clock of the side that moves can pay; and a move that has time gets some.
PlanIsOrdered ==
  worker # "idle" /\ job.usable # NoTime =>
    /\ job.plan.mode = "Clock"
    /\ job.plan.soft <= job.plan.hard
    /\ OrZero(job.plan.minSpend) <= job.plan.hard
    /\ job.plan.hard <= job.plan.allocated
    /\ job.plan.allocated <= job.usable
    /\ 0 < job.usable => 0 < job.plan.hard

\* A match is never lost on time, for every running search has limits in the order that
\* keeps it so (time_control.rs, pure.rs).
MatchIsSound == MatchTypeOK /\ NoForfeit /\ PlanIsOrdered

\* The cooldown is the history of this game's searches and of nothing else: an extended
\* search leaves it at three, and each later match search takes one off.  Neither a search
\* of the last game that reports late nor a search without a clock touches it.
CooldownCountsMoves ==
  ~ResetsHistory(command) =>
    \A k \in 0..(CooldownMoves - 1) :
      cooldown > k <=> \E i \in 1..(CooldownMoves - k) : recent[i]
=============================================================================
