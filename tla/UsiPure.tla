------------------------------ MODULE UsiPure ------------------------------
(***************************************************************************)
(* The pure-only USI session of engine/usi/src/pure.rs with the output     *)
(* gate and the generation counter of engine/usi/src/lifecycle.rs.         *)
(*                                                                         *)
(* Three kinds of thread run concurrently:                                 *)
(*   - the reader turns peer lines into events (read_events);              *)
(*   - the owner takes one event at a time and runs its handler to the     *)
(*     end (session_loop, handle_command, finish, start_search);           *)
(*   - one search worker per accepted `go' (the closure start_search       *)
(*     spawns, and run_search).                                            *)
(* They share the event channel, the output generation, the completion     *)
(* gates, the cancellation tokens and the time manager.  Everything that   *)
(* one thread does between two accesses to shared state is one step.       *)
(*                                                                         *)
(* Text is abstracted away: of all lines written to the peer only          *)
(* `bestmove' is counted (variable answers), because it is the one that    *)
(* closes a request.                                                       *)
(***************************************************************************)
EXTENDS Naturals, Sequences

CONSTANTS Positions,   \* positions a `position' line may describe
          StartPos,    \* Position::startpos()
          Options,     \* values the negotiable options may take
          DefaultOptions,
          MaxLines,    \* bound on the lines the peer sends
          MaxQueue,    \* bound on unread lines in the event channel
          NoRequest

ASSUME PureAssumption ==
  /\ StartPos \in Positions
  /\ DefaultOptions \in Options
  /\ MaxLines \in Nat \ {0}
  /\ MaxQueue \in Nat \ {0}
  /\ NoRequest \notin Nat

Requests == 1 .. MaxLines

VARIABLES lines,       \* lines read so far; a `go' is known by its line number
          reader,      \* "open", or "closed" after Eof or ReaderFailed
          events,      \* the mpsc channel to the owner
          ownerPc,     \* where the owner's handler stands
          current,     \* the event being handled
          active,      \* PureSession.worker: the request whose worker is held
          pending,     \* PureSession.pending_ponder
          position,    \* PureSession.position with its history
          options,     \* PureSession.options
          authority,   \* OutputAuthority.generation
          released,    \* requests whose CompletionGate is released
          cancelled,   \* requests whose CancellationToken is cancelled
          worker,      \* the search workers, by request
          cooldown,    \* TimeManager.extension_cooldown
          game,        \* history: games begun (usinewgame, gameover)
          coolGame,    \* history: the game whose search set the cooldown
          latest,      \* history: the last `go' line accepted or held
          answers      \* history: `bestmove' lines written, by request

ownerVars == <<ownerPc, current, active, pending, position, options, game,
               latest>>
sharedVars == <<authority, released, cancelled>>
clockVars == <<cooldown, coolGame>>
vars == <<lines, reader, events, ownerVars, sharedVars, worker, clockVars,
          answers>>

-----------------------------------------------------------------------------
(* Commands, as parse_command classifies them.  "other" stands for `usi',  *)
(* `isready', `go mate', a blank, malformed or oversized line: their       *)
(* handlers only write text.                                               *)

GoCommand == [op : {"go"}, ponder : BOOLEAN, infinite : BOOLEAN,
              clock : BOOLEAN]

Command ==
  [op : {"other", "newgame", "gameover", "stop", "quit"}]
  \union [op : {"setoption"}, value : Options, ok : BOOLEAN]
  \union [op : {"position"}, to : Positions, ok : BOOLEAN]
  \union [op : {"ponderhit"}, clock : BOOLEAN]
  \union GoCommand

Event == [type : {"line"}, cmd : Command, id : Requests]
         \union [type : {"eof", "readerFailed"}]
         \union [type : {"failed"}, gen : Nat]

NoEvent == [type |-> "none"]

\* A held `go ponder': its parameters and the line it came on.
Held == [id : Requests, infinite : BOOLEAN, clock : BOOLEAN]
NoHold == [id |-> NoRequest]

\* GoParameters::apply_clock_override keeps what `ponderhit' does not carry.
ClockOverride(held, hit) ==
  [held EXCEPT !.clock = @ \/ hit.clock]

\* TimeControl::validate on a parsed `go': the parser already bounds every
\* field, what is left to reject is an infinite search with a clock.
PlanAccepted(go) == ~(go.infinite /\ go.clock)

WorkerPc == {"idle", "search", "observe", "gate", "emit", "report", "done"}

Worker == [pc : WorkerPc, gen : Nat, infinite : BOOLEAN, clock : BOOLEAN,
           failed : BOOLEAN, root : Positions, options : Options,
           game : Nat]

IdleWorker == [pc |-> "idle", gen |-> 0, infinite |-> FALSE, clock |-> FALSE,
               failed |-> FALSE, root |-> StartPos,
               options |-> DefaultOptions, game |-> 0]

Init ==
  /\ lines = 0 /\ reader = "open" /\ events = <<>>
  /\ ownerPc = "recv" /\ current = NoEvent
  /\ active = NoRequest /\ pending = NoHold
  /\ position = StartPos /\ options = DefaultOptions
  /\ authority = 0 /\ released = {} /\ cancelled = {}
  /\ worker = [r \in Requests |-> IdleWorker]
  /\ cooldown = 0 /\ game = 0 /\ coolGame = 0 /\ latest = 0
  /\ answers = [r \in Requests |-> 0]

-----------------------------------------------------------------------------
(* The reader thread.                                                      *)

ReadLine(c) ==
  /\ reader = "open"
  /\ lines < MaxLines
  /\ Len(events) < MaxQueue
  /\ ownerPc # "ended"        \* the receiver is dropped: send fails
  /\ lines' = lines + 1
  /\ events' = Append(events, [type |-> "line", cmd |-> c, id |-> lines + 1])
  /\ UNCHANGED <<reader, ownerVars, sharedVars, worker, clockVars, answers>>

\* End of input, a read error or a reader panic: one last event, then silence.
ReadEnd(type) ==
  /\ reader = "open"
  /\ reader' = "closed"
  /\ events' = Append(events, [type |-> type])
  /\ UNCHANGED <<lines, ownerVars, sharedVars, worker, clockVars, answers>>

-----------------------------------------------------------------------------
(* The owner.  Receive takes the next event and decides what its handler   *)
(* does first: nothing, finish(Complete), or finish(Supersede).  The       *)
(* handlers that call finish resume in Resume once the worker is joined.   *)

Line == current.cmd
StartsSearch(e) == e.type = "line" /\ \/ e.cmd.op = "go" /\ ~e.cmd.ponder
                                      \/ e.cmd.op = "ponderhit"

\* What start_search would be asked for: `go' as it stands, or the held
\* request with the clocks `ponderhit' carries.
Wanted(e) ==
  IF e.cmd.op = "go"
  THEN [id |-> e.id, infinite |-> e.cmd.infinite, clock |-> e.cmd.clock]
  ELSE ClockOverride(pending, e.cmd)

Supersedes(e) ==
  \/ e.type \in {"eof", "readerFailed"}
  \/ e.type = "failed" /\ e.gen = authority
  \/ /\ e.type = "line"
     /\ \/ e.cmd.op \in {"setoption", "newgame", "position", "gameover", "quit"}
        \/ e.cmd.op = "go" /\ e.cmd.ponder
        \/ e.cmd.op = "go" /\ ~e.cmd.ponder /\ PlanAccepted(Wanted(e))
        \/ /\ e.cmd.op = "ponderhit" /\ pending # NoHold
           /\ PlanAccepted(Wanted(e))

Completes(e) == e.type = "line" /\ e.cmd.op = "stop" /\ pending = NoHold

Receive ==
  /\ ownerPc = "recv" /\ events # <<>>
  /\ LET e == Head(events) IN
     \/ /\ Supersedes(e)
        /\ ownerPc' = IF active = NoRequest THEN "resume" ELSE "advance"
        /\ current' = e
        /\ UNCHANGED <<pending, answers>>
     \/ /\ Completes(e)
        /\ ownerPc' = IF active = NoRequest THEN "recv" ELSE "release"
        /\ current' = IF active = NoRequest THEN NoEvent ELSE e
        /\ UNCHANGED <<pending, answers>>
     \/ \* `stop' with a held ponder: answered at once, worker untouched
        /\ e.type = "line" /\ e.cmd.op = "stop" /\ pending # NoHold
        /\ answers' = [answers EXCEPT ![pending.id] = @ + 1]
        /\ pending' = NoHold
        /\ UNCHANGED <<ownerPc, current>>
     \/ \* `ponderhit' whose plan is rejected: the held request is gone
        /\ e.type = "line" /\ e.cmd.op = "ponderhit" /\ ~Supersedes(e)
        /\ pending' = NoHold
        /\ UNCHANGED <<ownerPc, current, answers>>
     \/ \* text only: "other", a rejected `go', a stale worker failure
        /\ ~Supersedes(e)
        /\ e.type = "line" => e.cmd.op \in {"other", "go"}
        /\ UNCHANGED <<ownerPc, current, pending, answers>>
  /\ events' = Tail(events)
  /\ UNCHANGED <<lines, reader, active, position, options, game, latest, sharedVars,
                 worker, clockVars>>

\* finish(Supersede): the outstanding output becomes stale first of all.
Advance ==
  /\ ownerPc = "advance"
  /\ authority' = authority + 1
  /\ ownerPc' = "release"
  /\ UNCHANGED <<lines, reader, events, current, active, pending, position,
                 options, game, latest, released, cancelled, worker, clockVars,
                 answers>>

\* Mutant: the gate of a retained completion is not released.
Release_Forgotten ==
  /\ ownerPc = "release"
  /\ ownerPc' = "cancel"
  /\ UNCHANGED <<lines, reader, events, current, active, pending, position,
                 options, game, latest, sharedVars, worker, clockVars, answers>>

Release ==
  /\ ownerPc = "release"
  /\ released' = released \union {active}
  /\ ownerPc' = "cancel"
  /\ UNCHANGED <<lines, reader, events, current, active, pending, position,
                 options, game, latest, authority, cancelled, worker, clockVars,
                 answers>>

Cancel ==
  /\ ownerPc = "cancel"
  /\ cancelled' = cancelled \union {active}
  /\ ownerPc' = "join"
  /\ UNCHANGED <<lines, reader, events, current, active, pending, position,
                 options, game, latest, authority, released, worker, clockVars,
                 answers>>

\* Mutant: the worker is detached instead of joined.
Join_Detached ==
  /\ ownerPc = "join"
  /\ active' = NoRequest
  /\ IF Completes(current)
     THEN ownerPc' = "recv" /\ current' = NoEvent
     ELSE ownerPc' = "resume" /\ UNCHANGED current
  /\ UNCHANGED <<lines, reader, events, pending, position, options, game,
                 latest, sharedVars, worker, clockVars, answers>>

\* The join returns when the worker thread has ended.  `stop' has nothing
\* left to do; every other handler that called finish goes on.
Join ==
  /\ ownerPc = "join"
  /\ worker[active].pc = "done"
  /\ active' = NoRequest
  /\ IF Completes(current)
     THEN ownerPc' = "recv" /\ current' = NoEvent
     ELSE ownerPc' = "resume" /\ UNCHANGED current
  /\ UNCHANGED <<lines, reader, events, pending, position, options, game,
                 latest, sharedVars, worker, clockVars, answers>>

\* PureSession::start_search after its finish: a new generation, a new worker
\* on the session's position with the session's options.
Start(go) ==
  /\ authority' = authority + 1
  /\ active' = go.id
  /\ latest' = go.id
  /\ worker' = [worker EXCEPT ![go.id] =
       [pc |-> "search", gen |-> authority + 1, infinite |-> go.infinite,
        clock |-> go.clock, failed |-> FALSE, root |-> position,
        options |-> options, game |-> game]]
  /\ ownerPc' = "recv"
  /\ pending' = NoHold
  /\ UNCHANGED <<position, options, game, clockVars>>

Hold ==
  /\ pending' = [id |-> current.id, infinite |-> Line.infinite,
                 clock |-> Line.clock]
  /\ latest' = current.id
  /\ ownerPc' = "recv"
  /\ UNCHANGED <<active, position, options, game, authority, worker,
                 clockVars>>

SetOption ==
  /\ options' = IF Line.ok THEN Line.value ELSE options
  /\ ownerPc' = "recv"
  /\ UNCHANGED <<active, latest, pending, position, game, authority, worker,
                 clockVars>>

SetPosition ==
  /\ pending' = NoHold
  /\ position' = IF Line.ok THEN Line.to ELSE position
  /\ ownerPc' = "recv"
  /\ UNCHANGED <<active, latest, options, game, authority, worker, clockVars>>

\* `usinewgame' and `gameover' end a match: reset_spend_history.
EndMatch ==
  /\ pending' = NoHold
  /\ position' = IF Line.op = "newgame" THEN StartPos ELSE position
  /\ cooldown' = 0
  /\ game' = game + 1
  /\ ownerPc' = "recv"
  /\ UNCHANGED <<active, latest, options, coolGame, authority, worker>>

EndSession ==
  /\ pending' = IF current.type = "line" THEN NoHold ELSE pending
  /\ ownerPc' = "ended"
  /\ UNCHANGED <<active, latest, position, options, game, authority, worker,
                 clockVars>>

Resume ==
  /\ ownerPc = "resume"
  /\ \/ StartsSearch(current) /\ Start(Wanted(current))
     \/ current.type = "line" /\ Line.op = "go" /\ Line.ponder /\ Hold
     \/ current.type = "line" /\ Line.op = "setoption" /\ SetOption
     \/ current.type = "line" /\ Line.op = "position" /\ SetPosition
     \/ current.type = "line" /\ Line.op \in {"newgame", "gameover"} /\ EndMatch
     \/ (current.type = "line" => Line.op = "quit") /\ EndSession
  /\ current' = NoEvent
  /\ UNCHANGED <<lines, reader, events, released, cancelled, answers>>

Owner == Receive \/ Advance \/ Release \/ Cancel \/ Join \/ Resume

-----------------------------------------------------------------------------
(* A search worker: run_search between its accesses to shared state.       *)

WorkerStep(r, to) == worker' = [worker EXCEPT ![r].pc = to]

\* The search returns: by its own limits, or because it was cancelled.  The
\* result may be unusable (inference failed, or its runtime proof is
\* invalid); a panic skips the rest of run_search.
SearchEnds(r) ==
  /\ worker[r].pc = "search"
  /\ \E failed, panic \in BOOLEAN :
       /\ panic => failed
       /\ worker' = [worker EXCEPT
            ![r].failed = failed,
            ![r].pc = CASE worker[r].clock /\ ~panic -> "observe"
                        [] failed /\ (panic \/ ~worker[r].clock) -> "report"
                        [] OTHER -> "gate"]
  /\ UNCHANGED <<lines, reader, events, ownerVars, sharedVars, clockVars,
                 answers>>

\* TimeManager::observe_spend, reported for match clocks only, and for
\* superseded searches as well.
Observe(r) ==
  /\ worker[r].pc = "observe"
  /\ \E extended \in BOOLEAN :
       /\ cooldown' = IF extended THEN 3 ELSE IF cooldown = 0 THEN 0
                      ELSE cooldown - 1
       /\ coolGame' = IF extended THEN worker[r].game ELSE coolGame
  /\ WorkerStep(r, IF worker[r].failed THEN "report" ELSE "gate")
  /\ UNCHANGED <<lines, reader, events, ownerVars, sharedVars, answers>>

\* CompletionGate::wait: `go infinite' keeps its result until released.
PassGate(r) ==
  /\ worker[r].pc = "gate"
  /\ worker[r].infinite => r \in released
  /\ WorkerStep(r, "emit")
  /\ UNCHANGED <<lines, reader, events, ownerVars, sharedVars, clockVars,
                 answers>>

\* Mutant: the completion is written without the generation check.
Emit_Unchecked(r) ==
  /\ worker[r].pc = "emit"
  /\ answers' = [answers EXCEPT ![r] = @ + 1]
  /\ WorkerStep(r, "done")
  /\ UNCHANGED <<lines, reader, events, ownerVars, sharedVars, clockVars>>

\* OutputAuthority::send_if_current: generation check and write under one
\* lock, so they are one step.
Emit(r) ==
  /\ worker[r].pc = "emit"
  /\ answers' = IF worker[r].gen = authority
                THEN [answers EXCEPT ![r] = @ + 1] ELSE answers
  /\ WorkerStep(r, "done")
  /\ UNCHANGED <<lines, reader, events, ownerVars, sharedVars, clockVars>>

\* A failed worker tells the owner through the same channel as the reader.
Report(r) ==
  /\ worker[r].pc = "report"
  /\ events' = Append(events, [type |-> "failed", gen |-> worker[r].gen])
  /\ WorkerStep(r, "done")
  /\ UNCHANGED <<lines, reader, ownerVars, sharedVars, clockVars, answers>>

WorkerNext(r) == \/ SearchEnds(r) \/ Observe(r) \/ PassGate(r)
                 \/ Emit(r) \/ Report(r)

Terminated == ownerPc = "ended" /\ UNCHANGED vars

Next == \/ \E c \in Command : ReadLine(c)
        \/ \E type \in {"eof", "readerFailed"} : ReadEnd(type)
        \/ Owner
        \/ \E r \in Requests : WorkerNext(r)
        \/ Terminated

Spec == Init /\ [][Next]_vars

\* The owner and the workers are threads the system keeps running.  A search
\* is only known to return when it has limits or is cancelled.
SearchReturns(r) == /\ worker[r].infinite => r \in cancelled
                    /\ SearchEnds(r)

Fairness == /\ WF_vars(Owner)
            /\ \A r \in Requests :
                 /\ WF_vars(SearchReturns(r))
                 /\ WF_vars(Observe(r) \/ PassGate(r) \/ Emit(r) \/ Report(r))

FairSpec == Spec /\ Fairness

-----------------------------------------------------------------------------
(* Properties.                                                             *)

TypeOK ==
  /\ lines \in 0 .. MaxLines
  /\ reader \in {"open", "closed"}
  /\ events \in Seq(Event)
  /\ ownerPc \in {"recv", "advance", "release", "cancel", "join", "resume",
                  "ended"}
  /\ current \in Event \union {NoEvent}
  /\ active \in Requests \union {NoRequest}
  /\ pending \in Held \union {NoHold}
  /\ position \in Positions
  /\ options \in Options
  /\ authority \in Nat
  /\ released \subseteq Requests
  /\ cancelled \subseteq Requests
  /\ worker \in [Requests -> Worker]
  /\ cooldown \in 0 .. 3
  /\ game \in Nat
  /\ coolGame \in Nat
  /\ latest \in Requests \union {0}
  /\ answers \in [Requests -> Nat]

Running(r) == worker[r].pc \notin {"idle", "done"}

\* A worker thread runs only while the session holds its handle: finish joins
\* every worker it takes, so no search outlives its request and none is left
\* behind by the end of the session.
NoOrphanWorker ==
  /\ \A r \in Requests : Running(r) => r = active
  /\ ownerPc = "ended" => active = NoRequest

\* "A held `go ponder' request.  Invariant: set only while no worker is
\* active" (PureSession.pending_ponder).
HoldExcludesWorker == pending # NoHold => active = NoRequest

\* A search's spending never cools the clock of a later match: the reset of
\* usinewgame and gameover comes after the join of the old match's search.
NoCooldownLeak == cooldown > 0 => coolGame = game

\* A `go' that start_search rejects leaves the search before it alive: no
\* finish ever runs on behalf of a request without a plan.
RejectedGoIsHarmless ==
  ownerPc \in {"advance", "release", "cancel", "join"} /\ current.type = "line"
    => ~(Line.op = "go" /\ ~Line.ponder /\ Line.infinite /\ Line.clock)

\* A `bestmove' of a search is a move of the position, and found under the
\* options, that the session holds when the line is written.
AnswerFitsSession ==
  [][\A r \in Requests :
       answers'[r] # answers[r] /\ r # pending.id =>
         worker[r].root = position /\ worker[r].options = options]_vars

\* `go infinite' is answered only while a `stop' is being handled.
InfiniteAnsweredByStop ==
  [][\A r \in Requests :
       answers'[r] # answers[r] /\ worker[r].infinite =>
         Completes(current) /\ active = r]_vars

\* The session's thread, its workers and its queue agree (pure.rs): no worker is
\* left behind, a held request excludes a search, a match keeps its own clock,
\* a rejected `go' harms no search, and every `bestmove' is of the position and
\* the options the session holds and, for `go infinite', asked for.
SessionIsSound ==
  /\ [](/\ TypeOK /\ NoOrphanWorker /\ HoldExcludesWorker /\ NoCooldownLeak
        /\ RejectedGoIsHarmless)
  /\ AnswerFitsSession
  /\ InfiniteAnsweredByStop

\* The request the peer waits on, and the contract of UsiContract over it.
OpenRequest ==
  IF pending # NoHold THEN pending.id
  ELSE IF active # NoRequest
  THEN IF /\ worker[active].gen = authority
          /\ ~worker[active].failed
          /\ answers[active] = 0
       THEN active ELSE NoRequest
  ELSE NoRequest

Contract == INSTANCE UsiContract WITH open <- OpenRequest

\* The session implements the one-completion-per-go contract.
ImplementsContract == Contract!Spec

Lost(r) == ownerPc = "ended" \/ authority > worker[r].gen

\* A search with limits is answered without any help of the peer, unless it
\* is superseded or its failure ends the session.
LimitedSearchCompletes ==
  \A r \in Requests :
    worker[r].pc = "search" /\ ~worker[r].infinite
      ~> answers[r] = 1 \/ Lost(r)

\* `stop' gets the running search's answer, infinite or not.
StopIsAnswered ==
  \A r \in Requests :
    ownerPc = "release" /\ active = r /\ Completes(current)
      ~> answers[r] = 1 \/ Lost(r)

\* Once the peer's input ends, the session ends, whatever search is running.
ClosedInputEndsSession == reader = "closed" ~> ownerPc = "ended"

\* Nobody waits for ever: not the peer for a move it can have, and not the
\* session for a worker it joins.
NobodyWaitsForEver ==
  LimitedSearchCompletes /\ StopIsAnswered /\ ClosedInputEndsSession
=============================================================================
