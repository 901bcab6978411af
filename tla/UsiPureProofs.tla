--------------------------- MODULE UsiPureProofs ---------------------------
(***************************************************************************)
(* Safety of the pure USI session for any number of lines, positions and   *)
(* options, queue lengths included.                                        *)
(*                                                                         *)
(* Typed is TypeOK with what the handlers rely on when they resume.  The   *)
(* rest follows from IInv, which says what each thread may be doing while  *)
(* the owner stands at each point of its handler.                          *)
(***************************************************************************)
EXTENDS UsiPure, TLAPS

-----------------------------------------------------------------------------
(* Types.                                                                  *)

\* The last event of the reader, a line and a worker's report are events.
LEMMA EventTypes ==
  /\ \A c \in Command, n \in Requests :
       [type |-> "line", cmd |-> c, id |-> n] \in Event
  /\ \A type \in {"eof", "readerFailed"} : [type |-> type] \in Event
  /\ \A n \in Nat : [type |-> "failed", gen |-> n] \in Event
BY DEF Event

\* A line event carries a command and the number of its line.
LEMMA LineEvent ==
  ASSUME NEW e \in Event, e.type = "line"
  PROVE  e.cmd \in Command /\ e.id \in Requests
BY DEF Event

\* A worker's report carries a generation.
LEMMA FailedEvent ==
  ASSUME NEW e \in Event, e.type = "failed"
  PROVE  e.gen \in Nat
BY DEF Event

\* What the handlers read from a command has the type it is stored under.
LEMMA CommandFields ==
  ASSUME NEW c \in Command
  PROVE  /\ c.op = "setoption" => c.value \in Options
         /\ c.op = "position" => c.to \in Positions
         /\ c.op = "ponderhit" => c.clock \in BOOLEAN
         /\ c.op = "go" => c.infinite \in BOOLEAN /\ c.clock \in BOOLEAN
BY DEF Command, GoCommand

\* The request start_search is asked for is well formed.
LEMMA WantedType ==
  ASSUME NEW e \in Event, StartsSearch(e),
         e.cmd.op = "ponderhit" => pending \in Held
  PROVE  Wanted(e) \in Held
<1>1. e.cmd \in Command /\ e.id \in Requests
  BY LineEvent DEF StartsSearch
<1>2. CASE e.cmd.op = "go"
  BY <1>1, <1>2, CommandFields DEF Wanted, Held
<1>3. CASE e.cmd.op = "ponderhit"
  BY <1>1, <1>3, CommandFields DEF Wanted, Held, ClockOverride
<1> QED BY <1>2, <1>3 DEF StartsSearch

\* Taking the next event off the channel leaves events in it.
LEMMA QueueTypes ==
  ASSUME NEW q \in Seq(Event)
  PROVE  /\ \A e \in Event : Append(q, e) \in Seq(Event)
         /\ q # <<>> => Head(q) \in Event /\ Tail(q) \in Seq(Event)
OBVIOUS


\* What finish and the handlers that resume after it rely on: a worker to
\* finish, an event being handled, and the held request a ponderhit starts.
Busy == ownerPc \in {"advance", "release", "cancel", "join", "resume"}
Finishing == Busy /\ ownerPc # "resume"

PhaseOK ==
  /\ Finishing => active \in Requests
  /\ Busy => current \in Event
  /\ Busy /\ current.type = "line" /\ current.cmd.op = "ponderhit"
       => pending # NoHold

Typed == TypeOK /\ PhaseOK

\* The session starts well typed, with no handler under way.
LEMMA TypeInit == Init => Typed
BY PureAssumption
   DEF Init, Typed, TypeOK, PhaseOK, Busy, Finishing, Requests, Held, Worker,
       WorkerPc, IdleWorker

\* A worker that moves on is still a worker.
LEMMA WorkerMoves ==
  ASSUME NEW w \in Worker, NEW to \in WorkerPc, NEW failed \in BOOLEAN
  PROVE  /\ [w EXCEPT !.pc = to] \in Worker
         /\ [w EXCEPT !.failed = failed, !.pc = to] \in Worker
BY DEF Worker

\* The steps of the worker of request r.
LEMMA WorkerType ==
  ASSUME Typed, NEW r \in Requests, WorkerNext(r)
  PROVE  Typed'
<1>1. CASE SearchEnds(r)
  <2>1. PICK failed \in BOOLEAN, pc \in WorkerPc :
          worker' = [worker EXCEPT ![r].failed = failed, ![r].pc = pc]
    BY <1>1 DEF SearchEnds, WorkerPc
  <2>2. worker' \in [Requests -> Worker]
    BY <2>1, WorkerMoves DEF Typed, TypeOK
  <2> QED BY <1>1, <2>2
          DEF Typed, TypeOK, PhaseOK, Busy, Finishing, SearchEnds, ownerVars,
              sharedVars, clockVars
<1>2. CASE Observe(r)
  <2>1. PICK pc \in WorkerPc : worker' = [worker EXCEPT ![r].pc = pc]
    BY <1>2 DEF Observe, WorkerStep, WorkerPc
  <2>3. worker' \in [Requests -> Worker]
    BY <2>1, WorkerMoves DEF Typed, TypeOK
  <2>2. cooldown' \in 0 .. 3 /\ coolGame' \in Nat
    BY <1>2 DEF Typed, TypeOK, Observe, Worker
  <2> QED BY <1>2, <2>2, <2>3
          DEF Typed, TypeOK, PhaseOK, Busy, Finishing, Observe, ownerVars,
              sharedVars
<1>3. CASE PassGate(r)
  <2>1. worker' \in [Requests -> Worker]
    BY <1>3, WorkerMoves DEF Typed, TypeOK, PassGate, WorkerStep, WorkerPc
  <2> QED BY <1>3, <2>1
          DEF Typed, TypeOK, PhaseOK, Busy, Finishing, PassGate, ownerVars,
              sharedVars, clockVars
<1>4. CASE Emit(r)
  <2>1. worker' \in [Requests -> Worker]
    BY <1>4, WorkerMoves DEF Typed, TypeOK, Emit, WorkerStep, WorkerPc
  <2> QED BY <1>4, <2>1
          DEF Typed, TypeOK, PhaseOK, Busy, Finishing, Emit, ownerVars,
              sharedVars, clockVars
<1>5. CASE Report(r)
  <2>1. worker' \in [Requests -> Worker]
    BY <1>5, WorkerMoves DEF Typed, TypeOK, Report, WorkerStep, WorkerPc
  <2>2. worker[r].gen \in Nat
    BY DEF Typed, TypeOK, Worker
  <2>3. events' \in Seq(Event)
    BY <1>5, <2>2, EventTypes, QueueTypes DEF Typed, TypeOK, Report
  <2> QED BY <1>5, <2>1, <2>3
          DEF Typed, TypeOK, PhaseOK, Busy, Finishing, Report, ownerVars,
              sharedVars, clockVars
<1> QED BY <1>1, <1>2, <1>3, <1>4, <1>5 DEF WorkerNext

\* The owner takes an event and decides what to do with it.
LEMMA ReceiveType ==
  ASSUME Typed, Receive
  PROVE  Typed'
<1> DEFINE e == Head(events)
<1>1. e \in Event /\ events' \in Seq(Event)
  BY QueueTypes DEF Typed, TypeOK, Receive
<1>2. pending' \in Held \union {NoHold} /\ answers' \in [Requests -> Nat]
  BY DEF Typed, TypeOK, Receive, Held, NoHold
<1>3. \/ /\ ownerPc' = "recv" /\ current' \in {current, NoEvent}
         /\ current' \in Event \union {NoEvent}
      \/ /\ ownerPc' \in {"advance", "release"} /\ active \in Requests
         /\ current' = e /\ pending' = pending
         /\ current'.type = "line" /\ current'.cmd.op = "ponderhit"
              => pending # NoHold
      \/ /\ ownerPc' = "resume"
         /\ current' = e /\ pending' = pending
         /\ current'.type = "line" /\ current'.cmd.op = "ponderhit"
              => pending # NoHold
  BY <1>1 DEF Typed, TypeOK, Receive, Supersedes, Completes
<1> QED BY <1>1, <1>2, <1>3
        DEF Typed, TypeOK, PhaseOK, Busy, Finishing, Receive, sharedVars,
            clockVars

\* A handler resumes with the worker out of the way.
LEMMA ResumeType ==
  ASSUME Typed, Resume
  PROVE  Typed'
<1>1. current \in Event /\ current' = NoEvent
  BY DEF Typed, PhaseOK, Busy, Resume
<1>2. current.type = "line" => Line \in Command /\ current.id \in Requests
  BY <1>1, LineEvent DEF Line
<1>3. CASE StartsSearch(current) /\ Start(Wanted(current))
  <2>1. PICK go \in Held : go = Wanted(current)
    BY <1>1, <1>2, <1>3, WantedType
       DEF Typed, TypeOK, PhaseOK, Busy, Resume, StartsSearch, Line
  <2>2. worker' \in [Requests -> Worker]
    BY <1>3, <2>1 DEF Start, Typed, TypeOK, Worker, WorkerPc, Held
  <2> QED BY <1>1, <1>3, <2>1, <2>2
          DEF Start, Typed, TypeOK, PhaseOK, Busy, Finishing, Resume, Held,
              clockVars
<1>4. CASE current.type = "line" /\ Line.op = "go" /\ Line.ponder /\ Hold
  <2>1. pending' \in Held
    BY <1>2, <1>4, CommandFields DEF Hold, Held
  <2> QED BY <1>1, <1>2, <1>4, <2>1
          DEF Hold, Typed, TypeOK, PhaseOK, Busy, Finishing, Resume, clockVars
<1>5. CASE current.type = "line" /\ Line.op = "setoption" /\ SetOption
  BY <1>1, <1>2, <1>5, CommandFields
     DEF SetOption, Typed, TypeOK, PhaseOK, Busy, Finishing, Resume, clockVars
<1>6. CASE current.type = "line" /\ Line.op = "position" /\ SetPosition
  BY <1>1, <1>2, <1>6, CommandFields
     DEF SetPosition, Typed, TypeOK, PhaseOK, Busy, Finishing, Resume, clockVars
<1>7. CASE EndMatch
  BY <1>1, <1>7, PureAssumption
     DEF EndMatch, Typed, TypeOK, PhaseOK, Busy, Finishing, Resume
<1>8. CASE EndSession
  BY <1>1, <1>8
     DEF EndSession, Typed, TypeOK, PhaseOK, Busy, Finishing, Resume, clockVars
<1> QED BY <1>3, <1>4, <1>5, <1>6, <1>7, <1>8 DEF Resume

\* Every step of every thread keeps the types.
LEMMA TypeStep == Typed /\ [Next]_vars => Typed'
<1> SUFFICES ASSUME Typed, [Next]_vars PROVE Typed'
  OBVIOUS
<1>1. ASSUME NEW c \in Command, ReadLine(c) PROVE Typed'
  <2>1. lines + 1 \in Requests
    BY <1>1, PureAssumption DEF Typed, TypeOK, ReadLine, Requests
  <2>2. events' \in Seq(Event)
    BY <1>1, <2>1, EventTypes, QueueTypes DEF Typed, TypeOK, ReadLine
  <2> QED BY <1>1, <2>1, <2>2
          DEF Typed, TypeOK, PhaseOK, Busy, Finishing, ReadLine, ownerVars,
              sharedVars, clockVars, Requests
<1>2. ASSUME NEW type \in {"eof", "readerFailed"}, ReadEnd(type) PROVE Typed'
  <2>1. events' \in Seq(Event)
    BY <1>2, EventTypes, QueueTypes DEF Typed, TypeOK, ReadEnd
  <2> QED BY <1>2, <2>1
          DEF Typed, TypeOK, PhaseOK, Busy, Finishing, ReadEnd, ownerVars,
              sharedVars, clockVars
<1>3. CASE Advance \/ Release \/ Cancel
  BY <1>3 DEF Typed, TypeOK, PhaseOK, Busy, Finishing, Advance, Release, Cancel,
              clockVars
<1>4. CASE Join
  BY <1>4 DEF Typed, TypeOK, PhaseOK, Busy, Finishing, Join, sharedVars,
              clockVars
<1>5. CASE Terminated \/ UNCHANGED vars
  BY <1>5 DEF Typed, TypeOK, PhaseOK, Busy, Finishing, Terminated, vars,
              ownerVars, sharedVars, clockVars
<1> QED BY <1>1, <1>2, <1>3, <1>4, <1>5, WorkerType, ReceiveType, ResumeType
        DEF Next, Owner

\* Every variable keeps its type, whatever thread moves.
THEOREM TypeCorrect == Spec => []TypeOK
<1>1. Spec => []Typed
  BY TypeInit, TypeStep, PTL DEF Spec
<1> QED BY <1>1, PTL DEF Typed

-----------------------------------------------------------------------------
(* The inductive invariant.                                                *)

\* Unread lines are newer than every request accepted so far, in order.
QueueInv ==
  /\ latest <= lines
  /\ \A i \in 1 .. Len(events) :
       events[i].type = "line" =>
         /\ latest < events[i].id /\ events[i].id <= lines
         /\ Busy /\ current.type = "line" => current.id < events[i].id
         /\ \A j \in 1 .. Len(events) :
              i < j /\ events[j].type = "line" => events[i].id < events[j].id
  /\ Busy /\ current.type = "line" => latest < current.id /\ current.id <= lines

\* Only the held worker runs, for what the session holds; nothing newer than
\* the latest accepted request has left a trace.
WorkerOK(r) ==
  /\ Running(r) => /\ r = active
                   /\ answers[r] = 0
                   /\ worker[r].root = position
                   /\ worker[r].options = options
                   /\ worker[r].game = game
  /\ worker[r].pc = "emit" /\ worker[r].infinite => r \in released
  /\ worker[r].pc \in {"search", "gate", "emit"} => ~worker[r].failed
  /\ worker[r].pc = "idle" => worker[r] = IdleWorker
  /\ worker[r].pc # "idle" \/ r \in released \/ answers[r] > 0 => r <= latest
  /\ worker[r].gen <= authority
  /\ answers[r] <= 1

WorkerInv == \A r \in Requests : WorkerOK(r)

\* The held worker, the held ponder request and the owner's handler exclude
\* each other; a worker is current until a superseding handler advances.
OwnerInv ==
  /\ Finishing => active # NoRequest
  /\ ownerPc \in {"resume", "ended"} => active = NoRequest
  /\ ownerPc = "advance" => ~Completes(current)
  /\ pending # NoHold => /\ active = NoRequest
                         /\ latest = pending.id
                         /\ worker[pending.id].pc = "idle"
                         /\ answers[pending.id] = 0
                         /\ pending.id \notin released
  /\ active # NoRequest =>
       /\ latest = active
       /\ active \in released => ownerPc \in {"cancel", "join"}
       /\ worker[active].gen = authority
            <=> ~(/\ ownerPc \in {"release", "cancel", "join"}
                  /\ ~Completes(current))
  /\ Busy /\ StartsSearch(current) => PlanAccepted(Wanted(current))

IInv == QueueInv /\ WorkerInv /\ OwnerInv /\ NoCooldownLeak

\* A fresh session has no worker, no hold and an empty queue.
LEMMA InvInit == Init => IInv
BY PureAssumption
   DEF Init, IInv, QueueInv, WorkerInv, WorkerOK, OwnerInv, NoCooldownLeak, Running,
       Busy, Finishing, IdleWorker, StartsSearch, NoHold, Requests, Completes,
       NoEvent

\* Where the events of a longer and of a shorter queue come from.
LEMMA QueueIndex ==
  ASSUME NEW q \in Seq(Event), NEW e \in Event
  PROVE  /\ \A i \in 1 .. Len(Append(q, e)) :
              \/ i \in 1 .. Len(q) /\ Append(q, e)[i] = q[i]
              \/ i = Len(q) + 1 /\ Append(q, e)[i] = e
         /\ q # <<>> => \A i \in 1 .. Len(Tail(q)) :
              i + 1 \in 1 .. Len(q) /\ Tail(q)[i] = q[i + 1]
OBVIOUS

\* An event that is no line does not disturb the order of the lines.
LEMMA QuietAppend ==
  ASSUME Typed, QueueInv, NEW e \in Event, e.type # "line",
         events' = Append(events, e),
         UNCHANGED <<lines, latest, ownerPc, current>>
  PROVE  QueueInv'
<1>1. events \in Seq(Event)
  BY DEF Typed, TypeOK
<1>2. \A i \in 1 .. Len(events') : events'[i].type = "line" =>
        i \in 1 .. Len(events) /\ events'[i] = events[i]
  BY <1>1, QueueIndex
<1> QED BY <1>2 DEF QueueInv, Busy

\* The steps that leave the owner and its queue alone: those of a worker,
\* save the report it may send.
LEMMA WorkerInvStep ==
  ASSUME Typed, IInv, NEW r \in Requests, WorkerNext(r)
  PROVE  IInv'
<1> USE DEF Typed, TypeOK, Running
<1>1. Running(r) /\ r = active /\ answers[r] = 0
  BY DEF IInv, WorkerInv, WorkerOK, WorkerNext, SearchEnds, Observe, PassGate, Emit, Report
<1>2. /\ UNCHANGED <<ownerVars, sharedVars, lines>>
      /\ \A x \in Requests : x # r => worker'[x] = worker[x] /\ answers'[x] = answers[x]
      /\ worker'[r].gen = worker[r].gen /\ worker'[r].infinite = worker[r].infinite
      /\ worker'[r].root = worker[r].root /\ worker'[r].options = worker[r].options
      /\ worker'[r].game = worker[r].game
      /\ worker'[r].pc \notin {"idle", "search"}
      /\ worker'[r].pc \in {"gate", "emit"} => ~worker'[r].failed
      /\ worker'[r].pc = "emit" /\ worker[r].infinite => r \in released
      /\ answers'[r] \in {0, 1}
      /\ worker'[r].pc # "done" => answers'[r] = 0
  <2>1. CASE SearchEnds(r)
    BY <1>1, <2>1 DEF SearchEnds, IInv, WorkerInv, WorkerOK, Worker
  <2>2. CASE Observe(r)
    BY <1>1, <2>2 DEF Observe, WorkerStep, IInv, WorkerInv, WorkerOK, Worker
  <2>3. CASE PassGate(r)
    BY <1>1, <2>3 DEF PassGate, WorkerStep, IInv, WorkerInv, WorkerOK, Worker
  <2>4. CASE Emit(r)
    <3>1. \/ answers' = answers
          \/ answers' = [answers EXCEPT ![r] = 1]
      BY <1>1, <2>4 DEF Emit
    <3> QED BY <1>1, <2>4, <3>1 DEF Emit, WorkerStep, Worker
  <2>5. CASE Report(r)
    BY <1>1, <2>5 DEF Report, WorkerStep, IInv, WorkerInv, WorkerOK, Worker
  <2> QED BY <2>1, <2>2, <2>3, <2>4, <2>5 DEF WorkerNext
<1>3. QueueInv'
  <2>1. CASE UNCHANGED events
    BY <1>2, <2>1 DEF QueueInv, IInv, Busy, ownerVars
  <2>2. CASE Report(r)
    <3>1. [type |-> "failed", gen |-> worker[r].gen] \in Event
      BY EventTypes DEF Worker
    <3> QED BY <1>2, <2>2, <3>1, QuietAppend DEF Report, IInv, ownerVars
  <2> QED BY <2>1, <2>2 DEF WorkerNext, SearchEnds, Observe, PassGate, Emit
<1>4. WorkerInv'
  BY <1>1, <1>2 DEF WorkerInv, WorkerOK, IInv, ownerVars, sharedVars, Worker
<1>5. OwnerInv'
  <2>1. pending # NoHold => pending.id # r /\ pending.id \in Requests
    BY <1>1, PureAssumption DEF IInv, OwnerInv, Held, Requests
  <2> QED BY <1>1, <1>2, <2>1
          DEF OwnerInv, IInv, ownerVars, sharedVars, Worker, Busy, Finishing,
              StartsSearch, Wanted, Completes, PlanAccepted, ClockOverride
<1>6. NoCooldownLeak'
  BY <1>1, <1>2
     DEF NoCooldownLeak, IInv, WorkerInv, WorkerOK, WorkerNext, SearchEnds, Observe,
         PassGate, Emit, Report, ownerVars, clockVars
<1> QED BY <1>3, <1>4, <1>5, <1>6 DEF IInv

\* The owner takes an event: the request it is about is newer than any.
LEMMA ReceiveInv ==
  ASSUME Typed, IInv, Receive
  PROVE  IInv'
<1> USE DEF Typed, TypeOK, Running
<1> DEFINE e == Head(events)
<1>1. /\ e \in Event /\ events[1] = e /\ Len(events) \in Nat \ {0}
      /\ UNCHANGED <<lines, latest, active, position, options, game, worker,
                     authority, released, cooldown, coolGame>>
      /\ ownerPc = "recv"
  BY QueueTypes DEF Receive, sharedVars, clockVars
<1>2. /\ ownerPc' \in {"recv", "advance", "release", "resume"}
      /\ ownerPc' # "recv" => current' = e /\ UNCHANGED <<pending, answers>>
      /\ ownerPc' \in {"advance", "release"} => active # NoRequest
      /\ ownerPc' = "resume" => active = NoRequest
      /\ ownerPc' \in {"advance", "resume"} => Supersedes(e)
      /\ ownerPc' = "release" => Completes(e)
  BY <1>1 DEF Receive
<1>3. QueueInv'
  <2>1. \A i \in 1 .. Len(events') : i + 1 \in 1 .. Len(events) /\ events'[i] = events[i + 1]
    BY <1>1, QueueIndex DEF Receive
  <2>2. \A i \in 1 .. Len(events') : events'[i].type = "line" =>
          /\ latest < events'[i].id /\ events'[i].id <= lines
          /\ \A j \in 1 .. Len(events') : i < j /\ events'[j].type = "line" =>
               events'[i].id < events'[j].id
    <3> TAKE i \in 1 .. Len(events')
    <3> HAVE events'[i].type = "line"
    <3>1. /\ i + 1 \in 1 .. Len(events) /\ events'[i] = events[i + 1]
          /\ \A j \in 1 .. Len(events') :
               j + 1 \in 1 .. Len(events) /\ events'[j] = events[j + 1]
               /\ (i < j => i + 1 < j + 1)
      <4>1. Len(events') \in Nat
        BY <1>1, QueueTypes DEF Receive
      <4> QED BY <2>1, <4>1
    <3> QED BY <3>1 DEF IInv, QueueInv
  <2>3. e.type = "line" => /\ latest < e.id /\ e.id <= lines
                           /\ \A i \in 1 .. Len(events') :
                                events'[i].type = "line" => e.id < events'[i].id
    <3>1. \A i \in 1 .. Len(events') : 1 < i + 1
      OBVIOUS
    <3>2. 1 \in 1 .. Len(events)
      BY <1>1
    <3> QED BY <1>1, <2>1, <3>1, <3>2 DEF IInv, QueueInv
  <2> QED BY <1>1, <1>2, <2>2, <2>3 DEF QueueInv, IInv, Busy
<1>4. WorkerInv'
  <2>1. \/ answers' = answers
        \/ /\ pending # NoHold /\ pending.id \in Requests
           /\ answers' = [answers EXCEPT ![pending.id] = @ + 1]
    BY PureAssumption DEF Receive, Held, Requests
  <2>2. ASSUME NEW r \in Requests PROVE WorkerOK(r)'
    <3>1. CASE answers'[r] = answers[r]
      BY <1>1, <3>1 DEF WorkerInv, WorkerOK, IInv
    <3>2. CASE answers'[r] # answers[r]
      <4>1. /\ pending # NoHold /\ r = pending.id /\ answers'[r] = answers[r] + 1
            /\ answers[r] = 0 /\ worker[r].pc = "idle" /\ latest = r
        BY <2>1, <3>2 DEF OwnerInv, IInv
      <4>2. r <= r
        BY PureAssumption DEF Requests
      <4> QED BY <1>1, <4>1, <4>2 DEF WorkerInv, WorkerOK, IInv
    <3> QED BY <3>1, <3>2
  <2> QED BY <2>2 DEF WorkerInv
<1>5. OwnerInv'
  BY <1>1, <1>2 DEF OwnerInv, IInv, Busy, Finishing, Receive, Supersedes,
       Completes, StartsSearch, Wanted, PlanAccepted, ClockOverride
<1>6. NoCooldownLeak'
  BY <1>1 DEF NoCooldownLeak, IInv
<1> QED BY <1>3, <1>4, <1>5, <1>6 DEF IInv

\* finish: advance, release, cancel and join touch only the held worker.
LEMMA FinishInv ==
  ASSUME Typed, IInv, Advance \/ Release \/ Cancel \/ Join
  PROVE  IInv'
<1> USE DEF Typed, TypeOK, Running
<1>1. CASE Advance
  <2>1. UNCHANGED <<lines, events, current, active, pending, position, options,
                    game, latest, released, worker, cooldown, coolGame, answers>>
        /\ ownerPc = "advance" /\ ownerPc' = "release"
        /\ authority' = authority + 1 /\ authority \in Nat
    BY <1>1 DEF Advance, clockVars
  <2>2. QueueInv'
    BY <2>1 DEF IInv, QueueInv, Busy
  <2>3. WorkerInv'
    BY <2>1 DEF IInv, WorkerInv, WorkerOK, Worker
  <2>4. OwnerInv'
    <3>1. active \in Requests => worker[active].gen \in Nat
      BY DEF Worker
    <3>2. active # NoRequest => worker[active].gen = authority
      BY <2>1 DEF IInv, OwnerInv
    <3> QED BY <2>1, <3>1, <3>2
            DEF IInv, OwnerInv, Busy, Finishing, Completes, StartsSearch,
                Wanted, PlanAccepted, ClockOverride
  <2> QED BY <2>1, <2>2, <2>3, <2>4 DEF IInv, NoCooldownLeak
<1>2. CASE Release \/ Cancel
  <2>1. UNCHANGED <<lines, events, current, active, pending, position, options,
                    game, latest, authority, worker, cooldown, coolGame, answers>>
        /\ released' \in {released, released \union {active}}
        /\ ownerPc \in {"release", "cancel"} /\ ownerPc' \in {"cancel", "join"}
    BY <1>2 DEF Release, Cancel, clockVars
  <2>2. QueueInv'
    BY <2>1 DEF IInv, QueueInv, Busy
  <2>3. WorkerInv'
    <3>1. active \in Requests => active <= latest
      BY PureAssumption DEF IInv, OwnerInv, Requests
    <3>2. \A r \in Requests : r \in released' => r \in released \/ r = active
      BY <2>1
    <3> QED BY <2>1, <3>1, <3>2 DEF IInv, WorkerInv, WorkerOK
  <2>4. OwnerInv'
    BY <2>1
       DEF IInv, OwnerInv, Busy, Finishing, Completes, StartsSearch,
           Wanted, PlanAccepted, ClockOverride
  <2> QED BY <2>1, <2>2, <2>3, <2>4 DEF IInv, NoCooldownLeak
<1>3. CASE Join
  BY <1>3, PureAssumption
     DEF IInv, QueueInv, WorkerInv, WorkerOK, OwnerInv, NoCooldownLeak, Busy, Finishing,
         Join, sharedVars, clockVars, Completes, StartsSearch, Wanted, NoEvent,
         Requests
<1> QED BY <1>1, <1>2, <1>3

\* The handlers that resume find no worker running, so what they change
\* belongs to no search.
LEMMA ResumeInv ==
  ASSUME Typed, IInv, Resume
  PROVE  IInv'
<1> USE DEF Typed, TypeOK
<1>1. /\ ownerPc = "resume" /\ active = NoRequest /\ current \in Event
      /\ current' = NoEvent
      /\ UNCHANGED <<lines, events, released, answers>>
      /\ \A r \in Requests : ~Running(r)
  BY PureAssumption
     DEF Resume, IInv, OwnerInv, WorkerInv, WorkerOK, PhaseOK, Busy, Requests
<1>2. CASE StartsSearch(current) /\ Start(Wanted(current))
  <2> DEFINE go == Wanted(current)
  <2>1. go \in Held
    BY <1>1, <1>2, WantedType DEF PhaseOK, Busy, StartsSearch
  <2>2. /\ go.id \in Requests /\ go.id <= lines /\ latest <= go.id
        /\ worker[go.id].pc = "idle" /\ answers[go.id] = 0
        /\ go.id \notin released
        /\ \A i \in 1 .. Len(events) :
             events[i].type = "line" => go.id < events[i].id
    <3>0. current.type = "line" /\ go.id \in Requests /\ latest \in Nat
      BY <1>2, <2>1, PureAssumption DEF StartsSearch, Held, Requests
    <3>1. CASE current.cmd.op = "go"
      <4>1. go.id = current.id
        BY <3>1 DEF Wanted
      <4> HIDE DEF go
      <4>2. /\ latest < go.id /\ go.id <= lines
            /\ \A i \in 1 .. Len(events) :
                 events[i].type = "line" => go.id < events[i].id
        BY <1>1, <3>0, <4>1 DEF IInv, QueueInv, Busy
      <4>3. ~(go.id <= latest)
        BY <3>0, <4>2, PureAssumption DEF Requests
      <4>4. /\ worker[go.id].pc = "idle" /\ go.id \notin released
            /\ ~(answers[go.id] > 0) /\ answers[go.id] \in Nat
        BY <3>0, <4>3 DEF IInv, WorkerInv, WorkerOK
      <4> QED BY <3>0, <4>2, <4>4, PureAssumption DEF Requests
    <3>2. CASE current.cmd.op = "ponderhit"
      <4>1. go.id = pending.id /\ pending \in Held /\ pending # NoHold
        BY <1>1, <1>2, <3>2
           DEF PhaseOK, Busy, StartsSearch, Wanted, ClockOverride, Held
      <4> HIDE DEF go
      <4> QED BY <1>1, <3>0, <4>1, PureAssumption
              DEF IInv, QueueInv, OwnerInv, Requests
    <3> QED BY <1>2, <3>1, <3>2 DEF StartsSearch
  <2>3. /\ latest' = go.id /\ active' = go.id /\ pending' = NoHold
        /\ authority' = authority + 1 /\ ownerPc' = "recv"
        /\ UNCHANGED <<position, options, game, cooldown, coolGame>>
        /\ worker'[go.id].pc = "search" /\ worker'[go.id].gen = authority + 1
        /\ worker'[go.id].root = position /\ worker'[go.id].options = options
        /\ worker'[go.id].game = game /\ ~worker'[go.id].failed
        /\ \A r \in Requests : r # go.id => worker'[r] = worker[r]
    BY <1>2, <2>2 DEF Start, clockVars
  <2> HIDE DEF go
  <2>4. QueueInv'
    BY <1>1, <2>2, <2>3 DEF IInv, QueueInv, Busy
  <2>5. WorkerInv'
    <3>1. \A r \in Requests : worker[r].gen \in Nat
      BY DEF Worker
    <3>2. latest \in Nat /\ authority \in Nat /\ \A r \in Requests : r \in Nat
      BY PureAssumption DEF Requests
    <3>3. \A r \in Requests : r <= latest => r <= latest'
      <4>1. go.id \in Nat /\ latest' = go.id /\ latest <= go.id
        BY <2>2, <2>3, <3>2
      <4> QED BY <3>2, <4>1
    <3>4. ASSUME NEW r \in Requests, r # go.id PROVE WorkerOK(r)'
      <4>1. worker'[r] = worker[r] /\ WorkerOK(r) /\ ~Running(r)
        BY <1>1, <2>3, <3>4 DEF IInv, WorkerInv, WorkerOK
      <4> QED BY <1>1, <2>3, <3>1, <3>2, <3>3, <4>1 DEF WorkerOK, Running
    <3>5. ASSUME NEW r \in Requests, r = go.id PROVE WorkerOK(r)'
      <4>1. answers'[r] = 0 /\ latest' = r /\ r <= r
        BY <1>1, <2>2, <2>3, <3>5, PureAssumption DEF Requests
      <4>2. authority' = authority + 1 /\ authority + 1 <= authority + 1
        BY <2>3, <3>2
      <4> QED BY <2>2, <2>3, <3>5, <4>1, <4>2 DEF WorkerOK, Running
    <3> QED BY <3>4, <3>5 DEF WorkerInv
  <2>6. OwnerInv'
    BY <1>1, <2>2, <2>3
       DEF IInv, OwnerInv, Busy, Finishing, StartsSearch, NoEvent
  <2> QED BY <2>3, <2>4, <2>5, <2>6 DEF IInv, NoCooldownLeak
<1>3. CASE current.type = "line" /\ Line.op = "go" /\ Line.ponder /\ Hold
  <2>1. /\ current.id \in Requests
        /\ pending'.id = current.id /\ latest' = current.id
        /\ ownerPc' = "recv"
        /\ UNCHANGED <<active, position, options, game, authority, worker,
                       cooldown, coolGame>>
    BY <1>1, <1>3, LineEvent DEF Hold, clockVars
  <2>2. /\ latest < current.id /\ current.id <= lines
        /\ worker[current.id].pc = "idle" /\ answers[current.id] = 0
        /\ current.id \notin released
    <3>1. latest < current.id /\ current.id <= lines
      BY <1>1, <1>3 DEF IInv, QueueInv, Busy
    <3> QED BY <2>1, <3>1, PureAssumption DEF IInv, WorkerInv, WorkerOK, Requests
  <2>3. QueueInv'
    BY <1>1, <1>3, <2>1, <2>2 DEF IInv, QueueInv, Busy
  <2>4. WorkerInv'
    BY <1>1, <2>1, <2>2, PureAssumption DEF IInv, WorkerInv, WorkerOK, Running, Requests
  <2>5. OwnerInv'
    BY <1>1, <2>1, <2>2
       DEF IInv, OwnerInv, Busy, Finishing, Completes, StartsSearch, NoEvent
  <2> QED BY <2>1, <2>3, <2>4, <2>5 DEF IInv, NoCooldownLeak
<1>4. CASE \/ current.type = "line" /\ Line.op = "setoption" /\ SetOption
           \/ current.type = "line" /\ Line.op = "position" /\ SetPosition
           \/ EndMatch \/ EndSession
  <2>1. /\ UNCHANGED <<active, latest, authority, worker>>
        /\ ownerPc' \in {"recv", "ended"}
        /\ pending' \in {pending, NoHold}
        /\ UNCHANGED <<cooldown, coolGame, game>> \/ cooldown' = 0
    BY <1>4 DEF SetOption, SetPosition, EndMatch, EndSession, clockVars
  <2>2. QueueInv'
    BY <1>1, <2>1 DEF IInv, QueueInv, Busy
  <2>3. WorkerInv'
    BY <1>1, <2>1 DEF IInv, WorkerInv, WorkerOK, Running
  <2>4. OwnerInv'
    BY <1>1, <2>1
       DEF IInv, OwnerInv, Busy, Finishing, Completes, StartsSearch, NoEvent
  <2> QED BY <2>1, <2>2, <2>3, <2>4 DEF IInv, NoCooldownLeak
<1> QED BY <1>2, <1>3, <1>4 DEF Resume

\* A new line is newer than everything before it.
LEMMA ReaderInv ==
  ASSUME Typed, IInv,
         \/ \E c \in Command : ReadLine(c)
         \/ \E type \in {"eof", "readerFailed"} : ReadEnd(type)
  PROVE  IInv'
<1> USE DEF Typed, TypeOK
<1>1. /\ UNCHANGED <<ownerPc, current, active, pending, position, options, game,
                     latest, authority, released, worker, cooldown, coolGame,
                     answers>>
      /\ lines' \in {lines, lines + 1}
  BY DEF ReadLine, ReadEnd, ownerVars, sharedVars, clockVars
<1>2. QueueInv'
  <2>1. CASE \E type \in {"eof", "readerFailed"} : ReadEnd(type)
    BY <2>1, EventTypes, QuietAppend DEF IInv, ReadEnd, ownerVars
  <2>2. ASSUME NEW c \in Command, ReadLine(c) PROVE QueueInv'
    <3> DEFINE e == [type |-> "line", cmd |-> c, id |-> lines + 1]
    <3>0. lines + 1 \in Requests /\ lines \in Nat
      BY <2>2, PureAssumption DEF ReadLine, Requests
    <3>1. e \in Event /\ lines' = lines + 1 /\ events' = Append(events, e)
          /\ Len(events) \in Nat /\ Len(events') = Len(events) + 1
      BY <2>2, <3>0, EventTypes DEF ReadLine
    <3>2. \A i \in 1 .. Len(events') :
            \/ i \in 1 .. Len(events) /\ events'[i] = events[i]
            \/ i = Len(events) + 1 /\ events'[i] = e
      BY <3>1, QueueIndex
    <3>3. latest <= lines'
      BY <3>0, <3>1, PureAssumption DEF IInv, QueueInv, Requests
    <3>4. ASSUME NEW i \in 1 .. Len(events'), events'[i].type = "line"
          PROVE  /\ latest < events'[i].id /\ events'[i].id <= lines'
                 /\ Busy /\ current.type = "line" => current.id < events'[i].id
                 /\ \A j \in 1 .. Len(events') :
                      i < j /\ events'[j].type = "line" =>
                        events'[i].id < events'[j].id
      <4>1. \A k \in 1 .. Len(events) : events[k].type = "line" =>
              events[k].id \in Nat /\ events[k].id < lines + 1
        BY <3>0, LineEvent, PureAssumption DEF IInv, QueueInv, Requests
      <4>2. CASE i \in 1 .. Len(events) /\ events'[i] = events[i]
        BY <3>0, <3>1, <3>2, <3>4, <4>1, <4>2 DEF IInv, QueueInv
      <4>3. CASE i = Len(events) + 1 /\ events'[i] = e
        <5>1. latest < lines + 1
          BY <3>0, PureAssumption DEF IInv, QueueInv, Requests
        <5>2. Busy /\ current.type = "line" => current.id < lines + 1
          BY <3>0, LineEvent, PureAssumption
             DEF IInv, QueueInv, PhaseOK, Requests
        <5> QED BY <3>0, <3>1, <4>3, <5>1, <5>2
      <4> QED BY <3>2, <4>2, <4>3
    <3>5. Busy /\ current.type = "line" => latest < current.id /\ current.id <= lines'
      BY <3>0, <3>1, LineEvent, PureAssumption
         DEF IInv, QueueInv, PhaseOK, Requests
    <3> QED BY <1>1, <3>3, <3>4, <3>5 DEF QueueInv, Busy
  <2> QED BY <2>1, <2>2
<1>3. WorkerInv' /\ NoCooldownLeak'
  BY <1>1 DEF IInv, WorkerInv, WorkerOK, NoCooldownLeak, Running
<1>4. OwnerInv'
  BY <1>1 DEF IInv, OwnerInv, Busy, Finishing, Completes, StartsSearch, Wanted,
              PlanAccepted, ClockOverride
<1> QED BY <1>2, <1>3, <1>4 DEF IInv

\* Every step of every thread keeps the invariant.
LEMMA InvStep == Typed /\ IInv /\ [Next]_vars => IInv'
<1> SUFFICES ASSUME Typed, IInv, [Next]_vars PROVE IInv'
  OBVIOUS
<1>1. CASE Terminated \/ UNCHANGED vars
  BY <1>1 DEF Terminated, vars, ownerVars, sharedVars, clockVars, IInv,
       QueueInv, WorkerInv, WorkerOK, OwnerInv, NoCooldownLeak, Busy, Finishing, Running,
       Completes, StartsSearch, Wanted, PlanAccepted, ClockOverride
<1> QED BY <1>1, ReaderInv, WorkerInvStep, ReceiveInv, FinishInv, ResumeInv
        DEF Next, Owner

\* Types and the inductive invariant hold throughout a session.
THEOREM Invariance == Spec => [](Typed /\ IInv)
BY TypeInit, TypeStep, InvInit, InvStep, PTL DEF Spec

-----------------------------------------------------------------------------
(* What follows from the invariant.                                        *)

\* No search outlives its request, and none survives the session: the
\* handle of every spawned thread is joined.
THEOREM WorkersAreJoined == Spec => []NoOrphanWorker
<1>1. IInv => NoOrphanWorker
  BY DEF IInv, WorkerInv, WorkerOK, OwnerInv, NoOrphanWorker
<1> QED BY <1>1, Invariance, PTL

\* A held `go ponder' and a worker exclude each other: the invariant that the
\* comment on PureSession.pending_ponder states.
THEOREM HoldIsExclusive == Spec => []HoldExcludesWorker
<1>1. IInv => HoldExcludesWorker
  BY DEF IInv, OwnerInv, HoldExcludesWorker
<1> QED BY <1>1, Invariance, PTL

\* The extension cooldown of one match never reaches the next.
THEOREM CooldownStaysInMatch == Spec => []NoCooldownLeak
BY Invariance, PTL DEF IInv

\* start_search plans before it finishes the running search: no handler of an
\* unplannable `go' ever takes the worker.
THEOREM RejectedGoHarmless == Spec => []RejectedGoIsHarmless
<1>1. IInv => RejectedGoIsHarmless
  BY DEF IInv, OwnerInv, RejectedGoIsHarmless, Busy, StartsSearch, PlanAccepted,
         Wanted, Line
<1> QED BY <1>1, Invariance, PTL

\* Who writes a `bestmove' for r: its worker, while r is current, or the
\* handler of `stop' when r is held.
LEMMA WhoAnswers ==
  ASSUME Typed, IInv, [Next]_vars, NEW r \in Requests, answers'[r] # answers[r]
  PROVE  \/ Emit(r) /\ worker[r].gen = authority /\ active = r
         \/ Receive /\ pending # NoHold /\ pending.id = r /\ pending' = NoHold
<1>1. \/ Receive \/ \E x \in Requests : Emit(x)
  BY DEF Next, vars, Owner, ReadLine, ReadEnd, Advance, Release, Cancel, Join,
         Resume, WorkerNext, SearchEnds, Observe, PassGate, Report, Terminated
<1>2. CASE Receive
  BY <1>2 DEF Receive, Typed, TypeOK
<1>3. ASSUME NEW x \in Requests, Emit(x)
      PROVE  Emit(r) /\ worker[r].gen = authority /\ active = r
  BY <1>3 DEF Emit, Typed, TypeOK, IInv, WorkerInv, WorkerOK, Running
<1> QED BY <1>1, <1>2, <1>3

\* A search's move belongs to the position and the options the session holds
\* when the move is written.
THEOREM AnswersFitSession == Spec => AnswerFitsSession
<1> DEFINE Fits == \A r \in Requests :
                     answers'[r] # answers[r] /\ r # pending.id =>
                       worker[r].root = position /\ worker[r].options = options
<1>1. Typed /\ IInv /\ [Next]_vars => [Fits]_vars
  BY WhoAnswers DEF Emit, IInv, WorkerInv, WorkerOK, Running
<1> QED BY <1>1, Invariance, PTL DEF Spec, AnswerFitsSession

\* `go infinite' keeps its result until `stop' releases the gate.
THEOREM InfiniteWaitsForStop == Spec => InfiniteAnsweredByStop
<1> DEFINE ByStop == \A r \in Requests :
                       answers'[r] # answers[r] /\ worker[r].infinite =>
                         Completes(current) /\ active = r
<1>1. ASSUME Typed, IInv, [Next]_vars, NEW r \in Requests,
             answers'[r] # answers[r], worker[r].infinite
      PROVE  Completes(current) /\ active = r
  <2>1. CASE Emit(r) /\ worker[r].gen = authority /\ active = r
    BY <1>1, <2>1, PureAssumption
       DEF IInv, WorkerInv, WorkerOK, OwnerInv, Emit, Requests
  <2>2. CASE Receive /\ pending # NoHold /\ pending.id = r /\ pending' = NoHold
    \* a held request has no worker yet
    BY <1>1, <2>2 DEF IInv, OwnerInv, WorkerInv, WorkerOK, IdleWorker
  <2> QED BY <1>1, <2>1, <2>2, WhoAnswers
<1>2. Typed /\ IInv /\ [Next]_vars => [ByStop]_vars
  BY <1>1
<1> QED BY <1>2, Invariance, PTL DEF Spec, InfiniteAnsweredByStop

-----------------------------------------------------------------------------
(* The session implements UsiContract.                                     *)

\* A step that changes neither the open request nor what the contract sees.
LEMMA Unseen ==
  ASSUME OpenRequest' = OpenRequest, UNCHANGED <<latest, answers>>
  PROVE  [Contract!Next]_(Contract!contractVars)
BY DEF Contract!contractVars

\* A step after which nothing is open, and nothing was answered.
LEMMA Dropped ==
  ASSUME Typed, OpenRequest' = NoRequest, UNCHANGED <<latest, answers>>
  PROVE  [Contract!Next]_(Contract!contractVars)
<1>1. OpenRequest \in Requests \union {NoRequest}
  BY DEF OpenRequest, Typed, TypeOK, Held, NoHold
<1> QED BY <1>1 DEF Contract!contractVars, Contract!Next, Contract!Drop

\* What the owner does is a contract step or unseen by the contract.
LEMMA OwnerContract ==
  ASSUME Typed, Typed', IInv, IInv', Owner
  PROVE  [Contract!Next]_(Contract!contractVars)
<1> USE DEF Typed, TypeOK
<1>1. CASE Receive
  <2>1. CASE UNCHANGED <<pending, answers>>
    BY <1>1, <2>1, Unseen DEF Receive, OpenRequest, sharedVars
  <2>2. CASE pending' = NoHold /\ UNCHANGED answers /\ pending # NoHold
    BY <1>1, <2>2, Dropped DEF Receive, OpenRequest, IInv, OwnerInv
  <2>3. CASE /\ pending # NoHold /\ pending' = NoHold
             /\ answers' = [answers EXCEPT ![pending.id] = @ + 1]
    <3>1. OpenRequest = pending.id /\ pending.id \in Requests
      BY <2>3, PureAssumption DEF OpenRequest, Held, NoHold
    <3>2. OpenRequest' = NoRequest /\ UNCHANGED latest
      BY <1>1, <2>3 DEF Receive, OpenRequest, IInv, OwnerInv
    <3> QED BY <2>3, <3>1, <3>2 DEF Contract!Next, Contract!Answer
  <2> QED BY <1>1, <2>1, <2>2, <2>3 DEF Receive
<1>2. CASE Advance
  <2>1. active \in Requests /\ pending = NoHold /\ worker[active].gen \in Nat
    BY <1>2 DEF PhaseOK, Finishing, Busy, Advance, IInv, OwnerInv, Worker
  <2>2. worker[active].gen <= authority
    BY <2>1 DEF IInv, WorkerInv, WorkerOK
  <2> QED BY <1>2, <2>1, <2>2, Dropped DEF Advance, OpenRequest
<1>3. CASE Release \/ Cancel
  BY <1>3, Unseen DEF Release, Cancel, OpenRequest
<1>4. CASE Join
  BY <1>4, Dropped DEF Join, OpenRequest, IInv, OwnerInv, Finishing, Busy
<1>5. CASE Resume
  <2>1. /\ active = NoRequest /\ current \in Event /\ UNCHANGED answers
        /\ ownerPc = "resume"
    BY <1>5 DEF Resume, IInv, OwnerInv, PhaseOK, Busy
  <2>2. CASE StartsSearch(current) /\ Start(Wanted(current))
    <3> DEFINE go == Wanted(current)
    <3>1. go \in Held
      BY <2>1, <2>2, WantedType DEF PhaseOK, Busy, StartsSearch
    <3>2. /\ active' = go.id /\ latest' = go.id /\ pending' = NoHold
          /\ go.id \in Requests /\ go.id # NoRequest
          /\ worker'[active'].gen = authority' /\ ~worker'[active'].failed
      BY <2>2, <3>1, PureAssumption DEF Start, Held, Requests
    <3>3. answers'[active'] = 0
      BY <2>1, <2>2, <3>2 DEF IInv, WorkerInv, WorkerOK, Running, Start
    <3>4. OpenRequest' = active'
      BY <3>2, <3>3 DEF OpenRequest
    <3>5. CASE current.cmd.op = "go"
      <4>1. go.id = current.id /\ latest < current.id
        BY <2>1, <2>2, <3>5
           DEF Wanted, StartsSearch, IInv, QueueInv, Busy
      <4> QED BY <2>1, <3>2, <3>4, <4>1, PureAssumption
              DEF Contract!Next, Contract!Accept, Requests
    <3>6. CASE current.cmd.op = "ponderhit"
      <4>1. pending # NoHold /\ go.id = pending.id
        BY <2>1, <2>2, <3>6
           DEF PhaseOK, Busy, StartsSearch, Wanted, ClockOverride, Held
      <4>2. OpenRequest = pending.id /\ latest = pending.id
        BY <4>1 DEF OpenRequest, IInv, OwnerInv
      <4> QED BY <2>1, <3>2, <3>4, <4>1, <4>2, Unseen
    <3> QED BY <2>2, <3>5, <3>6 DEF StartsSearch
  <2>3. CASE current.type = "line" /\ Line.op = "go" /\ Line.ponder /\ Hold
    <3>1. current.id \in Requests /\ latest < current.id
      BY <2>1, <2>3, LineEvent DEF IInv, QueueInv, Busy
    <3>2. pending' # NoHold /\ OpenRequest' = current.id /\ latest' = current.id
      BY <2>3, <3>1, PureAssumption DEF Hold, OpenRequest, NoHold, Requests
    <3> QED BY <2>1, <3>1, <3>2, PureAssumption
            DEF Contract!Next, Contract!Accept, Requests
  <2>4. CASE SetOption
    BY <2>1, <2>4, Unseen DEF SetOption, OpenRequest
  <2>5. CASE SetPosition \/ EndMatch
    BY <2>1, <2>5, Dropped DEF SetPosition, EndMatch, OpenRequest
  <2>6. CASE EndSession
    <3>1. CASE pending' = NoHold
      BY <2>1, <2>6, <3>1, Dropped DEF EndSession, OpenRequest
    <3>2. CASE pending' = pending
      BY <2>1, <2>6, <3>2, Unseen DEF EndSession, OpenRequest
    <3> QED BY <2>6, <3>1, <3>2 DEF EndSession
  <2> QED BY <1>5, <2>2, <2>3, <2>4, <2>5, <2>6 DEF Resume
<1> QED BY <1>1, <1>2, <1>3, <1>4, <1>5 DEF Owner

\* What a worker does is an answer, a drop, or unseen by the contract.
LEMMA WorkerContract ==
  ASSUME Typed, IInv, NEW r \in Requests, WorkerNext(r)
  PROVE  [Contract!Next]_(Contract!contractVars)
<1> USE DEF Typed, TypeOK
<1>1. Running(r) /\ r = active /\ answers[r] = 0 /\ pending = NoHold /\ r # NoRequest
  BY PureAssumption
     DEF IInv, WorkerInv, WorkerOK, OwnerInv, Running, WorkerNext, SearchEnds,
         Observe, PassGate, Emit, Report, Requests
<1>2. CASE SearchEnds(r)
  <2>1. PICK failed \in BOOLEAN, pc \in WorkerPc :
          worker' = [worker EXCEPT ![r].failed = failed, ![r].pc = pc]
    BY <1>2 DEF SearchEnds, WorkerPc
  <2>2. worker'[r].failed = failed /\ worker'[r].gen = worker[r].gen
    BY <2>1 DEF Worker
  <2>3. /\ ~worker[r].failed
        /\ UNCHANGED <<active, pending, authority, latest, answers>>
    BY <1>2 DEF SearchEnds, IInv, WorkerInv, WorkerOK, ownerVars, sharedVars
  <2>4. CASE failed
    BY <1>1, <2>2, <2>3, <2>4, Dropped DEF OpenRequest
  <2>5. CASE ~failed
    BY <1>1, <2>2, <2>3, <2>5, Unseen DEF OpenRequest
  <2> QED BY <2>4, <2>5
<1>3. CASE Observe(r) \/ PassGate(r) \/ Report(r)
  <2>1. PICK pc \in WorkerPc : worker' = [worker EXCEPT ![r].pc = pc]
    BY <1>3 DEF Observe, PassGate, Report, WorkerStep, WorkerPc
  <2>2. worker'[r].failed = worker[r].failed /\ worker'[r].gen = worker[r].gen
    BY <2>1 DEF Worker
  <2>3. UNCHANGED <<active, pending, authority, latest, answers>>
    BY <1>3 DEF Observe, PassGate, Report, ownerVars, sharedVars
  <2> QED BY <1>1, <2>2, <2>3, Unseen DEF OpenRequest
<1>4. CASE Emit(r)
  <2>1. ~worker[r].failed
    BY <1>4 DEF Emit, IInv, WorkerInv, WorkerOK
  <2>2. CASE worker[r].gen = authority
    <3>1. OpenRequest = r /\ answers' = [answers EXCEPT ![r] = @ + 1]
      BY <1>1, <1>4, <2>1, <2>2 DEF Emit, OpenRequest
    <3>2. OpenRequest' = NoRequest /\ UNCHANGED latest
      BY <1>1, <1>4, <3>1 DEF Emit, OpenRequest, ownerVars
    <3> QED BY <3>1, <3>2 DEF Contract!Next, Contract!Answer
  <2>3. CASE worker[r].gen # authority
    BY <1>1, <1>4, <2>3, Unseen
       DEF Emit, WorkerStep, OpenRequest, ownerVars, sharedVars, Worker
  <2> QED BY <2>2, <2>3
<1> QED BY <1>2, <1>3, <1>4 DEF WorkerNext

\* Every behaviour of the session is one of the contract: one completion per
\* accepted `go', and none after it was superseded.
THEOREM SessionImplementsContract == Spec => ImplementsContract
<1>1. Init => Contract!Init
  BY DEF Init, Contract!Init, OpenRequest
<1>2. Typed /\ Typed' /\ IInv /\ IInv' /\ [Next]_vars
        => [Contract!Next]_(Contract!contractVars)
  <2> SUFFICES ASSUME Typed, Typed', IInv, IInv', [Next]_vars
               PROVE  [Contract!Next]_(Contract!contractVars)
    OBVIOUS
  <2>1. CASE \/ \E c \in Command : ReadLine(c)
             \/ \E type \in {"eof", "readerFailed"} : ReadEnd(type)
             \/ Terminated \/ UNCHANGED vars
    BY <2>1, Unseen
       DEF ReadLine, ReadEnd, Terminated, vars, ownerVars, sharedVars,
           OpenRequest
  <2> QED BY <2>1, OwnerContract, WorkerContract DEF Next
<1> QED BY <1>1, <1>2, Invariance, PTL
        DEF Spec, ImplementsContract, Contract!Spec

\* The whole of it: one worker, one hold, one match's cooldown, harmless refusals, and
\* answers that fit the session and wait for `stop'.
THEOREM SessionSound == Spec => SessionIsSound
BY TypeCorrect, WorkersAreJoined, HoldIsExclusive, CooldownStaysInMatch,
   RejectedGoHarmless, AnswersFitSession, InfiniteWaitsForStop, PTL DEF SessionIsSound
=============================================================================
