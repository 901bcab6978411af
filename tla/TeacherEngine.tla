---------------------------- MODULE TeacherEngine ---------------------------
(***************************************************************************)
(* USIEngine (labeling/usi.py), the client of one teacher process: it pins *)
(* the executable and its evaluation files in a private copy               *)
(* (labeling/execution.py), starts the copy, asks for one search at a      *)
(* time, and restarts and asks again when the teacher dies or is late.  A  *)
(* thread queues the lines of the teacher, and another kills the teacher   *)
(* when its memory exceeds the limit.  The files may be replaced at any    *)
(* step.  Handshakes are one question and one answer; a search answers     *)
(* with its bestmove, and the info lines before it are left out.           *)
(***************************************************************************)
EXTENDS Naturals, Sequences, FiniteSets

CONSTANTS
    LastRequest,   \* bound: searches asked for, one after another
    MaxRetries,    \* labeling.max_retries
    MaxSurprises   \* bound: deaths, wrong lines, excesses and replaced files

VARIABLES
    source,      \* the configured files: what the fingerprint approved, or not
    snapshot,    \* the private copy, "none" when there is none
    teacher,     \* the process the client holds: its number (0: none) and bytes
    alive,       \* processes that run
    inbox,       \* commands the teacher has not read
    searching,   \* the search the teacher runs, 0 for none
    lines,       \* lines the reader thread queued
    excess,      \* the memory thread has recorded a failure
    client,      \* the calling thread
    outcome,     \* what each request returned
    killed,      \* requests whose search the memory thread ended
    surprises    \* how many there were

process == <<inbox, searching, lines>>
teacherVars == <<source, snapshot, teacher, alive, process, excess, client,
                 outcome, killed, surprises>>

Requests == 1..LastRequest
NoTeacher == [number |-> 0, bytes |-> "none"]
Pending == [is |-> "pending"]

TeacherInit ==
    /\ source = "approved"
    /\ snapshot = "none"
    /\ teacher = NoTeacher
    /\ alive = {}
    /\ inbox = <<>> /\ searching = 0 /\ lines = <<>>
    /\ excess = FALSE
    /\ client = [pc |-> "idle", request |-> 0, attempts |-> 0, started |-> 0, error |-> "none"]
    /\ outcome = [r \in Requests |-> Pending]
    /\ killed = {}
    /\ surprises = 0

Surprise == surprises < MaxSurprises /\ surprises' = surprises + 1
TeacherRuns == teacher.number \in alive
ClientAt(pc) == client.pc = pc
ClientGoes(pc) == client' = [client EXCEPT !.pc = pc]
ClientRaises(error) == client' = [client EXCEPT !.pc = "closing", !.error = error]
Send(command) == inbox' = Append(inbox, command)
-----------------------------------------------------------------------------
(* The teacher and the world                                               *)

Reply(answer) == lines' = Append(lines, answer)
TeacherReads ==
    /\ TeacherRuns
    /\ inbox # <<>>
    /\ inbox' = Tail(inbox)
    /\ CASE Head(inbox).is \in {"usi", "isready"} ->
              /\ Reply([is |-> Head(inbox).is])
              /\ UNCHANGED searching
         [] Head(inbox).is = "go" ->
              /\ searching' = Head(inbox).of
              /\ UNCHANGED lines
         [] Head(inbox).is = "stop" ->
              /\ IF searching = 0 THEN UNCHANGED lines
                 ELSE Reply([is |-> "bestmove", of |-> searching])
              /\ searching' = 0
    /\ UNCHANGED <<source, snapshot, teacher, alive, excess, client, outcome, killed,
                   surprises>>
TeacherAnswers ==
    /\ TeacherRuns
    /\ searching # 0
    /\ Reply([is |-> "bestmove", of |-> searching])
    /\ searching' = 0
    /\ UNCHANGED <<source, snapshot, teacher, alive, inbox, excess, client, outcome, killed,
                   surprises>>
\* A line no question asked for, or one the reader thread refuses.
TeacherErrs ==
    /\ TeacherRuns
    /\ Surprise
    /\ Reply([is |-> "wrong"])
    /\ UNCHANGED <<source, snapshot, teacher, alive, inbox, searching, excess, client,
                   outcome,
                   killed>>
TeacherDies ==
    /\ TeacherRuns
    /\ Surprise
    /\ alive' = alive \ {teacher.number}
    /\ UNCHANGED <<source, snapshot, teacher, process, excess, client, outcome, killed>>
ReplaceFiles ==
    /\ Surprise
    /\ source' = IF source = "approved" THEN "replaced" ELSE "approved"
    /\ UNCHANGED <<snapshot, teacher, alive, process, excess, client, outcome, killed>>

KillFor(r) ==
    /\ alive' = alive \ {teacher.number}
    /\ killed' = IF ClientAt("search") THEN killed \union {r} ELSE killed
\* _RssMonitor: the failure is recorded before the kill.
Exceed ==
    /\ TeacherRuns
    /\ ~excess
    /\ Surprise
    /\ excess' = TRUE
    /\ UNCHANGED <<source, snapshot, teacher, alive, process, client, outcome, killed>>
KillForExcess ==
    /\ TeacherRuns
    /\ excess
    /\ KillFor(client.request)
    /\ UNCHANGED <<source, snapshot, teacher, process, excess, client, outcome, surprises>>
-----------------------------------------------------------------------------
(* start                                                                   *)

Call(r) ==
    /\ ClientAt("idle")
    /\ r = client.request + 1
    /\ client' = [client EXCEPT !.pc = "attempt", !.request = r, !.attempts = 0,
                                !.error = "none"]
    /\ UNCHANGED <<source, snapshot, teacher, alive, process, excess, outcome, killed,
                   surprises>>
Attempt ==
    /\ ClientAt("attempt")
    /\ client' = [client EXCEPT !.pc = IF TeacherRuns THEN "newgame" ELSE "start",
                                !.attempts = @ + 1]
    /\ UNCHANGED <<source, snapshot, teacher, alive, process, excess, outcome, killed,
                   surprises>>

\* A process already held is closed first; then the files are copied, and the
\* digest of the copy is compared with the approved one.
Pin ==
    /\ ClientAt("start")
    /\ alive' = alive \ {teacher.number}
    /\ teacher' = NoTeacher
    /\ inbox' = <<>> /\ searching' = 0 /\ lines' = <<>>
    /\ excess' = FALSE
    /\ snapshot' = IF source = "approved" THEN source ELSE "none"
    /\ IF source = "approved" THEN ClientGoes("spawn") ELSE ClientRaises("integrity")
    /\ UNCHANGED <<source, outcome, killed, surprises>>

\* Bug: the configured executable is started, not its copy.
PinnedExecutable_Source == source
PinnedExecutable == snapshot
SpawnTeacher ==
    /\ ClientAt("spawn")
    /\ teacher' = [number |-> client.started + 1, bytes |-> PinnedExecutable]
    /\ alive' = alive \union {client.started + 1}
    /\ client' = [client EXCEPT !.pc = "verify", !.started = @ + 1]
    /\ UNCHANGED <<source, snapshot, process, excess, outcome, killed, surprises>>
\* The copy is immutable; its source is read again, or its metadata compared.
IsUnchanged == source = "approved"
\* The copy and its source are read again once the process exists.
VerifyCopy ==
    /\ ClientAt("verify")
    /\ IF IsUnchanged
          THEN Send([is |-> "usi"]) /\ ClientGoes("usi")
          ELSE UNCHANGED inbox /\ ClientRaises("integrity")
    /\ UNCHANGED <<source, snapshot, teacher, alive, searching, lines, excess, outcome,
                   killed,
                   surprises>>
-----------------------------------------------------------------------------
(* analyze                                                                 *)

\* _ensure_started: a teacher that died since is started anew.
NewGame ==
    /\ ClientAt("newgame")
    /\ IF TeacherRuns THEN Send([is |-> "isready"]) /\ ClientGoes("isready")
       ELSE UNCHANGED inbox /\ ClientGoes("start")
    /\ UNCHANGED <<source, snapshot, teacher, alive, searching, lines, excess, outcome,
                   killed,
                   surprises>>

\* What the client awaits at each wait, and what it does once it is there.
Awaited ==
    CASE ClientAt("usi") -> "usi"
      [] ClientAt("isready") -> "isready"
      [] ClientAt("search") -> "bestmove"
ClientWaits == client.pc \in {"usi", "isready", "search"}
Return(value) ==
    /\ outcome' = [outcome EXCEPT ![client.request] = value]
    /\ ClientGoes("idle")
    /\ UNCHANGED inbox
\* The copy and its source are compared once more after the handshake of a
\* start, and before an answer is returned.
Proceed(answer) ==
    CASE ClientAt("usi") ->
            /\ IF IsUnchanged THEN ClientGoes("newgame") ELSE ClientRaises("integrity")
            /\ UNCHANGED <<inbox, outcome>>
      [] ClientAt("isready") ->
            /\ Send([is |-> "go", of |-> client.request])
            /\ ClientGoes("search")
            /\ UNCHANGED outcome
      [] ClientAt("search") ->
            IF IsUnchanged
            THEN Return([is |-> "answer", of |-> answer.of, bytes |-> teacher.bytes])
            ELSE UNCHANGED <<inbox, outcome>> /\ ClientRaises("integrity")
\* _readline: a recorded excess comes before whatever the line says.
ReadLine ==
    /\ ClientWaits
    /\ lines # <<>>
    /\ lines' = Tail(lines)
    /\ IF ~excess /\ Head(lines).is = Awaited THEN Proceed(Head(lines))
       ELSE /\ ClientRaises(IF excess THEN "memory_limit" ELSE "protocol")
            /\ UNCHANGED <<inbox, outcome>>
    /\ UNCHANGED <<source, snapshot, teacher, alive, searching, excess, killed, surprises>>
NoticeExit ==
    /\ ClientWaits
    /\ ~TeacherRuns
    /\ lines = <<>> \/ excess
    /\ ClientRaises(IF excess THEN "memory_limit" ELSE "process")
    /\ UNCHANGED <<source, snapshot, teacher, alive, process, excess, outcome, killed,
                   surprises>>
\* A late search is told to stop; a late handshake is not.
Late ==
    /\ ClientWaits
    /\ ~excess
    /\ IF ClientAt("usi")
          THEN UNCHANGED inbox /\ ClientRaises("timeout")
          ELSE Send([is |-> "stop"]) /\ ClientGoes("stopping")
    /\ UNCHANGED <<source, snapshot, teacher, alive, searching, lines, excess, outcome,
                   killed,
                   surprises>>
\* _send_stop_after_timeout reads up to a bestmove, or gives up.
AwaitStop ==
    /\ ClientAt("stopping")
    /\ ClientRaises("timeout")
    /\ lines' \in {lines, <<>>}
    /\ UNCHANGED <<source, snapshot, teacher, alive, inbox, searching, excess, outcome,
                   killed,
                   surprises>>

Retried == {"process", "timeout", "integrity"}
\* close: quit, then the signals, to the end of the process and of its threads.
CloseTeacher ==
    /\ alive' = alive \ {teacher.number}
    /\ teacher' = NoTeacher
    /\ inbox' = <<>> /\ searching' = 0 /\ lines' = <<>>
    /\ excess' = FALSE
    /\ snapshot' = "none"
CloseAndRetry ==
    /\ ClientAt("closing")
    /\ client.error \in Retried
    /\ client.attempts <= MaxRetries
    /\ CloseTeacher
    /\ ClientGoes("attempt")
    /\ UNCHANGED <<source, outcome, killed, surprises>>
CloseAndFail ==
    /\ ClientAt("closing")
    /\ client.error \in Retried => client.attempts > MaxRetries
    /\ CloseTeacher
    /\ outcome' = [outcome EXCEPT ![client.request] = [is |-> client.error]]
    /\ ClientGoes("idle")
    /\ UNCHANGED <<source, killed, surprises>>

TeacherNext ==
    \/ TeacherReads \/ TeacherAnswers \/ TeacherErrs \/ TeacherDies \/ ReplaceFiles
    \/ Exceed \/ KillForExcess
    \/ \E r \in Requests : Call(r)
    \/ Attempt \/ Pin \/ SpawnTeacher \/ VerifyCopy \/ NewGame
    \/ ReadLine \/ NoticeExit \/ Late \/ AwaitStop \/ CloseAndRetry \/ CloseAndFail
TeacherSpec == TeacherInit /\ [][TeacherNext]_teacherVars
-----------------------------------------------------------------------------
(* An answer is the teacher's to that very request, from the approved      *)
(* files, however late, dead or replaced the teacher before it was.        *)
AnswersAreOwn ==
    \A r \in Requests :
        outcome[r].is = "answer" => outcome[r].of = r /\ outcome[r].bytes = "approved"

(* A search ended for its memory is reported as such, never retried; and   *)
(* no teacher is left behind.                                              *)
ExcessIsReported ==
    /\ \A r \in killed : outcome[r].is \in {"pending", "memory_limit"}
    /\ Cardinality(alive) <= 1
    /\ ClientAt("idle") /\ teacher = NoTeacher => alive = {}

(* What holds of every request and of the processes of the client.         *)
TeacherAnswersAreOwn == AnswersAreOwn /\ ExcessIsReported
=============================================================================
