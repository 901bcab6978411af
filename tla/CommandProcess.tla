--------------------------- MODULE CommandProcess ---------------------------
(***************************************************************************)
(* One bounded command of the self-play tooling (selfplay/execution.py,    *)
(* _run_bounded_process): the leader is started in a session of its own,   *)
(* its process tree is sampled with ps, bound to start identities and      *)
(* signalled when the time, the memory or the output runs out, while one   *)
(* reader waits for the end of the pipe that the tree inherits.  Every     *)
(* signal is two steps: the identity of a pid is read, and whoever has the *)
(* pid by then is signalled.                                               *)
(*                                                                         *)
(* The two pipes are one; how much memory a sample shows, when the time    *)
(* runs out and whether the launch guard holds are choices.  The history   *)
(* variables mistaken and heirs only record how other programs came to     *)
(* their pids.                                                             *)
(***************************************************************************)
EXTENDS ProcessTable

CONSTANTS Leader, MaxMoved  \* bound: what the processes do by themselves

\* Pids are numbers other than those of init and of the runner.
ASSUME CommandAssumption == Leader \in Pids /\ Nobody \notin Pids /\ Runner \notin Pids

VARIABLES
    where,      \* where _run_bounded_process is
    onward,     \* where it goes after the signals
    rows,       \* the last listing of ps
    live,       \* live_processes
    lastLive,   \* last_live_processes
    ids,        \* process_identities
    reaped,     \* process.poll() has returned a code
    overflow,   \* the reader's event
    cut,        \* the command was cut off: time, memory or output
    force,      \* the signal is SIGKILL
    queue,      \* the pids _signal_process_ids has still to look at
    aim,        \* the pid whose identity was found to be the sampled one
    moved,      \* what the processes have done by themselves
    mistaken,   \* programs that were given a pid in between: pid and birth
    heirs,      \* programs begun by whoever has the number of the reaped leader
    struck      \* programs that a signal has reached

signalling == <<force, queue, aim>>
supervision == <<onward, rows, live, lastLive, ids, reaped, overflow, cut, signalling, struck>>
commandVars == <<table, where, supervision, moved, mistaken, heirs>>

NoRows == [p \in Pids |-> Free(0)]
CommandInit ==
    /\ TableInit /\ where = "spawn" /\ onward = "wait" /\ moved = 0
    /\ rows = NoRows /\ live = {} /\ lastLive = {}
    /\ ids = [p \in Pids |-> <<>>]
    /\ reaped = FALSE /\ overflow = FALSE /\ cut = FALSE
    /\ force = FALSE /\ queue = {} /\ aim = Nobody
    /\ mistaken = {} /\ heirs = {} /\ struck = {}

Over == {"done", "refused", "unbound"}
HoldsPipe(p) == IsLive(p) /\ table[p].pipe
\* _read_pipe: until the last writer is gone, or the output is too large.
IsReading == ~overflow /\ \E p \in Pids : HoldsPipe(p)
HasEnded == reaped \/ table[Leader].zombie    \* process.poll() is not None
Owned == live \union lastLive
-----------------------------------------------------------------------------
(* Signals: _signal_owned_process_group, then _signal_process_ids          *)

\* Bug: whoever has the pid is signalled.
IsSame_PidOnly(p) == ids[p] # <<>> /\ IsLive(p)

\* The identity that was sampled is still the identity of the pid.
IsSame(p) == ids[p] # <<>> /\ IdentityOf(p) = ids[p]

\* process.poll() reaps a leader that has ended; one that has not is ours.
CheckGroup ==
    /\ where \in {"term", "kill"}
    /\ force' = (where = "kill")
    /\ queue' = Owned \ {Leader}
    /\ reaped' = HasEnded
    /\ table' = After({}, IF table[Leader].zombie /\ ~reaped THEN {Leader} ELSE {})
    /\ IF ~HasEnded /\ IsSame(Leader)
       THEN aim' = Leader /\ where' = "strike"
       ELSE aim' = Nobody /\ where' = "look"
    /\ UNCHANGED <<onward, rows, live, lastLive, ids, overflow, cut, struck>>

\* sorted(process_ids): one after the other.
CheckNext(p) ==
    /\ where = "look" /\ p \in queue /\ \A q \in queue : p <= q
    /\ queue' = queue \ {p}
    /\ IF IsSame(p) THEN aim' = p /\ where' = "strike" ELSE UNCHANGED <<aim, where>>
    /\ UNCHANGED <<table, onward, rows, live, lastLive, ids, reaped, overflow, cut, force, struck>>

\* killpg or kill: whoever has the number now.
Addressed == IF aim = Leader THEN MembersOf(Leader) ELSE {p \in {aim} : IsLive(p)}
Strangers(S) == {<<p, table[p].birth>> : p \in {q \in S : table[q].who = "stranger"}}
Strike ==
    /\ where = "strike" /\ where' = "look" /\ aim' = Nobody
    /\ table' = After(IF force THEN Addressed ELSE Hearing(Addressed), {})
    /\ struck' = struck \union Strangers(Addressed)
    /\ UNCHANGED <<onward, rows, live, lastLive, ids, reaped, overflow, cut, force, queue>>

\* _terminate_process_tree waits for the leader, but not for long.
EndTerm ==
    /\ where = "look" /\ queue = {} /\ ~force /\ where' = "grace"
    /\ UNCHANGED <<table, supervision>>
\* The wait that follows a kill, but for a command that is refused.
EndKill ==
    /\ where = "look" /\ queue = {} /\ force /\ HasEnded /\ where' = onward
    /\ IF onward = "refused" THEN UNCHANGED <<table, reaped>>
       ELSE table' = After({}, IF reaped THEN {} ELSE {Leader}) /\ reaped' = TRUE
    /\ UNCHANGED <<onward, rows, live, lastLive, ids, overflow, cut, signalling, struck>>
-----------------------------------------------------------------------------
(* The launch                                                              *)

Spawn == /\ where = "spawn" /\ where' = "guard"
         /\ \E deaf \in BOOLEAN : table' = [table EXCEPT ![Leader] =
               Process("ours", Leader, Runner, Leader, TRUE, deaf)]
         /\ UNCHANGED supervision

\* The selected rows of a listing: the leader, its group, and whatever has a
\* parent among the selected.
FirstRows(t) == {p \in Pids : t[p].who # "none" /\ (t[p].group = Leader \/ p = Leader)}
ChildRows(t, S) == {p \in Pids : t[p].who # "none" /\ t[p].parent \in S}
Tree(t) ==
    {p \in Pids : \A S \in SUBSET Pids :
        FirstRows(t) \subseteq S /\ ChildRows(t, S) \subseteq S => p \in S}

\* The guard is checked again once the child runs.
GuardHolds == /\ where = "guard" /\ where' = "bind" /\ UNCHANGED <<table, supervision>>

\* The child is stopped with the tree that one sample shows, or alone if its
\* identity cannot be read.
GuardFails ==
    /\ where = "guard"
    /\ \/ /\ IsLive(Leader)
          /\ ids' = [ids EXCEPT ![Leader] = IdentityOf(Leader)] /\ lastLive' = {Leader}
          /\ where' = "sample" /\ onward' = "refused"
          /\ UNCHANGED <<table, reaped>>
       \/ /\ table' = After({Leader}, {Leader}) /\ reaped' = TRUE
          /\ where' = "refused" /\ UNCHANGED <<ids, lastLive, onward>>
    /\ UNCHANGED <<rows, live, overflow, cut, signalling, struck>>

\* _bind_process_start_identity; a leader that has ended needs none.
Bind ==
    /\ where = "bind" /\ where' = "sample"
    /\ IF IsLive(Leader)
       THEN /\ ids' = [ids EXCEPT ![Leader] = IdentityOf(Leader)]
            /\ UNCHANGED <<table, reaped>>
       ELSE /\ table' = After({}, {Leader}) /\ reaped' = TRUE /\ ids' = ids
    /\ lastLive' = {Leader}
    /\ UNCHANGED <<onward, rows, live, overflow, cut, signalling, struck>>

\* No identity within its second: the leader alone is stopped.
BindFails ==
    /\ where = "bind" /\ IsLive(Leader)
    /\ table' = After({Leader}, {Leader}) /\ reaped' = TRUE
    /\ where' = "unbinding"
    /\ UNCHANGED <<onward, rows, live, lastLive, ids, overflow, cut, signalling, struck>>
-----------------------------------------------------------------------------
(* The supervision loop                                                    *)

Sample == /\ where = "sample" /\ where' = "identify" /\ rows' = table
          /\ UNCHANGED <<table, onward, live, lastLive, ids, reaped, overflow,
                         cut, signalling, struck>>

\* _process_tree_rss_bytes, after ps: a process that is gone or a zombie is
\* counted, but its pid is not retained; one that is there is, whoever it is.
ReadIdentities ==
    /\ where = "identify"
    /\ live' = {p \in Tree(rows) : IsLive(p)}
    /\ ids' = [p \in Pids |-> IF p \in live' THEN IdentityOf(p) ELSE ids[p]]
    /\ lastLive' = IF live' = {} THEN lastLive ELSE live'
    /\ rows' = NoRows
    /\ where' = IF onward = "refused" THEN "term" ELSE "decide"
    /\ UNCHANGED <<table, onward, reaped, overflow, cut, signalling, struck>>

\* ps fails: a live leader is not run unmetered.
SampleFails ==
    /\ where = "sample"
    /\ IF onward # "refused" /\ HasEnded
       THEN /\ live' = {} /\ reaped' = TRUE /\ where' = "decide"
            /\ table' = After({}, IF reaped THEN {} ELSE {Leader})
            /\ UNCHANGED <<onward, cut>>
       ELSE /\ live' = lastLive /\ where' = "term"
            /\ IF onward = "refused" THEN UNCHANGED <<onward, cut>>
               ELSE cut' = TRUE /\ onward' = "wait"
            /\ UNCHANGED <<table, reaped>>
    /\ UNCHANGED <<rows, lastLive, ids, overflow, signalling, struck>>

\* Too much memory, too much output, or the deadline.
CutOff ==
    /\ where = "decide" /\ cut' = TRUE /\ where' = "term" /\ onward' = "wait"
    /\ UNCHANGED <<table, rows, live, lastLive, ids, reaped, overflow, signalling, struck>>

Continue == /\ where = "decide" /\ ~overflow /\ ~HasEnded /\ where' = "sample"
            /\ UNCHANGED <<table, supervision>>

\* The leader is gone: what is left of its tree is asked to end.
LeaderEnded ==
    /\ where = "decide" /\ ~overflow /\ HasEnded
    /\ table' = After({}, IF reaped THEN {} ELSE {Leader}) /\ reaped' = TRUE
    /\ IF live # {} THEN where' = "term" /\ onward' = "settle"
       ELSE where' = "settle" /\ onward' = onward
    /\ UNCHANGED <<rows, live, lastLive, ids, overflow, cut, signalling, struck>>

\* Every reader has ended, or two seconds have not passed yet.
Settle == /\ where = "settle"
          /\ where' = IF IsReading THEN "sample" ELSE "wait"
          /\ UNCHANGED <<table, supervision>>

\* A kill of the tree, and where the runner goes from there.
KillTree(next) ==
    /\ where' = "kill" /\ onward' = next
    /\ UNCHANGED <<table, rows, live, lastLive, ids, reaped, overflow, cut, signalling, struck>>

\* Two seconds after the leader the rest of the tree is killed.
SettleKill == where = "settle" /\ IsReading /\ KillTree("wait")

\* The leader ends, or two seconds later it is killed with the tree.
Grace ==
    /\ where = "grace"
    /\ IF HasEnded
       THEN /\ table' = After({}, IF reaped THEN {} ELSE {Leader}) /\ reaped' = TRUE
            /\ where' = onward
            /\ UNCHANGED <<onward, rows, live, lastLive, ids, overflow, cut, signalling, struck>>
       ELSE KillTree(onward)
-----------------------------------------------------------------------------
(* The end                                                                 *)

\* The leader has been waited for, and the reader has come to the end.
Join == /\ where = "wait" /\ ~IsReading /\ where' = "done"
        /\ UNCHANGED <<table, supervision>>

\* Five seconds later it has not: kill what was sampled, close the streams.
JoinTimesOut == where = "wait" /\ IsReading /\ KillTree("closing")

\* close waits for the lock of the stream, which the blocked reader holds.
Close == /\ where \in {"closing", "unbinding"} /\ ~IsReading
         /\ where' = IF where = "closing" THEN "done" ELSE "unbound"
         /\ UNCHANGED <<table, supervision>>

\* _read_pipe: the output exceeds its bound.
Flood == /\ where \notin Over \union {"spawn", "guard", "closing", "unbinding"}
         /\ onward # "refused" /\ IsReading
         /\ overflow' = TRUE
         /\ UNCHANGED <<table, where, onward, rows, live, lastLive, ids, reaped, cut,
                        signalling, struck>>
-----------------------------------------------------------------------------
(* What the processes and other programs do meanwhile                      *)

\* What another program starts is in its group.
StrangerForks(p, q) ==
    /\ table[p].who = "stranger" /\ ~table[p].zombie /\ q \in Reusable /\ MayTake(q)
    /\ table' = [table EXCEPT ![q] =
                    Process("stranger", q, p, table[p].group, FALSE, FALSE)]

\* A program is given a pid that ps has listed and whose identity is not read
\* yet, or one whose identity was read and which is not signalled yet.
IsInBetween(q) ==
    (where = "identify" /\ q \in Tree(rows)) \/ (where = "strike" /\ aim = q)
Newcomer(q) == <<q, table[q].birth + 1>>
Arrives(q) ==
    mistaken' = IF IsInBetween(q) THEN mistaken \union {Newcomer(q)} ELSE mistaken
\* Whoever has the number of the reaped leader is taken for it by ps's reader,
\* with all that it begins.
IsHeir(p) == p = Leader \/ <<p, table[p].birth>> \in heirs

ProcessesRun ==
    /\ where \notin Over \union {"spawn"}
    /\ moved < MaxMoved /\ moved' = moved + 1
    /\ \/ /\ \/ \E p, q \in Pids : Fork(p, q)
             \/ \E p \in Pids : LeaveGroup(p) \/ Exit(p) \/ ReapChild(p)
          /\ UNCHANGED <<mistaken, heirs>>
       \/ \E q \in Pids : Reuse(q) /\ Arrives(q) /\ UNCHANGED heirs
       \/ \E p, q \in Pids :
             /\ StrangerForks(p, q) /\ Arrives(q)
             /\ heirs' = IF IsHeir(p) THEN heirs \union {Newcomer(q)} ELSE heirs
    /\ UNCHANGED <<where, supervision>>

CommandStep ==
        \/ CheckGroup \/ Strike \/ EndTerm \/ EndKill
        \/ \E p \in Pids : CheckNext(p)
        \/ Spawn \/ GuardHolds \/ GuardFails \/ Bind \/ BindFails
        \/ Sample \/ ReadIdentities \/ SampleFails \/ CutOff \/ Continue
        \/ LeaderEnded \/ Settle \/ SettleKill \/ Grace
        \/ Join \/ JoinTimesOut \/ Close \/ Flood
CommandNext == ProcessesRun \/ (CommandStep /\ UNCHANGED <<moved, mistaken, heirs>>)

CommandSpec == CommandInit /\ [][CommandNext]_commandVars
-----------------------------------------------------------------------------
(* Properties                                                              *)

\* A signal reaches another program only if that was given its pid between ps
\* and the reading of its identity, or between the check of the identity and
\* the signal, or was begun by whoever has the number of the reaped leader.
\* In every other order the pid's new holder is told apart, and the leader's
\* group is signalled only while it is the leader's.
OnlyTheMistakenAreSignalled == struck \subseteq mistaken \union heirs

\* A command that is cut off leaves nothing of its last sample running but a
\* process that ignores SIGTERM: CutOff, CheckGroup, Grace.
CutOffTreeIsStopped ==
    where = "done" => /\ reaped
                      /\ cut => \A p \in lastLive \ {Leader} : IsSame(p) => table[p].deaf

\* The runner can only be held up by a process that holds the pipe and that no
\* sample has shown as it is now: the kill before the streams are closed.
HeldUpOnlyByTheUnseen ==
    where = "closing" => \A p \in lastLive \ {Leader} : IsSame(p) => ~HoldsPipe(p)

\* The runner signals processes of its own command, and others only where it
\* cannot tell them apart; none of its own outlives a command that was cut
\* off, as far as it could know them.
ProcessesAreOwned ==
    OnlyTheMistakenAreSignalled /\ CutOffTreeIsStopped /\ HeldUpOnlyByTheUnseen
=============================================================================
