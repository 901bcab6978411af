---------------------------- MODULE ProcessTable ----------------------------
(***************************************************************************)
(* The kernel's process table as the tooling sees it: through ps, through  *)
(* the start identity of a pid (labeling/process_identity.py), through     *)
(* kill and killpg.  A pid is given to another process once it is free and *)
(* no process group has its number.                                        *)
(***************************************************************************)
EXTENDS Naturals, FiniteSets

CONSTANTS Pids, MaxBirths,  \* bound: processes one pid is given to
          Reusable          \* the pids that are given away once they are free

VARIABLE table   \* pid -> its process

Nobody == 0      \* the parent of an orphan: init
Runner == 99     \* the process that runs the tooling, which reaps its child

Free(birth) == [who |-> "none", zombie |-> FALSE, parent |-> Nobody,
                group |-> Nobody, birth |-> birth, pipe |-> FALSE,
                deaf |-> FALSE]
TableInit == table = [p \in Pids |-> Free(0)]

IsFree(p) == table[p].who = "none"
IsLive(p) == ~IsFree(p) /\ ~table[p].zombie
MembersOf(g) == {p \in Pids : IsLive(p) /\ table[p].group = g}
\* A free pid which may be given away: no group, no zombie has its number.
MayTake(p) == /\ IsFree(p) /\ table[p].birth < MaxBirths
              /\ \A q \in Pids : IsFree(q) \/ table[q].group # p

\* read_process_identity: pid, group and start time; a zombie has none.
IdentityOf(p) ==
    IF IsLive(p) THEN <<p, table[p].group, table[p].birth>> ELSE <<>>

Process(who, p, parent, group, pipe, deaf) ==
    [who |-> who, zombie |-> FALSE, parent |-> parent, group |-> group,
     birth |-> table[p].birth + 1, pipe |-> pipe, deaf |-> deaf]

\* The table once the live processes of S are dead and those of W reaped: a
\* dead process waits as a zombie for its parent, an orphan is reaped by init.
After(S, W) ==
    [p \in Pids |->
        LET Waits == table[p].parent = Runner
                     \/ (table[p].parent \in Pids \ S /\ IsLive(table[p].parent))
        IN CASE p \in W \/ (~IsFree(p) /\ ~Waits /\ (p \in S \/ table[p].zombie))
                  -> Free(table[p].birth)
             [] p \in S /\ p \notin W /\ Waits -> [table[p] EXCEPT !.zombie = TRUE]
             [] OTHER -> IF table[p].parent \in S
                         THEN [table[p] EXCEPT !.parent = Nobody] ELSE table[p]]

\* SIGTERM leaves the deaf, SIGKILL nobody.
Hearing(S) == {p \in S : ~table[p].deaf}
-----------------------------------------------------------------------------
(* What the processes do by themselves                                     *)

\* What another program does with its own process is left out.
Runs(p) == IsLive(p) /\ table[p].who # "stranger"

Fork(p, q) ==
    /\ Runs(p) /\ q \in Reusable /\ MayTake(q)
    /\ \E deaf \in BOOLEAN, pipe \in {FALSE, table[p].pipe} :
          table' = [table EXCEPT ![q] = Process(table[p].who, q, p,
                                            table[p].group, pipe, deaf)]

\* setsid, which also changes the identity.
LeaveGroup(p) ==
    /\ Runs(p) /\ table[p].group # p /\ \A q \in Pids : table[q].group # p
    /\ table' = [table EXCEPT ![p].group = p]

Exit(p) == Runs(p) /\ table' = After({p}, {})

\* A parent other than the tooling waits for its child.
ReapChild(p) == /\ table[p].zombie /\ table[p].parent # Runner
                /\ table' = After({}, {p})

\* Another program is given the pid, in a group of its own.
Reuse(p) == /\ p \in Reusable /\ MayTake(p)
            /\ table' = [table EXCEPT ![p] =
                            Process("stranger", p, Nobody, p, FALSE, FALSE)]
=============================================================================
