----------------------------- MODULE NodeBudget -----------------------------
(***************************************************************************)
(* The node budget of one parallel search (engine/core/src/parallel.rs,    *)
(* grant_nodes and return_nodes, with the SearchContext of search.rs that  *)
(* spends from it).                                                        *)
(*                                                                         *)
(* A `go nodes N' gives every context of the search one pool of N nodes.   *)
(* A context pays for its nodes from a local credit and tops the credit up *)
(* from the pool one chunk at a time.  The pool is one atomic counter:     *)
(* a reservation first adds a whole chunk and then subtracts what the      *)
(* budget could not cover, so the counter is transiently too high.  The    *)
(* contexts are the controller's iterative search (Main), its mate prepass *)
(* (Mate) and, for each helper thread, the context of its current claim.   *)
(*                                                                         *)
(* `visited' and `paid' are history variables: how many nodes were entered *)
(* by any context so far, and how many of those a credit was spent on.     *)
(***************************************************************************)
EXTENDS Integers, FiniteSets

CONSTANTS
  Helpers,        \* the helper threads of the search
  Main, Mate,     \* the two contexts of the controller thread
  Budget,         \* ParallelSearch.node_budget
  Ratio,          \* a chunk is this fraction of the budget (64 in the code)
  MaxChunk,       \* NODE_RESERVATION_CHUNK (64 in the code)
  MateAllowance   \* the local cap of the mate prepass, min(budget / 32, 2048)

ASSUME BudgetAssumption ==
  /\ IsFiniteSet(Helpers)
  /\ Main \notin Helpers /\ Mate \notin Helpers /\ Main # Mate
  /\ Budget \in Nat \ {0} /\ Ratio \in Nat \ {0} /\ MaxChunk \in Nat \ {0}
  /\ MateAllowance \in Nat

Contexts == Helpers \cup {Main, Mate}

\* The reservation unit of this budget.
Chunk == LET share == Budget \div Ratio
         IN  IF share < 1 THEN 1 ELSE IF share > MaxChunk THEN MaxChunk ELSE share

VARIABLES
  granted,      \* nodes_granted
  exhausted,    \* budget_exhausted, the latch
  stopped,      \* the stop flag of the search
  aborted,      \* the cancellation token or the shared deadline fired
  helperNodes,  \* helper_nodes, the flushed totals
  phase,        \* where the controller thread is
  pc,           \* where each context is
  nodes,        \* SearchContext.nodes
  credit,       \* SearchContext.node_credit
  reported,     \* SearchResult.nodes, once the search returned
  visited, paid

pool == <<granted, exhausted>>
flags == <<stopped, aborted>>
local == <<pc, nodes, credit>>
totals == <<helperNodes, phase, reported>>
tally == <<visited, paid>>
budgetVars == <<granted, exhausted, stopped, aborted, helperNodes, phase,
                pc, nodes, credit, reported, visited, paid>>

-----------------------------------------------------------------------------

\* A helper whose thread could not be created is gone from the start.
BudgetInit ==
  /\ granted = 0 /\ exhausted = FALSE
  /\ stopped = FALSE /\ aborted = FALSE
  /\ helperNodes = 0 /\ phase = "setup" /\ reported = 0
  /\ pc \in {f \in [Contexts -> {"open", "closed", "gone"}] :
               f[Main] = "open" /\ f[Mate] = "closed" /\ \A h \in Helpers : f[h] # "open"}
  /\ nodes = [c \in Contexts |-> 0]
  /\ credit = [c \in Contexts |-> 0]
  /\ visited = 0 /\ paid = 0

ShouldAbort == stopped \/ aborted \/ exhausted

\* SearchContext::check_termination; a helper's context has no limit of its own.
MustEnd(c) ==
  \/ ShouldAbort
  \/ (c = Main /\ nodes[c] >= Budget)
  \/ (c = Mate /\ nodes[c] >= MateAllowance)

\* The context may run: the controller's search is suspended during its prepass.
Runs(c) == (c = Main) => (phase = "iterate")

MoveTo(c, place) == pc' = [pc EXCEPT ![c] = place]

(***************************************************************************)
(* enter_node: check, count the node, and pay for it.                      *)
(***************************************************************************)
EndContext(c) ==
  /\ pc[c] = "open" /\ Runs(c) /\ MustEnd(c)
  /\ MoveTo(c, "over")
  /\ UNCHANGED <<pool, flags, totals, tally, nodes, credit>>

PayFromCredit(c) ==
  /\ pc[c] = "open" /\ Runs(c) /\ ~MustEnd(c) /\ credit[c] > 0
  /\ nodes' = [nodes EXCEPT ![c] = @ + 1]
  /\ credit' = [credit EXCEPT ![c] = @ - 1]
  /\ visited' = visited + 1 /\ paid' = paid + 1
  /\ UNCHANGED <<pool, flags, totals, pc>>

\* The node is counted before the pool is asked for its credit.
Ask(c) ==
  /\ pc[c] = "open" /\ Runs(c) /\ ~MustEnd(c) /\ credit[c] = 0
  /\ nodes' = [nodes EXCEPT ![c] = @ + 1]
  /\ visited' = visited + 1
  /\ MoveTo(c, "asking")
  /\ UNCHANGED <<pool, flags, totals, credit, paid>>

(***************************************************************************)
(* grant_nodes: add the chunk; unless the budget covered all of it, take   *)
(* the rest back; if it covered nothing, latch the exhaustion.             *)
(***************************************************************************)
GrantSize(previous) ==
  LET left == Budget - previous
  IN  IF left < 0 THEN 0 ELSE IF left < Chunk THEN left ELSE Chunk

Grant(c) ==
  /\ pc[c] = "asking"
  /\ granted' = granted + Chunk
  /\ LET size == GrantSize(granted) IN
     \/ /\ size = Chunk
        /\ credit' = [credit EXCEPT ![c] = size - 1]
        /\ paid' = paid + 1
        /\ MoveTo(c, "open")
     \/ /\ size # Chunk
        /\ credit' = [credit EXCEPT ![c] = size]
        /\ MoveTo(c, "partial")
        /\ UNCHANGED paid
  /\ UNCHANGED <<exhausted, flags, totals, nodes, visited>>

Remainder(c) == Chunk - credit[c]

GiveBack(c) ==
  /\ pc[c] = "partial"
  /\ granted' = granted - Remainder(c)
  /\ \/ /\ credit[c] > 0
        /\ credit' = [credit EXCEPT ![c] = @ - 1]
        /\ paid' = paid + 1
        /\ MoveTo(c, "open")
     \/ /\ credit[c] = 0
        /\ MoveTo(c, "refused")
        /\ UNCHANGED <<credit, paid>>
  /\ UNCHANGED <<exhausted, flags, totals, nodes, visited>>

Latch(c) ==
  /\ pc[c] = "refused"
  /\ exhausted' = TRUE
  /\ MoveTo(c, "over")
  /\ UNCHANGED <<granted, flags, totals, tally, nodes, credit>>

(***************************************************************************)
(* The drop of a helper's per-claim context: flush its nodes, then return  *)
(* the credit it did not spend.  A panic unwinds through the same drop and *)
(* only then stops the search.                                             *)
(***************************************************************************)
FlushAs_OnlyCompleted(h, place) ==
  /\ helperNodes' = IF pc[h] = "over" THEN helperNodes ELSE helperNodes + nodes[h]
  /\ MoveTo(h, place)
  /\ UNCHANGED <<pool, flags, phase, reported, tally, nodes, credit>>
FlushAs(h, place) ==
  /\ helperNodes' = helperNodes + nodes[h]
  /\ MoveTo(h, place)
  /\ UNCHANGED <<pool, flags, phase, reported, tally, nodes, credit>>

Flush(h) ==
  /\ pc[h] = "over" \/ (pc[h] = "open" /\ nodes[h] > 0)
  /\ FlushAs(h, "returning")

Unwind(h) ==
  /\ pc[h] = "open"
  /\ FlushAs(h, "unwinding")

ReturnCredit(c) ==
  /\ granted' = granted - credit[c]
  /\ credit' = [credit EXCEPT ![c] = 0]
  /\ UNCHANGED <<exhausted, tally>>

Return(h) ==
  /\ pc[h] \in {"returning", "unwinding"}
  /\ ReturnCredit(h)
  /\ nodes' = [nodes EXCEPT ![h] = 0]
  /\ MoveTo(h, IF pc[h] = "unwinding" THEN "failed" ELSE "closed")
  /\ UNCHANGED <<flags, totals>>

\* The helper's claim panicked: it stops the whole search and ends.
Fail(h) ==
  /\ pc[h] = "failed"
  /\ stopped' = TRUE
  /\ MoveTo(h, "gone")
  /\ UNCHANGED <<pool, aborted, totals, tally, nodes, credit>>

\* run_helper: claim while nothing stops the search, and leave once it does.
Claim(h) ==
  /\ pc[h] = "closed" /\ phase \notin {"setup", "mate"} /\ ~ShouldAbort
  /\ MoveTo(h, "open")
  /\ UNCHANGED <<pool, flags, totals, tally, nodes, credit>>

Leave(h) ==
  /\ pc[h] = "closed" /\ ShouldAbort
  /\ MoveTo(h, "gone")
  /\ UNCHANGED <<pool, flags, totals, tally, nodes, credit>>

(***************************************************************************)
(* The controller: a mate prepass that may be skipped, the iterations, the *)
(* stop flag, the join of every helper and the drain of their totals.      *)
(***************************************************************************)
StartMate ==
  /\ phase = "setup" /\ ~MustEnd(Main)
  /\ phase' = "mate"
  /\ MoveTo(Mate, "open")
  /\ UNCHANGED <<pool, flags, helperNodes, reported, tally, nodes, credit>>

SkipMate ==
  /\ phase = "setup"
  /\ phase' = "iterate"
  /\ UNCHANGED <<pool, flags, helperNodes, reported, tally, local>>

\* The prepass context is dropped and its nodes become the controller's.
EndMate ==
  /\ phase = "mate"
  /\ pc[Mate] = "over" \/ (pc[Mate] = "open" /\ nodes[Mate] > 0)
  /\ ReturnCredit(Mate)
  /\ nodes' = [nodes EXCEPT ![Main] = @ + nodes[Mate], ![Mate] = 0]
  /\ MoveTo(Mate, "closed")
  /\ phase' = "iterate"
  /\ UNCHANGED <<flags, helperNodes, reported>>

EndMain ==
  /\ phase = "iterate" /\ pc[Main] \in {"open", "over"}
  /\ ReturnCredit(Main)
  /\ MoveTo(Main, "closed")
  /\ phase' = "stopping"
  /\ UNCHANGED <<flags, helperNodes, reported, nodes>>

Stop ==
  /\ phase = "stopping"
  /\ stopped' = TRUE
  /\ phase' = "joining"
  /\ UNCHANGED <<pool, aborted, helperNodes, reported, tally, local>>

HelpersJoined == \A h \in Helpers : pc[h] = "gone"

Drain ==
  /\ phase = "joining" /\ HelpersJoined
  /\ reported' = nodes[Main] + helperNodes
  /\ phase' = "done"
  /\ UNCHANGED <<pool, flags, helperNodes, tally, local>>

\* The peer cancels the search, or its deadline passes.
Abort ==
  /\ ~aborted
  /\ aborted' = TRUE
  /\ UNCHANGED <<pool, stopped, totals, tally, local>>

-----------------------------------------------------------------------------

Visit(c) ==
  \/ EndContext(c) \/ PayFromCredit(c) \/ Ask(c)
  \/ Grant(c) \/ GiveBack(c) \/ Latch(c)
Helper(h) == Flush(h) \/ Return(h) \/ Fail(h) \/ Claim(h) \/ Leave(h)
Controller == StartMate \/ SkipMate \/ EndMate \/ EndMain \/ Stop \/ Drain

BudgetNext ==
  \/ \E c \in Contexts : Visit(c)
  \/ \E h \in Helpers : Helper(h) \/ Unwind(h)
  \/ Controller
  \/ Abort

BudgetSpec == BudgetInit /\ [][BudgetNext]_budgetVars

-----------------------------------------------------------------------------

Places == {"open", "asking", "partial", "refused", "over", "returning",
           "unwinding", "failed", "closed", "gone"}
Phases == {"setup", "mate", "iterate", "stopping", "joining", "done"}

\* Every variable has its type; above all, the pool counter and every credit
\* (u64 in the code) never go below zero.
BudgetTypeOK ==
  /\ granted \in Nat /\ exhausted \in BOOLEAN
  /\ stopped \in BOOLEAN /\ aborted \in BOOLEAN
  /\ helperNodes \in Nat /\ phase \in Phases /\ reported \in Nat
  /\ pc \in [Contexts -> Places]
  /\ nodes \in [Contexts -> Nat]
  /\ credit \in [Contexts -> 0 .. Chunk]
  /\ visited \in Nat /\ paid \in Nat

\* The sum over the contexts of f, whose values are at most n, as a set of tokens.
Tokens(f, n) == {t \in Contexts \X (1 .. n) : t[2] <= f[t[1]]}
Sum(f, n) == Cardinality(Tokens(f, n))

\* What of the pool counter a context still accounts for: its credit, or the
\* whole chunk while it has not yet given back what the budget did not cover.
Held == [c \in Contexts |-> IF pc[c] = "partial" THEN Chunk ELSE credit[c]]

\* The counter of the pool is the credit spent plus what the contexts hold, and
\* what they may spend never takes the search over the budget (the comment on
\* NODE_RESERVATION_CHUNK: outstanding credit never exceeds the declared budget).
PoolIsConserved ==
  /\ granted = paid + Sum(Held, Chunk)
  /\ paid + Sum(credit, Chunk) <= Budget

\* The search enters at most one node per thread beyond its budget: the node a
\* context counted before its reservation was refused.  (The comment on
\* NODE_RESERVATION_CHUNK says that the total "cannot exceed the budget at all".)
VisitsAreBounded == visited <= Budget + Cardinality(Helpers) + 1

\* When the budget ends the search, no more than one chunk per other thread of
\* it was left unspent, whatever claims were abandoned, cancelled or unwound.
UndershootIsBounded == exhausted => paid + Chunk * Cardinality(Helpers) >= Budget

\* SearchResult.nodes is the exact number of nodes entered by all contexts: each
\* claim is flushed exactly once, also when it was refused or it panicked.
ReportIsExact == phase = "done" => reported = visited

\* The pool of a search and the counts of its threads add up, whichever claims are
\* refused, abandoned, cancelled or unwound: nothing is lost or spent twice, the search
\* keeps to its budget and spends it, and it reports what it did (limits.rs, parallel.rs).
BudgetIsSound ==
  BudgetTypeOK /\ PoolIsConserved /\ VisitsAreBounded /\ UndershootIsBounded /\ ReportIsExact
=============================================================================
