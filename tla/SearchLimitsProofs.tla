-------------------------- MODULE SearchLimitsProofs -------------------------
(***************************************************************************)
(* Proofs about the two limits of a search: its nodes (NodeBudget) and its *)
(* time (TimedMatch).                                                      *)
(*                                                                         *)
(* For any number of helpers, any budget and any chunk, the pool of nodes  *)
(* is conserved, a search visits at most one node per thread beyond its    *)
(* budget, leaves at most a chunk per thread unspent once the budget ends  *)
(* it, and reports exactly the nodes it visited.  The sums over the        *)
(* contexts are cardinalities of sets of tokens (Sum in NodeBudget): the   *)
(* first section derives from the finite-set theorems the few facts about  *)
(* them the invariants need.                                               *)
(*                                                                         *)
(* For every clock, time rule, margin and scale the assumptions allow, a   *)
(* plan of a match move is ordered and leaves the margin, so the engine    *)
(* never forfeits on time, and the cooldown is the history of the game.    *)
(* The arithmetic of TimeControl is bounded first, then follows what the   *)
(* plan of a match request is; the rest is one inductive invariant, proved *)
(* action by action.                                                       *)
(***************************************************************************)
EXTENDS NodeBudget, TimedMatch, FiniteSetTheorems, TLAPS

-----------------------------------------------------------------------------
(* The budget: sets of contexts. *)

\* There are finitely many contexts, one more than the threads.
LEMMA ContextsFinite ==
  /\ IsFiniteSet(Contexts) /\ IsFiniteSet(Helpers \cup {Main})
  /\ Cardinality(Helpers) \in Nat
  /\ Cardinality(Helpers \cup {Main}) = Cardinality(Helpers) + 1
<1>1. IsFiniteSet(Helpers) /\ Main \notin Helpers
  BY BudgetAssumption
<1>2. /\ IsFiniteSet(Helpers \cup {Main})
      /\ Cardinality(Helpers \cup {Main}) = Cardinality(Helpers) + 1
  BY <1>1, FS_AddElement
<1>3. IsFiniteSet((Helpers \cup {Main}) \cup {Mate})
  BY <1>2, FS_AddElement
<1>4. Contexts = (Helpers \cup {Main}) \cup {Mate}
  BY DEF Contexts
<1> QED
  BY <1>1, <1>2, <1>3, <1>4, FS_CardinalityType

LEMMA ChunkType == Chunk \in Nat \ {0}
<1>1. Budget \div Ratio \in Int
  BY BudgetAssumption
<1> QED
  BY <1>1, BudgetAssumption DEF Chunk

-----------------------------------------------------------------------------
(* Sums over the contexts. *)

Column(f, c) == {c} \X (1 .. f[c])
Others(f, n, c) == {t \in Tokens(f, n) : t[1] # c}

LEMMA TokensFinite ==
  ASSUME NEW n \in Nat, NEW f
  PROVE  IsFiniteSet(Tokens(f, n)) /\ Sum(f, n) \in Nat
<1>1. IsFiniteSet(1 .. n)
  BY FS_Interval
<1>2. IsFiniteSet(Contexts \X (1 .. n))
  BY <1>1, ContextsFinite, FS_Product
<1>3. Tokens(f, n) \in SUBSET (Contexts \X (1 .. n))
  BY DEF Tokens
<1>4. IsFiniteSet(Tokens(f, n))
  BY <1>2, <1>3, FS_Subset
<1> QED
  BY <1>4, FS_CardinalityType DEF Sum

LEMMA ColumnSize ==
  ASSUME NEW n \in Nat, NEW f \in [Contexts -> 0 .. n], NEW c \in Contexts
  PROVE  IsFiniteSet(Column(f, c)) /\ Cardinality(Column(f, c)) = f[c]
<1>1. f[c] \in 0 .. n
  OBVIOUS
<1>2. IsFiniteSet(1 .. f[c]) /\ Cardinality(1 .. f[c]) = f[c]
  BY <1>1, FS_Interval
<1>3. IsFiniteSet({c}) /\ Cardinality({c}) = 1
  BY FS_Singleton
<1>4. /\ IsFiniteSet({c} \X (1 .. f[c]))
      /\ Cardinality({c} \X (1 .. f[c])) = 1 * f[c]
  BY <1>2, <1>3, FS_Product
<1> QED
  BY <1>1, <1>4 DEF Column

\* A sum is what one context contributes and what the others do.
LEMMA SumSplit ==
  ASSUME NEW n \in Nat, NEW f \in [Contexts -> 0 .. n], NEW c \in Contexts
  PROVE  /\ Cardinality(Others(f, n, c)) \in Nat
         /\ Sum(f, n) = Cardinality(Others(f, n, c)) + f[c]
<1> DEFINE others == Others(f, n, c)
<1>1. IsFiniteSet(others) /\ Cardinality(others) \in Nat
  <2>1. others \in SUBSET Tokens(f, n)
    BY DEF Others
  <2> QED
    BY <2>1, TokensFinite, FS_Subset, FS_CardinalityType
<1>2. IsFiniteSet(Column(f, c)) /\ Cardinality(Column(f, c)) = f[c]
  BY ColumnSize
<1>3. Tokens(f, n) = others \cup Column(f, c)
  <2>1. f[c] \in 0 .. n
    OBVIOUS
  <2> QED
    BY <2>1 DEF Tokens, Column, Others
<1>4. others \cap Column(f, c) = {}
  BY DEF Column, Others
<1>5. Cardinality(others \cup Column(f, c))
        = Cardinality(others) + Cardinality(Column(f, c)) - Cardinality({})
  BY <1>1, <1>2, <1>4, FS_Union
<1>6. f[c] \in Nat /\ Cardinality({}) = 0
  BY FS_EmptySet
<1>7. Sum(f, n) = Cardinality(others \cup Column(f, c))
  BY <1>3 DEF Sum
<1> QED
  BY <1>1, <1>2, <1>5, <1>6, <1>7

\* Changing one summand changes the sum by as much.
LEMMA SumUpdate ==
  ASSUME NEW n \in Nat, NEW f \in [Contexts -> 0 .. n], NEW g \in [Contexts -> 0 .. n],
         NEW c \in Contexts, \A d \in Contexts : d # c => g[d] = f[d]
  PROVE  Sum(g, n) = Sum(f, n) - f[c] + g[c]
<1>1. Others(g, n, c) = Others(f, n, c)
  BY DEF Tokens, Others
<1>2. f[c] \in Nat /\ g[c] \in Nat
  OBVIOUS
<1>3. Cardinality(Others(f, n, c)) \in Nat /\ Sum(f, n) = Cardinality(Others(f, n, c)) + f[c]
  BY SumSplit
<1>4. Sum(g, n) = Cardinality(Others(g, n, c)) + g[c]
  BY SumSplit
<1> QED
  BY <1>1, <1>2, <1>3, <1>4

LEMMA SumMonotone ==
  ASSUME NEW n \in Nat, NEW f \in [Contexts -> 0 .. n], NEW g \in [Contexts -> 0 .. n],
         \A c \in Contexts : f[c] <= g[c]
  PROVE  Sum(f, n) <= Sum(g, n)
<1>1. Tokens(f, n) \in SUBSET Tokens(g, n)
  BY DEF Tokens
<1> QED
  BY <1>1, TokensFinite, FS_Subset DEF Sum

\* Only the contexts in S contribute, each at most n.
LEMMA SumBound ==
  ASSUME NEW n \in Nat, NEW f \in [Contexts -> 0 .. n], NEW S, IsFiniteSet(S),
         \A c \in Contexts : c \notin S => f[c] = 0
  PROVE  Sum(f, n) <= Cardinality(S) * n /\ Cardinality(S) \in Nat
<1>1. IsFiniteSet(1 .. n) /\ Cardinality(1 .. n) = n
  BY FS_Interval
<1>2. IsFiniteSet(S \X (1 .. n)) /\ Cardinality(S \X (1 .. n)) = Cardinality(S) * n
  BY <1>1, FS_Product
<1>3. Tokens(f, n) \in SUBSET (S \X (1 .. n))
  BY DEF Tokens
<1> QED
  BY <1>2, <1>3, FS_Subset, FS_CardinalityType DEF Sum

LEMMA SumZero ==
  ASSUME NEW n \in Nat, NEW f \in [Contexts -> 0 .. n], \A c \in Contexts : f[c] = 0
  PROVE  Sum(f, n) = 0
<1>1. Tokens(f, n) = {}
  BY DEF Tokens
<1> QED
  BY <1>1, FS_EmptySet DEF Sum

-----------------------------------------------------------------------------
(* The budget's inductive invariant. *)

\* BudgetTypeOK, with what keeps the counter above zero left to IPool.
IType ==
  /\ granted \in Int /\ exhausted \in BOOLEAN
  /\ stopped \in BOOLEAN /\ aborted \in BOOLEAN
  /\ helperNodes \in Nat /\ phase \in Phases /\ reported \in Nat
  /\ pc \in [Contexts -> Places]
  /\ nodes \in [Contexts -> Nat]
  /\ credit \in [Contexts -> 0 .. Chunk]
  /\ visited \in Nat /\ paid \in Nat

\* Which contexts exist in which phase, and what an idle context holds.
IPlaces ==
  /\ pc[Main] \notin {"returning", "unwinding", "failed", "gone"}
  /\ pc[Mate] \notin {"returning", "unwinding", "failed", "gone"}
  /\ phase \notin {"setup", "mate", "iterate"} => pc[Main] = "closed"
  /\ phase \in {"setup", "mate"} =>
       /\ pc[Main] = "open" /\ nodes[Main] = 0 /\ credit[Main] = 0
       /\ \A h \in Helpers : pc[h] \in {"closed", "gone"}
  /\ phase # "mate" => pc[Mate] = "closed"
  /\ phase = "done" => \A h \in Helpers : pc[h] = "gone"
  /\ \A c \in Contexts :
       /\ pc[c] \in {"asking", "refused", "failed", "closed", "gone"} => credit[c] = 0
       /\ pc[c] = "partial" => credit[c] < Chunk
       /\ pc[c] \in {"failed", "closed", "gone"} /\ c # Main => nodes[c] = 0

IPool == PoolIsConserved

\* The contexts whose last node is counted but not paid for.
Pending == {c \in Contexts : pc[c] \in {"asking", "partial", "refused"}}

\* Until the latch every node but the pending ones is paid; after it no node is
\* entered any more.
IVisits ==
  /\ \A c \in Contexts : nodes[c] <= visited
  /\ ~exhausted => visited = paid + Cardinality(Pending)
  /\ visited <= paid + Cardinality(Helpers) + 1

\* A reservation is refused only when what is unpaid is held by the other threads.
Refused(c) == pc[c] = "refused" \/ (pc[c] = "partial" /\ credit[c] = 0)
IUndershoot ==
  exhausted \/ (\E c \in Contexts : Refused(c))
    => paid + Chunk * Cardinality(Helpers) >= Budget

\* Every visited node is in the flushed total or in one context not yet flushed.
MostVisits == Budget + Cardinality(Helpers) + 1
Unflushed ==
  [c \in Contexts |-> IF pc[c] \in {"returning", "unwinding"} THEN 0 ELSE nodes[c]]
IReport ==
  /\ visited = helperNodes + Sum(Unflushed, MostVisits)
  /\ phase = "done" => reported = visited

\* The type and the places of the contexts do not depend on the sums.
LEMMA TypeStep == IType /\ [BudgetNext]_budgetVars => IType'
<1> SUFFICES ASSUME IType, [BudgetNext]_budgetVars PROVE IType'
  OBVIOUS
<1>t. Contexts = Helpers \cup {Main, Mate} /\ Chunk \in Nat \ {0}
  BY ChunkType DEF Contexts
<1>g. \A previous \in Int : GrantSize(previous) \in 0 .. Chunk
  BY <1>t, BudgetAssumption DEF GrantSize
<1>1. ASSUME NEW c \in Contexts, EndContext(c) PROVE IType'
  BY <1>1, <1>t DEF EndContext, IType, Places, Phases, budgetVars, pool, flags, local, totals, tally, MoveTo
<1>2. ASSUME NEW c \in Contexts, PayFromCredit(c) PROVE IType'
  BY <1>2, <1>t DEF PayFromCredit, IType, Places, Phases, budgetVars, pool, flags, local, totals, tally
<1>3. ASSUME NEW c \in Contexts, Ask(c) PROVE IType'
  BY <1>3, <1>t DEF Ask, IType, Places, Phases, budgetVars, pool, flags, local, totals, tally, MoveTo
<1>4. ASSUME NEW c \in Contexts, Grant(c) PROVE IType'
  BY <1>4, <1>g, <1>t DEF Grant, IType, Places, Phases, budgetVars, pool, flags, local, totals, tally, MoveTo
<1>5. ASSUME NEW c \in Contexts, GiveBack(c) PROVE IType'
  BY <1>5, <1>t DEF GiveBack, IType, Places, Phases, budgetVars, pool, flags, local, totals, tally, MoveTo, Remainder
<1>6. ASSUME NEW c \in Contexts, Latch(c) PROVE IType'
  BY <1>6, <1>t DEF Latch, IType, Places, Phases, budgetVars, pool, flags, local, totals, tally, MoveTo
<1>7. ASSUME NEW h \in Helpers, Flush(h) PROVE IType'
  BY <1>7, <1>t DEF Flush, IType, Places, Phases, budgetVars, pool, flags, local, totals, tally, MoveTo, FlushAs
<1>8. ASSUME NEW h \in Helpers, Return(h) PROVE IType'
  BY <1>8, <1>t DEF Return, IType, Places, Phases, budgetVars, pool, flags, local, totals, tally, MoveTo, ReturnCredit
<1>9. ASSUME NEW h \in Helpers, Fail(h) PROVE IType'
  BY <1>9, <1>t DEF Fail, IType, Places, Phases, budgetVars, pool, flags, local, totals, tally, MoveTo
<1>10. ASSUME NEW h \in Helpers, Claim(h) PROVE IType'
  BY <1>10, <1>t DEF Claim, IType, Places, Phases, budgetVars, pool, flags, local, totals, tally, MoveTo
<1>11. ASSUME NEW h \in Helpers, Leave(h) PROVE IType'
  BY <1>11, <1>t DEF Leave, IType, Places, Phases, budgetVars, pool, flags, local, totals, tally, MoveTo
<1>12. ASSUME NEW h \in Helpers, Unwind(h) PROVE IType'
  BY <1>12, <1>t DEF Unwind, IType, Places, Phases, budgetVars, pool, flags, local, totals, tally, MoveTo, FlushAs
<1>13. CASE StartMate
  BY <1>13, <1>t DEF StartMate, IType, Places, Phases, budgetVars, pool, flags, local, totals, tally, MoveTo
<1>14. CASE SkipMate
  BY <1>14, <1>t DEF SkipMate, IType, Places, Phases, budgetVars, pool, flags, local, totals, tally
<1>15. CASE EndMate
  BY <1>15, <1>t DEF EndMate, IType, Places, Phases, budgetVars, pool, flags, local, totals, tally, MoveTo, ReturnCredit
<1>16. CASE EndMain
  BY <1>16, <1>t DEF EndMain, IType, Places, Phases, budgetVars, pool, flags, local, totals, tally, MoveTo, ReturnCredit
<1>17. CASE Stop
  BY <1>17, <1>t DEF Stop, IType, Places, Phases, budgetVars, pool, flags, local, totals, tally
<1>18. CASE Drain
  BY <1>18, <1>t DEF Drain, IType, Places, Phases, budgetVars, pool, flags, local, totals, tally
<1>19. CASE Abort
  BY <1>19, <1>t DEF Abort, IType, Places, Phases, budgetVars, pool, flags, local, totals, tally
<1>20. CASE UNCHANGED budgetVars
  BY <1>20, <1>t DEF IType, Places, Phases, budgetVars, pool, flags, local, totals, tally
<1> QED
  BY <1>1, <1>2, <1>3, <1>4, <1>5, <1>6, <1>7, <1>8, <1>9, <1>10, <1>11, <1>12, <1>13, <1>14, <1>15, <1>16, <1>17, <1>18, <1>19, <1>20 DEF BudgetNext, Visit, Helper, Controller

LEMMA PlacesStep == IType /\ IPlaces /\ [BudgetNext]_budgetVars => IPlaces'
<1> SUFFICES ASSUME IType, IPlaces, [BudgetNext]_budgetVars PROVE IPlaces'
  OBVIOUS
<1>t. /\ Contexts = Helpers \cup {Main, Mate} /\ Chunk \in Nat \ {0}
      /\ Main \notin Helpers /\ Mate \notin Helpers /\ Main # Mate
  BY ChunkType, BudgetAssumption DEF Contexts
<1>g. \A previous \in Int : GrantSize(previous) \in 0 .. Chunk
  BY <1>t, BudgetAssumption DEF GrantSize
<1>1. ASSUME NEW c \in Contexts, EndContext(c) PROVE IPlaces'
  BY <1>1, <1>t DEF EndContext, IType, IPlaces, Places, Phases, budgetVars, pool, flags, local, totals, tally, MoveTo, Runs
<1>2. ASSUME NEW c \in Contexts, PayFromCredit(c) PROVE IPlaces'
  BY <1>2, <1>t DEF PayFromCredit, IType, IPlaces, Places, Phases, budgetVars, pool, flags, local, totals, tally, Runs
<1>3. ASSUME NEW c \in Contexts, Ask(c) PROVE IPlaces'
  BY <1>3, <1>t DEF Ask, IType, IPlaces, Places, Phases, budgetVars, pool, flags, local, totals, tally, MoveTo, Runs
<1>4. ASSUME NEW c \in Contexts, Grant(c) PROVE IPlaces'
  BY <1>4, <1>g, <1>t DEF Grant, IType, IPlaces, Places, Phases, budgetVars, pool, flags, local, totals, tally, MoveTo
<1>5. ASSUME NEW c \in Contexts, GiveBack(c) PROVE IPlaces'
  BY <1>5, <1>t DEF GiveBack, IType, IPlaces, Places, Phases, budgetVars, pool, flags, local, totals, tally, MoveTo, Remainder
<1>6. ASSUME NEW c \in Contexts, Latch(c) PROVE IPlaces'
  BY <1>6, <1>t DEF Latch, IType, IPlaces, Places, Phases, budgetVars, pool, flags, local, totals, tally, MoveTo
<1>7. ASSUME NEW h \in Helpers, Flush(h) PROVE IPlaces'
  BY <1>7, <1>t DEF Flush, IType, IPlaces, Places, Phases, budgetVars, pool, flags, local, totals, tally, MoveTo, FlushAs
<1>8. ASSUME NEW h \in Helpers, Return(h) PROVE IPlaces'
  BY <1>8, <1>t DEF Return, IType, IPlaces, Places, Phases, budgetVars, pool, flags, local, totals, tally, MoveTo, ReturnCredit
<1>9. ASSUME NEW h \in Helpers, Fail(h) PROVE IPlaces'
  BY <1>9, <1>t DEF Fail, IType, IPlaces, Places, Phases, budgetVars, pool, flags, local, totals, tally, MoveTo
<1>10. ASSUME NEW h \in Helpers, Claim(h) PROVE IPlaces'
  BY <1>10, <1>t DEF Claim, IType, IPlaces, Places, Phases, budgetVars, pool, flags, local, totals, tally, MoveTo
<1>11. ASSUME NEW h \in Helpers, Leave(h) PROVE IPlaces'
  BY <1>11, <1>t DEF Leave, IType, IPlaces, Places, Phases, budgetVars, pool, flags, local, totals, tally, MoveTo
<1>12. ASSUME NEW h \in Helpers, Unwind(h) PROVE IPlaces'
  BY <1>12, <1>t DEF Unwind, IType, IPlaces, Places, Phases, budgetVars, pool, flags, local, totals, tally, MoveTo, FlushAs
<1>13. CASE StartMate
  BY <1>13, <1>t DEF StartMate, IType, IPlaces, Places, Phases, budgetVars, pool, flags, local, totals, tally, MoveTo
<1>14. CASE SkipMate
  BY <1>14, <1>t DEF SkipMate, IType, IPlaces, Places, Phases, budgetVars, pool, flags, local, totals, tally
<1>15. CASE EndMate
  BY <1>15, <1>t DEF EndMate, IType, IPlaces, Places, Phases, budgetVars, pool, flags, local, totals, tally, MoveTo, ReturnCredit
<1>16. CASE EndMain
  BY <1>16, <1>t DEF EndMain, IType, IPlaces, Places, Phases, budgetVars, pool, flags, local, totals, tally, MoveTo, ReturnCredit
<1>17. CASE Stop
  BY <1>17, <1>t DEF Stop, IType, IPlaces, Places, Phases, budgetVars, pool, flags, local, totals, tally
<1>18. CASE Drain
  BY <1>18, <1>t DEF Drain, IType, IPlaces, Places, Phases, budgetVars, pool, flags, local, totals, tally, HelpersJoined
<1>19. CASE Abort
  BY <1>19, <1>t DEF Abort, IType, IPlaces, Places, Phases, budgetVars, pool, flags, local, totals, tally
<1>20. CASE UNCHANGED budgetVars
  BY <1>20, <1>t DEF IType, IPlaces, Places, Phases, budgetVars, pool, flags, local, totals, tally
<1> QED
  BY <1>1, <1>2, <1>3, <1>4, <1>5, <1>6, <1>7, <1>8, <1>9, <1>10, <1>11, <1>12, <1>13, <1>14, <1>15, <1>16, <1>17, <1>18, <1>19, <1>20 DEF BudgetNext, Visit, Helper, Controller

-----------------------------------------------------------------------------
(* The pool. *)

LEMMA HeldType == IType => Held \in [Contexts -> 0 .. Chunk]
BY ChunkType DEF IType, Held

\* A step that touches the credit of one context changes the sums by as much.
LEMMA PoolChange ==
  ASSUME IType, IType', NEW c \in Contexts,
         \A d \in Contexts : d # c =>
           credit'[d] = credit[d] /\ (pc'[d] = "partial" <=> pc[d] = "partial")
  PROVE  /\ Sum(credit, Chunk)' = Sum(credit, Chunk) - credit[c] + credit'[c]
         /\ Sum(Held, Chunk)' = Sum(Held, Chunk) - Held[c] + Held'[c]
         /\ Sum(credit, Chunk) \in Nat /\ Sum(Held, Chunk) \in Nat
<1>1. Chunk \in Nat
  BY ChunkType
<1>2. credit \in [Contexts -> 0 .. Chunk] /\ credit' \in [Contexts -> 0 .. Chunk]
  BY DEF IType
<1>3. Held \in [Contexts -> 0 .. Chunk] /\ Held' \in [Contexts -> 0 .. Chunk]
  BY <1>1 DEF IType, Held
<1>4. \A d \in Contexts : d # c => Held'[d] = Held[d]
  BY DEF Held
<1>5. Sum(credit', Chunk) = Sum(credit, Chunk) - credit[c] + credit'[c]
  BY <1>1, <1>2, SumUpdate
<1>6. Sum(Held', Chunk) = Sum(Held, Chunk) - Held[c] + Held'[c]
  BY <1>1, <1>3, <1>4, SumUpdate
<1> QED
  BY <1>1, <1>5, <1>6, TokensFinite

\* A step that touches no credit leaves the pool as it was.
LEMMA PoolSame ==
  ASSUME IType, IPool, UNCHANGED <<credit, granted, paid>>,
         \A d \in Contexts : pc'[d] = "partial" <=> pc[d] = "partial"
  PROVE  IPool'
<1>1. Held' = Held
  BY DEF Held
<1>2. Sum(Held', Chunk) = Sum(Held, Chunk) /\ Sum(credit', Chunk) = Sum(credit, Chunk)
  BY <1>1
<1> QED
  BY <1>2 DEF IPool, PoolIsConserved

LEMMA PoolStep == IType /\ IPlaces /\ IPool /\ [BudgetNext]_budgetVars => IPool'
<1> SUFFICES ASSUME IType, IPlaces, IPool, [BudgetNext]_budgetVars PROVE IPool'
  OBVIOUS
<1> IType'
  BY TypeStep
<1>t. /\ Contexts = Helpers \cup {Main, Mate} /\ Chunk \in Nat \ {0}
      /\ Main \notin Helpers /\ Mate \notin Helpers /\ Main # Mate
  BY ChunkType, BudgetAssumption DEF Contexts
<1>g. \A previous \in Int : GrantSize(previous) \in 0 .. Chunk
  BY <1>t, BudgetAssumption DEF GrantSize
<1>m. Sum(credit, Chunk) <= Sum(Held, Chunk)
  <2>1. \A c \in Contexts : credit[c] <= Held[c]
    BY <1>t DEF IType, Held
  <2>2. credit \in [Contexts -> 0 .. Chunk]
    BY DEF IType
  <2> QED
    BY <2>1, <2>2, <1>t, HeldType, SumMonotone
<1>1. ASSUME NEW c \in Contexts, EndContext(c) PROVE IPool'
  BY <1>1, <1>t, PoolSame DEF EndContext, IType, IPlaces, Places, budgetVars, pool, flags, local, totals, tally, MoveTo
<1>2. ASSUME NEW c \in Contexts, PayFromCredit(c) PROVE IPool'
  <2>1. c \in Contexts
    BY <1>2, <1>t
  <2>2. /\ credit'[c] = credit[c] - 1 /\ Held[c] = credit[c] /\ Held'[c] = credit[c] - 1
        /\ granted' = granted /\ paid' = paid + 1
    BY <1>2, <2>1, <1>t DEF PayFromCredit, Held, IType, IPlaces, Places, budgetVars, pool, flags, local, totals, tally
  <2>3. \A d \in Contexts : d # c =>
          credit'[d] = credit[d] /\ (pc'[d] = "partial" <=> pc[d] = "partial")
    BY <1>2, <2>1 DEF PayFromCredit, IType, budgetVars, pool, flags, local, totals, tally
  <2>4. /\ Sum(credit, Chunk)' = Sum(credit, Chunk) - credit[c] + credit'[c]
        /\ Sum(Held, Chunk)' = Sum(Held, Chunk) - Held[c] + Held'[c]
        /\ Sum(credit, Chunk) \in Nat /\ Sum(Held, Chunk) \in Nat
    BY <2>1, <2>3, PoolChange
  <2>5. /\ credit[c] \in Nat /\ credit'[c] \in Nat /\ paid \in Nat /\ paid' \in Nat /\ granted \in Int
        /\ Held[c] \in Nat /\ Held'[c] \in Nat
    BY <1>t, <2>1, <2>2, HeldType DEF IType, Held
  <2> QED
    BY <2>2, <2>4, <2>5, <1>t, BudgetAssumption DEF IPool, PoolIsConserved
<1>3. ASSUME NEW c \in Contexts, Ask(c) PROVE IPool'
  BY <1>3, <1>t, PoolSame DEF Ask, IType, IPlaces, Places, budgetVars, pool, flags, local, totals, tally, MoveTo
<1>4. ASSUME NEW c \in Contexts, Grant(c) PROVE IPool'
  <2>1. c \in Contexts
    BY <1>4, <1>t
  <2>2. /\ Held[c] = 0 /\ credit[c] = 0 /\ granted' = granted + Chunk
        /\ paid' + Held'[c] = paid + Chunk
        /\ paid' + credit'[c] = paid + GrantSize(granted)
    BY <1>4, <2>1, <1>g, <1>t DEF Grant, Held, IType, IPlaces, Places, budgetVars, pool, flags, local, totals, tally, MoveTo
  <2>3. \A d \in Contexts : d # c =>
          credit'[d] = credit[d] /\ (pc'[d] = "partial" <=> pc[d] = "partial")
    BY <1>4, <2>1 DEF Grant, IType, budgetVars, pool, flags, local, totals, tally, MoveTo
  <2>4. /\ Sum(credit, Chunk)' = Sum(credit, Chunk) - credit[c] + credit'[c]
        /\ Sum(Held, Chunk)' = Sum(Held, Chunk) - Held[c] + Held'[c]
        /\ Sum(credit, Chunk) \in Nat /\ Sum(Held, Chunk) \in Nat
    BY <2>1, <2>3, PoolChange
  <2>5. /\ credit[c] \in Nat /\ credit'[c] \in Nat /\ paid \in Nat /\ paid' \in Nat /\ granted \in Int
        /\ Held[c] \in Nat /\ Held'[c] \in Nat
    BY <1>t, <2>1, <2>2, HeldType DEF IType, Held
  <2>6. GrantSize(granted) = 0 \/ GrantSize(granted) <= Budget - granted
    BY <1>t, <2>5, BudgetAssumption DEF GrantSize
  <2>7. GrantSize(granted) \in Nat /\ Budget \in Nat
    BY <1>g, <1>t, <2>5, BudgetAssumption
  <2>8. granted = paid + Sum(Held, Chunk) /\ paid + Sum(credit, Chunk) <= Budget
    BY DEF IPool, PoolIsConserved
  <2>9. paid' + Sum(credit, Chunk)' = paid + Sum(credit, Chunk) + GrantSize(granted)
    BY <2>2, <2>4, <2>5, <2>7
  <2>10. paid' + Sum(credit, Chunk)' <= Budget
    BY <2>4, <2>5, <2>6, <2>7, <2>8, <2>9, <1>m
  <2>11. granted' = paid' + Sum(Held, Chunk)'
    BY <2>2, <2>4, <2>5, <2>8, <1>t
  <2> QED
    BY <2>10, <2>11 DEF IPool, PoolIsConserved
<1>5. ASSUME NEW c \in Contexts, GiveBack(c) PROVE IPool'
  <2>1. c \in Contexts
    BY <1>5, <1>t
  <2>2. /\ Held[c] = Chunk /\ Held'[c] = credit'[c]
        /\ granted' = granted - (Chunk - credit[c])
        /\ paid' + credit'[c] = paid + credit[c]
    BY <1>5, <2>1, <1>t DEF GiveBack, Held, IType, IPlaces, Places, budgetVars, pool, flags, local, totals, tally, MoveTo, Remainder
  <2>3. \A d \in Contexts : d # c =>
          credit'[d] = credit[d] /\ (pc'[d] = "partial" <=> pc[d] = "partial")
    BY <1>5, <2>1 DEF GiveBack, IType, budgetVars, pool, flags, local, totals, tally, MoveTo, Remainder
  <2>4. /\ Sum(credit, Chunk)' = Sum(credit, Chunk) - credit[c] + credit'[c]
        /\ Sum(Held, Chunk)' = Sum(Held, Chunk) - Held[c] + Held'[c]
        /\ Sum(credit, Chunk) \in Nat /\ Sum(Held, Chunk) \in Nat
    BY <2>1, <2>3, PoolChange
  <2>5. /\ credit[c] \in Nat /\ credit'[c] \in Nat /\ paid \in Nat /\ paid' \in Nat /\ granted \in Int
        /\ Held[c] \in Nat /\ Held'[c] \in Nat
    BY <1>t, <2>1, <2>2, HeldType DEF IType, Held
  <2> QED
    BY <2>2, <2>4, <2>5, <1>t, BudgetAssumption DEF IPool, PoolIsConserved
<1>6. ASSUME NEW c \in Contexts, Latch(c) PROVE IPool'
  BY <1>6, <1>t, PoolSame DEF Latch, IType, IPlaces, Places, budgetVars, pool, flags, local, totals, tally, MoveTo
<1>7. ASSUME NEW h \in Helpers, Flush(h) PROVE IPool'
  BY <1>7, <1>t, PoolSame DEF Flush, IType, IPlaces, Places, budgetVars, pool, flags, local, totals, tally, MoveTo, FlushAs
<1>8. ASSUME NEW h \in Helpers, Return(h) PROVE IPool'
  <2>1. h \in Contexts
    BY <1>8, <1>t
  <2>2. /\ credit'[h] = 0 /\ Held[h] = credit[h] /\ Held'[h] = 0
        /\ granted' = granted - credit[h] /\ paid' = paid
    BY <1>8, <2>1, <1>t DEF Return, Held, IType, IPlaces, Places, budgetVars, pool, flags, local, totals, tally, MoveTo, ReturnCredit
  <2>3. \A d \in Contexts : d # h =>
          credit'[d] = credit[d] /\ (pc'[d] = "partial" <=> pc[d] = "partial")
    BY <1>8, <2>1 DEF Return, IType, budgetVars, pool, flags, local, totals, tally, MoveTo, ReturnCredit
  <2>4. /\ Sum(credit, Chunk)' = Sum(credit, Chunk) - credit[h] + credit'[h]
        /\ Sum(Held, Chunk)' = Sum(Held, Chunk) - Held[h] + Held'[h]
        /\ Sum(credit, Chunk) \in Nat /\ Sum(Held, Chunk) \in Nat
    BY <2>1, <2>3, PoolChange
  <2>5. /\ credit[h] \in Nat /\ credit'[h] \in Nat /\ paid \in Nat /\ paid' \in Nat /\ granted \in Int
        /\ Held[h] \in Nat /\ Held'[h] \in Nat
    BY <1>t, <2>1, <2>2, HeldType DEF IType, Held
  <2> QED
    BY <2>2, <2>4, <2>5, <1>t, BudgetAssumption DEF IPool, PoolIsConserved
<1>9. ASSUME NEW h \in Helpers, Fail(h) PROVE IPool'
  BY <1>9, <1>t, PoolSame DEF Fail, IType, IPlaces, Places, budgetVars, pool, flags, local, totals, tally, MoveTo
<1>10. ASSUME NEW h \in Helpers, Claim(h) PROVE IPool'
  BY <1>10, <1>t, PoolSame DEF Claim, IType, IPlaces, Places, budgetVars, pool, flags, local, totals, tally, MoveTo
<1>11. ASSUME NEW h \in Helpers, Leave(h) PROVE IPool'
  BY <1>11, <1>t, PoolSame DEF Leave, IType, IPlaces, Places, budgetVars, pool, flags, local, totals, tally, MoveTo
<1>12. ASSUME NEW h \in Helpers, Unwind(h) PROVE IPool'
  BY <1>12, <1>t, PoolSame DEF Unwind, IType, IPlaces, Places, budgetVars, pool, flags, local, totals, tally, MoveTo, FlushAs
<1>13. CASE StartMate
  BY <1>13, <1>t, PoolSame DEF StartMate, IType, IPlaces, Places, budgetVars, pool, flags, local, totals, tally, MoveTo
<1>14. CASE SkipMate
  BY <1>14, <1>t, PoolSame DEF SkipMate, IType, IPlaces, Places, budgetVars, pool, flags, local, totals, tally
<1>15. CASE EndMate
  <2>1. Mate \in Contexts
    BY <1>15, <1>t
  <2>2. /\ credit'[Mate] = 0 /\ Held[Mate] = credit[Mate] /\ Held'[Mate] = 0
        /\ granted' = granted - credit[Mate] /\ paid' = paid
    BY <1>15, <2>1, <1>t DEF EndMate, Held, IType, IPlaces, Places, budgetVars, pool, flags, local, totals, tally, MoveTo, ReturnCredit
  <2>3. \A d \in Contexts : d # Mate =>
          credit'[d] = credit[d] /\ (pc'[d] = "partial" <=> pc[d] = "partial")
    BY <1>15, <2>1 DEF EndMate, IType, budgetVars, pool, flags, local, totals, tally, MoveTo, ReturnCredit
  <2>4. /\ Sum(credit, Chunk)' = Sum(credit, Chunk) - credit[Mate] + credit'[Mate]
        /\ Sum(Held, Chunk)' = Sum(Held, Chunk) - Held[Mate] + Held'[Mate]
        /\ Sum(credit, Chunk) \in Nat /\ Sum(Held, Chunk) \in Nat
    BY <2>1, <2>3, PoolChange
  <2>5. /\ credit[Mate] \in Nat /\ credit'[Mate] \in Nat /\ paid \in Nat /\ paid' \in Nat /\ granted \in Int
        /\ Held[Mate] \in Nat /\ Held'[Mate] \in Nat
    BY <1>t, <2>1, <2>2, HeldType DEF IType, Held
  <2> QED
    BY <2>2, <2>4, <2>5, <1>t, BudgetAssumption DEF IPool, PoolIsConserved
<1>16. CASE EndMain
  <2>1. Main \in Contexts
    BY <1>16, <1>t
  <2>2. /\ credit'[Main] = 0 /\ Held[Main] = credit[Main] /\ Held'[Main] = 0
        /\ granted' = granted - credit[Main] /\ paid' = paid
    BY <1>16, <2>1, <1>t DEF EndMain, Held, IType, IPlaces, Places, budgetVars, pool, flags, local, totals, tally, MoveTo, ReturnCredit
  <2>3. \A d \in Contexts : d # Main =>
          credit'[d] = credit[d] /\ (pc'[d] = "partial" <=> pc[d] = "partial")
    BY <1>16, <2>1 DEF EndMain, IType, budgetVars, pool, flags, local, totals, tally, MoveTo, ReturnCredit
  <2>4. /\ Sum(credit, Chunk)' = Sum(credit, Chunk) - credit[Main] + credit'[Main]
        /\ Sum(Held, Chunk)' = Sum(Held, Chunk) - Held[Main] + Held'[Main]
        /\ Sum(credit, Chunk) \in Nat /\ Sum(Held, Chunk) \in Nat
    BY <2>1, <2>3, PoolChange
  <2>5. /\ credit[Main] \in Nat /\ credit'[Main] \in Nat /\ paid \in Nat /\ paid' \in Nat /\ granted \in Int
        /\ Held[Main] \in Nat /\ Held'[Main] \in Nat
    BY <1>t, <2>1, <2>2, HeldType DEF IType, Held
  <2> QED
    BY <2>2, <2>4, <2>5, <1>t, BudgetAssumption DEF IPool, PoolIsConserved
<1>17. CASE Stop
  BY <1>17, <1>t, PoolSame DEF Stop, IType, IPlaces, Places, budgetVars, pool, flags, local, totals, tally
<1>18. CASE Drain
  BY <1>18, <1>t, PoolSame DEF Drain, IType, IPlaces, Places, budgetVars, pool, flags, local, totals, tally
<1>19. CASE Abort
  BY <1>19, <1>t, PoolSame DEF Abort, IType, IPlaces, Places, budgetVars, pool, flags, local, totals, tally
<1>20. CASE UNCHANGED budgetVars
  BY <1>20, <1>t, PoolSame DEF IType, IPlaces, Places, budgetVars, pool, flags, local, totals, tally
<1> QED
  BY <1>1, <1>2, <1>3, <1>4, <1>5, <1>6, <1>7, <1>8, <1>9, <1>10, <1>11, <1>12, <1>13, <1>14, <1>15, <1>16, <1>17, <1>18, <1>19, <1>20 DEF BudgetNext, Visit, Helper, Controller

-----------------------------------------------------------------------------
(* The visited nodes. *)

\* At most one context of each thread is waiting for its credit.
LEMMA PendingPlaces ==
  IType /\ IPlaces => Pending \in SUBSET {Mate} \/ Pending \in SUBSET (Helpers \cup {Main})
<1> SUFFICES ASSUME IType, IPlaces
             PROVE  Pending \in SUBSET {Mate} \/ Pending \in SUBSET (Helpers \cup {Main})
  OBVIOUS
<1>1. CASE phase = "mate"
  BY <1>1 DEF Pending, IPlaces, Contexts
<1>2. CASE phase # "mate"
  BY <1>2 DEF Pending, IPlaces, Contexts
<1> QED
  BY <1>1, <1>2

LEMMA ThreadsBound ==
  ASSUME NEW S, S \in SUBSET {Mate} \/ S \in SUBSET (Helpers \cup {Main})
  PROVE  /\ IsFiniteSet(S) /\ Cardinality(S) \in Nat
         /\ Cardinality(S) <= Cardinality(Helpers) + 1
<1>1. IsFiniteSet({Mate}) /\ Cardinality({Mate}) = 1
  BY FS_Singleton
<1>2. CASE S \in SUBSET {Mate}
  BY <1>1, <1>2, ContextsFinite, FS_Subset, FS_CardinalityType
<1>3. CASE S \in SUBSET (Helpers \cup {Main})
  BY <1>3, ContextsFinite, FS_Subset, FS_CardinalityType
<1> QED
  BY <1>2, <1>3

LEMMA VisitsSame ==
  ASSUME IVisits, UNCHANGED <<visited, paid, exhausted>>,
         \A d \in Contexts : nodes'[d] = nodes[d] \/ nodes'[d] = 0,
         visited \in Nat,
         \A d \in Contexts :
           pc'[d] \in {"asking", "partial", "refused"} <=> pc[d] \in {"asking", "partial", "refused"}
  PROVE  IVisits'
<1>1. Pending' = Pending
  BY DEF Pending
<1> QED
  BY <1>1 DEF IVisits

LEMMA VisitsStep == IType /\ IPlaces /\ IVisits /\ [BudgetNext]_budgetVars => IVisits'
<1> SUFFICES ASSUME IType, IPlaces, IVisits, [BudgetNext]_budgetVars PROVE IVisits'
  OBVIOUS
<1> IType' /\ IPlaces'
  BY TypeStep, PlacesStep
<1>t. /\ Contexts = Helpers \cup {Main, Mate}
      /\ Main \notin Helpers /\ Mate \notin Helpers /\ Main # Mate
  BY BudgetAssumption DEF Contexts
<1>f. /\ IsFiniteSet(Pending) /\ Cardinality(Pending) \in Nat
      /\ Cardinality(Helpers) \in Nat
  BY PendingPlaces, ThreadsBound, ContextsFinite
<1>p. Pending' \in SUBSET {Mate} \/ Pending' \in SUBSET (Helpers \cup {Main})
  <2>1. CASE phase' = "mate"
    BY <2>1 DEF Pending, IPlaces, Contexts
  <2>2. CASE phase' # "mate"
    BY <2>2 DEF Pending, IPlaces, Contexts
  <2> QED
    BY <2>1, <2>2
<1>b. Cardinality(Pending)' \in Nat /\ Cardinality(Pending)' <= Cardinality(Helpers) + 1
  BY <1>p, ThreadsBound
<1>1. ASSUME NEW c \in Contexts, EndContext(c) PROVE IVisits'
  BY <1>1, <1>t, VisitsSame DEF EndContext, IType, IPlaces, Places, budgetVars, pool, flags, local, totals, tally, MoveTo
<1>2. ASSUME NEW c \in Contexts, PayFromCredit(c) PROVE IVisits'
  <2>1. /\ visited' = visited + 1 /\ paid' = paid + 1
        /\ exhausted' = exhausted /\ Pending' = Pending
    BY <1>2 DEF Pending, PayFromCredit, IType, IPlaces, Places, budgetVars, pool, flags, local, totals, tally
  <2>2. \A d \in Contexts : nodes'[d] <= visited'
    BY <1>2, <2>1 DEF IVisits, PayFromCredit, IType, IPlaces, Places, budgetVars, pool, flags, local, totals, tally
  <2> QED
    BY <2>1, <2>2, <1>f, <1>b DEF IVisits, IType
<1>3. ASSUME NEW c \in Contexts, Ask(c) PROVE IVisits'
  <2>1. /\ visited' = visited + 1 /\ paid' = paid
        /\ ~exhausted /\ ~exhausted'
    BY <1>3 DEF MustEnd, ShouldAbort, Ask, IType, IPlaces, Places, budgetVars, pool, flags, local, totals, tally, MoveTo
  <2>2. Pending' = Pending \cup {c} /\ c \notin Pending
    BY <1>3 DEF Pending, Ask, IType, IPlaces, Places, budgetVars, pool, flags, local, totals, tally, MoveTo
  <2>3. Cardinality(Pending)' = Cardinality(Pending) + 1
    BY <2>2, <1>f, FS_AddElement
  <2>4. \A d \in Contexts : nodes'[d] <= visited'
    BY <1>3, <2>1 DEF IVisits, Ask, IType, IPlaces, Places, budgetVars, pool, flags, local, totals, tally, MoveTo
  <2> QED
    BY <2>1, <2>3, <2>4, <1>f, <1>b DEF IVisits, IType
<1>4. ASSUME NEW c \in Contexts, Grant(c) PROVE IVisits'
  <2>1. /\ UNCHANGED <<visited, exhausted, nodes>>
        /\ \/ paid' = paid + 1 /\ Pending' = Pending \ {c} /\ c \in Pending
           \/ paid' = paid /\ Pending' = Pending
    BY <1>4 DEF Pending, Grant, IType, IPlaces, Places, budgetVars, pool, flags, local, totals, tally, MoveTo
  <2>2. \/ paid' = paid + 1 /\ Cardinality(Pending)' = Cardinality(Pending) - 1
        \/ paid' = paid /\ Cardinality(Pending)' = Cardinality(Pending)
    BY <2>1, <1>f, FS_RemoveElement
  <2> QED
    BY <2>1, <2>2, <1>f, <1>b DEF IVisits, IType
<1>5. ASSUME NEW c \in Contexts, GiveBack(c) PROVE IVisits'
  <2>1. /\ UNCHANGED <<visited, exhausted, nodes>>
        /\ \/ paid' = paid + 1 /\ Pending' = Pending \ {c} /\ c \in Pending
           \/ paid' = paid /\ Pending' = Pending
    BY <1>5 DEF Pending, GiveBack, IType, IPlaces, Places, budgetVars, pool, flags, local, totals, tally, MoveTo, Remainder
  <2>2. \/ paid' = paid + 1 /\ Cardinality(Pending)' = Cardinality(Pending) - 1
        \/ paid' = paid /\ Cardinality(Pending)' = Cardinality(Pending)
    BY <2>1, <1>f, FS_RemoveElement
  <2> QED
    BY <2>1, <2>2, <1>f, <1>b DEF IVisits, IType
<1>6. ASSUME NEW c \in Contexts, Latch(c) PROVE IVisits'
  <2>1. exhausted' = TRUE /\ UNCHANGED <<visited, paid, nodes>>
    BY <1>6 DEF Latch, IType, IPlaces, Places, budgetVars, pool, flags, local, totals, tally, MoveTo
  <2> QED
    BY <2>1 DEF IVisits
<1>7. ASSUME NEW h \in Helpers, Flush(h) PROVE IVisits'
  BY <1>7, <1>t, VisitsSame DEF Flush, IType, IPlaces, Places, budgetVars, pool, flags, local, totals, tally, MoveTo, FlushAs
<1>8. ASSUME NEW h \in Helpers, Return(h) PROVE IVisits'
  <2>1. nodes'[h] = 0 /\ UNCHANGED <<visited, paid, exhausted>>
    BY <1>8, <1>t DEF Return, IType, IPlaces, Places, budgetVars, pool, flags, local, totals, tally, MoveTo, ReturnCredit
  <2>2. \A d \in Contexts : nodes'[d] = nodes[d] \/ nodes'[d] = 0
    BY <1>8, <1>t DEF Pending, Return, IType, IPlaces, Places, budgetVars, pool, flags, local, totals, tally, MoveTo, ReturnCredit
  <2> QED
    BY <1>8, <1>t, <2>1, <2>2, VisitsSame
       DEF Return, IType, Places, MoveTo, ReturnCredit
<1>9. ASSUME NEW h \in Helpers, Fail(h) PROVE IVisits'
  BY <1>9, <1>t, VisitsSame DEF Fail, IType, IPlaces, Places, budgetVars, pool, flags, local, totals, tally, MoveTo
<1>10. ASSUME NEW h \in Helpers, Claim(h) PROVE IVisits'
  BY <1>10, <1>t, VisitsSame DEF Claim, IType, IPlaces, Places, budgetVars, pool, flags, local, totals, tally, MoveTo
<1>11. ASSUME NEW h \in Helpers, Leave(h) PROVE IVisits'
  BY <1>11, <1>t, VisitsSame DEF Leave, IType, IPlaces, Places, budgetVars, pool, flags, local, totals, tally, MoveTo
<1>12. ASSUME NEW h \in Helpers, Unwind(h) PROVE IVisits'
  BY <1>12, <1>t, VisitsSame DEF Unwind, IType, IPlaces, Places, budgetVars, pool, flags, local, totals, tally, MoveTo, FlushAs
<1>13. CASE StartMate
  BY <1>13, <1>t, VisitsSame DEF StartMate, IType, IPlaces, Places, budgetVars, pool, flags, local, totals, tally, MoveTo
<1>14. CASE SkipMate
  BY <1>14, <1>t, VisitsSame DEF SkipMate, IType, IPlaces, Places, budgetVars, pool, flags, local, totals, tally
<1>15. CASE EndMate
  <2>1. /\ UNCHANGED <<visited, paid, exhausted>>
        /\ nodes'[Main] = nodes[Mate] /\ nodes'[Mate] = 0
        /\ \A d \in Helpers : nodes'[d] = nodes[d]
    BY <1>15, <1>t DEF EndMate, IType, IPlaces, Places, budgetVars, pool, flags, local, totals, tally, MoveTo, ReturnCredit
  <2>2. \A d \in Contexts : nodes'[d] <= visited'
    BY <2>1, <1>t DEF IVisits, IType
  <2>3. Pending' = Pending
    BY <1>15, <1>t DEF Pending, EndMate, IType, IPlaces, Places, budgetVars, pool, flags, local, totals, tally, MoveTo, ReturnCredit
  <2> QED
    BY <2>1, <2>2, <2>3 DEF IVisits
<1>16. CASE EndMain
  BY <1>16, <1>t, VisitsSame DEF EndMain, IType, IPlaces, Places, budgetVars, pool, flags, local, totals, tally, MoveTo, ReturnCredit
<1>17. CASE Stop
  BY <1>17, <1>t, VisitsSame DEF Stop, IType, IPlaces, Places, budgetVars, pool, flags, local, totals, tally
<1>18. CASE Drain
  BY <1>18, <1>t, VisitsSame DEF Drain, IType, IPlaces, Places, budgetVars, pool, flags, local, totals, tally
<1>19. CASE Abort
  BY <1>19, <1>t, VisitsSame DEF Abort, IType, IPlaces, Places, budgetVars, pool, flags, local, totals, tally
<1>20. CASE UNCHANGED budgetVars
  BY <1>20, <1>t, VisitsSame DEF IType, IPlaces, Places, budgetVars, pool, flags, local, totals, tally
<1> QED
  BY <1>1, <1>2, <1>3, <1>4, <1>5, <1>6, <1>7, <1>8, <1>9, <1>10, <1>11, <1>12, <1>13, <1>14, <1>15, <1>16, <1>17, <1>18, <1>19, <1>20 DEF BudgetNext, Visit, Helper, Controller

-----------------------------------------------------------------------------
(* The credit left unspent. *)

\* While one context asks for credit, only the other threads hold any.
LEMMA HeldByOthers ==
  ASSUME IType, IPlaces, NEW c \in Contexts, pc[c] = "asking"
  PROVE  Sum(Held, Chunk) <= Cardinality(Helpers) * Chunk
<1>t. /\ Contexts = Helpers \cup {Main, Mate} /\ Chunk \in Nat \ {0}
      /\ Main \notin Helpers /\ Mate \notin Helpers /\ Main # Mate
      /\ Cardinality(Helpers) \in Nat
  BY ChunkType, BudgetAssumption, ContextsFinite DEF Contexts
<1>h. Held \in [Contexts -> 0 .. Chunk]
  BY HeldType
<1>1. CASE phase = "mate"
  <2>1. \A d \in Contexts : Held[d] = 0
    BY <1>1, <1>t DEF IPlaces, Held
  <2>2. Sum(Held, Chunk) = 0
    BY <2>1, <1>t, <1>h, SumZero
  <2>3. Cardinality(Helpers) * Chunk >= 0
    BY <1>t
  <2> QED
    BY <2>2, <2>3
<1>2. CASE phase # "mate"
  <2> DEFINE S == (Helpers \cup {Main}) \ {c}
  <2>1. c \in Helpers \cup {Main}
    BY <1>2, <1>t DEF IPlaces
  <2>2. IsFiniteSet(S) /\ Cardinality(S) = Cardinality(Helpers)
    BY <2>1, <1>t, ContextsFinite, FS_RemoveElement
  <2>3. \A d \in Contexts : d \notin S => Held[d] = 0
    BY <1>2, <1>t DEF IPlaces, Held
  <2> HIDE DEF S
  <2>4. Sum(Held, Chunk) <= Cardinality(S) * Chunk
    BY <2>2, <2>3, <1>t, <1>h, SumBound
  <2> QED
    BY <2>2, <2>4
<1> QED
  BY <1>1, <1>2

LEMMA UndershootSame ==
  ASSUME IUndershoot, paid \in Nat, paid' \in Nat, paid' >= paid,
         exhausted' \/ (\E d \in Contexts : Refused(d)')
           => exhausted \/ (\E d \in Contexts : Refused(d))
  PROVE  IUndershoot'
<1>1. Chunk * Cardinality(Helpers) \in Nat
  BY ChunkType, ContextsFinite
<1> QED
  BY <1>1, BudgetAssumption DEF IUndershoot

LEMMA UndershootStep == IType /\ IPlaces /\ IPool /\ IUndershoot /\ [BudgetNext]_budgetVars => IUndershoot'
<1> SUFFICES ASSUME IType, IPlaces, IPool, IUndershoot, [BudgetNext]_budgetVars PROVE IUndershoot'
  OBVIOUS
<1> IType'
  BY TypeStep
<1>t. /\ Contexts = Helpers \cup {Main, Mate} /\ Chunk \in Nat \ {0}
      /\ Main \notin Helpers /\ Mate \notin Helpers /\ Main # Mate
  BY ChunkType, BudgetAssumption DEF Contexts
<1>1. ASSUME NEW c \in Contexts, EndContext(c) PROVE IUndershoot'
  BY <1>1, <1>t, UndershootSame DEF Refused, EndContext, IType, IPlaces, Places, budgetVars, pool, flags, local, totals, tally, MoveTo
<1>2. ASSUME NEW c \in Contexts, PayFromCredit(c) PROVE IUndershoot'
  BY <1>2, <1>t, UndershootSame DEF Refused, PayFromCredit, IType, IPlaces, Places, budgetVars, pool, flags, local, totals, tally
<1>3. ASSUME NEW c \in Contexts, Ask(c) PROVE IUndershoot'
  BY <1>3, <1>t, UndershootSame DEF Refused, Ask, IType, IPlaces, Places, budgetVars, pool, flags, local, totals, tally, MoveTo
<1>4. ASSUME NEW c \in Contexts, Grant(c) PROVE IUndershoot'
  <2>1. c \in Contexts /\ pc[c] = "asking" /\ credit[c] = 0 /\ paid' >= paid
    BY <1>4 DEF Grant, IType, IPlaces
  <2>2. CASE GrantSize(granted) # 0
    <3>1. ~Refused(c)'
      BY <1>4, <2>1, <2>2, <1>t DEF Refused, Grant, IType, MoveTo
    <3>2. \A d \in Contexts : d # c => (Refused(d)' <=> Refused(d))
      BY <1>4, <2>1 DEF Refused, Grant, IType, MoveTo
    <3>3. exhausted' = exhausted
      BY <1>4 DEF Grant
    <3> QED
      BY <2>1, <3>1, <3>2, <3>3, UndershootSame DEF IType
  <2>3. CASE GrantSize(granted) = 0
    <3>1. granted >= Budget
      BY <2>3, <1>t, BudgetAssumption DEF GrantSize, IType
    <3>2. Sum(Held, Chunk) <= Cardinality(Helpers) * Chunk
      BY <2>1, HeldByOthers
    <3>3. paid + Sum(Held, Chunk) >= Budget /\ Sum(Held, Chunk) \in Nat
      BY <3>1, <1>t, TokensFinite DEF IPool, PoolIsConserved
    <3>4. paid + Cardinality(Helpers) * Chunk >= Budget
      BY <3>2, <3>3, <1>t, ContextsFinite, BudgetAssumption DEF IType
    <3>5. Cardinality(Helpers) * Chunk = Chunk * Cardinality(Helpers)
      BY <1>t, ContextsFinite
    <3>6. Chunk * Cardinality(Helpers) \in Nat
      BY <1>t, ContextsFinite
    <3> QED
      BY <2>1, <3>4, <3>5, <3>6, BudgetAssumption DEF IUndershoot, IType
  <2> QED
    BY <2>2, <2>3
<1>5. ASSUME NEW c \in Contexts, GiveBack(c) PROVE IUndershoot'
  BY <1>5, <1>t, UndershootSame DEF Refused, GiveBack, IType, IPlaces, Places, budgetVars, pool, flags, local, totals, tally, MoveTo, Remainder
<1>6. ASSUME NEW c \in Contexts, Latch(c) PROVE IUndershoot'
  BY <1>6, <1>t, UndershootSame DEF Refused, Latch, IType, IPlaces, Places, budgetVars, pool, flags, local, totals, tally, MoveTo
<1>7. ASSUME NEW h \in Helpers, Flush(h) PROVE IUndershoot'
  BY <1>7, <1>t, UndershootSame DEF Refused, Flush, IType, IPlaces, Places, budgetVars, pool, flags, local, totals, tally, MoveTo, FlushAs
<1>8. ASSUME NEW h \in Helpers, Return(h) PROVE IUndershoot'
  BY <1>8, <1>t, UndershootSame DEF Refused, Return, IType, IPlaces, Places, budgetVars, pool, flags, local, totals, tally, MoveTo, ReturnCredit
<1>9. ASSUME NEW h \in Helpers, Fail(h) PROVE IUndershoot'
  BY <1>9, <1>t, UndershootSame DEF Refused, Fail, IType, IPlaces, Places, budgetVars, pool, flags, local, totals, tally, MoveTo
<1>10. ASSUME NEW h \in Helpers, Claim(h) PROVE IUndershoot'
  BY <1>10, <1>t, UndershootSame DEF Refused, Claim, IType, IPlaces, Places, budgetVars, pool, flags, local, totals, tally, MoveTo
<1>11. ASSUME NEW h \in Helpers, Leave(h) PROVE IUndershoot'
  BY <1>11, <1>t, UndershootSame DEF Refused, Leave, IType, IPlaces, Places, budgetVars, pool, flags, local, totals, tally, MoveTo
<1>12. ASSUME NEW h \in Helpers, Unwind(h) PROVE IUndershoot'
  BY <1>12, <1>t, UndershootSame DEF Refused, Unwind, IType, IPlaces, Places, budgetVars, pool, flags, local, totals, tally, MoveTo, FlushAs
<1>13. CASE StartMate
  BY <1>13, <1>t, UndershootSame DEF Refused, StartMate, IType, IPlaces, Places, budgetVars, pool, flags, local, totals, tally, MoveTo
<1>14. CASE SkipMate
  BY <1>14, <1>t, UndershootSame DEF Refused, SkipMate, IType, IPlaces, Places, budgetVars, pool, flags, local, totals, tally
<1>15. CASE EndMate
  BY <1>15, <1>t, UndershootSame DEF Refused, EndMate, IType, IPlaces, Places, budgetVars, pool, flags, local, totals, tally, MoveTo, ReturnCredit
<1>16. CASE EndMain
  BY <1>16, <1>t, UndershootSame DEF Refused, EndMain, IType, IPlaces, Places, budgetVars, pool, flags, local, totals, tally, MoveTo, ReturnCredit
<1>17. CASE Stop
  BY <1>17, <1>t, UndershootSame DEF Refused, Stop, IType, IPlaces, Places, budgetVars, pool, flags, local, totals, tally
<1>18. CASE Drain
  BY <1>18, <1>t, UndershootSame DEF Refused, Drain, IType, IPlaces, Places, budgetVars, pool, flags, local, totals, tally
<1>19. CASE Abort
  BY <1>19, <1>t, UndershootSame DEF Refused, Abort, IType, IPlaces, Places, budgetVars, pool, flags, local, totals, tally
<1>20. CASE UNCHANGED budgetVars
  BY <1>20, <1>t, UndershootSame DEF Refused, IType, IPlaces, Places, budgetVars, pool, flags, local, totals, tally
<1> QED
  BY <1>1, <1>2, <1>3, <1>4, <1>5, <1>6, <1>7, <1>8, <1>9, <1>10, <1>11, <1>12, <1>13, <1>14, <1>15, <1>16, <1>17, <1>18, <1>19, <1>20 DEF BudgetNext, Visit, Helper, Controller

-----------------------------------------------------------------------------
(* The reported total. *)

LEMMA UnflushedType ==
  ASSUME NEW n \in Nat, NEW p, NEW f \in [Contexts -> Nat], NEW v \in Nat,
         \A c \in Contexts : f[c] <= v, v <= n
  PROVE  [c \in Contexts |-> IF p[c] \in {"returning", "unwinding"} THEN 0 ELSE f[c]]
           \in [Contexts -> 0 .. n]
OBVIOUS

LEMMA ReportSame ==
  ASSUME IReport, UNCHANGED <<visited, helperNodes, reported>>,
         phase' = phase \/ phase' # "done",
         \A d \in Contexts : Unflushed'[d] = Unflushed[d]
  PROVE  IReport'
<1>1. Unflushed' = Unflushed
  BY DEF Unflushed
<1> QED
  BY <1>1 DEF IReport, MostVisits

LEMMA ReportStep ==
  IType /\ IPlaces /\ IPool /\ IVisits /\ IReport /\ [BudgetNext]_budgetVars => IReport'
<1> SUFFICES ASSUME IType, IPlaces, IPool, IVisits, IReport, [BudgetNext]_budgetVars PROVE IReport'
  OBVIOUS
<1> IType' /\ IPlaces' /\ IPool' /\ IVisits'
  BY TypeStep, PlacesStep, PoolStep, VisitsStep
<1>t. /\ Contexts = Helpers \cup {Main, Mate}
      /\ Main \notin Helpers /\ Mate \notin Helpers /\ Main # Mate
      /\ MostVisits \in Nat
  BY BudgetAssumption, ContextsFinite DEF Contexts, MostVisits
<1>c. Sum(credit, Chunk) \in Nat /\ Sum(credit', Chunk) \in Nat
  BY ChunkType, TokensFinite
<1>v. visited <= MostVisits /\ visited' <= MostVisits
  BY <1>c, ContextsFinite, BudgetAssumption
     DEF IPool, PoolIsConserved, IVisits, IType, MostVisits
<1>u. /\ MostVisits \in Nat
      /\ Unflushed \in [Contexts -> 0 .. MostVisits]
      /\ Unflushed' \in [Contexts -> 0 .. MostVisits]
  BY <1>t, <1>v, UnflushedType DEF Unflushed, IType, IVisits
<1>1. ASSUME NEW c \in Contexts, EndContext(c) PROVE IReport'
  <2>1. /\ UNCHANGED <<visited, helperNodes, reported>> /\ (phase' = phase \/ phase' # "done")
        /\ \A d \in Contexts : Unflushed'[d] = Unflushed[d]
    BY <1>1, <1>t DEF Unflushed, EndContext, IType, IPlaces, Places, budgetVars, pool, flags, local, totals, tally, MoveTo
  <2> QED
    BY <2>1, ReportSame
<1>2. ASSUME NEW c \in Contexts, PayFromCredit(c) PROVE IReport'
  <2>1. /\ visited' = visited + 1 /\ helperNodes' = helperNodes /\ phase # "done" /\ phase' = phase
        /\ Unflushed'[c] = Unflushed[c] + 1
        /\ \A d \in Contexts : d # c => Unflushed'[d] = Unflushed[d]
    BY <1>2, <1>t DEF Unflushed, PayFromCredit, IType, IPlaces, Places, budgetVars, pool, flags, local, totals, tally
  <2>2. Sum(Unflushed', MostVisits) = Sum(Unflushed, MostVisits) - Unflushed[c] + Unflushed'[c]
    BY <2>1, <1>u, SumUpdate
  <2>3. Unflushed[c] \in Nat /\ Sum(Unflushed, MostVisits) \in Nat
    BY <1>u, TokensFinite
  <2> QED
    BY <2>1, <2>2, <2>3, <1>t DEF IReport, IType, MostVisits
<1>3. ASSUME NEW c \in Contexts, Ask(c) PROVE IReport'
  <2>1. /\ visited' = visited + 1 /\ helperNodes' = helperNodes /\ phase # "done" /\ phase' = phase
        /\ Unflushed'[c] = Unflushed[c] + 1
        /\ \A d \in Contexts : d # c => Unflushed'[d] = Unflushed[d]
    BY <1>3, <1>t DEF Unflushed, Ask, IType, IPlaces, Places, budgetVars, pool, flags, local, totals, tally, MoveTo
  <2>2. Sum(Unflushed', MostVisits) = Sum(Unflushed, MostVisits) - Unflushed[c] + Unflushed'[c]
    BY <2>1, <1>u, SumUpdate
  <2>3. Unflushed[c] \in Nat /\ Sum(Unflushed, MostVisits) \in Nat
    BY <1>u, TokensFinite
  <2> QED
    BY <2>1, <2>2, <2>3, <1>t DEF IReport, IType, MostVisits
<1>4. ASSUME NEW c \in Contexts, Grant(c) PROVE IReport'
  <2>1. /\ UNCHANGED <<visited, helperNodes, reported>> /\ (phase' = phase \/ phase' # "done")
        /\ \A d \in Contexts : Unflushed'[d] = Unflushed[d]
    BY <1>4, <1>t DEF Unflushed, Grant, IType, IPlaces, Places, budgetVars, pool, flags, local, totals, tally, MoveTo
  <2> QED
    BY <2>1, ReportSame
<1>5. ASSUME NEW c \in Contexts, GiveBack(c) PROVE IReport'
  <2>1. /\ UNCHANGED <<visited, helperNodes, reported>> /\ (phase' = phase \/ phase' # "done")
        /\ \A d \in Contexts : Unflushed'[d] = Unflushed[d]
    BY <1>5, <1>t DEF Unflushed, GiveBack, IType, IPlaces, Places, budgetVars, pool, flags, local, totals, tally, MoveTo, Remainder
  <2> QED
    BY <2>1, ReportSame
<1>6. ASSUME NEW c \in Contexts, Latch(c) PROVE IReport'
  <2>1. /\ UNCHANGED <<visited, helperNodes, reported>> /\ (phase' = phase \/ phase' # "done")
        /\ \A d \in Contexts : Unflushed'[d] = Unflushed[d]
    BY <1>6, <1>t DEF Unflushed, Latch, IType, IPlaces, Places, budgetVars, pool, flags, local, totals, tally, MoveTo
  <2> QED
    BY <2>1, ReportSame
<1>7. ASSUME NEW h \in Helpers, Flush(h) PROVE IReport'
  <2>1. /\ UNCHANGED <<visited, phase, reported>>
        /\ h \in Contexts /\ helperNodes' = helperNodes + Unflushed[h]
        /\ Unflushed'[h] = 0
        /\ \A d \in Contexts : d # h => Unflushed'[d] = Unflushed[d]
    BY <1>7, <1>t DEF Unflushed, Flush, IType, IPlaces, Places, budgetVars, pool, flags, local, totals, tally, MoveTo, FlushAs
  <2>2. Sum(Unflushed', MostVisits) = Sum(Unflushed, MostVisits) - Unflushed[h] + Unflushed'[h]
    BY <2>1, <1>u, SumUpdate
  <2>3. Unflushed[h] \in Nat /\ Sum(Unflushed, MostVisits) \in Nat
    BY <2>1, <1>u, TokensFinite
  <2> QED
    BY <2>1, <2>2, <2>3, <1>t DEF IReport, IType, MostVisits
<1>8. ASSUME NEW h \in Helpers, Return(h) PROVE IReport'
  <2>1. /\ UNCHANGED <<visited, helperNodes, reported>> /\ (phase' = phase \/ phase' # "done")
        /\ \A d \in Contexts : Unflushed'[d] = Unflushed[d]
    BY <1>8, <1>t DEF Unflushed, Return, IType, IPlaces, Places, budgetVars, pool, flags, local, totals, tally, MoveTo, ReturnCredit
  <2> QED
    BY <2>1, ReportSame
<1>9. ASSUME NEW h \in Helpers, Fail(h) PROVE IReport'
  <2>1. /\ UNCHANGED <<visited, helperNodes, reported>> /\ (phase' = phase \/ phase' # "done")
        /\ \A d \in Contexts : Unflushed'[d] = Unflushed[d]
    BY <1>9, <1>t DEF Unflushed, Fail, IType, IPlaces, Places, budgetVars, pool, flags, local, totals, tally, MoveTo
  <2> QED
    BY <2>1, ReportSame
<1>10. ASSUME NEW h \in Helpers, Claim(h) PROVE IReport'
  <2>1. /\ UNCHANGED <<visited, helperNodes, reported>> /\ (phase' = phase \/ phase' # "done")
        /\ \A d \in Contexts : Unflushed'[d] = Unflushed[d]
    BY <1>10, <1>t DEF Unflushed, Claim, IType, IPlaces, Places, budgetVars, pool, flags, local, totals, tally, MoveTo
  <2> QED
    BY <2>1, ReportSame
<1>11. ASSUME NEW h \in Helpers, Leave(h) PROVE IReport'
  <2>1. /\ UNCHANGED <<visited, helperNodes, reported>> /\ (phase' = phase \/ phase' # "done")
        /\ \A d \in Contexts : Unflushed'[d] = Unflushed[d]
    BY <1>11, <1>t DEF Unflushed, Leave, IType, IPlaces, Places, budgetVars, pool, flags, local, totals, tally, MoveTo
  <2> QED
    BY <2>1, ReportSame
<1>12. ASSUME NEW h \in Helpers, Unwind(h) PROVE IReport'
  <2>1. /\ UNCHANGED <<visited, phase, reported>>
        /\ h \in Contexts /\ helperNodes' = helperNodes + Unflushed[h]
        /\ Unflushed'[h] = 0
        /\ \A d \in Contexts : d # h => Unflushed'[d] = Unflushed[d]
    BY <1>12, <1>t DEF Unflushed, Unwind, IType, IPlaces, Places, budgetVars, pool, flags, local, totals, tally, MoveTo, FlushAs
  <2>2. Sum(Unflushed', MostVisits) = Sum(Unflushed, MostVisits) - Unflushed[h] + Unflushed'[h]
    BY <2>1, <1>u, SumUpdate
  <2>3. Unflushed[h] \in Nat /\ Sum(Unflushed, MostVisits) \in Nat
    BY <2>1, <1>u, TokensFinite
  <2> QED
    BY <2>1, <2>2, <2>3, <1>t DEF IReport, IType, MostVisits
<1>13. CASE StartMate
  <2>1. /\ UNCHANGED <<visited, helperNodes, reported>> /\ (phase' = phase \/ phase' # "done")
        /\ \A d \in Contexts : Unflushed'[d] = Unflushed[d]
    BY <1>13, <1>t DEF Unflushed, StartMate, IType, IPlaces, Places, budgetVars, pool, flags, local, totals, tally, MoveTo
  <2> QED
    BY <2>1, ReportSame
<1>14. CASE SkipMate
  <2>1. /\ UNCHANGED <<visited, helperNodes, reported>> /\ (phase' = phase \/ phase' # "done")
        /\ \A d \in Contexts : Unflushed'[d] = Unflushed[d]
    BY <1>14, <1>t DEF Unflushed, SkipMate, IType, IPlaces, Places, budgetVars, pool, flags, local, totals, tally
  <2> QED
    BY <2>1, ReportSame
<1>15. CASE EndMate
  <2> DEFINE mid == [Unflushed EXCEPT ![Main] = nodes[Mate]]
  <2>1. /\ UNCHANGED <<visited, helperNodes, reported>> /\ phase' # "done"
        /\ Unflushed[Main] = 0 /\ Unflushed[Mate] = nodes[Mate]
        /\ Unflushed'[Main] = nodes[Mate] /\ Unflushed'[Mate] = 0
        /\ \A d \in Helpers : Unflushed'[d] = Unflushed[d]
    BY <1>15, <1>t DEF Unflushed, EndMate, IType, IPlaces, Places, budgetVars, pool, flags, local, totals, tally, MoveTo, ReturnCredit
  <2>2. nodes[Mate] \in 0 .. MostVisits
    BY <2>1, <1>t, <1>u
  <2>3. /\ mid \in [Contexts -> 0 .. MostVisits]
        /\ mid[Main] = nodes[Mate] /\ mid[Mate] = nodes[Mate]
        /\ \A d \in Helpers : mid[d] = Unflushed[d]
    BY <2>1, <2>2, <1>t, <1>u
  <2> HIDE DEF mid
  <2>m. /\ Main \in Contexts /\ \A d \in Contexts : d # Main => mid[d] = Unflushed[d]
        /\ Mate \in Contexts /\ \A d \in Contexts : d # Mate => Unflushed'[d] = mid[d]
    BY <2>1, <2>3, <1>t
  <2>4. Sum(mid, MostVisits) = Sum(Unflushed, MostVisits) - Unflushed[Main] + mid[Main]
    BY <2>3, <2>m, <1>u, SumUpdate
  <2>5. Sum(Unflushed', MostVisits) = Sum(mid, MostVisits) - mid[Mate] + Unflushed'[Mate]
    BY <2>3, <2>m, <1>u, SumUpdate
  <2>6. Sum(Unflushed, MostVisits) \in Nat
    BY <1>u, TokensFinite
  <2> QED
    BY <2>1, <2>2, <2>3, <2>4, <2>5, <2>6, <1>t DEF IReport, IType, MostVisits
<1>16. CASE EndMain
  <2>1. /\ UNCHANGED <<visited, helperNodes, reported>> /\ (phase' = phase \/ phase' # "done")
        /\ \A d \in Contexts : Unflushed'[d] = Unflushed[d]
    BY <1>16, <1>t DEF Unflushed, EndMain, IType, IPlaces, Places, budgetVars, pool, flags, local, totals, tally, MoveTo, ReturnCredit
  <2> QED
    BY <2>1, ReportSame
<1>17. CASE Stop
  <2>1. /\ UNCHANGED <<visited, helperNodes, reported>> /\ (phase' = phase \/ phase' # "done")
        /\ \A d \in Contexts : Unflushed'[d] = Unflushed[d]
    BY <1>17, <1>t DEF Unflushed, Stop, IType, IPlaces, Places, budgetVars, pool, flags, local, totals, tally
  <2> QED
    BY <2>1, ReportSame
<1>18. CASE Drain
  <2> DEFINE none == [d \in Contexts |-> 0]
  <2>1. /\ UNCHANGED <<visited, helperNodes>> /\ Unflushed' = Unflushed
        /\ reported' = helperNodes + Unflushed[Main] /\ Main \in Contexts
        /\ \A d \in Contexts : d # Main => Unflushed[d] = 0
    BY <1>18, <1>t DEF Unflushed, Drain, IType, IPlaces, Places, budgetVars, pool, flags, local, totals, tally, HelpersJoined
  <2>2. none \in [Contexts -> 0 .. MostVisits] /\ \A d \in Contexts : none[d] = 0
    BY <1>u
  <2> HIDE DEF none
  <2>3. Sum(none, MostVisits) = 0
    BY <2>2, <1>u, SumZero
  <2>4. Sum(Unflushed, MostVisits) = Sum(none, MostVisits) - none[Main] + Unflushed[Main]
    BY <2>1, <2>2, <1>u, SumUpdate
  <2>5. Unflushed[Main] \in Nat
    BY <2>1, <1>u
  <2> QED
    BY <2>1, <2>2, <2>3, <2>4, <2>5 DEF IReport, IType, MostVisits
<1>19. CASE Abort
  <2>1. /\ UNCHANGED <<visited, helperNodes, reported>> /\ (phase' = phase \/ phase' # "done")
        /\ \A d \in Contexts : Unflushed'[d] = Unflushed[d]
    BY <1>19, <1>t DEF Unflushed, Abort, IType, IPlaces, Places, budgetVars, pool, flags, local, totals, tally
  <2> QED
    BY <2>1, ReportSame
<1>20. CASE UNCHANGED budgetVars
  <2>1. /\ UNCHANGED <<visited, helperNodes, reported>> /\ (phase' = phase \/ phase' # "done")
        /\ \A d \in Contexts : Unflushed'[d] = Unflushed[d]
    BY <1>20, <1>t DEF Unflushed, IType, IPlaces, Places, budgetVars, pool, flags, local, totals, tally
  <2> QED
    BY <2>1, ReportSame
<1> QED
  BY <1>1, <1>2, <1>3, <1>4, <1>5, <1>6, <1>7, <1>8, <1>9, <1>10, <1>11, <1>12, <1>13, <1>14, <1>15, <1>16, <1>17, <1>18, <1>19, <1>20 DEF BudgetNext, Visit, Helper, Controller

-----------------------------------------------------------------------------
(* The theorems about the budget. *)

BudgetInv == IType /\ IPlaces /\ IPool /\ IVisits /\ IUndershoot /\ IReport

\* Before the search starts no credit is out and no node is visited.
LEMMA InitIInv == BudgetInit => BudgetInv
<1> SUFFICES ASSUME BudgetInit PROVE BudgetInv
  OBVIOUS
<1>t. /\ Contexts = Helpers \cup {Main, Mate} /\ Chunk \in Nat \ {0}
      /\ Main \notin Helpers /\ Mate \notin Helpers /\ Main # Mate
      /\ MostVisits \in Nat
  BY ChunkType, BudgetAssumption, ContextsFinite DEF Contexts, MostVisits
<1>p. /\ pc \in [Contexts -> {"open", "closed", "gone"}]
      /\ pc[Main] = "open" /\ pc[Mate] = "closed" /\ \A h \in Helpers : pc[h] # "open"
  BY DEF BudgetInit
<1>1. IType
  <2>1. pc \in [Contexts -> Places]
    BY <1>p DEF Places
  <2>2. nodes \in [Contexts -> Nat] /\ credit \in [Contexts -> 0 .. Chunk]
    BY <1>t DEF BudgetInit
  <2>3. granted = 0 /\ helperNodes = 0 /\ reported = 0 /\ visited = 0 /\ paid = 0
    BY DEF BudgetInit
  <2>4. /\ exhausted \in BOOLEAN /\ stopped \in BOOLEAN /\ aborted \in BOOLEAN
        /\ phase \in Phases
    BY DEF BudgetInit, Phases
  <2> QED
    BY <2>1, <2>2, <2>3, <2>4 DEF IType
<1>2. IPlaces
  BY <1>t, <1>p DEF BudgetInit, IPlaces
<1>3. IPool
  <2>1. Held = [c \in Contexts |-> 0] /\ credit = [c \in Contexts |-> 0]
    BY <1>p, <1>t DEF BudgetInit, Held
  <2>2. Sum(Held, Chunk) = 0 /\ Sum(credit, Chunk) = 0
    BY <2>1, <1>t, SumZero
  <2> QED
    BY <2>2, BudgetAssumption DEF BudgetInit, IPool, PoolIsConserved
<1>4. IVisits
  <2>1. Pending = {}
    BY <1>p DEF Pending
  <2> QED
    BY <2>1, ContextsFinite, FS_EmptySet DEF BudgetInit, IVisits
<1>5. IUndershoot
  BY <1>p DEF BudgetInit, IUndershoot, Refused
<1>6. IReport
  <2>1. Unflushed = [c \in Contexts |-> 0]
    BY <1>p DEF BudgetInit, Unflushed
  <2>2. Sum(Unflushed, MostVisits) = 0
    BY <2>1, <1>t, SumZero
  <2> QED
    BY <2>2 DEF BudgetInit, IReport
<1> QED
  BY <1>1, <1>2, <1>3, <1>4, <1>5, <1>6 DEF BudgetInv

\* The inductive invariant holds of every reachable state, whatever the number of
\* helpers, the budget and the chunk.
THEOREM BudgetInvariance == BudgetSpec => []BudgetInv
<1>1. BudgetInv /\ [BudgetNext]_budgetVars => BudgetInv'
  BY TypeStep, PlacesStep, PoolStep, VisitsStep, UndershootStep, ReportStep DEF BudgetInv
<1> QED
  BY <1>1, InitIInv, PTL DEF BudgetSpec

\* What a search may spend never exceeds the budget: grant_nodes and return_nodes
\* keep the counter equal to the credit spent plus the credit held.
THEOREM BudgetHolds == BudgetSpec => []PoolIsConserved
<1>1. BudgetInv => PoolIsConserved
  BY DEF BudgetInv, IPool
<1> QED
  BY <1>1, BudgetInvariance, PTL

\* Types, and that neither the pool counter nor a credit falls below zero.
THEOREM BudgetTypeCorrect == BudgetSpec => []BudgetTypeOK
<1>1. BudgetInv => BudgetTypeOK
  <2> SUFFICES ASSUME BudgetInv PROVE BudgetTypeOK
    OBVIOUS
  <2>1. Sum(Held, Chunk) \in Nat
    BY ChunkType, TokensFinite
  <2> QED
    BY <2>1 DEF BudgetInv, IType, BudgetTypeOK, IPool, PoolIsConserved
<1> QED
  BY <1>1, BudgetInvariance, PTL

\* At most one node per thread is entered beyond the budget.
THEOREM OvershootBounded == BudgetSpec => []VisitsAreBounded
<1>1. BudgetInv => VisitsAreBounded
  <2> SUFFICES ASSUME BudgetInv PROVE VisitsAreBounded
    OBVIOUS
  <2>1. Sum(credit, Chunk) \in Nat
    BY ChunkType, TokensFinite
  <2> QED
    BY <2>1, ContextsFinite, BudgetAssumption
       DEF BudgetInv, IType, IPool, PoolIsConserved, IVisits, VisitsAreBounded
<1> QED
  BY <1>1, BudgetInvariance, PTL

\* At most a chunk per other thread is left unspent when the budget ends a search.
THEOREM UndershootBounded == BudgetSpec => []UndershootIsBounded
<1>1. BudgetInv => UndershootIsBounded
  BY DEF BudgetInv, IUndershoot, UndershootIsBounded
<1> QED
  BY <1>1, BudgetInvariance, PTL

\* The published total counts every visited node exactly once.
THEOREM ReportExact == BudgetSpec => []ReportIsExact
<1>1. BudgetInv => ReportIsExact
  BY DEF BudgetInv, IReport, ReportIsExact
<1> QED
  BY <1>1, BudgetInvariance, PTL

\* The whole of it: for every budget, chunk, cap and number of helpers the pool is
\* conserved, overshoot and undershoot are bounded, and the report is exact.
THEOREM BudgetSound == BudgetSpec => []BudgetIsSound
<1>1. BudgetTypeOK /\ PoolIsConserved /\ VisitsAreBounded /\ UndershootIsBounded /\ ReportIsExact
        => BudgetIsSound
  BY DEF BudgetIsSound
<1> QED
  BY <1>1, BudgetTypeCorrect, BudgetHolds, OvershootBounded, UndershootBounded, ReportExact, PTL

-----------------------------------------------------------------------------
(* The clock: arithmetic. *)

LEMMA MultiplyBoth ==
  ASSUME NEW a \in Nat, NEW b \in Nat, NEW c \in Nat, a <= b
  PROVE  /\ a * c <= b * c /\ c * a <= c * b
         /\ a * c \in Nat /\ c * a \in Nat /\ b * c \in Nat
  OBVIOUS

LEMMA CancelBoth ==
  ASSUME NEW a \in Nat, NEW b \in Nat, NEW c \in Nat, c > 0, a * c <= b * c
  PROVE  a <= b
  OBVIOUS

LEMMA Quotient ==
  ASSUME NEW x \in Nat, NEW d \in Nat, d > 0
  PROVE  x \div d \in Nat /\ d * (x \div d) <= x
  OBVIOUS

\* The share of a quiet move is at most a quarter of the clock.
LEMMA ScaledBound ==
  ASSUME NEW remaining \in Nat
  PROVE  Scaled(remaining) \in Nat /\ 4 * Scaled(remaining) <= remaining
<1> DEFINE span == Emergency - Floor
           drained == Least(Minus(Emergency, remaining), span)
           ramp == EmergencyFraction - NormalFraction
           share == NormalFraction * span + ramp * drained
           scale == FractionScale * span
<1>1. /\ span \in Nat /\ span > 0
      /\ drained \in Nat /\ drained <= span
      /\ ramp \in Nat /\ NormalFraction \in Nat /\ EmergencyFraction \in Nat
      /\ FractionScale \in Nat /\ FractionScale > 0
      /\ 4 * EmergencyFraction <= FractionScale
  BY TimeAssumption, MatchAssumption DEF Least, Minus
<1> HIDE DEF span, drained
<1>2. /\ ramp * drained <= ramp * span
      /\ ramp * drained \in Nat /\ NormalFraction * span \in Nat
      /\ EmergencyFraction * span \in Nat
  BY <1>1, MultiplyBoth
<1>3. NormalFraction * span + ramp * span = EmergencyFraction * span
  BY <1>1
<1>4. share \in Nat /\ share <= EmergencyFraction * span
  BY <1>1, <1>2, <1>3
<1>5. (4 * EmergencyFraction) * span <= scale /\ scale \in Nat /\ scale > 0
  BY <1>1, MultiplyBoth
<1>6. 4 * share <= scale
  BY <1>1, <1>4, <1>5, <1>2
<1> HIDE DEF share, scale
<1>7. remaining * (4 * share) <= remaining * scale /\ remaining * share \in Nat
  BY <1>4, <1>5, <1>6, MultiplyBoth
<1> DEFINE q == (remaining * share) \div scale
<1>8. q \in Nat /\ scale * q <= remaining * share
  BY <1>5, <1>7, Quotient
<1> HIDE DEF q
<1>9. (4 * q) * scale <= remaining * scale
  <2>1. (4 * q) * scale = 4 * (scale * q) /\ remaining * (4 * share) = 4 * (remaining * share)
    BY <1>4, <1>5, <1>8
  <2>2. scale * q \in Nat /\ remaining * scale \in Nat
    BY <1>5, <1>8
  <2> QED
    BY <2>1, <2>2, <1>7, <1>8
<1>10. 4 * q <= remaining
  BY <1>5, <1>8, <1>9, CancelBoth
<1> QED
  BY <1>8, <1>10 DEF Scaled, q, share, scale, span, drained

\* The margin covers the delay that is to be tolerated, or it is all but one unit of an
\* allowance that does not exceed it.
LEMMA MarginFacts ==
  ASSUME NEW allowance \in Nat
  PROVE  /\ MoveMargin(allowance) \in Nat
         /\ allowance > 0 => MoveMargin(allowance) < allowance
         /\ \/ DeadlineMargin <= MoveMargin(allowance)
            \/ MoveMargin(allowance) = Minus(allowance, 1) /\ allowance <= DeadlineMargin
<1>1. allowance \div MarginShare \in Nat
  BY TimeAssumption, Quotient
<1> QED
  BY <1>1, TimeAssumption DEF MoveMargin, DeadlineMargin, Least, Most, Minus

LEMMA TargetFacts ==
  ASSUME NEW remaining \in Nat, NEW increment \in Nat, NEW byoyomi \in Nat
  PROVE  /\ Target(remaining, increment, byoyomi) \in Nat \ {0}
         /\ increment = 0 /\ remaining > 0 =>
              Target(remaining, increment, byoyomi) <= Most(remaining, byoyomi)
<1>1. /\ Scaled(remaining) \in Nat /\ 4 * Scaled(remaining) <= remaining
  BY ScaledBound
<1>2. /\ (increment * 3) \div 4 \in Nat /\ (byoyomi * 3) \div 4 \in Nat
      /\ 4 * ((byoyomi * 3) \div 4) <= byoyomi * 3
      /\ increment = 0 => (increment * 3) \div 4 = 0
  OBVIOUS
<1> QED
  BY <1>1, <1>2 DEF Target, Most

LEMMA AllocatedFacts ==
  ASSUME NEW target \in Nat \ {0}, NEW remaining \in Nat \ {0}, NEW byoyomi \in Nat,
         NEW c \in Nat
  PROVE  /\ Allocated(target, remaining, byoyomi, c) \in Nat \ {0}
         /\ Allocated(target, remaining, byoyomi, c) <= remaining + byoyomi
         /\ Allocated(target, remaining, byoyomi, c) <= Most(target, remaining)
<1>1. remaining \div ExtensionFraction \in Nat /\ remaining \div ExtensionFraction <= remaining
  <2>1. ExtensionFraction \in Nat /\ ExtensionFraction >= 1
    BY TimeAssumption
  <2> DEFINE q == remaining \div ExtensionFraction
  <2>2. q \in Nat /\ ExtensionFraction * q <= remaining
    BY <2>1, Quotient
  <2> HIDE DEF q
  <2>3. 1 * q <= ExtensionFraction * q /\ ExtensionFraction * q \in Nat
    BY <2>1, <2>2, MultiplyBoth
  <2> QED
    BY <2>2, <2>3 DEF q
<1>2. ExtensionCap(target, remaining, c) \in Nat
      /\ ExtensionCap(target, remaining, c) <= remaining
  <2>1. \A k \in Nat : (target * k) \div 2 \in Nat
    <3> TAKE k \in Nat
    <3>1. target * k \in Nat
      OBVIOUS
    <3> QED
      BY <3>1, Quotient
  <2>2. (target * (IF c > 0 THEN CooldownMult ELSE ExtensionMult)) \div 2 \in Nat
    BY <2>1, TimeAssumption
  <2> QED
    BY <1>1, <2>2 DEF ExtensionCap, Least
<1> QED
  BY <1>2 DEF Allocated, Least, Most

-----------------------------------------------------------------------------
(* Plans of match moves. *)

\* What a plan must be to a move that may use `usable'.
Fits(plan, usable) ==
  /\ plan \in Plans /\ plan.mode = "Clock"
  /\ plan.soft \in Nat /\ plan.hard \in Nat /\ plan.allocated \in Nat
  /\ plan.soft <= plan.hard
  /\ OrZero(plan.minSpend) <= plan.hard
  /\ plan.hard <= plan.allocated
  /\ plan.allocated <= usable
  /\ 0 < usable => 0 < plan.hard
  /\ plan.hard + Lag <= usable \/ usable <= DeadlineMargin

LEMMA RunningFits ==
  ASSUME NEW remaining \in Nat \ {0}, NEW increment \in Nat, NEW byoyomi \in Nat,
         NEW c \in Nat, NEW usable \in Nat,
         remaining + byoyomi <= usable,
         increment = 0 \/ byoyomi = 0
  PROVE  Fits(RunningPlan(remaining, increment, byoyomi,
                          MoveMargin(Most(remaining, byoyomi)), c), usable)
<1> DEFINE allowance == Most(remaining, byoyomi)
           margin == MoveMargin(allowance)
           target == Target(remaining, increment, byoyomi)
           allocated == Allocated(target, remaining, byoyomi, c)
           hard == Minus(allocated, Least(margin, Minus(allocated, 1)))
<1>1. allowance \in Nat /\ allowance > 0 /\ remaining <= allowance
      /\ (byoyomi = 0 => allowance = remaining)
  BY DEF Most
<1>2. target \in Nat \ {0} /\ (increment = 0 => target <= allowance)
  <2>1. remaining \in Nat /\ remaining > 0
    OBVIOUS
  <2> QED
    BY <2>1, TargetFacts
<1> HIDE DEF allowance, target
<1>3. /\ margin \in Nat /\ margin < allowance
      /\ \/ DeadlineMargin <= margin
         \/ margin = allowance - 1 /\ allowance <= DeadlineMargin
  BY <1>1, MarginFacts DEF Minus
<1>4. /\ allocated \in Nat \ {0} /\ allocated <= remaining + byoyomi
      /\ allocated <= Most(target, remaining)
  BY <1>2, AllocatedFacts
<1>5. allocated <= allowance
  BY <1>1, <1>2, <1>4 DEF Most
<1> HIDE DEF margin, allocated
<1>6. hard \in Nat /\ 0 < hard /\ hard <= allocated
      /\ (hard = 1 \/ hard = allocated - margin)
      /\ (margin >= allocated - 1 => hard = 1)
  BY <1>3, <1>4 DEF Minus, Least
<1> HIDE DEF hard
<1>7. Lag \in Nat /\ DeadlineMargin \in Nat /\ Lag <= DeadlineMargin
  BY TimeAssumption, MatchAssumption DEF DeadlineMargin, Least
<1>8. hard + Lag <= usable \/ usable <= DeadlineMargin
  <2>1. CASE hard = 1
    BY <2>1, <1>7
  <2>2. CASE hard # 1
    <3>1. hard = allocated - margin /\ ~(margin >= allocated - 1)
      BY <2>2, <1>6
    <3>2. DeadlineMargin <= margin
      BY <3>1, <1>1, <1>3, <1>4, <1>5
    <3>3. hard + Lag <= allocated
      BY <3>1, <3>2, <1>3, <1>4, <1>7
    <3>4. allocated <= usable
      BY <1>4
    <3> QED
      BY <3>3, <3>4, <1>4, <1>6, <1>7
  <2> QED
    BY <2>1, <2>2
<1> DEFINE plan == [mode |-> "Clock", soft |-> Least(target, hard), hard |-> hard,
                    allocated |-> allocated, minSpend |-> NoTime]
<1>9. Least(target, hard) \in Nat /\ Least(target, hard) <= hard
  BY <1>2, <1>6 DEF Least
<1>10. plan \in Plans
  BY <1>4, <1>6, <1>9 DEF Plans, Modes, Times
<1>11. Fits(plan, usable)
  BY <1>4, <1>6, <1>8, <1>9, <1>10 DEF Fits, OrZero
<1> QED
  BY <1>11 DEF RunningPlan, hard, allocated, target, margin, allowance

LEMMA ByoyomiFits ==
  ASSUME NEW byoyomi \in Nat \ {0}
  PROVE  Fits(ByoyomiPlan(byoyomi, MoveMargin(byoyomi)), byoyomi)
<1> DEFINE margin == MoveMargin(byoyomi)
           hard == Minus(byoyomi, margin)
           soft == Least((byoyomi * 3) \div 4, hard)
           floor == Least(byoyomi \div 2, hard)
<1>1. /\ margin \in Nat /\ margin < byoyomi
      /\ DeadlineMargin <= margin \/ byoyomi <= DeadlineMargin
  BY MarginFacts
<1> HIDE DEF margin
<1>2. hard \in Nat /\ 0 < hard /\ hard = byoyomi - margin
  BY <1>1 DEF Minus
<1> HIDE DEF hard
<1>3. soft \in Nat /\ soft <= hard /\ floor \in Nat /\ floor <= hard
  BY <1>2 DEF Least
<1> HIDE DEF soft, floor
<1>4. Lag \in Nat /\ DeadlineMargin \in Nat /\ Lag <= DeadlineMargin
  BY TimeAssumption, MatchAssumption DEF DeadlineMargin, Least
<1>5. floor # NoTime
  BY <1>3, TimeAssumption
<1> DEFINE plan == [mode |-> "Clock", soft |-> soft, hard |-> hard,
                    allocated |-> byoyomi, minSpend |-> floor]
<1>6. plan \in Plans
  BY <1>2, <1>3 DEF Plans, Modes, Times
<1>7. Fits(plan, byoyomi)
  BY <1>1, <1>2, <1>3, <1>4, <1>5, <1>6 DEF Fits, OrZero
<1> QED
  BY <1>7 DEF ByoyomiPlan, margin, hard, soft, floor

LEMMA ExhaustedFits == Fits(ExhaustedPlan, 0)
<1>1. ExhaustedPlan \in Plans
  BY DEF ExhaustedPlan, Plans, Modes, Times
<1>2. DeadlineMargin \in Nat
  BY TimeAssumption DEF DeadlineMargin, Least
<1> QED
  BY <1>1, <1>2 DEF ExhaustedPlan, Fits, OrZero

\* A go of the match, from the GUI or from a ponderhit, carries the clock of the side that
\* moves and what the rules of the game add to it.
IsMatchGo(go) ==
  /\ go \in Requests /\ ~go.infinite
  /\ go.time[side] = clock
  /\ OrZero(go.increment[side]) = game.increment
  /\ OrZero(go.byoyomi) = game.byoyomi

GuiOK == side \in Sides /\ game \in Games /\ clock \in Nat

LEMMA MatchGoFits ==
  ASSUME GuiOK, NEW go, IsMatchGo(go), NEW c \in Nat
  PROVE  Fits(PlanFor(side, TimeControlOf(go), c), Usable)
<1> DEFINE r == TimeControlOf(go)
           remaining == OrZero(r.time[side])
<1>1. /\ side \in Sides /\ clock \in Nat
      /\ game \in [base : Nat, increment : Nat, byoyomi : Nat]
      /\ game.increment = 0 \/ game.byoyomi = 0
      /\ MaxClock \in Nat /\ MaxClock > 0 /\ NoTime \notin Nat
  BY TimeAssumption, MatchAssumption DEF GuiOK
<1>2. /\ r.time = [s \in Sides |-> SpendableTime(go.time[s], go.increment[s])]
      /\ r.increment = go.increment /\ r.byoyomi = go.byoyomi /\ r.infinite = go.infinite
      /\ r.movetime = go.movetime
  BY DEF TimeControlOf, IsMatchGo, Requests
<1>3. r.time[side] = Least(clock + game.increment, MaxClock)
  BY <1>1, <1>2 DEF IsMatchGo, SpendableTime
<1>4. remaining \in Nat /\ remaining <= clock + game.increment
      /\ (remaining = 0 => clock + game.increment = 0)
      /\ Given(r.time[side])
  BY <1>1, <1>3 DEF OrZero, Least, Given
<1>5. HasClock(r)
  BY <1>1, <1>4 DEF HasClock
<1>6. PlanFor(side, r, c) = ClockPlan(side, r, c)
  BY <1>2, <1>5 DEF PlanFor, IsImplicitCasual, IsMatchGo
<1>7. /\ OrZero(r.increment[side]) = game.increment
      /\ OrZero(r.byoyomi) = game.byoyomi
  BY <1>2 DEF IsMatchGo
<1>8. /\ Usable \in Nat /\ remaining + game.byoyomi <= Usable
      /\ (remaining = 0 => Usable = game.byoyomi)
  BY <1>1, <1>4 DEF Usable
<1> HIDE DEF r, remaining
<1>9. CASE remaining > 0
  <2>1. Fits(RunningPlan(remaining, game.increment, game.byoyomi,
                         MoveMargin(Most(remaining, game.byoyomi)), c), Usable)
    BY <1>1, <1>4, <1>8, <1>9, RunningFits
  <2> QED
    BY <2>1, <1>6, <1>7, <1>9 DEF ClockPlan, remaining, r
<1>10. CASE remaining = 0
  <2>1. Most(0, game.byoyomi) = game.byoyomi
    BY <1>1 DEF Most
  <2>2. CASE game.byoyomi > 0
    <3>1. Fits(ByoyomiPlan(game.byoyomi, MoveMargin(game.byoyomi)), Usable)
      BY <1>1, <1>8, <1>10, <2>2, ByoyomiFits
    <3> QED
      BY <2>1, <2>2, <3>1, <1>6, <1>7, <1>10 DEF ClockPlan, remaining, r
  <2>3. CASE game.byoyomi = 0
    <3>1. Fits(ExhaustedPlan, Usable)
      BY <1>8, <1>10, <2>3, ExhaustedFits
    <3> QED
      BY <2>3, <3>1, <1>6, <1>7, <1>10 DEF ClockPlan, remaining, r
  <2> QED
    BY <1>1, <2>2, <2>3
<1> QED
  BY <1>4, <1>9, <1>10 DEF r

-----------------------------------------------------------------------------
(* Requests and plans have their types. *)

LEMMA RequestType ==
  ASSUME NEW go \in Requests
  PROVE  TimeControlOf(go) \in Requests
<1>1. \A s \in Sides : SpendableTime(go.time[s], go.increment[s]) \in Times
  BY TimeAssumption DEF SpendableTime, Requests, Times, OrZero, Least
<1> QED
  BY <1>1 DEF TimeControlOf, Requests

LEMMA PlanType ==
  ASSUME NEW s \in Sides, NEW r \in Requests, NEW c \in Nat
  PROVE  /\ PlanFor(s, r, c) \in Plans
         /\ PlanFor(s, r, c).mode = "Clock" => PlanFor(s, r, c).soft \in Nat
<1> DEFINE Good(plan) == plan \in Plans /\ (plan.mode = "Clock" => plan.soft \in Nat)
<1>1. \A mode \in {"Infinite", "Nodes", "Depth"} : Good(WithoutDeadline(mode))
  BY DEF WithoutDeadline, Plans, Modes, Times
<1>2. Good(CasualPlan)
  BY TimeAssumption DEF CasualPlan, Plans, Modes, Times, DeadlineAfterMargin, Least, Minus
<1>3. ASSUME Given(r.movetime) PROVE Good(MoveTimePlan(r.movetime))
  BY <1>3, TimeAssumption
  DEF MoveTimePlan, Plans, Modes, Times, DeadlineAfterMargin, Least, Minus, Given, Requests
<1>4. Good(ClockPlan(s, r, c))
  <2> DEFINE remaining == OrZero(r.time[s])
             increment == OrZero(r.increment[s])
             byoyomi == OrZero(r.byoyomi)
             margin == MoveMargin(Most(remaining, byoyomi))
  <2>1. remaining \in Nat /\ increment \in Nat /\ byoyomi \in Nat
    BY DEF Requests, Times, OrZero
  <2> HIDE DEF remaining, increment, byoyomi
  <2>2. margin \in Nat
    BY <2>1, MarginFacts DEF Most
  <2> HIDE DEF margin
  <2>3. ASSUME remaining > 0 PROVE Good(RunningPlan(remaining, increment, byoyomi, margin, c))
    <3> DEFINE target == Target(remaining, increment, byoyomi)
               allocated == Allocated(target, remaining, byoyomi, c)
               hard == Minus(allocated, Least(margin, Minus(allocated, 1)))
    <3>1. target \in Nat \ {0} /\ remaining \in Nat \ {0}
      BY <2>1, <2>3, TargetFacts
    <3> HIDE DEF target
    <3>2. allocated \in Nat \ {0}
      BY <2>1, <3>1, AllocatedFacts
    <3> HIDE DEF allocated
    <3>3. hard \in Nat
      BY <2>2, <3>2 DEF Minus, Least
    <3> HIDE DEF hard
    <3>4. Least(target, hard) \in Nat
      BY <3>1, <3>3 DEF Least
    <3>5. Good([mode |-> "Clock", soft |-> Least(target, hard), hard |-> hard,
                allocated |-> allocated, minSpend |-> NoTime])
      BY <3>2, <3>3, <3>4 DEF Plans, Modes, Times
    <3> QED
      BY <3>5 DEF RunningPlan, hard, allocated, target
  <2>4. Good(ByoyomiPlan(byoyomi, margin))
    <3>1. Minus(byoyomi, margin) \in Nat
      BY <2>1, <2>2 DEF Minus
    <3>2. /\ Least((byoyomi * 3) \div 4, Minus(byoyomi, margin)) \in Nat
          /\ Least(byoyomi \div 2, Minus(byoyomi, margin)) \in Nat
      BY <2>1, <3>1 DEF Least
    <3> QED
      BY <2>1, <3>1, <3>2 DEF ByoyomiPlan, Plans, Modes, Times
  <2>5. Good(ExhaustedPlan)
    BY DEF ExhaustedPlan, Plans, Modes, Times
  <2>6. CASE remaining > 0
    BY <2>3, <2>6 DEF ClockPlan, remaining, increment, byoyomi, margin
  <2>7. CASE ~(remaining > 0)
    BY <2>4, <2>5, <2>7 DEF ClockPlan, remaining, increment, byoyomi, margin
  <2> QED
    BY <2>6, <2>7
<1> HIDE DEF Good
<1>5. Good(PlanFor(s, r, c))
  BY <1>1, <1>2, <1>3, <1>4 DEF PlanFor
<1> QED
  BY <1>5 DEF Good

-----------------------------------------------------------------------------
(* The match's inductive invariant. *)

\* What a held go ponder may carry beside the clocks of ponderhit.
HeldOK ==
  held # NoPonder =>
    /\ ~held.infinite
    /\ game.increment = 0 => OrZero(held.increment[side]) = 0
    /\ game.increment > 0 => OrZero(held.byoyomi) = 0

JobOK(j) ==
  /\ j \in Jobs
  /\ j.plan.mode = "Clock" => j.plan.soft \in Nat
  /\ j.usable # NoTime => Fits(j.plan, j.usable)

\* A search outlives its game exactly while the handler that ends the game waits for it.
LeftoverOK ==
  /\ leftover => worker # "idle" /\ ResetsHistory(command)
  /\ ResetsHistory(command) => recent = NoHistory /\ (worker # "idle" => leftover)

IInv == MatchTypeOK /\ HeldOK /\ JobOK(planned) /\ JobOK(job) /\ LeftoverOK /\ CooldownCountsMoves
        /\ NoForfeit

Commands == {"none", "go", "newgame", "gameover", "position", "ponder"}

LEMMA Counts ==
  ASSUME NEW c \in 0..3, NEW r \in [1..3 -> BOOLEAN]
  PROVE  (\A k \in 0..(CooldownMoves - 1) :
            c > k <=> \E i \in 1..(CooldownMoves - k) : r[i])
         <=> /\ c > 0 <=> r[1] \/ r[2] \/ r[3]
             /\ c > 1 <=> r[1] \/ r[2]
             /\ c > 2 <=> r[1]
<1>1. 0..(CooldownMoves - 1) = {0, 1, 2}
  BY DEF CooldownMoves
<1>2. /\ 1..(CooldownMoves - 0) = {1, 2, 3}
      /\ 1..(CooldownMoves - 1) = {1, 2}
      /\ 1..(CooldownMoves - 2) = {1}
  BY DEF CooldownMoves
<1>3. /\ (\E i \in 1..(CooldownMoves - 0) : r[i]) <=> r[1] \/ r[2] \/ r[3]
      /\ (\E i \in 1..(CooldownMoves - 1) : r[i]) <=> r[1] \/ r[2]
      /\ (\E i \in 1..(CooldownMoves - 2) : r[i]) <=> r[1]
  BY <1>2, Zenon
<1> QED
  BY <1>1, <1>3, Zenon

LEMMA NoJobOK == JobOK(NoJob)
<1>1. WithoutDeadline("Infinite") \in Plans
  BY DEF WithoutDeadline, Plans, Modes, Times
<1>2. NoJob \in Jobs
  BY <1>1 DEF NoJob, Jobs, Times
<1> QED
  BY <1>2 DEF JobOK, NoJob, WithoutDeadline

LEMMA InitOK == MatchInit => IInv
<1> SUFFICES ASSUME MatchInit PROVE IInv
  OBVIOUS
<1>1. NoHistory \in [1..3 -> BOOLEAN] /\ ~NoHistory[1] /\ ~NoHistory[2] /\ ~NoHistory[3]
  BY DEF NoHistory, CooldownMoves
<1>2. JobOK(planned) /\ JobOK(job)
  BY NoJobOK DEF MatchInit
<1>3. MatchTypeOK
  <2>1. game \in Games /\ clock = game.base /\ Games \subseteq [base : Nat, increment : Nat, byoyomi : Nat]
    BY MatchAssumption DEF MatchInit
  <2>2. clock \in Nat
    BY <2>1
  <2>3. planned \in Jobs /\ job \in Jobs
    BY <1>2 DEF JobOK
  <2>4. recent \in [1..CooldownMoves -> BOOLEAN] /\ cooldown \in 0..CooldownMoves
    BY <1>1 DEF MatchInit, CooldownMoves
  <2> QED
    BY <2>1, <2>2, <2>3, <2>4 DEF MatchInit, MatchTypeOK, Times
<1>4. CooldownCountsMoves
  BY <1>1, Counts, cooldown = 0, recent = NoHistory DEF MatchInit, CooldownCountsMoves
<1> QED
  BY <1>2, <1>3, <1>4 DEF MatchInit, IInv, HeldOK, LeftoverOK, NoForfeit, ResetsHistory

-----------------------------------------------------------------------------
(* The lines of the GUI. *)

LEMMA MatchGo ==
  ASSUME MatchTypeOK, NEW theirs \in OpponentClocks, NEW preset \in Times
  PROVE  LET go == WithClocks(Clockless(preset), theirs)
         IN  /\ IsMatchGo(go)
             /\ game.increment = 0 => OrZero(go.increment[side]) = 0
             /\ game.increment > 0 => OrZero(go.byoyomi) = 0
<1> DEFINE go == WithClocks(Clockless(preset), theirs)
<1>1. /\ side \in Sides /\ clock \in Nat /\ theirs \in Nat
      /\ game \in [base : Nat, increment : Nat, byoyomi : Nat]
      /\ game.increment = 0 \/ game.byoyomi = 0
  BY MatchAssumption DEF MatchTypeOK
<1>2. /\ go.time = [s \in Sides |-> IF s = side THEN clock ELSE theirs]
      /\ go.increment = IF game.increment > 0 THEN [s \in Sides |-> game.increment]
                                             ELSE NoTimes
      /\ go.byoyomi = IF game.increment > 0 THEN NoTime ELSE game.byoyomi
      /\ go.infinite = FALSE
  BY DEF WithClocks, Clockless
<1>3. go \in Requests
  <2>1. /\ [s \in Sides |-> IF s = side THEN clock ELSE theirs] \in [Sides -> Times]
        /\ [s \in Sides |-> game.increment] \in [Sides -> Times]
        /\ NoTimes \in [Sides -> Times]
        /\ game.byoyomi \in Times /\ NoTime \in Times
    BY <1>1 DEF Times, NoTimes
  <2>2. Clockless(preset) \in Requests
    BY <2>1 DEF Clockless, Requests
  <2> QED
    BY <2>1, <2>2 DEF WithClocks, Requests
<1>4. go.time[side] = clock
  BY <1>1, <1>2
<1>5. OrZero(go.increment[side]) = game.increment
  BY <1>1, <1>2, TimeAssumption DEF OrZero, NoTimes
<1>6. OrZero(go.byoyomi) = game.byoyomi
  BY <1>1, <1>2, TimeAssumption DEF OrZero
<1> HIDE DEF go
<1>7. IsMatchGo(go)
  BY <1>2, <1>3, <1>4, <1>5, <1>6 DEF IsMatchGo
<1>8. game.increment > 0 => OrZero(go.byoyomi) = 0
  BY <1>1, <1>6
<1> QED
  BY <1>5, <1>7, <1>8 DEF go

LEMMA PonderGo ==
  ASSUME MatchTypeOK, HeldOK, held # NoPonder, NEW theirs \in OpponentClocks
  PROVE  IsMatchGo(ClockOverride(held, WithClocks(Clockless(NoTime), theirs)))
<1> DEFINE clocks == WithClocks(Clockless(NoTime), theirs)
           go == ClockOverride(held, clocks)
<1>1. /\ side \in Sides /\ clock \in Nat /\ theirs \in Nat /\ NoTime \notin Nat
      /\ game \in [base : Nat, increment : Nat, byoyomi : Nat]
      /\ game.increment = 0 \/ game.byoyomi = 0
      /\ held \in Requests
  BY MatchAssumption, TimeAssumption DEF MatchTypeOK
<1>2. /\ clocks.time = [s \in Sides |-> IF s = side THEN clock ELSE theirs]
      /\ clocks.increment = IF game.increment > 0 THEN [s \in Sides |-> game.increment]
                                                 ELSE NoTimes
      /\ clocks.byoyomi = IF game.increment > 0 THEN NoTime ELSE game.byoyomi
  BY DEF WithClocks, Clockless
<1> HIDE DEF clocks
<1>3. /\ go.time = [s \in Sides |-> IF Given(clocks.time[s]) THEN clocks.time[s]
                                                              ELSE held.time[s]]
      /\ go.increment = [s \in Sides |-> IF Given(clocks.increment[s])
                                         THEN clocks.increment[s] ELSE held.increment[s]]
      /\ go.byoyomi = IF Given(clocks.byoyomi) THEN clocks.byoyomi ELSE held.byoyomi
      /\ go.infinite = held.infinite
  BY <1>1 DEF ClockOverride, Requests
<1>4. go \in Requests
  <2>1. /\ go.time \in [Sides -> Times] /\ go.increment \in [Sides -> Times]
        /\ go.byoyomi \in Times
    BY <1>1, <1>2, <1>3 DEF Requests, Times, NoTimes
  <2>2. go = [held EXCEPT !.time = go.time, !.increment = go.increment,
                          !.byoyomi = go.byoyomi]
    BY <1>1, <1>3 DEF ClockOverride, Requests
  <2> HIDE DEF go
  <2> QED
    BY <1>1, <2>1, <2>2 DEF Requests
<1> HIDE DEF go
<1>5. go.time[side] = clock
  BY <1>1, <1>2, <1>3 DEF Given
<1>6. OrZero(go.increment[side]) = game.increment
  BY <1>1, <1>2, <1>3 DEF Given, OrZero, NoTimes, HeldOK
<1>7. OrZero(go.byoyomi) = game.byoyomi
  BY <1>1, <1>2, <1>3 DEF Given, OrZero, HeldOK
<1>8. IsMatchGo(go)
  BY <1>3, <1>4, <1>5, <1>6, <1>7 DEF IsMatchGo, HeldOK
<1> QED
  BY <1>8 DEF go, clocks

\* A handler that cancels the search and touches neither history nor jobs keeps what the
\* invariant says of them.
LEMMA HandlerKeeps ==
  ASSUME IInv, NEW handler \in Commands, ~ResetsHistory(handler), Cancel(handler),
         UNCHANGED <<gui, cooldown, history, job>>
  PROVE  /\ LeftoverOK' /\ CooldownCountsMoves' /\ NoForfeit' /\ JobOK(job)'
         /\ command' \in Commands /\ worker' \in {"idle", "searching", "superseded"}
<1>1. ~ResetsHistory(command) /\ leftover = FALSE
  BY DEF Cancel, ResetsHistory, IInv, LeftoverOK, MatchTypeOK
<1>2. command' = handler /\ ~ResetsHistory(command')
  BY DEF Cancel
<1>3. LeftoverOK'
  BY <1>1, <1>2 DEF LeftoverOK, history, ResetsHistory
<1>4. CooldownCountsMoves'
  BY <1>1, <1>2, cooldown' = cooldown, recent' = recent DEF CooldownCountsMoves, IInv, history
<1>5. JobOK(job)' /\ NoForfeit'
  BY DEF IInv, JobOK, NoForfeit, gui
<1> QED
  BY <1>2, <1>3, <1>4, <1>5 DEF Cancel, IInv, MatchTypeOK

LEMMA StartKeeps ==
  ASSUME IInv, NEW go \in Requests, NEW usable \in Times,
         usable # NoTime => IsMatchGo(go) /\ usable = Usable,
         StartSearch(go, usable)
  PROVE  IInv'
<1> DEFINE request == TimeControlOf(go)
           plan == PlanFor(side, request, cooldown)
<1>1. /\ planned' = [plan |-> plan, usable |-> usable]
      /\ Cancel("go") /\ held' = NoPonder /\ UNCHANGED <<gui, cooldown, history, job>>
  BY DEF StartSearch
<1>2. MatchTypeOK /\ cooldown \in Nat /\ side \in Sides
  BY DEF IInv, MatchTypeOK, CooldownMoves
<1>3. plan \in Plans /\ (plan.mode = "Clock" => plan.soft \in Nat)
  BY <1>2, RequestType, PlanType
<1>4. usable # NoTime => Fits(plan, usable)
  BY <1>2, MatchGoFits DEF MatchTypeOK, GuiOK
<1> HIDE DEF plan
<1>5. JobOK(planned')
  BY <1>1, <1>3, <1>4 DEF JobOK, Jobs
<1>6. /\ LeftoverOK' /\ CooldownCountsMoves' /\ NoForfeit' /\ JobOK(job)'
      /\ command' \in Commands /\ worker' \in {"idle", "searching", "superseded"}
  BY <1>1, HandlerKeeps DEF Commands, ResetsHistory
<1>7. MatchTypeOK'
  BY <1>1, <1>2, <1>5, <1>6 DEF MatchTypeOK, gui, history, JobOK, Commands
<1>8. HeldOK'
  BY <1>1 DEF HeldOK
<1> QED
  BY <1>5, <1>6, <1>7, <1>8 DEF IInv

-----------------------------------------------------------------------------
(* The actions. *)

LEMMA GoOK == IInv /\ Go => IInv'
<1> SUFFICES ASSUME IInv, Go PROVE IInv'
  OBVIOUS
<1>1. MatchTypeOK /\ NoTime \in Times
  BY DEF IInv, Times
<1>2. CASE \E theirs \in OpponentClocks, preset \in Presets :
             StartSearch(WithClocks(Clockless(preset), theirs), Usable)
  <2>1. PICK theirs \in OpponentClocks, preset \in Presets :
               StartSearch(WithClocks(Clockless(preset), theirs), Usable)
    BY <1>2
  <2>2. IsMatchGo(WithClocks(Clockless(preset), theirs))
    BY <1>1, MatchAssumption, MatchGo
  <2>3. Usable \in Times
    BY <1>1, MatchAssumption DEF Usable, MatchTypeOK, Times
  <2> QED
    BY <2>1, <2>2, <2>3, StartKeeps DEF IsMatchGo
<1>3. CASE \E go \in OtherRequests : StartSearch(go, NoTime)
  BY <1>1, <1>3, MatchAssumption, StartKeeps
<1> QED
  BY <1>2, <1>3 DEF Go

LEMMA PonderHitOK == IInv /\ PonderHit => IInv'
<1> SUFFICES ASSUME IInv, PonderHit PROVE IInv'
  OBVIOUS
<1>1. MatchTypeOK /\ HeldOK /\ held # NoPonder
  BY DEF IInv, PonderHit
<1>2. PICK theirs \in OpponentClocks :
        StartSearch(ClockOverride(held, WithClocks(Clockless(NoTime), theirs)), Usable)
  BY DEF PonderHit
<1>3. IsMatchGo(ClockOverride(held, WithClocks(Clockless(NoTime), theirs)))
  BY <1>1, PonderGo
<1>4. Usable \in Times
  BY <1>1, MatchAssumption DEF Usable, MatchTypeOK, Times
<1> QED
  BY <1>2, <1>3, <1>4, StartKeeps DEF IsMatchGo

LEMMA GoPonderOK == IInv /\ GoPonder => IInv'
<1> SUFFICES ASSUME IInv, GoPonder PROVE IInv'
  OBVIOUS
<1>1. /\ Cancel("ponder") /\ UNCHANGED <<gui, cooldown, history, planned, job>>
      /\ MatchTypeOK
  BY DEF GoPonder, IInv
<1>2. PICK theirs \in OpponentClocks :
        held' \in {Clockless(NoTime), WithClocks(Clockless(NoTime), theirs)}
  BY DEF GoPonder
<1>3. /\ LeftoverOK' /\ CooldownCountsMoves' /\ NoForfeit' /\ JobOK(job)'
      /\ command' \in Commands /\ worker' \in {"idle", "searching", "superseded"}
  BY <1>1, HandlerKeeps DEF Commands, ResetsHistory
<1>4. JobOK(planned)'
  BY <1>1 DEF IInv, JobOK
<1>5. held' \in Requests /\ HeldOK'
  <2>1. side \in Sides /\ NoTime \in Times
    BY <1>1 DEF MatchTypeOK, Times
  <2>2. CASE held' = Clockless(NoTime)
    <3>1. Clockless(NoTime) \in Requests
      BY <2>1 DEF Clockless, Requests, NoTimes
    <3> QED
      BY <1>1, <2>1, <2>2, <3>1 DEF HeldOK, Clockless, NoTimes, OrZero, gui
  <2>3. CASE held' = WithClocks(Clockless(NoTime), theirs)
    <3> DEFINE go == WithClocks(Clockless(NoTime), theirs)
    <3>1. /\ IsMatchGo(go)
          /\ game.increment = 0 => OrZero(go.increment[side]) = 0
          /\ game.increment > 0 => OrZero(go.byoyomi) = 0
      BY <1>1, <2>1, MatchGo
    <3> HIDE DEF go
    <3>2. held' = go
      BY <2>3 DEF go
    <3> QED
      BY <1>1, <3>1, <3>2 DEF HeldOK, IsMatchGo, gui
  <2> QED
    BY <1>2, <2>2, <2>3
<1>6. MatchTypeOK'
  BY <1>1, <1>3, <1>5 DEF MatchTypeOK, gui, history, Commands
<1> QED
  BY <1>3, <1>4, <1>5, <1>6 DEF IInv

LEMMA StopPonderOK == IInv /\ StopPonder => IInv'
<1> SUFFICES ASSUME IInv, StopPonder PROVE IInv'
  OBVIOUS
<1>1. MatchTypeOK'
  BY DEF IInv, StopPonder, MatchTypeOK, gui, history
<1>2. JobOK(planned)' /\ JobOK(job)' /\ HeldOK'
  BY DEF IInv, StopPonder, JobOK, HeldOK
<1>3. LeftoverOK' /\ CooldownCountsMoves' /\ NoForfeit'
  BY DEF IInv, StopPonder, LeftoverOK, CooldownCountsMoves, NoForfeit, gui, history,
         ResetsHistory
<1> QED
  BY <1>1, <1>2, <1>3 DEF IInv

LEMMA SetPositionOK == IInv /\ SetPosition => IInv'
<1> SUFFICES ASSUME IInv, SetPosition PROVE IInv'
  OBVIOUS
<1>1. Cancel("position") /\ held' = NoPonder /\ UNCHANGED <<gui, cooldown, history, planned, job>>
  BY DEF SetPosition
<1>2. /\ LeftoverOK' /\ CooldownCountsMoves' /\ NoForfeit' /\ JobOK(job)'
      /\ command' \in Commands /\ worker' \in {"idle", "searching", "superseded"}
  BY <1>1, HandlerKeeps DEF Commands, ResetsHistory
<1>3. JobOK(planned)' /\ HeldOK'
  BY <1>1 DEF IInv, JobOK, HeldOK
<1>4. MatchTypeOK'
  BY <1>1, <1>2 DEF IInv, MatchTypeOK, gui, history, Commands
<1> QED
  BY <1>2, <1>3, <1>4 DEF IInv

\* The two handlers that end a game.
LEMMA AbandonKeeps ==
  ASSUME IInv, NEW handler \in {"newgame", "gameover"}, Cancel(handler), Abandon,
         held' = NoPonder, UNCHANGED <<cooldown, planned, job>>
  PROVE  /\ LeftoverOK' /\ CooldownCountsMoves' /\ JobOK(planned)' /\ JobOK(job)' /\ HeldOK'
         /\ command' \in Commands /\ worker' \in {"idle", "searching", "superseded"}
         /\ recent' \in [1..CooldownMoves -> BOOLEAN] /\ leftover' \in BOOLEAN
<1>1. command' = handler /\ ResetsHistory(command')
  BY DEF Cancel, ResetsHistory
<1>2. worker' # "idle" <=> worker # "idle"
  BY DEF Cancel
<1>3. LeftoverOK' /\ CooldownCountsMoves'
  BY <1>1, <1>2 DEF LeftoverOK, CooldownCountsMoves, Abandon
<1>4. JobOK(planned)' /\ JobOK(job)' /\ HeldOK'
  BY DEF IInv, JobOK, HeldOK
<1>5. /\ command' \in Commands /\ worker' \in {"idle", "searching", "superseded"}
      /\ recent' \in [1..CooldownMoves -> BOOLEAN] /\ leftover' \in BOOLEAN
  BY <1>1 DEF Commands, Cancel, IInv, MatchTypeOK, Abandon, NoHistory
<1> QED
  BY <1>3, <1>4, <1>5

LEMMA NewGameOK == IInv /\ NewGame => IInv'
<1> SUFFICES ASSUME IInv, NewGame PROVE IInv'
  OBVIOUS
<1>1. /\ LeftoverOK' /\ CooldownCountsMoves' /\ JobOK(planned)' /\ JobOK(job)' /\ HeldOK'
      /\ command' \in Commands /\ worker' \in {"idle", "searching", "superseded"}
      /\ recent' \in [1..CooldownMoves -> BOOLEAN] /\ leftover' \in BOOLEAN
  BY AbandonKeeps DEF NewGame
<1>2. game' \in Games /\ clock' \in Nat
  BY MatchAssumption DEF NewGame
<1>3. MatchTypeOK'
  BY <1>1, <1>2 DEF IInv, MatchTypeOK, NewGame, Times, Commands
<1>4. NoForfeit'
  BY DEF NewGame, NoForfeit
<1> QED
  BY <1>1, <1>3, <1>4 DEF IInv

LEMMA GameOverOK == IInv /\ GameOver => IInv'
<1> SUFFICES ASSUME IInv, GameOver PROVE IInv'
  OBVIOUS
<1>1. /\ LeftoverOK' /\ CooldownCountsMoves' /\ JobOK(planned)' /\ JobOK(job)' /\ HeldOK'
      /\ command' \in Commands /\ worker' \in {"idle", "searching", "superseded"}
      /\ recent' \in [1..CooldownMoves -> BOOLEAN] /\ leftover' \in BOOLEAN
  BY AbandonKeeps DEF GameOver
<1>2. MatchTypeOK' /\ NoForfeit'
  BY <1>1 DEF IInv, MatchTypeOK, GameOver, NoForfeit, Commands
<1> QED
  BY <1>1, <1>2 DEF IInv

LEMMA LaunchOK == IInv /\ Launch => IInv'
<1> SUFFICES ASSUME IInv, Launch PROVE IInv'
  OBVIOUS
<1>1. JobOK(job)' /\ JobOK(planned)'
  BY NoJobOK DEF IInv, Launch, JobOK
<1>2. leftover = FALSE
  BY DEF IInv, Launch, LeftoverOK, ResetsHistory, MatchTypeOK
<1>3. LeftoverOK' /\ CooldownCountsMoves' /\ NoForfeit' /\ HeldOK'
  BY <1>2 DEF IInv, Launch, LeftoverOK, CooldownCountsMoves, NoForfeit, HeldOK, gui, history,
         ResetsHistory
<1>4. MatchTypeOK'
  BY <1>1 DEF IInv, MatchTypeOK, Launch, JobOK, gui, history
<1> QED
  BY <1>1, <1>3, <1>4 DEF IInv

LEMMA FinishOK == IInv /\ Finish => IInv'
<1> SUFFICES ASSUME IInv, Finish PROVE IInv'
  OBVIOUS
<1>1. JobOK(job)' /\ JobOK(planned)' /\ HeldOK' /\ NoForfeit'
  BY DEF IInv, Finish, JobOK, HeldOK, NoForfeit, gui
<1>2. leftover = FALSE /\ command' = "none" /\ ~ResetsHistory(command')
  BY DEF IInv, Finish, LeftoverOK, ResetsHistory, MatchTypeOK, Joined
<1>3. LeftoverOK'
  BY <1>2 DEF Finish, LeftoverOK, history, ResetsHistory
<1>4. cooldown' \in 0..CooldownMoves
  BY DEF IInv, MatchTypeOK, Finish, CooldownMoves
<1>5. CooldownCountsMoves'
  <2>1. CASE ResetsHistory(command)
    <3>1. cooldown' = 0 /\ recent' = NoHistory
      BY <2>1 DEF IInv, Finish, LeftoverOK, history
    <3>2. NoHistory \in [1..3 -> BOOLEAN] /\ ~NoHistory[1] /\ ~NoHistory[2] /\ ~NoHistory[3]
      BY DEF NoHistory, CooldownMoves
    <3>3. \A k \in 0..(CooldownMoves - 1) :
            0 > k <=> \E i \in 1..(CooldownMoves - k) : NoHistory[i]
      BY <3>2, Counts
    <3> QED
      BY <3>1, <3>3 DEF CooldownCountsMoves
  <2>2. CASE ~ResetsHistory(command)
    BY <2>2 DEF IInv, Finish, CooldownCountsMoves, history
  <2> QED
    BY <2>1, <2>2
<1>6. MatchTypeOK'
  BY <1>2, <1>4 DEF IInv, MatchTypeOK, Finish, gui, history
<1> QED
  BY <1>1, <1>3, <1>5, <1>6 DEF IInv

\* The code's integer comparison is the exact one.
LEMMA ExtendedExactly ==
  ASSUME NEW plan, plan.soft \in Nat, NEW spent \in Nat
  PROVE  Extended(plan, spent) <=> plan.soft > 0 /\ 5 * spent > 6 * plan.soft
<1> DEFINE soft == plan.soft
<1>1. soft \in Nat /\ OrZero(plan.soft) = soft
  BY TimeAssumption DEF OrZero
<1> HIDE DEF soft
<1>2. spent > (soft * 6) \div 5 <=> 5 * spent > 6 * soft
  BY <1>1
<1> QED
  BY <1>1, <1>2 DEF Extended, soft

\* One observed search: the cooldown and the history move together.
LEMMA ObserveKeeps ==
  ASSUME NEW c \in 0..3, NEW r \in [1..3 -> BOOLEAN], NEW b \in BOOLEAN,
         c > 0 <=> r[1] \/ r[2] \/ r[3], c > 1 <=> r[1] \/ r[2], c > 2 <=> r[1],
         NEW c2, c2 = IF b THEN 3 ELSE Minus(c, 1),
         NEW r2, r2 = [i \in 1..3 |-> IF i = 1 THEN b ELSE r[i - 1]]
  PROVE  /\ c2 \in 0..3 /\ r2 \in [1..3 -> BOOLEAN]
         /\ c2 > 0 <=> r2[1] \/ r2[2] \/ r2[3]
         /\ c2 > 1 <=> r2[1] \/ r2[2]
         /\ c2 > 2 <=> r2[1]
<1>1. r2 \in [1..3 -> BOOLEAN] /\ (r2[1] <=> b) /\ (r2[2] <=> r[1]) /\ (r2[3] <=> r[2])
  <2>1. 1 \in 1..3 /\ 2 \in 1..3 /\ 3 \in 1..3 /\ 2 - 1 = 1 /\ 3 - 1 = 2 /\ 2 # 1 /\ 3 # 1
    OBVIOUS
  <2>2. \A i \in 1..3 : i # 1 => i - 1 \in 1..3
    OBVIOUS
  <2>3. r2[1] = b /\ r2[2] = r[1] /\ r2[3] = r[2]
    BY <2>1, Zenon
  <2>4. r2 \in [1..3 -> BOOLEAN]
    BY <2>2, Zenon
  <2> QED
    BY <2>3, <2>4
<1>2. CASE b
  <2>1. c2 = 3
    BY <1>2
  <2> QED
    BY <1>1, <1>2, <2>1
<1>3. CASE ~b
  <2>1. c2 = Minus(c, 1)
    BY <1>3
  <2>2. c2 \in 0..3 /\ (c2 > 0 <=> c > 1) /\ (c2 > 1 <=> c > 2) /\ ~(c2 > 2)
    BY <2>1 DEF Minus
  <2> QED
    BY <1>1, <1>3, <2>2
<1> QED
  BY <1>2, <1>3

LEMMA ObserveOK ==
  ASSUME IInv, NEW spent \in Nat, Observe(spent), command' = command, leftover' = FALSE
  PROVE  /\ cooldown' \in 0..CooldownMoves /\ recent' \in [1..CooldownMoves -> BOOLEAN]
         /\ CooldownCountsMoves'
         /\ ResetsHistory(command) /\ worker # "idle" => recent' = NoHistory
<1>1. /\ cooldown \in 0..3 /\ recent \in [1..3 -> BOOLEAN] /\ JobOK(job) /\ LeftoverOK
      /\ CooldownCountsMoves /\ leftover \in BOOLEAN
  BY DEF IInv, MatchTypeOK, CooldownMoves
<1>2. CASE job.plan.mode # "Clock"
  BY <1>1, <1>2 DEF Observe, CooldownCountsMoves, CooldownMoves, LeftoverOK
<1>3. CASE job.plan.mode = "Clock"
  <2> DEFINE extended == Extended(job.plan, spent)
             exact == job.plan.soft > 0 /\ 5 * spent > 6 * job.plan.soft
  <2>1. job.plan.soft \in Nat
    BY <1>1, <1>3 DEF JobOK
  <2>2. extended <=> exact
    BY <2>1, ExtendedExactly
  <2>3. /\ cooldown' = IF extended THEN 3 ELSE Minus(cooldown, 1)
        /\ recent' = IF leftover THEN recent
                     ELSE [i \in 1..3 |-> IF i = 1 THEN exact ELSE recent[i - 1]]
    BY <1>3 DEF Observe, CooldownAfter, Push, CooldownMoves
  <2> HIDE DEF extended, exact
  <2>4. CASE leftover
    <3>1. ResetsHistory(command) /\ recent' = recent
      BY <1>1, <2>3, <2>4 DEF LeftoverOK
    <3>2. cooldown' \in 0..3
      BY <1>1, <2>3 DEF Minus
    <3> QED
      BY <1>1, <3>1, <3>2 DEF LeftoverOK, CooldownCountsMoves, CooldownMoves, ResetsHistory
  <2>5. CASE ~leftover /\ ~ResetsHistory(command)
    <3> DEFINE b == (extended = TRUE)
    <3>1. /\ cooldown > 0 <=> recent[1] \/ recent[2] \/ recent[3]
          /\ cooldown > 1 <=> recent[1] \/ recent[2]
          /\ cooldown > 2 <=> recent[1]
      BY <1>1, <2>5, Counts DEF CooldownCountsMoves
    <3>2. exact \in BOOLEAN /\ (extended <=> exact)
      BY <2>2 DEF exact
    <3>3. cooldown' = IF exact THEN 3 ELSE Minus(cooldown, 1)
      BY <2>3, <3>2
    <3>4. recent' = [i \in 1..3 |-> IF i = 1 THEN exact ELSE recent[i - 1]]
      BY <2>3, <2>5
    <3>5. /\ cooldown' \in 0..3 /\ recent' \in [1..3 -> BOOLEAN]
          /\ cooldown' > 0 <=> recent'[1] \/ recent'[2] \/ recent'[3]
          /\ cooldown' > 1 <=> recent'[1] \/ recent'[2]
          /\ cooldown' > 2 <=> recent'[1]
      BY <1>1, <3>1, <3>2, <3>3, <3>4, ObserveKeeps
    <3>6. \A k \in 0..(CooldownMoves - 1) :
            cooldown' > k <=> \E i \in 1..(CooldownMoves - k) : recent'[i]
      BY <3>5, Counts
    <3> QED
      BY <2>5, <3>5, <3>6 DEF CooldownCountsMoves, CooldownMoves
  <2>6. CASE ~leftover /\ ResetsHistory(command)
    <3>1. worker = "idle"
      BY <1>1, <2>6 DEF LeftoverOK
    <3>2. cooldown' \in 0..3
      BY <1>1, <2>3 DEF Minus
    <3>3. recent' \in [1..3 -> BOOLEAN]
      <4>1. exact \in BOOLEAN
        BY DEF exact
      <4>2. \A i \in 1..3 : i # 1 => i - 1 \in 1..3
        OBVIOUS
      <4> QED
        BY <1>1, <2>3, <2>6, <4>1, <4>2, Zenon
    <3> QED
      BY <2>6, <3>1, <3>2, <3>3 DEF CooldownCountsMoves, CooldownMoves, ResetsHistory
  <2> QED
    BY <2>4, <2>5, <2>6
<1> QED
  BY <1>2, <1>3

LEMMA SearchEndsOK == IInv /\ SearchEnds => IInv'
<1> SUFFICES ASSUME IInv, SearchEnds PROVE IInv'
  OBVIOUS
<1>1. PICK spent \in MayTake :
        /\ Observe(spent)
        /\ IF worker = "searching" /\ job.usable # NoTime
           THEN \E charged \in {t \in MayTake : spent <= t /\ t <= spent + Lag} : Charge(charged)
           ELSE UNCHANGED gui
  BY DEF SearchEnds
<1>2. /\ MatchTypeOK /\ JobOK(job) /\ JobOK(planned) /\ HeldOK /\ LeftoverOK /\ NoForfeit
      /\ worker # "idle"
      /\ worker' = "idle" /\ job' = NoJob /\ leftover' = FALSE
      /\ UNCHANGED <<command, held, planned>>
  BY DEF IInv, SearchEnds
<1>3. MayTake \subseteq Nat
  BY <1>2, MatchAssumption DEF MayTake, JobOK, Jobs, Plans, Times
<1>4. /\ cooldown' \in 0..CooldownMoves /\ recent' \in [1..CooldownMoves -> BOOLEAN]
      /\ CooldownCountsMoves'
      /\ ResetsHistory(command) => recent' = NoHistory
  BY <1>1, <1>2, <1>3, ObserveOK
<1>5. /\ side' = side /\ game' = game
      /\ clock' \in Nat /\ moves' \in Nat /\ playing' \in BOOLEAN /\ forfeited' \in Times
      /\ NoForfeit'
  <2>1. CASE worker = "searching" /\ job.usable # NoTime
    <3>1. PICK charged \in MayTake : Charge(charged)
      BY <1>1, <2>1
    <3>2. Fits(job.plan, job.usable) /\ job.usable \in Nat
      BY <1>2, <2>1 DEF JobOK, Jobs, Times
    <3>3. charged \in Nat /\ charged <= job.plan.hard + Lag
      BY <3>1, <3>2, TimeAssumption, MatchAssumption DEF MayTake, Fits
    <3>4. charged > job.usable => job.usable <= DeadlineMargin
      BY <3>2, <3>3, MatchAssumption DEF Fits
    <3>5. clock + game.increment \in Nat
      BY <1>2, MatchAssumption DEF MatchTypeOK
    <3>6. CASE charged > job.usable
      <4>1. /\ forfeited' = job.usable /\ playing' = FALSE /\ clock' = clock
            /\ moves' = moves + 1 /\ side' = side /\ game' = game
        BY <3>1, <3>6 DEF Charge
      <4>2. NoForfeit'
        BY <3>4, <3>6, <4>1 DEF NoForfeit
      <4>3. moves \in Nat /\ clock \in Nat
        BY <1>2 DEF MatchTypeOK
      <4>4. forfeited' \in Times
        BY <3>2, <4>1 DEF Times
      <4>5. moves' = moves + 1 /\ clock' = clock
        BY <4>1, Zenon
      <4>7. clock' \in Nat /\ moves' \in Nat
        BY <4>3, <4>5
      <4>8. playing' \in BOOLEAN
        BY <4>1, Zenon
      <4>6. side' = side /\ game' = game
        BY <4>1
      <4> QED
        BY <4>2, <4>4, <4>6, <4>7, <4>8, Zenon
    <3>7. CASE ~(charged > job.usable)
      <4>1. Minus(clock + game.increment, charged) \in Nat
        BY <3>3, <3>5 DEF Minus
      <4> QED
        BY <1>2, <3>1, <3>7, <4>1 DEF Charge, MatchTypeOK, NoForfeit
    <3> QED
      BY <3>6, <3>7
  <2>2. CASE ~(worker = "searching" /\ job.usable # NoTime)
    BY <1>1, <1>2, <2>2 DEF gui, MatchTypeOK, NoForfeit
  <2> QED
    BY <2>1, <2>2
<1>6. JobOK(job)' /\ JobOK(planned)' /\ HeldOK'
  BY <1>2, <1>5, NoJobOK DEF JobOK, HeldOK
<1>7. LeftoverOK'
  BY <1>2, <1>4 DEF LeftoverOK, ResetsHistory
<1>8. MatchTypeOK'
  BY <1>2, <1>4, <1>5, <1>6 DEF MatchTypeOK, JobOK
<1> QED
  BY <1>4, <1>5, <1>6, <1>7, <1>8 DEF IInv

LEMMA StepOK == IInv /\ [MatchNext]_matchVars => IInv'
<1> SUFFICES ASSUME IInv, [MatchNext]_matchVars PROVE IInv'
  OBVIOUS
<1>1. CASE UNCHANGED matchVars
  BY <1>1
  DEF matchVars, IInv, MatchTypeOK, HeldOK, JobOK, LeftoverOK, CooldownCountsMoves, NoForfeit,
      ResetsHistory
<1> QED
  BY <1>1, GoOK, GoPonderOK, PonderHitOK, StopPonderOK, NewGameOK, GameOverOK, SetPositionOK,
     LaunchOK, FinishOK, SearchEndsOK
  DEF MatchNext

THEOREM Invariance == MatchSpec => []IInv
<1> QED
  BY InitOK, StepOK, PTL DEF MatchSpec

-----------------------------------------------------------------------------
(* The theorems about the clock. *)

\* Every variable of the session keeps its kind, and the cooldown its range.
THEOREM TypeCorrect == MatchSpec => []MatchTypeOK
<1>1. IInv => MatchTypeOK
  BY DEF IInv
<1> QED
  BY <1>1, Invariance, PTL

\* Whatever the rules of the game, the margins and the scale of the clock: the engine loses
\* on time only a move whose whole grant was within the margin kept for delays.
THEOREM NeverForfeits == MatchSpec => []NoForfeit
<1>1. IInv => NoForfeit
  BY DEF IInv
<1> QED
  BY <1>1, Invariance, PTL

\* The limits of every match search are ordered, and the clock of the mover can pay them.
THEOREM PlansAreOrdered == MatchSpec => []PlanIsOrdered
<1>1. IInv => PlanIsOrdered
  BY DEF IInv, PlanIsOrdered, JobOK, Fits
<1> QED
  BY <1>1, Invariance, PTL

\* The cooldown never carries over from another game or from a search without a clock.
THEOREM CooldownIsHistory == MatchSpec => []CooldownCountsMoves
<1>1. IInv => CooldownCountsMoves
  BY DEF IInv
<1> QED
  BY <1>1, Invariance, PTL

\* The whole of it: no forfeit, and ordered limits, in every state of every match.
THEOREM MatchSound == MatchSpec => []MatchIsSound
<1>1. MatchTypeOK /\ NoForfeit /\ PlanIsOrdered => MatchIsSound
  BY DEF MatchIsSound
<1> QED
  BY <1>1, TypeCorrect, NeverForfeits, PlansAreOrdered, PTL
=============================================================================
