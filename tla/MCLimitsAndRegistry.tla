------------------------- MODULE MCLimitsAndRegistry -------------------------
(***************************************************************************)
(* Small instances of the two limits of a search, its nodes (NodeBudget)   *)
(* and its time (TimedMatch), and of the registry of models                *)
(* (ModelGenerations).  They do not share state: every behaviour is of     *)
(* one part.  Operators, lineages and arenas are interchangeable.          *)
(***************************************************************************)
EXTENDS NodeBudget, TimedMatch, ModelGenerations, TLC

VARIABLE part   \* the part this behaviour is of

all == <<part, budgetVars, matchVars, vars>>

Game(base, increment, byoyomi) == [base |-> base, increment |-> increment, byoyomi |-> byoyomi]
MCGames == {Game(24, 0, 0), Game(3, 5, 0), Game(4, 0, 7), Game(0, 0, 6)}
MCPresets == {NoTime, 9}
MCOpponents == {0, 40}

\* A bare go, the fixed searches, and two that carry a clock but not the mover's.
MCOthers ==
  LET bare == Clockless(NoTime)
      other == [NoTimes EXCEPT !["white"] = 20]
  IN  {Clockless(4), [bare EXCEPT !.nodes = TRUE], [bare EXCEPT !.depth = TRUE],
       [bare EXCEPT !.infinite = TRUE], [bare EXCEPT !.time = other],
       [bare EXCEPT !.infinite = TRUE, !.byoyomi = 5]}

Interchangeable ==
  Permutations(Operators) \union Permutations(Lineages) \union Permutations(Arenas)

\* What stays fixed while another part runs.
PartsInit ==
  /\ part \in {"nodes", "time", "registry"}
  /\ BudgetInit /\ MatchInit /\ Init
  /\ part # "nodes" => \A h \in Helpers : pc[h] = "closed"
  /\ part # "time" => side = "black" /\ game = Game(0, 0, 6)
PartsNext ==
  /\ UNCHANGED part
  /\ \/ part = "nodes" /\ BudgetNext /\ UNCHANGED <<matchVars, vars>>
     \/ part = "time" /\ MatchNext /\ UNCHANGED <<budgetVars, vars>>
     \/ part = "registry" /\ Next /\ UNCHANGED <<budgetVars, matchVars>>
PartsSpec == PartsInit /\ [][PartsNext]_all
=============================================================================
