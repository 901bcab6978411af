------------------------- MODULE IterativeDeepening -------------------------
(***************************************************************************)
(* What a search promises, however many threads work on it: depth after    *)
(* depth it settles on a move no other legal move beats, and it answers    *)
(* with the deepest settled move unless an inference failed on the way.    *)
(* This is search_internal of engine/core/src/search.rs seen from outside, *)
(* with one step per completed iteration.                                  *)
(***************************************************************************)
EXTENDS Integers

CONSTANTS
  Moves,      \* the legal root moves, numbered in the order of Move
  Scores      \* the scores a move can have

VARIABLES
  value,      \* the true score of each root move at the next depth
  depth,      \* completed_depth
  best,       \* the move and the score the last completed iteration settled on
  failed,     \* an inference failed somewhere in the search
  outcome     \* how the search returned

vars == <<value, depth, best, failed, outcome>>

NoBest == [move |-> 0, score |-> 0]

Init ==
  /\ value \in [Moves -> Scores]
  /\ depth = 0 /\ best = NoBest
  /\ failed = FALSE /\ outcome = "running"

\* An iteration completes: its move has the highest score of all root moves.
Complete ==
  /\ outcome = "running"
  /\ \E m \in Moves :
       /\ \A n \in Moves : value[n] <= value[m]
       /\ best' = [move |-> m, score |-> value[m]]
  /\ depth' = depth + 1
  /\ value' \in [Moves -> Scores]
  /\ UNCHANGED <<failed, outcome>>

InferenceFails ==
  /\ outcome = "running"
  /\ failed' = TRUE
  /\ UNCHANGED <<value, depth, best, outcome>>

\* A failed inference is never answered with a move: the search fails closed.
Return ==
  /\ outcome = "running"
  /\ outcome' \in {"answered", "error", "panicked"}
  /\ outcome' = "answered" => ~failed
  /\ UNCHANGED <<value, depth, best, failed>>

Next == Complete \/ InferenceFails \/ Return
Spec == Init /\ [][Next]_vars
=============================================================================
