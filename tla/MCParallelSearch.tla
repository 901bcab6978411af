---- MODULE MCParallelSearch ----
(* Finite instances of ParallelSearch: helper threads are interchangeable. *)
EXTENDS ParallelSearch, TLC
HelperSymmetry == Permutations(Helpers)
====
