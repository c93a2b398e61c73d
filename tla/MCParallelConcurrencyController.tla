------------------ MODULE MCParallelConcurrencyController ------------------
(* Small instances of ParallelConcurrencyController for TLC.               *)
EXTENDS ParallelConcurrencyController, TLC

Symmetry == Permutations(Threads) \union Permutations(Requests \ Oneway)
=============================================================================
