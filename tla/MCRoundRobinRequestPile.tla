------------------------ MODULE MCRoundRobinRequestPile ------------------------
EXTENDS RoundRobinRequestPile, TLC

CONSTANTS r1, r2, r3, r4, r5

(* A priority of two buckets above a priority with a single one: requests  *)
(* compete for a bucket of either kind.                                    *)
TwoPriorities == <<2, 1>>
Mixed == r1 :> <<1, 1>> @@ r2 :> <<1, 1>> @@ r3 :> <<1, 2>>
           @@ r4 :> <<2, 1>> @@ r5 :> <<2, 1>>

Symmetry == Permutations(Threads)

=============================================================================
