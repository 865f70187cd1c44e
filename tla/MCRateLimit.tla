---------------------------- MODULE MCRateLimit ----------------------------
(* TLC instances of RateLimit. *)
EXTENDS RateLimit, TLC

CONSTANTS c1, c2, c3, c4, i1

\* A short window for one request in front of a longer one for two.
OneThenTwo == (1 :> 1) @@ (2 :> 2)
TwoThenThree == (1 :> 2) @@ (2 :> 3)
Symm == Permutations(Calls)

=============================================================================
