----------------------------- MODULE MCBreaker -----------------------------
(* TLC instances of Breaker. *)
EXTENDS Breaker, TLC

CONSTANTS c1, c2, i1, i2

\* One call in each of two instances.
OneEach == (c1 :> i1) @@ (c2 :> i2)

\* The instances are alike: exchange them together with their calls.
Exchange == {[x \in {i1, i2, c1, c2} |-> x],
             (i1 :> i2) @@ (i2 :> i1) @@ (c1 :> c2) @@ (c2 :> c1)}

=============================================================================
