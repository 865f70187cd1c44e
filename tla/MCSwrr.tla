------------------------------ MODULE MCSwrr ------------------------------
(* TLC instances of Swrr, explored side by side: the two cursors while       *)
(* circuits, upstreams and Redis come and go ("cursors"), and the shares the *)
(* shared cursor gives to first attempts under weights that stay ("shares"). *)
EXTENDS Swrr, TLC

CONSTANTS c1, c2, i1, i2,
    MaxWeight      \* largest weight in "shares"

ASSUME MCAssumption == MaxWeight \in Nat

VARIABLES
    scene,
    won     \* requests given to each upstream in the current round of "shares"

mcVars == <<vars, scene, won>>

BothInI1 == (c1 :> i1) @@ (c2 :> i1)

\* The administrator replaces the first upstream by the third and back.
Replaced == {(1 :> 3) @@ (2 :> 1), (2 :> 1) @@ (3 :> 1)}
\* All ways to give the upstreams weights.
Weights == [Providers -> 1..MaxWeight]
AnyHealth == SUBSET Providers

MCInit ==
    /\ scene \in {"cursors", "shares"}
    /\ cfg \in IF scene = "cursors" THEN Configs ELSE Weights
    /\ rr = [i \in Instances |-> Zero] /\ shared = Zero
    /\ call = [c \in Calls |-> Ended]
    /\ won = Zero

\* A round is as many requests as the sum of the weights.
Won(p) == LET n == [won EXCEPT ![p] = @ + 1] IN IF n = cfg THEN Zero ELSE n

Shares(c) ==
    \/ Remote(c) /\ call'[c].pc = "forward" /\ won' = Won(Best(shared, call[c].w, call[c].cands))
    \/ Start(c) /\ UNCHANGED won
    \/ Select(c, Providers) /\ call'[c].pc = "remote" /\ UNCHANGED won
    \/ End(c) /\ UNCHANGED won

MCNext ==
    /\ \/ scene = "cursors" /\ Next /\ UNCHANGED won
       \/ scene = "shares" /\ \E c \in Calls : Shares(c)
    /\ UNCHANGED scene

MCSpec == MCInit /\ [][MCNext]_mcVars

\* However circuits open and close, upstreams are replaced and Redis fails, the
\* cursors stay near 0 (SharedBounded, LocalBounded; slb.go:selectCandidatesLocked).
CursorsBounded == scene = "cursors" => SharedBounded /\ LocalBounded

\* slb.go:16 "严格按权重比例分流": however the requests of the instances
\* interleave, no upstream is ever a request ahead of its exact share of the
\* requests, none of three is one behind (of more, half a one for each of the
\* others), and a round gives each upstream exactly its weight.
Smooth ==
    LET n == Total(won, Providers)
        t == Total(cfg, Providers)
    IN  scene = "shares" =>
          /\ n < t
          /\ \A p \in Providers : LET d == n * cfg[p] - t * won[p]
                                  IN  -t < d /\ Within(2 * d, (Cardinality(Providers) - 1) * t, 2)

=============================================================================
