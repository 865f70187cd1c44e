----------------------------- MODULE MCGateway -----------------------------
(* TLC instances of Gateway. *)
EXTENDS Gateway, TLC

CONSTANTS r1, r2, k1

OneKey == [r \in Requests |-> k1]
NoLimit == [r \in Requests |-> 0]
\* r2 has a snapshot from after the limit was lowered.
LimitLowered == [r \in Requests |-> IF r = r2 THEN 1 ELSE 2]
Block == [r \in Requests |-> {"block"}]
BlockOrReplace == [r \in Requests |-> {"block", "replace"}]

=============================================================================
