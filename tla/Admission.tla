----------------------------- MODULE Admission -----------------------------
(***************************************************************************)
(* What the gateway's admission control promises: a set of requests that   *)
(* hold a connection slot, entered only below the connection limit (of the *)
(* most generous configuration snapshot in use) and the limit of the key.  *)
(***************************************************************************)
EXTENDS Naturals, FiniteSets

CONSTANTS
    Requests,      \* requests of the gateway
    KeyOf,         \* the API key of a request
    MaxConns,      \* general.max_connections in its snapshot, 0 for no limit
    PerKeyLimit    \* perKeyConnsLimit

VARIABLE holders

SameKey(r) == {s \in holders : KeyOf[s] = KeyOf[r]}

Room == \E s \in Requests : MaxConns[s] = 0 \/ Cardinality(holders) < MaxConns[s]

Init == holders = {}

Acquire(r) ==
    /\ r \notin holders
    /\ Room
    /\ Cardinality(SameKey(r)) < PerKeyLimit
    /\ holders' = holders \cup {r}

Leave(r) ==
    /\ r \in holders
    /\ holders' = holders \ {r}

Next == \E r \in Requests : Acquire(r) \/ Leave(r)

Spec == Init /\ [][Next]_holders

=============================================================================
