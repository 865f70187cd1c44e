-------------------------------- MODULE Swrr --------------------------------
(***************************************************************************)
(* Smooth weighted round robin over the upstreams of one alias: the cursor *)
(* in each instance's memory (Balancer.rr) and the cursor that instances   *)
(* share in Redis (internal/slb/slb.go, swrr_remote.go), driven by the     *)
(* failover loop of gateway.Handle.                                        *)
(*                                                                         *)
(* Pick chooses candidates under bl.mu, gives the lock up, and advances a  *)
(* cursor later; requests keep the snapshot they started with.  Which      *)
(* upstreams are healthy and whether Redis is usable is up to Breaker,     *)
(* here any choice.  A cursor map without an entry reads as 0, so that an  *)
(* absent entry is 0.                                                      *)
(***************************************************************************)
EXTENDS Integers, FiniteSets, Functions

CONSTANTS
    Instances,     \* gateway processes
    Calls,         \* requests
    InstOf,        \* the instance of a request
    Providers,     \* ids of upstreams, in the order of the alias's list
    Configs,       \* configurations: weights of the upstreams of the alias
    Healthy,       \* the sets of upstreams whose circuit may be found closed
    Redis          \* "none" (single node), "up", or "flaky": commands may fail

ASSUME SwrrAssumption ==
    /\ InstOf \in [Calls -> Instances]
    /\ Providers \subseteq Nat /\ IsFiniteSet(Providers)
    /\ IsFiniteSet(Configs)     \* weights are machine integers
    /\ \A w \in Configs : DOMAIN w \subseteq Providers /\ \A p \in DOMAIN w : w[p] \in Nat \ {0}
    /\ \E w \in Configs : DOMAIN w # {}
    /\ Healthy \subseteq SUBSET Providers
    /\ Redis \in {"none", "up", "flaky"}

Total(w, S) == SumFunctionOnSet(w, S)

VARIABLES
    cfg,       \* the configuration in force
    rr,        \* cursor of each instance
    shared,    \* cursor in Redis
    call       \* snapshot, tried upstreams and candidates of each request

vars == <<cfg, rr, shared, call>>

Zero == [p \in Providers |-> 0]
Ended == [pc |-> "end", w |-> << >>, tried |-> {}, cands |-> {}]

Init ==
    /\ cfg \in Configs
    /\ rr = [i \in Instances |-> Zero]
    /\ shared = Zero
    /\ call = [c \in Calls |-> Ended]

-----------------------------------------------------------------------------
\* reconcileCursor: entries outside the alias's upstreams are dropped.
reconcileCursor(cw, w) == [p \in Providers |-> IF p \in DOMAIN w THEN cw[p] ELSE 0]

\* swrrPick and swrrScript: every candidate gains its weight, the largest (the
\* first of equals) is picked and pays the weight of all candidates.
Gained(cw, w, cands) == [p \in Providers |-> IF p \in cands THEN cw[p] + w[p] ELSE cw[p]]

\* Mutant: the comparison the wrong way round.
Smallest(cw, w, cands) ==
    LET g == Gained(cw, w, cands)
    IN  CHOOSE p \in cands : \A q \in cands : g[p] < g[q] \/ (g[p] = g[q] /\ p <= q)

Best(cw, w, cands) ==
    LET g == Gained(cw, w, cands)
    IN  CHOOSE p \in cands : \A q \in cands : g[p] > g[q] \/ (g[p] = g[q] /\ p <= q)

\* Mutant: the weight of all upstreams is taken off, healthy or not.
PayForAll(cw, w, cands) ==
    [Gained(cw, w, cands) EXCEPT ![Best(cw, w, cands)] = @ - Total(w, DOMAIN w)]

Advance(cw, w, cands) ==
    [Gained(cw, w, cands) EXCEPT ![Best(cw, w, cands)] = @ - Total(w, cands)]

-----------------------------------------------------------------------------
(* A request: Pick, then PickIgnoringCircuit when no circuit is closed *)

\* Handle reads the alias's upstreams from the snapshot.
Start(c) ==
    /\ call[c].pc = "end"
    /\ call' = [call EXCEPT ![c] = [Ended EXCEPT !.pc = "select", !.w = cfg]]
    /\ UNCHANGED <<cfg, rr, shared>>

Untried(c) == DOMAIN call[c].w \ call[c].tried

\* selectCandidatesLocked when the circuits in h are closed: reconcile, then the
\* untried upstreams with a closed circuit, or else all untried ones.  The first
\* attempt goes to the shared cursor if Redis is there.
Select(c, h) ==
    LET i == InstOf[c]
        closed == Untried(c) \cap h
    IN  /\ call[c].pc = "select"
        /\ Untried(c) # {}
        /\ rr' = [rr EXCEPT ![i] = reconcileCursor(@, call[c].w)]
        /\ \E cursor \in {"remote", "local"} :
              /\ cursor = "remote" => call[c].tried = {} /\ Redis # "none"
              /\ cursor = "local" => call[c].tried # {} \/ Redis # "up"
              /\ call' = [call EXCEPT ![c].pc = cursor,
                           ![c].cands = IF closed = {} THEN Untried(c) ELSE closed]
        /\ UNCHANGED <<cfg, shared>>

\* Forward to p, which will not be tried again.
Forward(c, p) ==
    call' = [call EXCEPT ![c] = [@ EXCEPT !.pc = "forward", !.tried = @ \cup {p}, !.cands = {}]]

\* swrrRemote: the script runs; if its answer is lost the request goes on to its
\* instance's cursor ...
Remote(c) ==
    LET w == call[c].w
        cands == call[c].cands
    IN  /\ call[c].pc = "remote"
        /\ shared' = Advance(shared, w, cands)
        /\ \/ Forward(c, Best(shared, w, cands))
           \/ Redis = "flaky" /\ call' = [call EXCEPT ![c].pc = "local"]
        /\ UNCHANGED <<cfg, rr>>

\* ... as it does if the script does not run.
RemoteFails(c) ==
    /\ call[c].pc = "remote"
    /\ Redis = "flaky"
    /\ call' = [call EXCEPT ![c].pc = "local"]
    /\ UNCHANGED <<cfg, rr, shared>>

\* The second critical section of Pick: swrrPick with the candidates of the first.
Local(c) ==
    LET w == call[c].w
        cands == call[c].cands
        cw == reconcileCursor(rr[InstOf[c]], w)
    IN  /\ call[c].pc = "local"
        /\ rr' = [rr EXCEPT ![InstOf[c]] = Advance(cw, w, cands)]
        /\ Forward(c, Best(cw, w, cands))
        /\ UNCHANGED <<cfg, shared>>

\* The attempt failed and failover goes on ...
Retry(c) ==
    /\ call[c].pc = "forward"
    /\ Untried(c) # {}
    /\ call' = [call EXCEPT ![c].pc = "select"]
    /\ UNCHANGED <<cfg, rr, shared>>

\* ... or the request is over, answered or out of attempts.
End(c) ==
    /\ call[c].pc = "forward"
    /\ call' = [call EXCEPT ![c] = Ended]
    /\ UNCHANGED <<cfg, rr, shared>>

\* The administrator changes the alias's upstreams or weights.
Reload ==
    /\ cfg' \in Configs \ {cfg}
    /\ UNCHANGED <<rr, shared, call>>

CallStep(c) ==
    \/ Start(c) \/ Remote(c) \/ RemoteFails(c) \/ Local(c) \/ Retry(c) \/ End(c)
    \/ \E h \in Healthy : Select(c, h)

Next == (\E c \in Calls : CallStep(c)) \/ Reload

Spec == Init /\ [][Next]_vars

-----------------------------------------------------------------------------
(* Properties *)

\* The shared cursor only moves weight between upstreams, whatever candidates the
\* instances choose, and whether or not they learn the script's answer.
SharedBalanced == Total(shared, Providers) = 0

\* Weight of the largest configuration.
Bound == CHOOSE n \in {Total(w, DOMAIN w) : w \in Configs} :
            \A w \in Configs : Total(w, DOMAIN w) <= n

\* x stays within the limit, and reaches it only where the upstreams are few.
Within(x, limit, few) ==
    /\ -limit <= x /\ x <= limit
    /\ Cardinality(Providers) > few => -limit < x /\ x < limit

\* However circuits open and close, an upstream's debt or credit on the shared
\* cursor is at most half a round for each of the others, and less if there are
\* three or more: an upstream that comes back is neither starved nor flooded.
SharedBounded ==
    \A p \in Providers : Within(2 * shared[p], (Cardinality(Providers) - 1) * Bound, 2)

\* Requests with different snapshots drop entries from each other's instance
\* cursor, so that its sum drifts; an entry gets no farther from 0 than a round
\* for each of the other upstreams, and not so far if there is one.
LocalBounded ==
    \A i \in Instances, p \in Providers : Within(rr[i][p], (Cardinality(Providers) - 1) * Bound, 1)

=============================================================================
