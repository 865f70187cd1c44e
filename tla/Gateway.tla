------------------------------ MODULE Gateway ------------------------------
(***************************************************************************)
(* The life of a request in gateway.Handle (internal/gateway/gateway.go):  *)
(* admission, checks, quota receipt, attempts on the alias's upstreams,    *)
(* the buffered and the streamed answer, and the deferred clean-up.        *)
(*                                                                         *)
(* A step is what a goroutine does between two points where others can see *)
(* or change shared state: the connection counters under their mutexes.    *)
(* Upstreams are external; an attempt ends in any way forward can see.     *)
(***************************************************************************)
EXTENDS Integers, FiniteSets

CONSTANTS
    Requests,         \* requests of the gateway
    KeyOf,            \* the API key of a request
    MaxConns,         \* general.max_connections in its snapshot, 0 for no limit
    PerKeyLimit,      \* perKeyConnsLimit
    Providers,        \* the upstreams of the alias
    Failover,         \* failover.enabled
    RetryCount,       \* failover.retry_count
    Streaming,        \* the requests with stream: true
    Strategies        \* output.violation_strategy: the values its snapshot may have
                      \* (a request acts on it at most once)

ASSUME GatewayAssumption ==
    /\ IsFiniteSet(Requests)
    /\ MaxConns \in [Requests -> Nat]
    /\ PerKeyLimit \in Nat
    /\ IsFiniteSet(Providers)
    /\ Failover \in BOOLEAN
    /\ RetryCount \in Nat
    /\ Streaming \subseteq Requests
    /\ Strategies \in [Requests -> SUBSET {"block", "replace", "log"}]

Keys == {KeyOf[r] : r \in Requests}

VARIABLES
    conns,    \* metrics.conns, behind its mutex
    adm,      \* Server.adm: requests in flight of each key, behind admMu
    pc,       \* where each request is
    call      \* its auditParams and loop variables

vars == <<conns, adm, pc, call>>

\* maxAttempts of the failover loop.
MaxAttempts == IF Failover THEN 1 + RetryCount ELSE 1

\* Mutant: auditParams without its default status.
NoDefaultStatus ==
    [status |-> "", err |-> FALSE, res |-> "nil", tried |-> {},
     attempt |-> 0, up |-> {}, verdict |-> [p \in Providers |-> "none"],
     replies |-> 0, accepted |-> FALSE, panicked |-> FALSE]

\* auditParams at the start of Handle and the loop's variables: res is the
\* quota receipt, err says errMsg # "", up holds the current upstream.  The
\* others are history: what was reported to the balancer for each upstream, the
\* responses begun, whether an upstream took the call (an answer that is 2xx, or
\* that ends the call), whether Handle panicked.
NewCall == [status |-> "error", err |-> FALSE, res |-> "nil", tried |-> {},
            attempt |-> 0, up |-> {}, verdict |-> [p \in Providers |-> "none"],
            replies |-> 0, accepted |-> FALSE, panicked |-> FALSE]

Init ==
    /\ conns = 0
    /\ adm = [k \in Keys |-> 0]
    /\ pc = [r \in Requests |-> "new"]
    /\ call = [r \in Requests |-> NewCall]

Goto(r, l) == pc' = [pc EXCEPT ![r] = l]

Floor0(n) == IF n < 0 THEN 0 ELSE n

-----------------------------------------------------------------------------
(* AuthMiddleware and acquireConn *)

\* AuthMiddleware: a look at the counter without counting, then the API key.
\* Handle takes a snapshot of its own; where the limits differ TryAdmit decides.
Authenticate(r) ==
    /\ pc[r] = "new"
    /\ \/ Goto(r, "refused")
       \/ /\ MaxConns[r] = 0 \/ conns < MaxConns[r]
          /\ Goto(r, "auth")
    /\ UNCHANGED <<conns, adm, call>>

\* TryAdmitConn: check and count in one critical section.
TryAdmit(r) ==
    /\ pc[r] = "auth"
    /\ IF MaxConns[r] > 0 /\ conns >= MaxConns[r]
       THEN Goto(r, "refused") /\ UNCHANGED conns
       ELSE conns' = conns + 1 /\ Goto(r, "key")
    /\ UNCHANGED <<adm, call>>

\* Mutant: the key's requests are counted and not limited.
KeyUnlimited(r) ==
    /\ pc[r] = "key"
    /\ adm' = [adm EXCEPT ![KeyOf[r]] = @ + 1]
    /\ Goto(r, "checks")
    /\ UNCHANGED <<conns, call>>

\* The per-key gate under admMu; a refusal still has its slot to give back.
KeyAdmit(r) ==
    /\ pc[r] = "key"
    /\ IF adm[KeyOf[r]] >= PerKeyLimit
       THEN Goto(r, "undo") /\ UNCHANGED adm
       ELSE adm' = [adm EXCEPT ![KeyOf[r]] = @ + 1] /\ Goto(r, "checks")
    /\ UNCHANGED <<conns, call>>

\* ConnDec.
ConnDec == conns' = Floor0(conns - 1)

\* Mutant: the key's refusal forgets the slot it holds.
RefusalKeepsSlot(r) ==
    /\ pc[r] = "undo"
    /\ Goto(r, "refused")
    /\ UNCHANGED <<conns, adm, call>>

UndoAdmit(r) ==
    /\ pc[r] = "undo"
    /\ ConnDec
    /\ Goto(r, "refused")
    /\ UNCHANGED <<adm, call>>

-----------------------------------------------------------------------------
(* Handle up to the first attempt *)

\* Begin a response to the client and leave Handle; the deferred calls follow.
Reply(r, c) ==
    /\ call' = [call EXCEPT ![r] = [c EXCEPT !.replies = @ + 1]]
    /\ Goto(r, "closing")

\* A bad body, an unknown or forbidden alias, the input guard, the rate limiter
\* or the quotas (a refused Reserve leaves ap.res nil).
RejectEarly(r, st) ==
    /\ pc[r] = "checks"
    /\ Reply(r, [call[r] EXCEPT !.status = st, !.err = (st = "error")])
    /\ UNCHANGED <<conns, adm>>

\* CountTokens answers by itself; it has no deferred call but releaseConn.
CountTokens(r) ==
    /\ pc[r] = "checks"
    /\ call' = [call EXCEPT ![r].replies = @ + 1]
    /\ Goto(r, "unconn")
    /\ UNCHANGED <<conns, adm>>

Admitted(r) ==
    /\ pc[r] = "checks"
    /\ call' = [call EXCEPT ![r].res = "open"]
    /\ Goto(r, "pick")
    /\ UNCHANGED <<conns, adm>>

-----------------------------------------------------------------------------
(* The attempts *)

\* Pick, or PickIgnoringCircuit when every untried upstream is open: some
\* upstream not tried yet.
Pick(r, p) ==
    /\ pc[r] = "pick"
    /\ call[r].attempt < MaxAttempts
    /\ p \notin call[r].tried
    /\ call' = [call EXCEPT ![r].tried = @ \cup {p}, ![r].up = {p}]
    /\ Goto(r, "forward")
    /\ UNCHANGED <<conns, adm>>

\* Mutant: only the attempts are counted, not the upstreams left.
AttemptsOnly(r) ==
    /\ pc[r] = "pick"
    /\ call[r].attempt = MaxAttempts
    /\ Reply(r, [call[r] EXCEPT !.status = "error", !.err = TRUE])
    /\ UNCHANGED <<conns, adm>>

\* No attempt or no upstream left: 502.
Exhausted(r) ==
    /\ pc[r] = "pick"
    /\ call[r].attempt = MaxAttempts \/ Providers \subseteq call[r].tried
    /\ Reply(r, [call[r] EXCEPT !.status = "error", !.err = TRUE])
    /\ UNCHANGED <<conns, adm>>

\* RecordFailure or RecordSuccess for the current upstream.
Note(c, v) == [c EXCEPT !.verdict = [p \in Providers |-> IF p \in c.up THEN v ELSE c.verdict[p]]]

\* settleQuota.
Settled(c) == [c EXCEPT !.res = IF @ = "open" THEN "settled" ELSE @]

\* Mutant: a broken stream is retried on another upstream.
RetryBrokenStream(r) ==
    /\ pc[r] \in {"forward", "stream"}
    /\ call' = [call EXCEPT ![r] = [Note(call[r], "failure") EXCEPT !.err = TRUE, !.attempt = @ + 1]]
    /\ Goto(r, "pick")
    /\ UNCHANGED <<conns, adm>>

\* Mutant: a failed attempt is not reported to the balancer.
FailsUnreported(r) ==
    /\ pc[r] = "forward"
    /\ call' = [call EXCEPT ![r].err = TRUE, ![r].attempt = @ + 1]
    /\ Goto(r, "pick")
    /\ UNCHANGED <<conns, adm>>

\* frRetry: no answer, or a retryable status.
AttemptFails(r) ==
    /\ pc[r] = "forward"
    /\ call' = [call EXCEPT ![r] = [Note(call[r], "failure") EXCEPT !.err = TRUE, !.attempt = @ + 1]]
    /\ Goto(r, "pick")
    /\ UNCHANGED <<conns, adm>>

\* frRetry as well: a 2xx whose body cannot be read or parsed.  The upstream took the
\* call, and nothing is settled for it.
BodyUnreadable(r) ==
    /\ pc[r] = "forward"
    /\ r \notin Streaming
    /\ call' = [call EXCEPT ![r] = [Note(call[r], "failure") EXCEPT
                                      !.err = TRUE, !.attempt = @ + 1, !.accepted = TRUE]]
    /\ Goto(r, "pick")
    /\ UNCHANGED <<conns, adm>>

\* Mutant: the receipt of a refused call is left to the deferred Release.
RefusedUnsettled(r) ==
    /\ pc[r] = "forward"
    /\ Reply(r, [call[r] EXCEPT !.status = "error", !.err = TRUE, !.accepted = TRUE])
    /\ UNCHANGED <<conns, adm>>

\* Any other status that is not 2xx ends the call; the receipt is settled.
UpstreamRefuses(r) ==
    /\ pc[r] = "forward"
    /\ Reply(r, Settled([call[r] EXCEPT !.status = "error", !.err = TRUE, !.accepted = TRUE]))
    /\ UNCHANGED <<conns, adm>>

\* forwardBuffered: the output guard blocks the answer.
BufferedBlocked(r) ==
    /\ pc[r] = "forward"
    /\ r \notin Streaming
    /\ "block" \in Strategies[r]
    /\ Reply(r, Settled([call[r] EXCEPT !.status = "blocked", !.accepted = TRUE]))
    /\ UNCHANGED <<conns, adm>>

\* forwardBuffered: the answer is delivered.
BufferedDone(r) ==
    /\ pc[r] = "forward"
    /\ r \notin Streaming
    /\ Reply(r, Settled([Note(call[r], "success") EXCEPT !.status = "ok", !.accepted = TRUE]))
    /\ UNCHANGED <<conns, adm>>

\* forwardStream: 200 and the SSE head are on the wire before the first chunk.
StreamOpen(r) ==
    /\ pc[r] = "forward"
    /\ r \in Streaming
    /\ call' = [call EXCEPT ![r].replies = @ + 1, ![r].accepted = TRUE]
    /\ Goto(r, "stream")
    /\ UNCHANGED <<conns, adm>>

\* Leave forwardStream with frFatal or frDone.
EndStream(r, c) ==
    /\ call' = [call EXCEPT ![r] = c]
    /\ Goto(r, "closing")
    /\ UNCHANGED <<conns, adm>>

\* An error event or a broken read: settled by what was produced.
StreamFails(r) ==
    /\ pc[r] = "stream"
    /\ EndStream(r, Settled([call[r] EXCEPT !.status = "error", !.err = TRUE]))

\* runStreamGuardCheck, strategy block: fail frame, return at once.
StreamBlocked(r) ==
    /\ pc[r] = "stream"
    /\ "block" \in Strategies[r]
    /\ EndStream(r, [call[r] EXCEPT !.status = "blocked"])

\* The strategy replace: the loop stops and the end of forwardStream is reached.
StreamReplaced(r) ==
    /\ pc[r] = "stream"
    /\ "replace" \in Strategies[r]
    /\ EndStream(r, Settled([Note(call[r], "success") EXCEPT !.status = "blocked"]))

\* Mutant: the end of a stream leaves the default status as it is.
StatusForgotten(r) ==
    /\ pc[r] = "stream"
    /\ EndStream(r, Settled(Note(call[r], "success")))

\* The finish signal or the end of the body.
StreamDone(r) ==
    /\ pc[r] = "stream"
    /\ EndStream(r, Settled([Note(call[r], "success") EXCEPT
                                !.status = IF @ = "error" /\ ~call[r].err THEN "ok" ELSE @]))

-----------------------------------------------------------------------------
(* The deferred calls of Handle, last in first out *)

\* A panic anywhere in Handle after the admission unwinds into them; a response
\* not yet begun is gin.Recovery's 500.
Panic(r) ==
    /\ pc[r] \in {"checks", "pick", "forward", "stream"}
    /\ call' = [call EXCEPT ![r].panicked = TRUE, ![r].replies = 1]
    /\ Goto(r, "closing")
    /\ UNCHANGED <<conns, adm>>

\* Release of an open receipt (then the audit row and Observe).
Close(r) ==
    /\ pc[r] = "closing"
    /\ call' = [call EXCEPT ![r].res = IF @ = "open" THEN "released" ELSE @]
    /\ Goto(r, "unconn")
    /\ UNCHANGED <<conns, adm>>

\* releaseConn: first the global counter ...
ReleaseConn(r) ==
    /\ pc[r] = "unconn"
    /\ ConnDec
    /\ Goto(r, "unkey")
    /\ UNCHANGED <<adm, call>>

\* ... then the key's, whose entry is deleted at zero.
ReleaseKey(r) ==
    /\ pc[r] = "unkey"
    /\ adm' = [adm EXCEPT ![KeyOf[r]] = Floor0(@ - 1)]
    /\ Goto(r, "done")
    /\ UNCHANGED <<conns, call>>

Early == {"error", "blocked", "rate_limited", "quota_exceeded"}

\* What a request's goroutine does of its own accord.
Progress(r) ==
    \/ Authenticate(r) \/ TryAdmit(r) \/ KeyAdmit(r) \/ UndoAdmit(r)
    \/ \E st \in Early : RejectEarly(r, st)
    \/ CountTokens(r) \/ Admitted(r)
    \/ \E p \in Providers : Pick(r, p)
    \/ Exhausted(r) \/ AttemptFails(r) \/ BodyUnreadable(r) \/ UpstreamRefuses(r)
    \/ BufferedBlocked(r) \/ BufferedDone(r)
    \/ StreamOpen(r) \/ StreamFails(r) \/ StreamBlocked(r) \/ StreamReplaced(r)
    \/ StreamDone(r)
    \/ Close(r) \/ ReleaseConn(r) \/ ReleaseKey(r)

Step(r) == Progress(r) \/ Panic(r)

Finished == {"refused", "done"}

\* All requests of the instance are over.
Quiescent == (\A r \in Requests : pc[r] \in Finished) /\ UNCHANGED vars

Next == (\E r \in Requests : Step(r)) \/ Quiescent

Spec == Init /\ [][Next]_vars

\* A streamed call, from the attempt on: it has no timeout, neither for the head
\* of the answer nor for its next chunk.
Unbounded(r) == r \in Streaming /\ pc[r] \in {"forward", "stream"}

\* Goroutines run, a buffered call ends by its timeout, a client's body is read
\* within ReadTimeout, and a client reads its answer or goes away.  No panic is needed.
Fairness == \A r \in Requests : WF_vars(~Unbounded(r) /\ Progress(r))

FairSpec == Spec /\ Fairness

-----------------------------------------------------------------------------
(* Properties *)

Verdicts == {"none", "failure", "success"}
Labels == {"new", "auth", "key", "undo", "checks", "pick", "forward", "stream",
           "closing", "unconn", "unkey"} \cup Finished
Call == [status: Early \cup {"ok"}, err: BOOLEAN,
         res: {"nil", "open", "settled", "released"}, tried: SUBSET Providers,
         attempt: Nat, up: SUBSET Providers, verdict: [Providers -> Verdicts],
         replies: Nat, accepted: BOOLEAN, panicked: BOOLEAN]

\* Type invariant.
TypeOK ==
    /\ conns \in Nat
    /\ adm \in [Keys -> Nat]
    /\ pc \in [Requests -> Labels]
    /\ call \in [Requests -> Call]

InHandle == {"checks", "pick", "forward", "stream", "closing"}

SlotLabels == {"key", "undo", "unconn"} \cup InHandle
KeyLabels == {"unconn", "unkey"} \cup InHandle

\* The requests counted in conns, and those counted in adm for key k.
Slots == {r \in Requests : pc[r] \in SlotLabels}
KeySlots(k) == {r \in Requests : KeyOf[r] = k /\ pc[r] \in KeyLabels}

\* Refusals, panics and early returns neither leak nor free twice a connection
\* slot or a slot of a key.
SlotsCounted ==
    /\ conns = Cardinality(Slots)
    /\ \A k \in Keys : adm[k] = Cardinality(KeySlots(k))

\* The requests that passed acquireConn and have not begun releaseConn.
Holders == {r \in Requests : pc[r] \in {"unconn"} \cup InHandle}

\* acquireConn and releaseConn, with their separate critical sections, implement
\* one atomic admission: neither a burst nor a refusal on its way back lets more
\* requests in than the configured limit and the key's limit allow.
Abstract == INSTANCE Admission WITH holders <- Holders
AdmissionRefined == Abstract!Spec

\* A client gets one response: an attempt given up has not begun one, so that
\* failover never starts a second response on a connection.
OneReply ==
    \A r \in Requests : /\ call[r].replies <= 1
                        /\ pc[r] \in {"pick", "forward"} => call[r].replies = 0
                        /\ pc[r] \in {"closing", "done"} => call[r].replies = 1

\* The receipt of a finished call is settled when an upstream's answer was used, and
\* refunded when none was: no upstream took the call, or the answer of one that did
\* could not be read and every other attempt failed.  Apart from these, only a panic
\* and a stream that the guard blocks (before RecordSuccess, unlike a replaced one)
\* are refunded although an upstream took the call.
BlockedStream(r) ==
    /\ r \in Streaming
    /\ call[r].status = "blocked"
    /\ \A p \in call[r].up : call[r].verdict[p] # "success"
AllFailed(c) == \A p \in c.tried : c.verdict[p] = "failure"
ReceiptFollowsUpstream ==
    \A r \in Requests :
        pc[r] = "done" /\ call[r].res # "nil" /\ ~call[r].panicked =>
            call[r].res = IF call[r].accepted /\ ~AllFailed(call[r]) /\ ~BlockedStream(r)
                          THEN "settled" ELSE "released"

\* Each upstream is tried at most once, within the attempts failover allows, and
\* every upstream that failover leaves behind has been reported as failed, none
\* whose answer was used has.
AttemptsReported ==
    \A r \in Requests :
        LET c == call[r] IN
        /\ Cardinality(c.tried) <= MaxAttempts
        /\ \A p \in c.tried \ c.up : c.verdict[p] = "failure"
        /\ \A p \in Providers : c.verdict[p] = "success" => p \in c.up /\ c.accepted
        /\ pc[r] = "stream" \/ c.res = "settled" => \A p \in c.up : c.verdict[p] # "failure"

\* A request outside a streamed call gets to its end and gives its slots back, even
\* with more retries configured than there are upstreams.
SlotsFreed ==
    \A r \in Requests : ~Unbounded(r) ~> pc[r] \in Finished \/ Unbounded(r)

\* gateway.go:943 "SEC-07：无论 ok/blocked/error 都结算（blocked 也已消耗上游）": a
\* stream is settled however it ends.
StreamAlwaysSettled ==
    \A r \in Streaming :
        pc[r] = "done" /\ call[r].accepted /\ ~call[r].panicked => call[r].res = "settled"

\* A call whose answer was delivered in full is an error to audit and metrics
\* only when an attempt failed before, whose message it keeps: gateway.go:324
\* "错误/拦截 → 始终记（便于排查）；成功调用受「仅错误」与采样控制", gateway.go:935.
DeliveredErrorHasCause ==
    \A r \in Requests :
        /\ pc[r] = "done" /\ ~call[r].panicked /\ call[r].status = "error"
        /\ \E p \in Providers : call[r].verdict[p] = "success"
        => \E p \in Providers : call[r].verdict[p] = "failure"

\* The limits as the counters keep them, which makes SlotsCounted and the
\* refinement of Admission inductive.
ConnCap == conns = 0 \/ \E s \in Requests : MaxConns[s] = 0 \/ conns <= MaxConns[s]
KeyCap == \A k \in Keys : adm[k] <= PerKeyLimit
AdmissionInv == SlotsCounted /\ ConnCap /\ KeyCap

=============================================================================
