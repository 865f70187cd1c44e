----------------------------- MODULE RateLimit -----------------------------
(***************************************************************************)
(* The fixed-window rate limiter of the gateway, in memory (RateLimiter in *)
(* internal/quota/quota.go) and shared by instances through Redis          *)
(* (RedisLimiter in internal/quota/redis_limiter.go, which falls back to   *)
(* an instance's memory).                                                  *)
(*                                                                         *)
(* One API key and alias: windows of different pairs have different keys.  *)
(* The rules are those that match it, in the snapshot's order.  The memory *)
(* limiter reads the clock, waits for its lock and then runs in one        *)
(* critical section; with Redis every rule is a script of its own, between *)
(* which other requests and instances run.                                 *)
(***************************************************************************)
EXTENDS Integers, FiniteSets, Functions

CONSTANTS
    Instances,      \* gateway processes
    Calls,          \* requests
    NumRules,       \* the matching rules are 1..NumRules
    MaxRequests,    \* max_requests of a rule
    WindowLen,      \* window_seconds of a rule
    Deployments,    \* how Redis may be deployed, see redis
    Lag,            \* how long a request may wait for the limiter's lock
    MaxNow          \* bound on the clock

Rules == 1..NumRules

ASSUME RateLimitAssumption ==
    /\ IsFiniteSet(Instances)
    /\ IsFiniteSet(Calls)
    /\ NumRules \in Nat
    /\ MaxRequests \in [Rules -> Nat \ {0}]
    /\ WindowLen \in [Rules -> Nat \ {0}]
    /\ Deployments \subseteq {"none", "up", "flaky"}
    /\ Lag \in Nat
    /\ MaxNow \in Nat

VARIABLES
    redis,       \* "none" (RateLimiter), "up", or "flaky": scripts may fail
    now,         \* wall clock
    local,       \* windows in the memory of each instance
    hits,        \* refusals of each rule not yet flushed, per instance
    flushing,    \* the hits FlushHits has taken and not yet written
    totalHits,   \* total_hits of each rule in the database
    shared,      \* window keys in Redis
    degraded,    \* RedisLimiter.degraded of each instance
    watchers,    \* its watchRecovery goroutines
    call,        \* where each request is, its instance and rule, the time it read
    passed,      \* history: requests each rule let pass at each time
    refused      \* history: refusals of each rule, less those a failed flush lost

vars == <<redis, now, local, hits, flushing, totalHits, shared, degraded, watchers, call,
          passed, refused>>

NoWindow == [n |-> 0, until |-> -1]
NoHits == [r \in Rules |-> 0]

\* An instance that finds Redis unreachable when it starts is degraded, and
\* nothing watches for the recovery.
Init ==
    /\ redis \in Deployments
    /\ now = 0
    /\ local = [i \in Instances |-> [r \in Rules |-> NoWindow]]
    /\ hits = [i \in Instances |-> NoHits]
    /\ flushing = [i \in Instances |-> NoHits]
    /\ totalHits = NoHits
    /\ shared = [r \in Rules |-> NoWindow]
    /\ degraded \in [Instances -> IF redis = "flaky" THEN BOOLEAN ELSE {FALSE}]
    /\ watchers = [i \in Instances |-> 0]
    /\ call \in [Calls -> [pc: {"new"}, inst: Instances, rule: {1}, at: {0}]]
    /\ passed = [r \in Rules |-> [t \in 0..MaxNow |-> 0]]
    /\ refused = NoHits

-----------------------------------------------------------------------------
(* Windows *)

\* The memory window counts a request that has read the time t: a new one, from
\* t on, once its end lies before t.
MemoryWindow(w, r, t) ==
    IF t > w.until THEN [n |-> 1, until |-> t + WindowLen[r]]
                   ELSE [w EXCEPT !.n = @ + 1]

\* luaIncrWindow: INCR, with the expiry set by the first request of a window.
\* The key is gone at its expiry.
RedisWindow(w, r) ==
    IF now >= w.until THEN [n |-> 1, until |-> now + WindowLen[r]]
                      ELSE [w EXCEPT !.n = @ + 1]

Over(w, r) == w.n > MaxRequests[r]

\* The request is answered; of what it held nothing is used again.
Answer(c, l) == call' = [call EXCEPT ![c].pc = l, ![c].rule = 1, ![c].at = 0]

\* The rules in S let a request pass.
Pass(S) ==
    passed' = [r \in Rules |-> IF r \in S THEN [passed[r] EXCEPT ![now] = @ + 1] ELSE passed[r]]

\* RateLimiter.Allow reads the clock ...
ReadClock(c) == call' = [call EXCEPT ![c].pc = "lock", ![c].at = now]

\* ... and under its lock rules count the request one after the other up to the
\* first that refuses it; what earlier rules have counted stays.
AllowInMemory(c) ==
    LET i == call[c].inst
        seen == [r \in Rules |-> MemoryWindow(local[i][r], r, call[c].at)]
        over == {r \in Rules : Over(seen[r], r)}
        reached == {r \in Rules : \A s \in over : r <= s}
    IN  /\ local' = [local EXCEPT ![i] = [r \in Rules |-> IF r \in reached THEN seen[r] ELSE @[r]]]
        /\ Pass(reached \ over)
        /\ Answer(c, IF over = {} THEN "allowed" ELSE "refused")
        /\ hits' = [hits EXCEPT ![i] = [r \in Rules |-> IF r \in reached \cap over THEN @[r] + 1 ELSE @[r]]]
        /\ refused' = [r \in Rules |-> IF r \in reached \cap over THEN refused[r] + 1 ELSE refused[r]]

MemoryBegin(c) ==
    /\ call[c].pc = "new"
    /\ redis = "none" \/ degraded[call[c].inst]
    /\ ReadClock(c)
    /\ UNCHANGED <<redis, now, local, hits, flushing, totalHits, shared, degraded, watchers,
                   passed, refused>>

MemoryAllow(c) ==
    /\ call[c].pc = "lock"
    /\ AllowInMemory(c)
    /\ UNCHANGED <<redis, now, flushing, totalHits, shared, degraded, watchers>>

-----------------------------------------------------------------------------
(* RedisLimiter *)

RedisAllow(c) ==
    /\ call[c].pc = "new"
    /\ redis # "none"
    /\ ~degraded[call[c].inst]
    /\ call' = [call EXCEPT ![c].pc = "rules"]
    /\ UNCHANGED <<redis, now, local, hits, flushing, totalHits, shared, degraded, watchers,
                   passed, refused>>

\* A script's refusal is not counted anywhere: the history alone has it.
Refuse(r) == refused' = [refused EXCEPT ![r] = @ + 1]

\* Mutant: the increment happens in one script, the comparison uses an older count.
CompareFirst(c, r) ==
    /\ shared' = [shared EXCEPT ![r] = RedisWindow(@, r)]
    /\ IF shared[r].n > MaxRequests[r] /\ now < shared[r].until
       THEN Answer(c, "refused") /\ Refuse(r) /\ UNCHANGED passed
       ELSE call' = [call EXCEPT ![c].rule = r + 1] /\ Pass({r}) /\ UNCHANGED refused

\* The script of one rule and the comparison with max_requests.
IncrRule(c, r) ==
    /\ shared' = [shared EXCEPT ![r] = RedisWindow(@, r)]
    /\ IF Over(shared'[r], r)
       THEN Answer(c, "refused") /\ Refuse(r) /\ UNCHANGED passed
       ELSE call' = [call EXCEPT ![c].rule = r + 1] /\ Pass({r}) /\ UNCHANGED refused

RedisRule(c) ==
    /\ call[c].pc = "rules"
    /\ call[c].rule \in Rules
    /\ IncrRule(c, call[c].rule)
    /\ UNCHANGED <<redis, now, local, hits, flushing, totalHits, degraded, watchers>>

RedisDone(c) ==
    /\ call[c].pc = "rules"
    /\ call[c].rule \notin Rules
    /\ Answer(c, "allowed")
    /\ UNCHANGED <<redis, now, local, hits, flushing, totalHits, shared, degraded, watchers, passed,
                   refused>>

\* degraded, and a goroutine that watches for the recovery.
Degrade(i) ==
    /\ degraded' = [degraded EXCEPT ![i] = TRUE]
    /\ watchers' = [watchers EXCEPT ![i] = @ + 1]

\* A script fails, after or before it took effect: the request starts again with
\* the instance's own windows.
RedisFails(c) ==
    /\ call[c].pc = "rules"
    /\ call[c].rule \in Rules
    /\ redis = "flaky"
    /\ \/ UNCHANGED shared
       \/ shared' = [shared EXCEPT ![call[c].rule] = RedisWindow(@, call[c].rule)]
    /\ Degrade(call[c].inst)
    /\ ReadClock(c)
    /\ UNCHANGED <<redis, now, local, hits, flushing, totalHits, passed, refused>>

\* watchRecovery: a ping is answered.
Recover(i) ==
    /\ watchers[i] > 0
    /\ degraded' = [degraded EXCEPT ![i] = FALSE]
    /\ watchers' = [watchers EXCEPT ![i] = @ - 1]
    /\ UNCHANGED <<redis, now, local, hits, flushing, totalHits, shared, call, passed, refused>>

-----------------------------------------------------------------------------
(* FlushHits of the memory limiter, from the minute job; RedisLimiter's is empty *)

\* Mutant: the map is written out and not replaced.
FlushKeeps(i) ==
    /\ redis = "none"
    /\ flushing[i] = NoHits
    /\ flushing' = [flushing EXCEPT ![i] = hits[i]]
    /\ UNCHANGED <<redis, now, local, hits, totalHits, shared, degraded, watchers, call, passed, refused>>

\* The counts are taken under the lock ...
FlushHits(i) ==
    /\ redis = "none"
    /\ flushing[i] = NoHits
    /\ flushing' = [flushing EXCEPT ![i] = hits[i]]
    /\ hits' = [hits EXCEPT ![i] = NoHits]
    /\ UNCHANGED <<redis, now, local, totalHits, shared, degraded, watchers, call, passed, refused>>

\* ... and added to the rules' rows; a failed update is not noticed.
FlushRule(i, r) ==
    /\ flushing[i][r] > 0
    /\ flushing' = [flushing EXCEPT ![i][r] = 0]
    /\ \/ totalHits' = [totalHits EXCEPT ![r] = @ + flushing[i][r]] /\ UNCHANGED refused
       \/ refused' = [refused EXCEPT ![r] = @ - flushing[i][r]] /\ UNCHANGED totalHits
    /\ UNCHANGED <<redis, now, local, hits, shared, degraded, watchers, call, passed>>

\* The lock is held for a few comparisons: nobody waits longer than Lag.
Tick ==
    /\ now < MaxNow
    /\ \A c \in Calls : call[c].pc = "lock" => now < call[c].at + Lag
    /\ now' = now + 1
    /\ UNCHANGED <<redis, local, hits, flushing, totalHits, shared, degraded, watchers, call,
                   passed, refused>>

Next ==
    \/ \E c \in Calls : \/ MemoryBegin(c) \/ MemoryAllow(c) \/ RedisAllow(c) \/ RedisRule(c) \/ RedisDone(c)
                        \/ RedisFails(c)
    \/ \E i \in Instances : \/ Recover(i)
                            \/ FlushHits(i)
                            \/ \E r \in Rules : FlushRule(i, r)
    \/ Tick

Spec == Init /\ [][Next]_vars

-----------------------------------------------------------------------------
(* Properties *)

\* Counters a rule has: one for all instances while Redis is there, one for each
\* instance without Redis, both when Redis comes and goes.
Counters == CASE redis = "up" -> 1
              [] redis = "none" -> Cardinality(Instances)
              [] redis = "flaky" -> 1 + Cardinality(Instances)

\* The spans a rule bounds: as long as its window over Redis, whose scripts read the
\* clock they run at; in memory shorter by what the clock has moved on while a request
\* waited for the lock, which counts in a window that is over or opens one that began
\* before it.
Span(r) == IF redis = "up" THEN WindowLen[r] ELSE WindowLen[r] - Lag

\* In any such span a rule lets at most twice max_requests pass for each of its
\* counters (two fixed windows can meet), no matter how requests of several
\* instances, rules and fallbacks to memory interleave.
SpanCap ==
    \A r \in Rules, t \in 0..MaxNow :
        t + Span(r) - 1 <= MaxNow =>
            SumFunctionOnSet(passed[r], t..(t + Span(r) - 1)) <= 2 * MaxRequests[r] * Counters

\* total_hits of a rule, with what is counted and on its way.
Hits(r) == totalHits[r] + SumFunction([i \in Instances |-> hits[i][r] + flushing[i][r]])

\* Without Redis, total_hits counts every refusal once (less what failed updates
\* lost), although requests are refused while FlushHits writes.
HitsCounted == redis = "none" => \A r \in Rules : Hits(r) = refused[r]

=============================================================================
