------------------------------ MODULE Breaker ------------------------------
(***************************************************************************)
(* The circuit breaker of one provider in several gateway instances that   *)
(* share its open state through a Redis key (internal/slb/slb.go).         *)
(*                                                                         *)
(* A step is a critical section of breaker.mu or one Redis command; a call *)
(* that records an outcome does its local part and its Redis part in       *)
(* separate steps.  Redis is external: a command works, or fails, or works *)
(* and its answer is lost.  Breakers of different providers share only the *)
(* redisDown flag, which Elsewhere stands for.                             *)
(***************************************************************************)
EXTENDS Integers

CONSTANTS
    Instances,        \* gateway processes
    Calls,            \* goroutines that record outcomes: requests, health probes
    InstOf,           \* the instance of a call
    Threshold,        \* failover.circuit_failure_threshold, failover.enabled being set
    ResetTime,        \* failover.circuit_reset_seconds
    Throttle,         \* one second: the least time between two reads of the key
    MaxNow,           \* bound on the clock
    MaxFails,         \* bound on the failure count
    MaxWatchers       \* bound on the watchRedis goroutines of an instance

ASSUME BreakerAssumption ==
    /\ InstOf \in [Calls -> Instances]
    /\ Threshold \in Nat \ {0}
    /\ ResetTime \in Nat \ {0}
    /\ Throttle \in Nat \ {0}
    /\ MaxNow \in Nat
    /\ MaxFails \in Nat
    /\ MaxWatchers \in Nat \ {0}

VARIABLES
    now,         \* the clock, from 1: 0 is the zero time.Time
    br,          \* breaker of each instance
    down,        \* redisDown of each instance
    watchers,    \* its watchRedis goroutines
    key,         \* the shared key: open until, 0 when there is none
    call,        \* the Redis part a call has still to do
    due          \* history: since when an instance can know the key's state

vars == <<now, br, down, watchers, key, call, due>>

NoBreaker == [fails |-> 0, openUntil |-> 0, remoteUntil |-> 0, checkedAt |-> 1 - Throttle]
Idle == [pc |-> "idle", until |-> 0]

Init ==
    /\ now = 1
    /\ br = [i \in Instances |-> NoBreaker]
    /\ down = [i \in Instances |-> FALSE]
    /\ watchers = [i \in Instances |-> 0]
    /\ key = 0
    /\ call = [c \in Calls |-> Idle]
    /\ due = [i \in Instances |-> 1]

-----------------------------------------------------------------------------
(* Redis and its failures *)

\* The key's TTL ends with the time it holds.
KeyOpen == now < key

\* Mutant: an error is remembered in the flag and nobody watches.
DegradeUnwatched(i) ==
    /\ down' = [down EXCEPT ![i] = TRUE]
    /\ UNCHANGED watchers

\* A command failed: redisDown, and a goroutine that watches for the recovery.
Degrade(i) ==
    /\ watchers[i] < MaxWatchers
    /\ down' = [down EXCEPT ![i] = TRUE]
    /\ watchers' = [watchers EXCEPT ![i] = @ + 1]

Fine == UNCHANGED <<down, watchers>>

\* A Redis client starts degraded when SetRedis cannot reach the server, and
\* becomes so when another command of the instance fails (another provider's
\* breaker, the round-robin cursor, HealthList's read for an unused provider).
Elsewhere(i) ==
    /\ ~down[i]
    /\ Degrade(i)
    /\ UNCHANGED <<now, br, key, call, due>>

\* watchRedis: a ping is answered.
Recover(i) ==
    /\ watchers[i] > 0
    /\ down' = [down EXCEPT ![i] = FALSE]
    /\ watchers' = [watchers EXCEPT ![i] = @ - 1]
    /\ due' = [due EXCEPT ![i] = now]
    /\ UNCHANGED <<now, br, key, call>>

-----------------------------------------------------------------------------
(* healthy *)

LocallyOpen(i) == now < br[i].openUntil

\* The local circuit has run out: half open, the count starts again.
HalfOpen(b) == IF b.openUntil # 0 THEN [b EXCEPT !.openUntil = 0, !.fails = 0] ELSE b

\* The same for the cached shared circuit.
RemoteHalfOpen(b) ==
    IF b.remoteUntil > 0 /\ now >= b.remoteUntil
    THEN [b EXCEPT !.remoteUntil = 0, !.fails = 0] ELSE b

\* Mutant: a key that is gone leaves the cached value alone.
KeepOnNil(b, v) ==
    RemoteHalfOpen([b EXCEPT !.checkedAt = now, !.remoteUntil = IF v = 0 THEN @ ELSE v])

\* The shared state has been read as v.
Cached(b, v) == RemoteHalfOpen([b EXCEPT !.checkedAt = now, !.remoteUntil = v])

MayRead(i) == ~down[i] /\ now - br[i].checkedAt >= Throttle

\* What GET answers.
Answer == IF KeyOpen THEN key ELSE 0

\* healthy, from Pick or HealthList, on a circuit that is not open locally: at
\* most one read of the key a second; a read that fails counts as not open.
Check(i) ==
    /\ ~LocallyOpen(i)
    /\ LET b == HalfOpen(br[i])
       IN  \/ /\ ~MayRead(i)
              /\ br' = [br EXCEPT ![i] = RemoteHalfOpen(b)]
              /\ Fine
           \/ /\ MayRead(i)
              /\ br' = [br EXCEPT ![i] = Cached(b, Answer)]
              /\ Fine
           \/ /\ MayRead(i)
              /\ br' = [br EXCEPT ![i] = Cached(b, 0)]
              /\ Degrade(i)
    /\ UNCHANGED <<now, key, call, due>>

-----------------------------------------------------------------------------
(* RecordSuccess and RecordFailure *)

\* The local part of RecordSuccess.
RecordSuccess(c) ==
    LET i == InstOf[c]
    IN  /\ call[c].pc = "idle"
        /\ br' = [br EXCEPT ![i].fails = 0, ![i].openUntil = 0, ![i].remoteUntil = 0]
        /\ call' = [call EXCEPT ![c].pc = "clear"]
        /\ due' = [due EXCEPT ![i] = now]
        /\ UNCHANGED <<now, down, watchers, key>>

\* The local part of RecordFailure; at the threshold the circuit opens.
RecordFailure(c) ==
    LET i == InstOf[c]
        n == br[i].fails + 1
    IN  /\ call[c].pc = "idle"
        /\ n <= MaxFails
        /\ IF n >= Threshold
           THEN /\ br' = [br EXCEPT ![i].fails = n, ![i].openUntil = now + ResetTime]
                /\ call' = [call EXCEPT ![c] = [pc |-> "publish", until |-> now + ResetTime]]
           ELSE /\ br' = [br EXCEPT ![i].fails = n]
                /\ UNCHANGED call
        /\ UNCHANGED <<now, down, watchers, key, due>>

\* cbClear and cbPublishOpen do nothing when degraded, nor is an open that has
\* run out published.
RemoteSkip(c) ==
    /\ call[c].pc \in {"clear", "publish"}
    /\ down[InstOf[c]] \/ (call[c].pc = "publish" /\ call[c].until <= now)
    /\ call' = [call EXCEPT ![c] = Idle]
    /\ UNCHANGED <<now, br, down, watchers, key, due>>

RemoteBegin(c) ==
    /\ call[c].pc \in {"clear", "publish"}
    /\ ~down[InstOf[c]]
    /\ call[c].pc = "publish" => call[c].until > now
    /\ call' = [call EXCEPT ![c].pc = IF @ = "clear" THEN "del" ELSE "set"]
    /\ UNCHANGED <<now, br, down, watchers, key, due>>

\* Mutant: the key holds the end of the circuit with the reset time on top.
WriteKeyAddsTTL(v) ==
    /\ key' = IF v = 0 THEN 0 ELSE v + ResetTime
    /\ due' = [i \in Instances |-> now]

\* The key changes; every instance has to find out.
WriteKey(v) ==
    /\ key' = v
    /\ due' = [i \in Instances |-> now]

\* SET or DEL is carried out, and its answer may be lost ...
WriteShared(c) ==
    /\ call[c].pc \in {"set", "del"}
    /\ WriteKey(IF call[c].pc = "set" THEN call[c].until ELSE 0)
    /\ call' = [call EXCEPT ![c] = Idle]
    /\ Fine \/ Degrade(InstOf[c])
    /\ UNCHANGED <<now, br>>

\* ... or it never arrives.
WriteFails(c) ==
    /\ call[c].pc \in {"set", "del"}
    /\ Degrade(InstOf[c])
    /\ call' = [call EXCEPT ![c] = Idle]
    /\ UNCHANGED <<now, br, key, due>>

Tick ==
    /\ now < MaxNow
    /\ now' = now + 1
    /\ UNCHANGED <<br, down, watchers, key, call, due>>

CallStep(c) ==
    \/ RecordSuccess(c) \/ RecordFailure(c)
    \/ RemoteSkip(c) \/ RemoteBegin(c) \/ WriteShared(c) \/ WriteFails(c)

InstanceStep(i) == Elsewhere(i) \/ Recover(i) \/ Check(i)

Next ==
    \/ \E i \in Instances : InstanceStep(i)
    \/ \E c \in Calls : CallStep(c)
    \/ Tick

Spec == Init /\ [][Next]_vars

\* watchRedis pings every five seconds and Redis answers in the end.
FairSpec == Spec /\ \A i \in Instances : WF_vars(Recover(i))

-----------------------------------------------------------------------------
(* Properties *)

Breakers == [fails: Nat, openUntil: Nat, remoteUntil: Nat, checkedAt: Int]

Types ==
    /\ now \in Nat
    /\ br \in [Instances -> Breakers]
    /\ down \in [Instances -> BOOLEAN]
    /\ watchers \in [Instances -> Nat]
    /\ key \in Nat
    /\ call \in [Calls -> [pc: {"idle", "clear", "publish", "del", "set"}, until: Nat]]
    /\ due \in [Instances -> Nat]

\* No circuit outlasts the reset time that begins now.
Bounded(until) == until <= now + ResetTime

\* Type invariant, with the range of the instants: a circuit is open for the
\* reset time at most, whether it is the instance's own, the shared one, the copy
\* of it that an instance keeps, or one that is about to be published.
TypeOK ==
    /\ Types
    /\ Bounded(key)
    /\ \A i \in Instances : Bounded(br[i].openUntil) /\ Bounded(br[i].remoteUntil)
    /\ \A c \in Calls : Bounded(call[c].until)

\* What healthy would answer now if a read succeeds.
Available(i) ==
    /\ ~LocallyOpen(i)
    /\ now >= IF MayRead(i) THEN Answer ELSE br[i].remoteUntil

\* Whatever the interleaving of publications, clears, throttled reads, lost
\* answers and recoveries: a second after the key changed, or after an instance
\* recovered or cleared its cache, an instance that is not degraded skips the
\* provider exactly while its own circuit or the shared one is open.
InSync ==
    \A i \in Instances :
        ~down[i] /\ now >= due[i] + Throttle =>
            (Available(i) <=> ~LocallyOpen(i) /\ ~KeyOpen)

\* An instance that lost Redis does not stay degraded once Redis answers.
Recovers == \A i \in Instances : down[i] ~> ~down[i]

\* What makes InSync inductive: a read later than the last change knows the key.
CacheCurrent(i) ==
    ~down[i] /\ br[i].checkedAt > due[i] =>
        br[i].remoteUntil = key \/ (br[i].remoteUntil <= now /\ key <= now)

SyncInv ==
    \A i \in Instances : /\ br[i].checkedAt <= now
                         /\ due[i] <= now
                         /\ CacheCurrent(i)
                         /\ down[i] => watchers[i] > 0

=============================================================================
