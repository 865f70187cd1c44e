---------------------------- MODULE LimiterProofs ----------------------------
(* Proofs about RateLimit, for any number of instances, requests and rules,   *)
(* every limit and window, and every way Redis may be deployed: a rule lets   *)
(* no more than two windows of its limit pass for each counter it has, and    *)
(* without Redis the flush of the hits counts every refusal once.             *)
EXTENDS RateLimit, Sums

\* What the instances have counted of a rule and not yet written.
Unwritten(h, f, r) == [i \in Instances |-> h[i][r] + f[i][r]]

LEMMA UnwrittenSum ==
    \A h, f, r : SumFunction(Unwritten(h, f, r)) = SumFunctionOnSet(Unwritten(h, f, r), Instances)
<1>1. \A g : SumFunction(g) = SumFunctionOnSet(g, DOMAIN g)
  BY DEF SumFunction
<1>2. \A h, f, r : DOMAIN Unwritten(h, f, r) = Instances
  BY DEF Unwritten
<1> QED BY <1>1, <1>2, Zenon

Written(h, f, t, n, r) == t[r] + SumFunctionOnSet(Unwritten(h, f, r), Instances) = n[r]

\* In memory alone the history is what the instances and the rows have.
AllWritten == redis = "none" => \A r \in Rules : Written(hits, flushing, totalHits, refused, r)

HitCounts == [Instances -> [Rules -> Int]]

\* Where requests are, and that scripts run only where there is Redis.
CallsPlaced ==
    /\ DOMAIN call = Calls
    /\ \A c \in Calls : /\ DOMAIN call[c] = {"pc", "inst", "rule", "at"}
                        /\ call[c].inst \in Instances
                        /\ call[c].pc = "rules" => redis # "none"

HitsInv ==
    /\ hits \in HitCounts /\ flushing \in HitCounts
    /\ totalHits \in [Rules -> Int] /\ refused \in [Rules -> Int]
    /\ CallsPlaced
    /\ AllWritten

LEMMA CountedIs == HitsCounted <=> AllWritten
<1>1. HitsCounted <=>
         (redis = "none" => \A r \in Rules : totalHits[r] + SumFunction(Unwritten(hits, flushing, r)) = refused[r])
  BY DEF HitsCounted, Hits, Unwritten
<1> QED BY <1>1, UnwrittenSum, Zenon DEF Written, AllWritten

\* One instance's count of a rule changes, and the rule's row or history with it.
LEMMA WrittenMoves ==
    ASSUME IsFiniteSet(Instances), NEW r, NEW i \in Instances,
           \A j \in Instances : Unwritten(hits, flushing, r)[j] \in Int,
           \A j \in Instances : Unwritten(hits', flushing', r)[j] \in Int,
           \A j \in Instances : j # i => Unwritten(hits', flushing', r)[j] = Unwritten(hits, flushing, r)[j],
           totalHits[r] \in Int, refused[r] \in Int, totalHits'[r] \in Int, refused'[r] \in Int,
           (totalHits'[r] - totalHits[r]) + (Unwritten(hits', flushing', r)[i] - Unwritten(hits, flushing, r)[i])
              = refused'[r] - refused[r],
           Written(hits, flushing, totalHits, refused, r)
    PROVE  Written(hits', flushing', totalHits', refused', r)
<1> DEFINE a == Unwritten(hits, flushing, r)
           b == Unwritten(hits', flushing', r)
           d == b[i] - a[i]
<1>0. d \in Int /\ b[i] = a[i] + d /\ (totalHits'[r] - totalHits[r]) + d = refused'[r] - refused[r]
  OBVIOUS
<1> HIDE DEF d
<1>1. /\ SumFunctionOnSet(b, Instances) = SumFunctionOnSet(a, Instances) + d
      /\ SumFunctionOnSet(a, Instances) \in Int
  BY <1>0, SumShift
<1>2. totalHits[r] + SumFunctionOnSet(a, Instances) = refused[r]
  BY DEF Written
<1> HIDE DEF a, b
<1>3. totalHits'[r] + SumFunctionOnSet(b, Instances) = refused'[r]
  BY <1>0, <1>1, <1>2
<1> QED BY <1>3 DEF Written, b

LEMMA HitsStart == Init => HitsInv
<1> SUFFICES ASSUME Init PROVE HitsInv
  OBVIOUS
<1>1. IsFiniteSet(Instances)
  BY RateLimitAssumption DEF RateLimitAssumption
<1>2. /\ hits = [i \in Instances |-> [r \in Rules |-> 0]]
      /\ flushing = hits
      /\ totalHits = [r \in Rules |-> 0] /\ refused = totalHits
      /\ call \in [Calls -> [pc: {"new"}, inst: Instances, rule: {1}, at: {0}]]
  BY DEF Init, NoHits
<1>3. ASSUME NEW r \in Rules PROVE Written(hits, flushing, totalHits, refused, r)
  <2>1. \A i \in Instances : Unwritten(hits, flushing, r)[i] = 0
    BY <1>2 DEF Unwritten
  <2>2. SumFunctionOnSet(Unwritten(hits, flushing, r), Instances) = 0
    BY <1>1, <2>1, SumZeros
  <2> QED BY <1>2, <2>2 DEF Written
<1>4. AllWritten
  BY <1>3 DEF AllWritten
<1>5. CallsPlaced
  BY <1>2 DEF CallsPlaced
<1> QED BY <1>2, <1>4, <1>5 DEF HitsInv, HitCounts

LEMMA PlacedAnswered ==
    ASSUME CallsPlaced, NEW c \in Calls, NEW l \in {"allowed", "refused"}, Answer(c, l), UNCHANGED redis
    PROVE  CallsPlaced'
BY DEF CallsPlaced, Answer

\* A refusal in memory is counted in the instance's map and in the history.
LEMMA HitsOfRefusal ==
    ASSUME IsFiniteSet(Instances), HitsInv, NEW c \in Calls, AllowInMemory(c),
           UNCHANGED <<flushing, totalHits, redis>>
    PROVE  HitsInv'
<1> DEFINE i == call[c].inst
           seen == [r \in Rules |-> MemoryWindow(local[i][r], r, call[c].at)]
           over == {r \in Rules : Over(seen[r], r)}
           reached == {r \in Rules : \A s \in over : r <= s}
<1>1. PICK X : /\ hits' = [hits EXCEPT ![i] = [r \in Rules |-> IF r \in X THEN @[r] + 1 ELSE @[r]]]
               /\ refused' = [r \in Rules |-> IF r \in X THEN refused[r] + 1 ELSE refused[r]]
  <2>1. /\ hits' = [hits EXCEPT ![i] = [r \in Rules |-> IF r \in reached \cap over THEN @[r] + 1 ELSE @[r]]]
        /\ refused' = [r \in Rules |-> IF r \in reached \cap over THEN refused[r] + 1 ELSE refused[r]]
    BY DEF AllowInMemory
  <2> QED BY <2>1
<1>2. PICK l \in {"allowed", "refused"} : Answer(c, l)
  BY DEF AllowInMemory
<1>3. i \in Instances
  BY DEF HitsInv, CallsPlaced
<1> HIDE DEF i
<1>4. hits' \in HitCounts /\ refused' \in [Rules -> Int]
  BY <1>1, <1>3 DEF HitsInv, HitCounts
<1>5. CallsPlaced'
  BY <1>2, PlacedAnswered DEF HitsInv
<1>6. ASSUME NEW r \in Rules PROVE (redis = "none" => Written(hits', flushing', totalHits', refused', r))
  <2> SUFFICES ASSUME redis = "none" PROVE Written(hits', flushing', totalHits', refused', r)
    OBVIOUS
  <2> DEFINE d == IF r \in X THEN 1 ELSE 0
  <2>1. /\ hits'[i][r] = hits[i][r] + d /\ refused'[r] = refused[r] + d
        /\ \A j \in Instances \ {i} : hits'[j][r] = hits[j][r]
    BY <1>1, <1>3 DEF HitsInv, HitCounts
  <2>2. d \in Int
    OBVIOUS
  <2> HIDE DEF d
  <2>3. /\ hits \in HitCounts /\ flushing \in HitCounts
        /\ totalHits \in [Rules -> Int] /\ refused \in [Rules -> Int]
        /\ Written(hits, flushing, totalHits, refused, r)
    BY DEF HitsInv, AllWritten
  <2>4. /\ \A j \in Instances : Unwritten(hits, flushing, r)[j] \in Int
        /\ \A j \in Instances : Unwritten(hits', flushing', r)[j] \in Int
        /\ \A j \in Instances : j # i => Unwritten(hits', flushing', r)[j] = Unwritten(hits, flushing, r)[j]
        /\ Unwritten(hits', flushing', r)[i] = Unwritten(hits, flushing, r)[i] + d
    BY <1>3, <1>4, <2>1, <2>2, <2>3 DEF HitCounts, Unwritten
  <2>5. /\ totalHits[r] \in Int /\ refused[r] \in Int /\ refused'[r] \in Int /\ totalHits'[r] = totalHits[r]
        /\ Written(hits, flushing, totalHits, refused, r)
    BY <1>4, <2>3
  <2>6. Unwritten(hits', flushing', r)[i] - Unwritten(hits, flushing, r)[i] = refused'[r] - refused[r]
    BY <1>3, <2>1, <2>2, <2>4, <2>5
  <2> QED BY <1>3, <2>4, <2>5, <2>6, WrittenMoves
<1>7. AllWritten'
  BY <1>6 DEF AllWritten
<1> QED BY <1>4, <1>5, <1>7 DEF HitsInv

LEMMA HitsKept == HitsInv /\ [Next]_vars => HitsInv'
<1> SUFFICES ASSUME HitsInv, [Next]_vars PROVE HitsInv'
  OBVIOUS
<1>0. IsFiniteSet(Instances)
  BY RateLimitAssumption DEF RateLimitAssumption
<1> DEFINE Same == UNCHANGED <<hits, flushing, totalHits, refused, redis>>
<1>1. ASSUME Same, CallsPlaced' PROVE HitsInv'
  BY <1>1 DEF HitsInv, AllWritten
<1>p. CallsPlaced
  BY DEF HitsInv
<1>a. ASSUME NEW c \in Calls, ReadClock(c), UNCHANGED redis PROVE CallsPlaced'
  BY <1>p, <1>a DEF CallsPlaced, ReadClock
<1>b. ASSUME NEW c \in Calls, MemoryBegin(c) PROVE HitsInv'
  BY <1>1, <1>a, <1>b DEF MemoryBegin
<1>2. ASSUME NEW c \in Calls, MemoryAllow(c) PROVE HitsInv'
  BY <1>0, <1>2, HitsOfRefusal DEF MemoryAllow
<1>3. ASSUME NEW c \in Calls, RedisAllow(c) PROVE HitsInv'
  <2>1. CallsPlaced'
    BY <1>p, <1>3 DEF RedisAllow, CallsPlaced
  <2> QED BY <1>1, <1>3, <2>1 DEF RedisAllow
<1>4. ASSUME NEW c \in Calls, RedisRule(c) PROVE HitsInv'
  <2>1. PICK k \in Rules : k = call[c].rule
    BY <1>4 DEF RedisRule
  <2>2. /\ UNCHANGED <<hits, flushing, totalHits, redis>> /\ redis # "none"
        /\ \/ Answer(c, "refused") /\ refused' = [refused EXCEPT ![k] = @ + 1]
           \/ call' = [call EXCEPT ![c].rule = k + 1] /\ UNCHANGED refused
    BY <1>p, <1>4, <2>1 DEF RedisRule, IncrRule, Refuse, CallsPlaced
  <2>3. CallsPlaced'
    <3>1. CASE Answer(c, "refused")
      BY <1>p, <2>2, <3>1, PlacedAnswered
    <3>2. CASE call' = [call EXCEPT ![c].rule = k + 1]
      BY <1>p, <2>2, <3>2 DEF CallsPlaced
    <3> QED BY <2>2, <3>1, <3>2
  <2>4. refused' \in [Rules -> Int]
    BY <2>2 DEF HitsInv
  <2>5. AllWritten'
    BY <2>2 DEF AllWritten
  <2> QED BY <2>2, <2>3, <2>4, <2>5 DEF HitsInv
<1>5. ASSUME NEW c \in Calls, RedisDone(c) PROVE HitsInv'
  <2>1. CallsPlaced'
    BY <1>p, <1>5, PlacedAnswered DEF RedisDone
  <2> QED BY <1>1, <1>5, <2>1 DEF RedisDone
<1>6. ASSUME NEW c \in Calls, RedisFails(c) PROVE HitsInv'
  BY <1>1, <1>a, <1>6 DEF RedisFails
<1>7. ASSUME NEW i \in Instances, Recover(i) PROVE HitsInv'
  <2>1. CallsPlaced'
    BY <1>p, <1>7 DEF Recover, CallsPlaced
  <2> QED BY <1>1, <1>7, <2>1 DEF Recover
<1>8. ASSUME NEW i \in Instances, FlushHits(i) PROVE HitsInv'
  <2>1. /\ hits' = [hits EXCEPT ![i] = NoHits] /\ flushing' = [flushing EXCEPT ![i] = hits[i]]
        /\ flushing[i] = NoHits
        /\ UNCHANGED <<totalHits, refused, call, redis>>
    BY <1>8 DEF FlushHits
  <2>2. hits' \in HitCounts /\ flushing' \in HitCounts
    BY <2>1 DEF HitsInv, HitCounts, NoHits
  <2>3. ASSUME NEW r \in Rules PROVE redis = "none" => Written(hits', flushing', totalHits, refused, r)
    <3>1. \A j \in Instances : Unwritten(hits', flushing', r)[j] = Unwritten(hits, flushing, r)[j]
      BY <2>1 DEF HitsInv, HitCounts, NoHits, Unwritten
    <3>2. SumFunctionOnSet(Unwritten(hits', flushing', r), Instances) = SumFunctionOnSet(Unwritten(hits, flushing, r), Instances)
      BY <1>0, <3>1, SumSame
    <3> QED BY <3>2 DEF HitsInv, AllWritten, Written
  <2>4. AllWritten' /\ CallsPlaced'
    BY <1>p, <2>1, <2>3 DEF AllWritten, CallsPlaced
  <2> QED BY <2>1, <2>2, <2>4 DEF HitsInv
<1>9. ASSUME NEW i \in Instances, NEW r \in Rules, FlushRule(i, r) PROVE HitsInv'
  <2> DEFINE k == flushing[i][r]
  <2>1. /\ flushing' = [flushing EXCEPT ![i][r] = 0] /\ UNCHANGED <<hits, call, redis>>
        /\ \/ totalHits' = [totalHits EXCEPT ![r] = @ + k] /\ UNCHANGED refused
           \/ refused' = [refused EXCEPT ![r] = @ - k] /\ UNCHANGED totalHits
    BY <1>9 DEF FlushRule
  <2>2. k \in Int
    BY DEF HitsInv, HitCounts
  <2> HIDE DEF k
  <2>3. flushing' \in HitCounts /\ totalHits' \in [Rules -> Int] /\ refused' \in [Rules -> Int]
    BY <2>1, <2>2 DEF HitsInv, HitCounts
  <2>4. ASSUME NEW s \in Rules PROVE redis = "none" => Written(hits', flushing', totalHits', refused', s)
    <3> SUFFICES ASSUME redis = "none" PROVE Written(hits', flushing', totalHits', refused', s)
      OBVIOUS
    <3>1. CASE s = r
      <4>1. /\ flushing'[i][s] = 0 /\ flushing[i][s] = k
            /\ \A j \in Instances \ {i} : flushing'[j][s] = flushing[j][s]
        BY <2>1, <3>1 DEF HitsInv, HitCounts, k
      <4>2. \/ totalHits'[s] = totalHits[s] + k /\ refused'[s] = refused[s]
            \/ totalHits'[s] = totalHits[s] /\ refused'[s] = refused[s] - k
        BY <2>1, <3>1 DEF HitsInv
      <4>3. hits[i][s] \in Int /\ totalHits[s] \in Int /\ refused[s] \in Int
        BY DEF HitsInv, HitCounts
      <4>4. /\ hits \in HitCounts /\ flushing \in HitCounts
            /\ totalHits \in [Rules -> Int] /\ refused \in [Rules -> Int]
            /\ Written(hits, flushing, totalHits, refused, s)
        BY DEF HitsInv, AllWritten
      <4>5. /\ \A j \in Instances : Unwritten(hits, flushing, s)[j] \in Int
            /\ \A j \in Instances : Unwritten(hits', flushing', s)[j] \in Int
            /\ \A j \in Instances : j # i => Unwritten(hits', flushing', s)[j] = Unwritten(hits, flushing, s)[j]
            /\ Unwritten(hits', flushing', s)[i] = Unwritten(hits, flushing, s)[i] - k
        BY <2>1, <2>2, <2>3, <4>1, <4>3, <4>4 DEF HitCounts, Unwritten
      <4>6. /\ totalHits[s] \in Int /\ refused[s] \in Int /\ totalHits'[s] \in Int /\ refused'[s] \in Int
            /\ Written(hits, flushing, totalHits, refused, s)
        BY <2>3, <4>4
      <4>7. (totalHits'[s] - totalHits[s]) + (Unwritten(hits', flushing', s)[i] - Unwritten(hits, flushing, s)[i])
                 = refused'[s] - refused[s]
        <5> DEFINE x == Unwritten(hits, flushing, s)[i]
                   y == Unwritten(hits', flushing', s)[i]
        <5>1. x \in Int /\ y = x - k
          BY <4>5
        <5> HIDE DEF x, y
        <5>2. (totalHits'[s] - totalHits[s]) + (y - x) = refused'[s] - refused[s]
          BY <2>2, <4>2, <4>6, <5>1
        <5> QED BY <5>2 DEF x, y
      <4> QED BY <1>0, <4>5, <4>6, <4>7, WrittenMoves
    <3>2. CASE s # r
      <4>1. \A j \in Instances : flushing'[j][s] = flushing[j][s]
        BY <2>1, <3>2 DEF HitsInv, HitCounts
      <4>2. totalHits'[s] = totalHits[s] /\ refused'[s] = refused[s]
        BY <2>1, <3>2 DEF HitsInv
      <4>3. \A j \in Instances : Unwritten(hits', flushing', s)[j] = Unwritten(hits, flushing, s)[j]
        BY <2>1, <4>1 DEF Unwritten
      <4>4. SumFunctionOnSet(Unwritten(hits', flushing', s), Instances) = SumFunctionOnSet(Unwritten(hits, flushing, s), Instances)
        BY <1>0, <4>3, SumSame
      <4> QED BY <4>2, <4>4 DEF HitsInv, AllWritten, Written
    <3> QED BY <3>1, <3>2
  <2>5. AllWritten' /\ CallsPlaced'
    BY <1>p, <2>1, <2>4 DEF AllWritten, CallsPlaced
  <2> QED BY <2>1, <2>3, <2>5 DEF HitsInv
<1>10. CASE Tick
  <2>1. CallsPlaced'
    BY <1>p, <1>10 DEF Tick, CallsPlaced
  <2> QED BY <1>1, <1>10, <2>1 DEF Tick
<1>11. CASE UNCHANGED vars
  <2>1. CallsPlaced'
    BY <1>p, <1>11 DEF vars, CallsPlaced
  <2> QED BY <1>1, <1>11, <2>1 DEF vars
<1> QED BY <1>b, <1>2, <1>3, <1>4, <1>5, <1>6, <1>7, <1>8, <1>9, <1>10, <1>11 DEF Next

\* For any number of instances and requests without Redis, every refusal of a rule
\* ends in its total_hits once, or is counted or on its way there: the map that
\* FlushHits takes under the lock and writes row by row loses none that comes in
\* between.
THEOREM HitsCountedThm == Spec => []HitsCounted
<1>1. HitsInv => HitsCounted
  BY CountedIs DEF HitsInv
<1> QED BY <1>1, HitsStart, HitsKept, PTL DEF Spec

-----------------------------------------------------------------------------
(* One counter: what a fixed window lets pass.  C is what the current window  *)
(* let pass, which began L before its end, and H what windows before it did.  *)
(* A request may count up to g after the time it has read, so that requests   *)
(* of neighbouring windows can be mixed for a time of g.                      *)

Times == 0..MaxNow

From(s) == {t \in Times : s <= t}
Short(X, L) == \A x, y \in X : y - x < L

\* The current window has counted n requests and ends at u, when a request that has
\* read e or later opens the next one.
FitsBy(H, C, n, u, e, t0, g, L, M) ==
    /\ H \in [Times -> Nat] /\ C \in [Times -> Nat]
    /\ n \in Nat /\ u \in Int /\ e \in Int /\ u <= e
    /\ u - L <= t0
    /\ \A t \in Times : t < u - L \/ t > t0 \/ t >= e + g => C[t] = 0
    /\ \A t \in Times : t > t0 \/ t >= u - L + g => H[t] = 0
    /\ SumFunctionOnSet(C, Times) <= n
    /\ SumFunctionOnSet(C, Times) <= M
    /\ SumFunctionOnSet(H, From(u - L - (L - g) + 1)) <= M
    /\ \A X \in SUBSET Times : Short(X, L - g) => SumFunctionOnSet(H, X) <= 2 * M

Fits(P, n, u, e, t0, g, L, M) ==
    /\ P \in [Times -> Nat]
    /\ \E H, C : /\ FitsBy(H, C, n, u, e, t0, g, L, M)
                 /\ \A t \in Times : P[t] = H[t] + C[t]

Bump(P, t) == [P EXCEPT ![t] = @ + 1]

LEMMA TimesFinite == IsFiniteSet(Times)
BY RateLimitAssumption, FS_Interval DEF RateLimitAssumption, Times

LEMMA SumOf ==
    ASSUME NEW P \in [Times -> Nat], NEW X \in SUBSET Times
    PROVE  SumFunctionOnSet(P, X) \in Nat
<1>1. IsFiniteSet(X) /\ \A x \in X : P[x] \in Nat
  BY TimesFinite, FS_Subset
<1> QED BY <1>1, SumBound

LEMMA SumOfBump ==
    ASSUME NEW P \in [Times -> Nat], NEW t \in Times
    PROVE  SumFunctionOnSet(Bump(P, t), Times) = SumFunctionOnSet(P, Times) + 1
<1> DEFINE B == Bump(P, t)
<1>1. B[t] = P[t] + 1 /\ \A x \in Times : x # t => B[x] = P[x]
  BY DEF Bump
<1> HIDE DEF B
<1>2. (\A x \in Times : P[x] \in Int) /\ (\A x \in Times : B[x] \in Int)
  BY <1>1
<1>3. SumFunctionOnSet(B, Times) = SumFunctionOnSet(P, Times) + 1
  BY <1>1, <1>2, TimesFinite, SumShift
<1> QED BY <1>3 DEF B

\* What two windows let pass is what each of them did.
LEMMA SumOfBoth ==
    ASSUME NEW P \in [Times -> Nat], NEW H \in [Times -> Nat], NEW C \in [Times -> Nat],
           \A t \in Times : P[t] = H[t] + C[t], NEW X \in SUBSET Times
    PROVE  SumFunctionOnSet(P, X) = SumFunctionOnSet(H, X) + SumFunctionOnSet(C, X)
<1>1. IsFiniteSet(X) /\ X \in SUBSET X
  BY TimesFinite, FS_Subset
<1>2. /\ \A x \in X : H[x] \in Int
      /\ \A x \in X : C[x] \in Int
      /\ \A x \in X : P[x] = IF x \in X THEN H[x] + C[x] ELSE H[x]
  OBVIOUS
<1> QED BY <1>1, <1>2, SumPlus

LEMMA SumSmaller ==
    ASSUME NEW P \in [Times -> Nat], NEW Y \in SUBSET Times, NEW X \in SUBSET Y
    PROVE  SumFunctionOnSet(P, X) <= SumFunctionOnSet(P, Y)
<1>1. IsFiniteSet(Y) /\ \A x \in Y : P[x] \in Nat
  BY TimesFinite, FS_Subset
<1> QED BY <1>1, SumWithin

LEMMA SumNone ==
    ASSUME NEW P, NEW X \in SUBSET Times, \A x \in X : P[x] = 0
    PROVE  SumFunctionOnSet(P, X) = 0
<1>1. IsFiniteSet(X)
  BY TimesFinite, FS_Subset
<1> QED BY <1>1, SumZeros

\* No span that is short enough meets more than two windows.
LEMMA FitsSpan ==
    ASSUME NEW P \in [Times -> Nat], NEW H, NEW C, NEW n, NEW u, NEW e, NEW t0 \in Int,
           NEW g \in Nat, NEW L \in Nat \ {0}, NEW M \in Nat,
           FitsBy(H, C, n, u, e, t0, g, L, M), \A t \in Times : P[t] = H[t] + C[t],
           NEW X \in SUBSET Times, Short(X, L - g)
    PROVE  SumFunctionOnSet(P, X) <= 2 * M
<1> DEFINE q == u - L - (L - g) + 1
<1>0. /\ H \in [Times -> Nat] /\ C \in [Times -> Nat] /\ u \in Int
      /\ SumFunctionOnSet(C, Times) <= M /\ SumFunctionOnSet(H, From(q)) <= M
      /\ SumFunctionOnSet(H, X) <= 2 * M
      /\ \A t \in Times : t < u - L => C[t] = 0
  BY DEF FitsBy
<1>1. SumFunctionOnSet(P, X) = SumFunctionOnSet(H, X) + SumFunctionOnSet(C, X)
  BY <1>0, SumOfBoth
<1>2. /\ SumFunctionOnSet(H, X) \in Nat /\ SumFunctionOnSet(C, X) \in Nat
      /\ SumFunctionOnSet(C, Times) \in Nat /\ SumFunctionOnSet(C, X) <= SumFunctionOnSet(C, Times)
  BY <1>0, SumOf, SumSmaller
<1>3. From(q) \in SUBSET Times /\ SumFunctionOnSet(H, From(q)) \in Nat
  <2>1. From(q) \in SUBSET Times
    BY DEF From
  <2> QED BY <1>0, <2>1, SumOf
<1>4. ASSUME NEW x \in X, u - L <= x PROVE SumFunctionOnSet(H, X) <= M
  <2>1. ASSUME NEW y \in X PROVE q <= y
    <3>1. x - y < L - g /\ x \in Int /\ y \in Int
      BY DEF Short, Times
    <3> QED BY <1>0, <1>4, <3>1
  <2>2. X \in SUBSET From(q)
    BY <2>1 DEF From
  <2> HIDE DEF q
  <2>3. SumFunctionOnSet(H, X) <= SumFunctionOnSet(H, From(q))
    BY <1>0, <1>3, <2>2, SumSmaller
  <2> QED BY <1>0, <1>2, <1>3, <2>3
<1>5. ASSUME \A x \in X : ~(u - L <= x) PROVE SumFunctionOnSet(C, X) = 0
  <2>1. \A x \in X : C[x] = 0
    BY <1>0, <1>5 DEF Times
  <2> QED BY <2>1, SumNone
<1> HIDE DEF q
<1>6. CASE \E x \in X : u - L <= x
  BY <1>0, <1>1, <1>2, <1>4, <1>6
<1>7. CASE ~\E x \in X : u - L <= x
  BY <1>0, <1>1, <1>2, <1>5, <1>7
<1> QED BY <1>6, <1>7

LEMMA FitsLater ==
    ASSUME NEW P, NEW n, NEW u, NEW e, NEW t0 \in Int, NEW t1 \in Int, t0 <= t1, NEW g \in Nat,
           NEW L \in Nat, NEW M, Fits(P, n, u, e, t0, g, L, M)
    PROVE  Fits(P, n, u, e, t1, g, L, M)
<1>1. PICK H, C : /\ FitsBy(H, C, n, u, e, t0, g, L, M)
                  /\ \A t \in Times : P[t] = H[t] + C[t]
  BY DEF Fits
<1>2. /\ u - L <= t1
      /\ \A t \in Times : t < u - L \/ t > t1 \/ t >= e + g => C[t] = 0
      /\ \A t \in Times : t > t1 \/ t >= u - L + g => H[t] = 0
  BY <1>1 DEF FitsBy, Times
<1>3. FitsBy(H, C, n, u, e, t1, g, L, M)
  BY <1>1, <1>2 DEF FitsBy
<1> QED BY <1>1, <1>3 DEF Fits

\* A request that is counted and refused.
LEMMA FitsRefused ==
    ASSUME NEW P, NEW n, NEW u, NEW e, NEW t0 \in Int, NEW g \in Nat, NEW L \in Nat, NEW M,
           Fits(P, n, u, e, t0, g, L, M)
    PROVE  Fits(P, n + 1, u, e, t0, g, L, M)
<1>1. PICK H, C : /\ FitsBy(H, C, n, u, e, t0, g, L, M)
                  /\ \A t \in Times : P[t] = H[t] + C[t]
  BY DEF Fits
<1>2. C \in [Times -> Nat] /\ n \in Nat /\ SumFunctionOnSet(C, Times) <= n
  BY <1>1 DEF FitsBy
<1>3. SumFunctionOnSet(C, Times) \in Nat
  BY <1>2, SumOf
<1>4. n + 1 \in Nat /\ SumFunctionOnSet(C, Times) <= n + 1
  BY <1>2, <1>3
<1>5. FitsBy(H, C, n + 1, u, e, t0, g, L, M)
  BY <1>1, <1>4 DEF FitsBy
<1> QED BY <1>1, <1>5 DEF Fits

\* A request that the current window lets pass.
LEMMA FitsPassed ==
    ASSUME NEW P, NEW n, NEW u, NEW e, NEW t0 \in Times, NEW g \in Nat, NEW L \in Nat \ {0},
           NEW M \in Nat \ {0}, Fits(P, n, u, e, t0, g, L, M), t0 < e + g, n + 1 <= M
    PROVE  Fits(Bump(P, t0), n + 1, u, e, t0, g, L, M)
<1>1. PICK H, C : /\ FitsBy(H, C, n, u, e, t0, g, L, M)
                  /\ \A t \in Times : P[t] = H[t] + C[t]
  BY DEF Fits
<1>2. PICK D : D = Bump(C, t0)
  OBVIOUS
<1>3. /\ C \in [Times -> Nat] /\ H \in [Times -> Nat] /\ n \in Nat /\ u \in Int /\ e \in Int /\ t0 \in Int
      /\ SumFunctionOnSet(C, Times) <= n /\ u - L <= t0 /\ P \in [Times -> Nat]
  BY <1>1 DEF FitsBy, Fits, Times
<1>4. D \in [Times -> Nat] /\ D[t0] = C[t0] + 1 /\ \A t \in Times : t # t0 => D[t] = C[t]
  BY <1>2, <1>3 DEF Bump
<1>5. SumFunctionOnSet(D, Times) = SumFunctionOnSet(C, Times) + 1 /\ SumFunctionOnSet(C, Times) \in Nat
  BY <1>2, <1>3, SumOf, SumOfBump
<1>6. n + 1 \in Nat /\ SumFunctionOnSet(D, Times) <= n + 1 /\ SumFunctionOnSet(D, Times) <= M
  BY <1>3, <1>5
<1>7. \A t \in Times : t < u - L \/ t > t0 \/ t >= e + g => D[t] = 0
  BY <1>1, <1>3, <1>4 DEF FitsBy, Times
<1>8. FitsBy(H, D, n + 1, u, e, t0, g, L, M)
  BY <1>1, <1>4, <1>6, <1>7 DEF FitsBy
<1>9. Bump(P, t0) \in [Times -> Nat] /\ \A t \in Times : Bump(P, t0)[t] = H[t] + D[t]
  BY <1>1, <1>3, <1>4 DEF Bump
<1> QED BY <1>8, <1>9 DEF Fits

\* A request that has read a time after the end of the window opens the next one.
LEMMA FitsOpened ==
    ASSUME NEW P, NEW n, NEW u, NEW e, NEW t0 \in Times, NEW g \in Nat, NEW L \in Nat \ {0},
           NEW M \in Nat \ {0}, Fits(P, n, u, e, t0, g, L, M),
           NEW a \in Int, e <= a, a <= t0, t0 <= a + g, NEW f \in Int, a + L <= f
    PROVE  /\ Fits(P, 1, a + L, f, t0, g, L, M)
           /\ Fits(Bump(P, t0), 1, a + L, f, t0, g, L, M)
<1>1. PICK H, C : /\ FitsBy(H, C, n, u, e, t0, g, L, M)
                  /\ \A t \in Times : P[t] = H[t] + C[t]
  BY DEF Fits
<1>2. /\ C \in [Times -> Nat] /\ H \in [Times -> Nat] /\ u \in Int /\ e \in Int /\ t0 \in Int /\ u <= e
      /\ SumFunctionOnSet(C, Times) <= M /\ P \in [Times -> Nat]
      /\ \A t \in Times : t > t0 \/ t >= e + g => C[t] = 0
      /\ \A t \in Times : t > t0 \/ t >= u - L + g => H[t] = 0
  BY <1>1 DEF FitsBy, Fits, Times
<1> DEFINE q == (a + L) - L - (L - g) + 1
<1>3. From(q) \in SUBSET Times /\ \A t \in From(q) : H[t] = 0
  <2>1. u - L + g <= q /\ q \in Int
    BY <1>2
  <2> HIDE DEF q
  <2> QED BY <1>2, <2>1 DEF From, Times
<1> HIDE DEF q
<1>4. SumFunctionOnSet(P, From(q)) <= M
  <2>1. SumFunctionOnSet(P, From(q)) = SumFunctionOnSet(H, From(q)) + SumFunctionOnSet(C, From(q))
    BY <1>1, <1>2, <1>3, SumOfBoth
  <2>2. SumFunctionOnSet(H, From(q)) = 0
    BY <1>3, SumNone
  <2>3. /\ SumFunctionOnSet(C, From(q)) \in Nat /\ SumFunctionOnSet(C, Times) \in Nat
        /\ SumFunctionOnSet(C, From(q)) <= SumFunctionOnSet(C, Times)
    BY <1>2, <1>3, SumOf, SumSmaller
  <2> QED BY <1>2, <2>1, <2>2, <2>3
<1>5. \A X \in SUBSET Times : Short(X, L - g) => SumFunctionOnSet(P, X) <= 2 * M
  BY <1>1, <1>2, FitsSpan
<1>6. \A t \in Times : t > t0 \/ t >= (a + L) - L + g => P[t] = 0
  <2>1. ASSUME NEW t \in Times, t > t0 \/ t >= (a + L) - L + g PROVE P[t] = 0
    <3>1. t > t0 \/ (t >= e + g /\ t >= u - L + g)
      BY <1>2, <2>1 DEF Times
    <3>2. C[t] = 0 /\ H[t] = 0
      BY <1>2, <3>1
    <3> QED BY <1>1, <3>2
  <2> QED BY <2>1
<1>7. PICK Z : Z = [t \in Times |-> 0]
  OBVIOUS
<1>8. /\ Z \in [Times -> Nat] /\ SumFunctionOnSet(Z, Times) = 0
      /\ \A t \in Times : Z[t] = 0
  BY <1>7, TimesFinite, SumZeros
<1>9. PICK D : D = Bump(Z, t0)
  OBVIOUS
<1>10. /\ D \in [Times -> Nat] /\ D[t0] = 1 /\ \A t \in Times : t # t0 => D[t] = 0
       /\ SumFunctionOnSet(D, Times) = 1
  <2>1. D \in [Times -> Nat] /\ D[t0] = Z[t0] + 1 /\ \A t \in Times : t # t0 => D[t] = Z[t]
    BY <1>8, <1>9 DEF Bump
  <2>2. SumFunctionOnSet(D, Times) = SumFunctionOnSet(Z, Times) + 1
    BY <1>8, <1>9, SumOfBump
  <2> QED BY <1>8, <2>1, <2>2
<1>11. /\ (a + L) \in Int /\ a + L <= f /\ (a + L) - L <= t0 /\ 1 \in Nat
       /\ 0 <= M /\ 1 <= M
  BY <1>2
<1>12. \A t \in Times : t < (a + L) - L \/ t > t0 \/ t >= f + g => D[t] = 0
  BY <1>2, <1>10 DEF Times
<1>13. FitsBy(P, Z, 1, a + L, f, t0, g, L, M)
  BY <1>2, <1>4, <1>5, <1>6, <1>8, <1>11 DEF FitsBy, q
<1>14. FitsBy(P, D, 1, a + L, f, t0, g, L, M)
  BY <1>2, <1>4, <1>5, <1>6, <1>10, <1>11, <1>12 DEF FitsBy, q
<1>15. Fits(P, 1, a + L, f, t0, g, L, M)
  <2>1. \A t \in Times : P[t] = P[t] + Z[t]
    BY <1>2, <1>8
  <2> QED BY <1>2, <1>13, <2>1 DEF Fits
<1>16. Fits(Bump(P, t0), 1, a + L, f, t0, g, L, M)
  <2>1. Bump(P, t0) \in [Times -> Nat] /\ \A t \in Times : Bump(P, t0)[t] = P[t] + D[t]
    BY <1>2, <1>10 DEF Bump
  <2> QED BY <1>14, <2>1 DEF Fits
<1> QED BY <1>15, <1>16

LEMMA FitsNothing ==
    ASSUME NEW P, P = [t \in Times |-> 0], NEW g \in Nat, NEW L \in Nat \ {0}, NEW M \in Nat,
           NEW e \in {-1, 0}
    PROVE  Fits(P, 0, -1, e, 0, g, L, M)
<1>1. P \in [Times -> Nat] /\ \A t \in Times : P[t] = 0 /\ P[t] = P[t] + P[t]
  OBVIOUS
<1>2. \A X \in SUBSET Times : SumFunctionOnSet(P, X) = 0
  BY <1>1, SumNone
<1>3. From(-1 - L - (L - g) + 1) \in SUBSET Times /\ Times \in SUBSET Times
  BY DEF From
<1>4. -1 - L <= 0 /\ -1 <= e /\ e \in Int
  OBVIOUS
<1>5. FitsBy(P, P, 0, -1, e, 0, g, L, M)
  BY <1>1, <1>2, <1>3, <1>4 DEF FitsBy
<1> QED BY <1>1, <1>5 DEF Fits

-----------------------------------------------------------------------------
(* All counters.  What a rule has let pass at each time is the sum of what    *)
(* its counters have: the windows of the instances, and the one in Redis.     *)

Center == CHOOSE x : x \notin Instances

Sources(rd) == IF rd = "up" THEN {Center} ELSE IF rd = "none" THEN Instances ELSE Instances \cup {Center}

Windows == [n : Nat, until : Int]
Win(lo, sh, c, r) == IF c = Center THEN sh[r] ELSE lo[c][r]
Count(w, c, r, a) == IF c = Center THEN RedisWindow(w, r) ELSE MemoryWindow(w, r, a)

\* A script runs at the time it reads, a request in memory up to Lag after it.
Late(c) == IF c = Center THEN 0 ELSE Lag
Read(a) == a \in Int /\ a <= now /\ now <= a + Lag

\* A window in memory still counts at its end, a key in Redis is gone then.
Keeps(P, w, c, t0, r) ==
    Fits(P, w.n, w.until, IF c = Center THEN w.until ELSE w.until + 1, t0, Late(c),
         WindowLen[r], MaxRequests[r])

RuleKept(S, lo, sh, p, t0, r) ==
    \E H \in [S -> [Times -> Nat]] :
        /\ \A t \in Times : p[t] = SumFunctionOnSet([c \in S |-> H[c][t]], S)
        /\ \A c \in S : Keeps(H[c], Win(lo, sh, c, r), c, t0, r)

LEMMA CenterApart == Center \notin Instances
BY NoSetContainsEverything DEF Center

LEMMA SourcesOf ==
    ASSUME redis \in {"none", "up", "flaky"}
    PROVE  IsFiniteSet(Sources(redis)) /\ Cardinality(Sources(redis)) = Counters
<1>1. IsFiniteSet(Instances)
  BY RateLimitAssumption DEF RateLimitAssumption
<1>2. CASE redis = "up"
  BY <1>2, FS_Singleton DEF Sources, Counters
<1>3. CASE redis = "none"
  BY <1>1, <1>3 DEF Sources, Counters
<1>4. CASE redis = "flaky"
  <2>1. Sources(redis) = Instances \cup {Center} /\ Counters = 1 + Cardinality(Instances)
    BY <1>4 DEF Sources, Counters
  <2>2. /\ IsFiniteSet(Instances \cup {Center})
        /\ Cardinality(Instances \cup {Center}) = Cardinality(Instances) + 1
    BY <1>1, CenterApart, FS_AddElement
  <2>3. Cardinality(Instances) \in Nat
    BY <1>1, FS_CardinalityType
  <2> QED BY <2>1, <2>2, <2>3
<1> QED BY <1>2, <1>3, <1>4

LEMMA Limits ==
    ASSUME NEW r \in Rules
    PROVE  WindowLen[r] \in Nat \ {0} /\ MaxRequests[r] \in Nat \ {0}
BY RateLimitAssumption DEF RateLimitAssumption

LEMMA CountKeeps ==
    ASSUME NEW r \in Rules, NEW c, NEW w \in Windows, now \in Times, NEW a, Read(a),
           NEW P, Keeps(P, w, c, now, r)
    PROVE  /\ Count(w, c, r, a) \in Windows
           /\ Keeps(P, Count(w, c, r, a), c, now, r)
           /\ Count(w, c, r, a).n <= MaxRequests[r] => Keeps(Bump(P, now), Count(w, c, r, a), c, now, r)
<1> DEFINE L == WindowLen[r]
           M == MaxRequests[r]
           e == IF c = Center THEN w.until ELSE w.until + 1
           b == IF c = Center THEN now ELSE a
           g == Late(c)
           v == Count(w, c, r, a)
<1>0. L \in Nat \ {0} /\ M \in Nat \ {0} /\ now \in Int
  BY Limits DEF Times
<1>a. b \in Int /\ b <= now /\ now <= b + g /\ g \in Nat
  BY <1>0, RateLimitAssumption DEF RateLimitAssumption, Read, Late
<1>1. w.n \in Nat /\ w.until \in Int /\ e \in Int
  BY DEF Windows
<1>2. v = IF e <= b THEN [n |-> 1, until |-> b + L] ELSE [n |-> w.n + 1, until |-> w.until]
  <2>1. [w EXCEPT !.n = @ + 1] = [n |-> w.n + 1, until |-> w.until]
    BY DEF Windows
  <2>2. CASE c = Center
    BY <1>0, <1>1, <2>1, <2>2 DEF Count, RedisWindow
  <2>3. CASE c # Center
    <3>1. a > w.until <=> e <= b
      BY <1>a, <1>1, <2>3
    <3> QED BY <2>1, <2>3, <3>1 DEF Count, MemoryWindow
  <2> QED BY <2>2, <2>3
<1>3. Fits(P, w.n, w.until, e, now, g, L, M)
  BY DEF Keeps
<1>4. CASE e <= b
  <2> DEFINE f == IF c = Center THEN b + L ELSE b + L + 1
  <2>1. f \in Int /\ b + L <= f
    BY <1>0, <1>a
  <2>2. v.n = 1 /\ v.until = b + L /\ v \in Windows
    BY <1>0, <1>a, <1>2, <1>4 DEF Windows
  <2> HIDE DEF e, f, v, L, M, b, g
  <2>3. Fits(P, 1, b + L, f, now, g, L, M) /\ Fits(Bump(P, now), 1, b + L, f, now, g, L, M)
    BY <1>0, <1>a, <1>3, <1>4, <2>1, FitsOpened
  <2>4. f = IF c = Center THEN v.until ELSE v.until + 1
    BY <2>2 DEF f
  <2> QED BY <2>2, <2>3, <2>4 DEF Keeps, v, L, M, g
<1>5. CASE ~(e <= b)
  <2>1. v.n = w.n + 1 /\ v.until = w.until /\ v \in Windows
    BY <1>1, <1>2, <1>5 DEF Windows
  <2>2. now < e + g
    BY <1>0, <1>a, <1>1, <1>5
  <2>3. e = IF c = Center THEN v.until ELSE v.until + 1
    BY <2>1
  <2> HIDE DEF e, v, L, M, b, g
  <2>4. Fits(P, w.n + 1, w.until, e, now, g, L, M)
    BY <1>0, <1>a, <1>3, FitsRefused
  <2>5. ASSUME w.n + 1 <= M PROVE Fits(Bump(P, now), w.n + 1, w.until, e, now, g, L, M)
    BY <1>0, <1>a, <1>3, <2>2, <2>5, FitsPassed
  <2> QED BY <2>1, <2>3, <2>4, <2>5 DEF Keeps, v, L, M, g
<1> QED BY <1>4, <1>5

LEMMA SumOne ==
    ASSUME NEW S, IsFiniteSet(S), NEW x \in S, NEW a, NEW b,
           \A y \in S : a[y] \in Int, \A y \in S : b[y] \in Int,
           \A y \in S : y # x => b[y] = a[y], b[x] = a[x] + 1
    PROVE  SumFunctionOnSet(b, S) = SumFunctionOnSet(a, S) + 1
BY SumShift

\* Some counters count a request, and at most one of them lets it pass.
LEMMA RuleMoves ==
    ASSUME NEW r \in Rules, NEW S, IsFiniteSet(S), now \in Times, NEW a, Read(a),
           NEW lo, NEW sh, NEW lo2, NEW sh2, NEW p \in [Times -> Nat], NEW p2,
           \A c \in S : Win(lo, sh, c, r) \in Windows,
           \A c \in S : \/ Win(lo2, sh2, c, r) = Win(lo, sh, c, r)
                        \/ Win(lo2, sh2, c, r) = Count(Win(lo, sh, c, r), c, r, a),
           RuleKept(S, lo, sh, p, now, r),
           \/ p2 = p
           \/ \E d \in S : /\ Win(lo2, sh2, d, r) = Count(Win(lo, sh, d, r), d, r, a)
                           /\ Win(lo2, sh2, d, r).n <= MaxRequests[r]
                           /\ p2 = Bump(p, now)
    PROVE  RuleKept(S, lo2, sh2, p2, now, r)
<1>1. PICK H \in [S -> [Times -> Nat]] :
         /\ \A t \in Times : p[t] = SumFunctionOnSet([c \in S |-> H[c][t]], S)
         /\ \A c \in S : Keeps(H[c], Win(lo, sh, c, r), c, now, r)
  BY DEF RuleKept
<1>2. ASSUME NEW c \in S PROVE Keeps(H[c], Win(lo2, sh2, c, r), c, now, r)
  <2>1. PICK w \in Windows : w = Win(lo, sh, c, r)
    OBVIOUS
  <2>2. Keeps(H[c], w, c, now, r)
    BY <1>1, <2>1
  <2>3. Keeps(H[c], Count(w, c, r, a), c, now, r)
    BY <2>2, CountKeeps
  <2> QED BY <2>1, <2>2, <2>3
<1>3. CASE p2 = p
  BY <1>1, <1>2, <1>3 DEF RuleKept
<1>4. ASSUME NEW d \in S, Win(lo2, sh2, d, r) = Count(Win(lo, sh, d, r), d, r, a),
             Win(lo2, sh2, d, r).n <= MaxRequests[r], p2 = Bump(p, now)
      PROVE  RuleKept(S, lo2, sh2, p2, now, r)
  <2> DEFINE G == [H EXCEPT ![d] = Bump(@, now)]
  <2>1. Bump(H[d], now) \in [Times -> Nat]
    BY DEF Bump
  <2>2. G \in [S -> [Times -> Nat]] /\ G[d] = Bump(H[d], now) /\ \A c \in S \ {d} : G[c] = H[c]
    BY <2>1
  <2> HIDE DEF G
  <2>3. ASSUME NEW c \in S PROVE Keeps(G[c], Win(lo2, sh2, c, r), c, now, r)
    <3>1. CASE c = d
      <4>1. Keeps(Bump(H[d], now), Count(Win(lo, sh, d, r), d, r, a), d, now, r)
        BY <1>1, <1>4, CountKeeps
      <4> QED BY <1>4, <2>2, <3>1, <4>1
    <3>2. CASE c # d
      BY <1>2, <2>2, <3>2
    <3> QED BY <3>1, <3>2
  <2>4. ASSUME NEW t \in Times PROVE p2[t] = SumFunctionOnSet([c \in S |-> G[c][t]], S)
    <3>0. PICK x, b : x = [c \in S |-> H[c][t]] /\ b = [c \in S |-> G[c][t]]
      OBVIOUS
    <3>1. /\ \A c \in S : x[c] \in Int
          /\ \A c \in S : b[c] \in Int
          /\ \A c \in S : c # d => b[c] = x[c]
      BY <2>2, <3>0
    <3>2. p[t] = SumFunctionOnSet(x, S)
      BY <1>1, <3>0
    <3>3. CASE t = now
      <4>1. b[d] = x[d] + 1
        BY <2>2, <3>0, <3>3 DEF Bump
      <4>2. SumFunctionOnSet(b, S) = SumFunctionOnSet(x, S) + 1
        BY <3>1, <4>1, SumOne
      <4>3. p2[t] = p[t] + 1
        BY <1>4, <3>3 DEF Bump
      <4> QED BY <3>0, <3>2, <4>2, <4>3
    <3>4. CASE t # now
      <4>1. b[d] = x[d]
        BY <2>2, <3>0, <3>4 DEF Bump
      <4>2. \A c \in S : b[c] = x[c]
        BY <3>1, <4>1
      <4>3. SumFunctionOnSet(b, S) = SumFunctionOnSet(x, S)
        BY <4>2, SumSame
      <4>4. p2[t] = p[t]
        BY <1>4, <3>4 DEF Bump
      <4> QED BY <3>0, <3>2, <4>3, <4>4
    <3> QED BY <3>3, <3>4
  <2> QED BY <2>2, <2>3, <2>4 DEF RuleKept
<1> QED BY <1>3, <1>4

LEMMA RuleLater ==
    ASSUME NEW r \in Rules, NEW S, NEW lo, NEW sh, NEW p, NEW t0 \in Int, NEW t1 \in Int, t0 <= t1,
           RuleKept(S, lo, sh, p, t0, r)
    PROVE  RuleKept(S, lo, sh, p, t1, r)
<1>1. PICK H \in [S -> [Times -> Nat]] :
         /\ \A t \in Times : p[t] = SumFunctionOnSet([c \in S |-> H[c][t]], S)
         /\ \A c \in S : Keeps(H[c], Win(lo, sh, c, r), c, t0, r)
  BY DEF RuleKept
<1>2. ASSUME NEW c \in S PROVE Keeps(H[c], Win(lo, sh, c, r), c, t1, r)
  <2>1. WindowLen[r] \in Nat /\ Late(c) \in Nat
    BY Limits, RateLimitAssumption DEF RateLimitAssumption, Late
  <2> QED BY <1>1, <2>1, FitsLater DEF Keeps
<1> QED BY <1>1, <1>2 DEF RuleKept

-----------------------------------------------------------------------------
(* The limiter.                                                               *)

CallsHere ==
    /\ DOMAIN call = Calls
    /\ \A c \in Calls :
          /\ DOMAIN call[c] = {"pc", "inst", "rule", "at"}
          /\ call[c].inst \in Instances
          /\ call[c].pc = "rules" => redis # "none"
          /\ call[c].pc = "lock" => redis # "up" /\ Read(call[c].at)

\* Only an instance that has lost Redis counts in its memory beside it.
SpanShape ==
    /\ now \in Times
    /\ redis \in {"none", "up", "flaky"}
    /\ local \in [Instances -> [Rules -> Windows]]
    /\ shared \in [Rules -> Windows]
    /\ passed \in [Rules -> [Times -> Nat]]
    /\ degraded \in [Instances -> BOOLEAN]
    /\ redis # "flaky" => \A i \in Instances : ~degraded[i]

SpanInv ==
    /\ SpanShape
    /\ CallsHere
    /\ \A r \in Rules : RuleKept(Sources(redis), local, shared, passed[r], now, r)

LEMMA SpanStart == Init => SpanInv
<1> SUFFICES ASSUME Init PROVE SpanInv
  OBVIOUS
<1>1. NoWindow \in Windows /\ NoWindow.n = 0 /\ NoWindow.until = -1
  BY DEF NoWindow, Windows
<1>2. /\ now = 0 /\ redis \in {"none", "up", "flaky"}
      /\ local = [i \in Instances |-> [r \in Rules |-> NoWindow]]
      /\ shared = [r \in Rules |-> NoWindow]
      /\ passed = [r \in Rules |-> [t \in Times |-> 0]]
      /\ degraded \in [Instances -> IF redis = "flaky" THEN BOOLEAN ELSE {FALSE}]
  BY RateLimitAssumption DEF RateLimitAssumption, Init, Times
<1>3. now \in Times
  BY <1>2, RateLimitAssumption DEF RateLimitAssumption, Times
<1>4. SpanShape
  <2>1. local \in [Instances -> [Rules -> Windows]] /\ shared \in [Rules -> Windows]
    BY <1>1, <1>2
  <2>2. passed \in [Rules -> [Times -> Nat]]
    BY <1>2
  <2>3. degraded \in [Instances -> BOOLEAN] /\ (redis # "flaky" => \A i \in Instances : ~degraded[i])
    <3>1. CASE redis = "flaky"
      BY <1>2, <3>1
    <3>2. CASE redis # "flaky"
      BY <1>2, <3>2
    <3> QED BY <3>1, <3>2
  <2> QED BY <1>2, <1>3, <2>1, <2>2, <2>3 DEF SpanShape
<1>5. CallsHere
  <2>1. call \in [Calls -> [pc: {"new"}, inst: Instances, rule: {1}, at: {0}]]
    BY DEF Init
  <2> QED BY <2>1 DEF CallsHere
<1>6. ASSUME NEW r \in Rules PROVE RuleKept(Sources(redis), local, shared, passed[r], now, r)
  <2> DEFINE S == Sources(redis)
             Z == [t \in Times |-> 0]
             H == [c \in S |-> Z]
  <2>1. H \in [S -> [Times -> Nat]] /\ passed[r] = Z
    BY <1>2
  <2>2. ASSUME NEW t \in Times PROVE passed[r][t] = SumFunctionOnSet([c \in S |-> H[c][t]], S)
    <3>1. PICK a : a = [c \in S |-> H[c][t]]
      OBVIOUS
    <3>2. \A c \in S : a[c] = 0
      BY <3>1
    <3>3. IsFiniteSet(S)
      BY <1>2, SourcesOf
    <3> HIDE DEF S, H
    <3>4. SumFunctionOnSet(a, S) = 0
      BY <3>2, <3>3, SumZeros
    <3> QED BY <2>1, <3>1, <3>4
  <2>3. ASSUME NEW c \in S PROVE Keeps(H[c], Win(local, shared, c, r), c, now, r)
    <3>1. Win(local, shared, c, r) = NoWindow
      <4>1. c = Center \/ c \in Instances
        BY DEF Sources
      <4> QED BY <1>2, <4>1 DEF Win
    <3>2. H[c] = Z
      OBVIOUS
    <3>3. WindowLen[r] \in Nat \ {0} /\ MaxRequests[r] \in Nat /\ Late(c) \in Nat
      BY Limits, RateLimitAssumption DEF RateLimitAssumption, Late
    <3>4. Fits(Z, 0, -1, IF c = Center THEN -1 ELSE 0, 0, Late(c), WindowLen[r], MaxRequests[r])
      BY <3>3, FitsNothing
    <3>5. (IF c = Center THEN NoWindow.until ELSE NoWindow.until + 1) = IF c = Center THEN -1 ELSE 0
      BY <1>1
    <3> HIDE DEF S, H, Z
    <3> QED BY <1>1, <1>2, <3>1, <3>2, <3>4, <3>5 DEF Keeps
  <2> HIDE DEF H
  <2> QED BY <2>1, <2>2, <2>3 DEF RuleKept
<1> QED BY <1>4, <1>5, <1>6 DEF SpanInv

\* A request is answered, or reads the clock, or goes on to the next rule.
LEMMA CallAnswered ==
    ASSUME CallsHere, NEW c \in Calls, NEW l \in {"allowed", "refused"}, Answer(c, l),
           UNCHANGED <<now, redis>>
    PROVE  CallsHere'
BY DEF CallsHere, Answer, Read

LEMMA CallReads ==
    ASSUME CallsHere, NEW c \in Calls, ReadClock(c), UNCHANGED <<now, redis>>, redis # "up", now \in Times
    PROVE  CallsHere'
<1>1. Read(now)
  BY RateLimitAssumption DEF RateLimitAssumption, Read, Times
<1>2. /\ call' = [call EXCEPT ![c].pc = "lock", ![c].at = now]
      /\ \A a : Read(a)' <=> Read(a)
  BY DEF ReadClock, Read
<1> QED BY <1>1, <1>2 DEF CallsHere

LEMMA SpanOfMemory ==
    ASSUME SpanInv, NEW c \in Calls, AllowInMemory(c), call[c].pc = "lock",
           UNCHANGED <<now, redis, shared>>
    PROVE  /\ local' \in [Instances -> [Rules -> Windows]]
           /\ passed' \in [Rules -> [Times -> Nat]]
           /\ CallsHere'
           /\ \A r \in Rules : RuleKept(Sources(redis), local', shared', passed'[r], now, r)
<1> DEFINE i == call[c].inst
           seen == [r \in Rules |-> MemoryWindow(local[i][r], r, call[c].at)]
           over == {r \in Rules : Over(seen[r], r)}
           reached == {r \in Rules : \A s \in over : r <= s}
<1>1. /\ local' = [local EXCEPT ![i] = [r \in Rules |-> IF r \in reached THEN seen[r] ELSE @[r]]]
      /\ passed' = [r \in Rules |-> IF r \in reached \ over THEN [passed[r] EXCEPT ![now] = @ + 1] ELSE passed[r]]
  BY DEF AllowInMemory, Pass
<1>2. PICK l \in {"allowed", "refused"} : Answer(c, l)
  BY DEF AllowInMemory
<1>a. PICK a : a = call[c].at /\ Read(a) /\ redis # "up"
  BY DEF SpanInv, CallsHere
<1>3. i \in Instances /\ i # Center /\ i \in Sources(redis)
  BY <1>a, CenterApart DEF SpanInv, SpanShape, CallsHere, Sources
<1>4. CallsHere'
  BY <1>2, CallAnswered DEF SpanInv
<1>5. now \in Times /\ \A r \in Rules : local[i][r] \in Windows /\ passed[r] \in [Times -> Nat]
  BY <1>3 DEF SpanInv, SpanShape
<1>6. \A r \in Rules : seen[r] = Count(local[i][r], i, r, a)
  BY <1>a, <1>3 DEF Count
<1>7. \A r \in Rules : seen[r] \in Windows
  <2>1. ASSUME NEW r \in Rules PROVE seen[r] \in Windows
    <3>1. WindowLen[r] \in Nat \ {0}
      BY Limits
    <3>2. MemoryWindow(local[i][r], r, call[c].at) \in Windows
      <4>1. PICK w \in Windows : w = local[i][r]
        BY <1>5
      <4>2. a \in Int /\ a = call[c].at
        BY <1>a DEF Read
      <4>3. w.n \in Nat /\ w.until \in Int /\ w = [n |-> w.n, until |-> w.until]
        BY DEF Windows
      <4>4. [w EXCEPT !.n = @ + 1] = [n |-> w.n + 1, until |-> w.until]
        BY <4>3
      <4> QED BY <3>1, <4>1, <4>2, <4>3, <4>4 DEF MemoryWindow, Windows
    <3> QED BY <3>2
  <2> QED BY <2>1
<1> HIDE DEF seen
<1>8. local' \in [Instances -> [Rules -> Windows]]
  <2>1. local \in [Instances -> [Rules -> Windows]]
    BY DEF SpanInv, SpanShape
  <2> HIDE DEF i
  <2>2. [r \in Rules |-> IF r \in reached THEN seen[r] ELSE local[i][r]] \in [Rules -> Windows]
    BY <1>5, <1>7
  <2> QED BY <1>1, <1>3, <2>1, <2>2
<1>9. passed' \in [Rules -> [Times -> Nat]]
  <2>1. ASSUME NEW r \in Rules PROVE passed'[r] \in [Times -> Nat]
    <3>1. passed[r] \in [Times -> Nat] /\ now \in Times
      BY <1>5
    <3>2. [passed[r] EXCEPT ![now] = @ + 1] \in [Times -> Nat]
      BY <3>1
    <3> QED BY <1>1, <3>1, <3>2
  <2>2. DOMAIN passed' = Rules /\ passed' = [r \in Rules |-> passed'[r]]
    BY <1>1
  <2> QED BY <2>1, <2>2
<1>10. ASSUME NEW r \in Rules PROVE RuleKept(Sources(redis), local', shared', passed'[r], now, r)
  <2>1. IsFiniteSet(Sources(redis))
    BY SourcesOf DEF SpanInv, SpanShape
  <2>2. \A d \in Sources(redis) : Win(local, shared, d, r) \in Windows
    BY DEF SpanInv, SpanShape, Sources, Win
  <2>3. /\ Win(local, shared, i, r) = local[i][r] /\ Win(local', shared', i, r) = local'[i][r]
        /\ local'[i][r] = IF r \in reached THEN seen[r] ELSE local[i][r]
    <3>1. local \in [Instances -> [Rules -> Windows]]
      BY DEF SpanInv, SpanShape
    <3> HIDE DEF i
    <3> QED BY <1>1, <1>3, <3>1 DEF Win
  <2>4. ASSUME NEW d \in Sources(redis)
        PROVE  \/ Win(local', shared', d, r) = Win(local, shared, d, r)
               \/ Win(local', shared', d, r) = Count(Win(local, shared, d, r), d, r, a)
    <3>1. CASE d = Center
      BY <3>1 DEF Win
    <3>2. CASE d = i
      BY <1>6, <2>3, <3>2
    <3>3. CASE d # Center /\ d # i
      <4>1. d \in Instances
        BY <3>3 DEF Sources
      <4>2. local'[d] = local[d]
        <5>1. local \in [Instances -> [Rules -> Windows]]
          BY DEF SpanInv, SpanShape
        <5> HIDE DEF i
        <5> QED BY <1>1, <3>3, <4>1, <5>1
      <4> QED BY <3>3, <4>2 DEF Win
    <3> QED BY <3>1, <3>2, <3>3
  <2>5. \/ passed'[r] = passed[r]
        \/ /\ Win(local', shared', i, r) = Count(Win(local, shared, i, r), i, r, a)
           /\ Win(local', shared', i, r).n <= MaxRequests[r]
           /\ passed'[r] = Bump(passed[r], now)
    <3>1. CASE r \in reached \ over
      <4>1. ~(seen[r].n > MaxRequests[r]) /\ seen[r].n \in Nat /\ MaxRequests[r] \in Nat
        BY <1>7, <3>1, Limits DEF Over, Windows
      <4>2. seen[r].n <= MaxRequests[r]
        BY <4>1
      <4>3. passed'[r] = Bump(passed[r], now)
        BY <1>1, <3>1 DEF Bump
      <4> QED BY <1>6, <2>3, <3>1, <4>2, <4>3
    <3>2. CASE r \notin reached \ over
      BY <1>1, <3>2
    <3> QED BY <3>1, <3>2
  <2>6. RuleKept(Sources(redis), local, shared, passed[r], now, r)
    BY DEF SpanInv
  <2> HIDE DEF i, over, reached
  <2> QED BY <1>a, <1>3, <1>5, <2>1, <2>2, <2>4, <2>5, <2>6, RuleMoves
<1> QED BY <1>4, <1>8, <1>9, <1>10

\* A script counts in the window of its rule.
LEMMA ScriptCounts ==
    ASSUME SpanInv, NEW k \in Rules, shared' = [shared EXCEPT ![k] = RedisWindow(@, k)]
    PROVE  /\ shared' \in [Rules -> Windows]
           /\ shared'[k] = RedisWindow(shared[k], k)
           /\ \A r \in Rules : r # k => shared'[r] = shared[r]
<1>1. shared \in [Rules -> Windows] /\ now \in Nat
  BY DEF SpanInv, SpanShape, Times
<1>2. RedisWindow(shared[k], k) \in Windows
  <2>1. PICK w \in Windows : w = shared[k]
    BY <1>1
  <2>2. w.n \in Nat /\ w.until \in Int /\ w = [n |-> w.n, until |-> w.until]
    BY DEF Windows
  <2>3. [w EXCEPT !.n = @ + 1] = [n |-> w.n + 1, until |-> w.until]
    BY <2>2
  <2>4. WindowLen[k] \in Nat \ {0}
    BY Limits
  <2> QED BY <1>1, <2>1, <2>2, <2>3, <2>4 DEF RedisWindow, Windows
<1> QED BY <1>1, <1>2

LEMMA SpanOfScript ==
    ASSUME SpanInv, NEW c \in Calls, RedisRule(c)
    PROVE  SpanInv'
<1>1. PICK k \in Rules : k = call[c].rule
  BY DEF RedisRule
<1>2. /\ call[c].pc = "rules" /\ redis # "none"
      /\ UNCHANGED <<redis, now, local, degraded>>
      /\ shared' = [shared EXCEPT ![k] = RedisWindow(@, k)]
      /\ \/ /\ Over(shared'[k], k) /\ passed' = passed
            /\ Answer(c, "refused")
         \/ /\ ~Over(shared'[k], k) /\ Pass({k})
            /\ call' = [call EXCEPT ![c].rule = k + 1]
  BY <1>1 DEF RedisRule, IncrRule, SpanInv, CallsHere
<1>a. Read(now)
  BY RateLimitAssumption DEF RateLimitAssumption, Read, SpanInv, SpanShape, Times
<1>3. CallsHere'
  <2>1. CallsHere
    BY DEF SpanInv
  <2>2. CASE Answer(c, "refused")
    BY <1>2, <2>1, <2>2, CallAnswered
  <2>3. CASE call' = [call EXCEPT ![c].rule = k + 1]
    BY <1>2, <2>1, <2>3 DEF CallsHere, Read
  <2> QED BY <1>2, <2>2, <2>3
<1>4. /\ shared' \in [Rules -> Windows] /\ shared'[k] = RedisWindow(shared[k], k)
      /\ \A r \in Rules : r # k => shared'[r] = shared[r]
  BY <1>2, ScriptCounts
<1>5. now \in Times /\ \A r \in Rules : passed[r] \in [Times -> Nat]
  BY DEF SpanInv, SpanShape
<1>6. \A r \in Rules : \/ passed'[r] = passed[r]
                       \/ r = k /\ ~Over(shared'[k], k) /\ passed'[r] = Bump(passed[r], now)
  BY <1>2 DEF Pass, Bump
<1>7. passed' \in [Rules -> [Times -> Nat]]
  <2>1. \A r \in Rules : Bump(passed[r], now) \in [Times -> Nat]
    BY <1>5 DEF Bump
  <2>2. \A r \in Rules : passed'[r] \in [Times -> Nat]
    BY <1>5, <1>6, <2>1
  <2>3. passed' = [r \in Rules |-> passed'[r]]
    BY <1>2 DEF Pass, SpanInv, SpanShape
  <2> QED BY <2>2, <2>3
<1>8. ASSUME NEW r \in Rules PROVE RuleKept(Sources(redis), local', shared', passed'[r], now, r)
  <2>1. IsFiniteSet(Sources(redis)) /\ Center \in Sources(redis)
    BY <1>2, SourcesOf DEF SpanInv, SpanShape, Sources
  <2>2. \A d \in Sources(redis) : Win(local, shared, d, r) \in Windows
    BY DEF SpanInv, SpanShape, Sources, Win
  <2>3. \A d \in Sources(redis) :
             \/ Win(local', shared', d, r) = Win(local, shared, d, r)
             \/ Win(local', shared', d, r) = Count(Win(local, shared, d, r), d, r, now)
    BY <1>2, <1>4 DEF Win, Count
  <2>4. \/ passed'[r] = passed[r]
        \/ /\ Win(local', shared', Center, r) = Count(Win(local, shared, Center, r), Center, r, now)
           /\ Win(local', shared', Center, r).n <= MaxRequests[r]
           /\ passed'[r] = Bump(passed[r], now)
    <3>1. CASE r = k /\ ~Over(shared'[k], k) /\ passed'[r] = Bump(passed[r], now)
      <4>1. shared'[r].n \in Nat /\ MaxRequests[r] \in Nat /\ ~(shared'[r].n > MaxRequests[r])
        BY <1>4, <3>1, Limits DEF Over, Windows
      <4>2. shared'[r].n <= MaxRequests[r]
        BY <4>1
      <4> QED BY <1>4, <3>1, <4>2 DEF Win, Count
    <3> QED BY <1>6, <3>1
  <2>5. RuleKept(Sources(redis), local, shared, passed[r], now, r)
    BY DEF SpanInv
  <2> QED BY <1>a, <1>5, <2>1, <2>2, <2>3, <2>4, <2>5, RuleMoves
<1>9. SpanShape'
  BY <1>2, <1>4, <1>7 DEF SpanInv, SpanShape
<1> QED BY <1>2, <1>3, <1>8, <1>9 DEF SpanInv

LEMMA SpanKept == SpanInv /\ [Next]_vars => SpanInv'
<1> SUFFICES ASSUME SpanInv, [Next]_vars PROVE SpanInv'
  OBVIOUS
<1> DEFINE Still == UNCHANGED <<redis, now, local, shared, passed>>
<1>0. SpanShape /\ CallsHere
  BY DEF SpanInv
<1>1. ASSUME Still, degraded' \in [Instances -> BOOLEAN], CallsHere',
             redis # "flaky" => \A i \in Instances : ~degraded'[i]
      PROVE  SpanInv'
  BY <1>0, <1>1 DEF SpanInv, SpanShape
<1>a. ASSUME NEW c \in Calls, MemoryBegin(c) PROVE SpanInv'
  <2>1. redis # "up" /\ now \in Times /\ ReadClock(c) /\ Still /\ UNCHANGED degraded
    BY <1>0, <1>a DEF MemoryBegin, SpanShape, CallsHere
  <2>2. CallsHere'
    BY <1>0, <2>1, CallReads
  <2> QED BY <1>0, <1>1, <2>1, <2>2 DEF SpanShape
<1>2. ASSUME NEW c \in Calls, MemoryAllow(c) PROVE SpanInv'
  <2>1. call[c].pc = "lock"
    BY <1>2 DEF MemoryAllow
  <2>2. AllowInMemory(c) /\ UNCHANGED <<redis, now, shared, degraded>>
    BY <1>2 DEF MemoryAllow
  <2>3. /\ local' \in [Instances -> [Rules -> Windows]] /\ passed' \in [Rules -> [Times -> Nat]]
        /\ CallsHere'
        /\ \A r \in Rules : RuleKept(Sources(redis), local', shared', passed'[r], now, r)
    BY <2>1, <2>2, SpanOfMemory
  <2> QED BY <1>0, <2>2, <2>3 DEF SpanInv, SpanShape
<1>3. ASSUME NEW c \in Calls, RedisAllow(c) PROVE SpanInv'
  <2>1. CallsHere'
    BY <1>0, <1>3 DEF RedisAllow, CallsHere, Read
  <2> QED BY <1>0, <1>1, <1>3, <2>1 DEF RedisAllow, SpanShape
<1>4. ASSUME NEW c \in Calls, RedisRule(c) PROVE SpanInv'
  BY <1>4, SpanOfScript
<1>5. ASSUME NEW c \in Calls, RedisDone(c) PROVE SpanInv'
  <2>1. CallsHere'
    BY <1>0, <1>5, CallAnswered DEF RedisDone
  <2> QED BY <1>0, <1>1, <1>5, <2>1 DEF RedisDone, SpanShape
<1>6. ASSUME NEW c \in Calls, RedisFails(c) PROVE SpanInv'
  <2>1. PICK k \in Rules : k = call[c].rule
    BY <1>6 DEF RedisFails
  <2>2. /\ redis = "flaky" /\ ReadClock(c) /\ Degrade(call[c].inst)
        /\ UNCHANGED <<redis, now, local, passed>>
        /\ UNCHANGED shared \/ shared' = [shared EXCEPT ![k] = RedisWindow(@, k)]
    BY <1>6, <2>1 DEF RedisFails
  <2>a. now \in Times /\ Read(now)
    BY <1>0, RateLimitAssumption DEF RateLimitAssumption, Read, SpanShape, Times
  <2>3. /\ shared' \in [Rules -> Windows]
        /\ \A r \in Rules : shared'[r] \in {shared[r], RedisWindow(shared[r], r)}
    <3>1. CASE UNCHANGED shared
      BY <1>0, <3>1 DEF SpanShape
    <3>2. CASE shared' = [shared EXCEPT ![k] = RedisWindow(@, k)]
      BY <3>2, ScriptCounts
    <3> QED BY <2>2, <3>1, <3>2
  <2>4. CallsHere'
    BY <1>0, <2>2, <2>a, CallReads
  <2>5. degraded' \in [Instances -> BOOLEAN]
    BY <1>0, <2>2 DEF Degrade, SpanShape
  <2>6. ASSUME NEW r \in Rules PROVE RuleKept(Sources(redis), local', shared', passed'[r], now, r)
    <3>1. IsFiniteSet(Sources(redis)) /\ passed[r] \in [Times -> Nat]
      BY <1>0, SourcesOf DEF SpanShape
    <3>2. \A d \in Sources(redis) : Win(local, shared, d, r) \in Windows
      BY <1>0 DEF SpanShape, Sources, Win
    <3>3. \A d \in Sources(redis) :
               \/ Win(local', shared', d, r) = Win(local, shared, d, r)
               \/ Win(local', shared', d, r) = Count(Win(local, shared, d, r), d, r, now)
      BY <2>2, <2>3 DEF Win, Count
    <3>4. RuleKept(Sources(redis), local, shared, passed[r], now, r) /\ passed'[r] = passed[r]
      BY <2>2 DEF SpanInv
    <3> QED BY <2>a, <3>1, <3>2, <3>3, <3>4, RuleMoves
  <2>7. SpanShape'
    BY <1>0, <2>2, <2>3, <2>5 DEF SpanShape
  <2> QED BY <2>2, <2>4, <2>6, <2>7 DEF SpanInv
<1>7. ASSUME NEW i \in Instances, Recover(i) PROVE SpanInv'
  <2>1. Still /\ degraded' = [degraded EXCEPT ![i] = FALSE] /\ UNCHANGED call
    BY <1>7 DEF Recover
  <2>2. /\ degraded' \in [Instances -> BOOLEAN]
        /\ redis # "flaky" => \A j \in Instances : ~degraded'[j]
    BY <1>0, <2>1 DEF SpanShape
  <2>3. CallsHere'
    BY <1>0, <2>1 DEF CallsHere, Read
  <2> QED BY <1>1, <2>1, <2>2, <2>3
<1>8. ASSUME UNCHANGED <<redis, now, local, shared, passed, degraded, call>> PROVE SpanInv'
  BY <1>8 DEF SpanInv, SpanShape, CallsHere, Read
<1>9. ASSUME NEW i \in Instances, FlushHits(i) \/ \E r \in Rules : FlushRule(i, r) PROVE SpanInv'
  BY <1>8, <1>9 DEF FlushHits, FlushRule
<1>10. CASE Tick
  <2>1. now < MaxNow /\ now' = now + 1 /\ UNCHANGED <<redis, local, shared, passed, degraded, call>>
    BY <1>10 DEF Tick
  <2>a. CallsHere'
    <3>1. \A c \in Calls : call[c].pc = "lock" => now < call[c].at + Lag
      BY <1>10 DEF Tick
    <3> QED BY <1>0, <2>1, <3>1, RateLimitAssumption DEF RateLimitAssumption, CallsHere, Read, SpanShape, Times
  <2>2. now \in Int /\ now' \in Int /\ now <= now' /\ now' \in Times
    BY <1>0, <2>1, RateLimitAssumption DEF SpanShape, Times, RateLimitAssumption
  <2>3. \A r \in Rules : RuleKept(Sources(redis), local, shared, passed[r], now', r)
    BY <2>2, RuleLater DEF SpanInv
  <2> QED BY <1>0, <2>1, <2>2, <2>3, <2>a DEF SpanInv, SpanShape
<1>11. CASE UNCHANGED vars
  BY <1>8, <1>11 DEF vars
<1> QED BY <1>a, <1>2, <1>3, <1>4, <1>5, <1>6, <1>7, <1>9, <1>10, <1>11 DEF Next

\* For every limit and window, any number of instances, rules and requests, any time
\* a request may wait for the lock with the clock it has read, and a Redis that is
\* there, is not, or comes and goes: in any span as long as its window (in memory,
\* less that time) a rule lets at most twice max_requests pass for each counter.
THEOREM SpanCapThm == Spec => []SpanCap
<1>1. SpanInv => SpanCap
  <2> SUFFICES ASSUME SpanInv, NEW r \in Rules, NEW t \in 0..MaxNow, t + Span(r) - 1 <= MaxNow
               PROVE  SumFunctionOnSet(passed[r], t..(t + Span(r) - 1)) <= 2 * MaxRequests[r] * Counters
    BY DEF SpanCap
  <2>1. PICK X : X = t..(t + Span(r) - 1)
    OBVIOUS
  <2>2. PICK S : S = Sources(redis)
    OBVIOUS
  <2>3. PICK k \in Nat : k = 2 * MaxRequests[r]
    BY Limits
  <2>4. X \in SUBSET Times /\ \A c \in S : Short(X, WindowLen[r] - Late(c))
    <3>0. Span(r) \in Int /\ WindowLen[r] \in Int /\ Lag \in Nat
      BY Limits, RateLimitAssumption DEF RateLimitAssumption, Span
    <3>1. \A c \in S : Late(c) \in Nat /\ Span(r) <= WindowLen[r] - Late(c)
      BY <2>2, <3>0 DEF Sources, Span, Late
    <3>2. X \in SUBSET Times /\ \A x, y \in X : x \in Int /\ y \in Int /\ y - x < Span(r)
      BY <2>1, <3>0, RateLimitAssumption DEF RateLimitAssumption, Times
    <3> QED BY <3>0, <3>1, <3>2 DEF Short
  <2>5. PICK H \in [S -> [Times -> Nat]] :
           /\ \A x \in Times : passed[r][x] = SumFunctionOnSet([c \in S |-> H[c][x]], S)
           /\ \A c \in S : Keeps(H[c], Win(local, shared, c, r), c, now, r)
    BY <2>2 DEF SpanInv, RuleKept
  <2>6. IsFiniteSet(S) /\ Cardinality(S) = Counters /\ IsFiniteSet(X)
    BY <2>2, <2>4, SourcesOf, TimesFinite, FS_Subset DEF SpanInv, SpanShape
  <2>7. PICK f : f = RowSums(H, S, X)
    OBVIOUS
  <2>8. SumFunctionOnSet(passed[r], X) = SumFunctionOnSet(f, S)
    <3>1. \A c \in S, x \in X : H[c][x] \in Int
      BY <2>4, <2>5
    <3>2. \A x \in X : passed[r][x] = SumFunctionOnSet(Column(H, S, x), S)
      BY <2>4, <2>5 DEF Column
    <3> QED BY <2>6, <2>7, <3>1, <3>2, SumSwap
  <2>9. \A c \in S : f[c] \in Nat /\ f[c] <= k
    <3>1. ASSUME NEW c \in S PROVE f[c] \in Nat /\ f[c] <= k
      <4>1. SumFunctionOnSet(H[c], X) <= 2 * MaxRequests[r]
        <5>0. /\ WindowLen[r] \in Nat \ {0} /\ MaxRequests[r] \in Nat /\ Late(c) \in Nat
              /\ now \in Int
          BY Limits, RateLimitAssumption DEF RateLimitAssumption, Late, SpanInv, SpanShape, Times
        <5>1. PICK n, u, e : Fits(H[c], n, u, e, now, Late(c), WindowLen[r], MaxRequests[r])
          BY <2>5 DEF Keeps
        <5>2. PICK A, C : /\ FitsBy(A, C, n, u, e, now, Late(c), WindowLen[r], MaxRequests[r])
                          /\ \A x \in Times : H[c][x] = A[x] + C[x]
          BY <5>1 DEF Fits
        <5> QED BY <2>4, <2>5, <5>0, <5>2, FitsSpan
      <4>2. SumFunctionOnSet(H[c], X) \in Nat
        BY <2>4, <2>5, SumOf
      <4> QED BY <2>3, <2>7, <4>1, <4>2 DEF RowSums
    <3> QED BY <3>1
  <2>10. SumFunctionOnSet(f, S) <= k * Cardinality(S)
    BY <2>6, <2>9, SumCap
  <2> QED BY <2>1, <2>3, <2>6, <2>8, <2>10
<1> QED BY <1>1, SpanStart, SpanKept, PTL DEF Spec

=============================================================================
