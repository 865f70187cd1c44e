------------------------------ MODULE SwrrProofs ------------------------------
(* Proofs about Swrr, for any number of instances, requests and upstreams and *)
(* every configuration.  The shared cursor stays balanced; all cursors stay   *)
(* near 0, by a bound on the sum over any of the upstreams; and requests are  *)
(* split by weight, as the shared cursor is the share that is missing.        *)
EXTENDS MCSwrr, Sums

\* Among finitely many candidates there is one to pick, with a largest gain.
LEMMA BestOf ==
    ASSUME NEW cw \in [Providers -> Int], NEW w, NEW cands \in SUBSET Providers,
           \A p \in cands : w[p] \in Int, cands # {}
    PROVE  /\ Best(cw, w, cands) \in cands
           /\ \A p \in cands : Gained(cw, w, cands)[p] <= Gained(cw, w, cands)[Best(cw, w, cands)]
<1> DEFINE g == Gained(cw, w, cands)
           Wins(p, T) == \A q \in T : g[p] > g[q] \/ (g[p] = g[q] /\ p <= q)
           C == {T \in SUBSET cands : T = {} \/ \E p \in T : Wins(p, T)}
<1>1. /\ cands \subseteq Providers /\ IsFiniteSet(cands)
      /\ \A p \in cands : p \in Nat /\ cw[p] \in Int /\ w[p] \in Int
  <2>1. cands \in SUBSET Providers /\ \A p \in cands : w[p] \in Int
    OBVIOUS
  <2>2. IsFiniteSet(Providers) /\ Providers \subseteq Nat
    BY SwrrAssumption
  <2>3. IsFiniteSet(cands)
    BY <2>1, <2>2, FS_Subset
  <2> QED BY <2>1, <2>2, <2>3
<1>2. \A p \in cands : g[p] \in Int /\ p \in Nat
  BY <1>1 DEF Gained
<1> HIDE DEF g
<1>3. {} \in C
  OBVIOUS
<1>4. ASSUME NEW T \in C, NEW x \in cands \ T PROVE T \cup {x} \in C
  <2>1. CASE T = {}
    <3>1. Wins(x, T \cup {x})
      BY <1>2, <2>1
    <3> QED BY <3>1
  <2>2. CASE T # {}
    <3>1. PICK p \in T : Wins(p, T)
      BY <2>2
    <3>2. Wins(p, T \cup {x}) \/ Wins(x, T \cup {x})
      BY <1>2, <3>1
    <3> QED BY <3>2
  <2> QED BY <2>1, <2>2
<1>5. cands \in C
  BY <1>1, <1>3, <1>4, FiniteInd, Zenon
<1>6. \E p \in cands : Wins(p, cands)
  BY <1>5
<1>7. Best(cw, w, cands) = CHOOSE p \in cands : Wins(p, cands)
  BY DEF Best, g
<1>8. Best(cw, w, cands) \in cands /\ Wins(Best(cw, w, cands), cands)
  BY <1>6, <1>7
<1>9. PICK b \in cands : b = Best(cw, w, cands) /\ Wins(b, cands)
  BY <1>8
<1>10. \A p \in cands : g[p] <= g[b]
  BY <1>2, <1>9
<1> QED BY <1>9, <1>10 DEF g

LEMMA CandidatesOf ==
    ASSUME NEW w \in Configs, NEW cands \in SUBSET DOMAIN w
    PROVE  /\ cands \in SUBSET Providers /\ IsFiniteSet(Providers)
           /\ \A p \in cands : w[p] \in Int
<1>1. cands \in SUBSET Providers /\ \A p \in cands : w[p] \in Int
  BY SwrrAssumption
<1>2. IsFiniteSet(Providers)
  BY SwrrAssumption
<1> QED BY <1>1, <1>2

\* A pick moves weight from the candidates' gains to the one it picks.
LEMMA AdvanceBalanced ==
    ASSUME IsFiniteSet(Providers), NEW cw \in [Providers -> Int], NEW w, NEW cands \in SUBSET Providers,
           \A p \in cands : w[p] \in Int, Best(cw, w, cands) \in cands
    PROVE  /\ Advance(cw, w, cands) \in [Providers -> Int]
           /\ SumFunctionOnSet(Advance(cw, w, cands), Providers) = SumFunctionOnSet(cw, Providers)
<1>1. Advance(cw, w, cands) = Moved(cw, Providers, w, cands, Best(cw, w, cands))
  BY DEF Total, Advance, Gained, Moved
<1> QED BY <1>1, SumMoved

\* Twice the sum of k of n entries, at most: of the shared cursor, whose sum is 0,
\* and of an instance's cursor, where that of all may drift.
SharedCap(n, t) == [k \in 0..n |-> t * k * (n - k) - IF n > 2 /\ k > 0 /\ k < n THEN 1 ELSE 0]
LocalCap(n, t) == [k \in 0..n |-> t * k * (2 * n - k - 1) - IF n > 1 /\ k > 0 THEN 1 ELSE 0]

\* How caps rise so that a pick keeps sums below them: m candidates in a set of k
\* without the winner are bounded by the set with it and the set without them.
Rises(g, n, t) ==
    \A k \in 1..n, m \in 1..n : m <= k /\ k < n =>
        m * (g[k + 1] + 2 * t) + g[k - m] < (m + 1) * (g[k] + 1)

\* And so that it keeps debts below them: the winner in a set of k has not less
\* than any of r candidates outside, and the set with them is bounded as well.
Falls(g, n, t) ==
    \A k \in 1..n, r \in 1..n : k + r <= n =>
        g[k + r] + r * g[k - 1] + 2 * r * t < (r + 1) * (g[k] + 1)

LEMMA Product ==
    ASSUME NEW t \in Nat, NEW m \in Nat, m >= 1
    PROVE  t * m * (m - 1) >= 0 /\ (t > 0 /\ m > 1 => t * m * (m - 1) > 0)
<1>1. PICK d \in Nat : d = m - 1
  OBVIOUS
<1>2. \A a, b \in Nat : a * b \in Nat /\ (a > 0 /\ b > 0 => a * b > 0)
  OBVIOUS
<1>3. t * m \in Nat /\ (t > 0 => t * m > 0)
  BY <1>2
<1> QED BY <1>1, <1>2, <1>3

LEMMA SharedRises ==
    ASSUME NEW n \in Nat, NEW t \in Nat, t > 0
    PROVE  Rises(SharedCap(n, t), n, t)
<1> SUFFICES ASSUME NEW k \in 1..n, NEW m \in 1..n, m <= k, k < n
             PROVE  LET g == SharedCap(n, t) IN m * (g[k + 1] + 2 * t) + g[k - m] < (m + 1) * (g[k] + 1)
  BY DEF Rises
<1> DEFINE e(j) == IF n > 2 /\ j > 0 /\ j < n THEN 1 ELSE 0
<1>1. /\ SharedCap(n, t)[k] = t * k * (n - k) - e(k)
      /\ SharedCap(n, t)[k + 1] = t * (k + 1) * (n - (k + 1)) - e(k + 1)
      /\ SharedCap(n, t)[k - m] = t * (k - m) * (n - (k - m)) - e(k - m)
  BY DEF SharedCap
<1>2. t * m * (m - 1) >= 0 /\ (m > 1 => t * m * (m - 1) > 0)
  BY Product
<1>3. m * (t * (k + 1) * (n - (k + 1)) + 2 * t) + t * (k - m) * (n - (k - m)) + t * m * (m - 1) = (m + 1) * (t * k * (n - k))
  OBVIOUS
<1>4. e(k) \in 0..1 /\ e(k + 1) \in 0..1 /\ e(k - m) \in 0..1
  OBVIOUS
<1>5. e(k) = 0 \/ m > 1 \/ e(k + 1) = 1 \/ e(k - m) = 1
  OBVIOUS
<1> HIDE DEF e
<1>6. PICK a \in Int, b \in Int, c \in Int, p \in 0..1, q \in 0..1, r \in 0..1 :
        /\ a = t * k * (n - k) /\ b = t * (k + 1) * (n - (k + 1)) /\ c = t * (k - m) * (n - (k - m))
        /\ p = e(k) /\ q = e(k + 1) /\ r = e(k - m)
  BY <1>4
<1>7. PICK u \in Int : u = t * m * (m - 1)
  OBVIOUS
<1>8. m * (b + 2 * t) + c + u = (m + 1) * a /\ u >= 0 /\ (m > 1 => u > 0)
  BY <1>2, <1>3, <1>6, <1>7
<1>9. m * (b - q + 2 * t) + c - r < (m + 1) * (a - p + 1)
  <2>1. m * (b - q + 2 * t) = m * (b + 2 * t) - m * q
    OBVIOUS
  <2>2. (m + 1) * (a - p + 1) = (m + 1) * a + (m + 1) * (1 - p)
    OBVIOUS
  <2>3. m * q >= 0 /\ (q = 1 => m * q > 0) /\ m * q \in Int
    OBVIOUS
  <2>4. (m + 1) * (1 - p) >= 0 /\ (p = 0 => (m + 1) * (1 - p) > 0) /\ (m + 1) * (1 - p) \in Int
    OBVIOUS
  <2>5. p = 0 \/ m > 1 \/ q = 1 \/ r = 1
    BY <1>5, <1>6
  <2>6. m * (b + 2 * t) \in Int /\ (m + 1) * a \in Int
    OBVIOUS
  <2> QED BY <1>8, <2>1, <2>2, <2>3, <2>4, <2>5, <2>6
<1> QED BY <1>1, <1>6, <1>9

LEMMA LocalRises ==
    ASSUME NEW n \in Nat, NEW t \in Nat, t > 0
    PROVE  Rises(LocalCap(n, t), n, t)
<1> SUFFICES ASSUME NEW k \in 1..n, NEW m \in 1..n, m <= k, k < n
             PROVE  LET g == LocalCap(n, t) IN m * (g[k + 1] + 2 * t) + g[k - m] < (m + 1) * (g[k] + 1)
  BY DEF Rises
<1> DEFINE e(j) == IF n > 1 /\ j > 0 THEN 1 ELSE 0
<1>1. /\ LocalCap(n, t)[k] = t * k * (2 * n - k - 1) - e(k)
      /\ LocalCap(n, t)[k + 1] = t * (k + 1) * (2 * n - (k + 1) - 1) - e(k + 1)
      /\ LocalCap(n, t)[k - m] = t * (k - m) * (2 * n - (k - m) - 1) - e(k - m)
  BY DEF LocalCap
<1>2. t * m * (m - 1) >= 0 
  BY Product
<1>3. m * (t * (k + 1) * (2 * n - (k + 1) - 1) + 2 * t) + t * (k - m) * (2 * n - (k - m) - 1) + t * m * (m - 1)
         = (m + 1) * (t * k * (2 * n - k - 1))
  OBVIOUS
<1>4. e(k) = 1 /\ e(k + 1) = 1 /\ e(k - m) \in 0..1
  OBVIOUS
<1> HIDE DEF e
<1>6. PICK a \in Int, b \in Int, c \in Int, r \in 0..1, u \in Int :
        /\ a = t * k * (2 * n - k - 1) /\ b = t * (k + 1) * (2 * n - (k + 1) - 1)
        /\ c = t * (k - m) * (2 * n - (k - m) - 1)
        /\ r = e(k - m) /\ u = t * m * (m - 1)
  BY <1>4
<1>8. m * (b + 2 * t) + c + u = (m + 1) * a /\ u >= 0
  BY <1>2, <1>3, <1>6
<1>9. m * (b - 1 + 2 * t) + c - r < (m + 1) * (a - 1 + 1)
  <2>1. m * (b - 1 + 2 * t) = m * (b + 2 * t) - m
    OBVIOUS
  <2>6. m * (b + 2 * t) \in Int /\ (m + 1) * a \in Int
    OBVIOUS
  <2> QED BY <1>8, <2>1, <2>6
<1> QED BY <1>1, <1>4, <1>6, <1>9

LEMMA LocalFalls ==
    ASSUME NEW n \in Nat, NEW t \in Nat, t > 0
    PROVE  Falls(LocalCap(n, t), n, t)
<1> SUFFICES ASSUME NEW k \in 1..n, NEW r \in 1..n, k + r <= n
             PROVE  LET g == LocalCap(n, t) IN g[k + r] + r * g[k - 1] + 2 * r * t < (r + 1) * (g[k] + 1)
  BY DEF Falls
<1> DEFINE e(j) == IF n > 1 /\ j > 0 THEN 1 ELSE 0
<1>1. /\ LocalCap(n, t)[k] = t * k * (2 * n - k - 1) - e(k)
      /\ LocalCap(n, t)[k + r] = t * (k + r) * (2 * n - (k + r) - 1) - e(k + r)
      /\ LocalCap(n, t)[k - 1] = t * (k - 1) * (2 * n - (k - 1) - 1) - e(k - 1)
  BY DEF LocalCap
<1>2. t * r * (r - 1) >= 0 
  BY Product
<1>3. t * (k + r) * (2 * n - (k + r) - 1) + r * (t * (k - 1) * (2 * n - (k - 1) - 1)) + 2 * r * t + t * r * (r - 1)
         = (r + 1) * (t * k * (2 * n - k - 1))
  OBVIOUS
<1>4. e(k) = 1 /\ e(k + r) = 1 /\ e(k - 1) \in 0..1
  OBVIOUS
<1> HIDE DEF e
<1>6. PICK a \in Int, b \in Int, c \in Int, q \in 0..1, u \in Int :
        /\ a = t * k * (2 * n - k - 1) /\ b = t * (k + r) * (2 * n - (k + r) - 1)
        /\ c = t * (k - 1) * (2 * n - (k - 1) - 1)
        /\ q = e(k - 1) /\ u = t * r * (r - 1)
  BY <1>4
<1>8. b + r * c + 2 * r * t + u = (r + 1) * a /\ u >= 0
  BY <1>2, <1>3, <1>6
<1>9. b - 1 + r * (c - q) + 2 * r * t < (r + 1) * (a - 1 + 1)
  <2>1. r * (c - q) = r * c - r * q /\ r * q >= 0
    OBVIOUS
  <2>6. r * c \in Int /\ r * q \in Int /\ 2 * r * t \in Int /\ (r + 1) * a \in Int
    OBVIOUS
  <2> QED BY <1>8, <2>1, <2>6
<1> QED BY <1>1, <1>4, <1>6, <1>9

LEMMA LocalGrows ==
    ASSUME NEW n \in Nat, NEW t \in Nat, t > 0, NEW k \in 0..n, NEW j \in 0..k
    PROVE  LocalCap(n, t)[j] <= LocalCap(n, t)[k]
<1> DEFINE e(i) == IF n > 1 /\ i > 0 THEN 1 ELSE 0
<1>1. /\ LocalCap(n, t)[k] = t * k * (2 * n - k - 1) - e(k)
      /\ LocalCap(n, t)[j] = t * j * (2 * n - j - 1) - e(j)
  BY DEF LocalCap
<1>2. CASE j = k
  <2>1. LocalCap(n, t)[k] \in Int
    BY <1>1
  <2> QED BY <1>2, <2>1
<1>3. CASE j < k
  <2>1. PICK a \in Nat, b \in Nat : a = k - j /\ a > 0 /\ b = 2 * n - 1 - k - j
    BY <1>3
  <2>2. t * k * (2 * n - k - 1) = t * j * (2 * n - j - 1) + t * a * b
    BY <2>1
  <2>3. t * a * b >= 0 /\ (b > 0 => t * a * b > 0)
    <3>1. \A x, y \in Nat : x * y \in Nat /\ (x > 0 /\ y > 0 => x * y > 0)
      OBVIOUS
    <3>2. t * a \in Nat /\ t * a > 0
      BY <2>1, <3>1
    <3> QED BY <3>1, <3>2
  <2>4. e(j) = e(k) \/ b > 0
    BY <1>3, <2>1
  <2>5. e(j) \in 0..1 /\ e(k) \in 0..1
    OBVIOUS
  <2> HIDE DEF e
  <2>6. PICK x \in Int, y \in Int, z \in Int : x = t * k * (2 * n - k - 1) /\ y = t * j * (2 * n - j - 1) /\ z = t * a * b
    OBVIOUS
  <2> QED BY <1>1, <2>2, <2>3, <2>4, <2>5, <2>6
<1> QED BY <1>2, <1>3

-----------------------------------------------------------------------------
(* What a pick does to the sum of any set of cursors.                         *)

Spread(x, g) == \A S \in SUBSET Providers : 2 * SumFunctionOnSet(x, S) <= g[Cardinality(S)]
Sunk(x, g) == \A S \in SUBSET Providers : -(2 * SumFunctionOnSet(x, S)) <= g[Cardinality(S)]

\* A pick with cands, weighing t at most together.
Picks(x, w, cands, t) ==
    /\ x \in [Providers -> Int] /\ cands \in SUBSET Providers /\ cands # {}
    /\ \A p \in cands : w[p] \in Nat
    /\ SumFunctionOnSet(w, cands) <= t

EffectOn(S, x, w, cands, b, y, a, tc) ==
    \E p \in Int, q \in Int, r \in 0..tc :
       /\ p = SumFunctionOnSet(x, S) /\ q = SumFunctionOnSet(y, S)
       /\ r = SumFunctionOnSet(w, S \cap cands)
       /\ q = p + r /\ SumFunctionOnSet(a, S) = IF b \in S THEN q - tc ELSE q

\* The candidates' gains y, of which b's is a largest, and the cursors a after b
\* has paid tc.
Effect(x, w, cands, b, y, a, tc) ==
    /\ \A p \in cands : y[p] <= y[b]
    /\ a[b] = y[b] - tc
    /\ \A p \in Providers \ {b} : a[p] = y[p]
    /\ \A p \in Providers : y[p] = IF p \in cands THEN x[p] + w[p] ELSE x[p]
    /\ \A S \in SUBSET Providers : EffectOn(S, x, w, cands, b, y, a, tc)

LEMMA PickSums ==
    ASSUME NEW x, NEW w, NEW cands, NEW t \in Nat, Picks(x, w, cands, t)
    PROVE  \E b \in cands, y \in [Providers -> Int], a \in [Providers -> Int], tc \in 0..t :
              /\ b = Best(x, w, cands) /\ a = Advance(x, w, cands)
              /\ tc = SumFunctionOnSet(w, cands)
              /\ Effect(x, w, cands, b, y, a, tc)
<1>0. /\ x \in [Providers -> Int] /\ cands \in SUBSET Providers /\ cands # {}
      /\ \A p \in cands : w[p] \in Nat /\ w[p] \in Int
      /\ SumFunctionOnSet(w, cands) <= t
  <2>1. \A p \in cands : w[p] \in Nat
    BY DEF Picks
  <2>2. \A p \in cands : w[p] \in Int
    BY <2>1
  <2> QED BY <2>1, <2>2 DEF Picks
<1>f. IsFiniteSet(Providers) /\ \A S \in SUBSET Providers : IsFiniteSet(S)
  BY FS_Subset, SwrrAssumption
<1>1. PICK b \in cands : b = Best(x, w, cands) /\ \A p \in cands : Gained(x, w, cands)[p] <= Gained(x, w, cands)[b]
  BY <1>0, BestOf
<1>2. PICK y \in [Providers -> Int] : y = Gained(x, w, cands)
  <2>0. \A p \in Providers : x[p] \in Int
    BY <1>0
  <2>1. \A p \in Providers : x[p] \in Int /\ (p \in cands => x[p] + w[p] \in Int)
    BY <1>0, <2>0
  <2> QED BY <2>1 DEF Gained
<1>3. \A p \in Providers : y[p] = IF p \in cands THEN x[p] + w[p] ELSE x[p]
  BY <1>0, <1>2 DEF Gained
<1>4. PICK tc \in 0..t : tc = SumFunctionOnSet(w, cands)
  <2>1. SumFunctionOnSet(w, cands) \in Nat
    BY <1>0, <1>f, SumBound
  <2> QED BY <1>0, <2>1
<1>5. PICK a : a = Advance(x, w, cands)
  OBVIOUS
<1>6. a = [y EXCEPT ![b] = @ - tc]
  BY <1>1, <1>2, <1>4, <1>5 DEF Advance, Total
<1>7. a \in [Providers -> Int] /\ a[b] = y[b] - tc /\ \A p \in Providers \ {b} : a[p] = y[p]
  <2>1. b \in Providers /\ y[b] - tc \in Int
    BY <1>0
  <2> QED BY <1>6, <2>1
<1>8. ASSUME NEW S \in SUBSET Providers
      PROVE  /\ SumFunctionOnSet(x, S) \in Int /\ SumFunctionOnSet(y, S) \in Int
             /\ SumFunctionOnSet(w, S \cap cands) \in 0..tc
             /\ SumFunctionOnSet(y, S) = SumFunctionOnSet(x, S) + SumFunctionOnSet(w, S \cap cands)
             /\ SumFunctionOnSet(a, S) = IF b \in S THEN SumFunctionOnSet(y, S) - tc ELSE SumFunctionOnSet(y, S)
  <2>1. /\ IsFiniteSet(S) /\ IsFiniteSet(cands) /\ b \in cands
        /\ \A p \in S : x[p] \in Int
        /\ \A p \in cands : w[p] \in Nat
        /\ \A p \in S : y[p] = IF p \in cands THEN x[p] + w[p] ELSE x[p]
        /\ \A p \in S : a[p] = IF p = b THEN y[p] - SumFunctionOnSet(w, cands) ELSE y[p]
    BY <1>0, <1>3, <1>4, <1>7, <1>f
  <2>2. Picked(S, cands, b, x, w, y, a)
    BY <2>1 DEF Picked
  <2>3. PICK U : U = S \cap cands
    OBVIOUS
  <2>4. /\ SumFunctionOnSet(x, S) \in Int /\ SumFunctionOnSet(y, S) \in Int
        /\ SumFunctionOnSet(w, U) \in 0..SumFunctionOnSet(w, cands)
        /\ SumFunctionOnSet(y, S) = SumFunctionOnSet(x, S) + SumFunctionOnSet(w, U)
        /\ SumFunctionOnSet(a, S) = IF b \in S THEN SumFunctionOnSet(y, S) - SumFunctionOnSet(w, cands)
                                   ELSE SumFunctionOnSet(y, S)
    BY <2>2, <2>3, SumPicked
  <2> QED BY <1>4, <2>3, <2>4
<1>9. \A p \in cands : y[p] <= y[b]
  BY <1>1, <1>2
<1>10. \A S \in SUBSET Providers : EffectOn(S, x, w, cands, b, y, a, tc)
  BY <1>8 DEF EffectOn
<1>11. Effect(x, w, cands, b, y, a, tc)
  BY <1>3, <1>7, <1>9, <1>10 DEF Effect
<1> QED BY <1>1, <1>4, <1>5, <1>7, <1>11

LEMMA SizeOf ==
    ASSUME NEW S \in SUBSET Providers
    PROVE  /\ IsFiniteSet(S) /\ Cardinality(S) \in Nat /\ (Cardinality(S) = 0 <=> S = {})
           /\ Cardinality(Providers) \in Nat /\ Cardinality(Providers) > 0
           /\ Cardinality(S) <= Cardinality(Providers)
<1>1. IsFiniteSet(Providers) /\ Providers # {}
  <2>1. PICK w \in Configs : DOMAIN w # {}
    BY SwrrAssumption
  <2>2. DOMAIN w \in SUBSET Providers
    BY SwrrAssumption
  <2> QED BY <2>1, <2>2, SwrrAssumption
<1>2. Cardinality(Providers) \in Nat /\ Cardinality(Providers) # 0
  BY <1>1, FS_CardinalityType, FS_EmptySet
<1>3. IsFiniteSet(S) /\ Cardinality(S) <= Cardinality(Providers)
  BY <1>1, FS_Subset
<1>4. Cardinality(S) \in Nat /\ (Cardinality(S) = 0 <=> S = {})
  BY <1>3, FS_CardinalityType, FS_EmptySet
<1> QED BY <1>2, <1>3, <1>4

LEMMA SizeRest ==
    ASSUME NEW S, IsFiniteSet(S), NEW A \in SUBSET S
    PROVE  /\ Cardinality(A) \in Nat /\ Cardinality(S) \in Nat /\ Cardinality(A) <= Cardinality(S)
           /\ Cardinality(S \ A) = Cardinality(S) - Cardinality(A)
<1>1. S \cap A = A
  OBVIOUS
<1>2. Cardinality(S \ A) = Cardinality(S) - Cardinality(S \cap A)
  BY FS_Difference
<1>3. IsFiniteSet(A) /\ Cardinality(A) <= Cardinality(S)
  BY FS_Subset
<1> QED BY <1>1, <1>2, <1>3, FS_CardinalityType

\* 2 * (m + 1) * (u + v) counts the set m times with the winner, and once without.
LEMMA RiseArithmetic ==
    ASSUME NEW m \in Nat, NEW u \in Int, NEW v \in Int, NEW y \in Int, NEW t \in Nat,
           NEW c \in Int, NEW d \in Int, NEW e \in Int,
           u <= y * m, 2 * (u + v + y) <= c + 2 * t, 2 * v <= d,
           m * (c + 2 * t) + d < (m + 1) * (e + 1)
    PROVE  2 * (u + v) <= e
<1>1. PICK s \in Int : s = u + v
  OBVIOUS
<1>2. m * (2 * (s + y)) <= m * (c + 2 * t)
  <2>1. \A a, b \in Int : a <= b => m * a <= m * b
    OBVIOUS
  <2>2. 2 * (s + y) <= c + 2 * t
    BY <1>1
  <2> QED BY <2>1, <2>2
<1>3. m * (2 * (s + y)) = 2 * (m * s) + 2 * (y * m) /\ m * s \in Int /\ y * m \in Int
  OBVIOUS
<1>4. (m + 1) * (2 * s) = 2 * (m * s) + 2 * s
  OBVIOUS
<1>5. (m + 1) * (2 * s) <= m * (c + 2 * t) + d
  BY <1>1, <1>2, <1>3, <1>4
<1>6. (m + 1) * (2 * s) < (m + 1) * (e + 1)
  BY <1>5
<1>7. 2 * s < e + 1
  <2>1. \A a, b \in Int : a >= b => (m + 1) * a >= (m + 1) * b
    OBVIOUS
  <2> QED BY <1>6, <2>1
<1> QED BY <1>1, <1>7

\* A pick keeps every set of cursors under a cap that rises fast enough: what a set
\* without the winner gains, the winner would have gained as well.
LEMMA PickRises ==
    ASSUME NEW x, NEW w, NEW cands, NEW t \in Nat, Picks(x, w, cands, t),
           NEW g \in [0..Cardinality(Providers) -> Int], Rises(g, Cardinality(Providers), t), Spread(x, g)
    PROVE  Spread(Advance(x, w, cands), g)
<1>1. PICK b \in cands, y \in [Providers -> Int], a \in [Providers -> Int], tc \in 0..t :
         a = Advance(x, w, cands) /\ Effect(x, w, cands, b, y, a, tc)
  BY PickSums
<1>2. b \in Providers /\ cands \in SUBSET Providers /\ IsFiniteSet(Providers)
  BY SwrrAssumption DEF Picks
<1>3. SUFFICES ASSUME NEW S \in SUBSET Providers PROVE 2 * SumFunctionOnSet(a, S) <= g[Cardinality(S)]
  BY <1>1 DEF Spread
<1>4. PICK k \in 0..Cardinality(Providers) : k = Cardinality(S)
  BY SizeOf
<1>n. Cardinality(Providers) \in Nat /\ IsFiniteSet(S)
  BY SizeOf
<1>5. PICK X \in Int, Y \in Int, W \in 0..tc :
         /\ X = SumFunctionOnSet(x, S) /\ Y = SumFunctionOnSet(y, S)
         /\ W = SumFunctionOnSet(w, S \cap cands)
         /\ Y = X + W /\ SumFunctionOnSet(a, S) = IF b \in S THEN Y - tc ELSE Y
  <2>1. EffectOn(S, x, w, cands, b, y, a, tc)
    BY <1>1 DEF Effect
  <2> QED BY <2>1 DEF EffectOn
<1>6. 2 * X <= g[k] /\ g[k] \in Int
  BY <1>4, <1>5 DEF Spread
<1>7. CASE b \in S
  <2>1. SumFunctionOnSet(a, S) = X + W - tc
    BY <1>5, <1>7
  <2>2. X + W - tc <= X
    OBVIOUS
  <2> QED BY <1>4, <1>6, <2>1, <2>2
<1>8. CASE S \cap cands = {}
  <2>1. W = 0
    BY <1>5, <1>8, SumEmpty
  <2> QED BY <1>4, <1>5, <1>6, <2>1
<1>9. CASE b \notin S /\ S \cap cands # {}
  <2> DEFINE N == Cardinality(Providers)
  <2>1. PICK A, B, D : A = S \cap cands /\ B = S \ cands /\ D = S \cup {b}
    OBVIOUS
  <2>2. /\ A \in SUBSET S /\ A \in SUBSET Providers /\ B \in SUBSET Providers /\ D \in SUBSET Providers
        /\ S \ A = B /\ A # {}
    BY <1>2, <1>9, <2>1
  <2>3. PICK m \in 1..N : m = Cardinality(A) /\ m <= k
    <3>1. Cardinality(A) \in Nat /\ Cardinality(A) # 0
      BY <2>2, SizeOf
    <3>2. Cardinality(A) <= Cardinality(S)
      BY <1>n, <2>2, SizeRest
    <3> QED BY <1>4, <1>n, <3>1, <3>2
  <2>4. Cardinality(B) = k - m
    BY <1>4, <1>n, <2>2, <2>3, SizeRest
  <2>5. Cardinality(D) = k + 1 /\ k < N /\ k \in 1..N
    <3>1. Cardinality(D) = k + 1
      BY <1>4, <1>9, <1>n, <2>1, FS_AddElement
    <3>2. Cardinality(D) <= N
      BY <2>2, SizeOf
    <3> QED BY <1>n, <2>3, <3>1, <3>2
  <2>6. PICK u \in Int, v \in Int : u = SumFunctionOnSet(y, A) /\ v = SumFunctionOnSet(y, B) /\ Y = u + v
    <3>1. \A p \in S : y[p] \in Int
      OBVIOUS
    <3>2. /\ SumFunctionOnSet(y, S) = SumFunctionOnSet(y, A) + SumFunctionOnSet(y, S \ A)
          /\ SumFunctionOnSet(y, A) \in Int /\ SumFunctionOnSet(y, S \ A) \in Int
      BY <1>n, <2>2, <3>1, SumSplit
    <3> QED BY <1>5, <2>2, <3>2
  <2>7. PICK z \in Int : z = y[b]
    BY <1>2
  <2>8. u <= z * m
    <3>1. \A p \in A : y[p] \in Int /\ y[p] <= z
      BY <1>1, <2>1, <2>2, <2>7 DEF Effect
    <3>2. IsFiniteSet(A)
      BY <2>2, SizeOf
    <3> QED BY <2>3, <2>6, <3>1, <3>2, SumCap
  <2>9. 2 * v <= g[k - m]
    <3>1. B \cap cands = {}
      BY <2>1
    <3>2. PICK p \in Int, q \in Int, r \in 0..tc :
             /\ p = SumFunctionOnSet(x, B) /\ q = SumFunctionOnSet(y, B)
             /\ r = SumFunctionOnSet(w, B \cap cands)
             /\ q = p + r /\ SumFunctionOnSet(a, B) = IF b \in B THEN q - tc ELSE q
      <4>1. EffectOn(B, x, w, cands, b, y, a, tc)
        BY <1>1, <2>2 DEF Effect
      <4> QED BY <4>1 DEF EffectOn
    <3>4. r = 0
      BY <3>1, <3>2, SumEmpty
    <3>3. 2 * SumFunctionOnSet(x, B) <= g[k - m]
      BY <2>2, <2>4 DEF Spread
    <3> QED BY <2>6, <3>2, <3>3, <3>4
  <2>10. 2 * (u + v + z) <= g[k + 1] + 2 * t
    <3>1. PICK p \in Int, q \in Int, r \in 0..tc :
             /\ p = SumFunctionOnSet(x, D) /\ q = SumFunctionOnSet(y, D)
             /\ r = SumFunctionOnSet(w, D \cap cands)
             /\ q = p + r /\ SumFunctionOnSet(a, D) = IF b \in D THEN q - tc ELSE q
      <4>1. EffectOn(D, x, w, cands, b, y, a, tc)
        BY <1>1, <2>2 DEF Effect
      <4> QED BY <4>1 DEF EffectOn
    <3>2. 2 * p <= g[k + 1]
      BY <2>2, <2>5, <3>1 DEF Spread
    <3>3. q = z + Y
      <4>1. IsFiniteSet(S) /\ b \notin S /\ y[b] \in Int /\ \A i \in S : y[i] \in Int
        BY <1>2, <1>9, <1>n
      <4>2. SumFunctionOnSet(y, S \cup {b}) = y[b] + SumFunctionOnSet(y, S)
        BY <4>1, SumAdd
      <4> QED BY <1>5, <2>1, <2>7, <3>1, <4>2
    <3>4. PICK c \in Int : c = g[k + 1]
      <4>1. k + 1 \in 0..N
        BY <1>n, <2>5
      <4> QED BY <4>1
    <3>5. 2 * (u + v + z) = 2 * p + 2 * r
      BY <2>6, <3>1, <3>3
    <3>6. 2 * r <= 2 * t
      OBVIOUS
    <3> QED BY <3>2, <3>4, <3>5, <3>6
  <2>11. m * (g[k + 1] + 2 * t) + g[k - m] < (m + 1) * (g[k] + 1)
    BY <2>3, <2>5 DEF Rises
  <2>12. g[k + 1] \in Int /\ g[k - m] \in Int /\ g[k] \in Int
    <3>1. k + 1 \in 0..N /\ k - m \in 0..N /\ k \in 0..N
      BY <1>n, <2>3, <2>5
    <3> QED BY <3>1
  <2>13. 2 * (u + v) <= g[k]
    <3>1. PICK c \in Int, d \in Int, e \in Int : c = g[k + 1] /\ d = g[k - m] /\ e = g[k]
      BY <2>12
    <3>2. u <= z * m /\ 2 * (u + v + z) <= c + 2 * t /\ 2 * v <= d /\ m * (c + 2 * t) + d < (m + 1) * (e + 1)
      BY <2>8, <2>9, <2>10, <2>11, <3>1
    <3>3. m \in Nat
      BY <1>n
    <3>4. 2 * (u + v) <= e
      BY <3>2, <3>3, RiseArithmetic
    <3> QED BY <3>1, <3>4
  <2> QED BY <1>4, <1>5, <1>9, <2>6, <2>13
<1> QED BY <1>7, <1>8, <1>9

LEMMA FallArithmetic ==
    ASSUME NEW r \in Nat, NEW s \in Int, NEW u \in Int, NEW z \in Int, NEW t \in Nat,
           NEW c \in Int, NEW d \in Int, NEW e \in Int,
           u <= z * r, -(2 * (s + u)) <= c, 2 * z <= 2 * s + d + 2 * t,
           c + r * d + 2 * r * t < (r + 1) * (e + 1)
    PROVE  -(2 * s) <= e
<1>1. r * (2 * z) <= r * (2 * s + d + 2 * t)
  <2>1. \A a, b \in Int : a <= b => r * a <= r * b
    OBVIOUS
  <2> QED BY <2>1
<1>2. r * (2 * z) = 2 * (z * r) /\ z * r \in Int
  OBVIOUS
<1>3. r * (2 * s + d + 2 * t) = 2 * (r * s) + r * d + 2 * r * t /\ r * s \in Int /\ r * d \in Int /\ r * t \in Int
  OBVIOUS
<1>4. (r + 1) * (-(2 * s)) = -(2 * (r * s)) - 2 * s
  OBVIOUS
<1>5. (r + 1) * (-(2 * s)) <= c + r * d + 2 * r * t
  BY <1>1, <1>2, <1>3, <1>4
<1>6. PICK o \in Int : o = -(2 * s)
  OBVIOUS
<1>7. (r + 1) * o < (r + 1) * (e + 1)
  BY <1>3, <1>5, <1>6
<1>8. o < e + 1
  <2>1. \A a, b \in Int : a >= b => (r + 1) * a >= (r + 1) * b
    OBVIOUS
  <2> QED BY <1>7, <2>1
<1> QED BY <1>6, <1>8

\* It keeps them above a cap that falls slowly enough: the candidates outside a set
\* that holds the winner gained no more than the winner did.
LEMMA PickFalls ==
    ASSUME NEW x, NEW w, NEW cands, NEW t \in Nat, Picks(x, w, cands, t),
           NEW g \in [0..Cardinality(Providers) -> Int], Falls(g, Cardinality(Providers), t), Sunk(x, g)
    PROVE  Sunk(Advance(x, w, cands), g)
<1>1. PICK b \in cands, y \in [Providers -> Int], a \in [Providers -> Int], tc \in 0..t :
         /\ a = Advance(x, w, cands) /\ tc = SumFunctionOnSet(w, cands)
         /\ Effect(x, w, cands, b, y, a, tc)
  BY PickSums
<1>2. b \in Providers /\ cands \in SUBSET Providers /\ IsFiniteSet(Providers)
  BY SwrrAssumption DEF Picks
<1>3. SUFFICES ASSUME NEW S \in SUBSET Providers PROVE -(2 * SumFunctionOnSet(a, S)) <= g[Cardinality(S)]
  BY <1>1 DEF Sunk
<1>4. PICK k \in 0..Cardinality(Providers) : k = Cardinality(S)
  BY SizeOf
<1>n. Cardinality(Providers) \in Nat /\ IsFiniteSet(S)
  BY SizeOf
<1>5. PICK X \in Int, Y \in Int, W \in 0..tc :
         /\ X = SumFunctionOnSet(x, S) /\ Y = SumFunctionOnSet(y, S)
         /\ W = SumFunctionOnSet(w, S \cap cands)
         /\ Y = X + W /\ SumFunctionOnSet(a, S) = IF b \in S THEN Y - tc ELSE Y
  <2>1. EffectOn(S, x, w, cands, b, y, a, tc)
    BY <1>1 DEF Effect
  <2> QED BY <2>1 DEF EffectOn
<1>6. -(2 * X) <= g[k] /\ g[k] \in Int
  BY <1>4, <1>5 DEF Sunk
<1>7. CASE b \notin S
  <2>1. SumFunctionOnSet(a, S) = X + W /\ -(2 * (X + W)) <= -(2 * X)
    BY <1>5, <1>7
  <2> QED BY <1>4, <1>6, <2>1
<1>8. CASE cands \subseteq S
  <2>1. S \cap cands = cands
    BY <1>8
  <2>2. W = tc /\ b \in S
    BY <1>1, <1>5, <1>8, <2>1
  <2>3. SumFunctionOnSet(a, S) = X
    BY <1>5, <2>2
  <2> QED BY <1>4, <1>6, <2>3
<1>9. CASE b \in S /\ ~(cands \subseteq S)
  <2> DEFINE N == Cardinality(Providers)
  <2>1. PICK R, D, F : R = cands \ S /\ D = S \cup R /\ F = S \ {b}
    OBVIOUS
  <2>2. /\ R \in SUBSET Providers /\ D \in SUBSET Providers /\ F \in SUBSET Providers
        /\ S \in SUBSET D /\ D \ S = R /\ R # {} /\ D \cap cands = cands /\ b \notin R /\ b \in D
    BY <1>2, <1>9, <2>1
  <2>p. SumFunctionOnSet(a, D) = SumFunctionOnSet(a, S) + SumFunctionOnSet(a, R)
    <3>1. IsFiniteSet(D) /\ \A i \in D : a[i] \in Int
      BY <2>2, SizeOf
    <3>2. S \in SUBSET D
      BY <2>2
    <3>3. SumFunctionOnSet(a, D) = SumFunctionOnSet(a, S) + SumFunctionOnSet(a, D \ S)
      BY <3>1, <3>2, SumSplit
    <3> QED BY <2>2, <3>3
  <2>3. PICK r \in 1..N : r = Cardinality(R)
    <3>1. Cardinality(R) \in Nat /\ Cardinality(R) # 0 /\ Cardinality(R) <= N
      BY <2>2, SizeOf
    <3> QED BY <1>n, <3>1
  <2>4. Cardinality(D) = k + r /\ k + r <= N
    <3>1. IsFiniteSet(D) /\ Cardinality(D) <= N
      BY <2>2, SizeOf
    <3>2. Cardinality(D) \in Nat /\ Cardinality(R) = Cardinality(D) - Cardinality(S)
      BY <2>2, <3>1, SizeRest
    <3>3. PICK i \in Nat, n \in Nat : i = Cardinality(D) /\ n = N
      BY <1>n, <3>2
    <3>4. k \in Int /\ r \in Int /\ r = i - k /\ i <= n
      BY <1>4, <1>n, <2>3, <3>1, <3>2, <3>3
    <3> QED BY <3>3, <3>4
  <2>5. Cardinality(F) = k - 1 /\ k \in 1..N
    <3>1. Cardinality(F) = k - 1
      BY <1>4, <1>9, <1>n, <2>1, FS_RemoveElement
    <3>2. Cardinality(F) \in Nat
      BY <2>2, SizeOf
    <3> QED BY <1>n, <3>1, <3>2
  <2>6. PICK s \in Int, u \in Int, z \in Int :
           s = SumFunctionOnSet(a, S) /\ u = SumFunctionOnSet(y, R) /\ z = y[b] /\ s = Y - tc
    <3>1. SumFunctionOnSet(y, R) \in Int
      <4>1. EffectOn(R, x, w, cands, b, y, a, tc)
        BY <1>1, <2>2 DEF Effect
      <4> QED BY <4>1 DEF EffectOn
    <3>2. SumFunctionOnSet(a, S) = Y - tc /\ tc \in Int
      BY <1>5, <1>9
    <3>3. y[b] \in Int /\ Y - tc \in Int
      BY <1>2, <3>2
    <3> QED BY <3>1, <3>2, <3>3
  <2>7. u <= z * r
    <3>1. \A p \in R : y[p] \in Int /\ y[p] <= z
      BY <1>1, <2>1, <2>2, <2>6 DEF Effect
    <3>2. IsFiniteSet(R)
      BY <2>2, SizeOf
    <3> QED BY <2>3, <2>6, <3>1, <3>2, SumCap
  <2>8. -(2 * (s + u)) <= g[k + r]
    <3>1. PICK p \in Int, q \in Int, v \in 0..tc :
             /\ p = SumFunctionOnSet(x, D) /\ q = SumFunctionOnSet(y, D)
             /\ v = SumFunctionOnSet(w, D \cap cands)
             /\ q = p + v /\ SumFunctionOnSet(a, D) = IF b \in D THEN q - tc ELSE q
      <4>1. EffectOn(D, x, w, cands, b, y, a, tc)
        BY <1>1, <2>2 DEF Effect
      <4> QED BY <4>1 DEF EffectOn
    <3>2. -(2 * p) <= g[k + r]
      BY <2>2, <2>4, <3>1 DEF Sunk
    <3>3. SumFunctionOnSet(a, R) = u
      <4>1. EffectOn(R, x, w, cands, b, y, a, tc)
        BY <1>1, <2>2 DEF Effect
      <4> QED BY <2>2, <2>6, <4>1 DEF EffectOn
    <3>4. p = s + u
      <4>0. p = SumFunctionOnSet(a, D)
        <5>1. tc \in Int /\ v = tc
          <6>1. tc = SumFunctionOnSet(w, D \cap cands)
            BY <1>1, <2>2
          <6> QED BY <3>1, <6>1
        <5> QED BY <2>2, <3>1, <5>1
      <4> QED BY <2>p, <2>6, <3>3, <4>0
    <3> QED BY <3>2, <3>4
  <2>9. 2 * z <= 2 * s + g[k - 1] + 2 * t
    <3>1. PICK p \in Int, q \in Int, v \in 0..tc :
             /\ p = SumFunctionOnSet(x, F) /\ q = SumFunctionOnSet(y, F)
             /\ v = SumFunctionOnSet(w, F \cap cands)
             /\ q = p + v /\ SumFunctionOnSet(a, F) = IF b \in F THEN q - tc ELSE q
      <4>1. EffectOn(F, x, w, cands, b, y, a, tc)
        BY <1>1, <2>2 DEF Effect
      <4> QED BY <4>1 DEF EffectOn
    <3>2. -(2 * p) <= g[k - 1]
      BY <2>2, <2>5, <3>1 DEF Sunk
    <3>3. Y = z + q
      <4>1. \A i \in S : y[i] \in Int
        OBVIOUS
      <4>2. SumFunctionOnSet(y, S) = y[b] + SumFunctionOnSet(y, S \ {b})
        BY <1>9, <1>n, <4>1, SumTake
      <4> QED BY <1>5, <2>1, <2>6, <3>1, <4>2
    <3>4. PICK d \in Int : d = g[k - 1]
      BY <1>n, <2>5
    <3>5. s = z + q - tc
      BY <2>6, <3>3
    <3>6. tc <= t /\ tc \in Int /\ v >= 0 /\ v \in Int
      OBVIOUS
    <3>7. q = p + v
      BY <3>1
    <3>8. -(2 * p) <= d
      BY <3>2, <3>4
    <3>9. 2 * z <= 2 * s + d + 2 * t
      BY <3>5, <3>6, <3>7, <3>8
    <3> QED BY <3>4, <3>9
  <2>10. g[k + r] + r * g[k - 1] + 2 * r * t < (r + 1) * (g[k] + 1)
    BY <2>3, <2>4, <2>5 DEF Falls
  <2>11. g[k + r] \in Int /\ g[k - 1] \in Int /\ g[k] \in Int
    <3>1. k + r \in 0..N /\ k - 1 \in 0..N /\ k \in 0..N
      BY <1>n, <2>4, <2>5
    <3> QED BY <3>1
  <2>12. -(2 * s) <= g[k]
    <3>1. PICK c \in Int, d \in Int, e \in Int : c = g[k + r] /\ d = g[k - 1] /\ e = g[k]
      BY <2>11
    <3>2. u <= z * r /\ -(2 * (s + u)) <= c /\ 2 * z <= 2 * s + d + 2 * t /\ c + r * d + 2 * r * t < (r + 1) * (e + 1)
      BY <2>7, <2>8, <2>9, <2>10, <3>1
    <3>3. r \in Nat
      BY <1>n
    <3>4. -(2 * s) <= e
      BY <3>2, <3>3, FallArithmetic
    <3> QED BY <3>1, <3>4
  <2> QED BY <1>4, <2>6, <2>12
<1> QED BY <1>7, <1>8, <1>9

-----------------------------------------------------------------------------
(* The caps at the start, and when entries are dropped.                       *)

LEMMA SharedCapType ==
    ASSUME NEW n \in Nat, NEW t \in Nat, t > 0
    PROVE  /\ SharedCap(n, t) \in [0..n -> Int]
           /\ \A k \in 0..n : 0 <= SharedCap(n, t)[k]
<1>1. ASSUME NEW k \in 0..n
      PROVE  /\ t * k * (n - k) \in Int
             /\ 0 <= t * k * (n - k) - IF n > 2 /\ k > 0 /\ k < n THEN 1 ELSE 0
  <2>1. PICK m \in Nat : m = n - k
    OBVIOUS
  <2>2. \A a, b \in Nat : a * b \in Nat /\ (a > 0 /\ b > 0 => a * b > 0)
    OBVIOUS
  <2>3. t * k \in Nat /\ (k > 0 => t * k > 0)
    BY <2>2
  <2>4. t * k * m \in Nat /\ (k > 0 /\ m > 0 => t * k * m > 0)
    BY <2>2, <2>3
  <2> QED BY <2>1, <2>4
<1> QED BY <1>1 DEF SharedCap

LEMMA LocalCapType ==
    ASSUME NEW n \in Nat, NEW t \in Nat, t > 0
    PROVE  /\ LocalCap(n, t) \in [0..n -> Int]
           /\ \A k \in 0..n : 0 <= LocalCap(n, t)[k]
<1>1. \A k \in 0..n : t * k * (2 * n - k - 1) \in Int
  OBVIOUS
<1>2. LocalCap(n, t) \in [0..n -> Int] /\ LocalCap(n, t)[0] = 0
  BY <1>1 DEF LocalCap
<1>3. ASSUME NEW k \in 0..n PROVE 0 <= LocalCap(n, t)[k]
  BY <1>2, LocalGrows
<1> QED BY <1>2, <1>3

LEMMA ZeroSpread ==
    ASSUME NEW g, \A k \in 0..Cardinality(Providers) : 0 <= g[k]
    PROVE  Spread(Zero, g) /\ Sunk(Zero, g)
<1>1. ASSUME NEW S \in SUBSET Providers
      PROVE  SumFunctionOnSet(Zero, S) = 0 /\ 0 <= g[Cardinality(S)]
  <2>1. /\ IsFiniteSet(S) /\ Cardinality(S) \in Nat /\ Cardinality(Providers) \in Nat
        /\ Cardinality(S) <= Cardinality(Providers)
    BY SizeOf
  <2>2. \A p \in S : Zero[p] = 0
    BY DEF Zero
  <2>3. Cardinality(S) \in 0..Cardinality(Providers)
    BY <2>1
  <2> QED BY <2>1, <2>2, <2>3, SumZeros
<1> QED BY <1>1 DEF Spread, Sunk

\* Dropped entries leave the sum over those that stay.
LEMMA DroppedSpread ==
    ASSUME NEW t \in Nat, t > 0, NEW g, g = LocalCap(Cardinality(Providers), t),
           NEW x \in [Providers -> Int], NEW w, Spread(x, g), Sunk(x, g)
    PROVE  /\ reconcileCursor(x, w) \in [Providers -> Int]
           /\ Spread(reconcileCursor(x, w), g) /\ Sunk(reconcileCursor(x, w), g)
<1>1. PICK a : a = reconcileCursor(x, w)
  OBVIOUS
<1>2. /\ a \in [Providers -> Int]
      /\ \A p \in Providers : a[p] = IF p \in DOMAIN w THEN x[p] ELSE 0
  BY <1>1 DEF reconcileCursor
<1>3. ASSUME NEW S \in SUBSET Providers
      PROVE  2 * SumFunctionOnSet(a, S) <= g[Cardinality(S)] /\ -(2 * SumFunctionOnSet(a, S)) <= g[Cardinality(S)]
  <2>1. PICK A : A = S \cap DOMAIN w
    OBVIOUS
  <2>2. A \in SUBSET S /\ A \in SUBSET Providers /\ IsFiniteSet(S) /\ IsFiniteSet(A) /\ IsFiniteSet(S \ A)
    BY <2>1, SizeOf, FS_Subset
  <2>3. SumFunctionOnSet(a, S) = SumFunctionOnSet(a, A) + SumFunctionOnSet(a, S \ A)
    <3>1. \A p \in S : a[p] \in Int
      BY <1>2
    <3> QED BY <2>2, <3>1, SumSplit
  <2>4. SumFunctionOnSet(a, S \ A) = 0
    <3>1. \A p \in S \ A : a[p] = 0
      BY <1>2, <2>1
    <3> QED BY <2>2, <3>1, SumZeros
  <2>5. PICK s \in Int : s = SumFunctionOnSet(a, A) /\ s = SumFunctionOnSet(x, A)
    <3>1. \A p \in A : a[p] = x[p]
      BY <1>2, <2>1
    <3>2. \A p \in A : x[p] \in Int
      BY <2>2
    <3> QED BY <2>2, <3>1, <3>2, SumSame, SumType
  <2>6. PICK n \in Nat, k \in Nat, j \in Nat :
           n = Cardinality(Providers) /\ k = Cardinality(S) /\ j = Cardinality(A) /\ k <= n /\ j <= k
    <3>1. /\ Cardinality(S) \in Nat /\ Cardinality(Providers) \in Nat
          /\ Cardinality(S) <= Cardinality(Providers)
      BY SizeOf
    <3>2. Cardinality(A) \in Nat /\ Cardinality(A) <= Cardinality(S)
      BY <2>2, SizeRest
    <3> QED BY <3>1, <3>2
  <2>7. 2 * s <= g[j] /\ -(2 * s) <= g[j]
    BY <2>2, <2>5, <2>6 DEF Spread, Sunk
  <2>8. g[j] <= g[k] /\ g[j] \in Int /\ g[k] \in Int
    <3>1. j \in 0..n /\ k \in 0..n /\ j \in 0..k
      BY <2>6
    <3> QED BY <2>6, <3>1, LocalGrows, LocalCapType
  <2>9. SumFunctionOnSet(a, S) = s
    BY <2>3, <2>4, <2>5
  <2> QED BY <2>6, <2>7, <2>8, <2>9
<1> QED BY <1>1, <1>2, <1>3 DEF Spread, Sunk

-----------------------------------------------------------------------------
(* The largest configuration.                                                 *)

LEMMA TotalOf ==
    ASSUME NEW w \in Configs
    PROVE  /\ Total(w, DOMAIN w) \in Nat /\ (DOMAIN w # {} => Total(w, DOMAIN w) > 0)
           /\ \A cands \in SUBSET DOMAIN w : Total(w, cands) <= Total(w, DOMAIN w)
<1>1. IsFiniteSet(DOMAIN w) /\ \A p \in DOMAIN w : w[p] \in Nat /\ w[p] > 0
  <2>1. IsFiniteSet(Providers) /\ DOMAIN w \subseteq Providers /\ \A p \in DOMAIN w : w[p] \in Nat \ {0}
    BY SwrrAssumption
  <2> QED BY <2>1, FS_Subset
<1>2. /\ SumFunctionOnSet(w, DOMAIN w) \in Nat
      /\ \A p \in DOMAIN w : w[p] <= SumFunctionOnSet(w, DOMAIN w)
  BY <1>1, SumBound
<1>3. \A cands \in SUBSET DOMAIN w : SumFunctionOnSet(w, cands) <= SumFunctionOnSet(w, DOMAIN w)
  BY <1>1, SumWithin
<1>4. DOMAIN w # {} => SumFunctionOnSet(w, DOMAIN w) > 0
  BY <1>1, <1>2
<1> QED BY <1>2, <1>3, <1>4 DEF Total

LEMMA BoundOf == Bound \in Nat /\ Bound > 0 /\ \A w \in Configs : Total(w, DOMAIN w) <= Bound
<1> DEFINE Tops(b, T) == \A w \in T : Total(w, DOMAIN w) <= Total(b, DOMAIN b)
           C == {T \in SUBSET Configs : T = {} \/ \E b \in T : Tops(b, T)}
<1>1. {} \in C
  OBVIOUS
<1>2. ASSUME NEW T \in C, NEW x \in Configs \ T PROVE T \cup {x} \in C
  <2>1. \A w \in T \cup {x} : Total(w, DOMAIN w) \in Nat
    BY TotalOf
  <2>2. CASE T = {}
    <3>1. Tops(x, T \cup {x})
      BY <2>1, <2>2
    <3> QED BY <3>1
  <2>3. CASE T # {}
    <3>1. PICK b \in T : Tops(b, T)
      BY <2>3
    <3>2. Tops(b, T \cup {x}) \/ Tops(x, T \cup {x})
      BY <2>1, <3>1
    <3> QED BY <3>1, <3>2
  <2> QED BY <2>2, <2>3
<1>3. Configs \in C
  <2>1. IsFiniteSet(Configs)
    BY SwrrAssumption
  <2> QED BY <1>1, <1>2, <2>1, FiniteInd, Zenon
<1>4. PICK v \in Configs : DOMAIN v # {}
  BY SwrrAssumption
<1>5. PICK b \in Configs : Tops(b, Configs)
  BY <1>3, <1>4
<1>6. PICK V : V = {Total(w, DOMAIN w) : w \in Configs}
  OBVIOUS
<1>7. \E n \in V : \A w \in Configs : Total(w, DOMAIN w) <= n
  BY <1>5, <1>6
<1>8. PICK n \in V : n = Bound /\ \A w \in Configs : Total(w, DOMAIN w) <= n
  BY <1>6, <1>7 DEF Bound
<1>9. n \in Nat
  BY <1>6, TotalOf
<1>10. Total(v, DOMAIN v) \in Nat /\ Total(v, DOMAIN v) > 0 /\ Total(v, DOMAIN v) <= n
  BY <1>4, <1>8, TotalOf
<1> QED BY <1>8, <1>9, <1>10

\* A request that advances a cursor has candidates, of the configuration it
\* started with.
CursorInv ==
    /\ cfg \in Configs
    /\ shared \in [Providers -> Int] /\ SharedBalanced
    /\ DOMAIN call = Calls
    /\ \A c \in Calls :
          /\ DOMAIN call[c] = {"pc", "w", "tried", "cands"}
          /\ call[c].pc # "end" => call[c].w \in Configs
          /\ call[c].pc \in {"remote", "local"} =>
                call[c].cands # {} /\ call[c].cands \in SUBSET DOMAIN call[c].w

LEMMA CursorStart == ASSUME Init PROVE CursorInv
<1>1. IsFiniteSet(Providers)
  BY SwrrAssumption
<1>2. shared = [p \in Providers |-> 0]
  BY DEF Init, Zero
<1>3. SumFunctionOnSet(shared, Providers) = 0
  BY <1>1, <1>2, SumZeros
<1>4. SharedBalanced
  BY <1>3 DEF Total, SharedBalanced
<1> QED BY <1>2, <1>4 DEF CursorInv, Init, Ended

LEMMA CursorKept ==
    ASSUME CursorInv, [Next]_vars
    PROVE  CursorInv'
<1>0. /\ SumFunctionOnSet(shared, Providers) = 0
      /\ SharedBalanced' <=> SumFunctionOnSet(shared', Providers) = 0
  BY DEF Total, CursorInv, SharedBalanced
<1>1. CASE UNCHANGED vars
  BY <1>0, <1>1 DEF CursorInv, vars
<1>2. ASSUME NEW c \in Calls, Start(c) PROVE CursorInv'
  BY <1>0, <1>2 DEF CursorInv, Start, Ended
<1>3. ASSUME NEW c \in Calls, NEW h \in Healthy, Select(c, h) PROVE CursorInv'
  <2> DEFINE all == Untried(c)
             cands == IF all \cap h = {} THEN all ELSE all \cap h
  <2>0. PICK cursor \in {"remote", "local"} :
           call' = [call EXCEPT ![c].pc = cursor, ![c].cands = cands]
    BY <1>3 DEF Select
  <2> HIDE DEF cands
  <2>a. Untried(c) # {} /\ call[c].pc = "select"
    BY <1>3 DEF Select
  <2>1. /\ DOMAIN call' = Calls
        /\ \A d \in Calls : /\ DOMAIN call'[d] = {"pc", "w", "tried", "cands"}
                            /\ call'[d].w = call[d].w
                            /\ d # c => call'[d] = call[d]
    BY <2>0 DEF CursorInv
  <2>2. call'[c].cands = cands
    BY <2>0 DEF CursorInv
  <2>3. call'[c].cands # {} /\ call'[c].cands \in SUBSET DOMAIN call[c].w
    BY <2>a, <2>2 DEF Untried, cands
  <2>4. cfg' = cfg /\ shared' = shared
    BY <1>3 DEF Select
  <2> QED BY <1>0, <2>a, <2>1, <2>3, <2>4 DEF CursorInv
<1>4. ASSUME NEW c \in Calls, Remote(c) PROVE CursorInv'
  <2>1. call[c].w \in Configs /\ call[c].cands # {} /\ call[c].cands \in SUBSET DOMAIN call[c].w
    BY <1>4 DEF CursorInv, Remote
  <2>2. shared' \in [Providers -> Int] /\ SumFunctionOnSet(shared', Providers) = 0
    <3>0. PICK w \in Configs : w = call[c].w
      BY <2>1
    <3>1. PICK cands \in SUBSET DOMAIN w : cands = call[c].cands /\ cands # {}
      BY <2>1, <3>0
    <3>2. shared' = Advance(shared, w, cands) /\ shared \in [Providers -> Int]
      BY <1>4, <3>0, <3>1 DEF CursorInv, Remote
    <3>3. Best(shared, w, cands) \in cands
      BY <3>1, <3>2, CandidatesOf, BestOf
    <3>4. /\ Advance(shared, w, cands) \in [Providers -> Int]
          /\ SumFunctionOnSet(Advance(shared, w, cands), Providers) = SumFunctionOnSet(shared, Providers)
      BY <3>2, <3>3, CandidatesOf, AdvanceBalanced
    <3> QED BY <1>0, <3>2, <3>4
  <2>3. DOMAIN call' = Calls
    BY <1>4 DEF CursorInv, Remote, Forward
  <2>4. \A d \in Calls \ {c} : call'[d] = call[d]
    BY <1>4 DEF CursorInv, Remote, Forward
  <2>5. /\ DOMAIN call'[c] = {"pc", "w", "tried", "cands"}
        /\ call'[c].w = call[c].w /\ call'[c].pc \in {"forward", "local"}
        /\ call'[c].pc = "local" => call'[c].cands = call[c].cands
    <3>1. CASE Forward(c, Best(shared, call[c].w, call[c].cands))
      BY <3>1 DEF CursorInv, Forward
    <3>2. CASE call' = [call EXCEPT ![c].pc = "local"]
      BY <3>2 DEF CursorInv
    <3> QED BY <1>4, <3>1, <3>2 DEF Remote
  <2>6. cfg' = cfg
    BY <1>4 DEF Remote
  <2> QED BY <1>0, <2>1, <2>2, <2>3, <2>4, <2>5, <2>6 DEF CursorInv
<1>5. ASSUME NEW c \in Calls, RemoteFails(c) PROVE CursorInv'
  BY <1>0, <1>5 DEF CursorInv, RemoteFails
<1>6. ASSUME NEW c \in Calls, Local(c) PROVE CursorInv'
  BY <1>0, <1>6 DEF CursorInv, Local, Forward
<1>7. ASSUME NEW c \in Calls, Retry(c) PROVE CursorInv'
  BY <1>0, <1>7 DEF CursorInv, Retry
<1>8. ASSUME NEW c \in Calls, End(c) PROVE CursorInv'
  BY <1>0, <1>8 DEF CursorInv, End, Ended
<1>9. CASE Reload
  BY <1>0, <1>9 DEF CursorInv, Reload
<1> QED BY <1>1, <1>2, <1>3, <1>4, <1>5, <1>6, <1>7, <1>8, <1>9 DEF Next, CallStep

\* The cursor the instances share only moves weight between upstreams, for every
\* configuration and any number of instances and requests, with every choice of
\* healthy upstreams, reload and lost answer in between (swrrScript).
THEOREM SharedBalancedThm == Spec => []SharedBalanced
<1>1. CursorInv => SharedBalanced
  BY DEF CursorInv
<1>2. Init => CursorInv
  BY CursorStart
<1>3. CursorInv /\ [Next]_vars => CursorInv'
  BY CursorKept
<1> QED BY <1>1, <1>2, <1>3, PTL DEF Spec

-----------------------------------------------------------------------------
(* The bounds.                                                                *)

LEMMA SumOne ==
    ASSUME NEW x \in [Providers -> Int], NEW p \in Providers
    PROVE  SumFunctionOnSet(x, {p}) = x[p]
<1>1. IsFiniteSet({p}) /\ p \in {p} /\ {p} \ {p} = {} /\ \A q \in {p} : x[q] \in Int
  BY FS_Singleton
<1>2. SumFunctionOnSet(x, {p}) = x[p] + SumFunctionOnSet(x, {p} \ {p})
  BY <1>1, SumTake
<1>3. x[p] \in Int
  OBVIOUS
<1> QED BY <1>1, <1>2, <1>3, SumEmpty

\* The cap of one cursor bounds it from above and that of the others, which add up
\* to its opposite, from below.
LEMMA SharedWithin ==
    ASSUME NEW x \in [Providers -> Int], NEW t \in Nat, t > 0, SumFunctionOnSet(x, Providers) = 0,
           Spread(x, SharedCap(Cardinality(Providers), t)), NEW p \in Providers
    PROVE  Within(2 * x[p], (Cardinality(Providers) - 1) * t, 2)
<1>1. PICK n \in Nat : n = Cardinality(Providers) /\ n > 0
  BY SizeOf
<1>2. PICK v \in Int : v = x[p]
  OBVIOUS
<1>3. PICK g : g = SharedCap(n, t)
  OBVIOUS
<1>4. /\ {p} \in SUBSET Providers /\ Cardinality({p}) = 1
      /\ Providers \ {p} \in SUBSET Providers /\ Cardinality(Providers \ {p}) = n - 1
  <2>1. Cardinality({p}) = 1
    BY FS_Singleton
  <2>2. IsFiniteSet(Providers)
    BY SwrrAssumption
  <2>3. Cardinality(Providers \ {p}) = Cardinality(Providers) - 1
    BY <2>2, FS_RemoveElement
  <2> QED BY <1>1, <2>1, <2>3
<1>5. SumFunctionOnSet(x, {p}) = v
  BY <1>2, SumOne
<1>6. SumFunctionOnSet(x, Providers \ {p}) = -v
  <2>1. IsFiniteSet(Providers) /\ \A q \in Providers : x[q] \in Int
    BY SwrrAssumption
  <2>2. IsFiniteSet(Providers \ {p}) /\ \A q \in Providers \ {p} : x[q] \in Int
    BY <2>1, FS_Difference
  <2>3. SumFunctionOnSet(x, Providers) = x[p] + SumFunctionOnSet(x, Providers \ {p})
    BY <2>1, SumTake
  <2>4. SumFunctionOnSet(x, Providers \ {p}) \in Int
    BY <2>2, SumType
  <2> QED BY <1>2, <2>3, <2>4
<1>7. 2 * v <= g[1] /\ 2 * (-v) <= g[n - 1]
  BY <1>1, <1>3, <1>4, <1>5, <1>6 DEF Spread
<1>8. PICK e \in 0..1, m \in Int : e = (IF n > 2 THEN 1 ELSE 0) /\ m = (n - 1) * t
  OBVIOUS
<1>9. g[1] = m - e /\ g[n - 1] = m - e
  <2>1. /\ g[1] = t * 1 * (n - 1) - (IF n > 2 /\ 1 > 0 /\ 1 < n THEN 1 ELSE 0)
        /\ g[n - 1] = t * (n - 1) * (n - (n - 1)) - (IF n > 2 /\ n - 1 > 0 /\ n - 1 < n THEN 1 ELSE 0)
    <3>1. 1 \in 0..n /\ n - 1 \in 0..n
      BY <1>1
    <3> QED BY <1>3, <3>1 DEF SharedCap
  <2>2. t * 1 * (n - 1) = (n - 1) * t /\ t * (n - 1) * (n - (n - 1)) = (n - 1) * t
    OBVIOUS
  <2> QED BY <1>8, <2>1, <2>2
<1>10. -m <= 2 * v /\ 2 * v <= m /\ (n > 2 => -m < 2 * v /\ 2 * v < m)
  BY <1>7, <1>8, <1>9
<1> QED BY <1>1, <1>2, <1>8, <1>10 DEF Within

LEMMA LocalWithin ==
    ASSUME NEW x \in [Providers -> Int], NEW t \in Nat, t > 0, NEW p \in Providers,
           Spread(x, LocalCap(Cardinality(Providers), t)), Sunk(x, LocalCap(Cardinality(Providers), t))
    PROVE  Within(x[p], (Cardinality(Providers) - 1) * t, 1)
<1>1. PICK n \in Nat : n = Cardinality(Providers) /\ n > 0
  BY SizeOf
<1>2. PICK v \in Int : v = x[p]
  OBVIOUS
<1>3. PICK g : g = LocalCap(n, t)
  OBVIOUS
<1>4. {p} \in SUBSET Providers /\ Cardinality({p}) = 1 /\ SumFunctionOnSet(x, {p}) = v
  BY <1>2, FS_Singleton, SumOne
<1>5. 2 * v <= g[1] /\ -(2 * v) <= g[1]
  BY <1>1, <1>3, <1>4 DEF Spread, Sunk
<1>6. PICK e \in 0..1, m \in Int : e = (IF n > 1 THEN 1 ELSE 0) /\ m = (n - 1) * t
  OBVIOUS
<1>7. g[1] = 2 * m - e
  <2>1. g[1] = t * 1 * (2 * n - 1 - 1) - (IF n > 1 /\ 1 > 0 THEN 1 ELSE 0)
    BY <1>1, <1>3 DEF LocalCap
  <2>2. t * 1 * (2 * n - 1 - 1) = 2 * ((n - 1) * t)
    OBVIOUS
  <2> QED BY <1>6, <2>1, <2>2
<1>8. -m <= v /\ v <= m /\ (n > 1 => -m < v /\ v < m)
  BY <1>5, <1>6, <1>7
<1> QED BY <1>1, <1>2, <1>6, <1>8 DEF Within

\* Every set of cursors stays under its cap; in the cursors of the instances, which
\* do not stay balanced, above its opposite as well.
BoundInv ==
    /\ CursorInv
    /\ Spread(shared, SharedCap(Cardinality(Providers), Bound))
    /\ rr \in [Instances -> [Providers -> Int]]
    /\ \A i \in Instances : /\ Spread(rr[i], LocalCap(Cardinality(Providers), Bound))
                            /\ Sunk(rr[i], LocalCap(Cardinality(Providers), Bound))

LEMMA BoundStart == ASSUME Init PROVE BoundInv
<1>1. PICK n \in Nat : n = Cardinality(Providers)
  BY SizeOf
<1>2. Bound \in Nat /\ Bound > 0
  BY BoundOf
<1>3. Spread(Zero, SharedCap(n, Bound))
  <2>1. \A k \in 0..n : 0 <= SharedCap(n, Bound)[k]
    BY <1>2, SharedCapType
  <2> QED BY <1>1, <2>1, ZeroSpread
<1>4. Spread(Zero, LocalCap(n, Bound)) /\ Sunk(Zero, LocalCap(n, Bound))
  <2>1. \A k \in 0..n : 0 <= LocalCap(n, Bound)[k]
    BY <1>2, LocalCapType
  <2> QED BY <1>1, <2>1, ZeroSpread
<1>5. shared = Zero /\ rr = [i \in Instances |-> Zero] /\ Zero \in [Providers -> Int]
  BY DEF Init, Zero
<1> QED BY <1>1, <1>3, <1>4, <1>5, CursorStart DEF BoundInv

LEMMA ConfigPicks ==
    ASSUME NEW x \in [Providers -> Int], NEW w \in Configs, NEW cands \in SUBSET DOMAIN w, cands # {}
    PROVE  Picks(x, w, cands, Bound)
<1>1. cands \in SUBSET Providers /\ \A p \in cands : w[p] \in Nat
  BY SwrrAssumption
<1>2. /\ SumFunctionOnSet(w, cands) <= SumFunctionOnSet(w, DOMAIN w)
      /\ SumFunctionOnSet(w, DOMAIN w) \in Nat /\ SumFunctionOnSet(w, DOMAIN w) <= Bound /\ Bound \in Nat
  BY TotalOf, BoundOf DEF Total
<1>3. SumFunctionOnSet(w, cands) \in Nat
  <2>1. IsFiniteSet(cands)
    BY <1>1, SizeOf
  <2> QED BY <1>1, <2>1, SumBound
<1>4. SumFunctionOnSet(w, cands) <= Bound
  BY <1>2, <1>3
<1> QED BY <1>1, <1>4 DEF Picks

LEMMA AdvanceType ==
    ASSUME NEW x, NEW w, NEW cands, NEW t \in Nat, Picks(x, w, cands, t)
    PROVE  Advance(x, w, cands) \in [Providers -> Int]
BY PickSums

LEMMA BoundKept ==
    ASSUME BoundInv, [Next]_vars
    PROVE  BoundInv'
<1>0. PICK n \in Nat, t \in Nat : n = Cardinality(Providers) /\ t = Bound /\ t > 0
  BY SizeOf, BoundOf
<1>i. CursorInv'
  BY CursorKept DEF BoundInv
<1>s. /\ SharedCap(n, t) \in [0..n -> Int] /\ Rises(SharedCap(n, t), n, t)
      /\ Spread(shared, SharedCap(n, t))
  BY <1>0, SharedCapType, SharedRises DEF BoundInv
<1>l. LocalCap(n, t) \in [0..n -> Int] /\ Rises(LocalCap(n, t), n, t) /\ Falls(LocalCap(n, t), n, t)
  BY <1>0, LocalCapType, LocalRises, LocalFalls
<1>1. CASE UNCHANGED <<rr, shared>>
  BY <1>1, <1>i DEF BoundInv, Spread, Sunk
<1>2. ASSUME NEW c \in Calls, NEW h \in Healthy, Select(c, h) PROVE BoundInv'
  <2>1. PICK i \in Instances : i = InstOf[c]
    BY SwrrAssumption
  <2>2. PICK w : w = call[c].w
    OBVIOUS
  <2>3. shared' = shared /\ rr' = [rr EXCEPT ![i] = reconcileCursor(@, w)]
    BY <1>2, <2>1, <2>2 DEF Select
  <2>4. PICK x \in [Providers -> Int] : x = rr[i] /\ Spread(x, LocalCap(n, t)) /\ Sunk(x, LocalCap(n, t))
    BY <1>0 DEF BoundInv
  <2>5. PICK a \in [Providers -> Int] :
           a = reconcileCursor(x, w) /\ Spread(a, LocalCap(n, t)) /\ Sunk(a, LocalCap(n, t))
    BY <1>0, <2>4, DroppedSpread
  <2>6. rr' = [rr EXCEPT ![i] = a]
    BY <2>3, <2>4, <2>5
  <2> QED BY <1>0, <1>i, <2>3, <2>5, <2>6 DEF BoundInv
<1>3. ASSUME NEW c \in Calls, Remote(c) PROVE BoundInv'
  <2>0. PICK w \in Configs : w = call[c].w
    BY <1>3 DEF BoundInv, CursorInv, Remote
  <2>1. PICK cands \in SUBSET DOMAIN w : w = call[c].w /\ cands = call[c].cands /\ cands # {}
    BY <1>3, <2>0 DEF BoundInv, CursorInv, Remote
  <2>2. shared \in [Providers -> Int] /\ shared' = Advance(shared, w, cands) /\ rr' = rr
    BY <1>3, <2>1 DEF BoundInv, CursorInv, Remote
  <2>3. Picks(shared, w, cands, t)
    BY <1>0, <2>1, <2>2, ConfigPicks
  <2>4. Spread(shared', SharedCap(n, t))
    BY <1>0, <1>s, <2>2, <2>3, PickRises
  <2> QED BY <1>0, <1>i, <2>2, <2>4 DEF BoundInv
<1>4. ASSUME NEW c \in Calls, Local(c) PROVE BoundInv'
  <2>0. PICK w \in Configs : w = call[c].w
    BY <1>4 DEF BoundInv, CursorInv, Local
  <2>1. PICK cands \in SUBSET DOMAIN w : w = call[c].w /\ cands = call[c].cands /\ cands # {}
    BY <1>4, <2>0 DEF BoundInv, CursorInv, Local
  <2>2. PICK i \in Instances : i = InstOf[c]
    BY SwrrAssumption
  <2>3. PICK x \in [Providers -> Int] : x = rr[i] /\ Spread(x, LocalCap(n, t)) /\ Sunk(x, LocalCap(n, t))
    BY <1>0 DEF BoundInv
  <2>4. PICK d \in [Providers -> Int] :
           d = reconcileCursor(x, w) /\ Spread(d, LocalCap(n, t)) /\ Sunk(d, LocalCap(n, t))
    BY <1>0, <2>3, DroppedSpread
  <2>5. PICK a : a = Advance(d, w, cands)
    OBVIOUS
  <2>6. shared' = shared /\ rr' = [rr EXCEPT ![i] = a]
    BY <1>4, <2>1, <2>2, <2>3, <2>4, <2>5 DEF Local
  <2>7. Picks(d, w, cands, t)
    BY <1>0, <2>1, ConfigPicks
  <2>8. a \in [Providers -> Int]
    BY <2>5, <2>7, AdvanceType
  <2>9. Spread(a, LocalCap(n, t)) /\ Sunk(a, LocalCap(n, t))
    BY <1>0, <1>l, <2>4, <2>5, <2>7, PickRises, PickFalls
  <2> QED BY <1>0, <1>i, <2>6, <2>8, <2>9 DEF BoundInv
<1> QED BY <1>1, <1>2, <1>3, <1>4
        DEF Next, CallStep, vars, Start, RemoteFails, Retry, End, Reload

LEMMA BoundGives == BoundInv => SharedBounded /\ LocalBounded
<1> SUFFICES ASSUME BoundInv PROVE SharedBounded /\ LocalBounded
  OBVIOUS
<1>1. Bound \in Nat /\ Bound > 0
  BY BoundOf
<1>2. ASSUME NEW p \in Providers
      PROVE  Within(2 * shared[p], (Cardinality(Providers) - 1) * Bound, 2)
  <2>1. /\ shared \in [Providers -> Int] /\ SumFunctionOnSet(shared, Providers) = 0
        /\ Spread(shared, SharedCap(Cardinality(Providers), Bound))
    BY DEF BoundInv, CursorInv, SharedBalanced, Total
  <2> QED BY <1>1, <2>1, SharedWithin
<1>3. ASSUME NEW i \in Instances, NEW p \in Providers
      PROVE  Within(rr[i][p], (Cardinality(Providers) - 1) * Bound, 1)
  <2>1. PICK x \in [Providers -> Int] :
           /\ x = rr[i] /\ Spread(x, LocalCap(Cardinality(Providers), Bound))
           /\ Sunk(x, LocalCap(Cardinality(Providers), Bound))
    BY DEF BoundInv
  <2>2. Within(x[p], (Cardinality(Providers) - 1) * Bound, 1)
    BY <1>1, <2>1, LocalWithin
  <2> QED BY <2>1, <2>2
<1> QED BY <1>2, <1>3 DEF SharedBounded, LocalBounded

\* For every set of upstreams, every set of configurations and any number of
\* requests and instances, an upstream's debt or credit on the shared cursor stays
\* within half a round for each of the others, in whatever order circuits open and
\* close, upstreams are replaced and the script's answers are lost (swrrScript).
THEOREM SharedBoundedThm == Spec => []SharedBounded
<1>1. Init => BoundInv
  BY BoundStart
<1>2. BoundInv /\ [Next]_vars => BoundInv'
  BY BoundKept
<1>3. BoundInv => SharedBounded
  BY BoundGives
<1> QED BY <1>1, <1>2, <1>3, PTL DEF Spec

\* An entry of an instance's cursor stays within a round for each of the other
\* upstreams, although requests with different snapshots drop each other's entries
\* (reconcileCursor, swrrPick).
THEOREM LocalBoundedThm == Spec => []LocalBounded
<1>1. Init => BoundInv
  BY BoundStart
<1>2. BoundInv /\ [Next]_vars => BoundInv'
  BY BoundKept
<1>3. BoundInv => LocalBounded
  BY BoundGives
<1> QED BY <1>1, <1>2, <1>3, PTL DEF Spec

-----------------------------------------------------------------------------
(* The two scenes.                                                            *)

\* With weights that stay, and all upstreams to choose from, a cursor is what the
\* upstream's share of the requests of the round is ahead of those it was given.
SharesInv ==
    /\ cfg \in [Providers -> Nat \ {0}]
    /\ shared \in [Providers -> Int] /\ SumFunctionOnSet(shared, Providers) = 0
    /\ Spread(shared, SharedCap(Cardinality(Providers), Total(cfg, Providers)))
    /\ \A p \in Providers : -Total(cfg, Providers) < shared[p]
    /\ won \in [Providers -> Nat] /\ Total(won, Providers) < Total(cfg, Providers)
    /\ \A p \in Providers :
          shared[p] = Total(won, Providers) * cfg[p] - Total(cfg, Providers) * won[p]
    /\ DOMAIN call = Calls
    /\ \A c \in Calls :
          /\ DOMAIN call[c] = {"pc", "w", "tried", "cands"}
          /\ call[c].pc \in {"end", "select", "remote", "forward"}
          /\ call[c].pc # "end" => call[c].w = cfg
          /\ call[c].pc \in {"select", "remote"} => call[c].tried = {}
          /\ call[c].pc = "remote" => call[c].cands = Providers

LEMMA WeightTotal ==
    ASSUME NEW w \in [Providers -> Nat \ {0}]
    PROVE  Total(w, Providers) \in Nat /\ Total(w, Providers) > 0 /\ Providers # {}
<1>1. IsFiniteSet(Providers) /\ Providers # {} /\ \A p \in Providers : w[p] \in Nat /\ w[p] > 0
  BY SizeOf
<1>2. /\ SumFunctionOnSet(w, Providers) \in Nat
      /\ \A p \in Providers : w[p] <= SumFunctionOnSet(w, Providers)
  BY <1>1, SumBound
<1>3. SumFunctionOnSet(w, Providers) > 0
  BY <1>1, <1>2
<1> QED BY <1>1, <1>2, <1>3 DEF Total

\* A pick among all upstreams: the winner gained more than 0.
LEMMA PickAll ==
    ASSUME NEW x \in [Providers -> Int], NEW w \in [Providers -> Nat \ {0}], NEW t \in Nat, t > 0,
           t = Total(w, Providers), SumFunctionOnSet(x, Providers) = 0,
           Spread(x, SharedCap(Cardinality(Providers), t)), \A p \in Providers : -t < x[p]
    PROVE  LET a == Advance(x, w, Providers)
               b == Best(x, w, Providers)
           IN  /\ a \in [Providers -> Int] /\ SumFunctionOnSet(a, Providers) = 0 /\ b \in Providers
               /\ Spread(a, SharedCap(Cardinality(Providers), t))
               /\ \A p \in Providers : /\ -t < a[p]
                                       /\ a[p] = IF p = b THEN x[p] + w[p] - t ELSE x[p] + w[p]
<1>1. PICK n \in Nat : n = Cardinality(Providers)
  BY SizeOf
<1>2. IsFiniteSet(Providers) /\ \A p \in Providers : w[p] \in Nat /\ w[p] > 0 /\ x[p] \in Int
  BY SwrrAssumption
<1>3. Picks(x, w, Providers, t)
  BY <1>2, WeightTotal DEF Picks, Total
<1>4. PICK b \in Providers, y \in [Providers -> Int], a \in [Providers -> Int], tc \in 0..t :
         /\ b = Best(x, w, Providers) /\ a = Advance(x, w, Providers)
         /\ tc = SumFunctionOnSet(w, Providers)
         /\ Effect(x, w, Providers, b, y, a, tc)
  BY <1>3, PickSums
<1>5. tc = t
  BY <1>4 DEF Total
<1>6. /\ \A p \in Providers : y[p] <= y[b]
      /\ \A p \in Providers : y[p] = x[p] + w[p]
      /\ \A p \in Providers : a[p] = IF p = b THEN y[p] - t ELSE y[p]
  BY <1>4, <1>5 DEF Effect
<1>7. SumFunctionOnSet(y, Providers) = t /\ SumFunctionOnSet(a, Providers) = 0
  <2>1. EffectOn(Providers, x, w, Providers, b, y, a, tc)
    BY <1>4 DEF Effect
  <2>2. PICK p \in Int, q \in Int, r \in 0..tc :
           /\ p = SumFunctionOnSet(x, Providers) /\ q = SumFunctionOnSet(y, Providers)
           /\ r = SumFunctionOnSet(w, Providers \cap Providers)
           /\ q = p + r /\ SumFunctionOnSet(a, Providers) = IF b \in Providers THEN q - tc ELSE q
    BY <2>1 DEF EffectOn
  <2>3. Providers \cap Providers = Providers
    OBVIOUS
  <2>4. r = t /\ p = 0
    BY <1>4, <1>5, <2>2, <2>3
  <2> QED BY <1>5, <2>2, <2>4
<1>8. y[b] > 0
  <2>1. SUFFICES ASSUME y[b] <= 0 PROVE FALSE
    OBVIOUS
  <2>2. \A p \in Providers : y[p] \in Int /\ y[p] <= 0
    BY <1>6, <2>1
  <2>3. SumFunctionOnSet(y, Providers) <= 0 * Cardinality(Providers)
    BY <1>2, <2>2, SumCap
  <2>4. 0 * Cardinality(Providers) = 0
    BY <1>1
  <2> QED BY <1>7, <2>3, <2>4
<1>9. \A p \in Providers : -t < a[p]
  <2>1. ASSUME NEW p \in Providers PROVE -t < a[p]
    <3>1. PICK i \in Int, j \in Int, k \in Nat : i = a[p] /\ j = x[p] /\ k = w[p] /\ -t < j /\ y[p] = j + k
      BY <1>2, <1>6
    <3>2. i = IF p = b THEN j + k - t ELSE j + k
      BY <1>6, <3>1
    <3>3. p = b => j + k > 0
      BY <1>8, <3>1
    <3> QED BY <3>1, <3>2, <3>3
  <2> QED BY <2>1
<1>10. Spread(a, SharedCap(n, t))
  <2>1. SharedCap(n, t) \in [0..n -> Int] /\ Rises(SharedCap(n, t), n, t)
    BY SharedCapType, SharedRises
  <2> QED BY <1>1, <1>3, <1>4, <2>1, PickRises
<1>11. \A p \in Providers : a[p] = IF p = b THEN x[p] + w[p] - t ELSE x[p] + w[p]
  BY <1>6
<1> QED BY <1>1, <1>4, <1>7, <1>9, <1>10, <1>11

\* A round ends when everybody has its weight, and then all cursors are 0: none
\* can have more than its weight, as its cursor would be a whole round behind.
Round(x, w, t, m, b, a, q, r) ==
    /\ x \in [Providers -> Int] /\ w \in [Providers -> Nat \ {0}]
    /\ t \in Nat /\ t > 0 /\ t = Total(w, Providers)
    /\ m \in [Providers -> Nat] /\ Total(m, Providers) \in Nat /\ Total(m, Providers) < t
    /\ \A p \in Providers : x[p] = Total(m, Providers) * w[p] - t * m[p]
    /\ b \in Providers /\ a \in [Providers -> Int]
    /\ \A p \in Providers : -t < a[p]
    /\ \A p \in Providers : a[p] = IF p = b THEN x[p] + w[p] - t ELSE x[p] + w[p]
    /\ q = [m EXCEPT ![b] = @ + 1]
    /\ r = IF q = w THEN Zero ELSE q

LEMMA RoundKept ==
    ASSUME NEW x \in [Providers -> Int], NEW w \in [Providers -> Nat \ {0}], NEW t \in Nat,
           NEW m \in [Providers -> Nat], NEW b \in Providers, NEW a \in [Providers -> Int],
           NEW q, NEW r, Round(x, w, t, m, b, a, q, r)
    PROVE  /\ r \in [Providers -> Nat] /\ Total(r, Providers) < t
           /\ \A p \in Providers : a[p] = Total(r, Providers) * w[p] - t * r[p]
<1>0. PICK s \in Nat :
         /\ s = Total(m, Providers) /\ s < t /\ t > 0 /\ t = Total(w, Providers)
         /\ \A p \in Providers : x[p] = s * w[p] - t * m[p]
         /\ \A p \in Providers : -t < a[p]
         /\ \A p \in Providers : a[p] = IF p = b THEN x[p] + w[p] - t ELSE x[p] + w[p]
         /\ r = IF q = w THEN Zero ELSE q
  BY DEF Round
<1>1. q \in [Providers -> Nat] /\ q[b] = m[b] + 1 /\ \A p \in Providers : p # b => q[p] = m[p]
  <2>1. q = [m EXCEPT ![b] = @ + 1]
    BY DEF Round
  <2> QED BY <1>0, <2>1
<1>2. IsFiniteSet(Providers)
  BY SwrrAssumption
<1>3. SumFunctionOnSet(q, Providers) = s + 1
  <2>1. Counted(m, q, Providers, b)
    BY <1>1, <1>2 DEF Counted
  <2>2. SumFunctionOnSet(q, Providers) = SumFunctionOnSet(m, Providers) + 1
    BY <2>1, SumCounted
  <2> QED BY <1>0, <2>2 DEF Total
<1>4. ASSUME NEW p \in Providers PROVE a[p] = (s + 1) * w[p] - t * q[p]
  <2>1. PICK i \in Nat, j \in Nat, k \in Int : i = w[p] /\ j = m[p] /\ k = x[p] /\ k = s * i - t * j
    BY <1>0
  <2>2. (s + 1) * i - t * j = k + i /\ (s + 1) * i - t * (j + 1) = k + i - t
    BY <2>1
  <2>3. CASE p = b
    BY <1>0, <1>1, <2>1, <2>2, <2>3
  <2>4. CASE p # b
    BY <1>0, <1>1, <2>1, <2>2, <2>4
  <2> QED BY <2>3, <2>4
<1>5. s + 1 = t => q = w
  <2>1. SUFFICES ASSUME s + 1 = t PROVE q = w
    OBVIOUS
  <2>2. ASSUME NEW p \in Providers PROVE q[p] \in Int /\ w[p] \in Int /\ q[p] <= w[p]
    <3>1. PICK i \in Nat, j \in Nat, k \in Int : i = w[p] /\ j = q[p] /\ k = a[p]
      BY <1>0, <1>1
    <3>2. k = t * i - t * j /\ -t < k
      BY <1>0, <1>4, <2>1, <3>1
    <3>3. j <= i
      <4>1. SUFFICES ASSUME j > i PROVE FALSE
        BY <3>1
      <4>2. PICK d \in Nat : j = i + 1 + d
        <5>1. j - i - 1 \in Nat /\ j = i + 1 + (j - i - 1)
          BY <4>1
        <5> QED BY <5>1
      <4>3. t * j = t * i + t + t * d /\ t * d >= 0 /\ t * d \in Int /\ t * i \in Int
        <5>1. t * j = t * i + t + t * d
          BY <1>0, <4>2
        <5>2. t * d >= 0 /\ t * d \in Int /\ t * i \in Int
          BY <1>0
        <5> QED BY <5>1, <5>2
      <4> QED BY <1>0, <3>2, <4>3
    <3> QED BY <3>1, <3>3
  <2>3. SumFunctionOnSet(q, Providers) = SumFunctionOnSet(w, Providers)
    BY <1>0, <1>3, <2>1 DEF Total
  <2>4. \A p \in Providers : q[p] = w[p]
    <3>1. NoLarger(q, w, Providers)
      BY <1>2, <2>2 DEF NoLarger
    <3> QED BY <2>3, <3>1, SumEqual
  <2> QED BY <1>0, <1>1, <2>4
<1>6. CASE q = w
  <2>1. s + 1 = t
    BY <1>0, <1>3, <1>6 DEF Total
  <2>2. \A p \in Providers : a[p] = 0
    <3>1. ASSUME NEW p \in Providers PROVE a[p] = 0
      <4>1. PICK i \in Nat : i = w[p] /\ i = q[p]
        BY <1>1, <1>6
      <4>2. a[p] = t * i - t * i
        BY <1>4, <2>1, <4>1
      <4> QED BY <1>0, <4>2
    <3> QED BY <3>1
  <2>3. r = Zero /\ (\A p \in Providers : r[p] = 0) /\ r \in [Providers -> Nat]
    BY <1>0, <1>6 DEF Zero
  <2>4. Total(r, Providers) = 0
    BY <1>2, <2>3, SumZeros DEF Total
  <2>5. ASSUME NEW p \in Providers PROVE a[p] = 0 * w[p] - t * r[p]
    <3>1. PICK i \in Nat : i = w[p]
      BY <1>0
    <3>2. 0 * i - t * 0 = 0
      BY <1>0
    <3> QED BY <2>2, <2>3, <3>1, <3>2
  <2> QED BY <1>0, <2>3, <2>4, <2>5
<1>7. CASE q # w
  <2>1. r = q /\ Total(r, Providers) = s + 1
    BY <1>0, <1>3, <1>7 DEF Total
  <2>2. s + 1 < t
    BY <1>0, <1>5, <1>7
  <2> QED BY <1>1, <1>4, <2>1, <2>2
<1> QED BY <1>6, <1>7

LEMMA SharesKept ==
    ASSUME SharesInv, NEW c \in Calls, Shares(c)
    PROVE  SharesInv'
<1>1. CASE Start(c) /\ UNCHANGED won
  BY <1>1 DEF SharesInv, Start, Ended, Spread, Total
<1>2. CASE Select(c, Providers) /\ call'[c].pc = "remote" /\ UNCHANGED won
  <2>0. call[c].pc = "select" /\ call[c].tried = {} /\ call[c].w = cfg /\ cfg \in [Providers -> Nat \ {0}]
    BY <1>2 DEF SharesInv, Select
  <2>1. Untried(c) = Providers
    BY <2>0 DEF Untried
  <2>2. PICK cands : cands = IF Untried(c) \cap Providers = {} THEN Untried(c) ELSE Untried(c) \cap Providers
    OBVIOUS
  <2>3. cands = Providers
    BY <2>1, <2>2
  <2>4. PICK cursor \in {"remote", "local"} : call' = [call EXCEPT ![c].pc = cursor, ![c].cands = cands]
    BY <1>2, <2>2 DEF Select
  <2>5. cursor = "remote"
    BY <1>2, <2>4 DEF SharesInv
  <2>6. cfg' = cfg /\ shared' = shared /\ won' = won
    BY <1>2 DEF Select
  <2>7. /\ DOMAIN call' = Calls
        /\ \A d \in Calls : DOMAIN call'[d] = {"pc", "w", "tried", "cands"} /\ (d # c => call'[d] = call[d])
        /\ call'[c].pc = "remote" /\ call'[c].w = cfg /\ call'[c].tried = {} /\ call'[c].cands = Providers
    BY <2>0, <2>3, <2>4, <2>5 DEF SharesInv
  <2> QED BY <2>6, <2>7 DEF SharesInv
<1>3. CASE End(c) /\ UNCHANGED won
  BY <1>3 DEF SharesInv, End, Ended, Spread, Total
<1>4. CASE Remote(c) /\ call'[c].pc = "forward" /\ won' = Won(Best(shared, call[c].w, call[c].cands))
  <2>0. /\ call[c].pc = "remote" /\ call[c].w = cfg /\ call[c].cands = Providers /\ cfg' = cfg
        /\ shared' = Advance(shared, call[c].w, call[c].cands)
    BY <1>4 DEF SharesInv, Remote
  <2>1. /\ cfg \in [Providers -> Nat \ {0}] /\ shared \in [Providers -> Int]
        /\ SumFunctionOnSet(shared, Providers) = 0
    BY DEF SharesInv
  <2>2. PICK t \in Nat : t = Total(cfg, Providers) /\ t > 0
    BY <2>1, WeightTotal
  <2>3. PICK b : b = Best(shared, cfg, Providers)
    OBVIOUS
  <2>4. /\ shared' \in [Providers -> Int] /\ SumFunctionOnSet(shared', Providers) = 0 /\ b \in Providers
        /\ Spread(shared', SharedCap(Cardinality(Providers), t))
        /\ \A p \in Providers : -t < shared'[p]
        /\ \A p \in Providers : shared'[p] = IF p = b THEN shared[p] + cfg[p] - t ELSE shared[p] + cfg[p]
    <3>1. Spread(shared, SharedCap(Cardinality(Providers), t)) /\ \A p \in Providers : -t < shared[p]
      BY <2>2 DEF SharesInv
    <3>2. shared' = Advance(shared, cfg, Providers)
      BY <2>0
    <3> QED BY <2>1, <2>2, <2>3, <3>1, <3>2, PickAll
  <2>5. PICK s \in Nat : s = Total(won, Providers) /\ s < t
    <3>1. IsFiniteSet(Providers) /\ won \in [Providers -> Nat] /\ Total(won, Providers) < t
      BY <2>2, SwrrAssumption DEF SharesInv
    <3>2. SumFunctionOnSet(won, Providers) \in Nat
      <4>1. \A p \in Providers : won[p] \in Nat
        BY <3>1
      <4> QED BY <3>1, <4>1, SumBound
    <3> QED BY <3>1, <3>2 DEF Total
  <2>6. /\ won' \in [Providers -> Nat] /\ Total(won', Providers) < t
        /\ \A p \in Providers : shared'[p] = Total(won', Providers) * cfg[p] - t * won'[p]
    <3>1. won \in [Providers -> Nat] /\ \A p \in Providers : shared[p] = s * cfg[p] - t * won[p]
      BY <2>2, <2>5 DEF SharesInv
    <3>2. PICK q : q = [won EXCEPT ![b] = @ + 1]
      OBVIOUS
    <3>3. won' = IF q = cfg THEN Zero ELSE q
      BY <1>4, <2>0, <2>3, <3>2 DEF Won
    <3>4. PICK a \in [Providers -> Int] : a = shared'
      BY <2>4
    <3>5. PICK r : r = IF q = cfg THEN Zero ELSE q
      OBVIOUS
    <3>6. Round(shared, cfg, t, won, b, a, q, r)
      BY <2>1, <2>2, <2>4, <2>5, <3>1, <3>2, <3>4, <3>5 DEF Round
    <3>7. /\ r \in [Providers -> Nat] /\ Total(r, Providers) < t
          /\ \A p \in Providers : a[p] = Total(r, Providers) * cfg[p] - t * r[p]
      <4>1. PICK x \in [Providers -> Int] : x = shared
        BY <2>1
      <4>2. PICK w \in [Providers -> Nat \ {0}] : w = cfg
        BY <2>1
      <4>3. PICK m \in [Providers -> Nat] : m = won
        BY <3>1
      <4>4. b \in Providers
        BY <2>4
      <4>5. Round(x, w, t, m, b, a, q, r)
        BY <3>6, <4>1, <4>2, <4>3
      <4>6. /\ r \in [Providers -> Nat] /\ Total(r, Providers) < t
            /\ \A p \in Providers : a[p] = Total(r, Providers) * w[p] - t * r[p]
        BY <4>4, <4>5, RoundKept
      <4> QED BY <4>2, <4>6
    <3> QED BY <3>3, <3>4, <3>5, <3>7
  <2>7. call' = [call EXCEPT ![c] = [@ EXCEPT !.pc = "forward", !.tried = @ \cup {b}, !.cands = {}]]
    <3>1. CASE Forward(c, Best(shared, call[c].w, call[c].cands))
      BY <2>0, <2>3, <3>1 DEF Forward
    <3>2. CASE call' = [call EXCEPT ![c].pc = "local"]
      BY <1>4, <3>2 DEF SharesInv
    <3> QED BY <1>4, <3>1, <3>2 DEF Remote
  <2>8. /\ DOMAIN call' = Calls
        /\ \A d \in Calls : DOMAIN call'[d] = {"pc", "w", "tried", "cands"} /\ (d # c => call'[d] = call[d])
        /\ call'[c].pc = "forward" /\ call'[c].w = cfg
    BY <2>0, <2>7 DEF SharesInv
  <2> QED BY <2>0, <2>1, <2>2, <2>4, <2>6, <2>8 DEF SharesInv
<1> QED BY <1>1, <1>2, <1>3, <1>4 DEF Shares

LEMMA SharesStart == ASSUME MCInit, scene = "shares" PROVE SharesInv
<1>1. /\ cfg \in [Providers -> Nat \ {0}] /\ shared = Zero /\ won = Zero
      /\ call = [c \in Calls |-> Ended]
  <2>1. cfg \in Weights
    BY DEF MCInit
  <2>2. 1..MaxWeight \subseteq Nat \ {0}
    BY MCAssumption
  <2>3. cfg \in [Providers -> Nat \ {0}]
    BY <2>1, <2>2 DEF Weights
  <2> QED BY <2>3 DEF MCInit
<1>2. PICK w \in [Providers -> Nat \ {0}] : w = cfg
  BY <1>1
<1>3. PICK t \in Nat : t = Total(w, Providers) /\ t > 0
  BY WeightTotal
<1>4. Zero \in [Providers -> Nat] /\ Zero \in [Providers -> Int] /\ \A p \in Providers : Zero[p] = 0
  BY DEF Zero
<1>5. SumFunctionOnSet(Zero, Providers) = 0
  BY <1>4, SwrrAssumption, SumZeros
<1>6. Spread(Zero, SharedCap(Cardinality(Providers), t))
  <2>1. Cardinality(Providers) \in Nat
    BY SizeOf
  <2>2. \A k \in 0..Cardinality(Providers) : 0 <= SharedCap(Cardinality(Providers), t)[k]
    BY <1>3, <2>1, SharedCapType
  <2> QED BY <2>2, ZeroSpread
<1>7. ASSUME NEW p \in Providers PROVE -t < Zero[p] /\ Zero[p] = 0 * w[p] - t * Zero[p]
  <2>1. PICK i \in Nat : i = w[p]
    OBVIOUS
  <2>2. -t < 0 /\ 0 * i - t * 0 = 0
    BY <1>3
  <2> QED BY <1>4, <2>1, <2>2
<1>8. Total(Zero, Providers) = 0 /\ Total(cfg, Providers) = t
  BY <1>2, <1>3, <1>5 DEF Total
<1>9. \A c \in Calls : call[c] = Ended
  BY <1>1
<1>10. /\ \A p \in Providers : -t < shared[p]
       /\ \A p \in Providers : shared[p] = 0 * cfg[p] - t * won[p]
  BY <1>1, <1>2, <1>7
<1>11. /\ shared \in [Providers -> Int] /\ SumFunctionOnSet(shared, Providers) = 0
       /\ Spread(shared, SharedCap(Cardinality(Providers), Total(cfg, Providers)))
       /\ won \in [Providers -> Nat] /\ Total(won, Providers) = 0
  BY <1>1, <1>4, <1>5, <1>6, <1>8
<1>12. /\ DOMAIN call = Calls
       /\ \A c \in Calls :
             /\ DOMAIN call[c] = {"pc", "w", "tried", "cands"}
             /\ call[c].pc = "end"
  BY <1>1, <1>9 DEF Ended
<1> QED BY <1>1, <1>3, <1>8, <1>10, <1>11, <1>12 DEF SharesInv

\* The cursor is the share missing so far: Smooth is what it says of the requests.
LEMMA SharesGives == ASSUME SharesInv PROVE Smooth
<1>1. PICK w \in [Providers -> Nat \ {0}], t \in Nat :
         w = cfg /\ t = Total(w, Providers) /\ t > 0
  <2>1. cfg \in [Providers -> Nat \ {0}]
    BY DEF SharesInv
  <2> QED BY <2>1, WeightTotal
<1>2. PICK x \in [Providers -> Int] :
         /\ x = shared /\ SumFunctionOnSet(x, Providers) = 0
         /\ Spread(x, SharedCap(Cardinality(Providers), t))
  BY <1>1 DEF SharesInv
<1>3. PICK n : n = Total(won, Providers) /\ n < t
  BY <1>1 DEF SharesInv
<1>4. ASSUME NEW p \in Providers
      PROVE  LET d == n * cfg[p] - t * won[p]
             IN  -t < d /\ Within(2 * d, (Cardinality(Providers) - 1) * t, 2)
  <2>1. Within(2 * x[p], (Cardinality(Providers) - 1) * t, 2)
    BY <1>1, <1>2, SharedWithin
  <2>2. x[p] = n * cfg[p] - t * won[p] /\ -t < x[p]
    BY <1>1, <1>2, <1>3 DEF SharesInv
  <2> QED BY <2>1, <2>2
<1> QED BY <1>1, <1>3, <1>4 DEF Smooth

MCInv ==
    \/ scene = "cursors" /\ BoundInv
    \/ scene = "shares" /\ SharesInv

LEMMA MCStart == ASSUME MCInit PROVE MCInv
<1>1. CASE scene = "cursors"
  <2>1. Init
    BY <1>1 DEF MCInit, Init
  <2> QED BY <1>1, <2>1, BoundStart DEF MCInv
<1>2. CASE scene = "shares"
  BY <1>2, SharesStart DEF MCInv
<1> QED BY <1>1, <1>2 DEF MCInit

LEMMA MCKept == ASSUME MCInv, [MCNext]_mcVars PROVE MCInv'
<1>1. CASE scene = "cursors" /\ BoundInv
  <2>1. [Next]_vars /\ scene' = scene
    BY <1>1 DEF MCNext, mcVars
  <2>2. BoundInv'
    BY <1>1, <2>1, BoundKept
  <2> QED BY <1>1, <2>1, <2>2 DEF MCInv
<1>2. CASE scene = "shares" /\ SharesInv
  <2>1. CASE \E c \in Calls : Shares(c)
    <3>1. SharesInv'
      BY <1>2, <2>1, SharesKept
    <3>2. scene' = scene
      BY <1>2 DEF MCNext, mcVars
    <3> QED BY <1>2, <3>1, <3>2 DEF MCInv
  <2>2. CASE UNCHANGED mcVars
    BY <1>2, <2>2 DEF MCInv, SharesInv, mcVars, vars, Spread, Total
  <2> QED BY <1>2, <2>1, <2>2 DEF MCNext
<1> QED BY <1>1, <1>2 DEF MCInv

\* For every number of requests, instances and upstreams, all configurations and
\* any largest weight: the cursors stay near 0 while circuits, upstreams and Redis
\* come and go (selectCandidatesLocked, swrrPick, swrrScript).
THEOREM CursorsBoundedThm == MCSpec => []CursorsBounded
<1>1. MCInit => MCInv
  BY MCStart
<1>2. MCInv /\ [MCNext]_mcVars => MCInv'
  BY MCKept
<1>3. MCInv => CursorsBounded
  BY BoundGives DEF MCInv, CursorsBounded
<1> QED BY <1>1, <1>2, <1>3, PTL DEF MCSpec

\* For every number of requests, instances and upstreams and all weights, the
\* shared cursor splits the requests strictly by weight (slb.go:16): nobody is a
\* request ahead of its share, and after a round everybody had its weight.
THEOREM SmoothThm == MCSpec => []Smooth
<1>1. MCInit => MCInv
  BY MCStart
<1>2. MCInv /\ [MCNext]_mcVars => MCInv'
  BY MCKept
<1>3. MCInv => Smooth
  BY SharesGives DEF MCInv, Smooth
<1> QED BY <1>1, <1>2, <1>3, PTL DEF MCSpec

=============================================================================
