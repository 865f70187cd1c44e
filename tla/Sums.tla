---------------------------------- MODULE Sums ----------------------------------
(* What the sums of the community modules (SumFunctionOnSet, SumFunction) add *)
(* up to, for every finite set.  They are folds, functions defined by         *)
(* recursion over subsets; the facts below are proved by induction over       *)
(* finite sets, stated with a set of sets instead of a predicate.             *)
EXTENDS Integers, FiniteSets, Functions, FiniteSetTheorems, WellFoundedInduction, TLAPS

-----------------------------------------------------------------------------
(* Induction.                                                                 *)

LEMMA Least ==
    ASSUME NEW B \in SUBSET Nat, B # {}
    PROVE  \E x \in B : \A y \in B : ~(y < x)
<1>1. IsWellFoundedOn(OpToRel(<, Nat), Nat)
  BY NatLessThanWellFounded, Zenon
<1>2. \E x \in B : \A y \in B : ~(<<y, x>> \in OpToRel(<, Nat))
  BY <1>1, WFMin, Zenon
<1> QED BY <1>2 DEF OpToRel

\* A set of numbers with 0 and the successor of each of its members is Nat.
LEMMA NatInd ==
    ASSUME NEW T \in SUBSET Nat, 0 \in T, \A n \in T : n + 1 \in T
    PROVE  T = Nat
<1> SUFFICES ASSUME Nat \ T # {} PROVE FALSE
  OBVIOUS
<1>1. PICK x \in Nat \ T : \A y \in Nat \ T : ~(y < x)
  <2>1. Nat \ T \in SUBSET Nat
    OBVIOUS
  <2> QED BY <2>1, Least
<1>2. x # 0 /\ x - 1 \in Nat /\ x - 1 < x
  BY <1>1
<1>3. x - 1 \in T
  BY <1>1, <1>2
<1> QED BY <1>1, <1>2, <1>3

LEMMA OneLess ==
    ASSUME NEW T, IsFiniteSet(T), NEW x \in T, NEW n \in Nat, Cardinality(T) = n + 1
    PROVE  Cardinality(T \ {x}) = n
<1>1. Cardinality(T \ {x}) = Cardinality(T) - 1
  BY FS_RemoveElement
<1> QED BY <1>1

\* A set of sets with {} that is closed under adding an element of S has S.
LEMMA FiniteInd ==
    ASSUME NEW S, IsFiniteSet(S), NEW C, {} \in C,
           \A T \in C : \A x \in S \ T : T \subseteq S => T \cup {x} \in C
    PROVE  S \in C
<1> DEFINE N == {n \in Nat : \A T \in SUBSET S : Cardinality(T) = n => T \in C}
<1>1. 0 \in N
  <2>1. ASSUME NEW T \in SUBSET S, Cardinality(T) = 0 PROVE T \in C
    <3>1. IsFiniteSet(T)
      BY FS_Subset
    <3> QED BY <2>1, <3>1, FS_EmptySet
  <2> QED BY <2>1
<1>2. ASSUME NEW n \in N PROVE n + 1 \in N
  <2>1. ASSUME NEW T \in SUBSET S, Cardinality(T) = n + 1 PROVE T \in C
    <3>1. IsFiniteSet(T) /\ n \in Nat
      BY FS_Subset
    <3>2. T # {}
      BY <2>1, <3>1, FS_EmptySet
    <3>3. PICK x : x \in T
      BY <3>2
    <3>4. Cardinality(T \ {x}) = Cardinality(T) - 1
      BY <3>1, <3>3, FS_RemoveElement
    <3>5. T \ {x} \in C
      BY <2>1, <3>1, <3>4
    <3>6. T = (T \ {x}) \cup {x} /\ x \in S \ (T \ {x}) /\ T \ {x} \subseteq S
      BY <3>3
    <3> QED BY <3>5, <3>6
  <2> QED BY <2>1
<1>3. N = Nat
  BY <1>1, <1>2, NatInd, Zenon
<1>4. Cardinality(S) \in Nat
  BY FS_CardinalityType
<1> QED BY <1>3, <1>4

-----------------------------------------------------------------------------
(* The recursion.                                                             *)

SumRec(f, S, g) ==
    g = [s \in SUBSET S |->
           IF s = {} THEN 0
           ELSE f[CHOOSE x \in s : TRUE] + g[s \ {CHOOSE x \in s : TRUE}]]

LEMMA SumIs ==
    ASSUME NEW f, NEW S
    PROVE  SumFunctionOnSet(f, S) = (CHOOSE g : SumRec(f, S, g))[S]
BY DEF SumFunctionOnSet, FoldFunctionOnSet, MapThenFoldSet, SumRec

\* It has a solution: one for the subsets of a size gives one for those of the
\* next size.
LEMMA SumExists ==
    ASSUME NEW f, NEW S, IsFiniteSet(S)
    PROVE  \E g : SumRec(f, S, g)
<1> DEFINE P(n) == {s \in SUBSET S : Cardinality(s) <= n}
           c(s) == CHOOSE x \in s : TRUE
           Solves(g, n) == g = [s \in P(n) |-> IF s = {} THEN 0 ELSE f[c(s)] + g[s \ {c(s)}]]
           N == {n \in Nat : \E g : Solves(g, n)}
<1>0. \A s \in SUBSET S : /\ IsFiniteSet(s) /\ Cardinality(s) \in Nat
                          /\ s # {} => /\ c(s) \in s /\ s \ {c(s)} \in SUBSET S
                                       /\ Cardinality(s \ {c(s)}) = Cardinality(s) - 1
  <2> SUFFICES ASSUME NEW s \in SUBSET S
               PROVE  /\ IsFiniteSet(s) /\ Cardinality(s) \in Nat
                      /\ s # {} => /\ c(s) \in s /\ s \ {c(s)} \in SUBSET S
                                   /\ Cardinality(s \ {c(s)}) = Cardinality(s) - 1
    OBVIOUS
  <2>1. IsFiniteSet(s) /\ Cardinality(s) \in Nat
    BY FS_Subset, FS_CardinalityType
  <2>2. s # {} => c(s) \in s
    OBVIOUS
  <2> HIDE DEF c
  <2>3. s # {} => Cardinality(s \ {c(s)}) = Cardinality(s) - 1
    BY <2>1, <2>2, FS_RemoveElement
  <2> QED BY <2>1, <2>2, <2>3
<1> HIDE DEF c
<1>1. 0 \in N
  <2>1. ASSUME NEW s \in P(0) PROVE s = {}
    <3>1. IsFiniteSet(s) /\ Cardinality(s) \in Nat /\ Cardinality(s) <= 0
      BY <1>0
    <3>2. Cardinality(s) = 0
      BY <3>1
    <3> QED BY <3>1, <3>2, FS_EmptySet
  <2>2. Solves([s \in P(0) |-> 0], 0)
    BY <2>1
  <2> QED BY <2>2
<1>2. ASSUME NEW n \in N PROVE n + 1 \in N
  <2>1. PICK g : Solves(g, n)
    BY <1>2
  <2> DEFINE h == [s \in P(n + 1) |-> IF s \in P(n) THEN g[s] ELSE f[c(s)] + g[s \ {c(s)}]]
  <2>2. n \in Nat /\ n + 1 \in Nat /\ P(n) \subseteq P(n + 1)
    <3>1. n \in Nat /\ n + 1 \in Nat
      OBVIOUS
    <3>2. ASSUME NEW s \in P(n) PROVE s \in P(n + 1)
      <4>1. s \in SUBSET S /\ Cardinality(s) \in Nat /\ Cardinality(s) <= n
        BY <1>0
      <4> QED BY <3>1, <4>1
    <3> QED BY <3>1, <3>2
  <2>3. ASSUME NEW s \in P(n + 1), s # {} PROVE s \ {c(s)} \in P(n)
    <3>1. s \in SUBSET S /\ Cardinality(s) \in Nat /\ Cardinality(s) <= n + 1
      BY <1>0
    <3>2. s \ {c(s)} \in SUBSET S /\ Cardinality(s \ {c(s)}) = Cardinality(s) - 1
      BY <1>0, <2>3
    <3> QED BY <2>2, <3>1, <3>2
  <2>4. {} \in P(n)
    BY <2>2, FS_EmptySet
  <2>5. \A s \in P(n) : g[s] = IF s = {} THEN 0 ELSE f[c(s)] + g[s \ {c(s)}]
    BY <2>1
  <2> HIDE DEF P
  <2>6. \A s \in P(n) : h[s] = g[s]
    BY <2>2
  <2>7. \A s \in P(n + 1) : h[s] = IF s = {} THEN 0 ELSE f[c(s)] + h[s \ {c(s)}]
    <3> SUFFICES ASSUME NEW s \in P(n + 1)
                 PROVE  h[s] = IF s = {} THEN 0 ELSE f[c(s)] + h[s \ {c(s)}]
      OBVIOUS
    <3>1. s # {} => h[s \ {c(s)}] = g[s \ {c(s)}]
      BY <2>3, <2>6
    <3>2. CASE s \in P(n)
      BY <2>5, <2>6, <3>1, <3>2
    <3>3. CASE s \notin P(n)
      <4>1. s # {} /\ h[s] = f[c(s)] + g[s \ {c(s)}]
        BY <2>4, <3>3
      <4> HIDE DEF h
      <4> QED BY <3>1, <4>1
    <3> QED BY <3>2, <3>3
  <2>8. h = [s \in P(n + 1) |-> IF s = {} THEN 0 ELSE f[c(s)] + h[s \ {c(s)}]]
    BY <2>7
  <2>9. Solves(h, n + 1)
    BY <2>8
  <2> QED BY <2>2, <2>9
<1>3. N = Nat
  BY <1>1, <1>2, NatInd, Zenon
<1>4. PICK g : Solves(g, Cardinality(S))
  BY <1>3, FS_CardinalityType
<1>5. P(Cardinality(S)) = SUBSET S
  BY FS_Subset
<1>6. SumRec(f, S, g)
  BY <1>4, <1>5 DEF SumRec, c
<1> QED BY <1>6

\* Solutions for functions that agree on T agree on its subsets.
LEMMA SumAgrees ==
    ASSUME NEW f, NEW h, NEW S, NEW T \in SUBSET S, IsFiniteSet(T), \A x \in T : f[x] = h[x],
           NEW g, SumRec(f, S, g), NEW k, SumRec(h, T, k)
    PROVE  g[T] = k[T]
<1> DEFINE c(s) == CHOOSE x \in s : TRUE
           N == {n \in Nat : \A s \in SUBSET T : Cardinality(s) = n => g[s] = k[s]}
<1>0. \A s \in SUBSET T : /\ g[s] = IF s = {} THEN 0 ELSE f[c(s)] + g[s \ {c(s)}]
                          /\ k[s] = IF s = {} THEN 0 ELSE h[c(s)] + k[s \ {c(s)}]
  BY DEF SumRec
<1>1. \A s \in SUBSET T : s # {} => c(s) \in s
  OBVIOUS
<1> HIDE DEF c
<1>2. 0 \in N
  <2>1. ASSUME NEW s \in SUBSET T, Cardinality(s) = 0 PROVE g[s] = k[s]
    <3>1. s = {}
      BY <2>1, FS_Subset, FS_EmptySet
    <3> QED BY <1>0, <3>1
  <2> QED BY <2>1
<1>3. ASSUME NEW n \in N PROVE n + 1 \in N
  <2>1. ASSUME NEW s \in SUBSET T, Cardinality(s) = n + 1 PROVE g[s] = k[s]
    <3>1. IsFiniteSet(s) /\ n \in Nat
      BY FS_Subset
    <3>2. s # {}
      BY <2>1, <3>1, FS_EmptySet
    <3>3. c(s) \in s /\ f[c(s)] = h[c(s)]
      BY <1>1, <3>2
    <3>4. Cardinality(s \ {c(s)}) = n /\ s \ {c(s)} \in SUBSET T
      BY <2>1, <3>1, <3>3, OneLess
    <3>5. g[s \ {c(s)}] = k[s \ {c(s)}]
      BY <3>1, <3>4
    <3>6. g[s] = f[c(s)] + g[s \ {c(s)}] /\ k[s] = h[c(s)] + k[s \ {c(s)}]
      BY <1>0, <3>2
    <3> QED BY <3>3, <3>5, <3>6
  <2> QED BY <2>1
<1>4. N = Nat
  BY <1>2, <1>3, NatInd, Zenon
<1>5. Cardinality(T) \in Nat
  BY FS_CardinalityType
<1> QED BY <1>4, <1>5

-----------------------------------------------------------------------------
(* Sums.                                                                      *)

LEMMA SumEmpty == \A f : SumFunctionOnSet(f, {}) = 0
<1> SUFFICES ASSUME NEW f PROVE SumFunctionOnSet(f, {}) = 0
  OBVIOUS
<1>1. IsFiniteSet({})
  BY FS_EmptySet
<1>2. SumRec(f, {}, CHOOSE g : SumRec(f, {}, g))
  BY <1>1, SumExists
<1> QED BY <1>2, SumIs DEF SumRec

\* Functions that agree on a set have the same sum over it.
LEMMA SumSame ==
    ASSUME NEW f, NEW h, NEW S, IsFiniteSet(S), \A x \in S : f[x] = h[x]
    PROVE  SumFunctionOnSet(f, S) = SumFunctionOnSet(h, S)
<1> DEFINE g == CHOOSE g : SumRec(f, S, g)
           k == CHOOSE k : SumRec(h, S, k)
<1>1. SumRec(f, S, g) /\ SumRec(h, S, k)
  BY SumExists
<1>2. SumFunctionOnSet(f, S) = g[S] /\ SumFunctionOnSet(h, S) = k[S]
  BY SumIs
<1> HIDE DEF g, k
<1> QED BY <1>1, <1>2, SumAgrees

LEMMA SumChosen ==
    ASSUME NEW f, NEW S, IsFiniteSet(S), S # {}
    PROVE  \E c \in S : SumFunctionOnSet(f, S) = f[c] + SumFunctionOnSet(f, S \ {c})
<1> DEFINE c == CHOOSE x \in S : TRUE
           g == CHOOSE g : SumRec(f, S, g)
           k == CHOOSE k : SumRec(f, S \ {c}, k)
<1>0. IsFiniteSet(S \ {c}) /\ c \in S
  BY FS_Difference
<1>1. SumRec(f, S, g) /\ SumRec(f, S \ {c}, k)
  BY <1>0, SumExists
<1>2. SumFunctionOnSet(f, S) = g[S] /\ SumFunctionOnSet(f, S \ {c}) = k[S \ {c}]
  BY SumIs
<1> HIDE DEF g, k
<1>3. g[S] = f[c] + g[S \ {c}]
  BY <1>1 DEF SumRec
<1> HIDE DEF c
<1>4. g[S \ {c}] = k[S \ {c}]
  <2>1. S \ {c} \in SUBSET S
    OBVIOUS
  <2> QED BY <1>0, <1>1, <2>1, SumAgrees
<1> QED BY <1>0, <1>2, <1>3, <1>4

LEMMA SumType ==
    ASSUME NEW f, NEW S, IsFiniteSet(S), \A x \in S : f[x] \in Int
    PROVE  SumFunctionOnSet(f, S) \in Int
<1> DEFINE N == {n \in Nat : \A T \in SUBSET S : Cardinality(T) = n => SumFunctionOnSet(f, T) \in Int}
<1>1. 0 \in N
  <2>1. ASSUME NEW T \in SUBSET S, Cardinality(T) = 0 PROVE SumFunctionOnSet(f, T) = 0
    <3>1. T = {}
      BY <2>1, FS_Subset, FS_EmptySet
    <3> QED BY <3>1, SumEmpty
  <2> QED BY <2>1
<1>2. ASSUME NEW n \in N PROVE n + 1 \in N
  <2>1. ASSUME NEW T \in SUBSET S, Cardinality(T) = n + 1 PROVE SumFunctionOnSet(f, T) \in Int
    <3>1. IsFiniteSet(T) /\ n \in Nat
      BY FS_Subset
    <3>2. T # {}
      BY <2>1, <3>1, FS_EmptySet
    <3>3. PICK c \in T : SumFunctionOnSet(f, T) = f[c] + SumFunctionOnSet(f, T \ {c})
      BY <3>1, <3>2, SumChosen
    <3>4. Cardinality(T \ {c}) = n /\ T \ {c} \in SUBSET S
      BY <2>1, <3>1, OneLess
    <3>5. SumFunctionOnSet(f, T \ {c}) \in Int /\ f[c] \in Int
      BY <3>1, <3>4
    <3> QED BY <3>3, <3>5
  <2> QED BY <2>1
<1>3. N = Nat
  BY <1>1, <1>2, NatInd, Zenon
<1>4. Cardinality(S) \in Nat
  BY FS_CardinalityType
<1> QED BY <1>3, <1>4

\* Any member can be taken out first.
LEMMA SumTake ==
    ASSUME NEW f, NEW S, IsFiniteSet(S), \A x \in S : f[x] \in Int, NEW x \in S
    PROVE  SumFunctionOnSet(f, S) = f[x] + SumFunctionOnSet(f, S \ {x})
<1> DEFINE N == {n \in Nat : \A T \in SUBSET S : Cardinality(T) = n =>
                   \A y \in T : SumFunctionOnSet(f, T) = f[y] + SumFunctionOnSet(f, T \ {y})}
<1>1. 0 \in N
  <2>1. ASSUME NEW T \in SUBSET S, Cardinality(T) = 0 PROVE T = {}
    BY <2>1, FS_Subset, FS_EmptySet
  <2> QED BY <2>1
<1>2. ASSUME NEW n \in N PROVE n + 1 \in N
  <2>1. ASSUME NEW T \in SUBSET S, Cardinality(T) = n + 1, NEW y \in T
        PROVE SumFunctionOnSet(f, T) = f[y] + SumFunctionOnSet(f, T \ {y})
    <3>1. IsFiniteSet(T) /\ n \in Nat
      BY FS_Subset
    <3>2. PICK c \in T : SumFunctionOnSet(f, T) = f[c] + SumFunctionOnSet(f, T \ {c})
      BY <3>1, SumChosen
    <3>3. CASE y = c
      BY <3>2, <3>3
    <3>4. CASE y # c
      <4>1. /\ Cardinality(T \ {c}) = n /\ T \ {c} \in SUBSET S /\ y \in T \ {c}
            /\ Cardinality(T \ {y}) = n /\ T \ {y} \in SUBSET S /\ c \in T \ {y}
        BY <2>1, <3>1, <3>4, OneLess
      <4>2. (T \ {c}) \ {y} = (T \ {y}) \ {c}
        OBVIOUS
      <4>3. PICK R : R = (T \ {c}) \ {y} /\ R = (T \ {y}) \ {c}
        BY <4>2
      <4>4. /\ SumFunctionOnSet(f, T \ {c}) = f[y] + SumFunctionOnSet(f, R)
            /\ SumFunctionOnSet(f, T \ {y}) = f[c] + SumFunctionOnSet(f, R)
        BY <3>1, <4>1, <4>3
      <4>5. IsFiniteSet(R) /\ R \in SUBSET S
        BY <3>1, <4>3, FS_Subset
      <4>6. SumFunctionOnSet(f, R) \in Int /\ f[y] \in Int /\ f[c] \in Int
        BY <4>5, SumType
      <4> QED BY <3>2, <4>4, <4>6
    <3> QED BY <3>3, <3>4
  <2> QED BY <2>1
<1>3. N = Nat
  BY <1>1, <1>2, NatInd, Zenon
<1>4. Cardinality(S) \in Nat
  BY FS_CardinalityType
<1> QED BY <1>3, <1>4

\* A sum changes by what one of its terms changes.
LEMMA SumChange ==
    ASSUME NEW f, NEW h, NEW S, IsFiniteSet(S), NEW x \in S,
           \A y \in S : f[y] \in Int /\ h[y] \in Int, \A y \in S \ {x} : h[y] = f[y]
    PROVE  SumFunctionOnSet(h, S) = SumFunctionOnSet(f, S) + h[x] - f[x]
<1>1. IsFiniteSet(S \ {x})
  BY FS_Difference
<1>2. SumFunctionOnSet(f, S \ {x}) = SumFunctionOnSet(h, S \ {x})
  BY <1>1, SumSame
<1>3. SumFunctionOnSet(f, S \ {x}) \in Int
  BY <1>1, SumType
<1>4. /\ SumFunctionOnSet(f, S) = f[x] + SumFunctionOnSet(f, S \ {x})
      /\ SumFunctionOnSet(h, S) = h[x] + SumFunctionOnSet(h, S \ {x})
  BY SumTake
<1> QED BY <1>2, <1>3, <1>4

\* A term that changes by d changes the sum by d.
LEMMA SumShift ==
    ASSUME NEW S, IsFiniteSet(S), NEW x \in S, NEW d \in Int, NEW a, NEW b,
           \A y \in S : a[y] \in Int, \A y \in S : b[y] \in Int,
           \A y \in S : y # x => b[y] = a[y], b[x] = a[x] + d
    PROVE  /\ SumFunctionOnSet(b, S) = SumFunctionOnSet(a, S) + d
           /\ SumFunctionOnSet(a, S) \in Int /\ SumFunctionOnSet(b, S) \in Int
<1>1. SumFunctionOnSet(b, S) = SumFunctionOnSet(a, S) + b[x] - a[x]
  BY SumChange
<1>2. SumFunctionOnSet(a, S) \in Int /\ SumFunctionOnSet(b, S) \in Int
  BY SumType
<1> QED BY <1>1, <1>2

LEMMA SumZeros ==
    ASSUME NEW f, NEW S, IsFiniteSet(S), \A x \in S : f[x] = 0
    PROVE  SumFunctionOnSet(f, S) = 0
<1> DEFINE C == {T \in SUBSET S : SumFunctionOnSet(f, T) = 0}
<1>1. {} \in C
  BY SumEmpty
<1>2. ASSUME NEW T \in C, NEW x \in S \ T PROVE T \cup {x} \in C
  <2>1. IsFiniteSet(T \cup {x}) /\ x \in T \cup {x} /\ (T \cup {x}) \ {x} = T
    BY FS_Subset, FS_AddElement
  <2>2. \A y \in T \cup {x} : f[y] \in Int
    OBVIOUS
  <2>3. SumFunctionOnSet(f, T \cup {x}) = f[x] + SumFunctionOnSet(f, (T \cup {x}) \ {x})
    BY <2>1, <2>2, SumTake
  <2> QED BY <2>1, <2>3
<1>3. S \in C
  BY <1>1, <1>2, FiniteInd, Zenon
<1> QED BY <1>3

\* What is added to the members of A adds up.
LEMMA SumPlus ==
    ASSUME NEW f, NEW w, NEW h, NEW S, IsFiniteSet(S), NEW A \in SUBSET S,
           \A x \in S : f[x] \in Int, \A x \in A : w[x] \in Int,
           \A x \in S : h[x] = IF x \in A THEN f[x] + w[x] ELSE f[x]
    PROVE  SumFunctionOnSet(h, S) = SumFunctionOnSet(f, S) + SumFunctionOnSet(w, A)
<1> DEFINE C == {T \in SUBSET S : SumFunctionOnSet(h, T) = SumFunctionOnSet(f, T) + SumFunctionOnSet(w, T \cap A)}
<1>1. {} \in C
  <2>1. {} \cap A = {}
    OBVIOUS
  <2> QED BY <2>1, SumEmpty
<1>2. ASSUME NEW T \in C, NEW x \in S \ T PROVE T \cup {x} \in C
  <2>1. IsFiniteSet(T) /\ IsFiniteSet(T \cap A) /\ IsFiniteSet(T \cup {x})
    BY FS_Subset, FS_AddElement
  <2>2. PICK U : U = T \cup {x}
    OBVIOUS
  <2>3. x \in U /\ U \ {x} = T /\ U \in SUBSET S /\ IsFiniteSet(U)
    BY <2>1, <2>2
  <2>4. /\ \A y \in U : f[y] \in Int /\ h[y] \in Int
        /\ \A y \in U \cap A : w[y] \in Int
    BY <2>3
  <2>5. /\ SumFunctionOnSet(f, U) = f[x] + SumFunctionOnSet(f, T)
        /\ SumFunctionOnSet(h, U) = h[x] + SumFunctionOnSet(h, T)
    BY <2>3, <2>4, SumTake
  <2>6. SumFunctionOnSet(f, T) \in Int /\ SumFunctionOnSet(w, T \cap A) \in Int
    BY <2>1, <2>2, <2>4, SumType
  <2>7. SumFunctionOnSet(h, T) = SumFunctionOnSet(f, T) + SumFunctionOnSet(w, T \cap A)
    OBVIOUS
  <2>8. SumFunctionOnSet(w, U \cap A) =
          IF x \in A THEN w[x] + SumFunctionOnSet(w, T \cap A) ELSE SumFunctionOnSet(w, T \cap A)
    <3>1. CASE x \in A
      <4>1. PICK V : V = U \cap A
        OBVIOUS
      <4>2. x \in V /\ V \ {x} = T \cap A /\ IsFiniteSet(V) /\ \A y \in V : w[y] \in Int
        BY <2>2, <2>3, <2>4, <3>1, <4>1, FS_Subset
      <4>3. SumFunctionOnSet(w, V) = w[x] + SumFunctionOnSet(w, V \ {x})
        BY <4>2, SumTake
      <4> QED BY <3>1, <4>1, <4>2, <4>3
    <3>2. CASE x \notin A
      <4>1. U \cap A = T \cap A
        BY <2>2, <3>2
      <4> QED BY <3>2, <4>1
    <3> QED BY <3>1, <3>2
  <2>9. SumFunctionOnSet(h, U) = SumFunctionOnSet(f, U) + SumFunctionOnSet(w, U \cap A)
    <3>1. x \in A => w[x] \in Int
      OBVIOUS
    <3>2. h[x] = IF x \in A THEN f[x] + w[x] ELSE f[x]
      OBVIOUS
    <3>3. f[x] \in Int
      OBVIOUS
    <3> HIDE DEF C
    <3> QED BY <2>5, <2>6, <2>7, <2>8, <3>1, <3>2, <3>3
  <2> QED BY <2>2, <2>3, <2>9
<1>3. S \in C
  BY <1>1, <1>2, FiniteInd, Zenon
<1>4. S \cap A = A
  OBVIOUS
<1> QED BY <1>3, <1>4

\* A part and the rest.
LEMMA SumSplit ==
    ASSUME NEW f, NEW S, IsFiniteSet(S), NEW A \in SUBSET S, \A x \in S : f[x] \in Int
    PROVE  /\ SumFunctionOnSet(f, S) = SumFunctionOnSet(f, A) + SumFunctionOnSet(f, S \ A)
           /\ SumFunctionOnSet(f, A) \in Int /\ SumFunctionOnSet(f, S \ A) \in Int
<1>1. PICK z : z = [x \in S |-> 0]
  OBVIOUS
<1>2. PICK g : g = [x \in S |-> IF x \in A THEN 0 ELSE f[x]]
  OBVIOUS
<1>3. SumFunctionOnSet(z, S) = 0
  BY <1>1, SumZeros
<1>4. SumFunctionOnSet(f, A) \in Int /\ SumFunctionOnSet(f, S \ A) \in Int
  <2>1. /\ IsFiniteSet(A) /\ IsFiniteSet(S \ A)
        /\ \A x \in A : f[x] \in Int
        /\ \A x \in S \ A : f[x] \in Int
    BY FS_Subset, FS_Difference
  <2> QED BY <2>1, SumType
<1>5. SumFunctionOnSet(g, S) = SumFunctionOnSet(z, S) + SumFunctionOnSet(f, S \ A)
  <2>1. /\ S \ A \in SUBSET S
        /\ \A x \in S : z[x] \in Int
        /\ \A x \in S \ A : f[x] \in Int
        /\ \A x \in S : g[x] = IF x \in S \ A THEN z[x] + f[x] ELSE z[x]
    BY <1>1, <1>2
  <2> QED BY <2>1, SumPlus
<1>6. SumFunctionOnSet(f, S) = SumFunctionOnSet(g, S) + SumFunctionOnSet(f, A)
  <2>1. /\ \A x \in S : g[x] \in Int
        /\ \A x \in A : f[x] \in Int
        /\ \A x \in S : f[x] = IF x \in A THEN g[x] + f[x] ELSE g[x]
    BY <1>2
  <2> QED BY <2>1, SumPlus
<1> QED BY <1>3, <1>4, <1>5, <1>6

\* A sum of naturals is one, and is no less than any of its terms.
LEMMA SumBound ==
    ASSUME NEW f, NEW S, IsFiniteSet(S), \A x \in S : f[x] \in Nat
    PROVE  SumFunctionOnSet(f, S) \in Nat /\ \A x \in S : f[x] <= SumFunctionOnSet(f, S)
<1>1. ASSUME NEW T \in SUBSET S PROVE SumFunctionOnSet(f, T) \in Nat
  <2> DEFINE C == {R \in SUBSET T : SumFunctionOnSet(f, R) \in Nat}
  <2>1. {} \in C
    BY SumEmpty
  <2>2. ASSUME NEW R \in C, NEW x \in T \ R PROVE R \cup {x} \in C
    <3>1. PICK U : U = R \cup {x}
      OBVIOUS
    <3>2. IsFiniteSet(U) /\ x \in U /\ U \ {x} = R /\ U \in SUBSET T /\ \A y \in U : f[y] \in Int
      BY <3>1, FS_Subset
    <3>3. SumFunctionOnSet(f, U) = f[x] + SumFunctionOnSet(f, U \ {x})
      BY <3>2, SumTake
    <3>4. f[x] \in Nat /\ SumFunctionOnSet(f, R) \in Nat
      OBVIOUS
    <3> QED BY <3>1, <3>2, <3>3, <3>4
  <2>3. IsFiniteSet(T)
    BY FS_Subset
  <2>4. T \in C
    BY <2>1, <2>2, <2>3, FiniteInd, Zenon
  <2> QED BY <2>4
<1>2. ASSUME NEW x \in S PROVE f[x] <= SumFunctionOnSet(f, S)
  <2>1. SumFunctionOnSet(f, S) = f[x] + SumFunctionOnSet(f, S \ {x})
    BY SumTake
  <2>2. SumFunctionOnSet(f, S \ {x}) \in Nat /\ f[x] \in Nat
    BY <1>1
  <2> QED BY <2>1, <2>2
<1> QED BY <1>1, <1>2

\* What the members of A get, one of them pays.
Moved(f, S, w, A, b) ==
    [[x \in S |-> IF x \in A THEN f[x] + w[x] ELSE f[x]] EXCEPT ![b] = @ - SumFunctionOnSet(w, A)]

LEMMA SumMoved ==
    ASSUME NEW S, IsFiniteSet(S), NEW f \in [S -> Int], NEW A \in SUBSET S, NEW w,
           \A x \in A : w[x] \in Int, NEW b \in A
    PROVE  /\ Moved(f, S, w, A, b) \in [S -> Int]
           /\ SumFunctionOnSet(Moved(f, S, w, A, b), S) = SumFunctionOnSet(f, S)
<1> DEFINE g == [x \in S |-> IF x \in A THEN f[x] + w[x] ELSE f[x]]
           a == Moved(f, S, w, A, b)
<1>1. PICK t \in Int : t = SumFunctionOnSet(w, A)
  BY SumType, FS_Subset
<1>2. g \in [S -> Int] /\ \A x \in S : g[x] = IF x \in A THEN f[x] + w[x] ELSE f[x]
  OBVIOUS
<1>3. a = [g EXCEPT ![b] = @ - t]
  BY <1>1 DEF Moved
<1> HIDE DEF a, g
<1>4. /\ a \in [S -> Int] /\ a[b] = g[b] - t /\ b \in S
      /\ \A x \in S \ {b} : a[x] = g[x]
  BY <1>2, <1>3
<1>5. SumFunctionOnSet(g, S) = SumFunctionOnSet(f, S) + SumFunctionOnSet(w, A)
  <2>1. \A x \in S : f[x] \in Int
    OBVIOUS
  <2> QED BY <1>2, <2>1, SumPlus
<1>6. SumFunctionOnSet(a, S) = SumFunctionOnSet(g, S) + a[b] - g[b]
  <2>1. \A x \in S : g[x] \in Int /\ a[x] \in Int
    BY <1>2, <1>4
  <2>2. b \in S /\ \A x \in S \ {b} : a[x] = g[x]
    BY <1>4
  <2>3. IsFiniteSet(S)
    OBVIOUS
  <2> HIDE <1>1, <1>2, <1>3, <1>4
  <2> QED BY <2>1, <2>2, SumChange
<1>7. SumFunctionOnSet(f, S) \in Int /\ g[b] \in Int
  BY <1>2, <1>4, SumType
<1> QED BY <1>1, <1>4, <1>5, <1>6, <1>7 DEF a

-----------------------------------------------------------------------------
(* Bounds.                                                                    *)

LEMMA SumAdd ==
    ASSUME NEW f, NEW T, IsFiniteSet(T), NEW x, x \notin T, f[x] \in Int, \A y \in T : f[y] \in Int
    PROVE  /\ IsFiniteSet(T \cup {x}) /\ SumFunctionOnSet(f, T) \in Int
           /\ SumFunctionOnSet(f, T \cup {x}) = f[x] + SumFunctionOnSet(f, T)
<1>1. PICK U : U = T \cup {x}
  OBVIOUS
<1>2. IsFiniteSet(U) /\ x \in U /\ U \ {x} = T /\ \A y \in U : f[y] \in Int
  BY <1>1, FS_AddElement
<1>3. SumFunctionOnSet(f, U) = f[x] + SumFunctionOnSet(f, U \ {x})
  BY <1>2, SumTake
<1>4. SumFunctionOnSet(f, T) \in Int
  BY SumType
<1> QED BY <1>1, <1>2, <1>3, <1>4

\* More terms, a sum no smaller.
LEMMA SumWithin ==
    ASSUME NEW f, NEW S, IsFiniteSet(S), \A x \in S : f[x] \in Nat, NEW X \in SUBSET S
    PROVE  SumFunctionOnSet(f, X) <= SumFunctionOnSet(f, S)
<1> DEFINE C == {T \in SUBSET S : SumFunctionOnSet(f, T \cap X) <= SumFunctionOnSet(f, T)}
<1>1. {} \in C
  <2>1. {} \cap X = {}
    OBVIOUS
  <2> QED BY <2>1, SumEmpty
<1>2. ASSUME NEW T \in C, NEW x \in S \ T PROVE T \cup {x} \in C
  <2>1. /\ IsFiniteSet(T) /\ IsFiniteSet(T \cap X) /\ x \notin T /\ x \notin T \cap X
        /\ f[x] \in Nat /\ f[x] \in Int
        /\ \A y \in T : f[y] \in Int
        /\ \A y \in T \cap X : f[y] \in Int
        /\ SumFunctionOnSet(f, T \cap X) <= SumFunctionOnSet(f, T)
    BY FS_Subset
  <2>2. /\ SumFunctionOnSet(f, T) \in Int
        /\ SumFunctionOnSet(f, T \cup {x}) = f[x] + SumFunctionOnSet(f, T)
    BY <2>1, SumAdd
  <2>3. /\ SumFunctionOnSet(f, T \cap X) \in Int
        /\ SumFunctionOnSet(f, (T \cap X) \cup {x}) = f[x] + SumFunctionOnSet(f, T \cap X)
    BY <2>1, SumAdd
  <2>4. (T \cup {x}) \cap X = IF x \in X THEN (T \cap X) \cup {x} ELSE T \cap X
    OBVIOUS
  <2>5. SumFunctionOnSet(f, (T \cup {x}) \cap X) <= SumFunctionOnSet(f, T \cup {x})
    <3> HIDE DEF C
    <3>1. PICK a : a = SumFunctionOnSet(f, T)
      OBVIOUS
    <3>2. PICK b : b = SumFunctionOnSet(f, T \cap X)
      OBVIOUS
    <3>3. SumFunctionOnSet(f, (T \cup {x}) \cap X) = IF x \in X THEN f[x] + b ELSE b
      BY <2>3, <2>4, <3>2, Zenon
    <3>4. SumFunctionOnSet(f, T \cup {x}) = f[x] + a
      BY <2>2, <3>1
    <3>5. a \in Int /\ b \in Int /\ b <= a /\ f[x] \in Nat
      BY <2>1, <2>2, <2>3, <3>1, <3>2
    <3> QED BY <3>3, <3>4, <3>5
  <2> QED BY <2>5
<1>3. S \in C
  BY <1>1, <1>2, FiniteInd, Zenon
<1>4. S \cap X = X
  OBVIOUS
<1> QED BY <1>3, <1>4

\* Members of A gain their weight, and one of them, b, pays for all: what that
\* does to the sum over any set S.
Picked(S, A, b, f, w, g, h) ==
    /\ IsFiniteSet(S) /\ IsFiniteSet(A) /\ b \in A
    /\ \A x \in S : f[x] \in Int
    /\ \A x \in A : w[x] \in Nat
    /\ \A x \in S : g[x] = IF x \in A THEN f[x] + w[x] ELSE f[x]
    /\ \A x \in S : h[x] = IF x = b THEN g[x] - SumFunctionOnSet(w, A) ELSE g[x]

LEMMA SumPicked ==
    ASSUME NEW S, NEW A, NEW b, NEW f, NEW w, NEW g, NEW h, Picked(S, A, b, f, w, g, h),
           NEW U, U = S \cap A
    PROVE  /\ SumFunctionOnSet(f, S) \in Int /\ SumFunctionOnSet(g, S) \in Int
           /\ SumFunctionOnSet(w, U) \in 0..SumFunctionOnSet(w, A)
           /\ SumFunctionOnSet(g, S) = SumFunctionOnSet(f, S) + SumFunctionOnSet(w, U)
           /\ SumFunctionOnSet(h, S) = IF b \in S THEN SumFunctionOnSet(g, S) - SumFunctionOnSet(w, A)
                                      ELSE SumFunctionOnSet(g, S)
<1>0. /\ IsFiniteSet(S) /\ IsFiniteSet(A) /\ b \in A
      /\ \A x \in S : f[x] \in Int
      /\ \A x \in A : w[x] \in Nat
      /\ \A x \in S : g[x] = IF x \in A THEN f[x] + w[x] ELSE f[x]
      /\ \A x \in S : h[x] = IF x = b THEN g[x] - SumFunctionOnSet(w, A) ELSE g[x]
  BY DEF Picked
<1> USE <1>0
<1>1. PICK t \in Nat : t = SumFunctionOnSet(w, A)
  BY SumBound
<1>2. U \in SUBSET S /\ U \in SUBSET A /\ IsFiniteSet(U)
  BY FS_Subset
<1>3. (\A x \in U : w[x] \in Int) /\ (\A x \in U : w[x] \in Nat)
  BY <1>2
<1>4. \A x \in S : g[x] = IF x \in U THEN f[x] + w[x] ELSE f[x]
  BY <1>2
<1>5. \A x \in S : g[x] \in Int
  BY <1>3, <1>4
<1>6. SumFunctionOnSet(f, S) \in Int /\ SumFunctionOnSet(g, S) \in Int
  BY <1>5, SumType
<1>7. SumFunctionOnSet(w, U) \in 0..SumFunctionOnSet(w, A)
  <2>1. SumFunctionOnSet(w, U) \in Nat
    BY <1>2, <1>3, SumBound
  <2>2. SumFunctionOnSet(w, U) <= SumFunctionOnSet(w, A)
    BY <1>2, SumWithin
  <2> QED BY <1>1, <2>1, <2>2
<1>8. SumFunctionOnSet(g, S) = SumFunctionOnSet(f, S) + SumFunctionOnSet(w, U)
  BY <1>2, <1>3, <1>4, SumPlus
<1>9. CASE b \in S
  <2>1. /\ \A x \in S : g[x] \in Int /\ h[x] \in Int
        /\ \A x \in S \ {b} : h[x] = g[x]
    BY <1>1, <1>5
  <2>2. SumFunctionOnSet(h, S) = SumFunctionOnSet(g, S) + h[b] - g[b]
    BY <1>9, <2>1, SumChange
  <2>3. h[b] = g[b] - t /\ g[b] \in Int
    BY <1>1, <1>5, <1>9
  <2>4. SumFunctionOnSet(h, S) = SumFunctionOnSet(g, S) - t
    BY <1>6, <2>2, <2>3
  <2> QED BY <1>1, <1>6, <1>7, <1>8, <1>9, <2>4
<1>10. CASE b \notin S
  <2>1. \A x \in S : h[x] = g[x]
    BY <1>10
  <2>2. SumFunctionOnSet(h, S) = SumFunctionOnSet(g, S)
    BY <2>1, SumSame
  <2> QED BY <1>6, <1>7, <1>8, <1>10, <2>2
<1> QED BY <1>9, <1>10

LEMMA SumBoth ==
    ASSUME NEW S, IsFiniteSet(S), NEW f, \A x \in S : f[x] \in Int, NEW d, \A x \in S : d[x] \in Int,
           NEW h, \A x \in S : h[x] = f[x] + d[x]
    PROVE  SumFunctionOnSet(h, S) = SumFunctionOnSet(f, S) + SumFunctionOnSet(d, S)
<1>1. S \in SUBSET S
  OBVIOUS
<1>2. \A x \in S : h[x] = IF x \in S THEN f[x] + d[x] ELSE f[x]
  OBVIOUS
<1> QED BY <1>1, <1>2, SumPlus

\* One more for x.
Counted(f, h, S, x) ==
    /\ IsFiniteSet(S) /\ x \in S
    /\ \A y \in S : f[y] \in Int /\ h[y] = IF y = x THEN f[y] + 1 ELSE f[y]

LEMMA SumCounted ==
    ASSUME NEW f, NEW h, NEW S, NEW x, Counted(f, h, S, x)
    PROVE  SumFunctionOnSet(f, S) \in Int /\ SumFunctionOnSet(h, S) = SumFunctionOnSet(f, S) + 1
<1>1. /\ IsFiniteSet(S) /\ x \in S
      /\ \A y \in S : f[y] \in Int
      /\ \A y \in S : h[y] \in Int
      /\ \A y \in S : y # x => h[y] = f[y]
      /\ h[x] = f[x] + 1
  BY DEF Counted
<1> QED BY <1>1, SumShift

\* Terms that are nowhere larger, with the same sum, are the same.
NoLarger(f, h, S) ==
    IsFiniteSet(S) /\ \A x \in S : f[x] \in Int /\ h[x] \in Int /\ f[x] <= h[x]

LEMMA SumEqual ==
    ASSUME NEW S, NEW f, NEW h, NoLarger(f, h, S), SumFunctionOnSet(f, S) = SumFunctionOnSet(h, S)
    PROVE  \A x \in S : f[x] = h[x]
<1>0. IsFiniteSet(S) /\ \A x \in S : f[x] \in Int /\ h[x] \in Int /\ f[x] <= h[x]
  BY DEF NoLarger
<1>1. PICK d : d = [x \in S |-> h[x] - f[x]]
  OBVIOUS
<1>2. \A x \in S : f[x] \in Int /\ h[x] \in Int /\ d[x] \in Nat /\ h[x] = f[x] + d[x]
  BY <1>0, <1>1
<1>3. SumFunctionOnSet(h, S) = SumFunctionOnSet(f, S) + SumFunctionOnSet(d, S)
  BY <1>0, <1>2, SumBoth
<1>4. SumFunctionOnSet(f, S) \in Int /\ SumFunctionOnSet(d, S) \in Nat /\ \A x \in S : d[x] <= SumFunctionOnSet(d, S)
  <2>1. (\A x \in S : f[x] \in Int) /\ (\A x \in S : d[x] \in Nat)
    BY <1>2
  <2> QED BY <1>0, <2>1, SumType, SumBound
<1>5. SumFunctionOnSet(d, S) = 0
  BY <1>3, <1>4
<1> QED BY <1>2, <1>4, <1>5

LEMMA SumCover ==
    ASSUME NEW f, NEW S, IsFiniteSet(S), \A x \in S : f[x] \in Nat,
           NEW X \in SUBSET S, NEW Y \in SUBSET S, NEW Z \in SUBSET S, X \subseteq Y \cup Z
    PROVE  SumFunctionOnSet(f, X) <= SumFunctionOnSet(f, Y) + SumFunctionOnSet(f, Z)
<1> DEFINE C == {T \in SUBSET X : SumFunctionOnSet(f, T)
                                     <= SumFunctionOnSet(f, T \cap Y) + SumFunctionOnSet(f, T \cap Z)}
<1>0. IsFiniteSet(X) /\ IsFiniteSet(Y) /\ IsFiniteSet(Z)
  BY FS_Subset
<1>1. {} \in C
  <2>1. {} \cap Y = {} /\ {} \cap Z = {}
    OBVIOUS
  <2> QED BY <2>1, SumEmpty
<1>2. ASSUME NEW T \in C, NEW x \in X \ T PROVE T \cup {x} \in C
  <2>1. /\ IsFiniteSet(T) /\ f[x] \in Nat /\ f[x] \in Int /\ x \notin T
        /\ \A y \in T : f[y] \in Int
        /\ SumFunctionOnSet(f, T) <= SumFunctionOnSet(f, T \cap Y) + SumFunctionOnSet(f, T \cap Z)
        /\ x \in Y \/ x \in Z
    BY <1>0, FS_Subset
  <2>2. ASSUME NEW W
        PROVE  /\ SumFunctionOnSet(f, T \cap W) \in Int
               /\ SumFunctionOnSet(f, (T \cup {x}) \cap W) =
                     IF x \in W THEN f[x] + SumFunctionOnSet(f, T \cap W) ELSE SumFunctionOnSet(f, T \cap W)
    <3>1. IsFiniteSet(T \cap W) /\ x \notin T \cap W /\ \A y \in T \cap W : f[y] \in Int
      BY <2>1, FS_Subset
    <3>2. /\ SumFunctionOnSet(f, T \cap W) \in Int
          /\ SumFunctionOnSet(f, (T \cap W) \cup {x}) = f[x] + SumFunctionOnSet(f, T \cap W)
      BY <2>1, <3>1, SumAdd
    <3>3. (T \cup {x}) \cap W = IF x \in W THEN (T \cap W) \cup {x} ELSE T \cap W
      OBVIOUS
    <3> HIDE DEF C
    <3>4. CASE x \in W
      BY <3>2, <3>3, <3>4
    <3>5. CASE x \notin W
      BY <3>2, <3>3, <3>5
    <3> QED BY <3>4, <3>5
  <2>3. /\ SumFunctionOnSet(f, T) \in Int
        /\ SumFunctionOnSet(f, T \cup {x}) = f[x] + SumFunctionOnSet(f, T)
    BY <2>1, SumAdd
  <2>4. SumFunctionOnSet(f, T \cup {x})
          <= SumFunctionOnSet(f, (T \cup {x}) \cap Y) + SumFunctionOnSet(f, (T \cup {x}) \cap Z)
    <3> HIDE DEF C
    <3>1. /\ SumFunctionOnSet(f, T \cap Y) \in Int
          /\ SumFunctionOnSet(f, (T \cup {x}) \cap Y) =
               IF x \in Y THEN f[x] + SumFunctionOnSet(f, T \cap Y) ELSE SumFunctionOnSet(f, T \cap Y)
      BY <2>2
    <3>2. /\ SumFunctionOnSet(f, T \cap Z) \in Int
          /\ SumFunctionOnSet(f, (T \cup {x}) \cap Z) =
               IF x \in Z THEN f[x] + SumFunctionOnSet(f, T \cap Z) ELSE SumFunctionOnSet(f, T \cap Z)
      BY <2>2
    <3> QED BY <2>1, <2>3, <3>1, <3>2
  <2> QED BY <2>4
<1>3. X \in C
  BY <1>0, <1>1, <1>2, FiniteInd, Zenon
<1>4. SumFunctionOnSet(f, X) <= SumFunctionOnSet(f, X \cap Y) + SumFunctionOnSet(f, X \cap Z)
  BY <1>3
<1>5. /\ SumFunctionOnSet(f, X \cap Y) <= SumFunctionOnSet(f, Y)
      /\ SumFunctionOnSet(f, X \cap Z) <= SumFunctionOnSet(f, Z)
  <2>1. (\A y \in Y : f[y] \in Nat) /\ (\A z \in Z : f[z] \in Nat)
    OBVIOUS
  <2> QED BY <1>0, <2>1, SumWithin
<1>6. /\ SumFunctionOnSet(f, X) \in Int /\ SumFunctionOnSet(f, Y) \in Int /\ SumFunctionOnSet(f, Z) \in Int
      /\ SumFunctionOnSet(f, X \cap Y) \in Int /\ SumFunctionOnSet(f, X \cap Z) \in Int
  <2>1. \A W \in SUBSET S : IsFiniteSet(W) /\ \A w \in W : f[w] \in Int
    BY FS_Subset
  <2>2. \A W \in SUBSET S : SumFunctionOnSet(f, W) \in Int
    BY <2>1, SumType
  <2> QED BY <2>2
<1> QED BY <1>4, <1>5, <1>6

\* Terms of at most k.
LEMMA SumCap ==
    ASSUME NEW f, NEW S, IsFiniteSet(S), NEW k \in Int, \A x \in S : f[x] \in Int /\ f[x] <= k
    PROVE  SumFunctionOnSet(f, S) <= k * Cardinality(S)
<1> DEFINE C == {T \in SUBSET S : SumFunctionOnSet(f, T) <= k * Cardinality(T)}
<1>1. {} \in C
  <2>1. Cardinality({}) = 0 /\ SumFunctionOnSet(f, {}) = 0
    BY SumEmpty, FS_EmptySet
  <2> QED BY <2>1
<1>2. ASSUME NEW T \in C, NEW x \in S \ T PROVE T \cup {x} \in C
  <2>1. /\ IsFiniteSet(T) /\ x \notin T /\ f[x] \in Int /\ f[x] <= k
        /\ \A y \in T : f[y] \in Int
        /\ SumFunctionOnSet(f, T) <= k * Cardinality(T)
    BY FS_Subset
  <2>2. /\ SumFunctionOnSet(f, T) \in Int
        /\ SumFunctionOnSet(f, T \cup {x}) = f[x] + SumFunctionOnSet(f, T)
    BY <2>1, SumAdd
  <2>3. Cardinality(T) \in Nat /\ Cardinality(T \cup {x}) = Cardinality(T) + 1
    BY <2>1, FS_CardinalityType, FS_AddElement
  <2>4. k * (Cardinality(T) + 1) = k * Cardinality(T) + k
    BY <2>3
  <2>5. k * Cardinality(T) \in Int
    BY <2>3
  <2>6. SumFunctionOnSet(f, T \cup {x}) <= k * Cardinality(T \cup {x})
    <3> HIDE DEF C
    <3> QED BY <2>1, <2>2, <2>3, <2>4, <2>5
  <2> QED BY <2>6
<1>3. S \in C
  BY <1>1, <1>2, FiniteInd, Zenon
<1> QED BY <1>3

\* A table adds up to the same by its rows and by its columns.
Column(h, S, y) == [x \in S |-> h[x][y]]
RowSums(h, S, T) == [x \in S |-> SumFunctionOnSet(h[x], T)]

LEMMA SumSwap ==
    ASSUME NEW h, NEW S, NEW T, IsFiniteSet(S), IsFiniteSet(T), \A x \in S, y \in T : h[x][y] \in Int,
           NEW f, \A y \in T : f[y] = SumFunctionOnSet(Column(h, S, y), S)
    PROVE  SumFunctionOnSet(f, T) = SumFunctionOnSet(RowSums(h, S, T), S)
<1> USE DEF Column, RowSums
<1> DEFINE g(U) == [x \in S |-> SumFunctionOnSet(h[x], U)]
           C == {U \in SUBSET T : SumFunctionOnSet(f, U) = SumFunctionOnSet(g(U), S)}
<1>1. {} \in C
  <2>1. \A x \in S : g({})[x] = 0
    BY SumEmpty
  <2> HIDE DEF g
  <2>2. SumFunctionOnSet(g({}), S) = 0
    BY <2>1, SumZeros
  <2> QED BY <2>2, SumEmpty
<1>2. ASSUME NEW U \in C, NEW y \in T \ U PROVE U \cup {y} \in C
  <2>1. IsFiniteSet(U) /\ y \notin U /\ y \in T /\ U \in SUBSET T
    BY FS_Subset
  <2>2. SumFunctionOnSet(f, U) = SumFunctionOnSet(g(U), S)
    OBVIOUS
  <2> DEFINE w == [x \in S |-> h[x][y]]
             a == g(U)
             b == g(U \cup {y})
  <2>3. \A x \in S : /\ h[x][y] \in Int
                     /\ \A z \in U : h[x][z] \in Int
    BY <2>1
  <2>4. ASSUME NEW x \in S
        PROVE  /\ SumFunctionOnSet(h[x], U) \in Int
               /\ SumFunctionOnSet(h[x], U \cup {y}) = h[x][y] + SumFunctionOnSet(h[x], U)
    BY <2>1, <2>3, SumAdd
  <2>5. \A x \in S : a[x] \in Int /\ w[x] \in Int /\ b[x] = a[x] + w[x]
    <3>1. ASSUME NEW x \in S PROVE a[x] \in Int /\ w[x] \in Int /\ b[x] = a[x] + w[x]
      <4>1. /\ a[x] = SumFunctionOnSet(h[x], U) /\ w[x] = h[x][y]
            /\ b[x] = SumFunctionOnSet(h[x], U \cup {y})
        OBVIOUS
      <4> HIDE DEF a, b, w
      <4>2. PICK n : n = SumFunctionOnSet(h[x], U)
        OBVIOUS
      <4>3. n \in Int /\ SumFunctionOnSet(h[x], U \cup {y}) = h[x][y] + n
        BY <2>4, <4>2
      <4>4. h[x][y] \in Int
        BY <2>3
      <4>5. a[x] = n /\ w[x] \in Int /\ b[x] = w[x] + n
        BY <4>1, <4>2, <4>3, <4>4
      <4> QED BY <4>3, <4>5
    <3> QED BY <3>1
  <2>6. f[y] = SumFunctionOnSet(w, S)
    BY <2>1
  <2>7. \A z \in T : f[z] \in Int
    <3>1. ASSUME NEW z \in T PROVE f[z] \in Int
      <4> DEFINE v == [x \in S |-> h[x][z]]
      <4>1. \A x \in S : v[x] \in Int
        OBVIOUS
      <4>2. f[z] = SumFunctionOnSet(v, S)
        OBVIOUS
      <4> HIDE DEF v
      <4> QED BY <4>1, <4>2, SumType
    <3> QED BY <3>1
  <2>8. SumFunctionOnSet(f, U \cup {y}) = f[y] + SumFunctionOnSet(f, U)
    <3>1. f[y] \in Int /\ \A z \in U : f[z] \in Int
      BY <2>1, <2>7
    <3> QED BY <2>1, <3>1, SumAdd
  <2> HIDE DEF a, b, w
  <2>9. SumFunctionOnSet(b, S) = SumFunctionOnSet(a, S) + SumFunctionOnSet(w, S)
    <3>1. /\ \A x \in S : a[x] \in Int
          /\ \A x \in S : w[x] \in Int
          /\ \A x \in S : b[x] = IF x \in S THEN a[x] + w[x] ELSE a[x]
      BY <2>5
    <3>2. S \in SUBSET S
      OBVIOUS
    <3> QED BY <3>1, <3>2, SumPlus
  <2>10. SumFunctionOnSet(a, S) \in Int /\ SumFunctionOnSet(w, S) \in Int
    <3>1. (\A x \in S : a[x] \in Int) /\ (\A x \in S : w[x] \in Int)
      BY <2>5
    <3> QED BY <3>1, SumType
  <2>11. SumFunctionOnSet(f, U) = SumFunctionOnSet(a, S)
    BY <2>2 DEF a
  <2>12. SumFunctionOnSet(f, U \cup {y}) = SumFunctionOnSet(b, S)
    <3> HIDE DEF C
    <3> QED BY <2>6, <2>8, <2>9, <2>10, <2>11
  <2> QED BY <2>1, <2>12 DEF b
<1>3. T \in C
  BY <1>1, <1>2, FiniteInd, Zenon
<1> QED BY <1>3

=============================================================================
