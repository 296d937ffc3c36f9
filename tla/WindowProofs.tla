---------------------------- MODULE WindowProofs ----------------------------
(***************************************************************************)
(* What windows and quantiles do, for windows of any finite size: the      *)
(* lemmas that the theorems about Evidence, Selection and Persistence rest *)
(* on.                                                                     *)
(***************************************************************************)
EXTENDS Window, FiniteSetTheorems, WellFoundedInduction, TLAPS

-----------------------------------------------------------------------------
(* Extremes of sets of numbers.  Everything rests on the least element of  *)
(* a set of naturals, which the library gives in terms of relations.       *)
Less == {p \in Nat \X Nat : p[1] < p[2]}

LEMMA LessIsWellFounded == IsWellFoundedOn(Less, Nat)
<1>1. Less \cap (Nat \X Nat) \subseteq OpToRel(<, Nat)
  BY DEF Less, OpToRel
<1> QED
  BY <1>1, NatLessThanWellFounded, IsWellFoundedOnSubrelation

LEMMA LeastNumber ==
  ASSUME NEW S, S \subseteq Nat, S # {}
  PROVE  \E n \in S : \A m \in S : n <= m
<1>1. PICK n \in S : \A m \in S : <<m, n>> \notin Less
  BY LessIsWellFounded, WFMin
<1>2. ASSUME NEW m \in S PROVE n <= m
  <2>1. m \in Nat /\ n \in Nat
    OBVIOUS
  <2>2. ~ (m < n)
    BY <1>1, <2>1 DEF Less
  <2> QED
    BY <2>1, <2>2
<1> QED
  BY <1>2

(* A non-empty finite set has an element with the greatest value of f: a   *)
(* smallest counterexample would lose one by losing any of its elements.   *)
Topped(T, f) == \E x \in T : \A y \in T : f[y] <= f[x]

LEMMA FiniteSetHasTop ==
  ASSUME NEW S, IsFiniteSet(S), S # {}, NEW f \in [S -> Nat]
  PROVE  Topped(S, f)
<1> DEFINE Sizes == {n \in Nat : \E T \in SUBSET S :
                       T # {} /\ Cardinality(T) = n /\ ~Topped(T, f)}
<1>1. SUFFICES ASSUME Sizes # {} PROVE FALSE
  BY FS_CardinalityType
<1>2. PICK n \in Sizes : \A m \in Sizes : n <= m
  <2>1. Sizes \subseteq Nat
    OBVIOUS
  <2> QED
    BY <1>1, <2>1, LeastNumber
<1>3. PICK T \in SUBSET S : T # {} /\ Cardinality(T) = n /\ ~Topped(T, f)
  BY <1>2
<1>4. PICK x \in T : TRUE
  BY <1>3
<1> DEFINE U == T \ {x}
<1>5. /\ IsFiniteSet(T)
      /\ IsFiniteSet(U)
      /\ Cardinality(U) = n - 1
  BY <1>3, <1>4, FS_Subset, FS_RemoveElement
<1>6. Cardinality(U) \in Nat
  BY <1>5, FS_CardinalityType
<1>7. Topped(U, f)
  <2>1. CASE U = {}
    <3>1. T = {x}
      BY <2>1, <1>4
    <3>2. f[x] \in Nat
      BY <1>4
    <3> QED
      BY <1>3, <3>1, <3>2 DEF Topped
  <2>2. CASE U # {}
    <3>1. Cardinality(U) \notin Sizes
      BY <1>2, <1>5, <1>6
    <3> QED
      BY <2>2, <3>1, <1>6
  <2> QED
    BY <2>1, <2>2
<1>8. PICK u \in U : \A y \in U : f[y] <= f[u]
  BY <1>7 DEF Topped
<1>9. f[u] \in Nat /\ f[x] \in Nat
  BY <1>4
<1>10. CASE f[x] <= f[u]
  <2>1. \A y \in T : f[y] <= f[u]
    BY <1>8, <1>10
  <2> QED
    BY <1>3, <2>1 DEF Topped
<1>11. CASE f[u] < f[x]
  <2>1. ASSUME NEW y \in T PROVE f[y] <= f[x]
    <3>1. f[y] \in Nat
      OBVIOUS
    <3>2. CASE y = x
      BY <1>9, <3>2
    <3>3. CASE y # x
      BY <1>8, <1>9, <1>11, <3>1, <3>3
    <3> QED
      BY <3>2, <3>3
  <2> QED
    BY <1>3, <1>4, <2>1 DEF Topped
<1> QED
  BY <1>9, <1>10, <1>11

LEMMA MinIsLeast ==
  ASSUME NEW S, S \subseteq Nat, S # {}
  PROVE  Min(S) \in S /\ \A y \in S : Min(S) <= y
BY LeastNumber DEF Min

-----------------------------------------------------------------------------
(* Windows.  Pruning and evicting only drop samples, inserting adds one.   *)
LEMMA KeepLastDrops ==
  ASSUME NEW w, NEW n
  PROVE  KeepLast(w, n) \subseteq w
BY DEF KeepLast

LEMMA PruneDrops ==
  ASSUME NEW cfg \in WindowConfig, NEW w, NEW now
  PROVE  Prune(cfg, w, now) \subseteq w
BY DEF Prune, KeepLast, NotBefore, WindowConfig, Modes

LEMMA InsertAdds ==
  ASSUME NEW cfg, NEW w, NEW s
  PROVE  Insert(cfg, w, s) \subseteq w \cup {s}
BY DEF Insert, KeepLast

(* The latest time in a window is the time of one of its samples. *)
LEMMA LatestIsCaptured ==
  ASSUME NEW w, IsFiniteSet(w), w # {}, \A s \in w : s.captured \in Nat
  PROVE  \E s \in w : s.captured = LatestCaptured(w)
<1> DEFINE f == [s \in w |-> s.captured]
           T == {s.captured : s \in w}
<1>1. PICK x \in w : \A y \in w : f[y] <= f[x]
  <2>1. f \in [w -> Nat]
    OBVIOUS
  <2>2. Topped(w, f)
    BY <2>1, FiniteSetHasTop
  <2> QED
    BY <2>2 DEF Topped
<1>2. x.captured \in T /\ \A t \in T : x.captured >= t
  BY <1>1
<1>3. Max(T) \in T
  BY <1>2 DEF Max
<1> QED
  BY <1>3 DEF LatestCaptured

-----------------------------------------------------------------------------
(* The exact quantile.  A rank is a place in the sorted window. *)
Permilles == 1..1000

LEMMA RankInRange ==
  ASSUME NEW permille \in Permilles, NEW n \in Nat \ {0}
  PROVE  Rank(permille, n) \in 1..n
<1> DEFINE q == (permille * n + 999) \div 1000
           r == q + IF RoundsUp(permille, n) THEN 1 ELSE 0
<1>1. permille * n + 999 \in Nat
  BY DEF Permilles
<1>2. q \in Nat
  BY <1>1
<1>3. r \in Nat
  BY <1>2
<1>4. Rank(permille, n) = IF r < 1 THEN 1 ELSE IF r > n THEN n ELSE r
  BY DEF Rank
<1> HIDE DEF r
<1> QED
  BY <1>3, <1>4

(* The samples that are not slower than v. *)
UpTo(w, v) == {u \in w : u.latency <= v}

(* What exact_quantile returns is the latency of a sample; at least rank   *)
(* samples are not slower, and so at most the others are.                  *)
LEMMA QuantileIsSample ==
  ASSUME NEW w, IsFiniteSet(w), w # {}, \A s \in w : s.latency \in Nat,
         NEW permille \in Permilles
  PROVE  /\ \E s \in w : s.latency = Quantile(w, permille)
         /\ Quantile(w, permille) \in Nat
         /\ Cardinality(UpTo(w, Quantile(w, permille)))
              >= Rank(permille, Cardinality(w))
         /\ Cardinality({s \in w : s.latency > Quantile(w, permille)})
              <= Cardinality(w) - Rank(permille, Cardinality(w))
<1> DEFINE n == Cardinality(w)
           rank == Rank(permille, n)
           q == Quantile(w, permille)
           T == {t \in w : Cardinality(UpTo(w, t.latency)) >= rank}
           f == [s \in w |-> s.latency]
<1>1. n \in Nat \ {0}
  BY FS_CardinalityType, FS_EmptySet
<1>2. rank \in 1..n
  BY <1>1, RankInRange
<1>3. T # {}
  <2>1. f \in [w -> Nat]
    OBVIOUS
  <2>2. Topped(w, f)
    BY <2>1, FiniteSetHasTop
  <2>3. PICK x \in w : \A y \in w : y.latency <= x.latency
    BY <2>2 DEF Topped
  <2>4. UpTo(w, x.latency) = w
    BY <2>3 DEF UpTo
  <2>5. x \in T
    BY <1>1, <1>2, <2>4
  <2> QED
    BY <2>5
<1>4. q = Min({s.latency : s \in T})
  BY DEF Quantile, UpTo
<1>5. q \in {s.latency : s \in T}
  <2>1. {s.latency : s \in T} \subseteq Nat /\ {s.latency : s \in T} # {}
    BY <1>3
  <2> QED
    BY <1>4, <2>1, MinIsLeast
<1>6. PICK t \in w : /\ t.latency = q
                     /\ Cardinality(UpTo(w, t.latency)) >= rank
  BY <1>5
<1>7. Cardinality({s \in w : s.latency > q}) = n - Cardinality(UpTo(w, q))
  <2>1. q \in Nat
    BY <1>6
  <2>2. {s \in w : s.latency > q} = w \ UpTo(w, q)
    BY <2>1 DEF UpTo
  <2>3. w \cap UpTo(w, q) = UpTo(w, q)
    BY DEF UpTo
  <2> HIDE DEF q
  <2> QED
    BY <2>2, <2>3, FS_Difference
<1>8. Cardinality(UpTo(w, q)) \in Nat
  <2>1. UpTo(w, q) \in SUBSET w
    BY DEF UpTo
  <2> HIDE DEF q
  <2> QED
    BY <2>1, FS_Subset, FS_CardinalityType
<1> QED
  BY <1>1, <1>2, <1>6, <1>7, <1>8

-----------------------------------------------------------------------------
(* The ranks of the percentiles that the governor asks for, where doubles  *)
(* are never more than one rank above the nearest one.                     *)
Percentiles == {500, 950, 990, 999}

LEMMA RankIs ==
  ASSUME NEW p \in Percentiles, NEW n \in Nat \ {0}
  PROVE  \E q \in 1..n :
           /\ 1000 * q >= p * n /\ 1000 * (q - 1) < p * n
           /\ \/ Rank(p, n) = q
              \/ p = 999 /\ Rank(p, n) = IF q + 1 > n THEN n ELSE q + 1
<1> DEFINE q == (p * n + 999) \div 1000
<1>1. p \in 1..999 /\ p \in Nat
  BY DEF Percentiles
<1>2. /\ q \in Nat
      /\ 1000 * q <= p * n + 999
      /\ p * n + 999 < 1000 * q + 1000
  BY <1>1, p * n + 999 \in Nat
<1>3. p * n \in Nat /\ 1 <= p * n /\ p * n <= 999 * n
  BY DEF Percentiles
<1>4. Rank(p, n) = LET r == q + IF RoundsUp(p, n) THEN 1 ELSE 0
                   IN IF r < 1 THEN 1 ELSE IF r > n THEN n ELSE r
  BY DEF Rank
<1>5. RoundsUp(p, n) => p = 999
  BY DEF RoundsUp
<1> HIDE DEF q
<1>6. q \in 1..n /\ 1000 * q >= p * n /\ 1000 * (q - 1) < p * n
  BY <1>2, <1>3
<1>7. CASE RoundsUp(p, n)
  BY <1>4, <1>5, <1>6, <1>7
<1>8. CASE ~RoundsUp(p, n)
  BY <1>4, <1>6, <1>8
<1> QED
  BY <1>7, <1>8

(* A rank is at least the nearest one and at most one above it. *)
LEMMA RankIsNear ==
  ASSUME NEW p \in Percentiles, NEW n \in Nat \ {0}
  PROVE  /\ Rank(p, n) \in 1..n
         /\ 1000 * Rank(p, n) >= p * n
         /\ 1000 * (Rank(p, n) - 2) < p * n
<1>1. p * n \in Nat /\ p * n <= 1000 * n
  BY DEF Percentiles
<1>2. PICK q \in 1..n :
        /\ 1000 * q >= p * n /\ 1000 * (q - 1) < p * n
        /\ \/ Rank(p, n) = q
           \/ p = 999 /\ Rank(p, n) = IF q + 1 > n THEN n ELSE q + 1
  BY RankIs
<1> QED
  BY <1>1, <1>2

(* A higher percentile has no lower rank. *)
LEMMA RanksAscend ==
  ASSUME NEW p \in Percentiles, NEW r \in Percentiles, p <= r,
         NEW n \in Nat \ {0}
  PROVE  Rank(p, n) <= Rank(r, n)
<1>1. CASE p = r
  BY <1>1, RankIsNear
<1>2. CASE p < r
  <2>1. p # 999 /\ p * n \in Nat /\ r * n \in Nat /\ p * n <= r * n
    BY <1>2 DEF Percentiles
  <2>2. PICK a \in 1..n : 1000 * (a - 1) < p * n /\ Rank(p, n) = a
    BY <2>1, RankIs
  <2>3. 1000 * Rank(r, n) >= r * n /\ Rank(r, n) \in 1..n
    BY RankIsNear
  <2> HIDE DEF Percentiles
  <2> QED
    BY <2>1, <2>2, <2>3
<1> QED
  BY <1>1, <1>2 DEF Percentiles
=============================================================================
