-------------------------------- MODULE Lists --------------------------------
(***************************************************************************)
(* What the proofs need to know of lists that are built, searched and      *)
(* sorted place by place: induction over the places, the first and the     *)
(* last place of a set, and the place of a member in an order.             *)
(***************************************************************************)
EXTENDS Integers, FiniteSetsExt, FiniteSetTheorems, NaturalsInduction, WellFoundedInduction, TLAPS

------------------------------------------------------------------------------
(* Induction over the natural numbers, said of a set *)
LEMMA Induction ==
  ASSUME NEW P \in SUBSET Nat, 0 \in P, \A n \in P : n + 1 \in P
  PROVE  P = Nat
<1>1. SUFFICES ASSUME Nat \ P # {} PROVE FALSE
  OBVIOUS
<1>2. PICK x \in Nat \ P : \A y \in Nat \ P : ~(<<y, x>> \in OpToRel(<, Nat))
  BY <1>1, NatLessThanWellFounded, WFMin, Zenon
<1>3. x - 1 \in Nat /\ x - 1 < x /\ (x - 1) + 1 = x
  <2>1. x \in Nat /\ x # 0
    OBVIOUS
  <2> QED BY <2>1
<1>4. <<x - 1, x>> \in OpToRel(<, Nat)
  BY <1>3 DEF OpToRel
<1> QED BY <1>2, <1>3, <1>4

(* What the first place has, and every place hands on to the next *)
LEMMA PlaceInduction ==
  ASSUME NEW n \in Nat, NEW P \in SUBSET (0..n), 0 \in P,
         \A k \in 1..n : k - 1 \in P => k \in P
  PROVE  P = 0..n
<1> DEFINE Q == {k \in Nat : k <= n => k \in P}
<1>1. 0 \in Q
  OBVIOUS
<1>2. \A k \in Q : k + 1 \in Q
  <2> SUFFICES ASSUME NEW k \in Nat, k \in Q, k + 1 <= n PROVE k + 1 \in P
    OBVIOUS
  <2>1. k + 1 \in 1..n /\ (k + 1) - 1 = k /\ k <= n
    OBVIOUS
  <2>2. k \in P
    BY <2>1
  <2> QED BY <2>1, <2>2
<1> HIDE DEF Q
<1>3. Q = Nat
  <2>1. Q \in SUBSET Nat
    BY DEF Q
  <2> QED BY <1>1, <1>2, <2>1, Induction
<1>4. \A k \in 0..n : k \in P
  BY <1>3 DEF Q
<1> QED BY <1>4

(* What is computed place by place stays where every step leaves it, and   *)
(* is the same if it begins and goes on the same.                          *)
LEMMA StaysIn ==
  ASSUME NEW n \in Nat, NEW S, NEW f, f[0] \in S,
         \A k \in 1..n : f[k - 1] \in S => f[k] \in S
  PROVE  \A k \in 0..n : f[k] \in S
<1> DEFINE P == {k \in 0..n : f[k] \in S}
<1>1. 0 \in P
  OBVIOUS
<1>2. \A k \in 1..n : k - 1 \in P => k \in P
  OBVIOUS
<1>3. P \in SUBSET (0..n)
  OBVIOUS
<1>4. P = 0..n
  <2> HIDE DEF P
  <2> QED BY <1>1, <1>2, <1>3, PlaceInduction
<1> QED BY <1>4

SameSteps(f, g, n) ==
  f[0] = g[0] /\ \A k \in 1..n : f[k - 1] = g[k - 1] => f[k] = g[k]

LEMMA GoesTheSame ==
  ASSUME NEW n \in Nat, NEW f, NEW g, SameSteps(f, g, n)
  PROVE  \A k \in 0..n : f[k] = g[k]
<1> USE DEF SameSteps
<1> DEFINE P == {k \in 0..n : f[k] = g[k]}
<1>1. 0 \in P
  OBVIOUS
<1>2. \A k \in 1..n : k - 1 \in P => k \in P
  OBVIOUS
<1>3. P \in SUBSET (0..n)
  OBVIOUS
<1>4. P = 0..n
  <2> HIDE DEF P
  <2> QED BY <1>1, <1>2, <1>3, PlaceInduction
<1> QED BY <1>4

(* What is computed place by place exists: f[k] is what a step makes of    *)
(* place k and f[k - 1].                                                   *)
IsStep(step, n, S) == step \in [(1..n) \X S -> S]
Follows(f, step, a, n, S) ==
  f \in [0..n -> S] /\ f[0] = a /\ \A k \in 1..n : f[k] = step[<<k, f[k - 1]>>]

LEMMA Recursion ==
  ASSUME NEW S, NEW a \in S, NEW n \in Nat, NEW step, IsStep(step, n, S)
  PROVE  \E f : Follows(f, step, a, n, S)
<1> USE DEF IsStep
<1> DEFINE Starts(f, m) ==
             f \in [0..m -> S] /\ f[0] = a /\ \A k \in 1..m : f[k] = step[<<k, f[k - 1]>>]
           P == {m \in 0..n : \E f : Starts(f, m)}
<1>1. 0 \in P
  <2>1. Starts([k \in 0..0 |-> a], 0) /\ 0 \in 0..n
    OBVIOUS
  <2> HIDE DEF Starts
  <2>2. \E f : Starts(f, 0)
    BY <2>1
  <2> QED BY <2>1, <2>2
<1>2. ASSUME NEW m \in 1..n, m - 1 \in P PROVE m \in P
  <2>1. PICK f : Starts(f, m - 1)
    BY <1>2
  <2> DEFINE g == [k \in 0..m |-> IF k = m THEN step[<<m, f[m - 1]>>] ELSE f[k]]
  <2>2. f[m - 1] \in S /\ \A k \in 0..(m - 1) : f[k] \in S
    BY <2>1
  <2>3. <<m, f[m - 1]>> \in (1..n) \X S
    BY <2>2
  <2>4. step[<<m, f[m - 1]>>] \in S
    BY <2>3
  <2>5. g \in [0..m -> S]
    BY <2>2, <2>4
  <2>6. g[0] = a
    BY <2>1
  <2>7. \A k \in 1..m : g[k] = step[<<k, g[k - 1]>>]
    <3> SUFFICES ASSUME NEW k \in 1..m PROVE g[k] = step[<<k, g[k - 1]>>]
      OBVIOUS
    <3>1. g[k - 1] = f[k - 1]
      <4>1. k - 1 \in 0..m /\ k - 1 # m
        OBVIOUS
      <4> QED BY <4>1
    <3>2. CASE k = m
      <4>1. g[k] = step[<<m, f[m - 1]>>]
        BY <3>2
      <4> QED BY <4>1, <3>1, <3>2
    <3>3. CASE k # m
      <4>1. k \in 1..(m - 1) /\ g[k] = f[k]
        BY <3>3
      <4> QED BY <4>1, <3>1, <2>1
    <3> QED BY <3>2, <3>3
  <2> HIDE DEF g
  <2>8. Starts(g, m)
    BY <2>5, <2>6, <2>7
  <2> QED BY <2>8
<1> HIDE DEF Starts
<1>3. P = 0..n
  <2>1. P \in SUBSET (0..n)
    OBVIOUS
  <2> HIDE DEF P
  <2> QED BY <1>1, <1>2, <2>1, PlaceInduction
<1>4. PICK f : Starts(f, n)
  <2>1. n \in 0..n
    OBVIOUS
  <2>2. n \in P
    BY <1>3, <2>1
  <2> QED BY <2>2
<1> QED BY <1>4 DEF Starts, Follows

(* The last and the first of some places *)
LEMMA HighestNumber ==
  ASSUME NEW n \in Nat, NEW set \in SUBSET (0..n), set # {}
  PROVE  Max(set) \in set /\ \A k \in set : Max(set) >= k
<1> DEFINE P == {k \in 0..n : set \intersect (0..k) # {} =>
                              \E i \in set \intersect (0..k) :
                                \A j \in set \intersect (0..k) : i >= j}
<1>1. 0 \in P
  OBVIOUS
<1>2. ASSUME NEW k \in 1..n, k - 1 \in P PROVE k \in P
  <2>1. CASE k \in set
    <3>1. k \in set \intersect (0..k) /\ \A j \in set \intersect (0..k) : k >= j
      BY <2>1
    <3> QED BY <3>1
  <2>2. CASE k \notin set
    <3>1. set \intersect (0..k) = set \intersect (0..(k - 1))
      BY <2>2
    <3> QED BY <3>1, <1>2
  <2> QED BY <2>1, <2>2
<1>3. P = 0..n
  <2>1. P \in SUBSET (0..n)
    OBVIOUS
  <2> HIDE DEF P
  <2> QED BY <1>1, <1>2, <2>1, PlaceInduction
<1>4. n \in P
  BY <1>3
<1>5. set \intersect (0..n) = set
  <2> HIDE DEF P
  <2>1. \A i \in set : i \in 0..n
    OBVIOUS
  <2> QED BY <2>1
<1>6. \E i \in set : \A j \in set : i >= j
  BY <1>4, <1>5
<1> QED BY <1>6 DEF Max

LEMMA HighestPlace ==
  ASSUME NEW n \in Nat, NEW set \in SUBSET (1..n), set # {}
  PROVE  Max(set) \in set /\ \A k \in set : Max(set) >= k
<1>1. set \in SUBSET (0..n)
  OBVIOUS
<1> QED BY <1>1, HighestNumber

LEMMA LowestPlace ==
  ASSUME NEW n \in Nat, NEW set \in SUBSET (1..n), set # {}
  PROVE  Min(set) \in set /\ \A k \in set : Min(set) <= k
<1> DEFINE mirror == {n + 1 - k : k \in set}
<1>1. mirror \in SUBSET (1..n) /\ mirror # {}
  <2>1. \A k \in set : n + 1 - k \in 1..n
    OBVIOUS
  <2> QED BY <2>1
<1>2. Max(mirror) \in mirror /\ \A k \in mirror : Max(mirror) >= k
  <2> HIDE DEF mirror
  <2> QED BY <1>1, HighestPlace
<1>3. PICK least \in set : Max(mirror) = n + 1 - least
  BY <1>2
<1>4. \A k \in set : least <= k
  <2> SUFFICES ASSUME NEW k \in set PROVE least <= k
    OBVIOUS
  <2>1. n + 1 - k \in mirror
    OBVIOUS
  <2>2. n + 1 - least >= n + 1 - k
    BY <1>2, <1>3, <2>1
  <2> QED BY <2>2
<1> HIDE DEF mirror
<1>5. Min(set) \in set /\ \A k \in set : Min(set) <= k
  BY <1>4 DEF Min
<1> QED BY <1>5

------------------------------------------------------------------------------
(* Sorting: in a finite set with a strict total order R, whatever comes    *)
(* earlier has fewer before it, so every place is taken by one element.    *)
InFront(d, S, R) == {e \in S : <<e, d>> \in R}

IsStrictOrder(S, R) ==
  /\ \A d \in S : <<d, d>> \notin R
  /\ \A d, e, f \in S : <<d, e>> \in R /\ <<e, f>> \in R => <<d, f>> \in R
  /\ \A d, e \in S : d = e \/ <<d, e>> \in R \/ <<e, d>> \in R

LEMMA EarlierHasFewer ==
  ASSUME NEW S, IsFiniteSet(S), NEW R, IsStrictOrder(S, R), NEW d \in S, NEW e \in S,
         <<d, e>> \in R
  PROVE  Cardinality(InFront(d, S, R)) < Cardinality(InFront(e, S, R))
<1>1. InFront(d, S, R) \in SUBSET InFront(e, S, R) /\ d \in InFront(e, S, R) /\ d \notin InFront(d, S, R)
  BY DEF InFront, IsStrictOrder
<1>2. InFront(e, S, R) \in SUBSET S
  BY DEF InFront
<1>3. IsFiniteSet(InFront(e, S, R))
  BY <1>2, FS_Subset
<1>4. IsFiniteSet(InFront(d, S, R))
  BY <1>1, <1>3, FS_Subset
<1>5. /\ Cardinality(InFront(d, S, R)) <= Cardinality(InFront(e, S, R))
      /\ Cardinality(InFront(d, S, R)) # Cardinality(InFront(e, S, R))
  BY <1>1, <1>3, FS_Subset
<1>6. Cardinality(InFront(d, S, R)) \in Nat /\ Cardinality(InFront(e, S, R)) \in Nat
  BY <1>3, <1>4, FS_CardinalityType
<1> QED BY <1>5, <1>6

LEMMA AheadIsBounded ==
  ASSUME NEW S, IsFiniteSet(S), NEW R, IsStrictOrder(S, R), NEW d \in S
  PROVE  /\ Cardinality(InFront(d, S, R)) \in Nat /\ Cardinality(S) \in Nat
         /\ Cardinality(InFront(d, S, R)) < Cardinality(S)
<1>1. InFront(d, S, R) \in SUBSET S /\ d \notin InFront(d, S, R)
  BY DEF InFront, IsStrictOrder
<1>2. /\ IsFiniteSet(InFront(d, S, R))
      /\ Cardinality(InFront(d, S, R)) <= Cardinality(S)
      /\ Cardinality(InFront(d, S, R)) # Cardinality(S)
  BY <1>1, FS_Subset
<1>3. Cardinality(InFront(d, S, R)) \in Nat /\ Cardinality(S) \in Nat
  BY <1>2, FS_CardinalityType
<1> QED BY <1>2, <1>3

LEMMA OneForEachPlace ==
  ASSUME NEW S, IsFiniteSet(S), NEW R, IsStrictOrder(S, R),
         NEW k \in 1..Cardinality(S)
  PROVE  /\ \E d \in S : Cardinality(InFront(d, S, R)) = k - 1
         /\ \A d, e \in S : Cardinality(InFront(d, S, R)) = Cardinality(InFront(e, S, R)) => d = e
<1> DEFINE n == Cardinality(S)
           place == [d \in S |-> Cardinality(InFront(d, S, R)) + 1]
<1>1. \A d, e \in S : Cardinality(InFront(d, S, R)) = Cardinality(InFront(e, S, R)) => d = e
  <2> SUFFICES ASSUME NEW d \in S, NEW e \in S, d # e
               PROVE  Cardinality(InFront(d, S, R)) # Cardinality(InFront(e, S, R))
    OBVIOUS
  <2>1. <<d, e>> \in R \/ <<e, d>> \in R
    BY DEF IsStrictOrder
  <2>2. Cardinality(InFront(d, S, R)) \in Nat /\ Cardinality(InFront(e, S, R)) \in Nat
    BY AheadIsBounded
  <2>3. \/ Cardinality(InFront(d, S, R)) < Cardinality(InFront(e, S, R))
        \/ Cardinality(InFront(e, S, R)) < Cardinality(InFront(d, S, R))
    BY <2>1, EarlierHasFewer
  <2> QED BY <2>2, <2>3
<1>2. n \in Nat
  BY FS_CardinalityType
<1>3. \A d \in S : place[d] \in 1..n
  <2> SUFFICES ASSUME NEW d \in S PROVE place[d] \in 1..n
    OBVIOUS
  <2>1. Cardinality(InFront(d, S, R)) \in Nat /\ Cardinality(InFront(d, S, R)) < n
    BY AheadIsBounded
  <2> QED BY <2>1, <1>2
<1>4. \A d, e \in S : place[d] = place[e] => d = e
  <2> SUFFICES ASSUME NEW d \in S, NEW e \in S, place[d] = place[e] PROVE d = e
    OBVIOUS
  <2>1. Cardinality(InFront(d, S, R)) \in Nat /\ Cardinality(InFront(e, S, R)) \in Nat
    BY AheadIsBounded
  <2>2. Cardinality(InFront(d, S, R)) = Cardinality(InFront(e, S, R))
    BY <2>1
  <2> QED BY <1>1, <2>2
<1>5. place \in Injection(S, 1..n)
  BY <1>3, <1>4 DEF Injection, IsInjective
<1>6. IsFiniteSet(1..n) /\ Cardinality(1..n) = n
  BY <1>2, FS_Interval
<1> HIDE DEF place
<1>7. place \in Surjection(S, 1..n)
  BY <1>5, <1>6, FS_Injection
<1>8. PICK d \in S : place[d] = k
  BY <1>7 DEF Surjection
<1>9. Cardinality(InFront(d, S, R)) = k - 1
  <2>1. Cardinality(InFront(d, S, R)) \in Nat
    BY AheadIsBounded
  <2> QED BY <1>8, <2>1 DEF place
<1> QED BY <1>1, <1>9

==============================================================================
