------------------------------ MODULE SumTheorems ------------------------------
(***************************************************************************)
(* What the proofs need of recursion and of sums: a function made step by  *)
(* step exists, and the fold that sums a function over a finite set, in an *)
(* order nobody knows, is a sum.                                           *)
(***************************************************************************)
EXTENDS Integers, Sequences, FiniteSets, FiniteSetsExt, FiniteSetTheorems,
        WellFoundedInduction, SequenceTheorems, TLAPS


-------------------------------------------------------------------------------
(* RECURSION AND SUMS                                                      *)

(* Numbers: a predicate of numbers that holds of 0 and goes from each to   *)
(* the next holds of all; here a set of numbers.                           *)
LEMMA Upwards ==
  ASSUME NEW n \in Nat, NEW K, 0 \in K, \A k \in 0..n : k \in K /\ k < n => k + 1 \in K
  PROVE  0..n \subseteq K
<1> SUFFICES ASSUME ~ (0..n \subseteq K) PROVE FALSE
  OBVIOUS
<1> DEFINE R == OpToRel(<, Nat)
           M == (0..n) \ K
<1>1. \A x, y \in Nat : x < y => <<x, y>> \in R
  BY DEF OpToRel
<1>2. IsWellFoundedOn(R, Nat)
  BY NatLessThanWellFounded
<1>3. M \subseteq Nat /\ M # {}
  OBVIOUS
<1> HIDE DEF R
<1>4. PICK m \in M : \A y \in M : ~(<<y, m>> \in R)
  BY <1>2, <1>3, WFMin
<1>5. m \in 1..n /\ m - 1 \in 0..n /\ m - 1 \notin M
  <2>1. m \in 0..n /\ m # 0
    OBVIOUS
  <2>2. m - 1 \in Nat /\ m - 1 < m
    BY <2>1
  <2>3. m - 1 \notin M
    <3>1. <<m - 1, m>> \in R
      BY <1>1, <2>1, <2>2
    <3> QED BY <1>4, <3>1
  <2> QED BY <2>1, <2>2, <2>3
<1>6. m - 1 \in 0..n /\ m - 1 \in K /\ m - 1 < n /\ (m - 1) + 1 = m
  BY <1>5
<1>7. m \in K
  BY <1>6
<1> QED BY <1>7

(* What is made step by step exists: Steps says that every step stays in   *)
(* V, Climbs that f is made of the steps from the base.                    *)
Steps(V, n, st) == \A k \in 1..n : \A v \in V : st[k][v] \in V
Climbs(f, V, n, base, st) ==
    f \in [0..n -> V] /\ f[0] = base /\ \A k \in 1..n : f[k] = st[k][f[k - 1]]

LEMMA Recursion ==
  ASSUME NEW V, NEW n \in Nat, NEW base \in V, NEW st, Steps(V, n, st)
  PROVE  \E f : Climbs(f, V, n, base, st)
<1> USE DEF Climbs
<1> DEFINE Upto(k) == \E f \in [0..k -> V] : f[0] = base /\ \A j \in 1..k : f[j] = st[j][f[j - 1]]
           K == {k \in 0..n : Upto(k)}
<1>1. 0 \in K
  <2> DEFINE f == [k \in 0..0 |-> base]
  <2>1. f \in [0..0 -> V] /\ f[0] = base
    OBVIOUS
  <2>2. \A j \in 1..0 : f[j] = st[j][f[j - 1]]
    OBVIOUS
  <2> HIDE DEF f
  <2>3. Upto(0)
    BY <2>1, <2>2
  <2> QED BY <2>3
<1>2. ASSUME NEW k \in 0..n, k \in K, k < n PROVE k + 1 \in K
  <2>1. PICK f \in [0..k -> V] : f[0] = base /\ \A j \in 1..k : f[j] = st[j][f[j - 1]]
    BY <1>2
  <2> DEFINE g == [j \in 0..(k + 1) |-> IF j = k + 1 THEN st[k + 1][f[k]] ELSE f[j]]
  <2>2. \A j \in 0..k : g[j] = f[j]
    OBVIOUS
  <2>3. g[k + 1] = st[k + 1][f[k]] /\ st[k + 1][f[k]] \in V
    BY <1>2 DEF Steps
  <2>4. g \in [0..(k + 1) -> V]
    BY <2>3
  <2> HIDE DEF g
  <2>5. \A j \in 1..(k + 1) : g[j] = st[j][g[j - 1]]
    <3> SUFFICES ASSUME NEW j \in 1..(k + 1) PROVE g[j] = st[j][g[j - 1]]
      OBVIOUS
    <3>1. CASE j = k + 1
      BY <3>1, <2>2, <2>3
    <3>2. CASE j \in 1..k
      BY <3>2, <2>1, <2>2
    <3> QED BY <3>1, <3>2
  <2>6. g[0] = base
    BY <2>1, <2>2
  <2> QED BY <1>2, <2>4, <2>5, <2>6
<1>3. n \in K
  <2>1. \A k \in 0..n : k \in K /\ k < n => k + 1 \in K
    BY <1>2
  <2> HIDE DEF K
  <2>2. 0..n \subseteq K
    BY <1>1, <2>1, Upwards
  <2> QED BY <2>2
<1> QED BY <1>3

(* The least of some numbers, the largest of some from 1 on, and of all up *)
(* to one.                                                                 *)
LEMMA MinOf ==
  ASSUME NEW S, S \subseteq Nat, S # {}
  PROVE  Min(S) \in S /\ \A y \in S : Min(S) <= y
<1> DEFINE R == OpToRel(<, Nat)
<1>0. \A x, y \in Nat : x < y => <<x, y>> \in R
  BY DEF OpToRel
<1>a. IsWellFoundedOn(R, Nat)
  BY NatLessThanWellFounded
<1> HIDE DEF R
<1>1. PICK x \in S : \A y \in S : ~(<<y, x>> \in R)
  BY <1>a, WFMin
<1>2. \A y \in S : x <= y
  <2> SUFFICES ASSUME NEW y \in S PROVE x <= y
    OBVIOUS
  <2>1. x \in Nat /\ y \in Nat /\ ~(y < x)
    BY <1>0, <1>1
  <2> QED BY <2>1
<1>3. Min(S) = CHOOSE z \in S : \A y \in S : z <= y
  BY DEF Min
<1> QED BY <1>2, <1>3

LEMMA MaxOf ==
  ASSUME NEW n \in Nat, NEW S, S \subseteq 1..n, S # {}
  PROVE  Max(S) \in S /\ \A y \in S : y <= Max(S)
<1> DEFINE T == {n - i : i \in S}
<1>1. T \subseteq Nat /\ T # {}
  <2>1. \A i \in S : i \in 1..n /\ n - i \in Nat
    OBVIOUS
  <2> QED BY <2>1
<1>2. PICK x \in S : Min(T) = n - x /\ \A y \in T : n - x <= y
  BY <1>1, MinOf
<1>3. \A y \in S : x >= y
  <2> SUFFICES ASSUME NEW y \in S PROVE x >= y
    OBVIOUS
  <2>1. n - x <= n - y
    BY <1>2
  <2> QED BY <2>1
<1>4. Max(S) \in S /\ \A y \in S : Max(S) >= y
  BY <1>3 DEF Max
<1> QED BY <1>4

LEMMA TopOf ==
  ASSUME NEW n \in Nat, NEW k \in 1..n
  PROVE  /\ Max(1..k) = k /\ (1..k) \ {k} = 1..(k - 1) /\ 1..k # {}
         /\ 1..k \in SUBSET (1..n) /\ 1..(k - 1) \in SUBSET (1..n)
<1>1. 1..k \subseteq 1..k /\ 1..k # {} /\ k \in 1..k /\ k \in Nat
  OBVIOUS
<1>2. Max(1..k) \in 1..k /\ k <= Max(1..k)
  BY <1>1, MaxOf
<1>3. Max(1..k) = k
  BY <1>2
<1> QED BY <1>1, <1>3

(* Folded: the recursion over the subsets of an index set that a fold of    *)
(* the community modules stands for; Picks says that the index whose turn  *)
(* is last is one of the subset.                                           *)
Picks(S, pick) == \A s \in SUBSET S : s # {} => pick[s] \in s
Keeps(S, V, st) == \A i \in S : \A v \in V : st[i][v] \in V
Folded(S, base, st, pick, h) ==
    h = [s \in SUBSET S |-> IF s = {} THEN base ELSE st[pick[s]][h[s \ {pick[s]}]]]

(* A set without the element that is picked has one element less.          *)
LEMMA OneLess ==
  ASSUME NEW S, IsFiniteSet(S), NEW pick, Picks(S, pick), NEW s \in SUBSET S, s # {}
  PROVE  /\ pick[s] \in s /\ s \ {pick[s]} \in SUBSET S
         /\ Cardinality(s) \in Nat /\ Cardinality(s \ {pick[s]}) = Cardinality(s) - 1
         /\ Cardinality(s) <= Cardinality(S)
<1>1. pick[s] \in s
  BY DEF Picks
<1>2. IsFiniteSet(s) /\ Cardinality(s) <= Cardinality(S)
  BY FS_Subset
<1> QED BY <1>1, <1>2, FS_CardinalityType, FS_RemoveElement

(* The recursion over the subsets has a solution.                          *)
LEMMA FoldsExist ==
  ASSUME NEW S, IsFiniteSet(S), NEW V, NEW base \in V, NEW pick, Picks(S, pick),
         NEW st, Keeps(S, V, st)
  PROVE  \E h \in [SUBSET S -> V] : Folded(S, base, st, pick, h)
<1> DEFINE W == [SUBSET S -> V]
           n == Cardinality(S)
           next(h) == [s \in SUBSET S |-> IF s = {} THEN base ELSE st[pick[s]][h[s \ {pick[s]}]]]
           on == [k \in 1..n |-> [h \in W |-> next(h)]]
           first == [s \in SUBSET S |-> base]
<1>1. n \in Nat
  BY FS_CardinalityType
<1>2. ASSUME NEW h \in W PROVE next(h) \in W
  <2> SUFFICES ASSUME NEW s \in SUBSET S, s # {} PROVE st[pick[s]][h[s \ {pick[s]}]] \in V
    OBVIOUS
  <2>1. pick[s] \in S /\ s \ {pick[s]} \in SUBSET S
    BY OneLess
  <2> QED BY <2>1 DEF Keeps
<1>3. first \in W
  OBVIOUS
<1>4. \A k \in 1..n : \A h \in W : on[k][h] = next(h)
  OBVIOUS
<1>a. \A s \in SUBSET S : first[s] = base
  OBVIOUS
<1>b. \A h \in W : \A s \in SUBSET S :
        /\ s = {} => next(h)[s] = base
        /\ s # {} => next(h)[s] = st[pick[s]][h[s \ {pick[s]}]]
  OBVIOUS
<1>c. \A h : h \in W => DOMAIN h = SUBSET S
  OBVIOUS
<1> HIDE DEF W, on, next, first
<1>5. PICK f : Climbs(f, W, n, first, on)
  <2> HIDE DEF n
  <2>1. Steps(W, n, on)
    BY <1>2, <1>4 DEF Steps
  <2> QED BY <1>1, <1>3, <2>1, Recursion
<1> HIDE DEF n
<1>a0. f \in [0..n -> W] /\ f[0] = first /\ \A k \in 1..n : f[k] = on[k][f[k - 1]]
  BY <1>5 DEF Climbs
<1>6. \A k \in 1..n : f[k - 1] \in W /\ f[k] = next(f[k - 1])
  BY <1>1, <1>4, <1>a0
<1> DEFINE Settled(k) == \A s \in SUBSET S : Cardinality(s) < k => f[k][s] = f[k - 1][s]
           K == {k \in 0..n : k = 0 \/ Settled(k)}
<1>7. 0 \in K
  BY <1>1
<1>8. ASSUME NEW k \in 0..n, k \in K, k < n PROVE k + 1 \in K
  <2> SUFFICES ASSUME NEW s \in SUBSET S, Cardinality(s) < k + 1 PROVE f[k + 1][s] = f[k][s]
    BY <1>1, <1>8
  <2>1. k + 1 \in 1..n /\ f[k] \in W /\ f[k + 1] = next(f[k])
    BY <1>1, <1>6, <1>8
  <2>3. CASE s = {}
    <3>0. f[k + 1][s] = base
      BY <2>1, <2>3, <1>b
    <3>1. CASE k = 0
      BY <3>1, <3>0, <1>a0, <1>a
    <3>2. CASE k # 0
      <4>1. f[k] = next(f[k - 1]) /\ f[k - 1] \in W
        BY <3>2, <1>6
      <4> QED BY <4>1, <3>0, <2>3, <1>b
    <3> QED BY <3>1, <3>2
  <2>4. CASE s # {}
    <3>1. /\ s \ {pick[s]} \in SUBSET S /\ Cardinality(s) \in Nat
          /\ Cardinality(s \ {pick[s]}) = Cardinality(s) - 1 /\ s \ {pick[s]} # s
      BY <2>4, OneLess
    <3>2. k # 0
      <4>1. Cardinality(s) > 0
        BY <2>4, <3>1, FS_Subset, FS_EmptySet
      <4> QED BY <3>1, <4>1
    <3>3. f[k] = next(f[k - 1]) /\ f[k - 1] \in W /\ Settled(k)
      BY <3>2, <1>6, <1>8
    <3>4. f[k][s] = st[pick[s]][f[k - 1][s \ {pick[s]}]]
      <4>1. next(f[k - 1])[s] = st[pick[s]][f[k - 1][s \ {pick[s]}]]
        BY <3>3, <2>4, <1>b
      <4> QED BY <3>3, <4>1
    <3>5. f[k][s \ {pick[s]}] = f[k - 1][s \ {pick[s]}]
      BY <3>1, <3>3
    <3>6. f[k + 1][s] = st[pick[s]][f[k][s \ {pick[s]}]]
      BY <2>1, <2>4, <1>b
    <3> QED BY <3>4, <3>5, <3>6
  <2> QED BY <2>3, <2>4
<1>9. n \in K
  <2>1. \A k \in 0..n : k \in K /\ k < n => k + 1 \in K
    BY <1>8
  <2> HIDE DEF K
  <2>2. 0..n \subseteq K
    BY <1>1, <1>7, <2>1, Upwards
  <2> QED BY <2>2, <1>1
<1>10. CASE n = 0
  <2>1. S = {}
    BY <1>10, FS_EmptySet DEF n
  <2>2. Folded(S, base, st, pick, first)
    BY <2>1 DEF Folded, first
  <2> QED BY <1>3, <2>2 DEF W
<1>11. CASE n # 0
  <2>1. f[n] = next(f[n - 1]) /\ f[n - 1] \in W /\ Settled(n) /\ f[n] \in W
    BY <1>1, <1>a0, <1>6, <1>9, <1>11
  <2>2. ASSUME NEW s \in SUBSET S, s # {} PROVE f[n][s] = st[pick[s]][f[n][s \ {pick[s]}]]
    <3>1. /\ s \ {pick[s]} \in SUBSET S /\ Cardinality(s \ {pick[s]}) = Cardinality(s) - 1
          /\ Cardinality(s) \in Nat /\ Cardinality(s) <= Cardinality(S)
      BY <2>2, OneLess
    <3>2. Cardinality(s \ {pick[s]}) < n
      BY <1>1, <3>1 DEF n
    <3>3. f[n][s \ {pick[s]}] = f[n - 1][s \ {pick[s]}]
      BY <2>1, <3>1, <3>2
    <3> QED BY <2>1, <2>2, <3>3, <1>b
  <2>3. f[n][{}] = base
    <3>1. next(f[n - 1])[{}] = base
      BY <2>1, <1>b
    <3> QED BY <2>1, <3>1
  <2>4. f[n] = [s \in SUBSET S |-> IF s = {} THEN base ELSE st[pick[s]][f[n][s \ {pick[s]}]]]
    <3>1. DOMAIN f[n] = SUBSET S
      BY <2>1, <1>c
    <3> QED BY <2>1, <2>2, <2>3, <3>1 DEF W
  <2> QED BY <2>1, <2>4 DEF Folded, W
<1> QED BY <1>10, <1>11

(* A fold from the left: the index whose turn is last is the largest.      *)
Leftwards(h, n, base, st) ==
    h = [s \in SUBSET (1..n) |-> IF s = {} THEN base ELSE st[Max(s)][h[s \ {Max(s)}]]]

LEMMA LeftFoldExists ==
  ASSUME NEW n \in Nat, NEW V, NEW base \in V, NEW st, Keeps(1..n, V, st)
  PROVE  \E h \in [SUBSET (1..n) -> V] : Leftwards(h, n, base, st)
<1> DEFINE S == 1..n
           pick == [s \in SUBSET S |-> Max(s)]
<1>1. \A s \in SUBSET S : pick[s] = Max(s)
  OBVIOUS
<1>2. Picks(S, pick)
  <2> HIDE DEF pick
  <2> SUFFICES ASSUME NEW s \in SUBSET S, s # {} PROVE pick[s] \in s
    BY DEF Picks
  <2>1. Max(s) \in s
    BY MaxOf
  <2> QED BY <1>1, <2>1
<1>3. IsFiniteSet(S)
  BY FS_Interval
<1> HIDE DEF pick
<1>4. PICK h \in [SUBSET S -> V] : Folded(S, base, st, pick, h)
  <2> HIDE DEF S
  <2>1. Keeps(S, V, st)
    BY DEF S
  <2> QED BY <1>2, <1>3, <2>1, FoldsExist
<1>5. h = [s \in SUBSET S |-> IF s = {} THEN base ELSE st[Max(s)][h[s \ {Max(s)}]]]
  BY <1>1, <1>4 DEF Folded
<1> QED BY <1>5 DEF Leftwards

(* Totals of numbers are numbers.  Sums is the recursion over the subsets  *)
(* of an index set that the fold of the community modules stands for.      *)
Some(s) == CHOOSE x \in s : TRUE
Sums(g, S, h) == h = [s \in SUBSET S |-> IF s = {} THEN 0 ELSE g[Some(s)] + h[s \ {Some(s)}]]

(* A set without the element that is picked has one element less.          *)
LEMMA Fewer ==
  ASSUME NEW S, IsFiniteSet(S), NEW s \in SUBSET S, s # {}
  PROVE  /\ Some(s) \in s /\ s \ {Some(s)} \in SUBSET S
         /\ Cardinality(s) \in Nat /\ Cardinality(s \ {Some(s)}) = Cardinality(s) - 1
         /\ Cardinality(s) <= Cardinality(S)
<1>1. Some(s) \in s
  BY DEF Some
<1>2. IsFiniteSet(s) /\ Cardinality(s) <= Cardinality(S)
  BY FS_Subset
<1> QED BY <1>1, <1>2, FS_CardinalityType, FS_RemoveElement

(* Sums are folds.                                                         *)
LEMMA SumsExist ==
  ASSUME NEW S, IsFiniteSet(S), NEW g \in [S -> Int]
  PROVE  \E h : Sums(g, S, h)
<1> DEFINE pick == [s \in SUBSET S |-> Some(s)]
           st == [i \in S |-> [v \in Int |-> g[i] + v]]
<1>1. Picks(S, pick)
  BY DEF Picks, Some
<1>2. \A i \in S : \A v \in Int : st[i][v] \in Int /\ st[i][v] = g[i] + v
  OBVIOUS
<1>3. \A s \in SUBSET S : pick[s] = Some(s)
  OBVIOUS
<1> HIDE DEF pick, st
<1>4. PICK h \in [SUBSET S -> Int] : Folded(S, 0, st, pick, h)
  <2> DEFINE V == Int
             zero == 0
  <2>1. Keeps(S, V, st) /\ zero \in V
    BY <1>2 DEF Keeps
  <2> HIDE DEF V, zero
  <2>2. \E h \in [SUBSET S -> V] : Folded(S, zero, st, pick, h)
    BY <1>1, <2>1, FoldsExist
  <2> QED BY <2>2 DEF V, zero
<1>5. ASSUME NEW s \in SUBSET S, s # {}
      PROVE  st[pick[s]][h[s \ {pick[s]}]] = g[Some(s)] + h[s \ {Some(s)}]
  <2>1. Some(s) \in S /\ s \ {Some(s)} \in SUBSET S
    BY <1>5, Fewer
  <2> QED BY <1>2, <1>3, <2>1
<1>6. h = [s \in SUBSET S |-> IF s = {} THEN 0 ELSE g[Some(s)] + h[s \ {Some(s)}]]
  BY <1>4, <1>5 DEF Folded
<1> QED BY <1>6 DEF Sums

(* Every solution sums numbers to a number.                                *)
LEMMA SumsAreNumbers ==
  ASSUME NEW S, IsFiniteSet(S), NEW g \in [S -> Int], NEW h, Sums(g, S, h)
  PROVE  h[S] \in Int
<1> DEFINE n == Cardinality(S)
           Upto(k) == \A s \in SUBSET S : Cardinality(s) <= k => h[s] \in Int
           K == {k \in 0..n : Upto(k)}
<1>1. n \in Nat
  BY FS_CardinalityType
<1>2. h[{}] = 0 /\ \A s \in SUBSET S : s # {} => h[s] = g[Some(s)] + h[s \ {Some(s)}]
  BY DEF Sums
<1>3. Upto(0)
  <2>0. h[{}] \in Int
    BY <1>2
  <2> SUFFICES ASSUME NEW s \in SUBSET S, Cardinality(s) <= 0 PROVE s = {}
    BY <2>0
  <2> SUFFICES ASSUME s # {} PROVE FALSE
    OBVIOUS
  <2>1. Cardinality(s \ {Some(s)}) = Cardinality(s) - 1 /\ s \ {Some(s)} \in SUBSET S
        /\ Cardinality(s) \in Nat
    BY Fewer
  <2>2. Cardinality(s \ {Some(s)}) \in Nat
    BY <2>1, FS_Subset, FS_CardinalityType
  <2> QED BY <2>1, <2>2
<1>4. ASSUME NEW k \in Nat, Upto(k) PROVE Upto(k + 1)
  <2>0. h[{}] \in Int
    BY <1>2
  <2> SUFFICES ASSUME NEW s \in SUBSET S, Cardinality(s) <= k + 1, s # {} PROVE h[s] \in Int
    BY <2>0
  <2>1. /\ Some(s) \in S /\ s \ {Some(s)} \in SUBSET S
        /\ Cardinality(s) \in Nat /\ Cardinality(s \ {Some(s)}) = Cardinality(s) - 1
    BY Fewer
  <2>2. Cardinality(s \ {Some(s)}) <= k
    BY <2>1
  <2>3. h[s \ {Some(s)}] \in Int /\ g[Some(s)] \in Int
    BY <2>1, <2>2, <1>4
  <2>4. h[s] = g[Some(s)] + h[s \ {Some(s)}]
    BY <1>2
  <2> QED BY <2>3, <2>4
<1>5. Upto(n)
  <2> HIDE DEF Upto, n
  <2>1. 0 \in K /\ \A k \in 0..n : k \in K /\ k < n => k + 1 \in K
    BY <1>1, <1>3, <1>4
  <2> HIDE DEF K
  <2>2. 0..n \subseteq K
    BY <1>1, <2>1, Upwards
  <2>3. n \in K
    BY <1>1, <2>2
  <2> QED BY <2>3 DEF K
<1>6. Cardinality(S) <= n /\ S \in SUBSET S
  BY <1>1
<1> QED BY <1>5, <1>6

(* A finite set is as large as its parts together.                         *)
LEMMA Disjoint ==
  ASSUME NEW A, NEW B, IsFiniteSet(A), IsFiniteSet(B), A \cap B = {}
  PROVE  /\ IsFiniteSet(A \cup B) /\ Cardinality(A \cup B) = Cardinality(A) + Cardinality(B)
         /\ Cardinality(A) \in Nat /\ Cardinality(B) \in Nat
<1>1. Cardinality(A \cap B) = 0
  BY FS_EmptySet
<1>2. /\ IsFiniteSet(A \cup B)
      /\ Cardinality(A \cup B) = Cardinality(A) + Cardinality(B) - Cardinality(A \cap B)
  BY FS_Union
<1>3. Cardinality(A) \in Nat /\ Cardinality(B) \in Nat
  BY FS_CardinalityType
<1> QED BY <1>1, <1>2, <1>3

(* The sizes of the parts of a set, one for every element of an index set, *)
(* sum to its size.                                                        *)
LEMMA PartsMakeTheWhole ==
  ASSUME NEW S, IsFiniteSet(S), NEW T, IsFiniteSet(T), NEW part,
         \A k \in T : part[k] \in S,
         NEW g, g = [s \in S |-> Cardinality({k \in T : part[k] = s})],
         NEW h, Sums(g, S, h)
  PROVE  h[S] = Cardinality(T)
<1> DEFINE n == Cardinality(S)
           of(s) == {k \in T : part[k] \in s}
           Upto(j) == \A s \in SUBSET S : Cardinality(s) <= j => h[s] = Cardinality(of(s))
           K == {j \in 0..n : Upto(j)}
<1>1. n \in Nat
  BY FS_CardinalityType
<1>2. h[{}] = 0 /\ \A s \in SUBSET S : s # {} => h[s] = g[Some(s)] + h[s \ {Some(s)}]
  BY DEF Sums
<1>0. h[{}] = Cardinality(of({}))
  <2>1. of({}) = {}
    OBVIOUS
  <2> QED BY <1>2, <2>1, FS_EmptySet
<1>3. Upto(0)
  <2> SUFFICES ASSUME NEW s \in SUBSET S, Cardinality(s) <= 0 PROVE s = {}
    BY <1>0
  <2>1. IsFiniteSet(s) /\ Cardinality(s) \in Nat
    BY FS_Subset, FS_CardinalityType
  <2> QED BY <2>1, FS_EmptySet
<1>4. ASSUME NEW j \in Nat, Upto(j) PROVE Upto(j + 1)
  <2> SUFFICES ASSUME NEW s \in SUBSET S, Cardinality(s) <= j + 1, s # {}
               PROVE  h[s] = Cardinality(of(s))
    BY <1>0
  <2> DEFINE x == Some(s)
             one == {k \in T : part[k] = x}
  <2>1. /\ x \in s /\ x \in S /\ s \ {x} \in SUBSET S
        /\ Cardinality(s) \in Nat /\ Cardinality(s \ {x}) = Cardinality(s) - 1
    BY Fewer
  <2>2. h[s] = g[x] + h[s \ {x}]
    BY <1>2
  <2>3. Cardinality(s \ {x}) <= j
    BY <2>1
  <2>4. h[s \ {x}] = Cardinality(of(s \ {x}))
    BY <1>4, <2>1, <2>3
  <2> HIDE DEF x
  <2>5. g[x] = Cardinality(one)
    BY <2>1
  <2>6. of(s) = of(s \ {x}) \cup one /\ of(s \ {x}) \cap one = {}
    BY <2>1
  <2>7. IsFiniteSet(of(s \ {x})) /\ IsFiniteSet(one)
    BY FS_Subset
  <2>8. Cardinality(of(s)) = Cardinality(of(s \ {x})) + Cardinality(one)
        /\ Cardinality(of(s \ {x})) \in Nat /\ Cardinality(one) \in Nat
    <3> HIDE DEF of, one
    <3> QED BY <2>6, <2>7, Disjoint
  <2> HIDE DEF of, one
  <2> QED BY <2>2, <2>4, <2>5, <2>8
<1>5. Upto(n)
  <2> HIDE DEF Upto, n
  <2>1. 0 \in K /\ \A j \in 0..n : j \in K /\ j < n => j + 1 \in K
    BY <1>1, <1>3, <1>4
  <2> HIDE DEF K
  <2>2. 0..n \subseteq K
    BY <1>1, <2>1, Upwards
  <2>3. n \in K
    BY <1>1, <2>2
  <2> QED BY <2>3 DEF K
<1>6. h[S] = Cardinality(of(S))
  BY <1>1, <1>5
<1>7. of(S) = T
  OBVIOUS
<1> QED BY <1>6, <1>7

-------------------------------------------------------------------------------
(* SEQUENCES                                                               *)

(* A function from 1..n is a sequence.                                     *)
LEMMA FunctionsAreSequences ==
  ASSUME NEW S, NEW n \in Nat, NEW c \in [1..n -> S]
  PROVE  c \in Seq(S) /\ Len(c) = n
  OBVIOUS
(* A sequence with one element more.                                       *)
LEMMA Appended ==
  ASSUME NEW S, NEW c \in Seq(S), NEW x \in S
  PROVE  /\ Append(c, x) \in Seq(S) /\ Append(c, x) # <<>> /\ Len(Append(c, x)) = Len(c) + 1
         /\ Append(c, x)[Len(c) + 1] = x /\ \A k \in 1..Len(c) : Append(c, x)[k] = c[k]
<1>1. Append(c, x) \in Seq(S) /\ Append(c, x) # <<>> /\ Len(Append(c, x)) = Len(c) + 1
  BY AppendProperties
<1>2. Append(c, x)[Len(c) + 1] = x /\ \A k \in 1..Len(c) : Append(c, x)[k] = c[k]
  OBVIOUS
<1> QED BY <1>1, <1>2

===============================================================================
