-------------------------- MODULE NaturalTheorems --------------------------
(***************************************************************************)
(* Facts about Min and Max of FiniteSetsExt, induction and recursion on    *)
(* the naturals, and orders of finite sets, for the proofs of this project.*)
(***************************************************************************)
EXTENDS FiniteSetsExt, TLAPS, FiniteSetTheorems

\* A nonempty set of naturals has a minimum, and Min is it.
LEMMA MinOfNaturals ==
    ASSUME NEW S \in SUBSET Nat, S # {}
    PROVE  Min(S) \in S /\ \A x \in S : Min(S) <= x
<1>1. PICK x \in S : \A y \in S : ~(<<y, x>> \in OpToRel(<, Nat))
  BY WFMin, NatLessThanWellFounded
<1>2. ASSUME NEW y \in S, y < x
      PROVE  FALSE
  <2>1. <<y, x>> \in Nat \X Nat /\ <<y, x>>[1] < <<y, x>>[2]
    BY <1>2
  <2>2. <<y, x>> \in OpToRel(<, Nat)
    BY <2>1, Zenon DEF OpToRel
  <2> QED
    BY <1>1, <2>2
<1>3. \A y \in S : x <= y
  BY <1>2
<1> QED
  BY <1>3 DEF Min

\* A nonempty set of naturals up to n has a maximum, and Max is it.
LEMMA MaxOfInterval ==
    ASSUME NEW n \in Nat, NEW S \in SUBSET (0..n), S # {}
    PROVE  Max(S) \in S /\ \A x \in S : x <= Max(S)
<1> DEFINE D == {n - x : x \in S}
<1>1. D \in SUBSET Nat /\ D # {}
  <2>1. PICK x : x \in S
    OBVIOUS
  <2>2. n - x \in D
    BY <2>1
  <2> QED
    BY <2>2
<1>2. Min(D) \in D /\ \A d \in D : Min(D) <= d
  BY <1>1, MinOfNaturals
<1>3. PICK x \in S : Min(D) = n - x
  BY <1>2
<1>4. \A y \in S : y <= x
  BY <1>2, <1>3
<1> QED
  BY <1>4 DEF Max

LEMMA MinOfPair ==
    ASSUME NEW a \in Nat, NEW b \in Nat
    PROVE  /\ Min({a, b}) \in Nat
           /\ Min({a, b}) \in {a, b}
           /\ Min({a, b}) <= a /\ Min({a, b}) <= b
  BY MinOfNaturals, {a, b} \in SUBSET Nat, {a, b} # {}

LEMMA MaxOfPair ==
    ASSUME NEW a \in Nat, NEW b \in Nat
    PROVE  /\ Max({a, b}) \in Nat
           /\ Max({a, b}) \in {a, b}
           /\ a <= Max({a, b}) /\ b <= Max({a, b})
<1>1. {a, b} \in SUBSET (0..(a + b)) /\ {a, b} # {} /\ a + b \in Nat
  OBVIOUS
<1> QED
  BY <1>1, MaxOfInterval

\* Induction, as a fact about a set: tlapm cannot instantiate the operator of
\* the library's NatInduction.
LEMMA SetInduction ==
    ASSUME NEW S, 0 \in S, \A n \in Nat : n \in S => n + 1 \in S
    PROVE  Nat \subseteq S
<1> DEFINE Bad == Nat \ S
<1> SUFFICES ASSUME Bad # {}
             PROVE  FALSE
  OBVIOUS
<1>1. Min(Bad) \in Bad /\ \A n \in Bad : Min(Bad) <= n
  <2>1. Bad \in SUBSET Nat
    OBVIOUS
  <2> HIDE DEF Bad
  <2> QED
    BY <2>1, MinOfNaturals
<1> PICK n : n = Min(Bad)
  OBVIOUS
<1>2. n \in Nat /\ n # 0
  BY <1>1
<1>3. n - 1 \in Nat /\ n - 1 \notin Bad
  BY <1>1, <1>2
<1>4. (n - 1) + 1 \in S
  BY <1>3
<1> QED
  BY <1>1, <1>2, <1>4

\* The same up to a bound.
LEMMA IntervalInduction ==
    ASSUME NEW k \in Nat, NEW S, 0 \in S, \A n \in 0..k : n \in S /\ n # k => n + 1 \in S
    PROVE  0..k \subseteq S
<1> DEFINE T == {n \in Nat : n \in 0..k => n \in S}
<1>1. 0 \in T
  OBVIOUS
<1>2. ASSUME NEW n \in Nat, n \in T
      PROVE  n + 1 \in T
  <2>1. n + 1 \in 0..k => n \in 0..k /\ n # k
    OBVIOUS
  <2> QED
    BY <1>2, <2>1
<1> HIDE DEF T
<1>3. Nat \subseteq T
  BY <1>1, <1>2, SetInduction
<1> QED
  BY <1>3 DEF T

\* f goes from base on 0 to k by the steps of step.
IsRecursion(f, k, X, base, step) ==
    /\ f \in [0..k -> X]
    /\ f[0] = base
    /\ \A i \in 1..k : f[i] = step[i][f[i - 1]]

\* Such a function exists, when each of its steps stays in a set.
LEMMA RecursionExists ==
    ASSUME NEW k \in Nat, NEW X, NEW base \in X, NEW step \in [1..k -> [X -> X]]
    PROVE  \E f : IsRecursion(f, k, X, base, step)
<1> DEFINE Good(n, f) == f[0] = base /\ \A i \in 1..n : f[i] = step[i][f[i - 1]]
           S == {n \in 0..k : \E f \in [0..n -> X] : Good(n, f)}
<1>1. 0 \in S
  <2> DEFINE f == [i \in 0..0 |-> base]
  <2>1. f \in [0..0 -> X] /\ Good(0, f)
    OBVIOUS
  <2>2. 0 \in 0..k
    OBVIOUS
  <2> QED
    BY <2>1, <2>2
<1>2. ASSUME NEW n \in 0..k, n \in S, n # k
      PROVE  n + 1 \in S
  <2> n \in Nat
    OBVIOUS
  <2>1. n + 1 \in 1..k /\ n + 1 \in 0..k
    BY <1>2
  <2>2. PICK f \in [0..n -> X] : Good(n, f)
    BY <1>2
  <2>3. PICK last \in X : last = step[n + 1][f[n]]
    <3>1. f[n] \in X
      OBVIOUS
    <3> QED
      BY <2>1, <3>1
  <2> DEFINE g == [i \in 0..(n + 1) |-> IF i = n + 1 THEN last ELSE f[i]]
  <2>4. \A i \in 0..n : f[i] \in X /\ i \in 0..(n + 1)
    OBVIOUS
  <2>5. g \in [0..(n + 1) -> X]
    BY <2>3, <2>4
  <2>6. g[0] = base
    BY <2>2
  <2>7. ASSUME NEW i \in 1..(n + 1)
        PROVE  g[i] = step[i][g[i - 1]]
    <3>1. CASE i = n + 1
      <4>1. g[i] = last /\ g[i - 1] = f[n]
        BY <3>1
      <4> QED
        BY <2>3, <3>1, <4>1
    <3>2. CASE i # n + 1
      <4>1. i \in 1..n /\ g[i] = f[i] /\ g[i - 1] = f[i - 1]
        BY <3>2
      <4> HIDE DEF g
      <4> QED
        BY <2>2, <4>1
    <3> QED
      BY <3>1, <3>2
  <2> HIDE DEF g
  <2>8. Good(n + 1, g)
    BY <2>6, <2>7
  <2> QED
    BY <2>1, <2>5, <2>8
<1> HIDE DEF S
<1>3. 0..k \subseteq S
  BY <1>1, <1>2, IntervalInduction
<1>4. k \in S
  BY <1>3
<1> QED
  BY <1>4 DEF S, IsRecursion

\* f goes from base on the empty set to the sets of the first numbers, as the folds of
\* the community modules do over a sequence of n elements.
IsFold(f, n, V, base, step) ==
    /\ f \in [SUBSET (1..n) -> V]
    /\ \A s \in SUBSET (1..n) : f[s] = IF s = {} THEN base ELSE step[Max(s)][f[s \ {Max(s)}]]

\* Such a function exists, when each of its steps stays in a set.
LEMMA FoldExists ==
    ASSUME NEW n \in Nat, NEW V, NEW base \in V, NEW step \in [1..n -> [V -> V]]
    PROVE  \E f : IsFold(f, n, V, base, step)
<1> DEFINE D == SUBSET (1..n)
           X == [D -> V]
           start == [s \in D |-> base]
           once(g) == [s \in D |-> IF s = {} THEN base ELSE step[Max(s)][g[s \ {Max(s)}]]]
           steps == [k \in 1..(n + 1) |-> [g \in X |-> once(g)]]
<1>1. ASSUME NEW k \in 1..(n + 1), NEW s \in SUBSET (1..k), s \subseteq 1..n, s # {}
      PROVE  /\ Max(s) \in 1..n /\ Max(s) \in s /\ s \ {Max(s)} \in D
             /\ s \ {Max(s)} \subseteq 1..(k - 1)
  <2>1. k \in Nat /\ s \in SUBSET (0..k)
    OBVIOUS
  <2>2. Max(s) \in s /\ \A x \in s : x <= Max(s)
    BY <1>1, <2>1, MaxOfInterval
  <2>3. PICK m \in 1..n : m = Max(s)
    BY <1>1, <2>2
  <2>4. \A x \in s \ {m} : x \in 1..(k - 1)
    <3>1. \A x \in s : x \in Nat /\ 1 <= x /\ x <= m /\ m <= k
      BY <2>1, <2>2, <2>3
    <3> QED
      BY <3>1
  <2> QED
    BY <1>1, <2>2, <2>3, <2>4
<1>2. ASSUME NEW s \in D, s # {} PROVE Max(s) \in 1..n /\ s \ {Max(s)} \in D
  <2>1. n + 1 \in 1..(n + 1) /\ s \in SUBSET (1..(n + 1)) /\ s \subseteq 1..n
    OBVIOUS
  <2> QED
    BY <1>1, <1>2, <2>1
<1>3. ASSUME NEW g \in X PROVE once(g) \in X
  <2> SUFFICES ASSUME NEW s \in D, s # {} PROVE step[Max(s)][g[s \ {Max(s)}]] \in V
    OBVIOUS
  <2>1. Max(s) \in 1..n /\ g[s \ {Max(s)}] \in V
    BY <1>2
  <2> QED
    BY <2>1
<1>4. start \in X
  OBVIOUS
<1>5. steps \in [1..(n + 1) -> [X -> X]]
  BY <1>3
<1>6. PICK G : IsRecursion(G, n + 1, X, start, steps)
  <2> HIDE DEF X, start, steps
  <2> QED
    BY <1>4, <1>5, RecursionExists
<1>7. \A k \in 0..(n + 1) : G[k] \in X
  BY <1>6 DEF IsRecursion
<1>8. \A k \in 0..n : G[k + 1] = once(G[k])
  <2> SUFFICES ASSUME NEW k \in 0..n PROVE G[k + 1] = once(G[k])
    OBVIOUS
  <2>1. k + 1 \in 1..(n + 1) /\ k \in 0..(n + 1) /\ (k + 1) - 1 = k
    OBVIOUS
  <2>2. G[k + 1] = steps[k + 1][G[k]]
    <3> HIDE DEF steps, X, start
    <3> QED
      BY <1>6, <2>1 DEF IsRecursion
  <2>3. G[k] \in X
    BY <1>7, <2>1
  <2> HIDE DEF X, once
  <2> QED
    BY <2>1, <2>2, <2>3
<1> DEFINE Settled == {k \in 0..n : \A s \in SUBSET (1..k) : G[k][s] = G[k + 1][s]}
<1>9. 0 \in Settled
  <2>1. \A s \in SUBSET (1..0) : s = {} /\ s \in D
    OBVIOUS
  <2>2. G[0] = start /\ 0 \in 0..n
    BY <1>6 DEF IsRecursion
  <2>3. G[0 + 1] = once(G[0])
    BY <1>8, <2>2
  <2> QED
    BY <2>1, <2>2, <2>3
<1>10. ASSUME NEW k \in 0..n, k \in Settled, k # n
       PROVE  k + 1 \in Settled
  <2>0. k + 1 \in 0..n /\ k + 1 \in 1..(n + 1) /\ (k + 1) - 1 = k
    BY <1>10
  <2>1. G[k + 1] = once(G[k]) /\ G[(k + 1) + 1] = once(G[k + 1])
    BY <1>8, <2>0
  <2>2. ASSUME NEW s \in SUBSET (1..(k + 1)) PROVE G[k + 1][s] = G[(k + 1) + 1][s]
    <3>0. s \in D
      BY <2>0
    <3>1. CASE s = {}
      BY <2>1, <3>0, <3>1
    <3>2. CASE s # {}
      <4>1. s \ {Max(s)} \subseteq 1..k
        BY <1>1, <2>0, <3>0, <3>2
      <4>2. G[k][s \ {Max(s)}] = G[k + 1][s \ {Max(s)}]
        BY <1>10, <4>1
      <4>3. /\ G[k + 1][s] = step[Max(s)][G[k][s \ {Max(s)}]]
            /\ G[(k + 1) + 1][s] = step[Max(s)][G[k + 1][s \ {Max(s)}]]
        BY <2>1, <3>0, <3>2
      <4> QED
        BY <4>2, <4>3
    <3> QED
      BY <3>1, <3>2
  <2> QED
    BY <2>0, <2>2
<1> HIDE DEF Settled
<1>11. n \in Settled
  <2>1. 0..n \subseteq Settled
    BY <1>9, <1>10, IntervalInduction
  <2> QED
    BY <2>1
<1>12. \A s \in D : G[n][s] = once(G[n])[s]
  <2>1. n \in 0..n
    OBVIOUS
  <2>2. G[n + 1] = once(G[n])
    BY <1>8, <2>1
  <2>3. \A s \in D : G[n][s] = G[n + 1][s]
    BY <1>11 DEF Settled
  <2> HIDE DEF once, D
  <2> QED
    BY <2>2, <2>3
<1> HIDE DEF X
<1>13. G[n] \in X
  <2>1. n \in 0..(n + 1)
    OBVIOUS
  <2> QED
    BY <1>7, <2>1
<1>14. \A s \in SUBSET (1..n) : G[n][s] = IF s = {} THEN base ELSE step[Max(s)][G[n][s \ {Max(s)}]]
  BY <1>12
<1>15. G[n] \in [SUBSET (1..n) -> V]
  BY <1>13 DEF X
<1>16. IsFold(G[n], n, V, base, step)
  BY <1>14, <1>15 DEF IsFold
<1> QED
  BY <1>16

\* The folds of the community modules go over the sets 1..k.
LEMMA FirstNumbers ==
    ASSUME NEW m \in Nat, NEW k \in 1..m
    PROVE  /\ 1..k \in SUBSET (1..m) /\ 1..k # {} /\ 1..(k - 1) \in SUBSET (1..m)
           /\ Max(1..k) = k /\ (1..k) \ {k} = 1..(k - 1)
<1>1. 1..k \in SUBSET (0..m) /\ 1..k # {} /\ k \in 1..k
  OBVIOUS
<1>2. Max(1..k) \in 1..k /\ k <= Max(1..k)
  BY <1>1, MaxOfInterval
<1> QED
  BY <1>1, <1>2

LEMMA FoldStays ==
    ASSUME NEW m \in Nat, NEW V, NEW f, f[{}] \in V,
           \A k \in 1..m : f[1..(k - 1)] \in V => f[1..k] \in V
    PROVE  f[1..m] \in V
<1> DEFINE S == {k \in 0..m : f[1..k] \in V}
<1>1. 0 \in S
  <2>1. 1..0 = {}
    OBVIOUS
  <2> QED
    BY <2>1
<1>2. ASSUME NEW k \in 0..m, k \in S, k # m
      PROVE  k + 1 \in S
  <2>1. k + 1 \in 1..m /\ (k + 1) - 1 = k /\ k + 1 \in 0..m
    BY <1>2
  <2>2. f[1..k] \in V
    BY <1>2
  <2>3. f[1..(k + 1)] \in V
    BY <2>1, <2>2
  <2> QED
    BY <2>1, <2>3
<1>3. 0..m \subseteq S
  <2> HIDE DEF S
  <2> QED
    BY <1>1, <1>2, IntervalInduction
<1>4. m \in 0..m
  OBVIOUS
<1> QED
  BY <1>3, <1>4

LEMMA ProductGrows ==
    ASSUME NEW x \in Nat, NEW y \in Nat, NEW z \in Nat, x < y, 0 < z
    PROVE  x * z < y * z
<1>1. PICK d \in Nat : y = x + d /\ d > 0
  <2>1. y - x \in Nat /\ y = x + (y - x) /\ y - x > 0
    OBVIOUS
  <2> QED
    BY <2>1
<1>2. y * z = x * z + d * z
  BY <1>1
<1>3. d * z > 0 /\ d * z \in Nat /\ x * z \in Nat
  BY <1>1
<1> QED
  BY <1>2, <1>3

\* Of smaller numbers the inverses, and their sums, are larger: 1/a + 1/b is (a + b)/(a * b).
LEMMA InversesShrink ==
    ASSUME NEW a \in Nat, NEW b \in Nat, NEW c \in Nat, NEW d \in Nat,
           0 < a, 0 < b, a < c, b < d
    PROVE  /\ (a + b) * (c * d) > (c + d) * (a * b)
           /\ (a + b) * c > 1 * (a * b)
           /\ (a + b) * d > 1 * (a * b)
<1>1. /\ a * b \in Nat /\ a * c \in Nat /\ b * c \in Nat /\ b * d \in Nat /\ a * d \in Nat /\ c * d \in Nat
      /\ 0 < a * c /\ 0 < b * d
  OBVIOUS
<1>2. b * (a * c) < d * (a * c)
  BY <1>1, ProductGrows
<1>3. a * (b * d) < c * (b * d)
  BY <1>1, ProductGrows
<1>4. (a + b) * (c * d) = d * (a * c) + c * (b * d)
  OBVIOUS
<1>5. (c + d) * (a * b) = b * (a * c) + a * (b * d)
  OBVIOUS
<1>6. a * b < c * b /\ b * a < d * a
  BY ProductGrows
<1>7. (a + b) * c = a * c + c * b /\ (a + b) * d = d * a + b * d
  OBVIOUS
<1>8. a * b = b * a
  OBVIOUS
<1>9. /\ b * (a * c) \in Nat /\ d * (a * c) \in Nat /\ a * (b * d) \in Nat /\ c * (b * d) \in Nat
  OBVIOUS
<1>10. (a + b) * (c * d) > (c + d) * (a * b)
  BY <1>2, <1>3, <1>4, <1>5, <1>9
<1>11. (a + b) * c > a * b /\ (a + b) * d > a * b
  BY <1>1, <1>6, <1>7, <1>8
<1> QED
  BY <1>1, <1>10, <1>11

-----------------------------------------------------------------------------
(* Finite sets in the order of a relation. *)

StrictOrder(R, S) ==
    /\ \A x \in S : <<x, x>> \notin R
    /\ \A x, y, z \in S : <<x, y>> \in R /\ <<y, z>> \in R => <<x, z>> \in R
    /\ \A x, y \in S : x = y \/ <<x, y>> \in R \/ <<y, x>> \in R

Below(R, S, x) == {y \in S : <<y, x>> \in R}
PlaceIn(R, S, x) == Cardinality(Below(R, S, x))

\* s has the elements of S in the order of R.
InLine(s, R, S) ==
    /\ s \in [1..Cardinality(S) -> S]
    /\ \A n \in 1..Cardinality(S) : PlaceIn(R, S, s[n]) = n - 1

LEMMA PlacesGrow ==
    ASSUME NEW R, NEW S, IsFiniteSet(S), StrictOrder(R, S)
    PROVE  /\ \A x \in S : PlaceIn(R, S, x) \in Nat /\ PlaceIn(R, S, x) < Cardinality(S)
           /\ \A x, y \in S : <<x, y>> \in R <=> PlaceIn(R, S, x) < PlaceIn(R, S, y)
           /\ \A x, y \in S : PlaceIn(R, S, x) = PlaceIn(R, S, y) => x = y
<1>0. Cardinality(S) \in Nat
  BY FS_CardinalityType
<1>1. \A x \in S : IsFiniteSet(Below(R, S, x)) /\ PlaceIn(R, S, x) \in Nat
  <2> SUFFICES ASSUME NEW x \in S PROVE IsFiniteSet(Below(R, S, x)) /\ PlaceIn(R, S, x) \in Nat
    OBVIOUS
  <2>1. Below(R, S, x) \in SUBSET S
    BY DEF Below
  <2> QED
    BY <2>1, FS_Subset, FS_CardinalityType DEF PlaceIn
<1>2. ASSUME NEW x \in S, NEW T \in SUBSET S, Below(R, S, x) \cup {x} \subseteq T
      PROVE  PlaceIn(R, S, x) < Cardinality(T)
  <2>1. x \notin Below(R, S, x)
    BY DEF Below, StrictOrder
  <2>2. Cardinality(Below(R, S, x) \cup {x}) = PlaceIn(R, S, x) + 1
    BY <1>1, <2>1, FS_AddElement DEF PlaceIn
  <2>3. IsFiniteSet(T)
    BY FS_Subset
  <2>4. Cardinality(Below(R, S, x) \cup {x}) <= Cardinality(T)
    BY <1>2, <2>3, FS_Subset
  <2>5. Cardinality(T) \in Nat
    BY <2>3, FS_CardinalityType
  <2> QED
    BY <1>1, <2>2, <2>4, <2>5
<1>3. \A x \in S : PlaceIn(R, S, x) < Cardinality(S)
  <2> SUFFICES ASSUME NEW x \in S PROVE PlaceIn(R, S, x) < Cardinality(S)
    OBVIOUS
  <2>1. Below(R, S, x) \cup {x} \subseteq S
    BY DEF Below
  <2> QED
    BY <1>2, <2>1
<1>4. ASSUME NEW x \in S, NEW y \in S, <<x, y>> \in R
      PROVE  PlaceIn(R, S, x) < PlaceIn(R, S, y)
  <2>1. Below(R, S, x) \cup {x} \subseteq Below(R, S, y) /\ Below(R, S, y) \in SUBSET S
    BY <1>4 DEF Below, StrictOrder
  <2> QED
    BY <1>2, <2>1 DEF PlaceIn
<1>5. ASSUME NEW x \in S, NEW y \in S, ~(<<x, y>> \in R)
      PROVE  ~(PlaceIn(R, S, x) < PlaceIn(R, S, y))
  <2>1. CASE x = y
    BY <1>1, <2>1
  <2>2. CASE <<y, x>> \in R
    <3>1. PlaceIn(R, S, y) < PlaceIn(R, S, x)
      BY <1>4, <2>2
    <3> QED
      BY <1>1, <3>1
  <2> QED
    BY <1>5, <2>1, <2>2 DEF StrictOrder
<1>6. ASSUME NEW x \in S, NEW y \in S, PlaceIn(R, S, x) = PlaceIn(R, S, y)
      PROVE  x = y
  <2>1. ~(PlaceIn(R, S, x) < PlaceIn(R, S, y)) /\ ~(PlaceIn(R, S, y) < PlaceIn(R, S, x))
    BY <1>1, <1>6
  <2> QED
    BY <1>4, <2>1 DEF StrictOrder
<1> QED
  BY <1>1, <1>3, <1>4, <1>5, <1>6

\* Every place is taken.
LEMMA PlacesAreTaken ==
    ASSUME NEW R, NEW S, IsFiniteSet(S), StrictOrder(R, S), NEW n \in 1..Cardinality(S)
    PROVE  \E x \in S : PlaceIn(R, S, x) = n - 1
<1> DEFINE c == Cardinality(S)
           f == [x \in S |-> PlaceIn(R, S, x)]
<1>1. c \in Nat
  BY FS_CardinalityType
<1>2. f \in [S -> 0..(c - 1)]
  BY <1>1, PlacesGrow
<1>3. f \in Injection(S, 0..(c - 1))
  <2>1. \A x, y \in S : f[x] = f[y] => x = y
    BY PlacesGrow
  <2> QED
    BY <1>2, <2>1 DEF Injection, IsInjective
<1>4. IsFiniteSet(0..(c - 1)) /\ Cardinality(0..(c - 1)) = c
  <2>1. 0 \in Int /\ c - 1 \in Int
    BY <1>1
  <2> QED
    BY <1>1, <2>1, FS_Interval
<1>5. f \in Surjection(S, 0..(c - 1))
  BY <1>3, <1>4, FS_Injection
<1>6. n - 1 \in 0..(c - 1)
  BY <1>1
<1> QED
  BY <1>5, <1>6 DEF Surjection

\* The first k of a line are those whose place is below k.
LEMMA FirstOfLine ==
    ASSUME NEW R, NEW S, IsFiniteSet(S), StrictOrder(R, S), NEW s, InLine(s, R, S), NEW x \in S
    PROVE  /\ PlaceIn(R, S, x) + 1 \in 1..Cardinality(S)
           /\ s[PlaceIn(R, S, x) + 1] = x
<1>1. PICK p \in Nat : p = PlaceIn(R, S, x) /\ p < Cardinality(S)
  BY PlacesGrow
<1>2. Cardinality(S) \in Nat
  BY FS_CardinalityType
<1>3. p + 1 \in 1..Cardinality(S) /\ (p + 1) - 1 = p
  BY <1>1, <1>2
<1>4. PlaceIn(R, S, s[p + 1]) = p /\ s[p + 1] \in S
  BY <1>3 DEF InLine
<1>5. s[p + 1] = x
  BY <1>1, <1>4, PlacesGrow
<1> QED
  BY <1>1, <1>3, <1>5

\* Two sets, each in its line, have the same first k elements if the first k of M are in
\* N too, and what N has and M has not is behind something that M has and N has not.
LEMMA LinesAgree ==
    ASSUME NEW R, NEW H, NEW M \in SUBSET H, NEW N \in SUBSET H, NEW k \in Nat,
           IsFiniteSet(M), IsFiniteSet(N), StrictOrder(R, H),
           \A x \in M : PlaceIn(R, M, x) < k => x \in N,
           \A y \in N \ M : \E g \in M \ N : <<g, y>> \in R,
           NEW s, InLine(s, R, M), NEW t, InLine(t, R, N)
    PROVE  /\ \/ Cardinality(M) = Cardinality(N)
              \/ k <= Cardinality(M) /\ k <= Cardinality(N)
           /\ \A n \in 1..k : n <= Cardinality(M) /\ n <= Cardinality(N) => s[n] = t[n]
<1>1. StrictOrder(R, M) /\ StrictOrder(R, N)
  BY DEF StrictOrder
<1>2. Cardinality(M) \in Nat /\ Cardinality(N) \in Nat
  BY FS_CardinalityType
<1>3. /\ \A x \in M : PlaceIn(R, M, x) \in Nat
      /\ \A x, y \in M : <<x, y>> \in R => PlaceIn(R, M, x) < PlaceIn(R, M, y)
  BY <1>1, PlacesGrow
<1>4. ASSUME NEW x \in M, PlaceIn(R, M, x) < k
      PROVE  x \in N /\ PlaceIn(R, N, x) = PlaceIn(R, M, x)
  <2>1. ASSUME NEW y \in N, <<y, x>> \in R
        PROVE  y \in M
    <3> SUFFICES ASSUME y \notin M PROVE FALSE
      OBVIOUS
    <3>1. PICK g \in M \ N : <<g, y>> \in R
      OBVIOUS
    <3>2. <<g, x>> \in R
      BY <2>1, <3>1 DEF StrictOrder
    <3>3. PlaceIn(R, M, g) < PlaceIn(R, M, x)
      BY <1>3, <3>2
    <3>4. PlaceIn(R, M, g) < k
      BY <1>3, <1>4, <3>3
    <3> QED
      BY <3>1, <3>4
  <2>2. ASSUME NEW y \in M, <<y, x>> \in R
        PROVE  y \in N
    <3>1. PlaceIn(R, M, y) < PlaceIn(R, M, x)
      BY <1>3, <2>2
    <3>2. PlaceIn(R, M, y) < k
      BY <1>3, <1>4, <3>1
    <3> QED
      BY <3>2
  <2>3. Below(R, N, x) = Below(R, M, x)
    BY <2>1, <2>2 DEF Below
  <2> QED
    BY <1>4, <2>3 DEF PlaceIn
<1>5. ASSUME NEW n \in 1..k, n <= Cardinality(M)
      PROVE  n <= Cardinality(N) /\ t[n] = s[n]
  <2>1. n \in Nat /\ n \in 1..Cardinality(M)
    BY <1>2, <1>5
  <2>2. PICK x \in M : x = s[n] /\ PlaceIn(R, M, x) = n - 1
    BY <2>1 DEF InLine
  <2>3. n - 1 < k
    OBVIOUS
  <2>4. x \in N /\ PlaceIn(R, N, x) = n - 1
    BY <1>4, <2>2, <2>3
  <2>5. (n - 1) + 1 = n
    OBVIOUS
  <2>6. n \in 1..Cardinality(N) /\ t[n] = x
    BY <1>1, <2>4, <2>5, FirstOfLine
  <2> QED
    BY <1>2, <2>2, <2>6
<1>6. CASE k <= Cardinality(M)
  <2>1. CASE k = 0
    BY <1>2, <1>5, <1>6, <2>1
  <2>2. CASE k # 0
    <3>1. k \in 1..k
      BY <2>2
    <3>2. k <= Cardinality(N)
      BY <1>5, <1>6, <3>1
    <3> QED
      BY <1>5, <1>6, <3>2
  <2> QED
    BY <2>1, <2>2
<1>7. CASE Cardinality(M) < k
  <2>1. M \subseteq N
    <3> SUFFICES ASSUME NEW x \in M PROVE x \in N
      OBVIOUS
    <3>1. PICK p \in Nat : p = PlaceIn(R, M, x) /\ p < Cardinality(M)
      BY <1>1, PlacesGrow
    <3>2. p < k
      BY <1>2, <1>7, <3>1
    <3> QED
      BY <3>1, <3>2
  <2>2. N \subseteq M
    BY <2>1
  <2>3. M = N
    BY <2>1, <2>2
  <2> QED
    BY <1>5, <2>3
<1> QED
  BY <1>2, <1>6, <1>7

LEMMA FiniteHasMax ==
    ASSUME NEW S \in SUBSET Nat, IsFiniteSet(S), S # {}
    PROVE  \E v \in S : \A w \in S : w <= v
<1> DEFINE R == {p \in Nat \X Nat : p[1] < p[2]}
           c == Cardinality(S)
<1>1. StrictOrder(R, S)
  <2>1. \A x, y \in Nat : <<x, y>> \in R <=> x < y
    OBVIOUS
  <2> HIDE DEF R
  <2> QED
    BY <2>1 DEF StrictOrder
<1>2. c \in Nat /\ c # 0
  BY FS_CardinalityType, FS_EmptySet
<1>3. c \in 1..c
  BY <1>2
<1>4. PICK v \in S : PlaceIn(R, S, v) = c - 1
  BY <1>1, <1>3, PlacesAreTaken
<1>5. ASSUME NEW w \in S, v < w
      PROVE  FALSE
  <2>1. <<v, w>> \in R
    BY <1>5
  <2> HIDE DEF R
  <2>2. PlaceIn(R, S, v) < PlaceIn(R, S, w) /\ PlaceIn(R, S, w) \in Nat /\ PlaceIn(R, S, w) < c
    BY <1>1, <2>1, PlacesGrow
  <2> QED
    BY <1>2, <1>4, <2>2
<1>6. \A w \in S : w <= v
  BY <1>5
<1> QED
  BY <1>6

-----------------------------------------------------------------------------
(* A search by halves, as sort.Search of the Go library goes about it. *)

\* f takes bounds <<i, j>> to the first m of them for which m + 1 is in U.
Halves(U, n, f) ==
    f = [r \in (0..n) \X (0..n) |->
            IF r[1] >= r[2] THEN r[1]
            ELSE IF ((r[1] + r[2]) \div 2) + 1 \in U THEN f[<<r[1], (r[1] + r[2]) \div 2>>]
            ELSE f[<<((r[1] + r[2]) \div 2) + 1, r[2]>>]]

LEMMA SearchFinds ==
    ASSUME NEW n \in Nat, NEW c \in 0..n, NEW U, \A t \in 1..n : t \in U <=> c < t
    PROVE  /\ \E f : Halves(U, n, f)
           /\ \A f : Halves(U, n, f) => f[<<0, n>>] = c
<1> DEFINE D == (0..n) \X (0..n)
           Clamp(i, j) == IF i >= j THEN i ELSE IF c < i THEN i ELSE IF c > j THEN j ELSE c
           g == [r \in D |-> Clamp(r[1], r[2])]
<1>1. \A i, j \in 0..n : i < j =>
          /\ (i + j) \div 2 \in 0..n /\ ((i + j) \div 2) + 1 \in 1..n
          /\ i <= (i + j) \div 2 /\ (i + j) \div 2 < j
  OBVIOUS
<1>2. \A i, j \in 0..n : <<i, j>> \in D /\ g[<<i, j>>] = Clamp(i, j)
  OBVIOUS
<1>3. ASSUME NEW i \in 0..n, NEW j \in 0..n
      PROVE  Clamp(i, j) = IF i >= j THEN i
                           ELSE IF ((i + j) \div 2) + 1 \in U THEN Clamp(i, (i + j) \div 2)
                           ELSE Clamp(((i + j) \div 2) + 1, j)
  <2>1. CASE i >= j
    BY <2>1
  <2>2. CASE i < j
    <3>1. PICK h \in 0..n : h = (i + j) \div 2 /\ h + 1 \in 1..n /\ i <= h /\ h < j
      BY <1>1, <2>2
    <3>2. h + 1 \in U <=> c < h + 1
      BY <3>1
    <3>3. Clamp(i, j) = IF c < h + 1 THEN Clamp(i, h) ELSE Clamp(h + 1, j)
      BY <2>2, <3>1
    <3> QED
      BY <2>2, <3>1, <3>2, <3>3
  <2> QED
    BY <2>1, <2>2
<1> HIDE DEF Clamp
<1>4. Halves(U, n, g)
  <2>1. \A r \in D : g[r] = IF r[1] >= r[2] THEN r[1]
                            ELSE IF ((r[1] + r[2]) \div 2) + 1 \in U THEN g[<<r[1], (r[1] + r[2]) \div 2>>]
                            ELSE g[<<((r[1] + r[2]) \div 2) + 1, r[2]>>]
    <3> SUFFICES ASSUME NEW i \in 0..n, NEW j \in 0..n
                 PROVE  g[<<i, j>>] = IF i >= j THEN i
                                      ELSE IF ((i + j) \div 2) + 1 \in U THEN g[<<i, (i + j) \div 2>>]
                                      ELSE g[<<((i + j) \div 2) + 1, j>>]
      OBVIOUS
    <3> HIDE DEF g
    <3>1. CASE i >= j
      BY <1>2, <1>3, <3>1
    <3>2. CASE i < j
      <4>1. PICK h \in 0..n : h = (i + j) \div 2 /\ h + 1 \in 0..n
        BY <1>1, <3>2
      <4> QED
        BY <1>2, <1>3, <4>1
    <3> QED
      BY <3>1, <3>2
  <2> QED
    BY <2>1 DEF Halves
<1>5. ASSUME NEW f, Halves(U, n, f)
      PROVE  f[<<0, n>>] = c
  <2>1. \A i, j \in 0..n : f[<<i, j>>] = IF i >= j THEN i
                           ELSE IF ((i + j) \div 2) + 1 \in U THEN f[<<i, (i + j) \div 2>>]
                           ELSE f[<<((i + j) \div 2) + 1, j>>]
    <3> SUFFICES ASSUME NEW i \in 0..n, NEW j \in 0..n
                 PROVE  f[<<i, j>>] = IF i >= j THEN i
                           ELSE IF ((i + j) \div 2) + 1 \in U THEN f[<<i, (i + j) \div 2>>]
                           ELSE f[<<((i + j) \div 2) + 1, j>>]
      OBVIOUS
    <3>1. <<i, j>> \in D
      OBVIOUS
    <3> QED
      BY <1>5, <3>1 DEF Halves
  <2> HIDE DEF g
  <2> DEFINE S == {d \in Nat : \A i, j \in 0..n : j <= i + d => f[<<i, j>>] = Clamp(i, j)}
  <2>2. 0 \in S
    <3> SUFFICES ASSUME NEW i \in 0..n, NEW j \in 0..n, j <= i + 0 PROVE f[<<i, j>>] = Clamp(i, j)
      OBVIOUS
    <3>1. i >= j
      OBVIOUS
    <3>2. f[<<i, j>>] = i
      BY <2>1, <3>1
    <3> QED
      BY <3>1, <3>2 DEF Clamp
  <2>3. ASSUME NEW d \in Nat, d \in S
        PROVE  d + 1 \in S
    <3> SUFFICES ASSUME NEW i \in 0..n, NEW j \in 0..n, j <= i + (d + 1) PROVE f[<<i, j>>] = Clamp(i, j)
      OBVIOUS
    <3>1. CASE i >= j
      BY <2>1, <3>1 DEF Clamp
    <3>2. CASE i < j
      <4>1. PICK h \in 0..n : h = (i + j) \div 2 /\ h + 1 \in 0..n /\ i <= h /\ h < j
        BY <1>1, <3>2
      <4>2. h <= i + d /\ j <= (h + 1) + d
        BY <4>1
      <4>3. f[<<i, h>>] = Clamp(i, h) /\ f[<<h + 1, j>>] = Clamp(h + 1, j)
        BY <2>3, <4>1, <4>2
      <4>4. f[<<i, j>>] = IF h + 1 \in U THEN f[<<i, h>>] ELSE f[<<h + 1, j>>]
        <5>1. ~(i >= j)
          BY <3>2
        <5> QED
          BY Zenon, <2>1, <4>1, <5>1
      <4>5. Clamp(i, j) = IF h + 1 \in U THEN Clamp(i, h) ELSE Clamp(h + 1, j)
        <5>1. ~(i >= j)
          BY <3>2
        <5> QED
          BY Zenon, <1>3, <4>1, <5>1
      <4> QED
        BY Zenon, <4>3, <4>4, <4>5
    <3> QED
      BY <3>1, <3>2
  <2> HIDE DEF S
  <2>4. n \in S
    BY <2>2, <2>3, SetInduction
  <2>5. f[<<0, n>>] = Clamp(0, n)
    <3>1. 0 \in 0..n /\ n \in 0..n /\ n <= 0 + n
      OBVIOUS
    <3> QED
      BY <2>4, <3>1 DEF S
  <2> QED
    BY <2>5 DEF Clamp
<1> QED
  BY <1>4, <1>5
=============================================================================
