---------------------------- MODULE Order_proofs ----------------------------
(***************************************************************************)
(* What InOrder and Kept return, for every finite set and every sequence;  *)
(* and sums over a finite set.                                             *)
(***************************************************************************)
EXTENDS Order, FiniteSetTheorems, WellFoundedInduction, TLAPS

\* R orders the elements of S one after the other.
IsOrder(S, R) ==
  /\ \A x \in S : <<x, x>> \notin R
  /\ \A x, y \in S : x # y => <<x, y>> \in R \/ <<y, x>> \in R
  /\ \A x, y, z \in S : <<x, y>> \in R /\ <<y, z>> \in R => <<x, z>> \in R

-----------------------------------------------------------------------------
(* Ranks.                                                                   *)

LEMMA RankInRange ==
  ASSUME NEW S, IsFiniteSet(S), NEW R, IsOrder(S, R), NEW x \in S
  PROVE  Rank(S, R, x) \in 0..Cardinality(S) - 1 /\ Cardinality(S) \in Nat
<1> DEFINE before == {y \in S : <<y, x>> \in R}
<1>1. before \subseteq S \ {x}
  BY DEF IsOrder
<1>2. IsFiniteSet(S \ {x}) /\ Cardinality(S \ {x}) = Cardinality(S) - 1
  BY FS_RemoveElement
<1>3. /\ IsFiniteSet(before)
      /\ Cardinality(before) <= Cardinality(S \ {x})
  BY <1>1, <1>2, FS_Subset
<1>4. Cardinality(before) \in Nat /\ Cardinality(S) \in Nat
  BY <1>3, FS_CardinalityType
<1> QED
  BY <1>2, <1>3, <1>4 DEF Rank

LEMMA RankGrows ==
  ASSUME NEW S, IsFiniteSet(S), NEW R, IsOrder(S, R), NEW x \in S, NEW y \in S,
         <<x, y>> \in R
  PROVE  Rank(S, R, x) < Rank(S, R, y)
<1> DEFINE X == {z \in S : <<z, x>> \in R}
           Y == {z \in S : <<z, y>> \in R}
<1>1. X \subseteq Y /\ x \in Y /\ x \notin X
  BY DEF IsOrder
<1>2. IsFiniteSet(Y) /\ IsFiniteSet(X)
  BY FS_Subset
<1>3. Cardinality(X) <= Cardinality(Y) /\ Cardinality(X) # Cardinality(Y)
  BY <1>1, <1>2, FS_Subset
<1>4. Cardinality(X) \in Nat /\ Cardinality(Y) \in Nat
  BY <1>2, FS_CardinalityType
<1> QED
  BY <1>3, <1>4 DEF Rank

LEMMA RankTells ==
  ASSUME NEW S, IsFiniteSet(S), NEW R, IsOrder(S, R), NEW x \in S, NEW y \in S,
         Rank(S, R, x) = Rank(S, R, y)
  PROVE  x = y
<1>1. Rank(S, R, x) \in Int
  BY RankInRange
<1>2. CASE <<x, y>> \in R
  BY <1>1, <1>2, RankGrows
<1>3. CASE <<y, x>> \in R
  <2>1. Rank(S, R, y) < Rank(S, R, x)
    BY <1>3, RankGrows
  <2> QED
    BY <1>1, <2>1
<1> QED
  BY <1>2, <1>3 DEF IsOrder

\* Every rank below the size of the set is taken.
LEMMA RankTaken ==
  ASSUME NEW S, IsFiniteSet(S), NEW R, IsOrder(S, R), NEW i \in 1..Cardinality(S)
  PROVE  \E x \in S : Rank(S, R, x) = i - 1
<1> DEFINE n == Cardinality(S)
           f == [x \in S |-> Rank(S, R, x) + 1]
<1>1. n \in Nat
  BY FS_CardinalityType
<1>2. IsFiniteSet(1..n) /\ Cardinality(1..n) = n
  BY <1>1, FS_Interval
<1>3. \A x \in S : Rank(S, R, x) + 1 \in 1..n /\ Rank(S, R, x) \in Int
  <2> TAKE x \in S
  <2>1. Rank(S, R, x) \in 0..n - 1
    BY RankInRange
  <2> QED
    BY <1>1, <2>1
<1>4. f \in Injection(S, 1..n)
  <2>1. f \in [S -> 1..n]
    BY <1>3
  <2>2. \A x, y \in S : f[x] = f[y] => x = y
    <3> SUFFICES ASSUME NEW x \in S, NEW y \in S, f[x] = f[y]
                 PROVE  x = y
      OBVIOUS
    <3>1. Rank(S, R, x) = Rank(S, R, y)
      BY <1>3
    <3> QED
      BY <3>1, RankTells
  <2> QED
    BY <2>1, <2>2 DEF Injection, IsInjective
<1> HIDE DEF f
<1>5. f \in Surjection(S, 1..n)
  BY <1>2, <1>4, FS_Injection
<1>6. PICK x \in S : f[x] = i
  BY <1>5 DEF Surjection
<1>7. Rank(S, R, x) + 1 = i
  BY <1>6 DEF f
<1> QED
  BY <1>3, <1>7

-----------------------------------------------------------------------------
(* InOrder.                                                                 *)

LEMMA InOrderFacts ==
  ASSUME NEW S, IsFiniteSet(S), NEW R, IsOrder(S, R)
  PROVE  LET s == InOrder(S, R) IN
         /\ Cardinality(S) \in Nat /\ s \in [1..Cardinality(S) -> S] /\ s \in Seq(S)
         /\ Len(s) = Cardinality(S)
         /\ \A i \in 1..Cardinality(S) : Rank(S, R, s[i]) = i - 1
         /\ \A x \in S : Rank(S, R, x) + 1 \in 1..Cardinality(S) /\ s[Rank(S, R, x) + 1] = x
         /\ \A i, j \in 1..Cardinality(S) : i < j => <<s[i], s[j]>> \in R /\ s[i] # s[j]
<1> DEFINE n == Cardinality(S)
           s == InOrder(S, R)
<1>1. n \in Nat
  BY FS_CardinalityType
<1>2. \A i \in 1..n : s[i] \in S /\ Rank(S, R, s[i]) = i - 1
  BY RankTaken DEF InOrder
<1>3. s \in [1..n -> S]
  BY <1>2 DEF InOrder
<1>4. s \in Seq(S) /\ Len(s) = n
  BY <1>1, <1>3
<1> HIDE DEF s
<1>5. \A x \in S : Rank(S, R, x) + 1 \in 1..n /\ s[Rank(S, R, x) + 1] = x
  <2> TAKE x \in S
  <2>1. Rank(S, R, x) \in 0..n - 1
    BY RankInRange
  <2> DEFINE i == Rank(S, R, x) + 1
  <2>2. i \in 1..n /\ Rank(S, R, x) = i - 1
    BY <1>1, <2>1
  <2>3. s[i] \in S /\ Rank(S, R, s[i]) = Rank(S, R, x)
    BY <1>2, <2>2
  <2>4. s[i] = x
    BY <2>3, RankTells
  <2> QED
    BY <2>2, <2>4
<1>6. \A i, j \in 1..n : i < j => <<s[i], s[j]>> \in R /\ s[i] # s[j]
  <2> SUFFICES ASSUME NEW i \in 1..n, NEW j \in 1..n, i < j
               PROVE  <<s[i], s[j]>> \in R /\ s[i] # s[j]
    OBVIOUS
  <2>1. Rank(S, R, s[i]) = i - 1 /\ Rank(S, R, s[j]) = j - 1 /\ s[i] \in S /\ s[j] \in S
    BY <1>2
  <2>2. s[i] # s[j]
    BY <2>1
  <2>3. <<s[j], s[i]>> \notin R
    <3>1. <<s[j], s[i]>> \in R => j - 1 < i - 1
      BY <2>1, RankGrows
    <3> QED
      BY <3>1
  <2> QED
    BY <2>1, <2>2, <2>3 DEF IsOrder
<1> QED
  BY <1>1, <1>2, <1>3, <1>4, <1>5, <1>6 DEF s

-----------------------------------------------------------------------------
(* Kept.                                                                    *)

LEMMA LessThanIsOrder ==
  ASSUME NEW K \in SUBSET Nat
  PROVE  IsOrder(K, LessThan(K))
BY DEF IsOrder, LessThan

\* Kept gives each place that is kept one of its own, and in their order.
LEMMA KeptFacts ==
  ASSUME NEW T, NEW s \in Seq(T), NEW K \in SUBSET DOMAIN s
  PROVE  /\ Kept(s, K) \in Seq(T)
         /\ \E place \in [DOMAIN Kept(s, K) -> K] :
              /\ \A i \in DOMAIN Kept(s, K) : Kept(s, K)[i] = s[place[i]]
              /\ \A k \in K : \E i \in DOMAIN Kept(s, K) : place[i] = k
              /\ \A i, j \in DOMAIN Kept(s, K) : i < j <=> place[i] < place[j]
<1> DEFINE R == LessThan(K)
           n == Cardinality(K)
           place == InOrder(K, R)
<1>1. K \in SUBSET Nat /\ K \subseteq 1..Len(s) /\ Len(s) \in Nat
  OBVIOUS
<1>2. IsFiniteSet(K)
  <2>1. IsFiniteSet(1..Len(s))
    BY <1>1, FS_Interval
  <2> QED
    BY <1>1, <2>1, FS_Subset
<1>3. IsOrder(K, R)
  BY <1>1, LessThanIsOrder
<1>4. /\ n \in Nat /\ place \in [1..n -> K]
      /\ \A x \in K : Rank(K, R, x) + 1 \in 1..n /\ place[Rank(K, R, x) + 1] = x
      /\ \A i, j \in 1..n : i < j => <<place[i], place[j]>> \in R /\ place[i] # place[j]
  BY <1>2, <1>3, InOrderFacts
<1>5. Kept(s, K) = [i \in 1..n |-> s[place[i]]]
  BY <1>4 DEF Kept
<1> HIDE DEF place, n
<1>6. Kept(s, K) \in Seq(T)
  <2>1. \A i \in 1..n : s[place[i]] \in T
    BY <1>1, <1>4
  <2> QED
    BY <1>4, <1>5, <2>1
<1>7. \A k \in K : \E i \in 1..n : place[i] = k
  BY <1>4
<1>8. \A i, j \in 1..n : i < j <=> place[i] < place[j]
  <2> SUFFICES ASSUME NEW i \in 1..n, NEW j \in 1..n
               PROVE  i < j <=> place[i] < place[j]
    OBVIOUS
  <2>1. \A k, l \in 1..n : k < l => place[k] < place[l]
    BY <1>4 DEF LessThan
  <2>2. place[i] \in Nat /\ place[j] \in Nat
    BY <1>1, <1>4
  <2>3. CASE i < j
    BY <2>1, <2>3
  <2>4. CASE j < i
    <3>1. place[j] < place[i]
      BY <2>1, <2>4
    <3> QED
      BY <2>2, <2>4, <3>1
  <2>5. CASE i = j
    BY <2>2, <2>5
  <2> QED
    BY <2>3, <2>4, <2>5
<1> QED
  BY <1>4, <1>5, <1>6, <1>7, <1>8

-----------------------------------------------------------------------------
(* Steps one after the other.                                               *)

\* A set that has zero and with a number the next one has all up to a bound: induction
\* over the numbers below the bound, for a property that is given as a set.
LEMMA Upwards ==
  ASSUME NEW n \in Nat, NEW G, 0 \in G, \A k \in 1..n : k - 1 \in G => k \in G
  PROVE  0..n \subseteq G
<1> SUFFICES ASSUME ~(0..n \subseteq G) PROVE FALSE
  OBVIOUS
<1> DEFINE T == {k \in 0..n : k \notin G}
<1>1. T \subseteq Nat /\ T # {}
  OBVIOUS
<1>2. PICK m \in T : \A k \in T : <<k, m>> \notin OpToRel(<, Nat)
  BY <1>1, WFMin, NatLessThanWellFounded
<1>3. \A k \in T : ~(k < m)
  BY <1>1, <1>2, Zenon DEF OpToRel
<1>4. m \in 1..n /\ m - 1 \in 0..n /\ m - 1 < m
  OBVIOUS
<1>5. m - 1 \in G
  BY <1>3, <1>4
<1> QED
  BY <1>4, <1>5

\* The steps have a history, what each of them gave, and it ends in what they come to.
IsHistory(h, S, n, start, step) ==
  /\ h \in [0..n -> S]
  /\ h[0] = start /\ \A k \in 1..n : h[k] = step[k][h[k - 1]]

LEMMA IterateFacts ==
  ASSUME NEW S, NEW n \in Nat, NEW start \in S, NEW step \in [1..n -> [S -> S]]
  PROVE  \E h : IsHistory(h, S, n, start, step) /\ h[n] = Iterate(n, start, step)
<1>1. PICK h \in [0..n -> S] : h[0] = start /\ \A k \in 1..n : h[k] = step[k][h[k - 1]]
  <2> DEFINE Good(m) ==
               \E h \in [0..m -> S] : h[0] = start /\ \A k \in 1..m : h[k] = step[k][h[k - 1]]
             G == {m \in 0..n : Good(m)}
  <2>1. Good(0)
    <3> DEFINE h == [k \in 0..0 |-> start]
    <3>1. h \in [0..0 -> S] /\ h[0] = start
      OBVIOUS
    <3>2. 1..0 = {}
      OBVIOUS
    <3> QED
      BY <3>1, <3>2
  <2>2. ASSUME NEW k \in 1..n, Good(k - 1)
        PROVE  Good(k)
    <3>1. PICK h \in [0..k - 1 -> S] :
            h[0] = start /\ \A j \in 1..k - 1 : h[j] = step[j][h[j - 1]]
      BY <2>2
    <3> DEFINE last == step[k][h[k - 1]]
               g == [j \in 0..k |-> IF j = k THEN last ELSE h[j]]
    <3>2. h[k - 1] \in S /\ last \in S
      BY <3>1
    <3>3. \A j \in 0..k : j # k => j \in 0..k - 1 /\ h[j] \in S
      BY <3>1
    <3> HIDE DEF last
    <3>4. g \in [0..k -> S] /\ g[0] = start
      BY <3>1, <3>2, <3>3
    <3>5. \A j \in 1..k : g[j] = step[j][g[j - 1]]
      <4> TAKE j \in 1..k
      <4>1. j - 1 \in 0..k /\ j - 1 # k /\ g[j - 1] = h[j - 1]
        OBVIOUS
      <4>2. CASE j = k
        BY <4>1, <4>2 DEF last
      <4>3. CASE j # k
        <5>1. j \in 1..k - 1 /\ g[j] = h[j]
          BY <4>3
        <5> QED
          BY <3>1, <4>1, <5>1
      <4> QED
        BY <4>2, <4>3
    <3> QED
      BY <3>4, <3>5
  <2> HIDE DEF Good
  <2>3. 0 \in G /\ \A k \in 1..n : k - 1 \in G => k \in G
    BY <2>1, <2>2
  <2> HIDE DEF G
  <2>4. 0..n \subseteq G
    BY <2>3, Upwards
  <2>5. n \in G
    BY <2>4
  <2> QED
    BY <2>5 DEF Good, G
<1> DEFINE after == CHOOSE after :
             after = [k \in 0..n |-> IF k = 0 THEN start ELSE step[k][after[k - 1]]]
<1>2. h = [k \in 0..n |-> IF k = 0 THEN start ELSE step[k][h[k - 1]]]
  BY <1>1
<1>3. after = [k \in 0..n |-> IF k = 0 THEN start ELSE step[k][after[k - 1]]]
  BY <1>2
<1>4. Iterate(n, start, step) = after[n]
  BY DEF Iterate
<1> HIDE DEF after
<1> DEFINE G == {k \in 0..n : after[k] = h[k]}
<1>5. 0 \in G
  BY <1>1, <1>3
<1>6. ASSUME NEW k \in 1..n, k - 1 \in G
      PROVE  k \in G
  <2>1. after[k] = step[k][after[k - 1]]
    BY <1>3
  <2> QED
    BY <1>1, <1>6, <2>1
<1> HIDE DEF G
<1>7. 0..n \subseteq G
  BY <1>5, <1>6, Upwards
<1>8. n \in G
  BY <1>7
<1> QED
  BY <1>1, <1>4, <1>8 DEF G, IsHistory

-----------------------------------------------------------------------------
(* Sums.                                                                    *)

OneOf(S) == CHOOSE x \in S : TRUE

\* Of every part of C, what its elements weigh together.
IsSum(sum, weight, C) ==
  sum = [S \in SUBSET C |->
           IF S = {} THEN 0 ELSE weight[OneOf(S)] + sum[S \ {OneOf(S)}]]

LEMMA PartFacts ==
  ASSUME NEW C, IsFiniteSet(C), NEW S \in SUBSET C
  PROVE  /\ Cardinality(C) \in Nat /\ Cardinality(S) \in 0..Cardinality(C)
         /\ S = {} <=> Cardinality(S) = 0
         /\ S # {} => /\ OneOf(S) \in S /\ S \ {OneOf(S)} \in SUBSET C
                      /\ Cardinality(S \ {OneOf(S)}) = Cardinality(S) - 1
<1>1. IsFiniteSet(S) /\ Cardinality(S) <= Cardinality(C)
  BY FS_Subset
<1>2. Cardinality(C) \in Nat /\ Cardinality(S) \in Nat
  BY <1>1, FS_CardinalityType
<1>3. S = {} <=> Cardinality(S) = 0
  BY <1>1, FS_EmptySet
<1>4. ASSUME S # {}
      PROVE  /\ OneOf(S) \in S /\ S \ {OneOf(S)} \in SUBSET C
             /\ Cardinality(S \ {OneOf(S)}) = Cardinality(S) - 1
  <2>1. OneOf(S) \in S
    BY <1>4 DEF OneOf
  <2>2. Cardinality(S \ {OneOf(S)}) = Cardinality(S) - 1
    BY <1>1, <2>1, FS_RemoveElement
  <2> QED
    BY <2>1, <2>2
<1> QED
  BY <1>1, <1>2, <1>3, <1>4

LEMMA SumExists ==
  ASSUME NEW C, IsFiniteSet(C), NEW weight \in [C -> Nat]
  PROVE  \E sum : IsSum(sum, weight, C)
<1> DEFINE n == Cardinality(C)
           P == SUBSET C
           F == [P -> Nat]
           Heavier(f) == [S \in P |-> IF S = {} THEN 0 ELSE weight[OneOf(S)] + f[S \ {OneOf(S)}]]
           start == [S \in P |-> 0]
           step == [k \in 1..n |-> [f \in F |-> Heavier(f)]]
<1>1. n \in Nat
  BY FS_CardinalityType
<1>2. start \in F
  OBVIOUS
<1>3. \A f \in F : Heavier(f) \in F
  <2> SUFFICES ASSUME NEW f \in F, NEW S \in P, S # {}
               PROVE  weight[OneOf(S)] + f[S \ {OneOf(S)}] \in Nat
    OBVIOUS
  <2>1. OneOf(S) \in C /\ S \ {OneOf(S)} \in P
    BY PartFacts
  <2> QED
    BY <2>1
<1>4. step \in [1..n -> [F -> F]] /\ \A k \in 1..n : \A f \in F : step[k][f] = Heavier(f)
  <2> HIDE DEF Heavier, F
  <2> QED
    BY <1>3
<1> HIDE DEF step, start, n
<1>5. PICK h : IsHistory(h, F, n, start, step)
  <2> HIDE DEF F, P, Heavier
  <2> QED
    BY <1>1, <1>2, <1>4, IterateFacts
<1>6. h \in [0..n -> F] /\ h[0] = start /\ \A k \in 1..n : h[k] = step[k][h[k - 1]]
  BY <1>5 DEF IsHistory
<1>7. \A k \in 1..n : h[k] = Heavier(h[k - 1])
  <2> HIDE DEF Heavier, F
  <2> TAKE k \in 1..n
  <2>1. k - 1 \in 0..n
    BY <1>1
  <2> QED
    BY <1>4, <1>6, <2>1
<1> DEFINE sum == [S \in P |-> h[Cardinality(S)][S]]
<1>8. ASSUME NEW S \in P
      PROVE  sum[S] = IF S = {} THEN 0 ELSE weight[OneOf(S)] + sum[S \ {OneOf(S)}]
  <2>1. CASE S = {}
    <3>1. Cardinality(S) = 0
      BY <2>1, FS_EmptySet
    <3> QED
      BY <1>6, <2>1, <3>1 DEF start
  <2>2. CASE S # {}
    <3> DEFINE m == Cardinality(S)
    <3>1. /\ m \in 1..n /\ S \ {OneOf(S)} \in P
          /\ Cardinality(S \ {OneOf(S)}) = m - 1
      BY <2>2, PartFacts DEF n
    <3> HIDE DEF m
    <3>2. h[m][S] = weight[OneOf(S)] + h[m - 1][S \ {OneOf(S)}]
      BY <1>7, <2>2, <3>1
    <3>3. sum[S] = h[m][S] /\ sum[S \ {OneOf(S)}] = h[m - 1][S \ {OneOf(S)}]
      BY <3>1 DEF m
    <3> QED
      BY <2>2, <3>2, <3>3
  <2> QED
    BY <2>1, <2>2
<1>9. sum = [S \in P |-> sum[S]]
  OBVIOUS
<1> HIDE DEF sum
<1>10. IsSum(sum, weight, C)
  BY <1>8, <1>9 DEF IsSum
<1> QED
  BY <1>10

\* When one weight changes, the sums that have it change as it does.
LEMMA SumChanges ==
  ASSUME NEW C, IsFiniteSet(C), NEW v \in [C -> Nat], NEW w \in [C -> Nat], NEW c \in C,
         \A x \in C \ {c} : w[x] = v[x],
         NEW s, NEW t, IsSum(s, v, C), IsSum(t, w, C)
  PROVE  s[C] \in Nat /\ t[C] \in Nat /\ t[C] + v[c] = s[C] + w[c]
<1> DEFINE n == Cardinality(C)
           Right(S) == /\ s[S] \in Nat /\ t[S] \in Nat
                       /\ IF c \in S THEN t[S] + v[c] = s[S] + w[c] ELSE t[S] = s[S]
           G == {m \in 0..n : \A S \in SUBSET C : Cardinality(S) = m => Right(S)}
<1>1. n \in Nat
  BY FS_CardinalityType
<1>2. \A S \in SUBSET C :
        /\ s[S] = IF S = {} THEN 0 ELSE v[OneOf(S)] + s[S \ {OneOf(S)}]
        /\ t[S] = IF S = {} THEN 0 ELSE w[OneOf(S)] + t[S \ {OneOf(S)}]
  BY DEF IsSum
<1>3. 0 \in G
  <2> SUFFICES ASSUME NEW S \in SUBSET C, Cardinality(S) = 0
               PROVE  Right(S)
    BY <1>1
  <2>1. S = {}
    BY PartFacts
  <2>2. s[S] = 0 /\ t[S] = 0
    BY <1>2, <2>1
  <2> QED
    BY <2>1, <2>2
<1>4. ASSUME NEW k \in 1..n, k - 1 \in G
      PROVE  k \in G
  <2> SUFFICES ASSUME NEW S \in SUBSET C, Cardinality(S) = k
               PROVE  Right(S)
    BY <1>1
  <2> DEFINE x == OneOf(S)
             R == S \ {x}
  <2>1. S # {} /\ x \in S /\ R \in SUBSET C /\ Cardinality(R) = k - 1
    BY PartFacts
  <2>2. s[S] = v[x] + s[R] /\ t[S] = w[x] + t[R]
    BY <1>2, <2>1
  <2>3. Right(R)
    BY <1>4, <2>1
  <2> HIDE DEF x
  <2>4. /\ s[R] \in Nat /\ t[R] \in Nat
        /\ c \in R => t[R] + v[c] = s[R] + w[c]
        /\ c \notin R => t[R] = s[R]
    BY <2>3
  <2>5. v[x] \in Nat /\ w[x] \in Nat /\ v[c] \in Nat /\ w[c] \in Nat
    BY <2>1
  <2>6. CASE x = c
    <3>1. c \in S /\ c \notin R
      BY <2>1, <2>6
    <3>2. t[R] = s[R]
      BY <2>4, <3>1
    <3> HIDE DEF R
    <3>3. t[S] + v[c] = s[S] + w[c] /\ s[S] \in Nat /\ t[S] \in Nat
      BY <2>2, <2>4, <2>5, <2>6, <3>2
    <3> QED
      BY <3>1, <3>3
  <2>7. CASE x # c
    <3>1. w[x] = v[x] /\ (c \in S <=> c \in R)
      BY <2>1, <2>7
    <3> HIDE DEF R
    <3>2. s[S] \in Nat /\ t[S] \in Nat
      BY <2>2, <2>4, <2>5
    <3>3. CASE c \in R
      <4>1. t[S] + v[c] = s[S] + w[c]
        BY <2>2, <2>4, <2>5, <3>1, <3>3
      <4> QED
        BY <3>1, <3>2, <3>3, <4>1
    <3>4. CASE c \notin R
      <4>1. t[S] = s[S]
        BY <2>2, <2>4, <2>5, <3>1, <3>4
      <4> QED
        BY <3>1, <3>2, <3>4, <4>1
    <3> QED
      BY <3>3, <3>4
  <2> QED
    BY <2>6, <2>7
<1> HIDE DEF G
<1>5. 0..n \subseteq G
  BY <1>1, <1>3, <1>4, Upwards
<1>6. Right(C)
  <2>1. n \in G
    BY <1>1, <1>5
  <2> QED
    BY <2>1 DEF G
<1> QED
  BY <1>6

\* What all elements of C weigh together.
Total(weight, C) == LET sum == CHOOSE sum : IsSum(sum, weight, C) IN sum[C]

LEMMA TotalIsSum ==
  ASSUME NEW C, IsFiniteSet(C), NEW weight \in [C -> Nat]
  PROVE  \E sum : IsSum(sum, weight, C) /\ Total(weight, C) = sum[C]
BY SumExists DEF Total

LEMMA TotalChanges ==
  ASSUME NEW C, IsFiniteSet(C), NEW v \in [C -> Nat], NEW w \in [C -> Nat], NEW c \in C,
         \A x \in C \ {c} : w[x] = v[x]
  PROVE  /\ Total(v, C) \in Nat /\ Total(w, C) \in Nat
         /\ Total(w, C) + v[c] = Total(v, C) + w[c]
<1>1. PICK s : IsSum(s, v, C) /\ Total(v, C) = s[C]
  BY TotalIsSum
<1>2. PICK t : IsSum(t, w, C) /\ Total(w, C) = t[C]
  BY TotalIsSum
<1> QED
  BY <1>1, <1>2, SumChanges

LEMMA TotalOfNothing ==
  ASSUME NEW C, IsFiniteSet(C)
  PROVE  Total([x \in C |-> 0], C) = 0
<1> DEFINE n == Cardinality(C)
           weight == [x \in C |-> 0]
<1>1. PICK sum : IsSum(sum, weight, C) /\ Total(weight, C) = sum[C]
  BY TotalIsSum
<1> DEFINE G == {m \in 0..n : \A S \in SUBSET C : Cardinality(S) = m => sum[S] = 0}
<1>2. n \in Nat
  BY FS_CardinalityType
<1>3. \A S \in SUBSET C :
        sum[S] = IF S = {} THEN 0 ELSE weight[OneOf(S)] + sum[S \ {OneOf(S)}]
  BY <1>1 DEF IsSum
<1>4. 0 \in G
  <2> SUFFICES ASSUME NEW S \in SUBSET C, Cardinality(S) = 0
               PROVE  sum[S] = 0
    BY <1>2
  <2>1. S = {}
    BY PartFacts
  <2> QED
    BY <1>3, <2>1
<1>5. ASSUME NEW k \in 1..n, k - 1 \in G
      PROVE  k \in G
  <2> SUFFICES ASSUME NEW S \in SUBSET C, Cardinality(S) = k
               PROVE  sum[S] = 0
    BY <1>2
  <2>1. /\ S # {} /\ OneOf(S) \in C /\ S \ {OneOf(S)} \in SUBSET C
        /\ Cardinality(S \ {OneOf(S)}) = k - 1
    BY PartFacts
  <2>2. sum[S \ {OneOf(S)}] = 0 /\ weight[OneOf(S)] = 0
    BY <1>5, <2>1
  <2> HIDE DEF weight
  <2>3. sum[S] = weight[OneOf(S)] + sum[S \ {OneOf(S)}]
    BY <1>3, <2>1
  <2> QED
    BY <2>2, <2>3
<1> HIDE DEF G
<1>6. 0..n \subseteq G
  BY <1>2, <1>4, <1>5, Upwards
<1>7. n \in G
  BY <1>2, <1>6
<1> QED
  BY <1>1, <1>7 DEF G
=============================================================================
