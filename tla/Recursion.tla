------------------------------- MODULE Recursion -------------------------------
(***************************************************************************)
(* Lemmas on functions that a module defines by recursion over Nat, for    *)
(* the proofs of the modules that walk a tree or a map.  Induction is over *)
(* a set of numbers, and rests on < being well-founded.                    *)
(***************************************************************************)
EXTENDS Integers, FiniteSets, FiniteSetTheorems, WellFoundedInduction, TLAPS

Less == OpToRel(<, Nat)

\* Less is the order of the numbers, as a set of pairs.
LEMMA LessPair == \A x, y \in Nat : <<x, y>> \in Less <=> x < y
BY DEF Less, OpToRel

\* A set of numbers that is not empty has a smallest one ...
LEMMA Smallest ==
  ASSUME NEW T \in SUBSET Nat, T # {}
  PROVE  \E m \in T : \A k \in T : m <= k
<1>1. IsWellFoundedOn(Less, Nat)
  BY NatLessThanWellFounded, Zenon DEF Less
<1>2. PICK m \in T : \A k \in T : ~ (<<k, m>> \in Less)
  BY <1>1, WFMin
<1>3. ASSUME NEW k \in T PROVE ~ (k < m)
  <2>1. k \in Nat /\ m \in Nat
    OBVIOUS
  <2> QED BY <1>2, <2>1, LessPair
<1>4. ASSUME NEW k \in T PROVE m <= k
  <2>1. k \in Nat /\ m \in Nat
    OBVIOUS
  <2> QED BY <1>3, <2>1
<1> QED BY <1>4

\* ... and, if it is bounded, a largest one.
LEMMA Largest ==
  ASSUME NEW T \in SUBSET Nat, NEW b \in Nat, \A k \in T : k <= b, T # {}
  PROVE  \E m \in T : \A k \in T : k <= m
<1> DEFINE U == {n \in Nat : \A k \in T : k <= n}
<1>1. U \in SUBSET Nat /\ b \in U
  OBVIOUS
<1>2. PICK m \in U : \A k \in U : m <= k
  BY <1>1, Smallest
<1>3. m \in Nat /\ \A k \in T : k <= m
  OBVIOUS
<1>4. ASSUME m \notin T PROVE FALSE
  <2>1. \A k \in T : k < m /\ k \in Nat
    BY <1>3, <1>4
  <2>2. m - 1 \in Nat /\ m - 1 < m
    <3>1. PICK k \in T : k < m /\ k \in Nat
      BY <2>1
    <3> QED BY <1>3, <3>1
  <2>3. m - 1 \in U
    BY <1>3, <2>1, <2>2
  <2> QED BY <1>2, <1>3, <2>2, <2>3
<1> QED BY <1>3, <1>4

\* Induction: a set with 0 and with the successor of each number has them all.
LEMMA SetInduction ==
  ASSUME NEW S, 0 \in S, \A n \in Nat : n \in S => n + 1 \in S
  PROVE  Nat \subseteq S
<1> SUFFICES ASSUME NEW x \in Nat, x \notin S PROVE FALSE
  OBVIOUS
<1>1. PICK m \in {n \in Nat : n \notin S} : \A k \in {n \in Nat : n \notin S} : m <= k
  <2>1. {n \in Nat : n \notin S} \in SUBSET Nat /\ {n \in Nat : n \notin S} # {}
    OBVIOUS
  <2> QED BY <2>1, Smallest
<1>2. m # 0 /\ m \in Nat /\ m \notin S
  BY <1>1
<1>3. m - 1 \in Nat /\ m - 1 \in S
  BY <1>1, <1>2
<1>4. (m - 1) + 1 \in S
  BY <1>3
<1> QED BY <1>2, <1>4

\* A function defined by iterating step from start exists.
LEMMA Iteration ==
  ASSUME NEW T, NEW start \in T, NEW step \in [T -> T]
  PROVE  \E g \in [Nat -> T] : /\ g[0] = start
                              /\ \A n \in Nat : g[n + 1] = step[g[n]]
<1> DEFINE Prefix(f, n) == /\ f \in [0..n -> T]
                           /\ f[0] = start
                           /\ \A k \in 0..(n - 1) : f[k + 1] = step[f[k]]
<1>1. \A n \in Nat : \E f : Prefix(f, n)
  <2> DEFINE S == {n \in Nat : \E f : Prefix(f, n)}
  <2>1. 0 \in S
    <3>1. Prefix([k \in 0..0 |-> start], 0)
      OBVIOUS
    <3> QED BY <3>1
  <2>2. ASSUME NEW n \in Nat, n \in S PROVE n + 1 \in S
    <3>1. PICK f : Prefix(f, n)
      BY <2>2
    <3> DEFINE h == [k \in 0..(n + 1) |-> IF k = n + 1 THEN step[f[n]] ELSE f[k]]
    <3>2. h \in [0..(n + 1) -> T]
      BY <3>1
    <3>3. h[0] = start
      BY <3>1
    <3>4. ASSUME NEW k \in 0..n PROVE h[k + 1] = step[h[k]]
      BY <3>1
    <3>5. Prefix(h, n + 1)
      BY <3>2, <3>3, <3>4
    <3> QED BY <3>5
  <2> HIDE DEF S
  <2>3. Nat \subseteq S
    BY <2>1, <2>2, SetInduction
  <2> QED BY <2>3 DEF S
<1>2. ASSUME NEW n \in Nat, NEW m \in Nat, NEW f, NEW h, Prefix(f, n), Prefix(h, m)
      PROVE  \A k \in Nat : k <= n /\ k <= m => f[k] = h[k]
  <2> DEFINE S == {k \in Nat : k <= n /\ k <= m => f[k] = h[k]}
  <2>1. 0 \in S
    BY <1>2
  <2>2. ASSUME NEW k \in Nat, k \in S PROVE k + 1 \in S
    <3>1. CASE k + 1 <= n /\ k + 1 <= m
      <4>1. k \in 0..(n - 1) /\ k \in 0..(m - 1) /\ f[k] = h[k]
        BY <2>2, <3>1
      <4> QED BY <1>2, <4>1
    <3> QED BY <3>1
  <2> HIDE DEF S
  <2>3. Nat \subseteq S
    BY <2>1, <2>2, SetInduction
  <2> QED BY <2>3 DEF S
<1> DEFINE pre == [n \in Nat |-> CHOOSE f : Prefix(f, n)]
           g == [n \in Nat |-> pre[n][n]]
<1>3. \A n \in Nat : Prefix(pre[n], n)
  BY <1>1
<1> HIDE DEF pre
<1>4. g \in [Nat -> T] /\ g[0] = start
  BY <1>3
<1>5. ASSUME NEW n \in Nat PROVE g[n + 1] = step[g[n]]
  <2>1. Prefix(pre[n + 1], n + 1) /\ Prefix(pre[n], n)
    BY <1>3
  <2>2. pre[n + 1][n + 1] = step[pre[n + 1][n]]
    BY <2>1
  <2> HIDE DEF Prefix
  <2>3. pre[n + 1][n] = pre[n][n]
    BY <1>2, <2>1
  <2> QED BY <2>2, <2>3
<1> QED BY <1>4, <1>5

\* A chain of subsets of a finite set that stops growing once it pauses has
\* stopped after as many steps as the set has elements.
LEMMA Saturation ==
  ASSUME NEW F, IsFiniteSet(F), NEW D \in [Nat -> SUBSET F],
         \A n \in Nat : D[n] \subseteq D[n + 1],
         \A n \in Nat : D[n + 1] = D[n] => D[(n + 1) + 1] = D[n + 1]
  PROVE  /\ Cardinality(F) \in Nat
         /\ D[0] \subseteq D[Cardinality(F)]
         /\ D[Cardinality(F) + 1] = D[Cardinality(F)]
<1> DEFINE N == Cardinality(F)
<1>1. N \in Nat
  BY FS_CardinalityType
<1>2. ASSUME NEW n \in Nat
      PROVE  /\ IsFiniteSet(D[n])
             /\ Cardinality(D[n]) \in Nat
             /\ Cardinality(D[n]) <= N
             /\ Cardinality(D[n]) = N => D[n] = F
  <2>1. PICK T \in SUBSET F : T = D[n]
    OBVIOUS
  <2>2. IsFiniteSet(T) /\ Cardinality(T) <= N /\ (Cardinality(F) = Cardinality(T) => F = T)
    BY FS_Subset
  <2>3. Cardinality(T) \in Nat
    BY <2>2, FS_CardinalityType
  <2> QED BY <2>1, <2>2, <2>3
<1> DEFINE S == {n \in Nat : D[n + 1] = D[n] \/ Cardinality(D[n]) >= n}
<1>3. 0 \in S
  BY <1>2
<1>4. ASSUME NEW n \in Nat, n \in S PROVE n + 1 \in S
  <2>1. CASE D[n + 1] = D[n]
    BY <2>1
  <2>2. CASE D[n + 1] # D[n] /\ Cardinality(D[n]) >= n
    <3>1. n + 1 \in Nat /\ D[n] \in SUBSET D[n + 1]
      OBVIOUS
    <3>2. /\ Cardinality(D[n]) <= Cardinality(D[n + 1])
          /\ Cardinality(D[n]) # Cardinality(D[n + 1])
      <4>1. IsFiniteSet(D[n + 1])
        BY <1>2, <3>1
      <4>2. PICK T \in SUBSET D[n + 1] : T = D[n]
        BY <3>1
      <4>3. /\ Cardinality(T) <= Cardinality(D[n + 1])
            /\ Cardinality(D[n + 1]) = Cardinality(T) => D[n + 1] = T
        BY <4>1, FS_Subset
      <4> QED BY <2>2, <4>2, <4>3
    <3>3. Cardinality(D[n]) \in Nat /\ Cardinality(D[n + 1]) \in Nat
      BY <1>2, <3>1
    <3>4. Cardinality(D[n + 1]) >= n + 1
      BY <2>2, <3>2, <3>3
    <3> QED BY <3>1, <3>4
  <2> QED BY <1>4, <2>1, <2>2
<1> HIDE DEF S
<1>5. Nat \subseteq S
  BY <1>3, <1>4, SetInduction
<1>6. D[N + 1] = D[N]
  <2>1. D[N + 1] = D[N] \/ Cardinality(D[N]) >= N
    BY <1>1, <1>5 DEF S
  <2>2. CASE Cardinality(D[N]) >= N
    <3>0. Cardinality(D[N]) \in Nat /\ Cardinality(D[N]) <= N
      BY <1>1, <1>2
    <3>1. Cardinality(D[N]) = N
      <4> HIDE DEF N
      <4> QED BY <1>1, <2>2, <3>0
    <3>2. D[N] = F /\ D[N + 1] \subseteq F /\ D[N] \subseteq D[N + 1]
      BY <1>1, <1>2, <3>1
    <3> QED BY <3>2
  <2> QED BY <2>1, <2>2
<1> DEFINE R == {n \in Nat : D[0] \subseteq D[n]}
<1>7. Nat \subseteq R
  <2>1. 0 \in R
    OBVIOUS
  <2>2. ASSUME NEW n \in Nat, n \in R PROVE n + 1 \in R
    BY <2>2
  <2> HIDE DEF R
  <2> QED BY <2>1, <2>2, SetInduction
<1> QED BY <1>1, <1>6, <1>7
================================================================================
