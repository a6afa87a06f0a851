------------------------------ MODULE Counting ------------------------------
(* What the other proofs need of the natural numbers: least and greatest    *)
(* elements, a form of induction, and functions defined by recursion.  The  *)
(* induction is over membership in a set, and the recursion over a function *)
(* of a number and a value, which the provers can instantiate.              *)
EXTENDS Integers, WellFoundedInduction, TLAPS

\* A set of numbers has a least element, and in an interval a greatest.
LEMMA LeastOfSet ==
  ASSUME NEW S \in SUBSET Nat, S # {}
  PROVE  \E m \in S : \A k \in S : m <= k
<1> DEFINE R == OpToRel(<, Nat)
<1>1. IsWellFoundedOn(R, Nat) BY NatLessThanWellFounded
<1>2. ASSUME NEW k \in Nat, NEW m \in Nat, k < m PROVE <<k, m>> \in R
  <2>1. <<k, m>> \in Nat \X Nat /\ <<k, m>>[1] < <<k, m>>[2] BY <1>2
  <2>2. QED BY <2>1 DEF OpToRel
<1> HIDE DEF R
<1>3. PICK m \in S : \A k \in S : ~(<<k, m>> \in R) BY <1>1, WFMin
<1>4. ASSUME NEW k \in S PROVE m <= k
  <2>1. ~(k < m) BY <1>2, <1>3
  <2>2. QED BY <2>1
<1>5. QED BY <1>3, <1>4

LEMMA GreatestOfSet ==
  ASSUME NEW n \in Nat, NEW S \in SUBSET (1..n), S # {}
  PROVE  \E m \in S : \A k \in S : k <= m
<1> DEFINE T == {n - x : x \in S}
<1>1. \A x \in S : n - x \in Nat /\ n - x \in T OBVIOUS
<1>2. PICK m \in T : \A y \in T : m <= y
  <2>1. T \in SUBSET Nat BY <1>1
  <2>2. T # {} BY <1>1
  <2> HIDE DEF T
  <2>3. QED BY <2>1, <2>2, LeastOfSet
<1>3. PICK x \in S : m = n - x BY <1>2
<1>4. \A y \in S : n - x <= n - y BY <1>2, <1>3
<1>5. \A y \in S : y <= x BY <1>4
<1>6. QED BY <1>5

\* A set of numbers that has the first of an interval, and with each the next,
\* has them all.
LEMMA Onward ==
  ASSUME NEW N \in Nat, NEW S, 0 \in S, \A n \in 0..(N - 1) : n \in S => n + 1 \in S
  PROVE  \A n \in 0..N : n \in S
<1> SUFFICES ASSUME (0..N) \ S # {} PROVE FALSE OBVIOUS
<1>1. PICK m \in (0..N) \ S : \A k \in (0..N) \ S : m <= k
  <2>1. (0..N) \ S \in SUBSET Nat OBVIOUS
  <2>2. QED BY <2>1, LeastOfSet
<1>2. m # 0 OBVIOUS
<1>3. m - 1 \in 0..(N - 1) /\ m - 1 \notin (0..N) \ S BY <1>1, <1>2
<1>4. m - 1 \in S BY <1>3
<1>5. (m - 1) + 1 \in S BY <1>3, <1>4
<1>6. QED BY <1>5

\* A function of 0..N that is x at 0, and at n what F makes of n and the value
\* before it.
Recursion(c, N, x, F) ==
  c = [n \in 0..N |-> IF n = 0 THEN x ELSE F[<<n, c[n - 1]>>]]

LEMMA RecursionExists ==
  ASSUME NEW N \in Nat, NEW X, NEW x \in X, NEW F \in [(1..N) \X X -> X]
  PROVE  \E c \in [0..N -> X] : Recursion(c, N, x, F)
<1> DEFINE Body(c, m) == IF m = 0 THEN x ELSE F[<<m, c[m - 1]>>]
           Is(c, n) == c \in [0..n -> X] /\ \A m \in 0..n : c[m] = Body(c, m)
           Reached == {n \in 0..N : \E c : Is(c, n)}
<1>1. 0 \in Reached
  <2>1. Is([m \in 0..0 |-> x], 0) /\ 0 \in 0..N OBVIOUS
  <2> HIDE DEF Is
  <2>2. QED BY <2>1
<1>2. ASSUME NEW n \in 0..(N - 1), n \in Reached PROVE n + 1 \in Reached
  <2>1. PICK c : Is(c, n) BY <1>2
  <2> DEFINE d == [m \in 0..(n + 1) |-> IF m = n + 1 THEN F[<<n + 1, c[n]>>] ELSE c[m]]
  <2>2. c[n] \in X /\ n + 1 \in 1..N BY <2>1
  <2>3. F[<<n + 1, c[n]>>] \in X BY <2>2
  <2>4. \A m \in 0..(n + 1) : m = n + 1 \/ m \in 0..n OBVIOUS
  <2>5. \A m \in 0..n : d[m] = c[m] /\ c[m] \in X BY <2>1
  <2>6. d[n + 1] = F[<<n + 1, c[n]>>] /\ DOMAIN d = 0..(n + 1) OBVIOUS
  <2>7. d \in [0..(n + 1) -> X] BY <2>3, <2>4, <2>5, <2>6
  <2>8. \A m \in 0..n : m # 0 => m - 1 \in 0..n OBVIOUS
  <2> HIDE DEF d
  <2>9. \A m \in 0..n : d[m] = Body(d, m) BY <2>1, <2>5, <2>8
  <2>10. d[n + 1] = Body(d, n + 1) BY <2>5, <2>6
  <2>11. Is(d, n + 1) BY <2>4, <2>7, <2>9, <2>10
  <2>12. QED BY <2>11
<1> HIDE DEF Reached
<1>3. N \in Reached
  <2>1. \A n \in 0..N : n \in Reached BY <1>1, <1>2, Onward
  <2>2. QED BY <2>1
<1>4. PICK c : Is(c, N) BY <1>3 DEF Reached
<1>5. Recursion(c, N, x, F) BY <1>4 DEF Recursion
<1>6. QED BY <1>4, <1>5
=============================================================================
