----------------------------- MODULE NatRecursion -----------------------------
(***************************************************************************)
(* Induction and recursion over the naturals, in a form the provers can    *)
(* instantiate: the property is a set and the step of the recursion a      *)
(* function, never an operator.  They rest on WFMin, which is stated for   *)
(* sets.                                                                   *)
(***************************************************************************)
EXTENDS Integers, FiniteSets, TLAPS, WellFoundedInduction

\* A set of naturals that is not empty has a least element.
LEMMA LeastNatural ==
  ASSUME NEW T, T \subseteq Nat, T # {}
  PROVE  \E x \in T : \A y \in T : x <= y
  <1> DEFINE R == {p \in Nat \X Nat : p[1] < p[2]}
  <1>1. IsWellFoundedOn(R, Nat)
    BY NatLessThanWellFounded DEF OpToRel
  <1> HIDE DEF R
  <1>2. PICK x \in T : \A y \in T : ~(<<y, x>> \in R)
    BY <1>1, WFMin
  <1>3. \A y \in T : ~(y < x)
    BY <1>2 DEF R
  <1> QED BY <1>3

\* Induction.
LEMMA SetInduction ==
  ASSUME NEW S, 0 \in S, \A n \in Nat : n \in S => n + 1 \in S
  PROVE  \A n \in Nat : n \in S
  <1> DEFINE T == Nat \ S
  <1> SUFFICES ASSUME T # {} PROVE FALSE
    OBVIOUS
  <1>1. T \subseteq Nat
    OBVIOUS
  <1> HIDE DEF T
  <1>2. PICK x \in T : \A y \in T : x <= y
    BY <1>1, LeastNatural
  <1>3. x \in Nat /\ x \notin S /\ x # 0
    BY <1>2 DEF T
  <1>4. x - 1 \in Nat /\ x - 1 \notin T
    BY <1>1, <1>2, <1>3
  <1>5. x - 1 \in S
    BY <1>4 DEF T
  <1>6. (x - 1) + 1 \in S
    BY <1>4, <1>5
  <1> QED BY <1>3, <1>6

\* Iterating a function: the recursive definition has a solution.
LEMMA Iterates ==
  ASSUME NEW S, NEW s \in S, NEW step \in [S -> S]
  PROVE  \E f \in [Nat -> S] : /\ f[0] = s
                               /\ \A k \in Nat : f[k + 1] = step[f[k]]
  <1> DEFINE Upto(n, g) == /\ g \in [0..n -> S]
                           /\ g[0] = s
                           /\ \A k \in 0..n : k < n => g[k + 1] = step[g[k]]
             Solved == {n \in Nat : \E g : Upto(n, g)}
  <1>1. 0 \in Solved
    <2>1. Upto(0, [k \in 0..0 |-> s])
      OBVIOUS
    <2> QED BY <2>1
  <1>2. ASSUME NEW n \in Nat, n \in Solved PROVE n + 1 \in Solved
    <2>1. PICK g : Upto(n, g)
      BY <1>2
    <2> DEFINE g2 == [k \in 0..(n + 1) |-> IF k = n + 1 THEN step[g[n]] ELSE g[k]]
    <2>2. step[g[n]] \in S /\ \A k \in 0..n : g[k] \in S
      BY <2>1
    <2>3. g2 \in [0..(n + 1) -> S]
      BY <2>2
    <2>4. g2[0] = s
      BY <2>1
    <2>5. \A k \in 0..(n + 1) : k < n + 1 => g2[k + 1] = step[g2[k]]
      BY <2>1
    <2>6. Upto(n + 1, g2)
      BY <2>3, <2>4, <2>5
    <2> QED BY <2>6
  <1>3. \A n \in Nat : n \in Solved
    <2> HIDE DEF Solved
    <2> QED BY <1>1, <1>2, SetInduction
  <1>4. ASSUME NEW m \in Nat, NEW n \in Nat, m <= n, NEW a, NEW b, Upto(m, a), Upto(n, b)
        PROVE  \A k \in 0..m : a[k] = b[k]
    <2> DEFINE Same == {k \in Nat : k <= m => a[k] = b[k]}
    <2>1. 0 \in Same
      BY <1>4
    <2>2. ASSUME NEW k \in Nat, k \in Same PROVE k + 1 \in Same
      <3> SUFFICES ASSUME k + 1 <= m PROVE a[k + 1] = b[k + 1]
        OBVIOUS
      <3>1. a[k] = b[k] /\ k \in 0..m /\ k \in 0..n /\ k < m /\ k < n
        BY <1>4, <2>2
      <3> QED BY <1>4, <3>1
    <2>3. \A k \in Nat : k \in Same
      <3> HIDE DEF Same
      <3> QED BY <2>1, <2>2, SetInduction
    <2> QED BY <2>3
  <1> DEFINE G(n) == CHOOSE g : Upto(n, g)
             f == [n \in Nat |-> G(n)[n]]
  <1>5. \A n \in Nat : Upto(n, G(n))
    BY <1>3
  <1> HIDE DEF G
  <1>6. f \in [Nat -> S]
    BY <1>5
  <1>7. f[0] = s
    BY <1>5
  <1>8. ASSUME NEW k \in Nat PROVE f[k + 1] = step[f[k]]
    <2>1. Upto(k, G(k)) /\ Upto(k + 1, G(k + 1)) /\ k <= k + 1 /\ k + 1 \in Nat
      BY <1>5
    <2>2. G(k)[k] = G(k + 1)[k]
      <3> HIDE DEF Upto
      <3> QED BY <1>4, <2>1
    <2>3. G(k + 1)[k + 1] = step[G(k + 1)[k]]
      BY <2>1
    <2> QED BY <2>2, <2>3
  <1> QED BY <1>6, <1>7, <1>8
=============================================================================
