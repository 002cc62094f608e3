----------------------------- MODULE DataInduction -----------------------------
(* Induction over an initial part of the naturals, for sets rather than for  *)
(* predicates: what a recursive function computes is proved with it by       *)
(* taking the set of the levels at which it computes the right thing.        *)
EXTENDS Integers, TLAPS, WellFoundedInduction

\* A set of naturals that is not empty has a least element.
LEMMA LeastElement ==
    ASSUME NEW T, T \subseteq Nat, T # {}
    PROVE  \E x \in T : \A y \in T : x <= y
  <1> DEFINE R == OpToRel(<, Nat)
  <1>1. IsWellFoundedOn(R, Nat)
    BY NatLessThanWellFounded
  <1>2. \A a, b \in Nat : a < b => <<a, b>> \in R
    BY Zenon DEF OpToRel
  <1> HIDE DEF R
  <1>3. PICK x \in T : \A y \in T : <<y, x>> \notin R
    BY <1>1, WFMin
  <1>4. ASSUME NEW y \in T PROVE x <= y
    <2>1. x \in Nat /\ y \in Nat
      OBVIOUS
    <2>2. ~(y < x)
      BY <1>2, <1>3, <2>1
    <2> QED  BY <2>1, <2>2
  <1> QED  BY <1>3, <1>4

\* Induction over 0..n: a set with 0 that is closed under successors.
LEMMA Upward ==
    ASSUME NEW n \in Nat, NEW S, 0 \in S,
           \A i \in 1..n : i - 1 \in S => i \in S
    PROVE  0..n \subseteq S
  <1> DEFINE T == (0..n) \ S
  <1> SUFFICES ASSUME T # {} PROVE FALSE
    OBVIOUS
  <1>1. T \subseteq Nat
    OBVIOUS
  <1>2. PICK x \in T : \A y \in T : x <= y
    <2> HIDE DEF T
    <2> QED  BY <1>1, LeastElement
  <1>3. x \in 1..n /\ x - 1 \in 0..n /\ ~(x <= x - 1)
    BY <1>2
  <1> QED  BY <1>2, <1>3

\* Induction over 0..n from the top.
LEMMA Downward ==
    ASSUME NEW n \in Nat, NEW S, n \in S,
           \A i \in 1..n : i \in S => i - 1 \in S
    PROVE  0..n \subseteq S
  <1> DEFINE D == {i \in 0..n : n - i \in S}
  <1>1. 0 \in D
    OBVIOUS
  <1>2. ASSUME NEW i \in 1..n, i - 1 \in D PROVE i \in D
    <2>1. /\ n - (i - 1) \in 1..n /\ n - (i - 1) - 1 = n - i
          /\ n - (i - 1) \in S
      BY <1>2
    <2> QED  BY <2>1
  <1>3. 0..n \subseteq D
    <2> HIDE DEF D
    <2> QED  BY <1>1, <1>2, Upward
  <1>4. ASSUME NEW i \in 0..n PROVE i \in S
    <2>1. n - i \in 0..n /\ n - (n - i) = i
      OBVIOUS
    <2> QED  BY <1>3, <2>1
  <1> QED  BY <1>4

\* The recursion over 0..n from base, in which step[i] leads to level i.
Iterates(f, n, V, base, step) ==
    /\ f \in [0..n -> V]
    /\ f[0] = base
    /\ \A i \in 1..n : f[i] = step[i][f[i - 1]]

\* Such a recursion has a solution if its steps stay within the set V.
LEMMA IterationExists ==
    ASSUME NEW n \in Nat, NEW V, NEW base \in V, NEW step \in [1..n -> [V -> V]]
    PROVE  \E f : Iterates(f, n, V, base, step)
  <1> DEFINE S == {m \in 0..n : \E f : Iterates(f, m, V, base, step)}
  <1>1. 0 \in S
    <2>1. Iterates([i \in 0..0 |-> base], 0, V, base, step)
      BY DEF Iterates
    <2> QED  BY <2>1
  <1>2. ASSUME NEW m \in 1..n, m - 1 \in S PROVE m \in S
    <2>1. PICK f : Iterates(f, m - 1, V, base, step)
      BY <1>2
    <2> DEFINE g == [i \in 0..m |-> IF i = m THEN step[m][f[m - 1]] ELSE f[i]]
    <2>2. m - 1 \in 0..m - 1 /\ m \in 1..n /\ f[m - 1] \in V
      BY <2>1 DEF Iterates
    <2>3. step[m][f[m - 1]] \in V
      BY <2>2
    <2>4. g \in [0..m -> V] /\ g[0] = base
      BY <2>1, <2>3 DEF Iterates
    <2>5. ASSUME NEW i \in 1..m PROVE g[i] = step[i][g[i - 1]]
      <3>1. i - 1 \in 0..m /\ i - 1 # m /\ g[i - 1] = f[i - 1]
        OBVIOUS
      <3>2. CASE i = m
        BY <3>1, <3>2
      <3>3. CASE i # m
        <4>1. i \in 1..m - 1 /\ g[i] = f[i]
          BY <3>3
        <4> QED  BY <2>1, <3>1, <4>1 DEF Iterates
      <3> QED  BY <3>2, <3>3
    <2>6. Iterates(g, m, V, base, step)
      <3> HIDE DEF g
      <3> QED  BY <2>4, <2>5 DEF Iterates
    <2> QED  BY <2>6
  <1>3. 0..n \subseteq S
    <2> HIDE DEF S
    <2> QED  BY <1>1, <1>2, Upward
  <1> QED  BY <1>3

\* And every solution stays within the set.
LEMMA IterationStays ==
    ASSUME NEW n \in Nat, NEW V, NEW base \in V, NEW step \in [1..n -> [V -> V]],
           NEW f, f = [i \in 0..n |-> f[i]], f[0] = base,
           \A i \in 1..n : f[i - 1] \in V => f[i] = step[i][f[i - 1]]
    PROVE  Iterates(f, n, V, base, step)
  <1> DEFINE S == {i \in 0..n : f[i] \in V}
  <1>1. 0..n \subseteq S
    <2>1. 0 \in S
      OBVIOUS
    <2>2. ASSUME NEW i \in 1..n, i - 1 \in S PROVE i \in S
      <3>1. f[i] = step[i][f[i - 1]] /\ f[i - 1] \in V
        BY <2>2
      <3>2. step[i][f[i - 1]] \in V
        BY <3>1
      <3> QED  BY <3>1, <3>2
    <2> HIDE DEF S
    <2> QED  BY <2>1, <2>2, Upward
  <1>2. \A i \in 1..n : i - 1 \in 0..n
    OBVIOUS
  <1> QED  BY <1>1, <1>2 DEF Iterates
================================================================================
