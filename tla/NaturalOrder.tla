---------------------------- MODULE NaturalOrder ----------------------------
(* Least and greatest elements of sets of numbers, induction up to a       *)
(* bound, and recursive functions on intervals, for the proofs.            *)
EXTENDS Integers, TLAPS, WellFoundedInduction

(* A set of naturals that is not empty has a least element. *)
LEMMA LeastElement ==
  ASSUME NEW S, S \subseteq Nat, S # {}
  PROVE  \E x \in S : \A y \in S : x <= y
<1>1. PICK x \in S : \A y \in S : ~(<<y, x>> \in OpToRel(<, Nat))
  BY WFMin, NatLessThanWellFounded
<1>2. ASSUME NEW y \in S PROVE x <= y
  <2>1. ~(<<y, x>> \in OpToRel(<, Nat))
    BY <1>1
  <2>2. <<y, x>> \in Nat \X Nat
    OBVIOUS
  <2>3. ~(y < x)
    BY <2>1, <2>2 DEF OpToRel
  <2>4. x \in Nat /\ y \in Nat
    OBVIOUS
  <2>. QED  BY <2>3, <2>4
<1>. QED  BY <1>2

(* A set of naturals with an upper bound that is not empty has a greatest  *)
(* element.                                                                *)
LEMMA GreatestElement ==
  ASSUME NEW b \in Nat, NEW S, S \subseteq 0 .. b, S # {}
  PROVE  \E x \in S : \A y \in S : y <= x
<1> DEFINE mirrored == {b - x : x \in S}
<1>1. mirrored \subseteq Nat
  <2>1. \A x \in 0 .. b : b - x \in Nat
    OBVIOUS
  <2>. QED  BY <2>1
<1>2. mirrored # {}
  OBVIOUS
<1>3. PICK m \in mirrored : \A n \in mirrored : m <= n
  <2> HIDE DEF mirrored
  <2>. QED  BY <1>1, <1>2, LeastElement
<1>4. PICK x \in S : m = b - x
  OBVIOUS
<1>5. ASSUME NEW y \in S PROVE y <= x
  <2>1. b - x <= b - y
    BY <1>3, <1>4
  <2>2. x \in Int /\ y \in Int
    OBVIOUS
  <2>. QED  BY <2>1, <2>2
<1>. QED  BY <1>5

(* What holds of 0 and passes from each number to the next holds of all.   *)
LEMMA Upwards ==
  ASSUME NEW c \in Nat, NEW S, 0 \in S, \A k \in 1 .. c : k - 1 \in S => k \in S
  PROVE  \A k \in 0 .. c : k \in S
<1> DEFINE bad == {k \in 0 .. c : k \notin S}
<1> SUFFICES ASSUME bad # {} PROVE FALSE
  OBVIOUS
<1>1. PICK k \in bad : \A x \in bad : k <= x
  <2>1. bad \subseteq Nat
    OBVIOUS
  <2> HIDE DEF bad
  <2>. QED  BY <2>1, LeastElement
<1>2. k \in 1 .. c /\ k - 1 \in 0 .. c /\ ~(k <= k - 1)
  BY <1>1
<1>3. k - 1 \in S
  BY <1>1, <1>2
<1>. QED  BY <1>1, <1>2, <1>3

-----------------------------------------------------------------------------
(* Recursive functions on an interval, whose values are in V.              *)

Recursion(h, a, n, v, G) == h = [k \in a .. n |-> IF k = a THEN v ELSE G[<<k, h[k - 1]>>]]

LEMMA RecursionExists ==
  ASSUME NEW a \in Nat, NEW m \in Nat, a <= m, NEW V, NEW v \in V, NEW G \in [(a .. m) \X V -> V]
  PROVE  \E h \in [a .. m -> V] : Recursion(h, a, m, v, G)
<1> DEFINE Begun(n) == \E h \in [a .. n -> V] : Recursion(h, a, n, v, G)
           bad == {n \in a .. m : ~Begun(n)}
<1>1. bad = {}
  <2> SUFFICES ASSUME bad # {} PROVE FALSE
    OBVIOUS
  <2>1. PICK n \in bad : \A x \in bad : n <= x
    <3>1. bad \subseteq Nat
      OBVIOUS
    <3> HIDE DEF bad
    <3>. QED  BY <3>1, LeastElement
  <2>2. n \in a .. m /\ ~Begun(n)
    BY <2>1
  <2>3. CASE n = a
    <3> DEFINE h == [k \in a .. a |-> v]
    <3>1. h \in [a .. a -> V] /\ h = [k \in a .. a |-> IF k = a THEN v ELSE G[<<k, h[k - 1]>>]]
      OBVIOUS
    <3> HIDE DEF h
    <3>. QED  BY <2>2, <2>3, <3>1 DEF Recursion
  <2>4. CASE n # a
    <3>1. n - 1 \in a .. m /\ ~(n <= n - 1)
      BY <2>2, <2>4
    <3>2. Begun(n - 1)
      BY <2>1, <3>1
    <3>3. PICK h \in [a .. n - 1 -> V] : Recursion(h, a, n - 1, v, G)
      BY <3>2
    <3> DEFINE g == [k \in a .. n |-> IF k = n THEN G[<<n, h[n - 1]>>] ELSE h[k]]
    <3>4. \A k \in a .. n - 1 : h[k] = IF k = a THEN v ELSE G[<<k, h[k - 1]>>]
      BY <3>3 DEF Recursion
    <3>5. g \in [a .. n -> V]
      <4>1. G[<<n, h[n - 1]>>] \in V
        BY <2>2, <2>4, <3>1
      <4>2. \A k \in a .. n : k # n => h[k] \in V
        BY <2>2
      <4>. QED  BY <4>1, <4>2
    <3>6. ASSUME NEW k \in a .. n PROVE g[k] = IF k = a THEN v ELSE G[<<k, g[k - 1]>>]
      <4>1. k # a => k - 1 \in a .. n /\ k - 1 # n
        BY <2>2
      <4>2. k # a => g[k - 1] = h[k - 1]
        BY <4>1
      <4>3. CASE k = n
        BY <2>4, <4>2, <4>3
      <4>4. CASE k # n
        <5>1. k \in a .. n - 1
          BY <2>2, <4>4
        <5>2. g[k] = h[k]
          BY <4>4
        <5> HIDE DEF g
        <5>. QED  BY <3>4, <4>2, <5>1, <5>2
      <4>. QED  BY <4>3, <4>4
    <3> HIDE DEF g
    <3>7. g = [k \in a .. n |-> IF k = a THEN v ELSE G[<<k, g[k - 1]>>]]
      BY <3>5, <3>6
    <3>. QED  BY <2>2, <3>5, <3>7 DEF Recursion
  <2>. QED  BY <2>3, <2>4
<1>. QED  BY <1>1

=============================================================================
