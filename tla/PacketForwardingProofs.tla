----------------------- MODULE PacketForwardingProofs -----------------------
(***************************************************************************)
(* Where packets get to, for every network, every choice of igraph among   *)
(* shortest paths, and any number of missing or damaged route files.       *)
(*                                                                         *)
(* The argument has two halves. The first is about data: paths and their   *)
(* lengths are functions that recur over the positions of a path, and what *)
(* is needed of them is that a shortest path without its first edge is a   *)
(* shorter way for its second node (NextIsNearer). The second is about     *)
(* time: between updates routes grow old while links of terminals change.  *)
(* ForwardingInv says what stays true: each entry of current tables names  *)
(* a gate of now that leads to the next hop of the record (RoutesOK),      *)
(* because no change of a terminal's link touches gates between routers,   *)
(* and entries of any age name no gate of a wire (EntriesOK), because no   *)
(* timer touches wires. A packet on current routes then gets nearer to its *)
(* destination at every hop, and a set of nodes that shrinks with every    *)
(* hop is empty after as many hops as there are nodes.                     *)
(***************************************************************************)
EXTENDS PacketForwarding, LinkFabricProofs

-----------------------------------------------------------------------------
(* Paths.                                                                  *)

(* Paths along edges that all have a positive weight.                      *)
Weighing(w) == w \in [DOMAIN w -> Nat \ {0}]

Path(p, s, t, w) ==
  /\ p \in [1 .. Len(p) -> Routers] /\ Len(p) \in Nat /\ Len(p) >= 2
  /\ \A i, j \in 1 .. Len(p) : p[i] = p[j] => i = j
  /\ p[1] = s /\ p[Len(p)] = t
  /\ \A i \in 1 .. Len(p) - 1 : {p[i], p[i + 1]} \in DOMAIN w

LEMMA RoutersFinite == IsFiniteSet(Routers) /\ Cardinality(Routers) \in Nat
<1>1. IsFiniteSet(Routers)
  BY FabricAssumption, FS_Subset DEF Nodes
<1>. QED  BY <1>1, FS_CardinalityType

Distinct(p, n) == \A i, j \in 1 .. n : p[i] = p[j] => i = j

LEMMA ToSetCardinality ==
  ASSUME NEW n \in Nat, NEW S, NEW p \in [1 .. n -> S]
  PROVE  Cardinality(ToSet(p)) = n <=> Distinct(p, n)
<1> DEFINE T == ToSet(p)
<1>1. p \in Surjection(1 .. n, T)
  BY DEF ToSet, Surjection
<1>2. IsFiniteSet(1 .. n) /\ Cardinality(1 .. n) = n
  BY FS_Interval
<1> HIDE DEF T
<1>3. Cardinality(T) = Cardinality(1 .. n) <=> p \in Injection(1 .. n, T)
  BY <1>1, <1>2, FS_Surjection
<1>4. p \in Injection(1 .. n, T) <=> Distinct(p, n)
  <2>1. p \in [1 .. n -> T] /\ DOMAIN p = 1 .. n
    BY <1>1 DEF Surjection
  <2>. QED  BY <2>1 DEF Injection, IsInjective, Distinct
<1>. QED  BY <1>2, <1>3, <1>4 DEF T

LEMMA PathsAre ==
  ASSUME NEW s, NEW t, NEW w, NEW p
  PROVE  p \in PathsBetween(s, t, w) <=> Path(p, s, t, w)
<1>1. ASSUME p \in PathsBetween(s, t, w) PROVE Path(p, s, t, w)
  <2>1. PICK n \in 2 .. Cardinality(Routers) : p \in [1 .. n -> Routers]
    BY <1>1 DEF PathsBetween, RouterPaths
  <2>2. n \in Nat /\ n >= 2
    BY RoutersFinite
  <2>3. Len(p) = n
    BY <2>1, <2>2
  <2>4. Cardinality(ToSet(p)) = n
    BY <1>1, <2>3 DEF PathsBetween, RouterPaths
  <2>5. Distinct(p, n)
    BY <2>1, <2>2, <2>4, ToSetCardinality
  <2>. QED  BY <1>1, <2>1, <2>2, <2>3, <2>5 DEF PathsBetween, Path, Last, Distinct
<1>2. ASSUME Path(p, s, t, w) PROVE p \in PathsBetween(s, t, w)
  <2> DEFINE n == Len(p)
  <2>1. n \in Nat /\ n >= 2 /\ p \in [1 .. n -> Routers]
    BY <1>2 DEF Path
  <2>2. Distinct(p, n)
    BY <1>2 DEF Path, Distinct
  <2> HIDE DEF n
  <2>3. Cardinality(ToSet(p)) = n
    BY <2>1, <2>2, ToSetCardinality
  <2>4. n <= Cardinality(Routers)
    <3>1. p \in Injection(1 .. n, Routers)
      BY <2>1, <2>2 DEF Injection, IsInjective, Distinct
    <3>2. Cardinality(1 .. n) = n
      BY <2>1, FS_Interval
    <3>. QED  BY <3>1, <3>2, RoutersFinite, FS_Injection
  <2>5. n \in 2 .. Cardinality(Routers)
    BY <2>1, <2>4, RoutersFinite
  <2>6. p \in UNION {[1 .. k -> Routers] : k \in 2 .. Cardinality(Routers)}
    BY <2>1, <2>5
  <2>. QED  BY <1>2, <2>3, <2>6 DEF PathsBetween, RouterPaths, Path, Last, n
<1>. QED  BY <1>1, <1>2

(* The length of a path up to each of its nodes.                           *)
Measured(p, w, h) ==
  /\ h \in [1 .. Len(p) -> Nat] /\ h[1] = 0 /\ PathLength(p, w) = h[Len(p)]
  /\ \A i \in 2 .. Len(p) : h[i] = h[i - 1] + w[{p[i - 1], p[i]}]

(* A sum that grows by c[i] at i.                                          *)
Summed(h, n, c) == h = [i \in 1 .. n |-> IF i = 1 THEN 0 ELSE h[i - 1] + c[i]]

LEMMA SumExists ==
  ASSUME NEW n \in Nat, 1 <= n, NEW c \in [2 .. n -> Nat]
  PROVE  \E h : Summed(h, n, c)
<1> DEFINE G == [x \in (1 .. n) \X Nat |-> IF x[1] = 1 THEN 0 ELSE x[2] + c[x[1]]]
<1>1. G \in [(1 .. n) \X Nat -> Nat]
  <2> SUFFICES ASSUME NEW x \in (1 .. n) \X Nat
               PROVE  (IF x[1] = 1 THEN 0 ELSE x[2] + c[x[1]]) \in Nat
    OBVIOUS
  <2>1. PICK y \in 1 .. n, z \in Nat : x = <<y, z>>
    OBVIOUS
  <2>2. y # 1 => y \in 2 .. n
    OBVIOUS
  <2>3. y # 1 => c[y] \in Nat
    BY <2>2
  <2>. QED  BY <2>1, <2>3
<1>2. PICK g \in [1 .. n -> Nat] : Recursion(g, 1, n, 0, G)
  <2> HIDE DEF G
  <2>. QED  BY <1>1, RecursionExists
<1>3. \A k \in 1 .. n : g[k] = IF k = 1 THEN 0 ELSE G[<<k, g[k - 1]>>]
  <2> HIDE DEF G
  <2>. QED  BY <1>2 DEF Recursion
<1>4. ASSUME NEW k \in 1 .. n PROVE g[k] = IF k = 1 THEN 0 ELSE g[k - 1] + c[k]
  <2>1. k # 1 => k - 1 \in 1 .. n
    OBVIOUS
  <2>2. k # 1 => g[k - 1] \in Nat
    BY <2>1
  <2>3. ASSUME k # 1 PROVE G[<<k, g[k - 1]>>] = g[k - 1] + c[k]
    BY <2>2, <2>3
  <2> HIDE DEF G
  <2>. QED  BY <1>3, <2>3
<1>5. g = [i \in 1 .. n |-> IF i = 1 THEN 0 ELSE g[i - 1] + c[i]]
  <2> HIDE DEF G
  <2>. QED  BY <1>2, <1>4
<1>. QED  BY <1>5 DEF Summed

LEMMA SumUnfolds ==
  ASSUME NEW n \in Nat, 1 <= n, NEW c \in [2 .. n -> Nat], NEW h, Summed(h, n, c)
  PROVE  /\ h \in [1 .. n -> Nat] /\ h[1] = 0
         /\ \A i \in 2 .. n : h[i] = h[i - 1] + c[i]
<1>1. h[1] = 0
  BY DEF Summed
<1>2. \A i \in 2 .. n : h[i] = h[i - 1] + c[i]
  <2> SUFFICES ASSUME NEW i \in 2 .. n PROVE h[i] = h[i - 1] + c[i]
    OBVIOUS
  <2>1. i \in 1 .. n /\ i # 1
    OBVIOUS
  <2>. QED  BY <2>1 DEF Summed
<1> DEFINE bad == {k \in 1 .. n : h[k] \notin Nat}
<1>3. bad = {}
  <2> SUFFICES ASSUME bad # {} PROVE FALSE
    OBVIOUS
  <2>1. PICK k \in bad : \A x \in bad : k <= x
    <3>1. bad \subseteq Nat
      OBVIOUS
    <3> HIDE DEF bad
    <3>. QED  BY <3>1, LeastElement
  <2>2. k \in 1 .. n /\ h[k] \notin Nat
    BY <2>1
  <2>3. k # 1
    BY <1>1, <2>2
  <2>4. k - 1 \in 1 .. n /\ ~(k <= k - 1) /\ k \in 2 .. n
    BY <2>2, <2>3
  <2>5. h[k - 1] \in Nat
    BY <2>1, <2>4
  <2>6. c[k] \in Nat
    BY <2>4
  <2>. QED  BY <1>2, <2>2, <2>4, <2>5, <2>6
<1>4. DOMAIN h = 1 .. n /\ h = [i \in 1 .. n |-> h[i]]
  BY DEF Summed
<1>. QED  BY <1>1, <1>2, <1>3, <1>4

LEMMA PathLengthUnfolds ==
  ASSUME NEW s, NEW t, NEW w, Weighing(w), NEW p, Path(p, s, t, w)
  PROVE  \E h : Measured(p, w, h)
<1> DEFINE n == Len(p)
           c == [i \in 2 .. n |-> w[{p[i - 1], p[i]}]]
           h == CHOOSE h : h = [i \in 1 .. n |-> IF i = 1 THEN 0 ELSE h[i - 1] + w[{p[i - 1], p[i]}]]
<1>1. n \in Nat /\ 1 <= n
  BY DEF Path
<1>2. PathLength(p, w) = h[n]
  BY DEF PathLength
<1>3. \A i \in 2 .. n : w[{p[i - 1], p[i]}] \in Nat
  <2> SUFFICES ASSUME NEW i \in 2 .. n PROVE w[{p[i - 1], p[i]}] \in Nat
    OBVIOUS
  <2>1. i - 1 \in 1 .. n - 1 /\ (i - 1) + 1 = i
    BY <1>1
  <2>2. {p[i - 1], p[i]} \in DOMAIN w
    BY <2>1 DEF Path
  <2>. QED  BY <2>2 DEF Weighing
<1>4. c \in [2 .. n -> Nat]
  BY <1>3
<1>5. \A g : [i \in 1 .. n |-> IF i = 1 THEN 0 ELSE g[i - 1] + w[{p[i - 1], p[i]}]]
            = [i \in 1 .. n |-> IF i = 1 THEN 0 ELSE g[i - 1] + c[i]]
  <2> SUFFICES ASSUME NEW g, NEW i \in 1 .. n
               PROVE  (IF i = 1 THEN 0 ELSE g[i - 1] + w[{p[i - 1], p[i]}])
                        = (IF i = 1 THEN 0 ELSE g[i - 1] + c[i])
    OBVIOUS
  <2>1. i # 1 => i \in 2 .. n
    BY <1>1
  <2>2. i # 1 => c[i] = w[{p[i - 1], p[i]}]
    BY <2>1
  <2> HIDE DEF c
  <2>. QED  BY <2>2
<1>6. PICK g : g = [i \in 1 .. n |-> IF i = 1 THEN 0 ELSE g[i - 1] + c[i]]
  <2> HIDE DEF n, c
  <2>. QED  BY <1>1, <1>4, SumExists DEF Summed
<1>7. g = [i \in 1 .. n |-> IF i = 1 THEN 0 ELSE g[i - 1] + w[{p[i - 1], p[i]}]]
  <2> HIDE DEF n, c
  <2>. QED  BY <1>5, <1>6, Zenon
<1>8. h = [i \in 1 .. n |-> IF i = 1 THEN 0 ELSE h[i - 1] + w[{p[i - 1], p[i]}]]
  <2> HIDE DEF n, c
  <2>. QED  BY <1>7, Zenon
<1>9. Summed(h, n, c)
  <2> HIDE DEF n, c, h
  <2>. QED  BY <1>5, <1>8, Zenon DEF Summed
<1>10. /\ h \in [1 .. n -> Nat] /\ h[1] = 0
       /\ \A i \in 2 .. n : h[i] = h[i - 1] + c[i]
  <2> HIDE DEF n, c, h
  <2>. QED  BY <1>1, <1>4, <1>9, SumUnfolds
<1>11. \A i \in 2 .. n : h[i] = h[i - 1] + w[{p[i - 1], p[i]}]
  <2>1. \A i \in 2 .. n : c[i] = w[{p[i - 1], p[i]}]
    OBVIOUS
  <2> HIDE DEF n, c, h
  <2>. QED  BY <1>10, <2>1, Zenon
<1> HIDE DEF h, c
<1>12. Measured(p, w, h)
  <2>1. PathLength(p, w) = h[n] /\ h \in [1 .. n -> Nat] /\ h[1] = 0
    BY <1>2, <1>10
  <2>. QED  BY <1>11, <2>1, Zenon DEF Measured
<1>. QED  BY <1>12

LEMMA PathLengthType ==
  ASSUME NEW s, NEW t, NEW w, Weighing(w), NEW p, Path(p, s, t, w)
  PROVE  PathLength(p, w) \in Nat
<1>1. PICK h : Measured(p, w, h)
  BY PathLengthUnfolds
<1>2. Len(p) \in 1 .. Len(p)
  BY DEF Path
<1>. QED  BY <1>1, <1>2 DEF Measured

(* A path without its first node: a way from p[2], cheaper by one edge.    *)
FromSecond(p, q, t, w) ==
  /\ Path(q, p[2], t, w)
  /\ PathLength(p, w) = w[{p[1], p[2]}] + PathLength(q, w)

LEMMA PathTail ==
  ASSUME NEW s, NEW t, NEW w, Weighing(w), NEW p, Path(p, s, t, w), p[2] # t
  PROVE  \E q : FromSecond(p, q, t, w)
<1> DEFINE n == Len(p)
           q == [i \in 1 .. n - 1 |-> p[i + 1]]
<1>1. /\ n \in Nat /\ n >= 2 /\ p \in [1 .. n -> Routers] /\ p[n] = t
      /\ \A i, j \in 1 .. n : p[i] = p[j] => i = j
      /\ \A i \in 1 .. n - 1 : {p[i], p[i + 1]} \in DOMAIN w
  BY DEF Path
<1> HIDE DEF n
<1>2. n >= 3 /\ n - 1 \in Nat
  <2>1. n # 2
    BY <1>1
  <2>. QED  BY <1>1, <2>1
<1>3. q \in [1 .. n - 1 -> Routers] /\ Len(q) = n - 1
  <2>1. \A i \in 1 .. n - 1 : i + 1 \in 1 .. n
    BY <1>1
  <2>2. q \in [1 .. n - 1 -> Routers]
    BY <1>1, <2>1
  <2>. QED  BY <1>2, <2>2
<1>4. \A i \in 1 .. n - 1 : q[i] = p[i + 1]
  OBVIOUS
<1> HIDE DEF q
<1>5. q[1] = p[2] /\ q[n - 1] = t
  <2>1. 1 \in 1 .. n - 1 /\ n - 1 \in 1 .. n - 1 /\ (n - 1) + 1 = n
    BY <1>1, <1>2
  <2>2. q[1] = p[1 + 1] /\ q[n - 1] = p[(n - 1) + 1]
    BY <1>4, <2>1
  <2>. QED  BY <1>1, <2>1, <2>2
<1>6. \A i, j \in 1 .. n - 1 : q[i] = q[j] => i = j
  <2> SUFFICES ASSUME NEW i \in 1 .. n - 1, NEW j \in 1 .. n - 1, q[i] = q[j] PROVE i = j
    OBVIOUS
  <2>1. i + 1 \in 1 .. n /\ j + 1 \in 1 .. n /\ p[i + 1] = p[j + 1]
    BY <1>1, <1>4
  <2>2. i + 1 = j + 1
    BY <1>1, <2>1
  <2>. QED  BY <2>2
<1>7. \A i \in 1 .. (n - 1) - 1 : {q[i], q[i + 1]} \in DOMAIN w
  <2> SUFFICES ASSUME NEW i \in 1 .. (n - 1) - 1 PROVE {q[i], q[i + 1]} \in DOMAIN w
    OBVIOUS
  <2>1. i \in 1 .. n - 1 /\ i + 1 \in 1 .. n - 1
    BY <1>1
  <2>2. q[i] = p[i + 1] /\ q[i + 1] = p[(i + 1) + 1]
    BY <1>4, <2>1
  <2>. QED  BY <1>1, <2>1, <2>2
<1>8. Path(q, p[2], t, w)
  <2> DEFINE m == n - 1
  <2>1. m \in Nat /\ m >= 2
    BY <1>1, <1>2
  <2> HIDE DEF m
  <2>2. /\ q \in [1 .. m -> Routers] /\ Len(q) = m /\ q[1] = p[2] /\ q[m] = t
        /\ \A i, j \in 1 .. m : q[i] = q[j] => i = j
        /\ \A i \in 1 .. m - 1 : {q[i], q[i + 1]} \in DOMAIN w
    BY <1>3, <1>5, <1>6, <1>7 DEF m
  <2>. QED  BY <2>1, <2>2 DEF Path
<1>9. PICK h : Measured(p, w, h)
  BY PathLengthUnfolds
<1>10. PICK g : Measured(q, w, g)
  BY <1>8, PathLengthUnfolds
<1> DEFINE c == w[{p[1], p[2]}]
<1>11. c \in Nat
  <2>1. 1 \in 1 .. n - 1 /\ 1 + 1 = 2
    BY <1>1, <1>2
  <2>2. {p[1], p[2]} \in DOMAIN w
    BY <1>1, <2>1
  <2>. QED  BY <2>2 DEF Weighing
<1>12. /\ h \in [1 .. n -> Nat] /\ h[1] = 0 /\ PathLength(p, w) = h[n]
       /\ \A i \in 2 .. n : h[i] = h[i - 1] + w[{p[i - 1], p[i]}]
  BY <1>9 DEF Measured, n
<1>13. /\ g \in [1 .. n - 1 -> Nat] /\ g[1] = 0 /\ PathLength(q, w) = g[n - 1]
       /\ \A i \in 2 .. n - 1 : g[i] = g[i - 1] + w[{q[i - 1], q[i]}]
  BY <1>3, <1>10 DEF Measured
<1>14. h[2] = c
  <2>1. 2 \in 2 .. n /\ 2 - 1 = 1
    BY <1>1
  <2>2. h[2] = h[1] + w[{p[1], p[2]}]
    BY <1>12, <2>1
  <2> HIDE DEF c
  <2>3. h[2] = 0 + c
    BY <1>12, <2>2 DEF c
  <2>. QED  BY <1>11, <2>3
<1>15. ASSUME NEW i \in 2 .. n - 1 PROVE \E d : h[i + 1] = h[i] + d /\ g[i] = g[i - 1] + d /\ d \in Nat
  <2> DEFINE d == w[{p[i], p[i + 1]}]
  <2>1. i + 1 \in 2 .. n /\ (i + 1) - 1 = i /\ i - 1 \in 1 .. n - 1 /\ (i - 1) + 1 = i /\ i \in 1 .. n - 1
    BY <1>1
  <2>2. q[i - 1] = p[i] /\ q[i] = p[i + 1]
    BY <1>4, <2>1
  <2>3. h[i + 1] = h[(i + 1) - 1] + w[{p[(i + 1) - 1], p[i + 1]}]
    BY <1>12, <2>1
  <2>4. h[i + 1] = h[i] + d
    BY <2>1, <2>3
  <2>5. g[i] = g[i - 1] + d
    BY <1>13, <2>2
  <2>6. {p[i], p[i + 1]} \in DOMAIN w
    BY <1>1, <2>1
  <2>7. d \in Nat
    BY <2>6 DEF Weighing
  <2> HIDE DEF d
  <2>. QED  BY <2>4, <2>5, <2>7
<1> HIDE DEF c
<1>16. \A i \in 1 .. n - 1 : h[i + 1] = c + g[i]
  <2> DEFINE bad == {i \in 1 .. n - 1 : h[i + 1] # c + g[i]}
  <2>1. bad = {}
    <3> SUFFICES ASSUME bad # {} PROVE FALSE
      OBVIOUS
    <3>1. PICK i \in bad : \A x \in bad : i <= x
      <4>1. bad \subseteq Nat
        BY <1>1
      <4> HIDE DEF bad
      <4>. QED  BY <4>1, LeastElement
    <3>2. i \in 1 .. n - 1 /\ h[i + 1] # c + g[i]
      BY <3>1
    <3>3. i # 1
      BY <1>11, <1>13, <1>14, <3>2
    <3>4. i - 1 \in 1 .. n - 1 /\ ~(i <= i - 1) /\ i \in 2 .. n - 1 /\ (i - 1) + 1 = i
      BY <1>1, <3>2, <3>3
    <3>5. h[i] = c + g[i - 1]
      BY <3>1, <3>4
    <3>6. PICK d \in Nat : h[i + 1] = h[i] + d /\ g[i] = g[i - 1] + d
      BY <1>15, <3>4
    <3>7. g[i - 1] \in Nat
      BY <1>13, <3>4
    <3>. QED  BY <1>11, <3>2, <3>5, <3>6, <3>7
  <2>. QED  BY <2>1
<1>17. PathLength(p, w) = c + PathLength(q, w)
  <2>1. n - 1 \in 1 .. n - 1 /\ (n - 1) + 1 = n
    BY <1>1, <1>2
  <2>2. h[(n - 1) + 1] = c + g[n - 1]
    BY <1>16, <2>1
  <2>. QED  BY <1>12, <1>13, <2>1, <2>2
<1>18. FromSecond(p, q, t, w)
  BY <1>8, <1>17 DEF FromSecond, c
<1>. QED  BY <1>18

(* A path of one edge.                                                     *)
LEMMA PathOfOneEdge ==
  ASSUME NEW s, NEW t, NEW w, Weighing(w), NEW p, Path(p, s, t, w), p[2] = t
  PROVE  PathLength(p, w) = w[{p[1], p[2]}]
<1>1. /\ Len(p) \in Nat /\ Len(p) >= 2 /\ p[Len(p)] = t
      /\ \A i, j \in 1 .. Len(p) : p[i] = p[j] => i = j
  BY DEF Path
<1>2. Len(p) = 2
  <2>1. 2 \in 1 .. Len(p) /\ Len(p) \in 1 .. Len(p)
    BY <1>1
  <2>. QED  BY <1>1, <2>1
<1>3. PICK h : Measured(p, w, h)
  BY PathLengthUnfolds
<1>4. h[2] = h[1] + w[{p[1], p[2]}]
  <2>1. 2 \in 2 .. Len(p) /\ 2 - 1 = 1
    BY <1>2
  <2>. QED  BY <1>3, <2>1 DEF Measured
<1>5. w[{p[1], p[2]}] \in Nat
  <2>1. 1 \in 1 .. Len(p) - 1 /\ 1 + 1 = 2
    BY <1>2
  <2>2. {p[1], p[2]} \in DOMAIN w
    BY <2>1 DEF Path
  <2>. QED  BY <2>2 DEF Weighing
<1>6. h[1] = 0 /\ PathLength(p, w) = h[2]
  BY <1>2, <1>3 DEF Measured
<1> DEFINE c == w[{p[1], p[2]}]
<1>7. h[2] = 0 + c /\ c \in Nat
  BY <1>4, <1>5, <1>6
<1> HIDE DEF c
<1>8. PathLength(p, w) = c
  BY <1>6, <1>7
<1>. QED  BY <1>8 DEF c

-----------------------------------------------------------------------------
(* Shortest paths, and how far two routers are apart.                      *)

Cheapest(p, s, t, w) ==
  Path(p, s, t, w) /\ \A q : Path(q, s, t, w) => PathLength(p, w) <= PathLength(q, w)

LEMMA ShortestAre ==
  ASSUME NEW s, NEW t, NEW w, NEW p
  PROVE  p \in Shortest(PathsBetween(s, t, w), w) <=> Cheapest(p, s, t, w)
<1>1. \A q : q \in PathsBetween(s, t, w) <=> Path(q, s, t, w)
  BY PathsAre
<1> HIDE DEF PathsBetween
<1>. QED  BY <1>1, Zenon DEF Shortest, Cheapest

LEMMA CheapestExists ==
  ASSUME NEW s, NEW t, NEW w, Weighing(w), NEW q, Path(q, s, t, w)
  PROVE  \E p : Cheapest(p, s, t, w)
<1> DEFINE lengths == {l \in Nat : \E p : Path(p, s, t, w) /\ l = PathLength(p, w)}
<1>1. \A p : Path(p, s, t, w) => PathLength(p, w) \in lengths
  BY PathLengthType
<1>2. lengths \subseteq Nat /\ lengths # {}
  BY <1>1
<1>3. PICK l \in lengths : \A x \in lengths : l <= x
  <2> HIDE DEF lengths
  <2>. QED  BY <1>2, LeastElement
<1>4. PICK p : Path(p, s, t, w) /\ l = PathLength(p, w)
  BY <1>3
<1>5. Cheapest(p, s, t, w)
  <2> HIDE DEF lengths
  <2>. QED  BY <1>1, <1>3, <1>4 DEF Cheapest
<1>. QED  BY <1>5

Cost(s, t, w)  == IF s = t THEN 0 ELSE PathLength(CHOOSE p : Cheapest(p, s, t, w), w)
Leads(s, t, w) == s = t \/ \E p : Path(p, s, t, w)

LEMMA CostIs ==
  ASSUME NEW s, NEW t, NEW w, Weighing(w), NEW p, Cheapest(p, s, t, w)
  PROVE  s # t /\ Cost(s, t, w) = PathLength(p, w) /\ Cost(s, t, w) \in Nat
<1>1. s # t
  <2>1. Path(p, s, t, w)
    BY DEF Cheapest
  <2>2. 1 \in 1 .. Len(p) /\ Len(p) \in 1 .. Len(p) /\ Len(p) # 1
    BY <2>1 DEF Path
  <2>. QED  BY <2>1, <2>2 DEF Path
<1> DEFINE r == CHOOSE r : Cheapest(r, s, t, w)
<1>2. Cheapest(r, s, t, w)
  BY Zenon
<1> HIDE DEF r
<1>3. Path(r, s, t, w) /\ Path(p, s, t, w)
  BY <1>2 DEF Cheapest
<1>4. PathLength(r, w) \in Nat /\ PathLength(p, w) \in Nat
  BY <1>3, PathLengthType
<1>5. PathLength(r, w) <= PathLength(p, w) /\ PathLength(p, w) <= PathLength(r, w)
  BY <1>2, <1>3 DEF Cheapest
<1>6. Cost(s, t, w) = PathLength(r, w)
  BY <1>1 DEF Cost, r
<1>. QED  BY <1>1, <1>4, <1>5, <1>6

(* The second node of a shortest path is on a shorter one.                 *)
Nearer(s, u, t, w) ==
  /\ s \in Routers /\ u \in Routers /\ {s, u} \in DOMAIN w /\ s # u
  /\ Leads(u, t, w) /\ Cost(u, t, w) \in Nat /\ Cost(s, t, w) \in Nat
  /\ w[{s, u}] \in Nat \ {0} /\ w[{s, u}] + Cost(u, t, w) <= Cost(s, t, w)

LEMMA NextIsNearer ==
  ASSUME NEW s, NEW t, NEW w, Weighing(w), NEW p, Cheapest(p, s, t, w)
  PROVE  Nearer(s, p[2], t, w)
<1> DEFINE u == p[2]
           c == w[{p[1], p[2]}]
<1>1. Path(p, s, t, w)
  BY DEF Cheapest
<1>2. p[1] = s /\ s \in Routers /\ u \in Routers /\ s # u /\ {s, u} \in DOMAIN w
  <2>1. 1 \in 1 .. Len(p) /\ 2 \in 1 .. Len(p) /\ 1 \in 1 .. Len(p) - 1 /\ 1 + 1 = 2 /\ 1 # 2
    BY <1>1 DEF Path
  <2>. QED  BY <1>1, <2>1 DEF Path
<1>3. c \in Nat \ {0}
  BY <1>2 DEF Weighing
<1>4. Cost(s, t, w) = PathLength(p, w) /\ Cost(s, t, w) \in Nat
  BY CostIs
<1>5. Leads(u, t, w) /\ Cost(u, t, w) \in Nat /\ c + Cost(u, t, w) <= Cost(s, t, w)
  <2>1. CASE u = t
    <3>1. PathLength(p, w) = c
      BY <1>1, <2>1, PathOfOneEdge
    <3>2. Cost(u, t, w) = 0
      BY <2>1 DEF Cost
    <3> HIDE DEF c
    <3>. QED  BY <1>3, <1>4, <2>1, <3>1, <3>2 DEF Leads
  <2>2. CASE u # t
    <3>1. PICK q : FromSecond(p, q, t, w)
      BY <1>1, <2>2, PathTail
    <3> HIDE DEF c, u
    <3>2. Path(q, u, t, w) /\ PathLength(p, w) = c + PathLength(q, w)
      BY <3>1 DEF FromSecond, c, u
    <3>3. PICK r : Cheapest(r, u, t, w)
      BY <3>2, CheapestExists
    <3>4. Cost(u, t, w) = PathLength(r, w) /\ Cost(u, t, w) \in Nat
      BY <3>3, CostIs
    <3>5. PathLength(r, w) <= PathLength(q, w) /\ PathLength(q, w) \in Nat
      BY <3>2, <3>3, PathLengthType DEF Cheapest
    <3>6. Leads(u, t, w)
      BY <3>2 DEF Leads
    <3>. QED  BY <1>3, <1>4, <3>2, <3>4, <3>5, <3>6
  <2>. QED  BY <2>1, <2>2
<1>. QED  BY <1>2, <1>3, <1>4, <1>5 DEF Nearer

-----------------------------------------------------------------------------
(* Route records.                                                          *)

(* A path as the set of its numbered nodes.                                *)
Graph(p) == {<<i, p[i]>> : i \in 1 .. Len(p)}

LEMMA PathsFinite ==
  ASSUME NEW s, NEW t, NEW w
  PROVE  IsFiniteSet(PathsBetween(s, t, w))
<1> DEFINE paths == PathsBetween(s, t, w)
           cells == (1 .. Cardinality(Routers)) \X Routers
           graph == [p \in paths |-> Graph(p)]
<1>1. IsFiniteSet(SUBSET cells)
  <2>1. IsFiniteSet(1 .. Cardinality(Routers))
    BY RoutersFinite, FS_Interval
  <2>2. IsFiniteSet(cells)
    BY <2>1, RoutersFinite, FS_Product
  <2>. QED  BY <2>2, FS_SUBSET
<1>2. ASSUME NEW p \in paths
      PROVE  /\ Len(p) \in Nat /\ p \in [1 .. Len(p) -> Routers] /\ Len(p) <= Cardinality(Routers)
  <2>1. Path(p, s, t, w)
    BY PathsAre
  <2>2. p \in RouterPaths
    BY DEF PathsBetween
  <2>3. PICK n \in 2 .. Cardinality(Routers) : p \in [1 .. n -> Routers]
    BY <2>2 DEF RouterPaths
  <2>4. Len(p) = n
    BY <2>3, RoutersFinite
  <2>. QED  BY <2>3, <2>4, RoutersFinite
<1>3. \A p \in paths : Graph(p) \in SUBSET cells
  <2> SUFFICES ASSUME NEW p \in paths, NEW i \in 1 .. Len(p) PROVE <<i, p[i]>> \in cells
    BY DEF Graph
  <2>1. /\ Len(p) \in Nat /\ p \in [1 .. Len(p) -> Routers] /\ Len(p) <= Cardinality(Routers)
    BY <1>2
  <2>2. i \in 1 .. Cardinality(Routers) /\ p[i] \in Routers
    BY <2>1, RoutersFinite
  <2>. QED  BY <2>2
<1>4. ASSUME NEW p \in paths, NEW q \in paths, Graph(p) = Graph(q) PROVE p = q
  <2>1. /\ Len(p) \in Nat /\ p \in [1 .. Len(p) -> Routers]
        /\ Len(q) \in Nat /\ q \in [1 .. Len(q) -> Routers]
    BY <1>2
  <2>2. \A i : i \in 1 .. Len(p) => i \in 1 .. Len(q) /\ p[i] = q[i]
    <3> SUFFICES ASSUME NEW i \in 1 .. Len(p) PROVE i \in 1 .. Len(q) /\ p[i] = q[i]
      OBVIOUS
    <3>1. <<i, p[i]>> \in Graph(q)
      BY <1>4 DEF Graph
    <3>2. PICK j \in 1 .. Len(q) : <<i, p[i]>> = <<j, q[j]>>
      BY <3>1 DEF Graph
    <3>. QED  BY <3>2
  <2>3. \A i : i \in 1 .. Len(q) => i \in 1 .. Len(p)
    <3> SUFFICES ASSUME NEW i \in 1 .. Len(q) PROVE i \in 1 .. Len(p)
      OBVIOUS
    <3>1. <<i, q[i]>> \in Graph(p)
      BY <1>4 DEF Graph
    <3>2. PICK j \in 1 .. Len(p) : <<i, q[i]>> = <<j, p[j]>>
      BY <3>1 DEF Graph
    <3>. QED  BY <3>2
  <2>4. 1 .. Len(p) = 1 .. Len(q)
    BY <2>2, <2>3
  <2> DEFINE D == 1 .. Len(p)
  <2>5. p \in [D -> Routers] /\ q \in [D -> Routers] /\ \A i \in D : p[i] = q[i]
    BY <2>1, <2>2, <2>4
  <2> HIDE DEF D
  <2>. QED  BY <2>5
<1> HIDE DEF cells, paths
<1>5. graph \in Injection(paths, SUBSET cells)
  <2>1. graph \in [paths -> SUBSET cells]
    BY <1>3
  <2>2. IsInjective(graph)
    BY <1>4 DEF IsInjective
  <2>. QED  BY <2>1, <2>2 DEF Injection
<1> HIDE DEF graph
<1>6. IsFiniteSet(paths)
  BY <1>1, <1>5, FS_Injection
<1>. QED  BY <1>6 DEF paths

(* A sequence of all elements of a finite set.                             *)
LEMMA SetToSeqsFacts ==
  ASSUME NEW S, IsFiniteSet(S), NEW q \in SetToSeqs(S)
  PROVE  /\ Cardinality(S) \in Nat /\ q \in [1 .. Cardinality(S) -> S] /\ Len(q) = Cardinality(S)
         /\ S # {} => Cardinality(S) >= 1
         /\ \A x \in S : \E i \in 1 .. Cardinality(S) : q[i] = x
<1> DEFINE n == Cardinality(S)
<1>1. n \in Nat
  BY FS_CardinalityType
<1>2. q \in [1 .. n -> S] /\ \A i, j \in 1 .. n : i # j => q[i] # q[j]
  BY DEF SetToSeqs
<1>3. S # {} => n >= 1
  <2>1. n = 0 <=> S = {}
    BY FS_EmptySet
  <2>. QED  BY <1>1, <2>1
<1> HIDE DEF n
<1>4. q \in Injection(1 .. n, S)
  BY <1>2 DEF Injection, IsInjective
<1>5. Cardinality(1 .. n) = n
  BY <1>1, FS_Interval
<1>6. q \in Surjection(1 .. n, S)
  <2>1. Cardinality(1 .. n) = Cardinality(S)
    BY <1>5 DEF n
  <2>. QED  BY <1>4, <2>1, FS_Injection
<1>7. Len(q) = n
  BY <1>1, <1>2
<1>. QED  BY <1>1, <1>2, <1>3, <1>6, <1>7 DEF n, Surjection

(* The paths found between two routers, best first, when there are any.    *)
Found(list, s, t, w) ==
  \E n \in Nat :
    /\ DOMAIN list = 1 .. n
    /\ \A i \in 1 .. n : Path(list[i], s, t, w)
    /\ numOfKPaths <= 1 => \A i \in 1 .. n : Cheapest(list[i], s, t, w)
    /\ n >= 1 => Cheapest(list[1], s, t, w)
    /\ (\E p : Path(p, s, t, w)) => n >= 1

LEMMA ListsAreFound ==
  ASSUME NEW s, NEW t, NEW w, Weighing(w), NEW list \in PathLists(PathsBetween(s, t, w), w)
  PROVE  Found(list, s, t, w)
<1> DEFINE paths == PathsBetween(s, t, w)
<1>1. \A p : p \in paths <=> Path(p, s, t, w)
  BY PathsAre
<1>2. \A p : p \in Shortest(paths, w) <=> Cheapest(p, s, t, w)
  BY ShortestAre
<1>3. IsFiniteSet(paths)
  BY PathsFinite
<1>4. numOfKPaths \in Nat
  BY ForwardingAssumption
<1> HIDE DEF paths
<1>5. CASE numOfKPaths <= 1
  <2> DEFINE S == Shortest(paths, w)
             n == Cardinality(S)
  <2>1. IsFiniteSet(S)
    <3>1. S \in SUBSET paths
      BY DEF Shortest
    <3>. QED  BY <1>3, <3>1, FS_Subset
  <2>2. list \in SetToSeqs(S)
    BY <1>5 DEF PathLists, paths
  <2> HIDE DEF S
  <2>3. n \in Nat /\ list \in [1 .. n -> S] /\ (S # {} => n >= 1)
    BY <2>1, <2>2, SetToSeqsFacts
  <2>4. (\E p : Path(p, s, t, w)) => S # {}
    BY <1>2, CheapestExists DEF S
  <2> HIDE DEF n
  <2>5. \A i \in 1 .. n : Cheapest(list[i], s, t, w)
    BY <1>2, <2>3 DEF S
  <2>6. n >= 1 => 1 \in 1 .. n
    BY <2>3
  <2>7. \A i \in 1 .. n : Path(list[i], s, t, w)
    BY <2>5 DEF Cheapest
  <2>. QED  BY <2>3, <2>4, <2>5, <2>6, <2>7 DEF Found
<1>6. CASE ~(numOfKPaths <= 1)
  <2> DEFINE n == Cardinality(paths)
             k == Min({numOfKPaths, n})
  <2>1. PICK q \in SetToSeqs(paths) :
          /\ \A i, j \in DOMAIN q : i < j => PathLength(q[i], w) <= PathLength(q[j], w)
          /\ list = SubSeq(q, 1, Min({numOfKPaths, Len(q)}))
    BY <1>6 DEF PathLists, paths
  <2>2. /\ n \in Nat /\ q \in [1 .. n -> paths] /\ Len(q) = n /\ (paths # {} => n >= 1)
        /\ \A x \in paths : \E i \in 1 .. n : q[i] = x
    BY <1>3, SetToSeqsFacts
  <2> HIDE DEF n
  <2>3. k \in Nat /\ k <= n /\ (n >= 1 => k >= 1)
    <3>1. \E x \in {numOfKPaths, n} : \A y \in {numOfKPaths, n} : x <= y
      BY <1>4, <2>2
    <3>2. k \in {numOfKPaths, n} /\ \A y \in {numOfKPaths, n} : k <= y
      BY <3>1 DEF Min
    <3> HIDE DEF k
    <3>. QED  BY <1>4, <1>6, <2>2, <3>2
  <2>4. list = SubSeq(q, 1, k)
    BY <2>1, <2>2
  <2> HIDE DEF k
  <2>5. DOMAIN list = 1 .. k /\ \A i \in 1 .. k : list[i] = q[i] /\ i \in 1 .. n
    <3>1. q \in Seq(paths)
      BY <2>2
    <3>. QED  BY <2>2, <2>3, <2>4, <3>1
  <2>6. \A i \in 1 .. k : Path(list[i], s, t, w)
    BY <1>1, <2>2, <2>5
  <2>7. ASSUME k >= 1 PROVE Cheapest(list[1], s, t, w)
    <3>1. 1 \in 1 .. k /\ 1 \in 1 .. n /\ list[1] = q[1]
      BY <2>3, <2>5, <2>7
    <3>2. Path(q[1], s, t, w)
      BY <2>6, <3>1
    <3>3. ASSUME NEW p, Path(p, s, t, w) PROVE PathLength(q[1], w) <= PathLength(p, w)
      <4>1. PICK i \in 1 .. n : q[i] = p
        BY <1>1, <2>2, <3>3
      <4>2. PathLength(p, w) \in Nat
        BY <3>3, PathLengthType
      <4>3. CASE i = 1
        BY <4>1, <4>2, <4>3
      <4>4. CASE i # 1
        <5>1. 1 < i /\ DOMAIN q = 1 .. n
          BY <2>2, <4>4
        <5>. QED  BY <2>1, <3>1, <4>1, <5>1
      <4>. QED  BY <4>3, <4>4
    <3>. QED  BY <3>1, <3>2, <3>3 DEF Cheapest
  <2>8. (\E p : Path(p, s, t, w)) => k >= 1
    BY <1>1, <2>2, <2>3
  <2>. QED  BY <1>6, <2>3, <2>5, <2>6, <2>7, <2>8 DEF Found
<1>. QED  BY <1>5, <1>6

(* A next hop from s towards t: none only if there is no path, or else the *)
(* second node of a path, of a shortest one where it should be.            *)
HopTowards(hop, s, t, w, best) ==
  \/ hop = Free /\ ~\E p : Path(p, s, t, w)
  \/ \E p : Path(p, s, t, w) /\ hop = p[2] /\ (best => Cheapest(p, s, t, w))

LEMMA PrimaryHopFacts ==
  ASSUME NEW s, NEW t, NEW w, Weighing(w), NEW saving \in BOOLEAN,
         NEW r \in NextHopLists(<<s, t>>, w)
  PROVE  HopTowards(PrimaryHop(saving, r), s, t, w, numOfKPaths <= 1 \/ saving)
<1>1. PICK list \in PathLists(PathsBetween(s, t, w), w) : r = [i \in DOMAIN list |-> list[i][2]]
  BY DEF NextHopLists
<1>2. Found(list, s, t, w)
  BY <1>1, ListsAreFound
<1>3. PICK n \in Nat :
        /\ DOMAIN list = 1 .. n
        /\ \A i \in 1 .. n : Path(list[i], s, t, w)
        /\ numOfKPaths <= 1 => \A i \in 1 .. n : Cheapest(list[i], s, t, w)
        /\ n >= 1 => Cheapest(list[1], s, t, w)
        /\ (\E p : Path(p, s, t, w)) => n >= 1
  BY <1>2 DEF Found
<1>4. DOMAIN r = 1 .. n /\ \A i \in 1 .. n : r[i] = list[i][2]
  BY <1>1, <1>3
<1> DEFINE primary == {i \in DOMAIN r : Rank(saving, i) = 1}
<1>5. PrimaryHop(saving, r) = IF primary = {} THEN Free ELSE r[Max(primary)]
  BY DEF PrimaryHop
<1>6. n >= 1 => 1 \in primary
  BY <1>4 DEF Rank
<1>7. primary \subseteq 1 .. n
  BY <1>4
<1>8. saving /\ ~(numOfKPaths <= 1) => primary \subseteq {1}
  <2>1. numOfKPaths \in Nat
    BY ForwardingAssumption
  <2>. QED  BY <2>1 DEF Rank
<1> HIDE DEF primary
<1>9. CASE primary = {}
  <2>1. ~(n >= 1)
    BY <1>6, <1>9
  <2>. QED  BY <1>3, <1>5, <1>9, <2>1 DEF HopTowards
<1>10. CASE primary # {}
  <2> DEFINE i == Max(primary)
  <2>1. i \in primary
    <3>1. primary \subseteq 0 .. n
      BY <1>7
    <3>2. PICK x \in primary : \A y \in primary : y <= x
      BY <1>10, <3>1, GreatestElement
    <3>3. \A y \in primary : x >= y
      BY <3>1, <3>2
    <3>. QED  BY <3>3 DEF Max
  <2>2. PrimaryHop(saving, r) = r[i]
    BY <1>5, <1>10
  <2> HIDE DEF i
  <2>3. i \in 1 .. n /\ n >= 1
    BY <1>7, <2>1
  <2>4. PrimaryHop(saving, r) = list[i][2] /\ Path(list[i], s, t, w)
    BY <1>3, <1>4, <2>2, <2>3
  <2>5. numOfKPaths <= 1 \/ saving => Cheapest(list[i], s, t, w)
    BY <1>3, <1>8, <2>1, <2>3
  <2>. QED  BY <2>4, <2>5 DEF HopTowards
<1>. QED  BY <1>9, <1>10

(* Every record of a file is one that may be written for its pair.         *)
LEMMA RecordsAreOfPairs ==
  ASSUME NEW links, NEW d, NEW file \in RouteRecords(links, d), NEW pair \in RouterPairs
  PROVE  file[pair] \in NextHopLists(pair, EdgeWeights(links, d))
<1> DEFINE weight == EdgeWeights(links, d)
           n == Len(PairSequence)
           X == (UNION {NextHopLists(x, weight) : x \in RouterPairs}) \union {<<>>}
           files == CHOOSE files : files = [k \in 0 .. n |->
                      IF k = 0 THEN [RouterPairs -> {<<>>}]
                      ELSE WithRecords(files[k - 1], PairSequence[k], weight)]
           G == [x \in (0 .. n) \X SUBSET [RouterPairs -> X] |->
                   IF x[1] = 0 THEN {}
                   ELSE WithRecords(x[2], PairSequence[x[1]], weight)]
<1>1. RouteRecords(links, d) = files[n]
  BY DEF RouteRecords
<1>2. n \in Nat /\ PairSequence \in Seq(RouterPairs) /\ Range(PairSequence) = RouterPairs
  <2>1. IsFiniteSet(Routers \X Routers)
    BY RoutersFinite, FS_Product
  <2>2. IsFiniteSet(RouterPairs)
    <3>1. RouterPairs \in SUBSET (Routers \X Routers)
      BY DEF RouterPairs
    <3>. QED  BY <2>1, <3>1, FS_Subset
  <2>. QED  BY <2>2, SetToSeqFacts DEF PairSequence
<1> HIDE DEF weight, n
<1>3. \A k \in 1 .. n : PairSequence[k] \in RouterPairs
  BY <1>2 DEF n
<1>4. \A x \in RouterPairs : NextHopLists(x, weight) \subseteq X
  OBVIOUS
<1>5. <<>> \in X
  OBVIOUS
<1> HIDE DEF X
<1>6. G \in [(0 .. n) \X SUBSET [RouterPairs -> X] -> SUBSET [RouterPairs -> X]]
  <2>1. ASSUME NEW k \in 0 .. n, NEW F \in SUBSET [RouterPairs -> X], k # 0
        PROVE  WithRecords(F, PairSequence[k], weight) \in SUBSET [RouterPairs -> X]
    <3>1. k \in 1 .. n
      BY <1>2, <2>1
    <3>2. NextHopLists(PairSequence[k], weight) \subseteq X
      BY <1>3, <1>4, <3>1
    <3>3. \A f \in F : \A r \in X : [f EXCEPT ![PairSequence[k]] = r] \in [RouterPairs -> X]
      OBVIOUS
    <3>. QED  BY <3>2, <3>3 DEF WithRecords
  <2> SUFFICES ASSUME NEW x \in (0 .. n) \X SUBSET [RouterPairs -> X]
               PROVE  (IF x[1] = 0 THEN {}
                       ELSE WithRecords(x[2], PairSequence[x[1]], weight))
                        \in SUBSET [RouterPairs -> X]
    OBVIOUS
  <2>2. x[1] \in 0 .. n /\ x[2] \in SUBSET [RouterPairs -> X]
    OBVIOUS
  <2>. QED  BY <2>1, <2>2
<1>7. PICK g \in [0 .. n -> SUBSET [RouterPairs -> X]] :
        Recursion(g, 0, n, [RouterPairs -> {<<>>}], G)
  <2>1. [RouterPairs -> {<<>>}] \in SUBSET [RouterPairs -> X]
    BY <1>5
  <2>2. 0 \in Nat /\ n \in Nat /\ 0 <= n
    BY <1>2
  <2> HIDE DEF G
  <2>. QED  BY <1>6, <2>1, <2>2, RecursionExists
<1>8. \A k \in 0 .. n : g[k] = IF k = 0 THEN [RouterPairs -> {<<>>}] ELSE G[<<k, g[k - 1]>>]
  <2> HIDE DEF G
  <2>. QED  BY <1>7 DEF Recursion
<1>9. ASSUME NEW k \in 0 .. n, k # 0
      PROVE  G[<<k, g[k - 1]>>]
               = WithRecords(g[k - 1], PairSequence[k], weight)
  <2>1. k - 1 \in 0 .. n
    BY <1>2, <1>9
  <2>2. <<k, g[k - 1]>> \in (0 .. n) \X SUBSET [RouterPairs -> X]
    BY <1>7, <2>1
  <2>. QED  BY <1>9, <2>2
<1> HIDE DEF G
<1>10. g = [k \in 0 .. n |->
              IF k = 0 THEN [RouterPairs -> {<<>>}]
              ELSE WithRecords(g[k - 1], PairSequence[k], weight)]
  BY <1>7, <1>8, <1>9
<1>11. files = [k \in 0 .. n |->
              IF k = 0 THEN [RouterPairs -> {<<>>}]
              ELSE WithRecords(files[k - 1], PairSequence[k], weight)]
  BY <1>10, Zenon
<1> HIDE DEF files
<1> DEFINE Right(k, f) == /\ DOMAIN f = RouterPairs
                          /\ \A j \in 1 .. k : f[PairSequence[j]] \in NextHopLists(PairSequence[j], weight)
           bad == {k \in 0 .. n : ~\A f \in files[k] : Right(k, f)}
<1>12. bad = {}
  <2> SUFFICES ASSUME bad # {} PROVE FALSE
    OBVIOUS
  <2>1. PICK k \in bad : \A x \in bad : k <= x
    <3>1. bad \subseteq Nat
      BY <1>2
    <3> HIDE DEF bad
    <3>. QED  BY <3>1, LeastElement
  <2>2. k \in 0 .. n /\ ~\A f \in files[k] : Right(k, f)
    BY <2>1
  <2>3. k # 0
    <3>1. CASE k = 0
      <4>1. files[0] = [RouterPairs -> {<<>>}]
        BY <1>2, <1>11
      <4>2. \A f \in files[0] : Right(0, f)
        BY <4>1
      <4>. QED  BY <2>2, <3>1, <4>2
    <3>. QED  BY <3>1
  <2>4. k - 1 \in 0 .. n /\ ~(k <= k - 1) /\ k \in 1 .. n
    BY <1>2, <2>2, <2>3
  <2>5. \A f \in files[k - 1] : Right(k - 1, f)
    BY <2>1, <2>4
  <2>6. files[k] = WithRecords(files[k - 1], PairSequence[k], weight)
    BY <1>11, <2>2, <2>3
  <2>7. ASSUME NEW e \in files[k] PROVE Right(k, e)
    <3>1. PICK f \in files[k - 1], r \in NextHopLists(PairSequence[k], weight) :
            e = [f EXCEPT ![PairSequence[k]] = r]
      BY <2>6 DEF WithRecords
    <3>2. Right(k - 1, f)
      BY <2>5
    <3>3. PairSequence[k] \in RouterPairs /\ DOMAIN f = RouterPairs /\ DOMAIN e = RouterPairs
      BY <1>3, <2>4, <3>1, <3>2
    <3>4. \A x \in RouterPairs : e[x] = IF x = PairSequence[k] THEN r ELSE f[x]
      BY <3>1, <3>3
    <3>5. ASSUME NEW j \in 1 .. k PROVE e[PairSequence[j]] \in NextHopLists(PairSequence[j], weight)
      <4>1. PairSequence[j] \in RouterPairs
        BY <1>2, <1>3, <2>4
      <4>2. CASE PairSequence[j] = PairSequence[k]
        BY <3>4, <4>1, <4>2
      <4>3. CASE PairSequence[j] # PairSequence[k]
        <5>1. j \in 1 .. k - 1
          BY <2>4, <4>3
        <5>. QED  BY <3>2, <3>4, <4>1, <4>3, <5>1
      <4>. QED  BY <4>2, <4>3
    <3>. QED  BY <3>3, <3>5
  <2>. QED  BY <2>2, <2>7
<1>13. Right(n, file)
  <2>1. n \in 0 .. n
    BY <1>2
  <2>2. file \in files[n]
    BY <1>1
  <2>3. \A f \in files[n] : Right(n, f)
    BY <1>12, <2>1
  <2>. QED  BY <2>2, <2>3
<1>14. PICK j \in 1 .. n : PairSequence[j] = pair
  BY <1>2 DEF Range, n
<1>. QED  BY <1>13, <1>14 DEF weight

-----------------------------------------------------------------------------
(* Weights.                                                                *)

GridSize == Len(InterSatelliteLinks)

LEMMA GridFacts ==
  /\ GridSize \in Nat /\ DOMAIN InterSatelliteLinks = 1 .. GridSize
  /\ \A k \in 1 .. GridSize : /\ InterSatelliteLinks[k] \in Satellites \X Satellites
                              /\ AddressRank(k) \in Nat
<1>1. InterSatelliteLinks \in Seq(Satellites \X Satellites)
  BY FabricAssumption
<1>2. GridSize \in Nat /\ DOMAIN InterSatelliteLinks = 1 .. GridSize
  BY <1>1 DEF GridSize
<1>3. ASSUME NEW k \in 1 .. GridSize PROVE InterSatelliteLinks[k] \in Satellites \X Satellites
  BY <1>1, <1>2
<1>4. ASSUME NEW k \in 1 .. GridSize PROVE AddressRank(k) \in Nat
  <2>1. AddressOrder \in Seq(Satellites) /\ ToSet(AddressOrder) = Satellites
    BY ForwardingAssumption
  <2>2. InterSatelliteLinks[k][1] \in Satellites
    BY <1>3
  <2>3. \E r \in DOMAIN AddressOrder : AddressOrder[r] = InterSatelliteLinks[k][1]
    BY <2>1, <2>2 DEF ToSet
  <2>4. AddressRank(k) \in DOMAIN AddressOrder
    BY <2>3 DEF AddressRank
  <2>5. DOMAIN AddressOrder = 1 .. Len(AddressOrder) /\ Len(AddressOrder) \in Nat
    BY <2>1
  <2>. QED  BY <2>4, <2>5
<1>. QED  BY <1>2, <1>3, <1>4

(* The links that come before the k-th in the map, and that one.           *)
UpToPlace(k) ==
  {j \in 1 .. GridSize : AddressRank(j) < AddressRank(k) \/ (AddressRank(j) = AddressRank(k) /\ j <= k)}

LEMMA PlaceIs ==
  ASSUME NEW k
  PROVE  PlaceInMap(k) = Cardinality(UpToPlace(k))
BY GridFacts DEF PlaceInMap, UpToPlace

LEMMA PlaceGrows ==
  ASSUME NEW j \in 1 .. GridSize, NEW k \in 1 .. GridSize,
         AddressRank(j) < AddressRank(k) \/ (AddressRank(j) = AddressRank(k) /\ j < k)
  PROVE  PlaceInMap(j) < PlaceInMap(k)
<1> DEFINE A == UpToPlace(j)
           B == UpToPlace(k)
<1>1. GridSize \in Nat /\ \A i \in 1 .. GridSize : AddressRank(i) \in Nat
  BY GridFacts
<1>2. A \subseteq B /\ k \in B /\ k \notin A
  BY <1>1 DEF UpToPlace
<1>3. IsFiniteSet(B) /\ IsFiniteSet(A)
  <2>1. IsFiniteSet(1 .. GridSize)
    BY <1>1, FS_Interval
  <2>2. A \in SUBSET (1 .. GridSize) /\ B \in SUBSET (1 .. GridSize)
    BY DEF UpToPlace
  <2>. QED  BY <2>1, <2>2, FS_Subset
<1> HIDE DEF A, B
<1>4. Cardinality(A) \in Nat /\ Cardinality(B) \in Nat
  BY <1>3, FS_CardinalityType
<1>5. Cardinality(A) <= Cardinality(B) /\ Cardinality(A) # Cardinality(B)
  <2>1. A \in SUBSET B /\ A # B
    BY <1>2
  <2>. QED  BY <1>3, <2>1, FS_Subset
<1>6. Cardinality(A) < Cardinality(B)
  BY <1>4, <1>5
<1>. QED  BY <1>6, PlaceIs DEF A, B

LEMMA PlacesFilled ==
  /\ \A k \in 1 .. GridSize : PlaceInMap(k) \in 1 .. GridSize
  /\ \A i \in 1 .. GridSize : \E k \in 1 .. GridSize : PlaceInMap(k) = i
<1> DEFINE place == [k \in 1 .. GridSize |-> PlaceInMap(k)]
<1>1. GridSize \in Nat /\ \A i \in 1 .. GridSize : AddressRank(i) \in Nat
  BY GridFacts
<1>2. IsFiniteSet(1 .. GridSize) /\ Cardinality(1 .. GridSize) = GridSize
  BY <1>1, FS_Interval
<1>3. ASSUME NEW k \in 1 .. GridSize PROVE PlaceInMap(k) \in 1 .. GridSize
  <2> DEFINE B == UpToPlace(k)
  <2>1. B \in SUBSET (1 .. GridSize) /\ k \in B
    BY <1>1 DEF UpToPlace
  <2> HIDE DEF B
  <2>2. IsFiniteSet(B) /\ Cardinality(B) <= GridSize
    BY <1>2, <2>1, FS_Subset
  <2>3. Cardinality(B) \in Nat /\ Cardinality(B) # 0
    <3>1. Cardinality(B) = 0 <=> B = {}
      BY <2>2, FS_EmptySet
    <3>. QED  BY <2>1, <2>2, <3>1, FS_CardinalityType
  <2>4. Cardinality(B) \in 1 .. GridSize
    BY <1>1, <2>2, <2>3
  <2>. QED  BY <2>4, PlaceIs DEF B
<1>4. ASSUME NEW j \in 1 .. GridSize, NEW k \in 1 .. GridSize, PlaceInMap(j) = PlaceInMap(k) PROVE j = k
  <2>1. PlaceInMap(j) \in Nat /\ PlaceInMap(k) \in Nat
    BY <1>1, <1>3
  <2>2. ~(PlaceInMap(j) < PlaceInMap(k)) /\ ~(PlaceInMap(k) < PlaceInMap(j))
    BY <1>4, <2>1
  <2>3. ~(AddressRank(j) < AddressRank(k) \/ (AddressRank(j) = AddressRank(k) /\ j < k))
    BY <2>2, PlaceGrows
  <2>4. ~(AddressRank(k) < AddressRank(j) \/ (AddressRank(k) = AddressRank(j) /\ k < j))
    BY <2>2, PlaceGrows
  <2>. QED  BY <1>1, <2>3, <2>4
<1>5. place \in Injection(1 .. GridSize, 1 .. GridSize)
  BY <1>3, <1>4 DEF Injection, IsInjective
<1>6. \A k \in 1 .. GridSize : place[k] = PlaceInMap(k)
  OBVIOUS
<1> HIDE DEF place
<1>7. place \in Surjection(1 .. GridSize, 1 .. GridSize)
  BY <1>2, <1>5, FS_Injection
<1>. QED  BY <1>3, <1>6, <1>7 DEF Surjection

(* The links in the order in which the map has them are the links in the   *)
(* order of their creation.                                                *)
AddressesInOrder ==
  \A j, k \in DOMAIN InterSatelliteLinks : j <= k => AddressRank(j) <= AddressRank(k)

LEMMA PlacesInOrder ==
  ASSUME AddressesInOrder, NEW k \in 1 .. GridSize
  PROVE  PlaceInMap(k) = k
<1>1. GridSize \in Nat /\ \A i \in 1 .. GridSize : AddressRank(i) \in Nat
  BY GridFacts
<1>2. \A i, j \in 1 .. GridSize : i <= j => AddressRank(i) <= AddressRank(j)
  BY GridFacts DEF AddressesInOrder
<1>3. \A j : j \in UpToPlace(k) <=> j \in 1 .. k
  <2> SUFFICES ASSUME NEW j \in 1 .. GridSize
               PROVE  AddressRank(j) < AddressRank(k) \/ (AddressRank(j) = AddressRank(k) /\ j <= k) <=> j <= k
    BY <1>1 DEF UpToPlace
  <2>1. AddressRank(j) \in Nat /\ AddressRank(k) \in Nat
    BY <1>1
  <2>2. j <= k => AddressRank(j) <= AddressRank(k)
    BY <1>2
  <2>3. k <= j => AddressRank(k) <= AddressRank(j)
    BY <1>2
  <2>. QED  BY <1>1, <2>1, <2>2, <2>3
<1>4. UpToPlace(k) = 1 .. k
  BY <1>3
<1>5. Cardinality(1 .. k) = k
  BY <1>1, FS_Interval
<1>. QED  BY <1>4, <1>5, PlaceIs

LEMMA EdgesFacts ==
  ASSUME NEW links \in SUBSET GroundStationPairs
  PROVE  /\ Len(Edges(links)) \in Nat /\ DOMAIN Edges(links) = 1 .. Len(Edges(links))
         /\ GridSize <= Len(Edges(links))
         /\ \A k \in 1 .. Len(Edges(links)) :
              /\ k <= GridSize => Edges(links)[k] = InterSatelliteLinks[k]
              /\ Edges(links)[k] \in Routers \X Routers /\ LinkOf(Edges(links)[k]) \in RouterLinks(links)
         /\ \A e : e \in ToSet(Edges(links)) <=> e \in ToSet(InterSatelliteLinks) \/ e \in links
<1> DEFINE ground == SetToSeq(links)
           isl == InterSatelliteLinks
           edges == Edges(links)
<1>1. ground \in Seq(links) /\ Len(ground) \in Nat /\ Range(ground) = links
  <2>1. IsFiniteSet(links)
    BY FinitePairs DEF GroundStationPairs, SkyPairs
  <2>. QED  BY <2>1, SetToSeqFacts
<1>2. links \subseteq Routers \X Routers /\ Satellites \X Satellites \subseteq Routers \X Routers
  BY DEF GroundStationPairs, Routers
<1>3. ground \in Seq(Routers \X Routers) /\ isl \in Seq(Routers \X Routers)
  BY <1>1, <1>2, FabricAssumption
<1>4. edges = isl \o ground
  BY DEF Edges
<1> HIDE DEF ground, edges, isl
<1>5. /\ edges \in Seq(Routers \X Routers) /\ Len(edges) = Len(isl) + Len(ground)
      /\ \A k \in 1 .. Len(edges) : edges[k] = IF k <= Len(isl) THEN isl[k] ELSE ground[k - Len(isl)]
  BY <1>3, <1>4
<1>6. Len(isl) \in Nat /\ DOMAIN isl = 1 .. Len(isl) /\ DOMAIN ground = 1 .. Len(ground)
  BY <1>1, <1>3
<1>7. Len(edges) \in Nat /\ DOMAIN edges = 1 .. Len(edges) /\ Len(isl) <= Len(edges)
  BY <1>1, <1>5, <1>6
<1>8. ASSUME NEW e PROVE e \in ToSet(edges) <=> e \in ToSet(isl) \/ e \in links
  <2>1. e \in ToSet(edges) <=> \E k \in 1 .. Len(edges) : edges[k] = e
    BY <1>7 DEF ToSet
  <2>2. e \in ToSet(isl) <=> \E k \in 1 .. Len(isl) : isl[k] = e
    BY <1>6 DEF ToSet
  <2>3. e \in links <=> \E k \in 1 .. Len(ground) : ground[k] = e
    BY <1>1, <1>6 DEF Range
  <2>4. ASSUME NEW k \in 1 .. Len(edges), edges[k] = e PROVE e \in ToSet(isl) \/ e \in links
    <3>1. CASE k <= Len(isl)
      <4>1. k \in 1 .. Len(isl) /\ isl[k] = e
        BY <1>5, <1>6, <2>4, <3>1
      <4>. QED  BY <2>2, <4>1
    <3>2. CASE ~(k <= Len(isl))
      <4>1. k - Len(isl) \in 1 .. Len(ground) /\ ground[k - Len(isl)] = e
        BY <1>1, <1>5, <1>6, <2>4, <3>2
      <4>. QED  BY <2>3, <4>1
    <3>. QED  BY <3>1, <3>2
  <2>5. ASSUME NEW k \in 1 .. Len(isl), isl[k] = e PROVE e \in ToSet(edges)
    <3>1. k \in 1 .. Len(edges) /\ edges[k] = e
      BY <1>1, <1>5, <1>6, <2>5
    <3>. QED  BY <2>1, <3>1
  <2>6. ASSUME NEW k \in 1 .. Len(ground), ground[k] = e PROVE e \in ToSet(edges)
    <3>1. /\ k + Len(isl) \in 1 .. Len(edges) /\ ~(k + Len(isl) <= Len(isl))
          /\ (k + Len(isl)) - Len(isl) = k
      BY <1>1, <1>5, <1>6
    <3>2. edges[k + Len(isl)] = e
      BY <1>5, <2>6, <3>1
    <3>. QED  BY <2>1, <3>1, <3>2
  <2>. QED  BY <2>1, <2>2, <2>3, <2>4, <2>5, <2>6
<1>9. \A k \in 1 .. Len(edges) : edges[k] \in Routers \X Routers /\ LinkOf(edges[k]) \in RouterLinks(links)
  <2> SUFFICES ASSUME NEW k \in 1 .. Len(edges)
               PROVE  edges[k] \in Routers \X Routers /\ LinkOf(edges[k]) \in RouterLinks(links)
    OBVIOUS
  <2>1. edges[k] \in Routers \X Routers
    BY <1>5
  <2>2. edges[k] \in ToSet(edges)
    BY <1>7 DEF ToSet
  <2>3. RouterLinks(links) = {LinkOf(p) : p \in ToSet(edges)}
    BY <1>8 DEF RouterLinks, isl
  <2>. QED  BY <2>1, <2>2, <2>3
<1>10. GridSize = Len(isl)
  BY DEF GridSize, isl
<1>11. \A k \in 1 .. Len(edges) : k <= GridSize => edges[k] = isl[k]
  BY <1>5, <1>10
<1>. QED  BY <1>7, <1>8, <1>9, <1>10, <1>11 DEF edges, isl

(* The weights are delays, and those of the links of now.                  *)
LEMMA WeightsFacts ==
  ASSUME NEW links \in SUBSET GroundStationPairs, NEW d,
         NEW V, d \in [RouterLinks(links) -> V]
  PROVE  \A k \in 1 .. Len(Edges(links)) :
           /\ Weights(links, d)[k] \in V
           /\ AddressesInOrder => Weights(links, d)[k] = d[LinkOf(Edges(links)[k])]
<1> DEFINE isl == InterSatelliteLinks
           edges == Edges(links)
           atPlace(k) == CHOOSE j \in DOMAIN isl : PlaceInMap(j) = k
<1> SUFFICES ASSUME NEW k \in 1 .. Len(edges)
             PROVE  /\ Weights(links, d)[k] \in V
                    /\ AddressesInOrder => Weights(links, d)[k] = d[LinkOf(edges[k])]
  OBVIOUS
<1>1. /\ Len(edges) \in Nat /\ DOMAIN edges = 1 .. Len(edges) /\ GridSize <= Len(edges)
      /\ \A i \in 1 .. Len(edges) :
           /\ i <= GridSize => edges[i] = isl[i]
           /\ LinkOf(edges[i]) \in RouterLinks(links)
  BY EdgesFacts
<1>2. Weights(links, d)[k] = d[LinkOf(IF k <= GridSize THEN isl[atPlace(k)] ELSE edges[k])]
  BY <1>1 DEF Weights, GridSize
<1> HIDE DEF edges
<1>3. CASE k <= GridSize
  <2> DEFINE j == atPlace(k)
  <2>1. GridSize \in Nat /\ DOMAIN isl = 1 .. GridSize
    BY GridFacts
  <2>2. k \in 1 .. GridSize
    BY <1>1, <1>3, <2>1
  <2>3. j \in 1 .. GridSize /\ PlaceInMap(j) = k
    <3>1. \E i \in DOMAIN isl : PlaceInMap(i) = k
      BY <2>1, <2>2, PlacesFilled
    <3>. QED  BY <2>1, <3>1
  <2> HIDE DEF j, atPlace, isl
  <2>4. j \in 1 .. Len(edges) /\ j <= GridSize
    BY <1>1, <2>1, <2>3
  <2>5. Weights(links, d)[k] = d[LinkOf(edges[j])]
    BY <1>1, <1>2, <1>3, <2>4 DEF j
  <2>6. AddressesInOrder => j = k
    BY <2>3, PlacesInOrder
  <2>. QED  BY <1>1, <2>4, <2>5, <2>6
<1>4. CASE ~(k <= GridSize)
  BY <1>1, <1>2, <1>4
<1>. QED  BY <1>3, <1>4

LEMMA DelaysArePositive ==
  ASSUME NEW links \in SUBSET GroundStationPairs, NEW d \in DelaysOf(links)
  PROVE  d \in [RouterLinks(links) -> Nat \ {0}] /\ Weighing(d) /\ DOMAIN d = RouterLinks(links)
<1>1. d \in [RouterLinks(links) -> IslDelays \union GroundDelays]
  BY DEF DelaysOf
<1>2. IslDelays \union GroundDelays \subseteq Nat \ {0}
  BY ForwardingAssumption
<1>. QED  BY <1>1, <1>2 DEF Weighing

(* igraph sees every link, with a positive weight: the delay of the link,  *)
(* if the weights are collected in the order of the edges.                 *)
LEMMA EdgeWeightsFacts ==
  ASSUME NEW links \in SUBSET GroundStationPairs, NEW d \in DelaysOf(links)
  PROVE  /\ DOMAIN EdgeWeights(links, d) = RouterLinks(links) /\ Weighing(EdgeWeights(links, d))
         /\ AddressesInOrder => EdgeWeights(links, d) = d
<1> DEFINE edges == Edges(links)
           weights == Weights(links, d)
           ew == EdgeWeights(links, d)
           W(l) == {weights[k] : k \in {j \in DOMAIN edges : LinkOf(edges[j]) = l}}
<1>1. d \in [RouterLinks(links) -> Nat \ {0}]
  BY DelaysArePositive
<1>2. /\ Len(edges) \in Nat /\ DOMAIN edges = 1 .. Len(edges)
      /\ \A k \in 1 .. Len(edges) : /\ weights[k] \in Nat \ {0}
                                    /\ AddressesInOrder => weights[k] = d[LinkOf(edges[k])]
  <2>1. Len(edges) \in Nat /\ DOMAIN edges = 1 .. Len(edges)
    BY EdgesFacts
  <2>2. \A k \in 1 .. Len(Edges(links)) :
          /\ Weights(links, d)[k] \in Nat \ {0}
          /\ AddressesInOrder => Weights(links, d)[k] = d[LinkOf(Edges(links)[k])]
    <3> DEFINE V == Nat \ {0}
    <3>1. d \in [RouterLinks(links) -> V]
      BY <1>1
    <3> HIDE DEF V
    <3>2. \A k \in 1 .. Len(Edges(links)) :
            /\ Weights(links, d)[k] \in V
            /\ AddressesInOrder => Weights(links, d)[k] = d[LinkOf(Edges(links)[k])]
      BY <3>1, WeightsFacts
    <3>. QED  BY <3>2 DEF V
  <2>. QED  BY <2>1, <2>2
<1>3. ew = [l \in RouterLinks(links) |-> Min(W(l))]
  BY DEF EdgeWeights
<1>4. RouterLinks(links) = {LinkOf(p) : p \in ToSet(edges)}
  BY EdgesFacts DEF RouterLinks
<1> HIDE DEF edges, weights, ew
<1>5. ASSUME NEW l \in RouterLinks(links)
      PROVE  Min(W(l)) \in Nat \ {0} /\ (AddressesInOrder => Min(W(l)) = d[l])
  <2>1. W(l) \subseteq Nat \ {0}
    BY <1>2
  <2>2. W(l) # {}
    <3>1. PICK k \in DOMAIN edges : LinkOf(edges[k]) = l
      BY <1>4 DEF ToSet
    <3>2. weights[k] \in W(l)
      BY <3>1
    <3>. QED  BY <3>2
  <2>3. AddressesInOrder => \A x \in W(l) : x = d[l]
    BY <1>2
  <2> HIDE DEF W
  <2>4. PICK x \in W(l) : \A y \in W(l) : x <= y
    <3>1. W(l) \subseteq Nat
      BY <2>1
    <3>. QED  BY <2>2, <3>1, LeastElement
  <2>5. Min(W(l)) \in W(l)
    BY <2>4 DEF Min
  <2>. QED  BY <2>1, <2>3, <2>5
<1> HIDE DEF W
<1>6. ew \in [RouterLinks(links) -> Nat \ {0}]
  BY <1>3, <1>5
<1>7. AddressesInOrder => ew = d
  BY <1>1, <1>3, <1>5
<1>. QED  BY <1>6, <1>7 DEF Weighing, ew

LEMMA RouterLinksAre ==
  ASSUME NEW links \in SUBSET GroundStationPairs, NEW l
  PROVE  l \in RouterLinks(links) <=>
           \E a, b \in Routers : /\ <<a, b>> \in Range(InterSatelliteLinks) \union links
                                 /\ l = {a, b}
<1>1. ToSet(InterSatelliteLinks) = Range(InterSatelliteLinks)
  BY DEF ToSet, Range
<1>2. Range(InterSatelliteLinks) \union links \subseteq Routers \X Routers
  BY FixedKinds DEF GridPairs, GroundStationPairs, Routers
<1>3. l \in RouterLinks(links) <=> \E e \in Range(InterSatelliteLinks) \union links : l = LinkOf(e)
  <2>1. RouterLinks(links) = {LinkOf(e) : e \in ToSet(InterSatelliteLinks) \union links}
    BY DEF RouterLinks
  <2>. QED  BY <1>1, <2>1
<1>4. \A e \in Range(InterSatelliteLinks) \union links :
        \E a, b \in Routers : e = <<a, b>> /\ LinkOf(e) = {a, b}
  BY <1>2 DEF LinkOf
<1>5. \A a, b : LinkOf(<<a, b>>) = {a, b}
  BY DEF LinkOf
<1>6. ASSUME l \in RouterLinks(links)
      PROVE  \E a, b \in Routers : <<a, b>> \in Range(InterSatelliteLinks) \union links /\ l = {a, b}
  <2>1. PICK e \in Range(InterSatelliteLinks) \union links : l = LinkOf(e)
    BY <1>3, <1>6
  <2>2. PICK a, b \in Routers : e = <<a, b>> /\ LinkOf(e) = {a, b}
    BY <1>4
  <2>. QED  BY <2>1, <2>2
<1>7. ASSUME NEW a \in Routers, NEW b \in Routers,
             <<a, b>> \in Range(InterSatelliteLinks) \union links, l = {a, b}
      PROVE  l \in RouterLinks(links)
  BY <1>3, <1>5, <1>7
<1>. QED  BY <1>6, <1>7

-----------------------------------------------------------------------------
(* The tables of routes. They name interfaces that lead to the next hop of *)
(* the routes, which is all that stays true of them between two updates.   *)

HopIn(file, saving, n, m) == IF n = m THEN Free ELSE PrimaryHop(saving, file[<<n, m>>])

Led(f, hop, n, i) ==
  IF hop = Free THEN i = NoInterface ELSE hop \in Routers /\ i \in GatesTo(f, n, hop)

TablesLead(f, saving, file, tables) ==
  \A n, m \in Routers : Led(f, HopIn(file, saving, n, m), n, tables[n][m])

RoutesOK ==
  routes = "current" =>
    /\ started /\ delay \in DelaysOf(groundStationLinks)
    /\ routeFile \in RouteRecords(groundStationLinks, delay)
    /\ TablesLead(fabric, ~loadFiles, routeFile, primaryNextHopInterfaces)

(* Entries of any age name no gate of a wire, and those made in the last   *)
(* update, from a whole file or from part of one, a gate towards a router. *)
OffWires(f, tables) ==
  \A n, m \in Routers : \A e \in EndUsers : tables[n][m] \notin GatesTo(f, n, e)

LeadOn(f, tables) ==
  \A n, m \in Routers :
    tables[n][m] = NoInterface \/ \E hop \in Routers : tables[n][m] \in GatesTo(f, n, hop)

EntriesOK ==
  /\ started => OffWires(fabric, primaryNextHopInterfaces)
  /\ IF started THEN routes # "old" => LeadOn(fabric, primaryNextHopInterfaces)
     ELSE routes = "old" /\ primaryNextHopInterfaces = NoRoutes

ForwardingInv == RestInv /\ loadFiles \in BOOLEAN /\ RoutesOK /\ EntriesOK

(* Between routers that are linked there are gates, and the matrix names   *)
(* one of them.                                                            *)
LEMMA LinkHasGates ==
  ASSUME NEW f, NEW gsl \in SUBSET GroundStationPairs, NEW utl,
         FabricInv(f, LinksOf(gsl, utl), {}), GridLinked(f),
         NEW a \in Routers, NEW b \in Routers, {a, b} \in RouterLinks(gsl)
  PROVE  f.nextHopInterface[a][b] \in GatesTo(f, a, b)
<1>1. /\ f \in Fabrics /\ GatesOK(f, LinksOf(gsl, utl)) /\ NewOK(f, {}) /\ MatrixOK(f)
  BY DEF FabricInv
<1>2. a \in Nodes /\ b \in Nodes
  BY DEF Nodes
<1>3. PICK x, y \in Routers : <<x, y>> \in Range(InterSatelliteLinks) \union gsl /\ {a, b} = {x, y}
  BY RouterLinksAre
<1>4. (a = x /\ b = y) \/ (a = y /\ b = x)
  BY <1>3
<1>5. GatesTo(f, a, b) # {}
  <2>1. CASE <<x, y>> \in Range(InterSatelliteLinks)
    <3>1. LinkedBothWays(f, <<x, y>>)
      BY <2>1 DEF GridLinked
    <3>. QED  BY <1>4, <3>1 DEF LinkedBothWays
  <2>2. CASE <<x, y>> \in gsl
    <3>1. <<x, y>> \in SkyPairs
      BY <2>2, PairsDisjoint
    <3>2. <<a, b>> \notin GridPairs
      BY <1>4, <3>1, SkyKinds
    <3>3. Joined(LinksOf(gsl, utl), a, b)
      BY <1>4, <2>2 DEF Joined, LinksOf
    <3>4. \E i : GatesTo(f, a, b) = {i}
      BY <1>1, <1>2, <3>2, <3>3 DEF GatesOK
    <3>. QED  BY <3>4
  <2>. QED  BY <1>3, <2>1, <2>2
<1>6. \A i \in GatesTo(f, a, b) : ~(i > f.ppp[a])
  <2> SUFFICES ASSUME NEW i \in GatesTo(f, a, b) PROVE ~(i > f.ppp[a])
    OBVIOUS
  <2>1. i \in 1 .. Len(f.gate[a])
    BY <1>1, <1>2, GatesToMember
  <2>. QED  BY <1>1, <1>2, <2>1 DEF NewOK, Joined
<1>. QED  BY <1>1, <1>5, <1>6 DEF MatrixOK

LEMMA HopsAre ==
  ASSUME NEW links \in SUBSET GroundStationPairs, NEW d \in DelaysOf(links),
         NEW file \in RouteRecords(links, d), NEW saving \in BOOLEAN,
         NEW n \in Routers, NEW m \in Routers, n # m
  PROVE  HopTowards(HopIn(file, saving, n, m), n, m, EdgeWeights(links, d), numOfKPaths <= 1 \/ saving)
<1> DEFINE w == EdgeWeights(links, d)
           pair == <<n, m>>
<1>1. pair \in RouterPairs /\ pair[1] = n /\ pair[2] = m
  BY DEF RouterPairs
<1>2. file[pair] \in NextHopLists(pair, w)
  BY <1>1, RecordsAreOfPairs
<1>3. Weighing(w)
  BY EdgeWeightsFacts
<1>4. HopIn(file, saving, n, m) = PrimaryHop(saving, file[pair])
  BY DEF HopIn
<1> HIDE DEF w
<1>5. HopTowards(PrimaryHop(saving, file[<<n, m>>]), n, m, w, numOfKPaths <= 1 \/ saving)
  BY <1>2, <1>3, PrimaryHopFacts
<1>. QED  BY <1>4, <1>5 DEF w

(* A hop is a router that a link leads to.                                 *)
LEMMA HopIsLinked ==
  ASSUME NEW links \in SUBSET GroundStationPairs, NEW d \in DelaysOf(links),
         NEW hop, NEW n, NEW m, NEW best, HopTowards(hop, n, m, EdgeWeights(links, d), best), hop # Free
  PROVE  hop \in Routers /\ {n, hop} \in RouterLinks(links) /\ hop # n
<1>1. DOMAIN EdgeWeights(links, d) = RouterLinks(links)
  BY EdgeWeightsFacts
<1>2. PICK p : Path(p, n, m, EdgeWeights(links, d)) /\ hop = p[2]
  BY DEF HopTowards
<1>3. /\ p \in [1 .. Len(p) -> Routers] /\ Len(p) \in Nat /\ Len(p) >= 2 /\ p[1] = n
      /\ \A i, j \in 1 .. Len(p) : p[i] = p[j] => i = j
      /\ \A i \in 1 .. Len(p) - 1 : {p[i], p[i + 1]} \in RouterLinks(links)
  BY <1>1, <1>2 DEF Path
<1>4. 1 \in 1 .. Len(p) - 1 /\ 1 + 1 = 2 /\ 2 \in 1 .. Len(p) /\ 1 \in 1 .. Len(p) /\ 1 # 2
  BY <1>3
<1>5. {p[1], p[2]} \in RouterLinks(links)
  BY <1>3, <1>4
<1>. QED  BY <1>2, <1>3, <1>4, <1>5

LEMMA NewTablesLead ==
  ASSUME NEW f, NEW gsl \in SUBSET GroundStationPairs, NEW utl,
         FabricInv(f, LinksOf(gsl, utl), {}), GridLinked(f),
         NEW d \in DelaysOf(gsl), NEW file \in RouteRecords(gsl, d), NEW saving \in BOOLEAN
  PROVE  TablesLead(f, saving, file, InterfaceTables(f, saving, file))
<1> SUFFICES ASSUME NEW n \in Routers, NEW m \in Routers
             PROVE  Led(f, HopIn(file, saving, n, m), n, InterfaceTables(f, saving, file)[n][m])
  BY DEF TablesLead
<1> DEFINE hop == HopIn(file, saving, n, m)
<1>1. InterfaceTables(f, saving, file)[n][m] = IF hop = Free THEN NoInterface ELSE f.nextHopInterface[n][hop]
  BY DEF InterfaceTables, HopIn
<1> HIDE DEF hop
<1>2. CASE hop = Free
  BY <1>1, <1>2 DEF Led, hop
<1>3. CASE hop # Free
  <2>1. n # m
    BY <1>3 DEF hop, HopIn
  <2>2. HopTowards(hop, n, m, EdgeWeights(gsl, d), numOfKPaths <= 1 \/ saving)
    BY <2>1, HopsAre DEF hop
  <2>3. hop \in Routers /\ {n, hop} \in RouterLinks(gsl)
    BY <1>3, <2>2, HopIsLinked
  <2>4. f.nextHopInterface[n][hop] \in GatesTo(f, n, hop)
    BY <2>3, LinkHasGates
  <2>. QED  BY <1>1, <1>3, <2>3, <2>4 DEF Led, hop
<1>. QED  BY <1>2, <1>3

(* Links of user terminals do not concern them.                            *)
LEMMA RouterGatesKept ==
  ASSUME NEW f, NEW g, NEW S, S \subseteq UserTerminals \X Satellites, GatesKept(f, g, S)
  PROVE  \A a, b \in Routers : GatesTo(g, a, b) = GatesTo(f, a, b)
<1> SUFFICES ASSUME NEW a \in Routers, NEW b \in Routers PROVE GatesTo(g, a, b) = GatesTo(f, a, b)
  OBVIOUS
<1>1. Routers \intersect UserTerminals = {}
  BY FabricAssumption DEF Endpoints
<1>2. ~Joined(S, a, b)
  BY <1>1 DEF Joined
<1>. QED  BY <1>2 DEF GatesKept, Nodes

LEMMA TablesStillLead ==
  ASSUME NEW f, NEW g, NEW S, S \subseteq UserTerminals \X Satellites, GatesKept(f, g, S),
         NEW saving, NEW file, NEW tables, TablesLead(f, saving, file, tables)
  PROVE  TablesLead(g, saving, file, tables)
<1> SUFFICES ASSUME NEW n \in Routers, NEW m \in Routers
             PROVE  Led(g, HopIn(file, saving, n, m), n, tables[n][m])
  BY DEF TablesLead
<1>1. Led(f, HopIn(file, saving, n, m), n, tables[n][m])
  BY DEF TablesLead
<1>2. \A a, b \in Routers : GatesTo(g, a, b) = GatesTo(f, a, b)
  BY RouterGatesKept
<1>. QED  BY <1>1, <1>2 DEF Led

LEMMA FabricAtRest ==
  ASSUME RestInv, started
  PROVE  fabric \in Fabrics /\ MatrixOK(fabric)
BY DEF RestInv, FabricInv

(* Who leads on to a router leads to no endpoint.                          *)
LEMMA OnwardsIsOffWires ==
  ASSUME NEW f \in Fabrics, NEW tables, LeadOn(f, tables)
  PROVE  /\ OffWires(f, tables)
         /\ \A n, m \in Routers : \A e \in Endpoints : tables[n][m] \notin GatesTo(f, n, e)
<1>1. ASSUME NEW n \in Routers, NEW m \in Routers, NEW e \in Endpoints
      PROVE  tables[n][m] \notin GatesTo(f, n, e)
  <2>1. n \in Nodes /\ e \notin Routers
    BY FabricAssumption DEF Nodes
  <2>2. \A x, i : i \in GatesTo(f, n, x) <=> i \in 1 .. Len(f.gate[n]) /\ f.gate[n][i] = x
    BY <2>1, GatesToMember
  <2>3. CASE tables[n][m] = NoInterface
    <3>1. 0 \notin 1 .. Len(f.gate[n])
      BY <2>1, FabricFields
    <3>. QED  BY <2>2, <2>3, <3>1 DEF NoInterface
  <2>4. CASE \E hop \in Routers : tables[n][m] \in GatesTo(f, n, hop)
    BY <2>1, <2>2, <2>4
  <2>. QED  BY <2>3, <2>4 DEF LeadOn
<1>2. EndUsers \subseteq Endpoints
  BY DEF Endpoints
<1>. QED  BY <1>1, <1>2 DEF OffWires

(* Whatever part of a file is resolved, if only its hops are routers.      *)
LEMMA ResolvedLeadOn ==
  ASSUME NEW f, MatrixOK(f), NEW saving, NEW file,
         \A n, m \in Routers : HopIn(file, saving, n, m) \in Routers \union {Free}
  PROVE  LeadOn(f, InterfaceTables(f, saving, file))
<1> SUFFICES ASSUME NEW n \in Routers, NEW m \in Routers,
                    InterfaceTables(f, saving, file)[n][m] # NoInterface
             PROVE  \E hop \in Routers : InterfaceTables(f, saving, file)[n][m] \in GatesTo(f, n, hop)
  BY DEF LeadOn
<1> DEFINE hop == HopIn(file, saving, n, m)
<1>1. InterfaceTables(f, saving, file)[n][m] = IF hop = Free THEN NoInterface ELSE f.nextHopInterface[n][hop]
  BY DEF InterfaceTables, HopIn
<1>2. hop \in Routers \union {Free}
  OBVIOUS
<1> HIDE DEF hop
<1>3. hop \in Routers /\ InterfaceTables(f, saving, file)[n][m] = f.nextHopInterface[n][hop]
  BY <1>1, <1>2
<1>4. f.nextHopInterface[n][hop] \in GatesTo(f, n, hop)
  BY <1>3 DEF MatrixOK
<1>. QED  BY <1>3, <1>4

(* The hops of a file that was cut off are routers, too.                   *)
LEMMA RecordsAreRouters ==
  ASSUME NEW links, NEW d \in DelaysOf(links), links \in SUBSET GroundStationPairs,
         NEW file \in RouteRecords(links, d), NEW pair \in RouterPairs
  PROVE  file[pair] \in Seq(Routers)
<1> DEFINE w == EdgeWeights(links, d)
<1>1. Weighing(w)
  BY EdgeWeightsFacts
<1>2. file[pair] \in NextHopLists(pair, w)
  BY RecordsAreOfPairs
<1> HIDE DEF w
<1>3. PICK list \in PathLists(PathsBetween(pair[1], pair[2], w), w) :
        file[pair] = [i \in DOMAIN list |-> list[i][2]]
  BY <1>2 DEF NextHopLists
<1>4. Found(list, pair[1], pair[2], w)
  BY <1>1, <1>3, ListsAreFound
<1>5. PICK n \in Nat : DOMAIN list = 1 .. n /\ \A i \in 1 .. n : Path(list[i], pair[1], pair[2], w)
  BY <1>4 DEF Found
<1>6. \A i \in 1 .. n : list[i][2] \in Routers
  BY <1>5 DEF Path
<1>. QED  BY <1>3, <1>5, <1>6

LEMMA PrimaryIsListed ==
  ASSUME NEW r \in Seq(Routers)
  PROVE  PrimaryHop(FALSE, r) \in Routers \union {Free}
<1> DEFINE primary == {i \in DOMAIN r : Rank(FALSE, i) = 1}
<1>1. PrimaryHop(FALSE, r) = IF primary = {} THEN Free ELSE r[Max(primary)]
  BY DEF PrimaryHop
<1>2. primary \subseteq 1 .. Len(r) /\ Len(r) \in Nat
  <2>1. DOMAIN r = 1 .. Len(r) /\ Len(r) \in Nat
    OBVIOUS
  <2>. QED  BY <2>1, Zenon
<1> HIDE DEF primary
<1>3. CASE primary # {}
  <2> DEFINE i == Max(primary)
  <2>1. i \in primary
    <3>1. primary \subseteq 0 .. Len(r)
      BY <1>2
    <3>2. PICK x \in primary : \A y \in primary : y <= x
      BY <1>2, <1>3, <3>1, GreatestElement
    <3>3. \A y \in primary : x >= y
      BY <3>1, <3>2
    <3>. QED  BY <3>3 DEF Max
  <2> HIDE DEF i
  <2>2. r[i] \in Routers
    BY <1>2, <2>1
  <2>. QED  BY <1>1, <1>3, <2>2 DEF i
<1>. QED  BY <1>1, <1>3

LEMMA BeginningIsOfRouters ==
  ASSUME NEW links \in SUBSET GroundStationPairs, NEW d \in DelaysOf(links),
         NEW file \in RouteRecords(links, d), NEW k \in DOMAIN PairSequence,
         NEW r \in 0 .. Len(file[PairSequence[k]]) - 1, NEW pair \in RouterPairs
  PROVE  Beginning(file, k, r)[pair] \in Seq(Routers)
<1> DEFINE place == CHOOSE j \in DOMAIN PairSequence : PairSequence[j] = pair
<1>1. PairSequence[place] = pair
  <2>1. IsFiniteSet(RouterPairs)
    <3>1. IsFiniteSet(Routers \X Routers)
      BY RoutersFinite, FS_Product
    <3>2. RouterPairs \in SUBSET (Routers \X Routers)
      BY DEF RouterPairs
    <3>. QED  BY <3>1, <3>2, FS_Subset
  <2>2. Range(PairSequence) = RouterPairs
    BY <2>1, SetToSeqFacts DEF PairSequence
  <2>3. \E j \in DOMAIN PairSequence : PairSequence[j] = pair
    BY <2>2 DEF Range
  <2>. QED  BY <2>3
<1>2. Beginning(file, k, r)[pair] =
        IF place < k THEN file[pair] ELSE IF place = k THEN SubSeq(file[pair], 1, r) ELSE <<>>
  BY DEF Beginning
<1> HIDE DEF place
<1>3. file[pair] \in Seq(Routers)
  BY RecordsAreRouters
<1>4. place = k => SubSeq(file[pair], 1, r) \in Seq(Routers)
  <2> SUFFICES ASSUME place = k PROVE SubSeq(file[pair], 1, r) \in Seq(Routers)
    OBVIOUS
  <2>1. r \in 0 .. Len(file[pair]) - 1
    BY <1>1
  <2>. QED  BY <1>3, <2>1
<1>5. <<>> \in Seq(Routers)
  OBVIOUS
<1>. QED  BY <1>2, <1>3, <1>4, <1>5

LEMMA ForwardingInitKeeps == ForwardingInit => ForwardingInv
<1> SUFFICES ASSUME ForwardingInit PROVE ForwardingInv
  OBVIOUS
<1>1. RestInv
  BY InitKeeps DEF ForwardingInit
<1>2. loadFiles \in BOOLEAN
  BY ForwardingAssumption DEF ForwardingInit
<1>3. routes = "old" /\ primaryNextHopInterfaces = NoRoutes /\ ~started
  BY DEF ForwardingInit, Init
<1>. QED  BY <1>1, <1>2, <1>3 DEF ForwardingInv, RoutesOK, EntriesOK

(* An update, in the network that it has made. The entries that it may     *)
(* leave as they are lead to no end user there.                            *)
LEMMA UpdateKeeps ==
  ASSUME RestInv', started', loadFiles \in BOOLEAN, UpdateForwardingStates,
         OffWires(fabric', primaryNextHopInterfaces)
  PROVE  ForwardingInv'
<1>1. loadFiles' = loadFiles
  BY DEF UpdateForwardingStates
<1>2. fabric' \in Fabrics /\ MatrixOK(fabric')
  BY DEF RestInv, FabricInv
<1>3. SUFFICES RoutesOK' /\ OffWires(fabric', primaryNextHopInterfaces')
                         /\ (routes' # "old" => LeadOn(fabric', primaryNextHopInterfaces'))
  BY <1>1 DEF ForwardingInv, EntriesOK
<1>4. SUFFICES ASSUME routes' # "old"
               PROVE  RoutesOK' /\ LeadOn(fabric', primaryNextHopInterfaces')
  <2>1. CASE routes' = "old"
    <3>1. primaryNextHopInterfaces' = primaryNextHopInterfaces
      BY <2>1 DEF UpdateForwardingStates, NewRoutes, RouteFileMissing, RouteFileEmpty, RouteFileCut
    <3>. QED  BY <2>1, <3>1 DEF RoutesOK
  <2>2. LeadOn(fabric', primaryNextHopInterfaces') => OffWires(fabric', primaryNextHopInterfaces')
    BY <1>2, OnwardsIsOffWires
  <2>. QED  BY <2>1, <2>2
<1>5. CASE RouteFileMissing
  BY <1>4, <1>5 DEF RouteFileMissing
<1>6. CASE RouteFileEmpty
  <2>1. routes' = "partial" /\ primaryNextHopInterfaces' = NoRoutes
    BY <1>6 DEF RouteFileEmpty
  <2>. QED  BY <2>1 DEF RoutesOK, LeadOn, NoRoutes
<1>7. CASE RouteFileCut
  <2>1. routes' = "partial"
    BY <1>7 DEF RouteFileCut
  <2>2. PICK d \in DelaysOf(groundStationLinks') : \E file \in RouteRecords(groundStationLinks', d) :
          \E k \in DOMAIN PairSequence : \E r \in 0 .. Len(file[PairSequence[k]]) - 1 :
            primaryNextHopInterfaces' = InterfaceTables(fabric', FALSE, Beginning(file, k, r))
    BY <1>7 DEF RouteFileCut
  <2>3. PICK file \in RouteRecords(groundStationLinks', d) :
          \E k \in DOMAIN PairSequence : \E r \in 0 .. Len(file[PairSequence[k]]) - 1 :
            primaryNextHopInterfaces' = InterfaceTables(fabric', FALSE, Beginning(file, k, r))
    BY <2>2
  <2>9. PICK k \in DOMAIN PairSequence : \E r \in 0 .. Len(file[PairSequence[k]]) - 1 :
          primaryNextHopInterfaces' = InterfaceTables(fabric', FALSE, Beginning(file, k, r))
    BY <2>3
  <2>4. PICK r \in 0 .. Len(file[PairSequence[k]]) - 1 :
          primaryNextHopInterfaces' = InterfaceTables(fabric', FALSE, Beginning(file, k, r))
    BY <2>9
  <2> DEFINE part == Beginning(file, k, r)
  <2>5. groundStationLinks' \in SUBSET GroundStationPairs
    BY DEF RestInv
  <2>6. \A pair \in RouterPairs : part[pair] \in Seq(Routers)
    BY <2>5, BeginningIsOfRouters
  <2> HIDE DEF part
  <2>7. \A n, m \in Routers : HopIn(part, FALSE, n, m) \in Routers \union {Free}
    <3> SUFFICES ASSUME NEW n \in Routers, NEW m \in Routers, n # m
                 PROVE  PrimaryHop(FALSE, part[<<n, m>>]) \in Routers \union {Free}
      BY DEF HopIn
    <3>1. <<n, m>> \in RouterPairs
      BY DEF RouterPairs
    <3>. QED  BY <2>6, <3>1, PrimaryIsListed
  <2>8. LeadOn(fabric', InterfaceTables(fabric', FALSE, part))
    BY <1>2, <2>7, ResolvedLeadOn
  <2>. QED  BY <2>1, <2>4, <2>8 DEF RoutesOK, part
<1>8. CASE NewRoutes
  <2>1. /\ delay' \in DelaysOf(groundStationLinks')
        /\ routeFile' \in RouteRecords(groundStationLinks', delay')
        /\ primaryNextHopInterfaces' = InterfaceTables(fabric', ~loadFiles, routeFile')
    BY <1>8 DEF NewRoutes
  <2>2. /\ groundStationLinks' \in SUBSET GroundStationPairs
        /\ FabricInv(fabric', LinksOf(groundStationLinks', userTerminalLinks'), {})
        /\ GridLinked(fabric')
    BY DEF RestInv
  <2>3. (~loadFiles) \in BOOLEAN
    OBVIOUS
  <2>4. TablesLead(fabric', ~loadFiles, routeFile', InterfaceTables(fabric', ~loadFiles, routeFile'))
    BY <2>1, <2>2, <2>3, NewTablesLead
  <2>5. TablesLead(fabric', ~loadFiles', routeFile', primaryNextHopInterfaces')
    BY <1>1, <2>1, <2>4
  <2>6. LeadOn(fabric', primaryNextHopInterfaces')
    BY <2>5 DEF TablesLead, Led, LeadOn
  <2>. QED  BY <1>1, <2>1, <2>5, <2>6 DEF RoutesOK
<1>. QED  BY <1>5, <1>6, <1>7, <1>8 DEF UpdateForwardingStates

(* The links that a timer moves are not wires.                             *)
LEMMA WiresStay ==
  ASSUME RestInv, NEW reachable, NEW links, NEW S, TimerStep(reachable, links, S)
  PROVE  \A n \in Routers : \A e \in EndUsers : GatesTo(fabric', n, e) = GatesTo(fabric, n, e)
<1> DEFINE moved == S \union Lost(userTerminalLinks, links) \union Created(userTerminalLinks, links)
<1>1. moved \subseteq SkyPairs /\ GatesKept(fabric, fabric', moved)
  BY PairsDisjoint DEF TimerStep, RestInv, Lost, Created
<1> HIDE DEF moved
<1>2. ASSUME NEW n \in Routers, NEW e \in EndUsers PROVE ~Joined(moved, n, e) /\ n \in Nodes /\ e \in Nodes
  <2>1. e \notin GroundStations \union UserTerminals \union Satellites
    BY FabricAssumption DEF Routers, Endpoints
  <2>. QED  BY <1>1, <2>1 DEF Joined, SkyPairs, GroundStationPairs, Nodes, Endpoints
<1>. QED  BY <1>1, <1>2 DEF GatesKept

LEMMA StillOffWires ==
  ASSUME RestInv, NEW reachable, NEW links, NEW S, TimerStep(reachable, links, S),
         OffWires(fabric, primaryNextHopInterfaces)
  PROVE  OffWires(fabric', primaryNextHopInterfaces)
BY WiresStay DEF OffWires

(* The timer between two updates.                                          *)
LEMMA HandoverKeeps ==
  ASSUME ForwardingInv, RestInv', HandleHandoverTimer, UNCHANGED <<loadFiles, routeVars>>
  PROVE  ForwardingInv'
<1>1. /\ RestInv /\ loadFiles \in BOOLEAN /\ RoutesOK /\ EntriesOK
      /\ loadFiles' = loadFiles /\ routes' = routes /\ delay' = delay
      /\ routeFile' = routeFile /\ primaryNextHopInterfaces' = primaryNextHopInterfaces
  BY DEF ForwardingInv, routeVars
<1>2. started /\ groundStationLinks' = groundStationLinks /\ started' = started
  BY DEF HandleHandoverTimer
<1>3. PICK reachable, links, S : TimerStep(reachable, links, S)
  BY <1>1, HandleHandoverTimerStep
<1> DEFINE moved == Lost(userTerminalLinks, links) \union Created(userTerminalLinks, links)
<1>4. GatesKept(fabric, fabric', moved)
  <2>1. S = {}
    BY <1>2, <1>3 DEF TimerStep
  <2>2. S \union Lost(userTerminalLinks, links) \union Created(userTerminalLinks, links) = moved
    BY <2>1
  <2>. QED  BY <1>3, <2>2 DEF TimerStep
<1>5. moved \subseteq UserTerminals \X Satellites
  <2>1. userTerminalLinks \in TerminalTables /\ links \in TerminalTables
    BY <1>1, <1>3 DEF RestInv, TimerStep
  <2>. QED  BY <2>1, TerminalLinksKinds DEF TerminalTables, Lost, Created
<1> HIDE DEF moved
<1>6. RoutesOK'
  <2> SUFFICES ASSUME routes = "current" PROVE RoutesOK'
    BY <1>1 DEF RoutesOK
  <2>1. TablesLead(fabric, ~loadFiles, routeFile, primaryNextHopInterfaces)
    BY <1>1 DEF RoutesOK
  <2>2. TablesLead(fabric', ~loadFiles, routeFile, primaryNextHopInterfaces)
    BY <1>4, <1>5, <2>1, TablesStillLead
  <2>. QED  BY <1>1, <1>2, <2>2 DEF RoutesOK
<1>7. OffWires(fabric', primaryNextHopInterfaces)
  BY <1>1, <1>2, <1>3, StillOffWires DEF EntriesOK
<1>8. routes # "old" => LeadOn(fabric', primaryNextHopInterfaces)
  <2>1. \A a, b \in Routers : GatesTo(fabric', a, b) = GatesTo(fabric, a, b)
    BY <1>4, <1>5, RouterGatesKept
  <2>. QED  BY <1>1, <1>2, <2>1 DEF EntriesOK, LeadOn
<1>. QED  BY <1>1, <1>2, <1>6, <1>7, <1>8 DEF ForwardingInv, EntriesOK

LEMMA ForwardingNextKeeps == ForwardingInv /\ [ForwardingNext]_forwardingVars => ForwardingInv'
<1> SUFFICES ASSUME ForwardingInv, [ForwardingNext]_forwardingVars PROVE ForwardingInv'
  OBVIOUS
<1>1. RestInv /\ loadFiles \in BOOLEAN /\ EntriesOK
  BY DEF ForwardingInv
<1>2. CASE StartSimulation /\ UpdateForwardingStates
  <2>1. started' /\ ~started
    BY <1>2 DEF StartSimulation
  <2>2. RestInv'
    BY <1>1, <1>2, StartSimulationKeeps
  <2>3. OffWires(fabric', primaryNextHopInterfaces)
    <3>1. primaryNextHopInterfaces = NoRoutes
      BY <1>1, <2>1 DEF EntriesOK
    <3>2. LeadOn(fabric', NoRoutes)
      BY DEF LeadOn, NoRoutes
    <3>3. fabric' \in Fabrics
      BY <2>1, <2>2 DEF RestInv, FabricInv
    <3>. QED  BY <3>1, <3>2, <3>3, OnwardsIsOffWires
  <2>. QED  BY <1>1, <1>2, <2>1, <2>2, <2>3, UpdateKeeps
<1>3. CASE HandleUpdateTimer /\ UpdateForwardingStates
  <2>1. started' /\ started
    BY <1>3 DEF HandleUpdateTimer
  <2>2. PICK reachable, links, S : TimerStep(reachable, links, S)
    BY <1>1, <1>3, HandleUpdateTimerStep
  <2>3. RestInv'
    BY <1>1, <2>2, TimerStepKeeps
  <2>4. OffWires(fabric', primaryNextHopInterfaces)
    BY <1>1, <2>1, <2>2, StillOffWires DEF EntriesOK
  <2>. QED  BY <1>1, <1>3, <2>1, <2>3, <2>4, UpdateKeeps
<1>4. CASE HandleHandoverTimer /\ UNCHANGED <<loadFiles, routeVars>>
  <2>1. RestInv'
    BY <1>1, <1>4, HandleHandoverTimerStep, TimerStepKeeps
  <2>. QED  BY <1>4, <2>1, HandoverKeeps
<1>5. CASE UNCHANGED forwardingVars
  <2>1. UNCHANGED <<fabricVars, loadFiles, routeVars>>
    BY <1>5 DEF forwardingVars
  <2>2. /\ fabric' = fabric /\ groundStationLinks' = groundStationLinks
        /\ userTerminalLinks' = userTerminalLinks /\ endpointTable' = endpointTable /\ started' = started
        /\ loadFiles' = loadFiles /\ routes' = routes /\ delay' = delay
        /\ routeFile' = routeFile /\ primaryNextHopInterfaces' = primaryNextHopInterfaces
    BY <2>1 DEF fabricVars, routeVars
  <2>3. RestInv' /\ loadFiles' \in BOOLEAN
    BY <1>1, <2>2 DEF RestInv
  <2>4. RoutesOK' /\ EntriesOK'
    BY <2>2 DEF ForwardingInv, RoutesOK, EntriesOK
  <2>. QED  BY <2>3, <2>4 DEF ForwardingInv
<1>. QED  BY <1>2, <1>3, <1>4, <1>5 DEF ForwardingNext

LEMMA AlwaysForwarding == ForwardingSpec => []ForwardingInv
BY ForwardingInitKeeps, ForwardingNextKeeps, PTL DEF ForwardingSpec

-----------------------------------------------------------------------------
(* The matrix between two updates.                                         *)

LEMMA TurnKeepsMatrix ==
  ASSUME NEW f \in Fabrics, NEW p \in UserTerminals \X Satellites
  PROVE  /\ CreateLink(f, p).nextHopInterface = f.nextHopInterface
         /\ RemoveLink(f, p).nextHopInterface = f.nextHopInterface
<1> DEFINE a == p[1]
           b == p[2]
           c == Connect(f, b, a)
<1>1. a \in UserTerminals /\ a \in Nodes /\ b \in Nodes
  BY DEF Nodes, Routers, Endpoints
<1>2. a \notin GroundStations /\ a \notin EndUsers \union Satellites
  BY <1>1, FabricAssumption DEF Routers, Endpoints
<1>3. CreateLink(f, p) = CreateUserTerminalLink(f, a, b) /\ RemoveLink(f, p) = Disconnect(f, a, b)
  BY <1>1, <1>2 DEF CreateLink, RemoveLink, RemoveUserTerminalLink
<1> HIDE DEF a, b
<1>4. c \in Fabrics /\ c.nextHopInterface = f.nextHopInterface
  BY <1>1, ConnectFacts
<1>5. CreateUserTerminalLink(f, a, b).nextHopInterface = f.nextHopInterface
  <2>1. CreateUserTerminalLink(f, a, b) = [c EXCEPT !.dirtyPppModules = @ \union {b, a}]
    BY DEF CreateUserTerminalLink
  <2> HIDE DEF c
  <2>. QED  BY <1>4, <2>1 DEF Fabrics
<1>6. Disconnect(f, a, b).nextHopInterface = f.nextHopInterface
  BY DEF Disconnect, Fabrics
<1>. QED  BY <1>3, <1>5, <1>6

LEMMA LoopKeepsMatrix ==
  ASSUME NEW f, NEW L, NEW N, FabricInv(f, L, N), NEW S, S \subseteq UserTerminals \X Satellites,
         NEW wanted, \A p \in S : IF p \in wanted THEN p \notin L ELSE p \in L /\ p \notin N
  PROVE  ChangeLinks(f, SetToSeq(S), wanted).nextHopInterface = f.nextHopInterface
<1> DEFINE pairs == SetToSeq(S)
<1>1. Changeable(f, L, N, pairs, wanted) /\ Range(pairs) = S
  <2>1. S \subseteq SkyPairs
    BY DEF SkyPairs
  <2>. QED  BY <2>1, SkyChangeable
<1> HIDE DEF pairs
<1>2. Len(pairs) \in Nat /\ \A k \in 1 .. Len(pairs) : pairs[k] \in S
  <2>1. pairs \in Seq(AllPairs)
    BY <1>1 DEF Changeable
  <2>2. Len(pairs) \in Nat /\ DOMAIN pairs = 1 .. Len(pairs)
    BY <2>1
  <2>. QED  BY <1>1, <2>2 DEF Range
<1>3. PICK h : Stepwise(f, pairs, wanted, L, N, h)
  BY <1>1, ChangeLinksStepwise
<1>4. /\ h[0] = f /\ ChangeLinks(f, pairs, wanted) = h[Len(pairs)]
      /\ \A k \in 0 .. Len(pairs) : h[k] \in Fabrics
  BY <1>3 DEF Stepwise, Unrolled, Changed, FabricInv
<1>5. ASSUME NEW k \in 1 .. Len(pairs), h[k - 1].nextHopInterface = f.nextHopInterface
      PROVE  h[k].nextHopInterface = f.nextHopInterface
  <2>1. h[k] = CreateLink(h[k - 1], pairs[k]) \/ h[k] = RemoveLink(h[k - 1], pairs[k])
    BY <1>3 DEF Stepwise, Unrolled
  <2>2. h[k - 1] \in Fabrics /\ pairs[k] \in UserTerminals \X Satellites
    BY <1>2, <1>4
  <2>. QED  BY <1>5, <2>1, <2>2, TurnKeepsMatrix
<1> DEFINE kept(k) == h[k].nextHopInterface = f.nextHopInterface
           bad == {k \in 0 .. Len(pairs) : ~kept(k)}
<1>6. bad = {}
  <2> SUFFICES ASSUME bad # {} PROVE FALSE
    OBVIOUS
  <2>1. PICK n \in bad : \A x \in bad : n <= x
    <3>1. bad \subseteq Nat
      BY <1>2
    <3> HIDE DEF bad
    <3>. QED  BY <3>1, LeastElement
  <2>2. n \in 0 .. Len(pairs) /\ ~kept(n) /\ kept(0)
    BY <1>4, <2>1
  <2> HIDE DEF kept
  <2>3. n \in 1 .. Len(pairs) /\ n - 1 \in 0 .. Len(pairs) /\ ~(n <= n - 1)
    BY <1>2, <2>2
  <2>4. kept(n - 1)
    BY <2>1, <2>3
  <2>. QED  BY <1>5, <2>2, <2>3, <2>4 DEF kept
<1>. QED  BY <1>2, <1>4, <1>6 DEF pairs

(* A new interface of a user terminal's link is none between routers.      *)
LEMMA InterfacesKeepMatrix ==
  ASSUME NEW f, NEW L, NEW N, FabricInv(f, L, N), N \subseteq UserTerminals \X Satellites,
         NEW n \in Routers, NEW m \in Routers
  PROVE  AddPPPInterfaces(f).nextHopInterface[n][m] = f.nextHopInterface[n][m]
<1> DEFINE D == f.dirtyPppModules
           h == UpdatePPPModules(f, D, D)
<1>1. f \in Fabrics /\ NewOK(f, N)
  BY DEF FabricInv
<1>2. Updated(f, h, D, D)
  BY <1>1, UpdateFacts
<1>3. n \in Nodes /\ m \in Nodes
  BY DEF Nodes
<1>4. NewTowards(f, D, D, n, m) = {}
  <2> SUFFICES ASSUME NEW i \in NewTowards(f, D, D, n, m) PROVE FALSE
    OBVIOUS
  <2>1. i \in GatesTo(f, n, m) /\ i \in (f.ppp[n] + 1) .. Len(f.gate[n])
    BY DEF NewTowards, KnownGates, NewGates
  <2>2. i \in 1 .. Len(f.gate[n]) /\ f.gate[n][i] = m
    BY <1>1, <1>3, <2>1, GatesToMember
  <2>3. f.ppp[n] \in Nat /\ Len(f.gate[n]) \in Nat
    BY <1>1, <1>3, FabricFields
  <2>4. i > f.ppp[n]
    BY <2>1, <2>3
  <2>5. Joined(N, n, m)
    BY <1>1, <1>3, <2>2, <2>4 DEF NewOK
  <2>6. Routers \intersect UserTerminals = {}
    BY FabricAssumption DEF Endpoints
  <2>. QED  BY <2>5, <2>6 DEF Joined
<1> HIDE DEF h, D
<1>5. h \in Fabrics /\ h.nextHopInterface[n][m] = f.nextHopInterface[n][m]
  BY <1>2, <1>3, <1>4 DEF Updated
<1>6. AddPPPInterfaces(f) = [h EXCEPT !.dirtyPppModules = {}]
  BY DEF AddPPPInterfaces, h, D
<1>7. [h EXCEPT !.dirtyPppModules = {}].nextHopInterface = h.nextHopInterface
  BY <1>5 DEF Fabrics
<1>. QED  BY <1>5, <1>6, <1>7

LEMMA HandoverKeepsMatrix ==
  ASSUME RestInv, HandleHandoverTimer, NEW n \in Routers, NEW m \in Routers
  PROVE  fabric'.nextHopInterface[n][m] = fabric.nextHopInterface[n][m]
<1>1. PICK links \in HardHandovers : started /\ RefreshLinks(fabric, links)
  BY DEF HandleHandoverTimer
<1> DEFINE utl       == userTerminalLinks
           lost      == Lost(utl, links)
           created   == Created(utl, links)
           L         == LinksOf(groundStationLinks, utl)
           cut       == RemoveUserTerminalLinks(fabric, lost)
           refreshed == CreateUserTerminalLinks(cut, created)
           ready     == AddPPPInterfaces(refreshed)
<1>2. fabric' = IF created # {} THEN FinalizeUserTerminalLinks(ready, links) ELSE ready
  BY <1>1 DEF RefreshLinks, Lost, Created
<1>3. /\ groundStationLinks \in SUBSET GroundStationPairs /\ utl \in TerminalTables
      /\ links \in TerminalTables /\ FabricInv(fabric, L, {})
  BY <1>1 DEF RestInv, HardHandovers, TerminalTables
<1>4. /\ TerminalLinks(utl) \subseteq UserTerminals \X Satellites
      /\ TerminalLinks(links) \subseteq UserTerminals \X Satellites
      /\ TerminalLinks(links) \intersect GroundStationPairs = {}
      /\ TerminalLinks(links) \intersect FixedLinks = {}
      /\ lost \subseteq SkyPairs /\ created \subseteq SkyPairs
  <2>1. links \in [UserTerminals -> Satellites \union {Free}] /\ utl \in [UserTerminals -> Satellites \union {Free}]
    BY <1>3 DEF TerminalTables
  <2>2. /\ TerminalLinks(utl) \subseteq UserTerminals \X Satellites
        /\ TerminalLinks(links) \subseteq UserTerminals \X Satellites
        /\ TerminalLinks(utl) \subseteq SkyPairs /\ TerminalLinks(links) \subseteq SkyPairs
    BY <2>1, TerminalLinksKinds
  <2>3. lost \subseteq SkyPairs /\ created \subseteq SkyPairs
    BY <2>2 DEF Lost, Created
  <2>. QED  BY <1>3, <2>2, <2>3, PairsDisjoint
<1>5. lost \subseteq UserTerminals \X Satellites /\ created \subseteq UserTerminals \X Satellites
  BY <1>4 DEF Lost, Created
<1>6. lost \subseteq L /\ created \intersect (L \ lost) = {}
  BY <1>3, <1>4 DEF Lost, Created, LinksOf
<1> HIDE DEF lost, created, L
<1>7. cut.nextHopInterface = fabric.nextHopInterface
  <2>1. \A p \in lost : IF p \in {} THEN p \notin L ELSE p \in L /\ p \notin {}
    BY <1>6
  <2>. QED  BY <1>3, <1>5, <2>1, LoopKeepsMatrix DEF RemoveUserTerminalLinks
<1>8. FabricInv(cut, L \ lost, {})
  <2>1. lost \intersect {} = {}
    OBVIOUS
  <2>. QED  BY <1>3, <1>4, <1>6, <2>1, RemoveUserTerminalLinksKeeps
<1> HIDE DEF cut
<1>9. refreshed.nextHopInterface = cut.nextHopInterface
  <2>1. \A p \in created : IF p \in created THEN p \notin L \ lost ELSE p \in L \ lost /\ p \notin {}
    BY <1>6
  <2>. QED  BY <1>5, <1>8, <2>1, LoopKeepsMatrix DEF CreateUserTerminalLinks
<1>10. FabricInv(refreshed, (L \ lost) \union created, {} \union created)
  BY <1>4, <1>6, <1>8, CreateUserTerminalLinksKeeps
<1> HIDE DEF refreshed
<1>11. {} \union created = created
  OBVIOUS
<1>12. ready.nextHopInterface[n][m] = refreshed.nextHopInterface[n][m]
  BY <1>5, <1>10, <1>11, InterfacesKeepMatrix
<1>13. ready \in Fabrics
  <2>1. {} \union created \subseteq SkyPairs
    BY <1>4
  <2>2. FabricInv(ready, (L \ lost) \union created, {} \union created)
    BY <1>10, <2>1, AddPPPInterfacesKeeps
  <2>. QED  BY <2>2 DEF FabricInv
<1> HIDE DEF ready
<1>14. FinalizeUserTerminalLinks(ready, links).nextHopInterface = ready.nextHopInterface
  BY <1>13 DEF FinalizeUserTerminalLinks, Fabrics
<1>. QED  BY <1>2, <1>7, <1>9, <1>12, <1>14

-----------------------------------------------------------------------------
(* Saving and loading.                                                     *)

(* The invariant: the tables are those that the records resolve to now.    *)
Resolved == routes = "current" => primaryNextHopInterfaces = InterfaceTables(fabric, ~loadFiles, routeFile)

ResolvedInv == ForwardingInv /\ Resolved

LEMMA SameMatrix ==
  ASSUME NEW f, NEW g, NEW saving, NEW file, NEW tables, TablesLead(f, saving, file, tables),
         \A n, m \in Routers : g.nextHopInterface[n][m] = f.nextHopInterface[n][m]
  PROVE  InterfaceTables(g, saving, file) = InterfaceTables(f, saving, file)
<1> DEFINE entry(h, n, m) == IF HopIn(file, saving, n, m) = Free THEN NoInterface
                             ELSE h.nextHopInterface[n][HopIn(file, saving, n, m)]
<1>1. \A h : InterfaceTables(h, saving, file) = [n \in Routers |-> [m \in Routers |-> entry(h, n, m)]]
  BY DEF InterfaceTables, HopIn
<1>2. ASSUME NEW n \in Routers, NEW m \in Routers PROVE entry(g, n, m) = entry(f, n, m)
  <2>1. HopIn(file, saving, n, m) \in Routers \union {Free}
    BY DEF TablesLead, Led
  <2>. QED  BY <2>1
<1> HIDE DEF entry
<1>. QED  BY <1>1, <1>2

LEMMA ResolvedNext == ResolvedInv /\ [ForwardingNext]_forwardingVars => ResolvedInv'
<1> SUFFICES ASSUME ResolvedInv, [ForwardingNext]_forwardingVars PROVE ResolvedInv'
  OBVIOUS
<1>1. ForwardingInv /\ Resolved /\ ForwardingInv'
  BY ForwardingNextKeeps DEF ResolvedInv
<1>2. CASE UpdateForwardingStates
  <2>1. loadFiles' = loadFiles
    BY <1>2 DEF UpdateForwardingStates
  <2>2. CASE RouteFileMissing
    BY <1>1, <2>2 DEF RouteFileMissing, ResolvedInv, Resolved
  <2>3. CASE NewRoutes
    BY <1>1, <2>1, <2>3 DEF NewRoutes, ResolvedInv, Resolved
  <2>4. CASE RouteFileEmpty
    BY <1>1, <2>4 DEF RouteFileEmpty, ResolvedInv, Resolved
  <2>5. CASE RouteFileCut
    BY <1>1, <2>5 DEF RouteFileCut, ResolvedInv, Resolved
  <2>. QED  BY <1>2, <2>2, <2>3, <2>4, <2>5 DEF UpdateForwardingStates
<1>3. CASE HandleHandoverTimer /\ UNCHANGED <<loadFiles, routeVars>>
  <2>1. /\ loadFiles' = loadFiles /\ routes' = routes
        /\ routeFile' = routeFile /\ primaryNextHopInterfaces' = primaryNextHopInterfaces
    BY <1>3 DEF routeVars
  <2>2. SUFFICES ASSUME routes = "current" PROVE Resolved'
    BY <1>1, <2>1 DEF ResolvedInv, Resolved
  <2>3. TablesLead(fabric, ~loadFiles, routeFile, primaryNextHopInterfaces) /\ RestInv
    BY <1>1, <2>2 DEF ForwardingInv, RoutesOK
  <2>4. \A n, m \in Routers : fabric'.nextHopInterface[n][m] = fabric.nextHopInterface[n][m]
    BY <1>3, <2>3, HandoverKeepsMatrix
  <2>5. InterfaceTables(fabric', ~loadFiles, routeFile) = InterfaceTables(fabric, ~loadFiles, routeFile)
    BY <2>3, <2>4, SameMatrix
  <2>. QED  BY <1>1, <2>1, <2>2, <2>5 DEF Resolved
<1>4. CASE UNCHANGED forwardingVars
  <2>1. UNCHANGED <<fabricVars, loadFiles, routeVars>>
    BY <1>4 DEF forwardingVars
  <2>2. /\ fabric' = fabric /\ loadFiles' = loadFiles /\ routes' = routes
        /\ routeFile' = routeFile /\ primaryNextHopInterfaces' = primaryNextHopInterfaces
    BY <2>1 DEF fabricVars, routeVars
  <2>. QED  BY <1>1, <2>2 DEF ResolvedInv, Resolved
<1>. QED  BY <1>2, <1>3, <1>4 DEF ForwardingNext

LEMMA AlwaysResolved == ForwardingSpec => []ResolvedInv
<1>1. ForwardingInit => ResolvedInv
  BY ForwardingInitKeeps DEF ForwardingInit, ResolvedInv, Resolved
<1>. QED  BY <1>1, ResolvedNext, PTL DEF ForwardingSpec

(* The load is where a saved file and a loaded one are told apart: by the  *)
(* rank of a record, which matters only if there are several paths.        *)
LEMMA RanksAgree ==
  ASSUME numOfKPaths <= 1, NEW file, NEW f
  PROVE  InterfaceTables(f, FALSE, file) = InterfaceTables(f, TRUE, file)
<1>1. \A i : Rank(FALSE, i) = 1 /\ Rank(TRUE, i) = 1
  BY ForwardingAssumption DEF Rank
<1>2. \A records : PrimaryHop(FALSE, records) = PrimaryHop(TRUE, records)
  BY <1>1 DEF PrimaryHop
<1>3. \A n, m : HopIn(file, FALSE, n, m) = HopIn(file, TRUE, n, m)
  BY <1>2 DEF HopIn
<1> DEFINE loaded(n, m) == IF HopIn(file, FALSE, n, m) = Free THEN NoInterface
                           ELSE f.nextHopInterface[n][HopIn(file, FALSE, n, m)]
           saved(n, m)  == IF HopIn(file, TRUE, n, m) = Free THEN NoInterface
                           ELSE f.nextHopInterface[n][HopIn(file, TRUE, n, m)]
<1>4. /\ InterfaceTables(f, FALSE, file) = [n \in Routers |-> [m \in Routers |-> loaded(n, m)]]
      /\ InterfaceTables(f, TRUE, file) = [n \in Routers |-> [m \in Routers |-> saved(n, m)]]
  BY DEF InterfaceTables, HopIn
<1>5. \A n, m : loaded(n, m) = saved(n, m)
  BY <1>3
<1> HIDE DEF loaded, saved
<1>. QED  BY <1>4, <1>5

LEMMA ParameterFixed == ForwardingSpec => [](loadFiles \in LoadFiles)
<1>1. ForwardingInit => loadFiles \in LoadFiles
  BY DEF ForwardingInit
<1>2. loadFiles \in LoadFiles /\ [ForwardingNext]_forwardingVars => (loadFiles \in LoadFiles)'
  BY DEF ForwardingNext, UpdateForwardingStates, forwardingVars
<1>. QED  BY <1>1, <1>2, PTL DEF ForwardingSpec

(* Where files are loaded only for single paths, every run that loads one  *)
(* has the tables of the run that saved it, after any update that found    *)
(* its file and any number of events after that.                           *)
THEOREM LoadsReproduceSaves ==
  ASSUME numOfKPaths > 1 => TRUE \notin LoadFiles
  PROVE  ForwardingSpec => []LoadReproducesSave
<1>1. ResolvedInv /\ loadFiles \in LoadFiles => LoadReproducesSave
  <2> SUFFICES ASSUME ResolvedInv, loadFiles \in LoadFiles, routes = "current"
               PROVE  primaryNextHopInterfaces = InterfaceTables(fabric, TRUE, routeFile)
    BY DEF LoadReproducesSave
  <2>1. primaryNextHopInterfaces = InterfaceTables(fabric, ~loadFiles, routeFile) /\ loadFiles \in BOOLEAN
    BY DEF ResolvedInv, Resolved, ForwardingInv
  <2>2. CASE loadFiles = FALSE
    BY <2>1, <2>2
  <2>3. CASE loadFiles = TRUE
    <3>3. TRUE \in LoadFiles
      BY <2>3, Zenon
    <3>1. numOfKPaths <= 1
      <4>1. ~(numOfKPaths > 1)
        BY <3>3, Zenon
      <4>. QED  BY <4>1, ForwardingAssumption
    <3>2. (~loadFiles) = FALSE
      BY <2>3
    <3>. QED  BY <2>1, <3>1, <3>2, RanksAgree
  <2>. QED  BY <2>1, <2>2, <2>3
<1>. QED  BY <1>1, AlwaysResolved, ParameterFixed, PTL

-----------------------------------------------------------------------------
(* One hop of a packet.                                                    *)

LEMMA ThroughGate ==
  ASSUME RestInv, started, NEW n \in Nodes
  PROVE  /\ \A m \in Nodes : \A i \in GatesTo(fabric, n, m) :
              i \in fabric.up[n] /\ fabric.gate[n][i] = m
         /\ NoInterface \notin fabric.up[n]
<1>1. fabric \in Fabrics /\ Free \notin Nodes
  BY FabricAssumption DEF RestInv, FabricInv
<1>2. fabric.up[n] = {i \in DOMAIN fabric.gate[n] : fabric.gate[n][i] # Free}
  BY InterfacesAtRest DEF InterfacesFollowGates
<1>3. DOMAIN fabric.gate[n] = 1 .. Len(fabric.gate[n]) /\ Len(fabric.gate[n]) \in Nat
  BY <1>1, FabricFields
<1>4. \A m \in Nodes : \A i \in GatesTo(fabric, n, m) :
        i \in 1 .. Len(fabric.gate[n]) /\ fabric.gate[n][i] = m
  BY <1>1, GatesToMember
<1>. QED  BY <1>1, <1>2, <1>3, <1>4 DEF NoInterface

(* An endpoint knows the node that it is attached to, and nobody knows the *)
(* address of one that is not attached.                                    *)
LEMMA Attached ==
  ASSUME RestInv, started, NEW e \in Endpoints
  PROVE  /\ e \notin Routers /\ e \in Nodes /\ AttachedTo(e) \in Routers \union {Free}
         /\ AttachedTo(e) = Free => ~AddressKnown(e) /\ endpointTable[e] = Detached
         /\ AttachedTo(e) # Free => /\ endpointTable[e].node = AttachedTo(e)
                                    /\ endpointTable[e].attachment \in GatesTo(fabric, AttachedTo(e), e)
                                    /\ endpointTable[e].uplink \in GatesTo(fabric, e, AttachedTo(e))
<1> DEFINE at == AttachmentOf(userTerminalLinks, e)
<1>1. /\ groundStationLinks \in SUBSET GroundStationPairs /\ userTerminalLinks \in TerminalTables
      /\ FabricInv(fabric, LinksOf(groundStationLinks, userTerminalLinks), {})
      /\ TablesCurrent(fabric, userTerminalLinks, endpointTable)
  BY DEF RestInv
<1>2. /\ at \in Routers \union {Free} /\ e \in Nodes /\ Free \notin Nodes
      /\ Routers \subseteq Nodes /\ e \notin Routers
      /\ \A n \in Nodes : /\ Joined(LinksOf(groundStationLinks, userTerminalLinks), e, n) <=> n = at
                          /\ <<e, n>> \notin GridPairs
  BY <1>1, EndpointLinks
<1>3. AttachedTo(e) = at
  <2>1. UserTerminals \intersect EndUsers = {} /\ e \in UserTerminals \union EndUsers
    BY FabricAssumption DEF Endpoints
  <2>2. CASE e \in EndUsers
    BY <1>2, <2>1, <2>2 DEF AttachedTo, AttachmentOf
  <2>3. CASE e \in UserTerminals
    BY <1>2, <2>1, <2>3 DEF AttachedTo, AttachmentOf
  <2>. QED  BY <2>1, <2>2, <2>3
<1>4. ASSUME at = Free PROVE ~AddressKnown(e)
  <2>1. fabric \in Fabrics /\ GatesOK(fabric, LinksOf(groundStationLinks, userTerminalLinks))
    BY <1>1 DEF FabricInv
  <2>2. \A n \in Nodes : GatesTo(fabric, e, n) = {}
    <3> SUFFICES ASSUME NEW n \in Nodes PROVE GatesTo(fabric, e, n) = {}
      OBVIOUS
    <3>1. ~Joined(LinksOf(groundStationLinks, userTerminalLinks), e, n) /\ <<e, n>> \notin GridPairs
      BY <1>2, <1>4
    <3>. QED  BY <1>2, <2>1, <3>1 DEF GatesOK
  <2>3. fabric.routerId[e] = {i \in DOMAIN fabric.gate[e] : fabric.gate[e][i] # Free}
    BY <1>2, InterfacesAtRest DEF InterfacesFollowGates
  <2>4. fabric.gate[e] \in Seq(Nodes \union {Free})
    BY <1>2, <2>1, FabricFields
  <2>5. \A i \in DOMAIN fabric.gate[e] : fabric.gate[e][i] = Free
    <3> SUFFICES ASSUME NEW i \in DOMAIN fabric.gate[e], fabric.gate[e][i] # Free PROVE FALSE
      OBVIOUS
    <3>1. fabric.gate[e][i] \in Nodes
      BY <2>4
    <3>2. i \in GatesTo(fabric, e, fabric.gate[e][i])
      BY DEF GatesTo
    <3>. QED  BY <2>2, <3>1, <3>2
  <2>. QED  BY <2>3, <2>5 DEF AddressKnown
<1>5. TableCurrent(fabric, userTerminalLinks, endpointTable, e)
  BY <1>1 DEF TablesCurrent
<1> HIDE DEF at
<1>6. /\ at = Free => endpointTable[e] = Detached
      /\ at # Free => /\ endpointTable[e].node = at
                      /\ endpointTable[e].attachment \in GatesTo(fabric, at, e)
                      /\ endpointTable[e].uplink \in GatesTo(fabric, e, at)
  BY <1>5 DEF TableCurrent, at
<1>. QED  BY <1>2, <1>3, <1>4, <1>6

LEMMA EndpointSends ==
  ASSUME RestInv, started, NEW n \in Endpoints, NEW m \in Nodes
  PROVE  NextNode(n, m) = AttachedTo(n)
<1>1. /\ n \notin Routers /\ n \in Nodes /\ AttachedTo(n) \in Routers \union {Free}
      /\ AttachedTo(n) = Free => endpointTable[n] = Detached
      /\ AttachedTo(n) # Free => endpointTable[n].uplink \in GatesTo(fabric, n, AttachedTo(n))
  BY Attached
<1>2. OutgoingInterface(n, m) = endpointTable[n].uplink
  <2>1. Uplink(n) = endpointTable[n].uplink
    BY DEF Uplink
  <2>2. PrimaryInterface(n, m) = NoInterface
    BY <1>1 DEF PrimaryInterface
  <2>3. CASE m \in Endpoints /\ AddressKnown(m)
    <3>1. n # endpointTable[m].node
      <4>1. AttachedTo(m) # Free /\ AttachedTo(m) \in Routers /\ endpointTable[m].node = AttachedTo(m)
        BY <2>3, Attached
      <4>. QED  BY <1>1, <4>1
    <3>. QED  BY <1>1, <2>1, <2>3, <3>1 DEF OutgoingInterface
  <2>4. CASE ~(m \in Endpoints /\ AddressKnown(m))
    BY <2>1, <2>2, <2>4 DEF OutgoingInterface
  <2>. QED  BY <2>3, <2>4
<1>3. CASE AttachedTo(n) = Free
  <2>1. OutgoingInterface(n, m) = NoInterface
    BY <1>1, <1>2, <1>3 DEF Detached
  <2>2. NoInterface \notin fabric.up[n]
    BY <1>1, ThroughGate
  <2>. QED  BY <1>3, <2>1, <2>2 DEF NextNode
<1>4. CASE AttachedTo(n) # Free
  <2>1. AttachedTo(n) \in Nodes
    BY <1>1, <1>4 DEF Nodes
  <2>2. endpointTable[n].uplink \in fabric.up[n] /\ fabric.gate[n][endpointTable[n].uplink] = AttachedTo(n)
    BY <1>1, <1>4, <2>1, ThroughGate
  <2>. QED  BY <1>2, <2>2 DEF NextNode
<1>. QED  BY <1>3, <1>4

(* The next hop of the route in use.                                       *)
Hop(n, t) == HopIn(routeFile, ~loadFiles, n, t)

LEMMA RouteFollowed ==
  ASSUME ForwardingInv, routes = "current", NEW n \in Routers, NEW t \in Routers
  PROVE  LET i == PrimaryInterface(n, t)
         IN  /\ Hop(n, t) \in Routers \union {Free}
             /\ i = NoInterface => Hop(n, t) = Free
             /\ (IF i \in fabric.up[n] THEN fabric.gate[n][i] ELSE Free) = Hop(n, t)
<1> DEFINE i == PrimaryInterface(n, t)
           hop == Hop(n, t)
<1>1. i = primaryNextHopInterfaces[n][t]
  BY DEF PrimaryInterface
<1>2. started /\ RestInv /\ Led(fabric, hop, n, i)
  BY <1>1 DEF ForwardingInv, RoutesOK, TablesLead, Hop
<1> HIDE DEF i, hop
<1>3. n \in Nodes /\ Routers \subseteq Nodes
  BY DEF Nodes
<1>4. /\ \A m \in Nodes : \A k \in GatesTo(fabric, n, m) : k \in fabric.up[n] /\ fabric.gate[n][k] = m
      /\ NoInterface \notin fabric.up[n]
  BY <1>2, <1>3, ThroughGate
<1>5. CASE hop = Free
  <2>1. i = NoInterface
    BY <1>2, <1>5 DEF Led
  <2>. QED  BY <1>4, <1>5, <2>1 DEF i, hop
<1>6. CASE hop # Free
  <2>1. hop \in Routers /\ i \in GatesTo(fabric, n, hop)
    BY <1>2, <1>6 DEF Led
  <2>2. i \in fabric.up[n] /\ fabric.gate[n][i] = hop /\ i # NoInterface
    BY <1>3, <1>4, <2>1
  <2>. QED  BY <2>1, <2>2 DEF i, hop
<1>. QED  BY <1>5, <1>6

(* What a router does with a packet: for an address that is known, it      *)
(* follows the route to the router that the destination is, or is attached *)
(* to, and there the packet is handed over.                                *)
RouterSends(n, m) ==
  \/ ~AddressKnown(m) /\ NextNode(n, m) = Free
  \/ /\ AddressKnown(m) /\ AttachedTo(m) \in Routers
     /\ IF n = AttachedTo(m) THEN NextNode(n, m) = (IF m \in Endpoints THEN m ELSE Free)
        ELSE NextNode(n, m) = Hop(n, AttachedTo(m))

LEMMA RouterSendsOn ==
  ASSUME ForwardingInv, routes = "current", NEW n \in Routers, NEW m \in Nodes
  PROVE  RouterSends(n, m)
<1>1. RestInv /\ started
  BY DEF ForwardingInv, RoutesOK
<1>2. n \notin Endpoints /\ n \in Nodes
  BY FabricAssumption DEF Nodes
<1>3. Uplink(n) = NoInterface
  BY <1>2 DEF Uplink
<1>4. /\ \A x \in Nodes : \A k \in GatesTo(fabric, n, x) : k \in fabric.up[n] /\ fabric.gate[n][k] = x
      /\ NoInterface \notin fabric.up[n]
  BY <1>1, <1>2, ThroughGate
<1>5. CASE ~AddressKnown(m)
  <2>1. OutgoingInterface(n, m) = NoInterface
    BY <1>3, <1>5 DEF OutgoingInterface
  <2>. QED  BY <1>4, <1>5, <2>1 DEF NextNode, RouterSends
<1>6. CASE AddressKnown(m) /\ m \in Routers
  <2>1. AttachedTo(m) = m /\ m \notin Endpoints
    BY <1>6, FabricAssumption DEF AttachedTo, Endpoints
  <2>2. OutgoingInterface(n, m) = PrimaryInterface(n, m)
    BY <1>3, <1>6, <2>1 DEF OutgoingInterface
  <2>3. NextNode(n, m) = Hop(n, m)
    BY <1>6, <2>2, RouteFollowed DEF NextNode
  <2>4. n = m => Hop(n, m) = Free
    BY DEF Hop, HopIn
  <2>. QED  BY <1>6, <2>1, <2>3, <2>4 DEF RouterSends
<1>7. CASE AddressKnown(m) /\ m \in Endpoints
  <2>1. /\ AttachedTo(m) \in Routers /\ endpointTable[m].node = AttachedTo(m)
        /\ endpointTable[m].attachment \in GatesTo(fabric, AttachedTo(m), m)
    BY <1>1, <1>7, Attached
  <2>2. CASE n = AttachedTo(m)
    <3>1. OutgoingInterface(n, m) = endpointTable[m].attachment
      BY <1>7, <2>1, <2>2 DEF OutgoingInterface
    <3>2. endpointTable[m].attachment \in fabric.up[n] /\ fabric.gate[n][endpointTable[m].attachment] = m
      BY <1>4, <2>1, <2>2
    <3>3. NextNode(n, m) = m
      BY <3>1, <3>2 DEF NextNode
    <3>. QED  BY <1>7, <2>1, <2>2, <3>3 DEF RouterSends
  <2>3. CASE n # AttachedTo(m)
    <3>1. OutgoingInterface(n, m) = PrimaryInterface(n, AttachedTo(m))
      BY <1>2, <1>7, <2>1, <2>3 DEF OutgoingInterface
    <3>2. NextNode(n, m) = Hop(n, AttachedTo(m))
      BY <2>1, <3>1, RouteFollowed DEF NextNode
    <3>. QED  BY <1>7, <2>1, <2>3, <3>2 DEF RouterSends
  <2>. QED  BY <2>2, <2>3
<1>. QED  BY <1>5, <1>6, <1>7 DEF Nodes

(* The gate that a router chooses for a known address: one that the tables *)
(* of the endpoints name for the destination, or an entry of its routes.   *)
LEMMA RouterChooses ==
  ASSUME RestInv, started, NEW n \in Routers, NEW m \in Nodes
  PROVE  \/ NextNode(n, m) \in {m, Free}
         \/ \E t \in Routers : OutgoingInterface(n, m) = primaryNextHopInterfaces[n][t]
<1>1. n \notin Endpoints /\ n \in Nodes
  BY FabricAssumption DEF Nodes
<1>2. Uplink(n) = NoInterface
  BY <1>1 DEF Uplink
<1>3. /\ \A x \in Nodes : \A k \in GatesTo(fabric, n, x) : k \in fabric.up[n] /\ fabric.gate[n][k] = x
      /\ NoInterface \notin fabric.up[n]
  BY <1>1, ThroughGate
<1>4. CASE OutgoingInterface(n, m) = NoInterface
  BY <1>3, <1>4 DEF NextNode
<1>5. CASE m \in Routers /\ OutgoingInterface(n, m) # NoInterface
  <2>1. m \notin Endpoints
    BY <1>5, FabricAssumption
  <2>2. OutgoingInterface(n, m) = PrimaryInterface(n, m)
    BY <1>2, <1>5, <2>1 DEF OutgoingInterface
  <2>. QED  BY <1>5, <2>2 DEF PrimaryInterface
<1>6. CASE m \in Endpoints /\ OutgoingInterface(n, m) # NoInterface
  <2>1. m \notin Routers
    BY <1>6, FabricAssumption
  <2>2. AddressKnown(m)
    BY <1>2, <1>6, <2>1 DEF OutgoingInterface, PrimaryInterface
  <2>3. /\ AttachedTo(m) \in Routers /\ endpointTable[m].node = AttachedTo(m)
        /\ endpointTable[m].attachment \in GatesTo(fabric, AttachedTo(m), m)
    BY <1>6, <2>2, Attached
  <2>4. CASE n = AttachedTo(m)
    <3>1. OutgoingInterface(n, m) = endpointTable[m].attachment
      BY <1>6, <2>2, <2>3, <2>4 DEF OutgoingInterface
    <3>2. endpointTable[m].attachment \in fabric.up[n] /\ fabric.gate[n][endpointTable[m].attachment] = m
      BY <1>3, <2>3, <2>4
    <3>. QED  BY <3>1, <3>2 DEF NextNode
  <2>5. CASE n # AttachedTo(m)
    <3>1. OutgoingInterface(n, m) = PrimaryInterface(n, AttachedTo(m))
      BY <1>1, <1>6, <2>2, <2>3, <2>5 DEF OutgoingInterface
    <3>. QED  BY <2>3, <3>1 DEF PrimaryInterface
  <2>. QED  BY <2>4, <2>5
<1>. QED  BY <1>4, <1>5, <1>6 DEF Nodes

(* Through an interface that runs a packet gets to the node of its gate.   *)
LEMMA ThroughRunning ==
  ASSUME RestInv, started, NEW n \in Nodes, NEW m, NextNode(n, m) # Free
  PROVE  OutgoingInterface(n, m) \in GatesTo(fabric, n, NextNode(n, m))
<1> DEFINE i == OutgoingInterface(n, m)
<1>1. i \in fabric.up[n] /\ NextNode(n, m) = fabric.gate[n][i]
  BY DEF NextNode
<1>2. fabric.up[n] = {k \in DOMAIN fabric.gate[n] : fabric.gate[n][k] # Free}
  BY InterfacesAtRest DEF InterfacesFollowGates
<1> HIDE DEF i
<1>3. i \in DOMAIN fabric.gate[n]
  BY <1>1, <1>2
<1>. QED  BY <1>1, <1>3 DEF GatesTo, i

(* However old the routes are, after any number of updates without a route *)
(* file and whatever gates have been given to other links since: no router *)
(* hands a packet to a client or server that it is not for. To a wrong     *)
(* user terminal none is handed as long as the tables were renewed in the  *)
(* last update, be it from part of a file.                                 *)
THEOREM HandedToDestinations == ForwardingSpec => []OnlyForDestination
<1>1. ForwardingInv => OnlyForDestination
  <2> SUFFICES ASSUME ForwardingInv, NEW n \in Routers, NEW m \in Nodes \ {n},
                      NextNode(n, m) \notin {m, Free}
               PROVE  /\ NextNode(n, m) \notin EndUsers
                      /\ routes # "old" => NextNode(n, m) \notin UserTerminals
    <3>1. Free \notin EndUsers \union UserTerminals
      BY FabricAssumption DEF Nodes, Endpoints
    <3>. QED  BY <3>1 DEF OnlyForDestination
  <2>1. RestInv /\ EntriesOK /\ n \in Nodes
    BY DEF ForwardingInv, Nodes
  <2>2. started
    <3> SUFFICES ASSUME ~started PROVE FALSE
      OBVIOUS
    <3>1. fabric.up[n] = {}
      BY <2>1 DEF RestInv, Unconnected
    <3>. QED  BY <3>1 DEF NextNode
  <2>3. PICK t \in Routers : OutgoingInterface(n, m) = primaryNextHopInterfaces[n][t]
    BY <2>1, <2>2, RouterChooses
  <2>4. primaryNextHopInterfaces[n][t] \in GatesTo(fabric, n, NextNode(n, m))
    BY <2>1, <2>2, <2>3, ThroughRunning
  <2>5. NextNode(n, m) \notin EndUsers
    BY <2>1, <2>2, <2>4 DEF EntriesOK, OffWires
  <2>6. ASSUME routes # "old" PROVE NextNode(n, m) \notin UserTerminals
    <3>1. fabric \in Fabrics /\ LeadOn(fabric, primaryNextHopInterfaces)
      BY <2>1, <2>2, <2>6, FabricAtRest DEF EntriesOK
    <3>2. \A e \in Endpoints : primaryNextHopInterfaces[n][t] \notin GatesTo(fabric, n, e)
      BY <3>1, OnwardsIsOffWires
    <3>. QED  BY <2>4, <3>2 DEF Endpoints
  <2>. QED  BY <2>5, <2>6
<1>. QED  BY <1>1, AlwaysForwarding, PTL

-----------------------------------------------------------------------------
(* The way of a packet.                                                    *)

Hops  == Cardinality(Nodes)
Spots == [at: Nodes \union {Free}, total: Nat]

(* The weights that the routes in use were computed with.                  *)
WeightsInUse == EdgeWeights(groundStationLinks, delay)
BestInUse    == numOfKPaths <= 1 \/ ~loadFiles

LEMMA InUse ==
  ASSUME ForwardingInv, routes = "current"
  PROVE  /\ Weighing(WeightsInUse) /\ DOMAIN WeightsInUse = RouterLinks(groundStationLinks)
         /\ delay \in [RouterLinks(groundStationLinks) -> Nat \ {0}]
         /\ AddressesInOrder => WeightsInUse = delay
         /\ \A n, t \in Routers :
              n # t => /\ HopTowards(Hop(n, t), n, t, WeightsInUse, BestInUse)
                       /\ Hop(n, t) # Free => {n, Hop(n, t)} \in RouterLinks(groundStationLinks)
<1>1. /\ groundStationLinks \in SUBSET GroundStationPairs /\ delay \in DelaysOf(groundStationLinks)
      /\ routeFile \in RouteRecords(groundStationLinks, delay) /\ (~loadFiles) \in BOOLEAN
  BY DEF ForwardingInv, RestInv, RoutesOK
<1>2. /\ Weighing(WeightsInUse) /\ DOMAIN WeightsInUse = RouterLinks(groundStationLinks)
      /\ AddressesInOrder => WeightsInUse = delay
  BY <1>1, EdgeWeightsFacts DEF WeightsInUse
<1>3. delay \in [RouterLinks(groundStationLinks) -> Nat \ {0}]
  BY <1>1, DelaysArePositive
<1>4. ASSUME NEW n \in Routers, NEW t \in Routers, n # t
      PROVE  /\ HopTowards(Hop(n, t), n, t, WeightsInUse, BestInUse)
             /\ Hop(n, t) # Free => {n, Hop(n, t)} \in RouterLinks(groundStationLinks)
  <2>1. HopTowards(Hop(n, t), n, t, EdgeWeights(groundStationLinks, delay), BestInUse)
    BY <1>1, <1>4, HopsAre DEF Hop, BestInUse
  <2>2. Hop(n, t) # Free => {n, Hop(n, t)} \in RouterLinks(groundStationLinks)
    BY <1>1, <2>1, HopIsLinked
  <2>. QED  BY <2>1, <2>2 DEF WeightsInUse
<1>. QED  BY <1>2, <1>3, <1>4

LEMMA NextNodeType ==
  ASSUME ForwardingInv, routes = "current", NEW n \in Nodes, NEW m \in Nodes
  PROVE  /\ NextNode(n, m) \in Nodes \union {Free}
         /\ n \in Routers /\ NextNode(n, m) \in Routers => {n, NextNode(n, m)} \in RouterLinks(groundStationLinks)
<1>1. RestInv /\ started
  BY DEF ForwardingInv, RoutesOK
<1>2. Routers \subseteq Nodes /\ Routers \intersect Endpoints = {} /\ Free \notin Routers
  BY FabricAssumption DEF Nodes
<1>3. CASE n \in Endpoints
  <2>1. NextNode(n, m) = AttachedTo(n) /\ AttachedTo(n) \in Routers \union {Free}
    BY <1>1, <1>3, EndpointSends, Attached
  <2>. QED  BY <1>2, <1>3, <2>1
<1>4. CASE n \in Routers
  <2>1. RouterSends(n, m)
    BY <1>4, RouterSendsOn
  <2>2. CASE NextNode(n, m) = Free
    BY <1>2, <2>2
  <2>3. CASE NextNode(n, m) = m /\ m \in Endpoints
    BY <1>2, <2>3
  <2>4. CASE AttachedTo(m) \in Routers /\ n # AttachedTo(m) /\ NextNode(n, m) = Hop(n, AttachedTo(m))
    <3>1. Hop(n, AttachedTo(m)) \in Routers \union {Free}
      BY <1>4, <2>4, RouteFollowed
    <3>2. Hop(n, AttachedTo(m)) # Free => {n, Hop(n, AttachedTo(m))} \in RouterLinks(groundStationLinks)
      BY <1>4, <2>4, InUse
    <3>. QED  BY <1>2, <2>4, <3>1, <3>2
  <2>. QED  BY <2>1, <2>2, <2>3, <2>4 DEF RouterSends
<1>. QED  BY <1>3, <1>4 DEF Nodes

LEMMA AfterHopIs ==
  ASSUME ForwardingInv, routes = "current", NEW m \in Nodes, NEW was \in Spots
  PROVE  /\ AfterHop(was, m) \in Spots
         /\ was.at \in {m, Free} => AfterHop(was, m) = was
         /\ was.at \notin {m, Free} =>
              /\ AfterHop(was, m).at = NextNode(was.at, m)
              /\ AfterHop(was, m).total = IF {was.at, NextNode(was.at, m)} \subseteq Routers
                                          THEN was.total + delay[{was.at, NextNode(was.at, m)}]
                                          ELSE was.total
<1> DEFINE next == NextNode(was.at, m)
           sum  == IF {was.at, next} \subseteq Routers THEN was.total + delay[{was.at, next}] ELSE was.total
<1>1. was.at \in Nodes \union {Free} /\ was.total \in Nat
  BY DEF Spots
<1>2. AfterHop(was, m) = IF was.at \in {m, Free} THEN was ELSE [at |-> next, total |-> sum]
  BY DEF AfterHop
<1>3. ASSUME was.at \notin {m, Free} PROVE next \in Nodes \union {Free} /\ sum \in Nat
  <2>1. was.at \in Nodes
    BY <1>1, <1>3
  <2>2. /\ next \in Nodes \union {Free}
        /\ was.at \in Routers /\ next \in Routers => {was.at, next} \in RouterLinks(groundStationLinks)
    BY <2>1, NextNodeType
  <2>3. delay \in [RouterLinks(groundStationLinks) -> Nat \ {0}]
    BY InUse
  <2> HIDE DEF next
  <2>4. CASE {was.at, next} \subseteq Routers
    <3>1. {was.at, next} \in RouterLinks(groundStationLinks)
      BY <2>2, <2>4
    <3>2. delay[{was.at, next}] \in Nat
      BY <2>3, <3>1
    <3>. QED  BY <1>1, <2>2, <2>4, <3>2
  <2>5. CASE ~({was.at, next} \subseteq Routers)
    BY <1>1, <2>2, <2>5
  <2>. QED  BY <2>4, <2>5
<1> HIDE DEF next, sum
<1>4. AfterHop(was, m) \in Spots
  <2>1. CASE was.at \in {m, Free}
    BY <1>2, <2>1
  <2>2. CASE was.at \notin {m, Free}
    BY <1>2, <1>3, <2>2 DEF Spots
  <2>. QED  BY <2>1, <2>2
<1>. QED  BY <1>2, <1>4 DEF next, sum

Travels(h, n, m) ==
  /\ h \in [0 .. Hops -> Spots] /\ h[0] = [at |-> n, total |-> 0]
  /\ \A k \in 1 .. Hops : h[k] = AfterHop(h[k - 1], m)
  /\ Destination(n, m) = h[Hops].at /\ TotalDelay(n, m) = h[Hops].total

LEMMA JourneyUnfolds ==
  ASSUME ForwardingInv, routes = "current", NEW n \in Nodes, NEW m \in Nodes
  PROVE  Hops \in Nat /\ \E h : Travels(h, n, m)
<1> DEFINE start == [at |-> n, total |-> 0]
           h == CHOOSE h : h = [hop \in 0 .. Hops |->
                  IF hop = 0 THEN [at |-> n, total |-> 0] ELSE AfterHop(h[hop - 1], m)]
           G == [x \in (0 .. Hops) \X Spots |-> AfterHop(x[2], m)]
<1>1. Hops \in Nat
  BY FabricAssumption, FS_CardinalityType DEF Hops
<1>2. Journey(n, m) = h
  BY DEF Journey, Hops
<1>3. \A was \in Spots : AfterHop(was, m) \in Spots
  BY AfterHopIs
<1>4. G \in [(0 .. Hops) \X Spots -> Spots]
  <2> SUFFICES ASSUME NEW x \in (0 .. Hops) \X Spots PROVE AfterHop(x[2], m) \in Spots
    OBVIOUS
  <2>1. x[2] \in Spots
    OBVIOUS
  <2>. QED  BY <1>3, <2>1
<1>5. start \in Spots
  BY DEF Spots
<1> HIDE DEF start
<1>6. PICK g \in [0 .. Hops -> Spots] : Recursion(g, 0, Hops, start, G)
  <2>1. 0 \in Nat /\ 0 <= Hops
    BY <1>1
  <2> HIDE DEF G
  <2>. QED  BY <1>1, <1>4, <1>5, <2>1, RecursionExists
<1>7. \A k \in 0 .. Hops : g[k] = IF k = 0 THEN start ELSE G[<<k, g[k - 1]>>]
  <2> HIDE DEF G
  <2>. QED  BY <1>6 DEF Recursion
<1>8. ASSUME NEW k \in 0 .. Hops, k # 0 PROVE G[<<k, g[k - 1]>>] = AfterHop(g[k - 1], m)
  <2>1. k - 1 \in 0 .. Hops
    BY <1>1, <1>8
  <2>2. <<k, g[k - 1]>> \in (0 .. Hops) \X Spots
    BY <1>6, <2>1
  <2>. QED  BY <2>2
<1> HIDE DEF G
<1>9. g = [hop \in 0 .. Hops |-> IF hop = 0 THEN start ELSE AfterHop(g[hop - 1], m)]
  BY <1>6, <1>7, <1>8
<1>10. h = [hop \in 0 .. Hops |-> IF hop = 0 THEN start ELSE AfterHop(h[hop - 1], m)]
  BY <1>9, Zenon DEF start
<1> HIDE DEF h
<1>11. h[0] = start /\ \A k \in 1 .. Hops : h[k] = AfterHop(h[k - 1], m)
  BY <1>1, <1>10
<1> DEFINE S == {k \in 0 .. Hops : h[k] \in Spots}
<1>12. \A k \in 0 .. Hops : k \in S
  <2>1. 0 \in S
    BY <1>1, <1>5, <1>11
  <2>2. ASSUME NEW k \in 1 .. Hops, k - 1 \in S PROVE k \in S
    <3>1. h[k - 1] \in Spots /\ k \in 0 .. Hops
      BY <1>1, <2>2
    <3>. QED  BY <1>3, <1>11, <3>1
  <2> HIDE DEF S
  <2>. QED  BY <1>1, <2>1, <2>2, Upwards
<1>13. h \in [0 .. Hops -> Spots]
  <2>1. h = [k \in 0 .. Hops |-> h[k]]
    BY <1>10
  <2>. QED  BY <1>12, <2>1
<1>14. Destination(n, m) = h[Hops].at /\ TotalDelay(n, m) = h[Hops].total
  BY <1>2 DEF Destination, TotalDelay, Hops
<1>15. Travels(h, n, m)
  BY <1>11, <1>13, <1>14 DEF Travels, start
<1>. QED  BY <1>1, <1>15

-----------------------------------------------------------------------------
(* Delivery. With the best routes, each hop brings the packet nearer to    *)
(* its destination: to the router that it is attached to, and then to it.  *)

LEMMA CostType ==
  ASSUME NEW s, NEW t, NEW w, Weighing(w), Leads(s, t, w)
  PROVE  Cost(s, t, w) \in Nat
<1>1. CASE s = t
  BY <1>1 DEF Cost
<1>2. CASE s # t
  <2>1. PICK q : Path(q, s, t, w)
    BY <1>2 DEF Leads
  <2>2. PICK p : Cheapest(p, s, t, w)
    BY <2>1, CheapestExists
  <2>. QED  BY <2>2, CostIs
<1>. QED  BY <1>1, <1>2

LEMMA HopIsNearer ==
  ASSUME ForwardingInv, routes = "current", BestInUse,
         NEW n \in Routers, NEW t \in Routers, n # t, Leads(n, t, WeightsInUse)
  PROVE  Nearer(n, Hop(n, t), t, WeightsInUse)
<1>1. HopTowards(Hop(n, t), n, t, WeightsInUse, BestInUse) /\ Weighing(WeightsInUse)
  BY InUse
<1>2. \E p : Path(p, n, t, WeightsInUse)
  BY DEF Leads
<1>3. PICK p : Hop(n, t) = p[2] /\ Cheapest(p, n, t, WeightsInUse)
  BY <1>1, <1>2, Zenon DEF HopTowards
<1>. QED  BY <1>1, <1>3, NextIsNearer

LEMMA NoHopWithoutPath ==
  ASSUME ForwardingInv, routes = "current",
         NEW n \in Routers, NEW t \in Routers, ~Leads(n, t, WeightsInUse)
  PROVE  Hop(n, t) = Free
<1>1. n # t /\ ~\E p : Path(p, n, t, WeightsInUse)
  BY DEF Leads
<1>2. HopTowards(Hop(n, t), n, t, WeightsInUse, BestInUse)
  BY <1>1, InUse
<1>. QED  BY <1>1, <1>2, Zenon DEF HopTowards

Reaching(x, m) ==
  AttachedTo(x) \in Routers /\ Leads(AttachedTo(x), AttachedTo(m), WeightsInUse)

Remaining(x, m) ==
  Cost(AttachedTo(x), AttachedTo(m), WeightsInUse)
    + (IF x = m THEN 0 ELSE IF x \in Routers THEN 1 ELSE 2)

LEMMA RouterIsAttached ==
  ASSUME NEW n \in Routers
  PROVE  AttachedTo(n) = n /\ n \in Nodes /\ n \notin Endpoints
BY FabricAssumption DEF AttachedTo, Nodes, Endpoints

LEMMA Known ==
  ASSUME ForwardingInv, routes = "current", NEW m \in Nodes, AddressKnown(m)
  PROVE  AttachedTo(m) \in Routers
<1>1. RestInv /\ started
  BY DEF ForwardingInv, RoutesOK
<1>2. CASE m \in Routers
  BY <1>2, RouterIsAttached
<1>3. CASE m \in Endpoints
  BY <1>1, <1>3, Attached
<1>. QED  BY <1>2, <1>3 DEF Nodes

LEMMA RemainingType ==
  ASSUME ForwardingInv, routes = "current", NEW x, NEW m, Reaching(x, m)
  PROVE  Remaining(x, m) \in Nat
<1> DEFINE c == Cost(AttachedTo(x), AttachedTo(m), WeightsInUse)
<1>1. Weighing(WeightsInUse)
  BY InUse
<1>2. c \in Nat
  BY <1>1, CostType DEF Reaching
<1> HIDE DEF c
<1>3. Remaining(x, m) = c + (IF x = m THEN 0 ELSE IF x \in Routers THEN 1 ELSE 2)
  BY DEF Remaining, c
<1>. QED  BY <1>2, <1>3

LEMMA HopBringsCloser ==
  ASSUME ForwardingInv, routes = "current", BestInUse, NEW m \in Nodes, AddressKnown(m),
         NEW x \in Nodes, x # m, Reaching(x, m)
  PROVE  /\ NextNode(x, m) \in Nodes /\ Reaching(NextNode(x, m), m)
         /\ Remaining(NextNode(x, m), m) < Remaining(x, m)
<1> DEFINE y == NextNode(x, m)
           b == AttachedTo(m)
           far(z) == Cost(z, b, WeightsInUse)
<1>1. RestInv /\ started /\ b \in Routers
  BY Known DEF ForwardingInv, RoutesOK
<1>2. Weighing(WeightsInUse) /\ far(b) = 0 /\ Leads(b, b, WeightsInUse)
  BY InUse DEF Cost, Leads
<1>3. \A z : Reaching(z, m) => far(AttachedTo(z)) \in Nat
  BY <1>2, CostType DEF Reaching
<1>4. \A z : Remaining(z, m) = far(AttachedTo(z)) + (IF z = m THEN 0 ELSE IF z \in Routers THEN 1 ELSE 2)
  BY DEF Remaining
<1>5. CASE x \in Endpoints
  <2>1. y = AttachedTo(x) /\ y \in Routers /\ x \notin Routers
    BY <1>1, <1>5, EndpointSends, Attached DEF Reaching
  <2>2. AttachedTo(y) = y /\ y \in Nodes
    BY <2>1, RouterIsAttached
  <2> HIDE DEF y
  <2>3. Reaching(y, m)
    BY <2>1, <2>2 DEF Reaching
  <2> HIDE DEF b, far
  <2>4. far(AttachedTo(y)) = far(AttachedTo(x)) /\ far(AttachedTo(y)) \in Nat
    BY <1>3, <2>1, <2>2, <2>3
  <2>5. Remaining(y, m) < Remaining(x, m)
    BY <1>4, <2>1, <2>4
  <2>. QED  BY <2>2, <2>3, <2>5 DEF y
<1>6. CASE x \in Routers
  <2>1. AttachedTo(x) = x /\ RouterSends(x, m)
    BY <1>6, RouterIsAttached, RouterSendsOn
  <2>2. CASE x = b
    <3>1. m \in Endpoints
      BY <2>2, RouterIsAttached DEF Nodes
    <3>2. y = m
      BY <2>1, <2>2, <3>1 DEF RouterSends
    <3>3. Reaching(m, m)
      BY <1>1, <1>2 DEF Reaching
    <3>4. far(AttachedTo(x)) \in Nat /\ far(AttachedTo(m)) = 0
      BY <1>2, <1>3
    <3> HIDE DEF far, b, y
    <3>5. Remaining(m, m) < Remaining(x, m)
      BY <1>4, <1>6, <3>4
    <3>. QED  BY <3>2, <3>3, <3>5 DEF y
  <2>3. CASE x # b
    <3>1. y = Hop(x, b)
      BY <2>1, <2>3 DEF RouterSends
    <3>2. Leads(x, b, WeightsInUse)
      BY <2>1 DEF Reaching
    <3> HIDE DEF y, b
    <3>3. Nearer(x, y, b, WeightsInUse)
      BY <1>1, <1>6, <2>3, <3>1, <3>2, HopIsNearer
    <3>4. y \in Routers /\ Leads(y, b, WeightsInUse)
      BY <3>3 DEF Nearer
    <3>5. AttachedTo(y) = y /\ y \in Nodes
      BY <3>4, RouterIsAttached
    <3>6. Reaching(y, m)
      BY <3>4, <3>5 DEF Reaching, b
    <3>7. far(y) \in Nat /\ far(x) \in Nat /\ far(y) < far(x)
      <4> DEFINE c == WeightsInUse[{x, y}]
      <4>1. c \in Nat \ {0} /\ far(y) \in Nat /\ far(x) \in Nat /\ c + far(y) <= far(x)
        BY <3>3 DEF Nearer
      <4> HIDE DEF c, far
      <4>. QED  BY <4>1
    <3> HIDE DEF far
    <3>8. Remaining(y, m) < Remaining(x, m)
      BY <1>4, <1>6, <2>1, <3>4, <3>5, <3>7
    <3>. QED  BY <3>5, <3>6, <3>8 DEF y
  <2>. QED  BY <2>2, <2>3
<1>. QED  BY <1>5, <1>6 DEF Nodes

LEMMA HopDropsOrStays ==
  ASSUME ForwardingInv, routes = "current", NEW m \in Nodes, AddressKnown(m),
         NEW x \in Nodes, x # m, ~Reaching(x, m)
  PROVE  \/ NextNode(x, m) = Free
         \/ /\ x \notin Routers /\ NextNode(x, m) \in Routers
            /\ NextNode(x, m) # m /\ ~Reaching(NextNode(x, m), m)
<1> DEFINE y == NextNode(x, m)
           b == AttachedTo(m)
<1>1. RestInv /\ started /\ b \in Routers /\ Leads(b, b, WeightsInUse)
  BY Known DEF ForwardingInv, RoutesOK, Leads
<1>2. CASE x \in Endpoints
  <2>1. y = AttachedTo(x) /\ y \in Routers \union {Free} /\ x \notin Routers
    BY <1>1, <1>2, EndpointSends, Attached
  <2>2. CASE y = Free
    BY <2>2
  <2>3. CASE y \in Routers
    <3>1. AttachedTo(y) = y
      BY <2>3, RouterIsAttached
    <3>2. ~Leads(y, b, WeightsInUse)
      BY <2>1, <2>3 DEF Reaching
    <3>3. ~Reaching(y, m)
      BY <3>1, <3>2 DEF Reaching
    <3>4. y # m
      BY <1>1, <3>1, <3>2
    <3>. QED  BY <2>1, <2>3, <3>3, <3>4
  <2>. QED  BY <2>1, <2>2, <2>3
<1>3. CASE x \in Routers
  <2>1. AttachedTo(x) = x /\ RouterSends(x, m)
    BY <1>3, RouterIsAttached, RouterSendsOn
  <2>2. ~Leads(x, b, WeightsInUse) /\ x # b
    BY <1>1, <1>3, <2>1 DEF Reaching
  <2>3. y = Hop(x, b)
    BY <2>1, <2>2 DEF RouterSends
  <2>4. Hop(x, b) = Free
    BY <1>1, <1>3, <2>2, NoHopWithoutPath
  <2>. QED  BY <2>3, <2>4
<1>. QED  BY <1>2, <1>3 DEF Nodes

LEMMA PathExistsIs ==
  ASSUME ForwardingInv, routes = "current", NEW n \in Nodes, NEW m \in Nodes, AddressKnown(m)
  PROVE  PathExists(n, m) <=> Reaching(n, m)
<1> DEFINE a == AttachedTo(n)
           b == AttachedTo(m)
           wayOf(p) == /\ p[1] = a /\ Last(p) = b
                       /\ \A i \in 1 .. Len(p) - 1 : {p[i], p[i + 1]} \in RouterLinks(groundStationLinks)
<1>1. RestInv /\ started /\ b \in Routers /\ Free \notin Routers
  BY Known, FabricAssumption DEF ForwardingInv, RoutesOK, Nodes
<1>2. a \in Routers \union {Free}
  <2>1. CASE n \in Routers
    BY <2>1, RouterIsAttached
  <2>2. CASE n \in Endpoints
    BY <1>1, <2>2, Attached
  <2>. QED  BY <2>1, <2>2 DEF Nodes
<1>3. PathExists(n, m) <=> Free \notin {a, b} /\ (a = b \/ \E p \in RouterPaths : wayOf(p))
  BY DEF PathExists
<1>4. DOMAIN WeightsInUse = RouterLinks(groundStationLinks)
  BY InUse
<1> HIDE DEF a, b
<1>5. PathsBetween(a, b, WeightsInUse) = {p \in RouterPaths : wayOf(p)}
  BY <1>4 DEF PathsBetween
<1> HIDE DEF wayOf
<1>6. \A p : p \in PathsBetween(a, b, WeightsInUse) <=> Path(p, a, b, WeightsInUse)
  BY PathsAre
<1>7. (\E p \in RouterPaths : wayOf(p)) <=> \E p : Path(p, a, b, WeightsInUse)
  BY <1>5, <1>6
<1>8. Leads(a, b, WeightsInUse) <=> (a = b \/ \E p \in RouterPaths : wayOf(p))
  BY <1>7 DEF Leads
<1>. QED  BY <1>1, <1>2, <1>3, <1>8 DEF Reaching, a, b

(* The nodes that are nearer to m than x: each hop leaves one of them out. *)
Ahead(x, m) == {y \in Nodes : Reaching(y, m) /\ Remaining(y, m) < Remaining(x, m)}

LEMMA AheadShrinks ==
  ASSUME ForwardingInv, routes = "current", NEW m \in Nodes,
         NEW x \in Nodes, Reaching(x, m), NEW y \in Nodes, Reaching(y, m),
         Remaining(y, m) < Remaining(x, m)
  PROVE  /\ Cardinality(Ahead(x, m)) \in Nat /\ Cardinality(Ahead(y, m)) \in Nat
         /\ Cardinality(Ahead(y, m)) + 1 <= Cardinality(Ahead(x, m))
<1> DEFINE X == Ahead(x, m)
           Y == Ahead(y, m)
<1>1. \A z : Reaching(z, m) => Remaining(z, m) \in Nat
  BY RemainingType
<1>2. y \in X /\ y \notin Y
  BY <1>1 DEF Ahead
<1>3. Y \subseteq X
  BY <1>1 DEF Ahead
<1>4. X \subseteq Nodes
  BY DEF Ahead
<1> HIDE DEF X, Y
<1>5. IsFiniteSet(X)
  BY <1>4, FabricAssumption, FS_Subset
<1>6. IsFiniteSet(X \ {y}) /\ Cardinality(X \ {y}) = Cardinality(X) - 1
  BY <1>2, <1>5, FS_RemoveElement
<1>7. Y \subseteq X \ {y}
  BY <1>2, <1>3
<1>8. IsFiniteSet(Y) /\ Cardinality(Y) <= Cardinality(X \ {y})
  BY <1>6, <1>7, FS_Subset
<1>9. Cardinality(X) \in Nat /\ Cardinality(Y) \in Nat
  BY <1>5, <1>8, FS_CardinalityType
<1>10. Cardinality(Y) + 1 <= Cardinality(X)
  BY <1>6, <1>8, <1>9
<1>. QED  BY <1>9, <1>10 DEF X, Y

LEMMA AheadAtFirst ==
  ASSUME ForwardingInv, routes = "current", NEW m \in Nodes, NEW x \in Nodes, Reaching(x, m)
  PROVE  Cardinality(Ahead(x, m)) \in Nat /\ Cardinality(Ahead(x, m)) + 1 <= Hops
<1> DEFINE X == Ahead(x, m)
<1>1. Remaining(x, m) \in Nat
  BY RemainingType
<1>2. X \subseteq Nodes \ {x}
  BY <1>1 DEF Ahead
<1> HIDE DEF X
<1>3. IsFiniteSet(Nodes \ {x}) /\ Cardinality(Nodes \ {x}) = Cardinality(Nodes) - 1
  BY FabricAssumption, FS_RemoveElement
<1>4. IsFiniteSet(X) /\ Cardinality(X) <= Cardinality(Nodes \ {x})
  BY <1>2, <1>3, FS_Subset
<1>5. Cardinality(X) \in Nat /\ Cardinality(Nodes) \in Nat
  BY <1>4, FabricAssumption, FS_CardinalityType
<1>6. Cardinality(X) + 1 <= Cardinality(Nodes)
  BY <1>3, <1>4, <1>5
<1>. QED  BY <1>5, <1>6 DEF X, Hops

LEMMA Delivered ==
  ASSUME ForwardingInv, routes = "current", BestInUse, NEW m \in Nodes, AddressKnown(m),
         NEW n \in Nodes, n # m, Reaching(n, m)
  PROVE  Destination(n, m) = m
<1>1. Hops \in Nat /\ \E h : Travels(h, n, m)
  BY JourneyUnfolds
<1>2. PICK h : Travels(h, n, m)
  BY <1>1
<1> DEFINE OnTheWay(k) == /\ h[k].at \in Nodes /\ Reaching(h[k].at, m)
                          /\ Cardinality(Ahead(h[k].at, m)) + 1 + k <= Hops
           S == {k \in 0 .. Hops : h[k].at = m \/ OnTheWay(k)}
<1>3. 0 \in S
  <2>1. h[0].at = n
    BY <1>2 DEF Travels
  <2>2. Cardinality(Ahead(n, m)) \in Nat /\ Cardinality(Ahead(n, m)) + 1 <= Hops
    BY AheadAtFirst
  <2>3. Cardinality(Ahead(n, m)) + 1 + 0 <= Hops
    BY <2>2, <1>1
  <2>4. OnTheWay(0)
    BY <2>1, <2>3
  <2>. QED  BY <1>1, <2>4
<1>4. ASSUME NEW k \in 1 .. Hops, k - 1 \in S PROVE k \in S
  <2> DEFINE x == h[k - 1].at
  <2>1. k - 1 \in 0 .. Hops /\ k \in 0 .. Hops /\ k \in Nat
    BY <1>1
  <2>2. h[k - 1] \in Spots /\ h[k] = AfterHop(h[k - 1], m)
    BY <1>2, <2>1 DEF Travels
  <2>3. CASE x = m
    <3>1. h[k] = h[k - 1]
      BY <2>2, <2>3, AfterHopIs
    <3>. QED  BY <2>1, <2>3, <3>1
  <2>4. CASE x # m /\ OnTheWay(k - 1)
    <3> DEFINE y == NextNode(x, m)
    <3>1. x \in Nodes /\ Reaching(x, m) /\ Cardinality(Ahead(x, m)) + 1 + (k - 1) <= Hops
      BY <2>4
    <3>2. x # Free
      BY <3>1, FabricAssumption
    <3>3. h[k].at = y
      BY <2>2, <2>4, <3>2, AfterHopIs
    <3> HIDE DEF x
    <3>4. y \in Nodes /\ Reaching(y, m) /\ Remaining(y, m) < Remaining(x, m)
      BY <2>4, <3>1, HopBringsCloser
    <3> HIDE DEF y
    <3>5. /\ Cardinality(Ahead(x, m)) \in Nat /\ Cardinality(Ahead(y, m)) \in Nat
          /\ Cardinality(Ahead(y, m)) + 1 <= Cardinality(Ahead(x, m))
      BY <3>1, <3>4, AheadShrinks
    <3>6. Cardinality(Ahead(y, m)) + 1 + k <= Hops
      BY <1>1, <2>1, <3>1, <3>5
    <3>7. OnTheWay(k)
      BY <3>3, <3>4, <3>6
    <3>. QED  BY <2>1, <3>7
  <2>. QED  BY <1>4, <2>3, <2>4
<1>5. Hops \in S
  <2> HIDE DEF S
  <2>1. \A k \in 0 .. Hops : k \in S
    BY <1>1, <1>3, <1>4, Upwards
  <2>. QED  BY <1>1, <2>1
<1>6. h[Hops].at = m
  <2> SUFFICES ASSUME OnTheWay(Hops) PROVE FALSE
    BY <1>5
  <2> DEFINE c == Cardinality(Ahead(h[Hops].at, m))
  <2>1. c \in Nat
    BY AheadAtFirst
  <2>2. c + 1 + Hops <= Hops
    OBVIOUS
  <2> HIDE DEF c
  <2>. QED  BY <1>1, <2>1, <2>2
<1>. QED  BY <1>2, <1>6 DEF Travels

LEMMA Dropped ==
  ASSUME ForwardingInv, routes = "current", NEW m \in Nodes, AddressKnown(m),
         NEW n \in Nodes, n # m, ~Reaching(n, m)
  PROVE  Destination(n, m) = Free
<1>1. Hops \in Nat /\ \E h : Travels(h, n, m)
  BY JourneyUnfolds
<1>2. PICK h : Travels(h, n, m)
  BY <1>1
<1>3. Hops >= 2
  <2>1. \A x : IsFiniteSet({x}) /\ Cardinality({x}) = 1
    BY FS_Singleton
  <2>2. IsFiniteSet({n} \union {m}) /\ Cardinality({n} \union {m}) = 2
    <3>1. IsFiniteSet({n}) /\ m \notin {n}
      BY <2>1
    <3>2. /\ IsFiniteSet({n} \union {m})
          /\ Cardinality({n} \union {m}) = IF m \in {n} THEN Cardinality({n}) ELSE Cardinality({n}) + 1
      BY <3>1, FS_AddElement
    <3>3. Cardinality({n} \union {m}) = Cardinality({n}) + 1
      BY <3>1, <3>2, Zenon
    <3>4. Cardinality({n}) = 1
      BY <2>1, Zenon
    <3>5. Cardinality({n} \union {m}) = 1 + 1
      BY <3>3, <3>4, Zenon
    <3>6. 1 + 1 = 2
      OBVIOUS
    <3>. QED  BY <3>2, <3>5, <3>6, Zenon
  <2>3. {n} \union {m} \subseteq Nodes
    OBVIOUS
  <2>4. Cardinality({n} \union {m}) <= Cardinality(Nodes)
    BY <2>3, FabricAssumption, FS_Subset
  <2>. QED  BY <2>2, <2>4 DEF Hops
<1> DEFINE Strays(k) == /\ h[k].at \in Nodes /\ h[k].at # m /\ ~Reaching(h[k].at, m)
                        /\ k = 0 \/ (k = 1 /\ h[k].at \in Routers)
           S == {k \in 0 .. Hops : h[k].at = Free \/ Strays(k)}
<1>4. 0 \in S
  <2>1. h[0].at = n
    BY <1>2 DEF Travels
  <2>. QED  BY <1>1, <2>1
<1>5. ASSUME NEW k \in 1 .. Hops, k - 1 \in S PROVE k \in S
  <2> DEFINE x == h[k - 1].at
  <2>1. k - 1 \in 0 .. Hops /\ k \in 0 .. Hops /\ k \in Nat /\ k # 0
    BY <1>1
  <2>2. h[k - 1] \in Spots /\ h[k] = AfterHop(h[k - 1], m)
    BY <1>2, <2>1 DEF Travels
  <2>3. CASE x = Free
    <3>1. h[k] = h[k - 1]
      BY <2>2, <2>3, AfterHopIs
    <3>. QED  BY <2>1, <2>3, <3>1
  <2>4. CASE x # Free /\ Strays(k - 1)
    <3> DEFINE y == NextNode(x, m)
    <3>1. /\ x \in Nodes /\ x # m /\ ~Reaching(x, m)
          /\ k = 1 \/ x \in Routers
      BY <2>1, <2>4
    <3>2. h[k].at = y
      <4>1. h[k - 1].at \notin {m, Free}
        BY <2>4, <3>1
      <4>. QED  BY <2>2, <4>1, AfterHopIs
    <3> HIDE DEF x
    <3>3. y = Free \/ (x \notin Routers /\ y \in Routers /\ y # m /\ ~Reaching(y, m))
      BY <3>1, HopDropsOrStays
    <3> HIDE DEF y
    <3>4. CASE y = Free
      BY <2>1, <3>2, <3>4
    <3>5. CASE x \notin Routers /\ y \in Routers /\ y # m /\ ~Reaching(y, m)
      <4>1. y \in Nodes
        BY <3>5 DEF Nodes
      <4>2. k = 1
        BY <3>1, <3>5
      <4>. QED  BY <2>1, <3>2, <3>5, <4>1, <4>2
    <3>. QED  BY <3>3, <3>4, <3>5
  <2>. QED  BY <1>5, <2>3, <2>4
<1>6. h[Hops].at = Free
  <2>1. \A k \in 0 .. Hops : k \in S
    <3> HIDE DEF S
    <3>. QED  BY <1>1, <1>4, <1>5, Upwards
  <2>. QED  BY <1>1, <1>3, <2>1
<1>. QED  BY <1>2, <1>6 DEF Travels

LEMMA BestRoutes ==
  ASSUME numOfKPaths > 1 => TRUE \notin LoadFiles, loadFiles \in LoadFiles, loadFiles \in BOOLEAN
  PROVE  BestInUse
<1>1. CASE loadFiles = FALSE
  BY <1>1 DEF BestInUse
<1>2. CASE loadFiles = TRUE
  <2>1. TRUE \in LoadFiles
    BY <1>2, Zenon
  <2>2. ~(numOfKPaths > 1)
    BY <2>1, Zenon
  <2>3. numOfKPaths <= 1
    BY <2>2, ForwardingAssumption
  <2>. QED  BY <2>3 DEF BestInUse
<1>. QED  BY <1>1, <1>2

(* Where files are loaded only for single paths, a packet always gets to   *)
(* the node that it is for if the network connects its sender to that      *)
(* node, and is dropped if not: in whatever order user terminals change    *)
(* their satellites, routes are updated and route files are missing.       *)
THEOREM PacketsGetThere ==
  ASSUME numOfKPaths > 1 => TRUE \notin LoadFiles
  PROVE  ForwardingSpec => []PacketsDelivered
<1>1. ForwardingInv /\ loadFiles \in LoadFiles => PacketsDelivered
  <2> SUFFICES ASSUME ForwardingInv, loadFiles \in LoadFiles, routes = "current",
                      NEW n \in Nodes, NEW m \in Nodes, n # m, AddressKnown(m)
               PROVE  Destination(n, m) = IF PathExists(n, m) THEN m ELSE Free
    BY DEF PacketsDelivered
  <2>1. loadFiles \in BOOLEAN
    BY DEF ForwardingInv
  <2>2. BestInUse
    BY <2>1, BestRoutes
  <2>3. PathExists(n, m) <=> Reaching(n, m)
    BY PathExistsIs
  <2>4. CASE Reaching(n, m)
    BY <2>2, <2>3, <2>4, Delivered
  <2>5. CASE ~Reaching(n, m)
    BY <2>3, <2>5, Dropped
  <2>. QED  BY <2>4, <2>5
<1>. QED  BY <1>1, AlwaysForwarding, ParameterFixed, PTL

-----------------------------------------------------------------------------
(* Shortest ways. If the weights given to igraph are those of its edges,   *)
(* the way from each router on is as cheap as the route promises.          *)

LEMMA HopAlongRoute ==
  ASSUME ForwardingInv, routes = "current", BestInUse, AddressesInOrder,
         NEW m \in Routers, NEW was \in Spots, was.at \in Routers, was.at # m,
         Leads(was.at, m, WeightsInUse), NEW c \in Nat,
         was.total + Cost(was.at, m, WeightsInUse) <= c
  PROVE  LET now == AfterHop(was, m)
         IN  \/ now.at = Free /\ now.total <= c
             \/ /\ now.at \in Routers /\ Leads(now.at, m, WeightsInUse)
                /\ now.total + Cost(now.at, m, WeightsInUse) <= c
<1> DEFINE x == was.at
           y == NextNode(x, m)
           now == AfterHop(was, m)
           far(z) == Cost(z, m, WeightsInUse)
           t == was.total
<1>1. AttachedTo(m) = m /\ m \in Nodes /\ m \notin Endpoints
  BY RouterIsAttached
<1>2. Weighing(WeightsInUse) /\ WeightsInUse = delay
  BY InUse
<1>3. far(x) \in Nat /\ t \in Nat
  BY <1>2, CostType DEF Spots
<1>4. x # Free /\ Free \notin Routers
  BY FabricAssumption DEF Nodes
<1>5. /\ now.at = y
      /\ now.total = IF {x, y} \subseteq Routers THEN t + delay[{x, y}] ELSE t
  <2>1. was.at \notin {m, Free}
    BY <1>4
  <2>. QED  BY <1>1, <2>1, AfterHopIs
<1>6. RouterSends(x, m)
  BY <1>1, RouterSendsOn
<1>7. CASE ~AddressKnown(m)
  <2>1. y = Free
    BY <1>6, <1>7 DEF RouterSends
  <2>2. now.at = Free /\ now.total = t
    BY <1>4, <1>5, <2>1
  <2>3. t + far(x) <= c
    OBVIOUS
  <2> HIDE DEF far, t, now
  <2>4. t <= c
    BY <1>3, <2>3
  <2>. QED  BY <2>2, <2>4 DEF now
<1>8. CASE AddressKnown(m)
  <2>1. y = Hop(x, m)
    BY <1>1, <1>6, <1>8 DEF RouterSends
  <2> HIDE DEF y
  <2>2. Nearer(x, y, m, WeightsInUse)
    BY <2>1, HopIsNearer
  <2> DEFINE d == WeightsInUse[{x, y}]
  <2>3. /\ y \in Routers /\ Leads(y, m, WeightsInUse)
        /\ far(y) \in Nat /\ d \in Nat /\ d + far(y) <= far(x)
    BY <2>2 DEF Nearer
  <2>4. now.at = y /\ now.total = t + d
    <3>1. {x, y} \subseteq Routers
      BY <2>3
    <3>. QED  BY <1>2, <1>5, <3>1
  <2>5. t + far(x) <= c
    OBVIOUS
  <2> HIDE DEF far, t, d, now
  <2>6. now.total + far(y) <= c
    BY <1>3, <2>3, <2>4, <2>5
  <2>. QED  BY <2>3, <2>4, <2>6 DEF now, far
<1>. QED  BY <1>7, <1>8

LEMMA NoDetour ==
  ASSUME ForwardingInv, routes = "current", BestInUse, AddressesInOrder,
         NEW n \in Routers, NEW m \in Routers, Leads(n, m, WeightsInUse)
  PROVE  TotalDelay(n, m) \in Nat /\ TotalDelay(n, m) <= Cost(n, m, WeightsInUse)
<1> DEFINE c == Cost(n, m, WeightsInUse)
<1>1. n \in Nodes /\ m \in Nodes
  BY RouterIsAttached
<1>2. Hops \in Nat /\ \E h : Travels(h, n, m)
  BY <1>1, JourneyUnfolds
<1>3. PICK h : Travels(h, n, m)
  BY <1>2
<1>4. Weighing(WeightsInUse) /\ c \in Nat
  BY InUse, CostType
<1> DEFINE Short(k) ==
             \/ h[k].at = Free /\ h[k].total <= c
             \/ /\ h[k].at \in Routers /\ Leads(h[k].at, m, WeightsInUse)
                /\ h[k].total + Cost(h[k].at, m, WeightsInUse) <= c
           S == {k \in 0 .. Hops : Short(k)}
<1>5. 0 \in S
  <2>1. h[0].at = n /\ h[0].total = 0
    BY <1>3 DEF Travels
  <2>2. 0 + c <= c
    <3> HIDE DEF c
    <3>. QED  BY <1>4
  <2>. QED  BY <1>2, <2>1, <2>2
<1> HIDE DEF c
<1>6. ASSUME NEW k \in 1 .. Hops, k - 1 \in S PROVE k \in S
  <2>1. k - 1 \in 0 .. Hops /\ k \in 0 .. Hops
    BY <1>2
  <2>2. h[k - 1] \in Spots /\ h[k] = AfterHop(h[k - 1], m)
    BY <1>3, <2>1 DEF Travels
  <2>3. Short(k - 1)
    BY <1>6
  <2>4. CASE h[k - 1].at \in {m, Free}
    <3>1. h[k] = h[k - 1]
      BY <1>1, <2>2, <2>4, AfterHopIs
    <3>. QED  BY <2>1, <2>3, <3>1
  <2>5. CASE h[k - 1].at \notin {m, Free}
    <3> DEFINE was == h[k - 1]
    <3>1. /\ was.at \in Routers /\ was.at # m /\ Leads(was.at, m, WeightsInUse)
          /\ was.total + Cost(was.at, m, WeightsInUse) <= c
      BY <2>3, <2>5
    <3> HIDE DEF was
    <3>2. was \in Spots /\ h[k] = AfterHop(was, m)
      BY <2>2 DEF was
    <3>3. Short(k)
      BY <1>4, <3>1, <3>2, HopAlongRoute
    <3>. QED  BY <2>1, <3>3
  <2>. QED  BY <2>4, <2>5
<1>7. Short(Hops)
  <2>1. \A k \in 0 .. Hops : k \in S
    <3> HIDE DEF S
    <3>. QED  BY <1>2, <1>5, <1>6, Upwards
  <2>. QED  BY <1>2, <2>1
<1> DEFINE end == h[Hops]
<1>8. end \in Spots /\ TotalDelay(n, m) = end.total
  BY <1>2, <1>3 DEF Travels
<1>9. end.total \in Nat /\ end.total <= c
  <2>1. CASE end.total <= c
    BY <1>8, <2>1 DEF Spots
  <2>2. CASE Leads(end.at, m, WeightsInUse) /\ end.total + Cost(end.at, m, WeightsInUse) <= c
    <3> DEFINE far == Cost(end.at, m, WeightsInUse)
               t == end.total
    <3>1. far \in Nat /\ t \in Nat
      BY <1>4, <1>8, <2>2, CostType DEF Spots
    <3>2. t + far <= c
      BY <2>2
    <3> HIDE DEF far, t
    <3>3. t <= c
      BY <1>4, <3>1, <3>2
    <3>. QED  BY <3>1, <3>3 DEF t
  <2>. QED  BY <1>7, <2>1, <2>2
<1>. QED  BY <1>8, <1>9 DEF c

(* Where, besides, the satellites' addresses are in the order of their     *)
(* numbers, the way that a packet takes between two routers is a shortest  *)
(* one among those that the network of the last routes has.                *)
THEOREM WaysAreShortest ==
  ASSUME numOfKPaths > 1 => TRUE \notin LoadFiles, AddressesInOrder
  PROVE  ForwardingSpec => []RoutesShortest
<1>1. ForwardingInv /\ loadFiles \in LoadFiles => RoutesShortest
  <2> SUFFICES ASSUME ForwardingInv, loadFiles \in LoadFiles, routes = "current", NEW pair \in RouterPairs,
                      NEW p \in PathsBetween(pair[1], pair[2], delay)
               PROVE  TotalDelay(pair[1], pair[2]) <= PathLength(p, delay)
    BY DEF RoutesShortest
  <2> DEFINE n == pair[1]
             m == pair[2]
  <2>1. BestInUse
    BY BestRoutes DEF ForwardingInv
  <2>2. n \in Routers /\ m \in Routers /\ n # m
    BY DEF RouterPairs
  <2>3. Weighing(WeightsInUse) /\ WeightsInUse = delay
    BY InUse
  <2> HIDE DEF n, m
  <2>4. Path(p, n, m, WeightsInUse)
    <3>1. p \in PathsBetween(n, m, WeightsInUse)
      BY <2>3 DEF n, m
    <3>. QED  BY <3>1, PathsAre
  <2>5. PICK q : Cheapest(q, n, m, WeightsInUse)
    BY <2>3, <2>4, CheapestExists
  <2>6. /\ Cost(n, m, WeightsInUse) = PathLength(q, WeightsInUse) /\ Cost(n, m, WeightsInUse) \in Nat
        /\ PathLength(q, WeightsInUse) <= PathLength(p, WeightsInUse)
        /\ PathLength(p, WeightsInUse) \in Nat
    BY <2>3, <2>4, <2>5, CostIs, PathLengthType DEF Cheapest
  <2>7. TotalDelay(n, m) \in Nat /\ TotalDelay(n, m) <= Cost(n, m, WeightsInUse)
    BY <2>1, <2>2, <2>4, NoDetour DEF Leads
  <2>8. TotalDelay(n, m) <= PathLength(p, WeightsInUse)
    BY <2>6, <2>7
  <2>. QED  BY <2>3, <2>8 DEF n, m
<1>. QED  BY <1>1, AlwaysForwarding, ParameterFixed, PTL

=============================================================================
