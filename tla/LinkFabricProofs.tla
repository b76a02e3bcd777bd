-------------------------- MODULE LinkFabricProofs --------------------------
(***************************************************************************)
(* What holds of the links, gates, interfaces and tables of LinkFabric for *)
(* any nodes and any history of links.                                     *)
(***************************************************************************)
EXTENDS LinkFabric, NaturalOrder, FiniteSetTheorems, SequenceTheorems

-----------------------------------------------------------------------------
(* The invariant. It must hold between any two calls of an event, so it is *)
(* a property of a fabric, of the links L that there are, and of the links *)
(* N that were made since interfaces were last brought up to date.         *)

Fabrics ==
  [gate: [Nodes -> Seq(Nodes \union {Free})], ppp: [Nodes -> Nat],
   up: [Nodes -> SUBSET Nat], routerId: [Nodes -> SUBSET Nat],
   nextHopInterface: [Nodes -> [Nodes -> Nat]], dirtyPppModules: SUBSET Nodes]

GridPairs == Satellites \X Satellites
SkyPairs  == (GroundStations \X Satellites) \union (UserTerminals \X Satellites)
AllPairs  == Wires \union GridPairs \union SkyPairs

Joined(L, n, m) == <<n, m>> \in L \/ <<m, n>> \in L

(* Only satellites may have several links between them.                    *)
GatesOK(f, L) ==
  \A n, m \in Nodes : <<n, m>> \notin GridPairs =>
    IF Joined(L, n, m) THEN \E i : GatesTo(f, n, m) = {i} ELSE GatesTo(f, n, m) = {}

(* A link of a user terminal is not finished when it is made.              *)
Pending(N, n, m) == Joined(N, n, m) /\ (n \in UserTerminals \/ m \in UserTerminals)

InterfacesOK(f, N) ==
  \A n \in Nodes :
    /\ f.ppp[n] <= Len(f.gate[n])
    /\ f.up[n] \subseteq 1 .. f.ppp[n] /\ f.routerId[n] \subseteq 1 .. f.ppp[n]
    /\ \A i \in 1 .. f.ppp[n] :
         /\ f.gate[n][i] = Free => i \notin f.up[n] /\ i \notin f.routerId[n]
         /\ f.gate[n][i] # Free /\ ~Pending(N, n, f.gate[n][i]) => i \in f.up[n] /\ i \in f.routerId[n]

(* A gate without an interface is that of a new link, and its node marked. *)
NewOK(f, N) ==
  \A n \in Nodes : \A i \in 1 .. Len(f.gate[n]) :
    i > f.ppp[n] => /\ Joined(N, n, f.gate[n][i])
                    /\ n \in f.dirtyPppModules \/ Joined(Wires \union GridPairs, n, f.gate[n][i])

MatrixOK(f) ==
  \A n, m \in Routers :
    \/ f.nextHopInterface[n][m] \in GatesTo(f, n, m)
    \/ /\ f.nextHopInterface[n][m] = NoInterface
       /\ GatesTo(f, n, m) = {} \/ \E i \in GatesTo(f, n, m) : i > f.ppp[n]

FabricInv(f, L, N) ==
  /\ f \in Fabrics
  /\ L \subseteq AllPairs /\ N \subseteq L
  /\ GatesOK(f, L) /\ InterfacesOK(f, N) /\ NewOK(f, N) /\ MatrixOK(f)

-----------------------------------------------------------------------------
(* Gates.                                                                  *)

LEMMA FabricFields ==
  ASSUME NEW f \in Fabrics
  PROVE  /\ f.gate \in [Nodes -> Seq(Nodes \union {Free})] /\ f.ppp \in [Nodes -> Nat]
         /\ f.up \in [Nodes -> SUBSET Nat] /\ f.routerId \in [Nodes -> SUBSET Nat]
         /\ f.nextHopInterface \in [Nodes -> [Nodes -> Nat]] /\ f.dirtyPppModules \subseteq Nodes
         /\ \A n \in Nodes : /\ f.gate[n] \in Seq(Nodes \union {Free}) /\ Len(f.gate[n]) \in Nat
                             /\ DOMAIN f.gate[n] = 1 .. Len(f.gate[n]) /\ f.ppp[n] \in Nat
                             /\ f.up[n] \subseteq Nat /\ f.routerId[n] \subseteq Nat
                             /\ \A m \in Nodes : f.nextHopInterface[n][m] \in Nat
BY DEF Fabrics

LEMMA GatesToMember ==
  ASSUME NEW f \in Fabrics, NEW n \in Nodes, NEW m
  PROVE  /\ GatesTo(f, n, m) \subseteq 1 .. Len(f.gate[n])
         /\ \A i : i \in GatesTo(f, n, m) <=> i \in 1 .. Len(f.gate[n]) /\ f.gate[n][i] = m
BY FabricFields DEF GatesTo

LEMMA NextFreeGateFacts ==
  ASSUME NEW f \in Fabrics, NEW n \in Nodes
  PROVE  LET i == NextFreeGate(f, n) IN
         /\ i \in 1 .. Len(f.gate[n]) + 1
         /\ i <= Len(f.gate[n]) => f.gate[n][i] = Free
         /\ i > Len(f.gate[n]) => GatesTo(f, n, Free) = {} /\ i = Len(f.gate[n]) + 1
<1> DEFINE free == GatesTo(f, n, Free)
<1>1. free \subseteq Nat /\ \A i \in free : i \in 1 .. Len(f.gate[n]) /\ f.gate[n][i] = Free
  BY GatesToMember, FabricFields
<1>2. Len(f.gate[n]) \in Nat
  BY FabricFields
<1>3. CASE free = {}
  BY <1>2, <1>3 DEF NextFreeGate
<1>4. CASE free # {}
  <2>1. \E i \in free : \A j \in free : i <= j
    <3> HIDE DEF free
    <3>. QED  BY <1>1, <1>4, LeastElement
  <2>2. NextFreeGate(f, n) \in free
    BY <1>4, <2>1 DEF NextFreeGate
  <2>. QED  BY <1>1, <1>2, <2>2
<1>. QED  BY <1>3, <1>4

(* A gate of n is connected to m.                                          *)
LEMMA PlugInFacts ==
  ASSUME NEW s \in Seq(Nodes \union {Free}), NEW i \in 1 .. Len(s) + 1, NEW m \in Nodes
  PROVE  LET t == PlugIn(s, i, m) IN
         /\ t \in Seq(Nodes \union {Free})
         /\ Len(t) = IF i > Len(s) THEN Len(s) + 1 ELSE Len(s)
         /\ t[i] = m
         /\ \A j \in 1 .. Len(s) : j # i => t[j] = s[j]
<1>1. Len(s) \in Nat
  OBVIOUS
<1>2. CASE i > Len(s)
  BY <1>1, <1>2 DEF PlugIn
<1>3. CASE ~(i > Len(s))
  <2>1. PlugIn(s, i, m) = [s EXCEPT ![i] = m]
    BY <1>3 DEF PlugIn
  <2>2. i \in 1 .. Len(s)
    BY <1>1, <1>3
  <2>. QED  BY <1>1, <1>3, <2>1, <2>2
<1>. QED  BY <1>2, <1>3

(* One end of a link: gate i of a, which was free or is new, leads to b.   *)
Plugged(f, g, a, b, i) ==
  /\ g \in Fabrics
  /\ g.ppp = f.ppp /\ g.up = f.up /\ g.routerId = f.routerId
  /\ g.nextHopInterface = f.nextHopInterface /\ g.dirtyPppModules = f.dirtyPppModules
  /\ \A n \in Nodes : n # a => g.gate[n] = f.gate[n]
  /\ i \in 1 .. Len(f.gate[a]) + 1
  /\ i <= Len(f.gate[a]) => f.gate[a][i] = Free
  /\ Len(g.gate[a]) = IF i <= Len(f.gate[a]) THEN Len(f.gate[a]) ELSE Len(f.gate[a]) + 1
  /\ i > Len(f.gate[a]) => i = Len(f.gate[a]) + 1 /\ GatesTo(f, a, Free) = {}
  /\ g.gate[a][i] = b
  /\ \A j \in 1 .. Len(f.gate[a]) : j # i => g.gate[a][j] = f.gate[a][j]

LEMMA PlugEnd ==
  ASSUME NEW f \in Fabrics, NEW a \in Nodes, NEW b \in Nodes
  PROVE  LET i == NextFreeGate(f, a)
         IN  Plugged(f, [f EXCEPT !.gate[a] = PlugIn(@, i, b)], a, b, i)
<1> DEFINE i == NextFreeGate(f, a)
           t == PlugIn(f.gate[a], i, b)
           g == [f EXCEPT !.gate[a] = PlugIn(@, i, b)]
<1>1. /\ f.gate[a] \in Seq(Nodes \union {Free}) /\ f.gate \in [Nodes -> Seq(Nodes \union {Free})]
      /\ Len(f.gate[a]) \in Nat
  BY FabricFields
<1>2. /\ i \in 1 .. Len(f.gate[a]) + 1
      /\ i <= Len(f.gate[a]) => f.gate[a][i] = Free
      /\ i > Len(f.gate[a]) => GatesTo(f, a, Free) = {} /\ i = Len(f.gate[a]) + 1
  BY NextFreeGateFacts
<1>3. /\ t \in Seq(Nodes \union {Free})
      /\ Len(t) = IF i > Len(f.gate[a]) THEN Len(f.gate[a]) + 1 ELSE Len(f.gate[a])
      /\ t[i] = b
      /\ \A j \in 1 .. Len(f.gate[a]) : j # i => t[j] = f.gate[a][j]
  <2> HIDE DEF i
  <2>. QED  BY <1>1, <1>2, PlugInFacts
<1>4. /\ g.gate = [f.gate EXCEPT ![a] = t]
      /\ g.ppp = f.ppp /\ g.up = f.up /\ g.routerId = f.routerId
      /\ g.nextHopInterface = f.nextHopInterface /\ g.dirtyPppModules = f.dirtyPppModules
  <2> HIDE DEF i
  <2>. QED  BY DEF Fabrics
<1>5. [f.gate EXCEPT ![a] = t] \in [Nodes -> Seq(Nodes \union {Free})]
  BY <1>1, <1>3
<1>6. g \in Fabrics
  <2> HIDE DEF i
  <2>1. g = [f EXCEPT !.gate = [f.gate EXCEPT ![a] = t]]
    BY DEF Fabrics
  <2> HIDE DEF t, g
  <2>. QED  BY <1>5, <2>1 DEF Fabrics
<1> HIDE DEF i, t, g
<1>8. g.gate[a] = t /\ \A n \in Nodes : n # a => g.gate[n] = f.gate[n]
  BY <1>1, <1>4
<1>7. Plugged(f, g, a, b, i)
  BY <1>1, <1>2, <1>3, <1>4, <1>6, <1>8 DEF Plugged
<1>. QED  BY <1>7 DEF g, i

LEMMA PluggedGates ==
  ASSUME NEW f \in Fabrics, NEW a \in Nodes, NEW b \in Nodes, NEW i, NEW g, Plugged(f, g, a, b, i)
  PROVE  /\ GatesTo(g, a, b) = GatesTo(f, a, b) \union {i}
         /\ \A n, m \in Nodes : n # a \/ m # b => GatesTo(g, n, m) = GatesTo(f, n, m)
         /\ \A n \in Nodes : GatesTo(g, n, Free) \subseteq GatesTo(f, n, Free)
         /\ \A n \in Nodes : Len(g.gate[n]) # Len(f.gate[n]) => GatesTo(g, n, Free) = {}
<1>1. g \in Fabrics /\ Free \notin Nodes
  BY FabricAssumption DEF Plugged
<1>2. /\ \A n \in Nodes : n # a => g.gate[n] = f.gate[n]
      /\ i \in 1 .. Len(f.gate[a]) + 1
      /\ i <= Len(f.gate[a]) => f.gate[a][i] = Free
      /\ Len(g.gate[a]) = IF i <= Len(f.gate[a]) THEN Len(f.gate[a]) ELSE Len(f.gate[a]) + 1
      /\ i > Len(f.gate[a]) => i = Len(f.gate[a]) + 1 /\ GatesTo(f, a, Free) = {}
      /\ g.gate[a][i] = b
      /\ \A j \in 1 .. Len(f.gate[a]) : j # i => g.gate[a][j] = f.gate[a][j]
  BY DEF Plugged
<1>3. Len(f.gate[a]) \in Nat
  BY FabricFields
<1>4. \A n : n \in Nodes /\ n # a => \A m : GatesTo(g, n, m) = GatesTo(f, n, m)
  BY <1>2 DEF GatesTo
<1>5. ASSUME NEW m
      PROVE  \A j : j \in GatesTo(g, a, m) <=>
                      (j \in GatesTo(f, a, m) /\ j # i) \/ (j = i /\ m = b)
  <2>1. \A j : j \in GatesTo(g, a, m) <=> j \in 1 .. Len(g.gate[a]) /\ g.gate[a][j] = m
    BY <1>1, GatesToMember
  <2>2. \A j : j \in GatesTo(f, a, m) <=> j \in 1 .. Len(f.gate[a]) /\ f.gate[a][j] = m
    BY GatesToMember
  <2>3. \A j : j \in 1 .. Len(g.gate[a]) <=> j \in 1 .. Len(f.gate[a]) \/ j = i
    BY <1>2, <1>3
  <2>. QED  BY <1>2, <2>1, <2>2, <2>3
<1>6. ASSUME NEW m \in Nodes PROVE i \notin GatesTo(f, a, m)
  BY <1>1, <1>2, GatesToMember
<1>7. GatesTo(g, a, b) = GatesTo(f, a, b) \union {i}
  BY <1>5, <1>6
<1>8. \A m \in Nodes : m # b => GatesTo(g, a, m) = GatesTo(f, a, m)
  BY <1>5, <1>6
<1>9. GatesTo(g, a, Free) \subseteq GatesTo(f, a, Free)
  BY <1>1, <1>5
<1>10. Len(g.gate[a]) # Len(f.gate[a]) => GatesTo(g, a, Free) = {}
  BY <1>2, <1>3, <1>9
<1>. QED  BY <1>2, <1>4, <1>7, <1>8, <1>9, <1>10

LEMMA PluggedGrown ==
  ASSUME NEW f \in Fabrics, NEW a \in Nodes, NEW b \in Nodes, NEW i, NEW g, Plugged(f, g, a, b, i),
         NEW n \in Nodes
  PROVE  /\ Len(f.gate[n]) <= Len(g.gate[n])
         /\ \A k \in 1 .. Len(g.gate[n]) :
              \/ k <= Len(f.gate[n]) /\ g.gate[n][k] = f.gate[n][k]
              \/ /\ k <= Len(f.gate[n]) => f.gate[n][k] = Free
                 /\ n = a /\ g.gate[n][k] = b
<1>1. Len(f.gate[n]) \in Nat
  BY FabricFields
<1>2. CASE n # a
  <2>1. g.gate[n] = f.gate[n]
    BY <1>2 DEF Plugged
  <2>. QED  BY <1>1, <2>1
<1>3. CASE n = a
  <2>1. /\ i \in 1 .. Len(f.gate[a]) + 1
        /\ i <= Len(f.gate[a]) => f.gate[a][i] = Free
        /\ Len(g.gate[a]) = IF i <= Len(f.gate[a]) THEN Len(f.gate[a]) ELSE Len(f.gate[a]) + 1
        /\ i > Len(f.gate[a]) => i = Len(f.gate[a]) + 1
        /\ g.gate[a][i] = b
        /\ \A j \in 1 .. Len(f.gate[a]) : j # i => g.gate[a][j] = f.gate[a][j]
    BY DEF Plugged
  <2>. QED  BY <1>1, <1>3, <2>1
<1>. QED  BY <1>2, <1>3

(* A link between a and b has taken free or new gates.                     *)
Grown(f, g, a, b) ==
  \A n \in Nodes :
    /\ Len(f.gate[n]) <= Len(g.gate[n])
    /\ \A k \in 1 .. Len(g.gate[n]) :
         \/ k <= Len(f.gate[n]) /\ g.gate[n][k] = f.gate[n][k]
         \/ /\ k <= Len(f.gate[n]) => f.gate[n][k] = Free
            /\ (n = a /\ g.gate[n][k] = b) \/ (n = b /\ g.gate[n][k] = a)

(* The other gates of the network are as they were.                        *)
OthersKept(f, g, a, b) ==
  \A n, m \in Nodes : ~((n = a /\ m = b) \/ (n = b /\ m = a)) => GatesTo(g, n, m) = GatesTo(f, n, m)

(* New gates are made at nodes without free ones only.                     *)
NewIfFull(f, g) ==
  \A n \in Nodes : Len(g.gate[n]) # Len(f.gate[n]) => GatesTo(g, n, Free) = {}

(* A gate more at each end, or two at the only one.                        *)
GateMore(f, g, a, b) ==
  \E i, j :
    /\ a # b => /\ GatesTo(g, a, b) = GatesTo(f, a, b) \union {i}
                /\ GatesTo(g, b, a) = GatesTo(f, b, a) \union {j}
    /\ a = b => GatesTo(g, a, a) = (GatesTo(f, a, a) \union {i}) \union {j}

LEMMA ConnectFacts ==
  ASSUME NEW f \in Fabrics, NEW a \in Nodes, NEW b \in Nodes
  PROVE  LET g == Connect(f, a, b) IN
         /\ g \in Fabrics
         /\ g.ppp = f.ppp /\ g.up = f.up /\ g.routerId = f.routerId
         /\ g.nextHopInterface = f.nextHopInterface /\ g.dirtyPppModules = f.dirtyPppModules
         /\ Grown(f, g, a, b) /\ OthersKept(f, g, a, b) /\ NewIfFull(f, g)
         /\ GateMore(f, g, a, b)
<1> DEFINE i == NextFreeGate(f, a)
           h == [f EXCEPT !.gate[a] = PlugIn(@, i, b)]
           j == NextFreeGate(h, b)
           g == [h EXCEPT !.gate[b] = PlugIn(@, j, a)]
<1>1. Connect(f, a, b) = g
  BY DEF Connect
<1>2. Plugged(f, h, a, b, i)
  BY PlugEnd
<1>3. h \in Fabrics
  BY <1>2 DEF Plugged
<1>4. Plugged(h, g, b, a, j)
  <2> HIDE DEF h
  <2>. QED  BY <1>3, PlugEnd
<1>5. g \in Fabrics
  BY <1>4 DEF Plugged
<1> HIDE DEF g, h, i, j
<1>6. /\ g.ppp = f.ppp /\ g.up = f.up /\ g.routerId = f.routerId
      /\ g.nextHopInterface = f.nextHopInterface /\ g.dirtyPppModules = f.dirtyPppModules
  BY <1>2, <1>4 DEF Plugged
<1>7. /\ GatesTo(h, a, b) = GatesTo(f, a, b) \union {i}
      /\ \A n, m \in Nodes : n # a \/ m # b => GatesTo(h, n, m) = GatesTo(f, n, m)
      /\ \A n \in Nodes : GatesTo(h, n, Free) \subseteq GatesTo(f, n, Free)
      /\ \A n \in Nodes : Len(h.gate[n]) # Len(f.gate[n]) => GatesTo(h, n, Free) = {}
  BY <1>2, PluggedGates
<1>8. /\ GatesTo(g, b, a) = GatesTo(h, b, a) \union {j}
      /\ \A n, m \in Nodes : n # b \/ m # a => GatesTo(g, n, m) = GatesTo(h, n, m)
      /\ \A n \in Nodes : GatesTo(g, n, Free) \subseteq GatesTo(h, n, Free)
      /\ \A n \in Nodes : Len(g.gate[n]) # Len(h.gate[n]) => GatesTo(g, n, Free) = {}
  BY <1>3, <1>4, PluggedGates
<1>9. OthersKept(f, g, a, b)
  BY <1>7, <1>8 DEF OthersKept
<1>10. NewIfFull(f, g)
  BY <1>7, <1>8 DEF NewIfFull
<1>11. GateMore(f, g, a, b)
  <2>1. CASE a # b
    <3>1. GatesTo(g, a, b) = GatesTo(f, a, b) \union {i} /\ GatesTo(g, b, a) = GatesTo(f, b, a) \union {j}
      BY <1>7, <1>8, <2>1
    <3>. QED  BY <2>1, <3>1 DEF GateMore
  <2>2. CASE a = b
    <3>1. GatesTo(g, a, a) = (GatesTo(f, a, a) \union {i}) \union {j}
      BY <1>7, <1>8, <2>2
    <3>. QED  BY <2>2, <3>1 DEF GateMore
  <2>. QED  BY <2>1, <2>2
<1>12. Grown(f, g, a, b)
  <2> SUFFICES ASSUME NEW n \in Nodes
               PROVE  /\ Len(f.gate[n]) <= Len(g.gate[n])
                      /\ \A k \in 1 .. Len(g.gate[n]) :
                           \/ k <= Len(f.gate[n]) /\ g.gate[n][k] = f.gate[n][k]
                           \/ /\ k <= Len(f.gate[n]) => f.gate[n][k] = Free
                              /\ (n = a /\ g.gate[n][k] = b) \/ (n = b /\ g.gate[n][k] = a)
    BY DEF Grown
  <2>1. Len(f.gate[n]) \in Nat /\ Len(h.gate[n]) \in Nat /\ Len(g.gate[n]) \in Nat
    BY <1>3, <1>5, FabricFields
  <2>2. /\ Len(f.gate[n]) <= Len(h.gate[n])
        /\ \A k \in 1 .. Len(h.gate[n]) :
             \/ k <= Len(f.gate[n]) /\ h.gate[n][k] = f.gate[n][k]
             \/ /\ k <= Len(f.gate[n]) => f.gate[n][k] = Free
                /\ n = a /\ h.gate[n][k] = b
    BY <1>2, PluggedGrown
  <2>3. /\ Len(h.gate[n]) <= Len(g.gate[n])
        /\ \A k \in 1 .. Len(g.gate[n]) :
             \/ k <= Len(h.gate[n]) /\ g.gate[n][k] = h.gate[n][k]
             \/ /\ k <= Len(h.gate[n]) => h.gate[n][k] = Free
                /\ n = b /\ g.gate[n][k] = a
    BY <1>3, <1>4, PluggedGrown
  <2>4. a \in Nodes /\ b \in Nodes /\ Free \notin Nodes
    BY FabricAssumption
  <2>5. ASSUME NEW k \in 1 .. Len(g.gate[n])
        PROVE  \/ k <= Len(f.gate[n]) /\ g.gate[n][k] = f.gate[n][k]
               \/ /\ k <= Len(f.gate[n]) => f.gate[n][k] = Free
                  /\ (n = a /\ g.gate[n][k] = b) \/ (n = b /\ g.gate[n][k] = a)
    <3>1. CASE k <= Len(h.gate[n]) /\ g.gate[n][k] = h.gate[n][k]
      <4>1. k \in 1 .. Len(h.gate[n])
        BY <3>1, <2>1
      <4>. QED  BY <2>2, <3>1, <4>1
    <3>2. CASE (k <= Len(h.gate[n]) => h.gate[n][k] = Free) /\ n = b /\ g.gate[n][k] = a
      <4>1. CASE k <= Len(h.gate[n])
        <5>1. k \in 1 .. Len(h.gate[n]) /\ h.gate[n][k] = Free
          BY <2>1, <3>2, <4>1
        <5>. QED  BY <2>2, <2>4, <3>2, <5>1
      <4>2. CASE ~(k <= Len(h.gate[n]))
        BY <2>1, <2>2, <3>2, <4>2
      <4>. QED  BY <4>1, <4>2
    <3>. QED  BY <2>3, <3>1, <3>2
  <2>6. Len(f.gate[n]) <= Len(g.gate[n])
    BY <2>1, <2>2, <2>3
  <2>. QED  BY <2>5, <2>6
<1>. QED  BY <1>1, <1>5, <1>6, <1>9, <1>10, <1>11, <1>12

LEMMA GateToIs ==
  ASSUME NEW f, NEW a, NEW b, NEW i, GatesTo(f, a, b) = {i}
  PROVE  GateTo(f, a, b) = i
BY DEF GateTo

(* Interface i of a towards b has been started, if there is one.           *)
Started(f, g, a, b, i) ==
  /\ g \in Fabrics
  /\ g.gate = f.gate /\ g.ppp = f.ppp /\ g.dirtyPppModules = f.dirtyPppModules
  /\ \A n \in Nodes :
       /\ g.up[n] = IF n = a /\ i <= f.ppp[a] THEN f.up[n] \union {i} ELSE f.up[n]
       /\ g.routerId[n] = IF n = a /\ i <= f.ppp[a] THEN f.routerId[n] \union {i} ELSE f.routerId[n]
       /\ \A m \in Nodes : g.nextHopInterface[n][m] =
            IF n = a /\ m = b /\ i <= f.ppp[a] THEN i ELSE f.nextHopInterface[n][m]

LEMMA ReviveFacts ==
  ASSUME NEW f \in Fabrics, NEW a \in Nodes, NEW b \in Nodes, NEW i, GatesTo(f, a, b) = {i}
  PROVE  Started(f, ReviveInterface(f, a, b), a, b, i)
<1>1. GateTo(f, a, b) = i
  BY GateToIs
<1>2. CASE ~(i <= f.ppp[a])
  <2>1. ReviveInterface(f, a, b) = f
    BY <1>1, <1>2 DEF ReviveInterface, HasInterface
  <2>. QED  BY <1>2, <2>1 DEF Started
<1>3. CASE i <= f.ppp[a]
  <2> DEFINE g == [f EXCEPT !.up[a] = @ \union {i}, !.routerId[a] = @ \union {i},
                            !.nextHopInterface[a][b] = i]
             up1 == [f.up EXCEPT ![a] = @ \union {i}]
             id1 == [f.routerId EXCEPT ![a] = @ \union {i}]
             nh1 == [f.nextHopInterface EXCEPT ![a][b] = i]
  <2>1. ReviveInterface(f, a, b) = g
    BY <1>1, <1>3 DEF ReviveInterface, HasInterface
  <2>2. i \in Nat
    <3>1. i \in 1 .. Len(f.gate[a])
      BY GatesToMember
    <3>. QED  BY <3>1, FabricFields
  <2>3. /\ g.gate = f.gate /\ g.ppp = f.ppp /\ g.dirtyPppModules = f.dirtyPppModules
        /\ g.up = up1 /\ g.routerId = id1
    BY DEF Fabrics
  <2>4. g.nextHopInterface = nh1
    BY DEF Fabrics
  <2>5. /\ up1 \in [Nodes -> SUBSET Nat] /\ id1 \in [Nodes -> SUBSET Nat]
        /\ \A n \in Nodes : /\ up1[n] = IF n = a THEN f.up[n] \union {i} ELSE f.up[n]
                            /\ id1[n] = IF n = a THEN f.routerId[n] \union {i} ELSE f.routerId[n]
    BY <2>2, FabricFields
  <2>6. /\ nh1 \in [Nodes -> [Nodes -> Nat]]
        /\ \A n, m \in Nodes : nh1[n][m] = IF n = a /\ m = b THEN i ELSE f.nextHopInterface[n][m]
    BY <2>2, FabricFields
  <2>7. g \in Fabrics
    <3>1. g = [f EXCEPT !.up = up1, !.routerId = id1, !.nextHopInterface = nh1]
      BY DEF Fabrics
    <3> HIDE DEF g, up1, id1, nh1
    <3>. QED  BY <2>5, <2>6, <3>1 DEF Fabrics
  <2> HIDE DEF g, up1, id1, nh1
  <2>. QED  BY <1>3, <2>1, <2>3, <2>4, <2>5, <2>6, <2>7 DEF Started
<1>. QED  BY <1>2, <1>3

(* The only link between a and b has been taken away.                      *)
Cut(f, g, a, b, i, j) ==
  LET cut(n) == IF n = a THEN {i} ELSE IF n = b THEN {j} ELSE {} IN
  /\ g \in Fabrics
  /\ g.ppp = f.ppp /\ g.nextHopInterface = f.nextHopInterface
  /\ g.dirtyPppModules = f.dirtyPppModules
  /\ \A n \in Nodes :
       /\ Len(g.gate[n]) = Len(f.gate[n])
       /\ \A k \in 1 .. Len(f.gate[n]) :
            g.gate[n][k] = IF k \in cut(n) THEN Free ELSE f.gate[n][k]
       /\ g.up[n] = f.up[n] \ cut(n) /\ g.routerId[n] = f.routerId[n] \ cut(n)

LEMMA DisconnectFacts ==
  ASSUME NEW f \in Fabrics, NEW a \in Nodes, NEW b \in Nodes, a # b,
         NEW i, GatesTo(f, a, b) = {i}, NEW j, GatesTo(f, b, a) = {j}
  PROVE  Cut(f, Disconnect(f, a, b), a, b, i, j)
<1> DEFINE cut(n) == IF n = a THEN {i} ELSE IF n = b THEN {j} ELSE {}
           i0 == GateTo(f, a, b)
           j0 == GateTo(f, b, a)
           g == [f EXCEPT !.gate[a][i0] = Free, !.gate[b][j0] = Free,
                          !.up[a] = @ \ {i0}, !.up[b] = @ \ {j0},
                          !.routerId[a] = @ \ {i0}, !.routerId[b] = @ \ {j0}]
           gate1 == [[f.gate EXCEPT ![a][i0] = Free] EXCEPT ![b][j0] = Free]
           up1 == [[f.up EXCEPT ![a] = @ \ {i0}] EXCEPT ![b] = @ \ {j0}]
           id1 == [[f.routerId EXCEPT ![a] = @ \ {i0}] EXCEPT ![b] = @ \ {j0}]
<1>0. i0 = i /\ j0 = j
  BY DEF GateTo
<1>1. Disconnect(f, a, b) = g
  BY DEF Disconnect
<1> HIDE DEF i0, j0
<1>2. g = [f EXCEPT !.gate = gate1, !.up = up1, !.routerId = id1]
  BY DEF Fabrics
<1>3. /\ i \in 1 .. Len(f.gate[a]) /\ j \in 1 .. Len(f.gate[b])
      /\ i \in GatesTo(f, a, b) /\ j \in GatesTo(f, b, a)
  BY GatesToMember
<1>4. /\ up1 \in [Nodes -> SUBSET Nat] /\ id1 \in [Nodes -> SUBSET Nat]
      /\ \A n \in Nodes : up1[n] = f.up[n] \ cut(n) /\ id1[n] = f.routerId[n] \ cut(n)
  <2>1. /\ up1 \in [Nodes -> SUBSET Nat]
        /\ \A n \in Nodes : up1[n] = f.up[n] \ cut(n)
    <3>1. \A n \in Nodes : up1[n] = IF n = a THEN f.up[n] \ {i} ELSE IF n = b THEN f.up[n] \ {j} ELSE f.up[n]
      BY <1>0, FabricFields
    <3>2. up1 = [n \in Nodes |-> up1[n]]
      BY FabricFields
    <3> HIDE DEF up1
    <3>. QED  BY <3>1, <3>2, FabricFields
  <2>2. /\ id1 \in [Nodes -> SUBSET Nat]
        /\ \A n \in Nodes : id1[n] = f.routerId[n] \ cut(n)
    <3>1. \A n \in Nodes : id1[n] = IF n = a THEN f.routerId[n] \ {i}
                                    ELSE IF n = b THEN f.routerId[n] \ {j} ELSE f.routerId[n]
      BY <1>0, FabricFields
    <3>2. id1 = [n \in Nodes |-> id1[n]]
      BY FabricFields
    <3> HIDE DEF id1
    <3>. QED  BY <3>1, <3>2, FabricFields
  <2>. QED  BY <2>1, <2>2
<1>5. /\ gate1 \in [Nodes -> Seq(Nodes \union {Free})]
      /\ \A n \in Nodes : Len(gate1[n]) = Len(f.gate[n])
      /\ \A n \in Nodes : \A k \in 1 .. Len(f.gate[n]) :
           gate1[n][k] = IF k \in cut(n) THEN Free ELSE f.gate[n][k]
  <2> DEFINE sa == [f.gate[a] EXCEPT ![i] = Free]
             sb == [f.gate[b] EXCEPT ![j] = Free]
  <2>1. gate1 = [[f.gate EXCEPT ![a] = sa] EXCEPT ![b] = sb]
    BY <1>0, FabricFields
  <2>2. /\ sa \in Seq(Nodes \union {Free}) /\ Len(sa) = Len(f.gate[a])
        /\ \A k \in 1 .. Len(f.gate[a]) : sa[k] = IF k = i THEN Free ELSE f.gate[a][k]
    BY <1>3, FabricFields
  <2>3. /\ sb \in Seq(Nodes \union {Free}) /\ Len(sb) = Len(f.gate[b])
        /\ \A k \in 1 .. Len(f.gate[b]) : sb[k] = IF k = j THEN Free ELSE f.gate[b][k]
    BY <1>3, FabricFields
  <2> HIDE DEF sa, sb, gate1
  <2>4. \A n \in Nodes : gate1[n] = IF n = a THEN sa ELSE IF n = b THEN sb ELSE f.gate[n]
    BY <2>1, FabricFields
  <2>5. gate1 \in [Nodes -> Seq(Nodes \union {Free})]
    BY <2>1, <2>2, <2>3, FabricFields
  <2>. QED  BY <2>2, <2>3, <2>4, <2>5
<1>6. /\ g.ppp = f.ppp /\ g.nextHopInterface = f.nextHopInterface
      /\ g.dirtyPppModules = f.dirtyPppModules
      /\ g.gate = gate1 /\ g.up = up1 /\ g.routerId = id1
  <2> HIDE DEF g, gate1, up1, id1
  <2>. QED  BY <1>2 DEF Fabrics
<1>7. g \in Fabrics
  <2> HIDE DEF g, gate1, up1, id1
  <2>. QED  BY <1>2, <1>4, <1>5 DEF Fabrics
<1> HIDE DEF g, gate1, up1, id1
<1>. QED  BY <1>1, <1>4, <1>5, <1>6, <1>7 DEF Cut

-----------------------------------------------------------------------------
(* Links of ground stations and user terminals.                            *)

LEMMA Kinds ==
  /\ Free \notin Nodes
  /\ \A a, b : <<a, b>> \in SkyPairs =>
       /\ a \in Nodes /\ b \in Nodes /\ a # b /\ b \in Satellites
       /\ a \in GroundStations \union UserTerminals
       /\ a \in GroundStations <=> a \notin UserTerminals
       /\ b \notin GroundStations /\ b \notin UserTerminals
       /\ <<b, a>> \notin AllPairs
       /\ <<a, b>> \notin GridPairs /\ <<b, a>> \notin GridPairs
       /\ <<a, b>> \notin Wires
  /\ \A a, b : <<a, b>> \in Wires =>
       /\ a \in Nodes /\ b \in Nodes /\ a # b
       /\ a \in EndUsers /\ b \in GroundStations
       /\ <<b, a>> \notin AllPairs
       /\ <<a, b>> \notin GridPairs /\ <<b, a>> \notin GridPairs
       /\ <<a, b>> \notin SkyPairs
  /\ \A a, b : <<a, b>> \in GridPairs =>
       a \in Nodes /\ b \in Nodes /\ <<a, b>> \notin SkyPairs /\ <<a, b>> \notin Wires
<1>1. /\ Satellites \intersect GroundStations = {} /\ UserTerminals \intersect EndUsers = {}
      /\ (Satellites \union GroundStations) \intersect (UserTerminals \union EndUsers) = {}
      /\ ConnectModule \in [EndUsers -> GroundStations] /\ Free \notin Nodes
  BY FabricAssumption DEF Routers, Endpoints
<1>2. \A a, b : <<a, b>> \in Wires => a \in EndUsers /\ b \in GroundStations
  BY <1>1 DEF Wires
<1>3. \A a, b : <<a, b>> \in GridPairs => a \in Satellites /\ b \in Satellites
  BY DEF GridPairs
<1>4. \A a, b : <<a, b>> \in SkyPairs => a \in GroundStations \union UserTerminals /\ b \in Satellites
  BY DEF SkyPairs
<1>5. \A a, b : <<a, b>> \in AllPairs <=> <<a, b>> \in Wires \/ <<a, b>> \in GridPairs \/ <<a, b>> \in SkyPairs
  BY DEF AllPairs
<1>6. \A a : a \in Nodes <=> \/ a \in Satellites \/ a \in GroundStations
                             \/ a \in UserTerminals \/ a \in EndUsers
  BY DEF Nodes, Routers, Endpoints
<1> HIDE DEF Wires, GridPairs, SkyPairs, AllPairs
<1>. QED  BY <1>1, <1>2, <1>3, <1>4, <1>5, <1>6

LEMMA SkyKinds ==
  ASSUME NEW a, NEW b, <<a, b>> \in SkyPairs
  PROVE  /\ Free \notin Nodes
         /\ a \in Nodes /\ b \in Nodes /\ a # b /\ b \in Satellites
         /\ a \in GroundStations \union UserTerminals
         /\ a \in GroundStations <=> a \notin UserTerminals
         /\ b \notin GroundStations /\ b \notin UserTerminals
         /\ <<b, a>> \notin AllPairs
         /\ <<a, b>> \notin GridPairs /\ <<b, a>> \notin GridPairs
         /\ <<a, b>> \notin Wires
BY Kinds, Zenon

LEMMA WireKinds ==
  ASSUME NEW a, NEW b, <<a, b>> \in Wires
  PROVE  /\ Free \notin Nodes
         /\ a \in Nodes /\ b \in Nodes /\ a # b
         /\ a \in EndUsers /\ b \in GroundStations
         /\ <<b, a>> \notin AllPairs
         /\ <<a, b>> \notin GridPairs /\ <<b, a>> \notin GridPairs
         /\ <<a, b>> \notin SkyPairs
BY Kinds, Zenon

(* The gates that a link between a and b has taken, and those of them that *)
(* had an interface already and are started with it.                       *)
Taken(a, b, i, j, n) == IF n = a THEN {i} ELSE IF n = b THEN {j} ELSE {}

Revived(f, a, b, i, j, n) == {k \in Taken(a, b, i, j, n) : a \in GroundStations /\ k <= f.ppp[n]}

(* A link has been made between a and b, that had none.                    *)
Made(f, g, a, b, i, j) ==
  /\ g \in Fabrics /\ g.ppp = f.ppp
  /\ Grown(f, g, a, b) /\ OthersKept(f, g, a, b) /\ NewIfFull(f, g)
  /\ GatesTo(g, a, b) = {i} /\ GatesTo(g, b, a) = {j}
  /\ g.dirtyPppModules = f.dirtyPppModules \union {a, b}
  /\ \A n \in Nodes :
       /\ g.up[n] = f.up[n] \union Revived(f, a, b, i, j, n)
       /\ g.routerId[n] = f.routerId[n] \union Revived(f, a, b, i, j, n)
       /\ \A m \in Nodes : g.nextHopInterface[n][m] =
            IF n = a /\ m = b /\ i \in Revived(f, a, b, i, j, a) THEN i
            ELSE IF n = b /\ m = a /\ j \in Revived(f, a, b, i, j, b) THEN j
            ELSE f.nextHopInterface[n][m]

(* A link has been made, but no more.                                      *)
Wired(f, g, a, b, i, j) ==
  /\ g \in Fabrics
  /\ g.ppp = f.ppp /\ g.up = f.up /\ g.routerId = f.routerId
  /\ g.nextHopInterface = f.nextHopInterface /\ g.dirtyPppModules = f.dirtyPppModules
  /\ Grown(f, g, a, b) /\ OthersKept(f, g, a, b) /\ NewIfFull(f, g)
  /\ GatesTo(g, a, b) = {i} /\ GatesTo(g, b, a) = {j}

LEMMA ConnectedUp ==
  ASSUME NEW f \in Fabrics, NEW a \in Nodes, NEW b \in Nodes, a # b,
         GatesTo(f, a, b) = {}, GatesTo(f, b, a) = {}
  PROVE  \E i, j : Wired(f, Connect(f, a, b), a, b, i, j)
<1> DEFINE c == Connect(f, a, b)
<1>1. /\ c \in Fabrics
      /\ c.ppp = f.ppp /\ c.up = f.up /\ c.routerId = f.routerId
      /\ c.nextHopInterface = f.nextHopInterface /\ c.dirtyPppModules = f.dirtyPppModules
      /\ Grown(f, c, a, b) /\ OthersKept(f, c, a, b) /\ NewIfFull(f, c)
      /\ GateMore(f, c, a, b)
  BY ConnectFacts
<1> HIDE DEF c
<1>2. PICK i, j : GatesTo(c, a, b) = {i} /\ GatesTo(c, b, a) = {j}
  BY <1>1 DEF GateMore
<1>3. Wired(f, c, a, b, i, j)
  BY <1>1, <1>2 DEF Wired
<1>. QED  BY <1>3 DEF c

(* The relations between f and g read the gates only, and both ways.       *)
LEMMA SameGates ==
  ASSUME NEW f, NEW c, NEW g, NEW a, NEW b, g.gate = c.gate,
         Grown(f, c, a, b), OthersKept(f, c, a, b), NewIfFull(f, c)
  PROVE  /\ Grown(f, g, b, a) /\ OthersKept(f, g, b, a) /\ NewIfFull(f, g)
         /\ Grown(f, g, a, b) /\ OthersKept(f, g, a, b)
         /\ \A n, m : GatesTo(g, n, m) = GatesTo(c, n, m)
<1>1. \A n, m : GatesTo(g, n, m) = GatesTo(c, n, m)
  BY DEF GatesTo
<1>2. Grown(f, g, b, a) /\ Grown(f, g, a, b)
  BY DEF Grown
<1>3. OthersKept(f, g, b, a) /\ OthersKept(f, g, a, b) /\ NewIfFull(f, g)
  BY <1>1 DEF OthersKept, NewIfFull
<1>. QED  BY <1>1, <1>2, <1>3

LEMMA MarkFacts ==
  ASSUME NEW f \in Fabrics, NEW S \in SUBSET Nodes
  PROVE  LET g == [f EXCEPT !.dirtyPppModules = @ \union S] IN
         /\ g \in Fabrics
         /\ g.gate = f.gate /\ g.ppp = f.ppp /\ g.up = f.up /\ g.routerId = f.routerId
         /\ g.nextHopInterface = f.nextHopInterface
         /\ g.dirtyPppModules = f.dirtyPppModules \union S
<1> DEFINE g == [f EXCEPT !.dirtyPppModules = @ \union S]
<1>1. /\ g.gate = f.gate /\ g.ppp = f.ppp /\ g.up = f.up /\ g.routerId = f.routerId
      /\ g.nextHopInterface = f.nextHopInterface
      /\ g.dirtyPppModules = f.dirtyPppModules \union S
  BY DEF Fabrics
<1>2. g \in Fabrics
  <2>1. f.dirtyPppModules \union S \in SUBSET Nodes
    BY FabricFields
  <2>. QED  BY <2>1 DEF Fabrics
<1>. QED  BY <1>1, <1>2

LEMMA GroundStationLinkMade ==
  ASSUME NEW f \in Fabrics, NEW gs \in GroundStations, NEW sat \in Satellites,
         GatesTo(f, gs, sat) = {}, GatesTo(f, sat, gs) = {}
  PROVE  \E i, j : Made(f, CreateGroundStationLink(f, gs, sat), gs, sat, i, j)
<1> DEFINE c == Connect(f, sat, gs)
           q == ReviveInterface(c, sat, gs)
           r == ReviveInterface(q, gs, sat)
           g == [r EXCEPT !.dirtyPppModules = @ \union {sat, gs}]
<1>1. CreateGroundStationLink(f, gs, sat) = g
  BY DEF CreateGroundStationLink
<1>2. gs \in Nodes /\ sat \in Nodes /\ gs # sat
  BY FabricAssumption DEF Nodes, Routers
<1>3. PICK j, i : Wired(f, c, sat, gs, j, i)
  BY <1>2, ConnectedUp
<1> HIDE DEF c
<1>4. /\ c \in Fabrics
      /\ c.ppp = f.ppp /\ c.up = f.up /\ c.routerId = f.routerId
      /\ c.nextHopInterface = f.nextHopInterface /\ c.dirtyPppModules = f.dirtyPppModules
      /\ Grown(f, c, sat, gs) /\ OthersKept(f, c, sat, gs) /\ NewIfFull(f, c)
      /\ GatesTo(c, sat, gs) = {j} /\ GatesTo(c, gs, sat) = {i}
  BY <1>3 DEF Wired
<1>5. Started(c, q, sat, gs, j)
  BY <1>2, <1>4, ReviveFacts
<1> HIDE DEF q
<1>6. q \in Fabrics /\ GatesTo(q, gs, sat) = {i}
  BY <1>4, <1>5 DEF GatesTo, Started
<1>7. Started(q, r, gs, sat, i)
  BY <1>2, <1>6, ReviveFacts
<1> HIDE DEF r
<1>8. /\ g \in Fabrics
      /\ g.gate = r.gate /\ g.ppp = r.ppp /\ g.up = r.up /\ g.routerId = r.routerId
      /\ g.nextHopInterface = r.nextHopInterface
      /\ g.dirtyPppModules = r.dirtyPppModules \union {sat, gs}
  <2>1. {sat, gs} \in SUBSET Nodes
    BY <1>2
  <2>2. r \in Fabrics
    BY <1>7 DEF Started
  <2>. QED  BY <2>1, <2>2, MarkFacts
<1> HIDE DEF g
<1>9. /\ Grown(f, g, gs, sat) /\ OthersKept(f, g, gs, sat) /\ NewIfFull(f, g)
      /\ GatesTo(g, gs, sat) = {i} /\ GatesTo(g, sat, gs) = {j}
  <2>1. g.gate = c.gate
    BY <1>5, <1>7, <1>8 DEF Started
  <2>. QED  BY <1>4, <2>1, SameGates
<1>10. ASSUME NEW n \in Nodes
       PROVE  /\ g.up[n] = f.up[n] \union Revived(f, gs, sat, i, j, n)
              /\ g.routerId[n] = f.routerId[n] \union Revived(f, gs, sat, i, j, n)
  <2>1. /\ q.up[n] = IF n = sat /\ j <= f.ppp[sat] THEN f.up[n] \union {j} ELSE f.up[n]
        /\ q.routerId[n] = IF n = sat /\ j <= f.ppp[sat] THEN f.routerId[n] \union {j} ELSE f.routerId[n]
    BY <1>4, <1>5 DEF Started
  <2>2. /\ g.up[n] = IF n = gs /\ i <= f.ppp[gs] THEN q.up[n] \union {i} ELSE q.up[n]
        /\ g.routerId[n] = IF n = gs /\ i <= f.ppp[gs] THEN q.routerId[n] \union {i} ELSE q.routerId[n]
    BY <1>4, <1>5, <1>7, <1>8 DEF Started
  <2>3. Revived(f, gs, sat, i, j, n) = IF n = gs /\ i <= f.ppp[gs] THEN {i}
                                       ELSE IF n = sat /\ j <= f.ppp[sat] THEN {j} ELSE {}
    BY <1>2 DEF Revived, Taken
  <2>. QED  BY <1>2, <2>1, <2>2, <2>3
<1>11. ASSUME NEW n \in Nodes, NEW m \in Nodes
       PROVE  g.nextHopInterface[n][m] =
                IF n = gs /\ m = sat /\ i \in Revived(f, gs, sat, i, j, gs) THEN i
                ELSE IF n = sat /\ m = gs /\ j \in Revived(f, gs, sat, i, j, sat) THEN j
                ELSE f.nextHopInterface[n][m]
  <2>1. i \in Revived(f, gs, sat, i, j, gs) <=> i <= f.ppp[gs]
    BY DEF Revived, Taken
  <2>2. j \in Revived(f, gs, sat, i, j, sat) <=> j <= f.ppp[sat]
    BY <1>2 DEF Revived, Taken
  <2>3. q.nextHopInterface[n][m] =
          IF n = sat /\ m = gs /\ j <= f.ppp[sat] THEN j ELSE f.nextHopInterface[n][m]
    BY <1>4, <1>5 DEF Started
  <2>4. g.nextHopInterface[n][m] =
          IF n = gs /\ m = sat /\ i <= f.ppp[gs] THEN i ELSE q.nextHopInterface[n][m]
    <3>1. r.nextHopInterface[n][m] =
            IF n = gs /\ m = sat /\ i <= q.ppp[gs] THEN i ELSE q.nextHopInterface[n][m]
      BY <1>7 DEF Started
    <3>2. q.ppp = f.ppp
      BY <1>4, <1>5 DEF Started
    <3>. QED  BY <1>8, <3>1, <3>2
  <2>. QED  BY <1>2, <2>1, <2>2, <2>3, <2>4
<1>12. g.ppp = f.ppp /\ g.dirtyPppModules = f.dirtyPppModules \union {gs, sat}
  BY <1>4, <1>5, <1>7, <1>8 DEF Started
<1>13. Made(f, g, gs, sat, i, j)
  BY <1>8, <1>9, <1>10, <1>11, <1>12 DEF Made
<1>. QED  BY <1>1, <1>13

LEMMA UserTerminalLinkMade ==
  ASSUME NEW f \in Fabrics, NEW ut \in UserTerminals, NEW sat \in Satellites,
         GatesTo(f, ut, sat) = {}, GatesTo(f, sat, ut) = {}
  PROVE  \E i, j : Made(f, CreateUserTerminalLink(f, ut, sat), ut, sat, i, j)
<1> DEFINE c == Connect(f, sat, ut)
           g == [c EXCEPT !.dirtyPppModules = @ \union {sat, ut}]
<1>1. CreateUserTerminalLink(f, ut, sat) = g
  BY DEF CreateUserTerminalLink
<1>2. ut \in Nodes /\ sat \in Nodes /\ ut # sat /\ ut \notin GroundStations
  BY FabricAssumption DEF Nodes, Routers, Endpoints
<1>3. PICK j, i : Wired(f, c, sat, ut, j, i)
  BY <1>2, ConnectedUp
<1> HIDE DEF c
<1>4. /\ c \in Fabrics
      /\ c.ppp = f.ppp /\ c.up = f.up /\ c.routerId = f.routerId
      /\ c.nextHopInterface = f.nextHopInterface /\ c.dirtyPppModules = f.dirtyPppModules
      /\ Grown(f, c, sat, ut) /\ OthersKept(f, c, sat, ut) /\ NewIfFull(f, c)
      /\ GatesTo(c, sat, ut) = {j} /\ GatesTo(c, ut, sat) = {i}
  BY <1>3 DEF Wired
<1>5. /\ g \in Fabrics
      /\ g.gate = c.gate /\ g.ppp = c.ppp /\ g.up = c.up /\ g.routerId = c.routerId
      /\ g.nextHopInterface = c.nextHopInterface
      /\ g.dirtyPppModules = c.dirtyPppModules \union {sat, ut}
  <2>1. {sat, ut} \in SUBSET Nodes
    BY <1>2
  <2>. QED  BY <1>4, <2>1, MarkFacts
<1> HIDE DEF g
<1>6. /\ Grown(f, g, ut, sat) /\ OthersKept(f, g, ut, sat) /\ NewIfFull(f, g)
      /\ GatesTo(g, ut, sat) = {i} /\ GatesTo(g, sat, ut) = {j}
  BY <1>4, <1>5, SameGates
<1>7. \A n : Revived(f, ut, sat, i, j, n) = {}
  BY <1>2 DEF Revived
<1>8. g.ppp = f.ppp /\ g.dirtyPppModules = f.dirtyPppModules \union {ut, sat}
  BY <1>4, <1>5
<1>9. Made(f, g, ut, sat, i, j)
  BY <1>4, <1>5, <1>6, <1>7, <1>8 DEF Made
<1>. QED  BY <1>1, <1>9

(* A pair that is not linked has no gates to each other.                   *)
LEMMA NotLinked ==
  ASSUME NEW f, NEW L, L \subseteq AllPairs, GatesOK(f, L),
         NEW a, NEW b, <<a, b>> \in SkyPairs \union Wires, <<a, b>> \notin L
  PROVE  GatesTo(f, a, b) = {} /\ GatesTo(f, b, a) = {}
<1>1. /\ a \in Nodes /\ b \in Nodes /\ <<a, b>> \notin GridPairs /\ <<b, a>> \notin GridPairs
      /\ <<b, a>> \notin L
  BY SkyKinds, WireKinds
<1>2. ~Joined(L, a, b) /\ ~Joined(L, b, a)
  BY <1>1 DEF Joined
<1>. QED  BY <1>1, <1>2 DEF GatesOK

LEMMA GatesOKMore ==
  ASSUME NEW f, NEW g, NEW L, NEW a, NEW b, GatesOK(f, L), OthersKept(f, g, a, b),
         NEW i, NEW j, GatesTo(g, a, b) = {i}, GatesTo(g, b, a) = {j}
  PROVE  GatesOK(g, L \union {<<a, b>>})
<1> SUFFICES ASSUME NEW n \in Nodes, NEW m \in Nodes, <<n, m>> \notin GridPairs
             PROVE  IF Joined(L \union {<<a, b>>}, n, m) THEN \E k : GatesTo(g, n, m) = {k}
                    ELSE GatesTo(g, n, m) = {}
  BY DEF GatesOK
<1>1. CASE (n = a /\ m = b) \/ (n = b /\ m = a)
  BY <1>1 DEF Joined
<1>2. CASE ~((n = a /\ m = b) \/ (n = b /\ m = a))
  <2>1. GatesTo(g, n, m) = GatesTo(f, n, m)
    BY <1>2 DEF OthersKept
  <2>2. Joined(L \union {<<a, b>>}, n, m) <=> Joined(L, n, m)
    BY <1>2 DEF Joined
  <2>3. IF Joined(L, n, m) THEN \E k : GatesTo(f, n, m) = {k} ELSE GatesTo(f, n, m) = {}
    BY DEF GatesOK
  <2>. QED  BY <2>1, <2>2, <2>3
<1>. QED  BY <1>1, <1>2

LEMMA MadeKeeps ==
  ASSUME NEW f, NEW L, NEW N, FabricInv(f, L, N),
         NEW a, NEW b, <<a, b>> \in SkyPairs, <<a, b>> \notin L,
         NEW g, NEW i, NEW j, Made(f, g, a, b, i, j)
  PROVE  FabricInv(g, L \union {<<a, b>>}, N \union {<<a, b>>})
<1> DEFINE L1 == L \union {<<a, b>>}
           N1 == N \union {<<a, b>>}
<1>1. /\ f \in Fabrics /\ L \subseteq AllPairs /\ N \subseteq L
      /\ GatesOK(f, L) /\ InterfacesOK(f, N) /\ NewOK(f, N) /\ MatrixOK(f)
  BY DEF FabricInv
<1>2. /\ Free \notin Nodes
      /\ a \in Nodes /\ b \in Nodes /\ a # b /\ b \in Satellites
      /\ a \in GroundStations \union UserTerminals /\ (a \in GroundStations <=> a \notin UserTerminals)
      /\ b \notin GroundStations /\ b \notin UserTerminals
      /\ <<b, a>> \notin AllPairs /\ <<a, b>> \notin GridPairs /\ <<b, a>> \notin GridPairs
      /\ <<a, b>> \notin Wires
  BY SkyKinds
<1>3. /\ g \in Fabrics /\ g.ppp = f.ppp
      /\ Grown(f, g, a, b) /\ OthersKept(f, g, a, b)
      /\ GatesTo(g, a, b) = {i} /\ GatesTo(g, b, a) = {j}
      /\ g.dirtyPppModules = f.dirtyPppModules \union {a, b}
  BY DEF Made
<1>4. /\ GatesTo(f, a, b) = {} /\ GatesTo(f, b, a) = {}
  BY <1>1, NotLinked
<1>5. GatesOK(g, L1)
  BY <1>1, <1>3, GatesOKMore
<1>6. L1 \subseteq AllPairs /\ N1 \subseteq L1
  BY <1>1 DEF AllPairs
<1>7. \A n, m : Joined(N1, n, m) <=> Joined(N, n, m) \/ (n = a /\ m = b) \/ (n = b /\ m = a)
  BY DEF Joined
<1> HIDE DEF L1, N1
<1>8. ASSUME NEW n \in Nodes, NEW k \in 1 .. Len(g.gate[n])
      PROVE  \/ /\ k \in 1 .. Len(f.gate[n]) /\ g.gate[n][k] = f.gate[n][k]
                /\ k \notin Taken(a, b, i, j, n)
             \/ /\ k <= Len(f.gate[n]) => f.gate[n][k] = Free
                /\ k \in Taken(a, b, i, j, n)
                /\ (n = a /\ g.gate[n][k] = b) \/ (n = b /\ g.gate[n][k] = a)
  <2>1. Len(f.gate[n]) \in Nat /\ Len(g.gate[n]) \in Nat
    BY <1>1, <1>3, FabricFields
  <2>2. CASE k <= Len(f.gate[n]) /\ g.gate[n][k] = f.gate[n][k]
    <3>1. k \in 1 .. Len(f.gate[n])
      BY <2>1, <2>2
    <3>2. k \notin Taken(a, b, i, j, n)
      <4>1. CASE n = a /\ k = i
        <5>1. g.gate[a][i] = b
          BY <1>2, <1>3, GatesToMember
        <5>2. k \in GatesTo(f, a, b)
          BY <1>1, <2>2, <3>1, <4>1, <5>1, GatesToMember
        <5>. QED  BY <1>4, <5>2
      <4>2. CASE n = b /\ k = j
        <5>1. g.gate[b][j] = a
          BY <1>2, <1>3, GatesToMember
        <5>2. k \in GatesTo(f, b, a)
          BY <1>1, <2>2, <3>1, <4>2, <5>1, GatesToMember
        <5>. QED  BY <1>4, <5>2
      <4>. QED  BY <4>1, <4>2, <1>2 DEF Taken
    <3>. QED  BY <2>2, <3>1, <3>2
  <2>3. CASE /\ k <= Len(f.gate[n]) => f.gate[n][k] = Free
             /\ (n = a /\ g.gate[n][k] = b) \/ (n = b /\ g.gate[n][k] = a)
    <3>1. CASE n = a /\ g.gate[n][k] = b
      <4>1. k \in GatesTo(g, a, b)
        BY <1>3, <3>1, GatesToMember
      <4>. QED  BY <1>3, <2>3, <3>1, <4>1 DEF Taken
    <3>2. CASE n = b /\ g.gate[n][k] = a
      <4>1. k \in GatesTo(g, b, a)
        BY <1>3, <3>2, GatesToMember
      <4>. QED  BY <1>2, <1>3, <2>3, <3>2, <4>1 DEF Taken
    <3>. QED  BY <2>3, <3>1, <3>2
  <2>. QED  BY <1>3, <2>2, <2>3 DEF Grown
<1>9. InterfacesOK(g, N1)
  <2> SUFFICES ASSUME NEW n \in Nodes
               PROVE  /\ g.ppp[n] <= Len(g.gate[n])
                      /\ g.up[n] \subseteq 1 .. g.ppp[n] /\ g.routerId[n] \subseteq 1 .. g.ppp[n]
                      /\ \A k \in 1 .. g.ppp[n] :
                           /\ g.gate[n][k] = Free => k \notin g.up[n] /\ k \notin g.routerId[n]
                           /\ g.gate[n][k] # Free /\ ~Pending(N1, n, g.gate[n][k]) =>
                                k \in g.up[n] /\ k \in g.routerId[n]
    BY DEF InterfacesOK
  <2>1. /\ f.ppp[n] <= Len(f.gate[n])
        /\ f.up[n] \subseteq 1 .. f.ppp[n] /\ f.routerId[n] \subseteq 1 .. f.ppp[n]
        /\ \A k \in 1 .. f.ppp[n] :
             /\ f.gate[n][k] = Free => k \notin f.up[n] /\ k \notin f.routerId[n]
             /\ f.gate[n][k] # Free /\ ~Pending(N, n, f.gate[n][k]) => k \in f.up[n] /\ k \in f.routerId[n]
    BY <1>1 DEF InterfacesOK
  <2>2. /\ Len(f.gate[n]) \in Nat /\ Len(g.gate[n]) \in Nat /\ f.ppp[n] \in Nat
        /\ Len(f.gate[n]) <= Len(g.gate[n]) /\ g.ppp[n] = f.ppp[n]
    BY <1>1, <1>3, FabricFields DEF Grown
  <2>3. /\ g.up[n] = f.up[n] \union Revived(f, a, b, i, j, n)
        /\ g.routerId[n] = f.routerId[n] \union Revived(f, a, b, i, j, n)
    BY DEF Made
  <2>4. Revived(f, a, b, i, j, n) \subseteq 1 .. f.ppp[n]
    <3>1. Taken(a, b, i, j, n) \subseteq 1 .. Len(g.gate[n])
      <4>1. i \in 1 .. Len(g.gate[a]) /\ j \in 1 .. Len(g.gate[b])
        BY <1>2, <1>3, GatesToMember
      <4>. QED  BY <4>1 DEF Taken
    <3>. QED  BY <2>2, <3>1 DEF Revived
  <2>5. ASSUME NEW k \in 1 .. f.ppp[n]
        PROVE  /\ g.gate[n][k] = Free => k \notin g.up[n] /\ k \notin g.routerId[n]
               /\ g.gate[n][k] # Free /\ ~Pending(N1, n, g.gate[n][k]) =>
                    k \in g.up[n] /\ k \in g.routerId[n]
    <3>1. k \in 1 .. Len(g.gate[n]) /\ k <= Len(f.gate[n])
      BY <2>1, <2>2
    <3>2. CASE g.gate[n][k] = f.gate[n][k] /\ k \notin Taken(a, b, i, j, n)
      <4>1. k \notin Revived(f, a, b, i, j, n)
        BY <3>2 DEF Revived
      <4>2. Pending(N, n, f.gate[n][k]) => Pending(N1, n, f.gate[n][k])
        BY <1>7 DEF Pending
      <4>. QED  BY <2>1, <2>3, <3>2, <4>1, <4>2
    <3>3. CASE /\ f.gate[n][k] = Free /\ k \in Taken(a, b, i, j, n)
               /\ (n = a /\ g.gate[n][k] = b) \/ (n = b /\ g.gate[n][k] = a)
      <4>1. g.gate[n][k] # Free
        BY <1>2, <3>3
      <4>2. a \in GroundStations => k \in Revived(f, a, b, i, j, n)
        BY <2>2, <3>3 DEF Revived
      <4>3. a \notin GroundStations => Pending(N1, n, g.gate[n][k])
        BY <1>2, <1>7, <3>3 DEF Pending
      <4>. QED  BY <2>3, <4>1, <4>2, <4>3
    <3>. QED  BY <1>8, <3>1, <3>2, <3>3
  <2>. QED  BY <2>1, <2>2, <2>3, <2>4, <2>5
<1>10. NewOK(g, N1)
  <2> SUFFICES ASSUME NEW n \in Nodes, NEW k \in 1 .. Len(g.gate[n]), k > g.ppp[n]
               PROVE  /\ Joined(N1, n, g.gate[n][k])
                      /\ n \in g.dirtyPppModules \/ Joined(Wires \union GridPairs, n, g.gate[n][k])
    BY DEF NewOK
  <2>1. CASE k \in 1 .. Len(f.gate[n]) /\ g.gate[n][k] = f.gate[n][k]
    <3>1. /\ Joined(N, n, f.gate[n][k])
          /\ n \in f.dirtyPppModules \/ Joined(Wires \union GridPairs, n, f.gate[n][k])
      BY <1>1, <1>3, <2>1 DEF NewOK
    <3>. QED  BY <1>3, <1>7, <2>1, <3>1
  <2>2. CASE (n = a /\ g.gate[n][k] = b) \/ (n = b /\ g.gate[n][k] = a)
    BY <1>3, <1>7, <2>2
  <2>. QED  BY <1>8, <2>1, <2>2
<1>11. MatrixOK(g)
  <2> SUFFICES ASSUME NEW n \in Routers, NEW m \in Routers
               PROVE  \/ g.nextHopInterface[n][m] \in GatesTo(g, n, m)
                      \/ /\ g.nextHopInterface[n][m] = NoInterface
                         /\ GatesTo(g, n, m) = {} \/ \E k \in GatesTo(g, n, m) : k > g.ppp[n]
    BY DEF MatrixOK
  <2>1. n \in Nodes /\ m \in Nodes
    BY DEF Nodes
  <2>2. g.nextHopInterface[n][m] =
          IF n = a /\ m = b /\ i \in Revived(f, a, b, i, j, a) THEN i
          ELSE IF n = b /\ m = a /\ j \in Revived(f, a, b, i, j, b) THEN j
          ELSE f.nextHopInterface[n][m]
    BY <2>1 DEF Made
  <2>3. \/ f.nextHopInterface[n][m] \in GatesTo(f, n, m)
        \/ /\ f.nextHopInterface[n][m] = NoInterface
           /\ GatesTo(f, n, m) = {} \/ \E k \in GatesTo(f, n, m) : k > f.ppp[n]
    BY <1>1 DEF MatrixOK
  <2>4. CASE ~((n = a /\ m = b) \/ (n = b /\ m = a))
    <3>1. GatesTo(g, n, m) = GatesTo(f, n, m)
      BY <1>3, <2>1, <2>4 DEF OthersKept
    <3>2. g.nextHopInterface[n][m] = f.nextHopInterface[n][m]
      BY <2>2, <2>4
    <3>. QED  BY <1>3, <2>3, <3>1, <3>2
  <2>5. CASE n = a /\ m = b
    <3>1. a \in GroundStations
      BY <2>5, <1>2, FabricAssumption DEF Routers, Endpoints
    <3>2. CASE i <= f.ppp[a]
      <4>1. i \in Revived(f, a, b, i, j, a)
        BY <3>1, <3>2 DEF Revived, Taken
      <4>. QED  BY <1>3, <2>2, <2>5, <4>1
    <3>3. CASE ~(i <= f.ppp[a])
      <4>1. i \notin Revived(f, a, b, i, j, a)
        BY <3>3 DEF Revived
      <4>2. g.nextHopInterface[n][m] = NoInterface
        BY <1>2, <1>4, <2>2, <2>3, <2>5, <4>1
      <4>3. i \in 1 .. Len(g.gate[a]) /\ f.ppp[a] \in Nat /\ Len(g.gate[a]) \in Nat
        BY <1>1, <1>2, <1>3, GatesToMember, FabricFields
      <4>. QED  BY <1>3, <2>5, <3>3, <4>2, <4>3
    <3>. QED  BY <3>2, <3>3
  <2>6. CASE n = b /\ m = a
    <3>1. a \in GroundStations
      BY <2>6, <1>2, FabricAssumption DEF Routers, Endpoints
    <3>2. CASE j <= f.ppp[b]
      <4>1. j \in Revived(f, a, b, i, j, b)
        BY <1>2, <3>1, <3>2 DEF Revived, Taken
      <4>. QED  BY <1>2, <1>3, <2>2, <2>6, <4>1
    <3>3. CASE ~(j <= f.ppp[b])
      <4>1. j \notin Revived(f, a, b, i, j, b)
        BY <3>3 DEF Revived
      <4>2. g.nextHopInterface[n][m] = NoInterface
        BY <1>2, <1>4, <2>2, <2>3, <2>6, <4>1
      <4>3. j \in 1 .. Len(g.gate[b]) /\ f.ppp[b] \in Nat /\ Len(g.gate[b]) \in Nat
        BY <1>1, <1>2, <1>3, GatesToMember, FabricFields
      <4>. QED  BY <1>3, <2>6, <3>3, <4>2, <4>3
    <3>. QED  BY <3>2, <3>3
  <2>. QED  BY <2>4, <2>5, <2>6
<1>12. FabricInv(g, L1, N1)
  BY <1>3, <1>5, <1>6, <1>9, <1>10, <1>11 DEF FabricInv
<1>. QED  BY <1>12 DEF L1, N1

(* The only link between a and b has been taken away, and with it its      *)
(* entries of the next-hop matrix, if a is a ground station.               *)
CutGates(a, b, i, j, n) == IF n = a THEN {i} ELSE IF n = b THEN {j} ELSE {}

Removed(f, g, a, b, i, j) ==
  /\ g \in Fabrics /\ g.ppp = f.ppp /\ g.dirtyPppModules = f.dirtyPppModules
  /\ \A n \in Nodes :
       /\ Len(g.gate[n]) = Len(f.gate[n])
       /\ \A k \in 1 .. Len(f.gate[n]) :
            g.gate[n][k] = IF k \in CutGates(a, b, i, j, n) THEN Free ELSE f.gate[n][k]
       /\ g.up[n] = f.up[n] \ CutGates(a, b, i, j, n)
       /\ g.routerId[n] = f.routerId[n] \ CutGates(a, b, i, j, n)
       /\ \A m \in Nodes : g.nextHopInterface[n][m] =
            IF a \in GroundStations /\ ((n = a /\ m = b) \/ (n = b /\ m = a)) THEN NoInterface
            ELSE f.nextHopInterface[n][m]

LEMMA GroundStationLinkRemoved ==
  ASSUME NEW f \in Fabrics, NEW gs \in GroundStations, NEW sat \in Satellites,
         NEW i, GatesTo(f, gs, sat) = {i}, NEW j, GatesTo(f, sat, gs) = {j}
  PROVE  Removed(f, RemoveGroundStationLink(f, gs, sat), gs, sat, i, j)
<1> DEFINE h == [f EXCEPT !.nextHopInterface[gs][sat] = NoInterface,
                          !.nextHopInterface[sat][gs] = NoInterface]
           g == Disconnect(h, gs, sat)
           nh1 == [[f.nextHopInterface EXCEPT ![gs][sat] = NoInterface] EXCEPT ![sat][gs] = NoInterface]
<1>1. RemoveGroundStationLink(f, gs, sat) = g
  BY DEF RemoveGroundStationLink
<1>2. gs \in Nodes /\ sat \in Nodes /\ gs # sat
  BY FabricAssumption DEF Nodes, Routers
<1>3. h = [f EXCEPT !.nextHopInterface = nh1]
  <2>1. h = [[f EXCEPT !.nextHopInterface[gs][sat] = NoInterface]
               EXCEPT !.nextHopInterface[sat][gs] = NoInterface]
    OBVIOUS
  <2>. QED  BY <1>2, <2>1 DEF Fabrics, NoInterface
<1>4. /\ nh1 \in [Nodes -> [Nodes -> Nat]]
      /\ \A n, m \in Nodes : nh1[n][m] =
           IF (n = gs /\ m = sat) \/ (n = sat /\ m = gs) THEN NoInterface
           ELSE f.nextHopInterface[n][m]
  <2> DEFINE nh0 == [f.nextHopInterface EXCEPT ![gs][sat] = NoInterface]
  <2>1. /\ nh0 \in [Nodes -> [Nodes -> Nat]]
        /\ \A n, m \in Nodes :
             nh0[n][m] = IF n = gs /\ m = sat THEN NoInterface ELSE f.nextHopInterface[n][m]
    BY <1>2, FabricFields DEF NoInterface
  <2>2. nh1 = [nh0 EXCEPT ![sat][gs] = NoInterface]
    OBVIOUS
  <2> HIDE DEF nh0, nh1
  <2>. QED  BY <1>2, <2>1, <2>2 DEF NoInterface
<1> HIDE DEF h, nh1
<1>5. /\ h \in Fabrics
      /\ h.gate = f.gate /\ h.ppp = f.ppp /\ h.up = f.up /\ h.routerId = f.routerId
      /\ h.dirtyPppModules = f.dirtyPppModules /\ h.nextHopInterface = nh1
  BY <1>3, <1>4 DEF Fabrics
<1>6. GatesTo(h, gs, sat) = {i} /\ GatesTo(h, sat, gs) = {j}
  BY <1>5 DEF GatesTo
<1>7. Cut(h, g, gs, sat, i, j)
  BY <1>2, <1>5, <1>6, DisconnectFacts
<1> HIDE DEF g
<1>8. g \in Fabrics /\ g.ppp = f.ppp /\ g.nextHopInterface = nh1 /\ g.dirtyPppModules = f.dirtyPppModules
  BY <1>5, <1>7 DEF Cut
<1>9. \A n \in Nodes :
        /\ Len(g.gate[n]) = Len(f.gate[n])
        /\ \A k \in 1 .. Len(f.gate[n]) :
             g.gate[n][k] = IF k \in CutGates(gs, sat, i, j, n) THEN Free ELSE f.gate[n][k]
        /\ g.up[n] = f.up[n] \ CutGates(gs, sat, i, j, n)
        /\ g.routerId[n] = f.routerId[n] \ CutGates(gs, sat, i, j, n)
  BY <1>5, <1>7 DEF Cut, CutGates
<1>10. Removed(f, g, gs, sat, i, j)
  BY <1>4, <1>8, <1>9 DEF Removed
<1>. QED  BY <1>1, <1>10

LEMMA UserTerminalLinkRemoved ==
  ASSUME NEW f \in Fabrics, NEW ut \in UserTerminals, NEW sat \in Satellites,
         NEW i, GatesTo(f, ut, sat) = {i}, NEW j, GatesTo(f, sat, ut) = {j}
  PROVE  Removed(f, RemoveUserTerminalLink(f, ut, sat), ut, sat, i, j)
<1> DEFINE g == Disconnect(f, ut, sat)
<1>1. RemoveUserTerminalLink(f, ut, sat) = g
  BY DEF RemoveUserTerminalLink
<1>2. ut \in Nodes /\ sat \in Nodes /\ ut # sat /\ ut \notin GroundStations
  BY FabricAssumption DEF Nodes, Routers, Endpoints
<1>3. Cut(f, g, ut, sat, i, j)
  BY <1>2, DisconnectFacts
<1> HIDE DEF g
<1>4. \A n \in Nodes :
        /\ Len(g.gate[n]) = Len(f.gate[n])
        /\ \A k \in 1 .. Len(f.gate[n]) :
             g.gate[n][k] = IF k \in CutGates(ut, sat, i, j, n) THEN Free ELSE f.gate[n][k]
        /\ g.up[n] = f.up[n] \ CutGates(ut, sat, i, j, n)
        /\ g.routerId[n] = f.routerId[n] \ CutGates(ut, sat, i, j, n)
  BY <1>3 DEF Cut, CutGates
<1>5. /\ g \in Fabrics /\ g.ppp = f.ppp /\ g.nextHopInterface = f.nextHopInterface
      /\ g.dirtyPppModules = f.dirtyPppModules
  BY <1>3 DEF Cut
<1>6. Removed(f, g, ut, sat, i, j)
  BY <1>2, <1>4, <1>5 DEF Removed
<1>. QED  BY <1>1, <1>6

LEMMA RemovedGates ==
  ASSUME NEW f \in Fabrics, NEW a \in Nodes, NEW b \in Nodes, a # b, NEW g,
         NEW i, NEW j, GatesTo(f, a, b) = {i}, GatesTo(f, b, a) = {j}, Removed(f, g, a, b, i, j)
  PROVE  /\ GatesTo(g, a, b) = {} /\ GatesTo(g, b, a) = {}
         /\ OthersKept(f, g, a, b)
<1>1. Free \notin Nodes
  BY FabricAssumption
<1>2. f.gate[a][i] = b /\ f.gate[b][j] = a
  BY GatesToMember
<1>3. ASSUME NEW n \in Nodes, NEW m \in Nodes
      PROVE  \A k : k \in GatesTo(g, n, m) <=> k \in GatesTo(f, n, m) /\ k \notin CutGates(a, b, i, j, n)
  <2>1. g \in Fabrics /\ Len(g.gate[n]) = Len(f.gate[n])
    BY DEF Removed
  <2>2. \A k : k \in GatesTo(g, n, m) <=> k \in 1 .. Len(f.gate[n]) /\ g.gate[n][k] = m
    BY <2>1, GatesToMember
  <2>3. \A k : k \in GatesTo(f, n, m) <=> k \in 1 .. Len(f.gate[n]) /\ f.gate[n][k] = m
    BY GatesToMember
  <2>4. \A k \in 1 .. Len(f.gate[n]) :
          g.gate[n][k] = IF k \in CutGates(a, b, i, j, n) THEN Free ELSE f.gate[n][k]
    BY DEF Removed
  <2>. QED  BY <1>1, <2>2, <2>3, <2>4
<1>4. GatesTo(g, a, b) = {} /\ GatesTo(g, b, a) = {}
  BY <1>3 DEF CutGates
<1>5. ASSUME NEW n \in Nodes, NEW m \in Nodes, ~((n = a /\ m = b) \/ (n = b /\ m = a))
      PROVE  GatesTo(g, n, m) = GatesTo(f, n, m)
  <2>1. ASSUME NEW k \in GatesTo(f, n, m) PROVE k \notin CutGates(a, b, i, j, n)
    <3>1. f.gate[n][k] = m
      BY <2>1, GatesToMember
    <3>2. ~(n = a /\ k = i) /\ ~(n = b /\ k = j)
      BY <1>2, <1>5, <3>1
    <3>. QED  BY <3>2 DEF CutGates
  <2>2. \A k : k \in GatesTo(g, n, m) <=> k \in GatesTo(f, n, m) /\ k \notin CutGates(a, b, i, j, n)
    BY <1>3
  <2>3. GatesTo(g, n, m) \subseteq GatesTo(f, n, m) /\ GatesTo(f, n, m) \subseteq GatesTo(g, n, m)
    BY <2>1, <2>2
  <2>. QED  BY <2>3
<1>. QED  BY <1>4, <1>5 DEF OthersKept

LEMMA RemovedKeeps ==
  ASSUME NEW f, NEW L, NEW N, FabricInv(f, L, N),
         NEW a, NEW b, <<a, b>> \in SkyPairs, <<a, b>> \in L, <<a, b>> \notin N,
         NEW g, NEW i, NEW j, GatesTo(f, a, b) = {i}, GatesTo(f, b, a) = {j},
         Removed(f, g, a, b, i, j)
  PROVE  FabricInv(g, L \ {<<a, b>>}, N)
<1> DEFINE L1 == L \ {<<a, b>>}
<1>1. /\ f \in Fabrics /\ L \subseteq AllPairs /\ N \subseteq L
      /\ GatesOK(f, L) /\ InterfacesOK(f, N) /\ NewOK(f, N) /\ MatrixOK(f)
  BY DEF FabricInv
<1>2. /\ Free \notin Nodes
      /\ a \in Nodes /\ b \in Nodes /\ a # b /\ b \in Satellites
      /\ a \in GroundStations \union UserTerminals
      /\ <<b, a>> \notin AllPairs
  BY SkyKinds
<1>3. GatesTo(g, a, b) = {} /\ GatesTo(g, b, a) = {} /\ OthersKept(f, g, a, b)
  BY <1>1, <1>2, RemovedGates
<1>4. g \in Fabrics /\ g.ppp = f.ppp /\ g.dirtyPppModules = f.dirtyPppModules
  BY DEF Removed
<1>5. \A n \in Nodes :
        /\ Len(g.gate[n]) = Len(f.gate[n])
        /\ \A k \in 1 .. Len(f.gate[n]) :
             g.gate[n][k] = IF k \in CutGates(a, b, i, j, n) THEN Free ELSE f.gate[n][k]
        /\ g.up[n] = f.up[n] \ CutGates(a, b, i, j, n)
        /\ g.routerId[n] = f.routerId[n] \ CutGates(a, b, i, j, n)
  BY DEF Removed
<1>6. GatesOK(g, L1)
  <2> SUFFICES ASSUME NEW n \in Nodes, NEW m \in Nodes, <<n, m>> \notin GridPairs
               PROVE  IF Joined(L1, n, m) THEN \E k : GatesTo(g, n, m) = {k}
                      ELSE GatesTo(g, n, m) = {}
    BY DEF GatesOK
  <2>1. CASE (n = a /\ m = b) \/ (n = b /\ m = a)
    <3>1. ~Joined(L1, n, m)
      BY <1>1, <1>2, <2>1 DEF Joined
    <3>. QED  BY <1>3, <2>1, <3>1
  <2>2. CASE ~((n = a /\ m = b) \/ (n = b /\ m = a))
    <3>1. GatesTo(g, n, m) = GatesTo(f, n, m)
      BY <1>3, <2>2 DEF OthersKept
    <3>2. Joined(L1, n, m) <=> Joined(L, n, m)
      BY <2>2 DEF Joined
    <3>3. IF Joined(L, n, m) THEN \E k : GatesTo(f, n, m) = {k} ELSE GatesTo(f, n, m) = {}
      BY <1>1 DEF GatesOK
    <3>. QED  BY <3>1, <3>2, <3>3
  <2>. QED  BY <2>1, <2>2
<1>7. InterfacesOK(g, N)
  <2> SUFFICES ASSUME NEW n \in Nodes
               PROVE  /\ g.ppp[n] <= Len(g.gate[n])
                      /\ g.up[n] \subseteq 1 .. g.ppp[n] /\ g.routerId[n] \subseteq 1 .. g.ppp[n]
                      /\ \A k \in 1 .. g.ppp[n] :
                           /\ g.gate[n][k] = Free => k \notin g.up[n] /\ k \notin g.routerId[n]
                           /\ g.gate[n][k] # Free /\ ~Pending(N, n, g.gate[n][k]) =>
                                k \in g.up[n] /\ k \in g.routerId[n]
    BY DEF InterfacesOK
  <2>1. /\ f.ppp[n] <= Len(f.gate[n])
        /\ f.up[n] \subseteq 1 .. f.ppp[n] /\ f.routerId[n] \subseteq 1 .. f.ppp[n]
        /\ \A k \in 1 .. f.ppp[n] :
             /\ f.gate[n][k] = Free => k \notin f.up[n] /\ k \notin f.routerId[n]
             /\ f.gate[n][k] # Free /\ ~Pending(N, n, f.gate[n][k]) => k \in f.up[n] /\ k \in f.routerId[n]
    BY <1>1 DEF InterfacesOK
  <2>2. Len(f.gate[n]) \in Nat /\ f.ppp[n] \in Nat
    BY <1>1, FabricFields
  <2>3. \A k \in 1 .. f.ppp[n] : k \in 1 .. Len(f.gate[n])
    BY <2>1, <2>2
  <2>4. /\ g.ppp[n] = f.ppp[n] /\ g.ppp[n] <= Len(g.gate[n])
        /\ g.up[n] \subseteq 1 .. f.ppp[n] /\ g.routerId[n] \subseteq 1 .. f.ppp[n]
    BY <1>4, <1>5, <2>1
  <2>5. ASSUME NEW k \in 1 .. f.ppp[n]
        PROVE  /\ g.gate[n][k] = Free => k \notin g.up[n] /\ k \notin g.routerId[n]
               /\ g.gate[n][k] # Free /\ ~Pending(N, n, g.gate[n][k]) =>
                    k \in g.up[n] /\ k \in g.routerId[n]
    <3>1. CASE k \in CutGates(a, b, i, j, n)
      BY <1>5, <2>3, <3>1
    <3>2. CASE k \notin CutGates(a, b, i, j, n)
      <4>1. g.gate[n][k] = f.gate[n][k]
        BY <1>5, <2>3, <3>2
      <4>. QED  BY <1>5, <2>1, <3>2, <4>1
    <3>. QED  BY <3>1, <3>2
  <2>. QED  BY <2>4, <2>5
<1>8. NewOK(g, N)
  <2> SUFFICES ASSUME NEW n \in Nodes, NEW k \in 1 .. Len(g.gate[n]), k > g.ppp[n]
               PROVE  /\ Joined(N, n, g.gate[n][k])
                      /\ n \in g.dirtyPppModules \/ Joined(Wires \union GridPairs, n, g.gate[n][k])
    BY DEF NewOK
  <2>1. /\ k \in 1 .. Len(f.gate[n]) /\ Joined(N, n, f.gate[n][k])
        /\ n \in f.dirtyPppModules \/ Joined(Wires \union GridPairs, n, f.gate[n][k])
    BY <1>1, <1>4, <1>5 DEF NewOK
  <2>2. ~Joined(N, a, b) /\ ~Joined(N, b, a)
    BY <1>1, <1>2 DEF Joined
  <2>3. f.gate[a][i] = b /\ f.gate[b][j] = a
    BY <1>1, <1>2, GatesToMember
  <2>4. k \notin CutGates(a, b, i, j, n)
    BY <2>1, <2>2, <2>3 DEF CutGates
  <2>. QED  BY <1>4, <1>5, <2>1, <2>4
<1>9. MatrixOK(g)
  <2> SUFFICES ASSUME NEW n \in Routers, NEW m \in Routers
               PROVE  \/ g.nextHopInterface[n][m] \in GatesTo(g, n, m)
                      \/ /\ g.nextHopInterface[n][m] = NoInterface
                         /\ GatesTo(g, n, m) = {} \/ \E k \in GatesTo(g, n, m) : k > g.ppp[n]
    BY DEF MatrixOK
  <2>1. n \in Nodes /\ m \in Nodes
    BY DEF Nodes
  <2>2. g.nextHopInterface[n][m] =
          IF a \in GroundStations /\ ((n = a /\ m = b) \/ (n = b /\ m = a)) THEN NoInterface
          ELSE f.nextHopInterface[n][m]
    BY <2>1 DEF Removed
  <2>3. \/ f.nextHopInterface[n][m] \in GatesTo(f, n, m)
        \/ /\ f.nextHopInterface[n][m] = NoInterface
           /\ GatesTo(f, n, m) = {} \/ \E k \in GatesTo(f, n, m) : k > f.ppp[n]
    BY <1>1 DEF MatrixOK
  <2>4. CASE ~((n = a /\ m = b) \/ (n = b /\ m = a))
    <3>1. GatesTo(g, n, m) = GatesTo(f, n, m)
      BY <1>3, <2>1, <2>4 DEF OthersKept
    <3>2. g.nextHopInterface[n][m] = f.nextHopInterface[n][m]
      BY <2>2, <2>4
    <3>. QED  BY <1>4, <2>3, <3>1, <3>2
  <2>5. CASE (n = a /\ m = b) \/ (n = b /\ m = a)
    <3>1. a \in GroundStations
      BY <2>5, <1>2, FabricAssumption DEF Routers, Endpoints
    <3>. QED  BY <1>3, <2>2, <2>5, <3>1
  <2>. QED  BY <2>4, <2>5
<1>10. L1 \subseteq AllPairs /\ N \subseteq L1
  BY <1>1
<1>. QED  BY <1>4, <1>6, <1>7, <1>8, <1>9, <1>10 DEF FabricInv

-----------------------------------------------------------------------------
(* The links that are there from the start on, made when no node has an    *)
(* interface yet.                                                          *)

NoInterfaces(f) == \A n \in Nodes : f.ppp[n] = 0

LEMMA WireKinds2 ==
  ASSUME NEW a, NEW b, <<a, b>> \in Wires \union GridPairs
  PROVE  a \in Nodes /\ b \in Nodes /\ <<a, b>> \in AllPairs /\ Free \notin Nodes
BY Kinds, Zenon DEF AllPairs

LEMMA WiredKeeps ==
  ASSUME NEW f, NEW L, NEW N, FabricInv(f, L, N), NoInterfaces(f),
         NEW a, NEW b, <<a, b>> \in Wires \union GridPairs,
         <<a, b>> \in Wires => <<a, b>> \notin L
  PROVE  LET g == Connect(f, a, b) IN
         /\ FabricInv(g, L \union {<<a, b>>}, N \union {<<a, b>>})
         /\ g.ppp = f.ppp /\ OthersKept(f, g, a, b) /\ NewIfFull(f, g)
<1> DEFINE L1 == L \union {<<a, b>>}
           N1 == N \union {<<a, b>>}
           g == Connect(f, a, b)
<1>1. /\ f \in Fabrics /\ L \subseteq AllPairs /\ N \subseteq L
      /\ GatesOK(f, L) /\ InterfacesOK(f, N) /\ NewOK(f, N) /\ MatrixOK(f)
  BY DEF FabricInv
<1>2. a \in Nodes /\ b \in Nodes /\ <<a, b>> \in AllPairs /\ Free \notin Nodes
  BY WireKinds2
<1>3. /\ g \in Fabrics
      /\ g.ppp = f.ppp /\ g.up = f.up /\ g.routerId = f.routerId
      /\ g.nextHopInterface = f.nextHopInterface /\ g.dirtyPppModules = f.dirtyPppModules
      /\ Grown(f, g, a, b) /\ OthersKept(f, g, a, b) /\ NewIfFull(f, g)
  BY <1>1, <1>2, ConnectFacts
<1>4. GatesOK(g, L1)
  <2>1. CASE <<a, b>> \in Wires
    <3>1. a # b
      BY <2>1, WireKinds
    <3>2. GatesTo(f, a, b) = {} /\ GatesTo(f, b, a) = {}
      BY <1>1, <2>1, NotLinked
    <3>3. PICK i, j : Wired(f, g, a, b, i, j)
      BY <1>1, <1>2, <3>1, <3>2, ConnectedUp
    <3> HIDE DEF g
    <3>4. GatesTo(g, a, b) = {i} /\ GatesTo(g, b, a) = {j}
      BY <3>3 DEF Wired
    <3>. QED  BY <1>1, <1>3, <3>4, GatesOKMore
  <2>2. CASE <<a, b>> \in GridPairs
    <3> HIDE DEF g
    <3> SUFFICES ASSUME NEW n \in Nodes, NEW m \in Nodes, <<n, m>> \notin GridPairs
                 PROVE  IF Joined(L1, n, m) THEN \E k : GatesTo(g, n, m) = {k}
                        ELSE GatesTo(g, n, m) = {}
      BY DEF GatesOK
    <3>1. ~((n = a /\ m = b) \/ (n = b /\ m = a))
      BY <2>2 DEF GridPairs
    <3>2. GatesTo(g, n, m) = GatesTo(f, n, m)
      BY <1>3, <3>1 DEF OthersKept
    <3>3. Joined(L1, n, m) <=> Joined(L, n, m)
      BY <3>1 DEF Joined
    <3>4. IF Joined(L, n, m) THEN \E k : GatesTo(f, n, m) = {k} ELSE GatesTo(f, n, m) = {}
      BY <1>1 DEF GatesOK
    <3>. QED  BY <3>2, <3>3, <3>4
  <2>. QED  BY <2>1, <2>2
<1> HIDE DEF g
<1>5. L1 \subseteq AllPairs /\ N1 \subseteq L1
  BY <1>1, <1>2
<1>6. \A n, m : Joined(N1, n, m) <=> Joined(N, n, m) \/ (n = a /\ m = b) \/ (n = b /\ m = a)
  BY DEF Joined
<1>7. Joined(Wires \union GridPairs, a, b) /\ Joined(Wires \union GridPairs, b, a)
  BY DEF Joined
<1> HIDE DEF L1, N1
<1>8. ASSUME NEW n \in Nodes
      PROVE  /\ Len(f.gate[n]) \in Nat /\ Len(g.gate[n]) \in Nat /\ f.ppp[n] = 0 /\ g.ppp[n] = 0
             /\ f.up[n] = {} /\ f.routerId[n] = {} /\ g.up[n] = {} /\ g.routerId[n] = {}
  <2>1. f.up[n] \subseteq 1 .. f.ppp[n] /\ f.routerId[n] \subseteq 1 .. f.ppp[n] /\ f.ppp[n] = 0
    BY <1>1 DEF InterfacesOK, NoInterfaces
  <2>. QED  BY <1>1, <1>3, <2>1, FabricFields
<1>9. InterfacesOK(g, N1)
  BY <1>8 DEF InterfacesOK
<1>10. NewOK(g, N1)
  <2> SUFFICES ASSUME NEW n \in Nodes, NEW k \in 1 .. Len(g.gate[n]), k > g.ppp[n]
               PROVE  /\ Joined(N1, n, g.gate[n][k])
                      /\ n \in g.dirtyPppModules \/ Joined(Wires \union GridPairs, n, g.gate[n][k])
    BY DEF NewOK
  <2>1. CASE k <= Len(f.gate[n]) /\ g.gate[n][k] = f.gate[n][k]
    <3>1. k \in 1 .. Len(f.gate[n]) /\ k > f.ppp[n]
      BY <1>8, <2>1
    <3>2. /\ Joined(N, n, f.gate[n][k])
          /\ n \in f.dirtyPppModules \/ Joined(Wires \union GridPairs, n, f.gate[n][k])
      BY <1>1, <3>1 DEF NewOK
    <3>. QED  BY <1>3, <1>6, <2>1, <3>2
  <2>2. CASE (n = a /\ g.gate[n][k] = b) \/ (n = b /\ g.gate[n][k] = a)
    BY <1>6, <1>7, <2>2
  <2>. QED  BY <1>3, <2>1, <2>2 DEF Grown
<1>11. MatrixOK(g)
  <2> SUFFICES ASSUME NEW n \in Routers, NEW m \in Routers
               PROVE  \/ g.nextHopInterface[n][m] \in GatesTo(g, n, m)
                      \/ /\ g.nextHopInterface[n][m] = NoInterface
                         /\ GatesTo(g, n, m) = {} \/ \E k \in GatesTo(g, n, m) : k > g.ppp[n]
    BY DEF MatrixOK
  <2>1. n \in Nodes /\ m \in Nodes
    BY DEF Nodes
  <2>2. GatesTo(f, n, m) \subseteq GatesTo(g, n, m)
    <3> SUFFICES ASSUME NEW k \in GatesTo(f, n, m) PROVE k \in GatesTo(g, n, m)
      OBVIOUS
    <3>1. k \in 1 .. Len(f.gate[n]) /\ f.gate[n][k] = m
      BY <1>1, <2>1, GatesToMember
    <3>2. Len(f.gate[n]) <= Len(g.gate[n])
      BY <1>3, <2>1 DEF Grown
    <3>3. k \in 1 .. Len(g.gate[n])
      BY <1>8, <2>1, <3>1, <3>2
    <3>4. g.gate[n][k] = m
      BY <1>2, <1>3, <2>1, <3>1, <3>3 DEF Grown
    <3>. QED  BY <1>3, <2>1, <3>3, <3>4, GatesToMember
  <2>3. ASSUME NEW k \in GatesTo(g, n, m) PROVE k > g.ppp[n]
    <3>1. k \in 1 .. Len(g.gate[n])
      BY <1>3, <2>1, GatesToMember
    <3>. QED  BY <1>8, <2>1, <3>1
  <2>4. \/ f.nextHopInterface[n][m] \in GatesTo(f, n, m)
        \/ f.nextHopInterface[n][m] = NoInterface
    BY <1>1 DEF MatrixOK
  <2>5. g.nextHopInterface[n][m] \in GatesTo(g, n, m) \/ g.nextHopInterface[n][m] = NoInterface
    BY <1>3, <2>2, <2>4
  <2>. QED  BY <2>3, <2>5
<1>12. FabricInv(g, L1, N1)
  BY <1>3, <1>4, <1>5, <1>9, <1>10, <1>11 DEF FabricInv
<1>. QED  BY <1>3, <1>12 DEF L1, N1, g

-----------------------------------------------------------------------------
(* One turn of the loops over links.                                       *)

(* Wires and links of the grid have no interface to start.                 *)
LEMMA CreateWired ==
  ASSUME NEW c, NEW p, p = <<p[1], p[2]>>, <<p[1], p[2]>> \in Wires \union GridPairs
  PROVE  CreateLink(c, p) = Connect(c, p[1], p[2])
<1>1. p[1] \in EndUsers \union Satellites
  BY WireKinds DEF GridPairs
<1>2. p[1] \notin GroundStations /\ p[1] \notin UserTerminals
  BY <1>1, FabricAssumption DEF Routers, Endpoints
<1>. QED  BY <1>1, <1>2 DEF CreateLink

LEMMA CreateLinkKeeps ==
  ASSUME NEW f, NEW L, NEW N, FabricInv(f, L, N), NEW p \in AllPairs,
         p \notin GridPairs => p \notin L, p \notin SkyPairs => NoInterfaces(f)
  PROVE  LET g == CreateLink(f, p) IN
         /\ FabricInv(g, L \union {p}, N \union {p})
         /\ g.ppp = f.ppp /\ OthersKept(f, g, p[1], p[2]) /\ NewIfFull(f, g)
<1> DEFINE a == p[1]
           b == p[2]
           g == CreateLink(f, p)
<1>1. p = <<a, b>>
  BY DEF AllPairs, Wires, GridPairs, SkyPairs
<1>2. f \in Fabrics /\ L \subseteq AllPairs /\ GatesOK(f, L)
  BY DEF FabricInv
<1> HIDE DEF a, b
<1>3. CASE p \in SkyPairs
  <2>1. p \notin GridPairs /\ a \in GroundStations \union UserTerminals /\ b \in Satellites
    BY <1>1, <1>3, SkyKinds
  <2>2. a \in GroundStations <=> a \notin UserTerminals
    BY <1>1, <1>3, SkyKinds
  <2>3. GatesTo(f, a, b) = {} /\ GatesTo(f, b, a) = {}
    BY <1>1, <1>2, <1>3, <2>1, NotLinked
  <2>4. \E i, j : Made(f, g, a, b, i, j)
    <3>1. CASE a \in GroundStations
      <4>1. g = CreateGroundStationLink(f, a, b)
        <5>1. a \notin UserTerminals /\ a \notin EndUsers \union Satellites
          <6>1. /\ Satellites \intersect GroundStations = {}
                /\ (Satellites \union GroundStations) \intersect (UserTerminals \union EndUsers) = {}
            BY FabricAssumption DEF Routers, Endpoints
          <6>. QED  BY <3>1, <6>1
        <5>. QED  BY <3>1, <5>1 DEF CreateLink, a, b
      <4> HIDE DEF g
      <4>. QED  BY <1>2, <2>1, <2>3, <3>1, <4>1, GroundStationLinkMade
    <3>2. CASE a \in UserTerminals
      <4>1. g = CreateUserTerminalLink(f, a, b)
        <5>1. a \notin GroundStations /\ a \notin EndUsers \union Satellites
          <6>1. /\ UserTerminals \intersect EndUsers = {}
                /\ (Satellites \union GroundStations) \intersect (UserTerminals \union EndUsers) = {}
            BY FabricAssumption DEF Routers, Endpoints
          <6>. QED  BY <3>2, <6>1
        <5>. QED  BY <3>2, <5>1 DEF CreateLink, a, b
      <4> HIDE DEF g
      <4>. QED  BY <1>2, <2>1, <2>3, <3>2, <4>1, UserTerminalLinkMade
    <3>. QED  BY <2>1, <3>1, <3>2
  <2> HIDE DEF g
  <2>5. PICK i, j : Made(f, g, a, b, i, j)
    BY <2>4
  <2>6. FabricInv(g, L \union {<<a, b>>}, N \union {<<a, b>>})
    <3>1. <<a, b>> \in SkyPairs /\ <<a, b>> \notin L
      BY <1>1, <1>3, <2>1
    <3>. QED  BY <2>5, <3>1, MadeKeeps
  <2>. QED  BY <1>1, <2>5, <2>6 DEF Made, g, a, b
<1>4. CASE p \in Wires \union GridPairs
  <2>1. p \notin SkyPairs /\ (p \in Wires => p \notin GridPairs)
    BY <1>1, <1>4, Kinds
  <2>3. g = Connect(f, a, b)
    BY <1>1, <1>4, CreateWired DEF a, b
  <2> HIDE DEF g
  <2>4. NoInterfaces(f) /\ (<<a, b>> \in Wires => <<a, b>> \notin L) /\ <<a, b>> \in Wires \union GridPairs
    BY <1>1, <1>4, <2>1
  <2>5. /\ FabricInv(Connect(f, a, b), L \union {<<a, b>>}, N \union {<<a, b>>})
        /\ Connect(f, a, b).ppp = f.ppp /\ OthersKept(f, Connect(f, a, b), a, b)
        /\ NewIfFull(f, Connect(f, a, b))
    BY <2>4, WiredKeeps
  <2>. QED  BY <1>1, <2>3, <2>5 DEF g, a, b
<1>. QED  BY <1>3, <1>4 DEF AllPairs

LEMMA RemoveLinkKeeps ==
  ASSUME NEW f, NEW L, NEW N, FabricInv(f, L, N), NEW p \in SkyPairs, p \in L, p \notin N
  PROVE  LET g == RemoveLink(f, p) IN
         /\ FabricInv(g, L \ {p}, N)
         /\ g.ppp = f.ppp /\ OthersKept(f, g, p[1], p[2]) /\ NewIfFull(f, g)
<1> DEFINE a == p[1]
           b == p[2]
           g == RemoveLink(f, p)
<1>1. p = <<a, b>>
  BY DEF SkyPairs
<1>2. f \in Fabrics /\ L \subseteq AllPairs /\ GatesOK(f, L)
  BY DEF FabricInv
<1> HIDE DEF a, b
<1>3. /\ a \in Nodes /\ b \in Nodes /\ a # b /\ b \in Satellites
      /\ a \in GroundStations \union UserTerminals
      /\ <<a, b>> \notin GridPairs /\ <<b, a>> \notin GridPairs
  BY <1>1, SkyKinds
<1>4. a \in GroundStations <=> a \notin UserTerminals
  BY <1>1, SkyKinds
<1>5. Joined(L, a, b) /\ Joined(L, b, a)
  BY <1>1 DEF Joined
<1>6. PICK i : GatesTo(f, a, b) = {i}
  BY <1>2, <1>3, <1>5 DEF GatesOK
<1>7. PICK j : GatesTo(f, b, a) = {j}
  BY <1>2, <1>3, <1>5 DEF GatesOK
<1>8. Removed(f, g, a, b, i, j)
  <2>1. CASE a \in GroundStations
    <3>1. g = RemoveGroundStationLink(f, a, b)
      BY <2>1 DEF RemoveLink, a, b
    <3> HIDE DEF g
    <3>. QED  BY <1>2, <1>3, <1>6, <1>7, <2>1, <3>1, GroundStationLinkRemoved
  <2>2. CASE a \in UserTerminals
    <3>1. g = RemoveUserTerminalLink(f, a, b)
      BY <1>4, <2>2 DEF RemoveLink, a, b
    <3> HIDE DEF g
    <3>. QED  BY <1>2, <1>3, <1>6, <1>7, <2>2, <3>1, UserTerminalLinkRemoved
  <2>. QED  BY <1>3, <2>1, <2>2
<1> HIDE DEF g
<1>9. OthersKept(f, g, a, b)
  BY <1>2, <1>3, <1>6, <1>7, <1>8, RemovedGates
<1>10. FabricInv(g, L \ {<<a, b>>}, N)
  <2>1. <<a, b>> \in SkyPairs /\ <<a, b>> \in L /\ <<a, b>> \notin N
    BY <1>1
  <2>. QED  BY <1>6, <1>7, <1>8, <2>1, RemovedKeeps
<1>11. NewIfFull(f, g)
  BY <1>8 DEF Removed, NewIfFull
<1>. QED  BY <1>1, <1>8, <1>9, <1>10, <1>11 DEF Removed, g, a, b

-----------------------------------------------------------------------------
(* The loops over links.                                                   *)

(* What the loop has after k turns, when h is its history.                 *)
Turn(f, pairs, wanted, h, k) ==
  IF k = 0 THEN f
  ELSE IF pairs[k] \in wanted THEN CreateLink(h[k - 1], pairs[k])
  ELSE RemoveLink(h[k - 1], pairs[k])

LEMMA HistoryExists ==
  ASSUME NEW f, NEW pairs, NEW wanted, NEW m \in Nat
  PROVE  \E h : h = [k \in 0 .. m |-> Turn(f, pairs, wanted, h, k)]
<1> DEFINE History(h, n) == h = [k \in 0 .. n |-> Turn(f, pairs, wanted, h, k)]
           bad == {n \in Nat : ~\E h : History(h, n)}
<1>1. bad = {}
  <2> SUFFICES ASSUME bad # {} PROVE FALSE
    OBVIOUS
  <2>1. PICK n \in bad : \A x \in bad : n <= x
    <3>1. bad \subseteq Nat
      OBVIOUS
    <3> HIDE DEF bad
    <3>. QED  BY <3>1, LeastElement
  <2>2. n \in Nat /\ ~\E h : History(h, n)
    BY <2>1
  <2>3. CASE n = 0
    <3>1. History([k \in 0 .. 0 |-> f], 0)
      BY DEF Turn
    <3>. QED  BY <2>2, <2>3, <3>1
  <2>4. CASE n # 0
    <3>1. n - 1 \in Nat /\ n - 1 \notin bad
      BY <2>1, <2>2, <2>4
    <3>2. PICK h : History(h, n - 1)
      BY <3>1
    <3> DEFINE g == [k \in 0 .. n |-> IF k = n THEN Turn(f, pairs, wanted, h, n) ELSE h[k]]
    <3>3. ASSUME NEW k \in 0 .. n PROVE g[k] = Turn(f, pairs, wanted, g, k)
      <4>1. CASE k = 0
        <5>1. 0 \in 0 .. n /\ 0 # n /\ 0 \in 0 .. n - 1
          BY <2>4, <3>1
        <5>2. g[0] = h[0]
          BY <5>1
        <5>3. h[0] = Turn(f, pairs, wanted, h, 0)
          BY <3>2, <5>1
        <5> HIDE DEF g
        <5>. QED  BY <4>1, <5>2, <5>3 DEF Turn
      <4>2. CASE k # 0
        <5>1. k - 1 \in 0 .. n /\ k - 1 # n
          BY <2>2, <4>2
        <5>2. g[k - 1] = h[k - 1]
          BY <5>1
        <5>3. g[k] = Turn(f, pairs, wanted, h, k)
          <6>1. CASE k = n
            BY <6>1
          <6>2. CASE k # n
            <7>1. k \in 0 .. n - 1
              BY <2>2, <6>2
            <7>. QED  BY <3>2, <6>2, <7>1
          <6>. QED  BY <6>1, <6>2
        <5> HIDE DEF g
        <5>. QED  BY <5>2, <5>3 DEF Turn
      <4>. QED  BY <4>1, <4>2
    <3>4. History(g, n)
      <4>1. g = [k \in 0 .. n |-> g[k]]
        OBVIOUS
      <4> HIDE DEF g
      <4>. QED  BY <3>3, <4>1
    <3>. QED  BY <2>2, <3>4
  <2>. QED  BY <2>3, <2>4
<1>. QED  BY <1>1

Unrolled(f, pairs, wanted, h) ==
  /\ ChangeLinks(f, pairs, wanted) = h[Len(pairs)]
  /\ h[0] = f
  /\ \A k \in 1 .. Len(pairs) :
       /\ pairs[k] \in wanted => h[k] = CreateLink(h[k - 1], pairs[k])
       /\ pairs[k] \notin wanted => h[k] = RemoveLink(h[k - 1], pairs[k])

LEMMA ChangeLinksUnfolds ==
  ASSUME NEW f, NEW pairs, NEW wanted, Len(pairs) \in Nat
  PROVE  \E h : Unrolled(f, pairs, wanted, h)
<1> DEFINE h == CHOOSE h : h = [k \in 0 .. Len(pairs) |->
                  IF k = 0 THEN f
                  ELSE IF pairs[k] \in wanted THEN CreateLink(h[k - 1], pairs[k])
                  ELSE RemoveLink(h[k - 1], pairs[k])]
<1>1. ChangeLinks(f, pairs, wanted) = h[Len(pairs)]
  BY DEF ChangeLinks
<1>2. \E g : g = [k \in 0 .. Len(pairs) |->
                  IF k = 0 THEN f
                  ELSE IF pairs[k] \in wanted THEN CreateLink(g[k - 1], pairs[k])
                  ELSE RemoveLink(g[k - 1], pairs[k])]
  <2>1. \E g : g = [k \in 0 .. Len(pairs) |-> Turn(f, pairs, wanted, g, k)]
    BY HistoryExists
  <2>. QED  BY <2>1 DEF Turn
<1>3. h = [k \in 0 .. Len(pairs) |->
             IF k = 0 THEN f
             ELSE IF pairs[k] \in wanted THEN CreateLink(h[k - 1], pairs[k])
             ELSE RemoveLink(h[k - 1], pairs[k])]
  BY <1>2, Zenon
<1> HIDE DEF h
<1>4. h[0] = f
  BY <1>3
<1>5. \A k \in 1 .. Len(pairs) :
        /\ pairs[k] \in wanted => h[k] = CreateLink(h[k - 1], pairs[k])
        /\ pairs[k] \notin wanted => h[k] = RemoveLink(h[k - 1], pairs[k])
  BY <1>3
<1>6. Unrolled(f, pairs, wanted, h)
  BY <1>1, <1>4, <1>5 DEF Unrolled
<1>. QED  BY <1>6

(* Pairs that a loop may take in turn, in the state f with the links L of  *)
(* which N are new. A pair comes once, unless it is one of the grid.       *)
Changeable(f, L, N, pairs, wanted) ==
  /\ pairs \in Seq(AllPairs)
  /\ \A k \in 1 .. Len(pairs) :
       /\ pairs[k] \notin GridPairs => \A l \in 1 .. k - 1 : pairs[l] # pairs[k]
       /\ pairs[k] \in wanted /\ pairs[k] \notin GridPairs => pairs[k] \notin L
       /\ pairs[k] \notin SkyPairs => pairs[k] \in wanted /\ NoInterfaces(f)
       /\ pairs[k] \notin wanted => pairs[k] \in L /\ pairs[k] \notin N

(* The links of the set done have been made or removed, as wanted.         *)
LinksAfter(L, done, wanted) == (L \ done) \union (done \intersect wanted)

Changed(f, g, L, N, done, wanted) ==
  /\ FabricInv(g, LinksAfter(L, done, wanted), N \union (done \intersect wanted))
  /\ g.ppp = f.ppp
  /\ \A n, m \in Nodes : ~Joined(done, n, m) => GatesTo(g, n, m) = GatesTo(f, n, m)

(* After another turn, from h to g, and of its gates.                      *)
Turned(f, h, g, L, N, done, wanted) == Changed(f, g, L, N, done, wanted) /\ NewIfFull(h, g)

LEMMA TurnChanges ==
  ASSUME NEW f, NEW h, NEW g, NEW L, NEW N, NEW done, NEW wanted, Changed(f, h, L, N, done, wanted),
         NEW p \in AllPairs,
         p \notin GridPairs => p \notin done,
         p \in wanted /\ p \notin GridPairs => p \notin L,
         p \notin SkyPairs => p \in wanted /\ NoInterfaces(f),
         p \notin wanted => p \in L /\ p \notin N,
         p \in wanted => g = CreateLink(h, p),
         p \notin wanted => g = RemoveLink(h, p)
  PROVE  Turned(f, h, g, L, N, done \union {p}, wanted)
<1> DEFINE L1 == LinksAfter(L, done, wanted)
           N1 == N \union (done \intersect wanted)
           L2 == LinksAfter(L, done \union {p}, wanted)
           N2 == N \union ((done \union {p}) \intersect wanted)
<1>1. /\ FabricInv(h, L1, N1) /\ h.ppp = f.ppp
      /\ \A n, m \in Nodes : ~Joined(done, n, m) => GatesTo(h, n, m) = GatesTo(f, n, m)
  BY DEF Changed
<1>2. FabricInv(g, L2, N2) /\ g.ppp = h.ppp /\ OthersKept(h, g, p[1], p[2]) /\ NewIfFull(h, g)
  <2>1. CASE p \in wanted
    <3>1. L2 = L1 \union {p} /\ N2 = N1 \union {p}
      BY <2>1 DEF LinksAfter
    <3>2. /\ p \notin GridPairs => p \notin L1
          /\ p \notin SkyPairs => NoInterfaces(h)
      BY <1>1, <2>1 DEF LinksAfter, NoInterfaces
    <3> HIDE DEF L1, N1, L2, N2
    <3>. QED  BY <1>1, <2>1, <3>1, <3>2, CreateLinkKeeps
  <2>2. CASE p \notin wanted
    <3>1. L2 = L1 \ {p} /\ N2 = N1
      BY <2>2 DEF LinksAfter
    <3>2. p \in SkyPairs /\ p \notin GridPairs
      <4>1. p \in SkyPairs
        BY <2>2
      <4>2. p = <<p[1], p[2]>>
        BY <4>1 DEF SkyPairs
      <4>3. <<p[1], p[2]>> \in SkyPairs
        BY <4>1, <4>2
      <4>4. <<p[1], p[2]>> \notin GridPairs
        BY <4>3, SkyKinds
      <4>. QED  BY <4>1, <4>2, <4>4
    <3>3. p \in L1 /\ p \notin N1
      BY <2>2, <3>2 DEF LinksAfter
    <3> HIDE DEF L1, N1, L2, N2
    <3>. QED  BY <1>1, <2>2, <3>1, <3>2, <3>3, RemoveLinkKeeps
  <2>. QED  BY <2>1, <2>2
<1> HIDE DEF L1, N1
<1>3. ASSUME NEW n \in Nodes, NEW m \in Nodes, ~Joined(done \union {p}, n, m)
      PROVE  GatesTo(g, n, m) = GatesTo(f, n, m)
  <2>1. p = <<p[1], p[2]>>
    BY DEF AllPairs, Wires, GridPairs, SkyPairs
  <2>2. ~Joined(done, n, m) /\ ~((n = p[1] /\ m = p[2]) \/ (n = p[2] /\ m = p[1]))
    BY <1>3, <2>1 DEF Joined
  <2>. QED  BY <1>1, <1>2, <2>2 DEF OthersKept
<1>. QED  BY <1>1, <1>2, <1>3 DEF Changed, Turned

Done(pairs, k) == {pairs[l] : l \in 1 .. k}

(* What holds of the history of a loop.                                    *)
Stepwise(f, pairs, wanted, L, N, h) ==
  /\ Unrolled(f, pairs, wanted, h)
  /\ \A k \in 0 .. Len(pairs) : Changed(f, h[k], L, N, Done(pairs, k), wanted)
  /\ \A k \in 1 .. Len(pairs) : NewIfFull(h[k - 1], h[k])

LEMMA ChangeLinksStepwise ==
  ASSUME NEW f, NEW L, NEW N, FabricInv(f, L, N),
         NEW pairs, NEW wanted, Changeable(f, L, N, pairs, wanted)
  PROVE  \E h : Stepwise(f, pairs, wanted, L, N, h)
<1> DEFINE done(k) == Done(pairs, k)
<1>1. pairs \in Seq(AllPairs) /\ Len(pairs) \in Nat /\ DOMAIN pairs = 1 .. Len(pairs)
  BY DEF Changeable
<1>2. PICK h : Unrolled(f, pairs, wanted, h)
  BY <1>1, ChangeLinksUnfolds
<1>3. Changed(f, h[0], L, N, done(0), wanted)
  <2>1. done(0) = {}
    BY DEF Done
  <2>2. LinksAfter(L, {}, wanted) = L /\ N \union ({} \intersect wanted) = N
    BY DEF LinksAfter
  <2> HIDE DEF done
  <2>. QED  BY <1>2, <2>1, <2>2 DEF Changed, Unrolled
<1>4. ASSUME NEW k \in 1 .. Len(pairs), Changed(f, h[k - 1], L, N, done(k - 1), wanted)
      PROVE  Changed(f, h[k], L, N, done(k), wanted) /\ NewIfFull(h[k - 1], h[k])
  <2> DEFINE p == pairs[k]
  <2>1. done(k) = done(k - 1) \union {p}
    <3>1. \A l : l \in 1 .. k <=> l \in 1 .. k - 1 \/ l = k
      BY <1>1
    <3>. QED  BY <3>1 DEF Done
  <2>2. p \notin GridPairs => p \notin done(k - 1)
    BY DEF Changeable, Done
  <2>3. /\ p \in AllPairs
        /\ p \in wanted /\ p \notin GridPairs => p \notin L
        /\ p \notin SkyPairs => p \in wanted /\ NoInterfaces(f)
        /\ p \notin wanted => p \in L /\ p \notin N
    BY <1>1 DEF Changeable
  <2>4. /\ p \in wanted => h[k] = CreateLink(h[k - 1], p)
        /\ p \notin wanted => h[k] = RemoveLink(h[k - 1], p)
    BY <1>2 DEF Unrolled
  <2> HIDE DEF done, p
  <2>5. Turned(f, h[k - 1], h[k], L, N, done(k - 1) \union {p}, wanted)
    BY <1>4, <2>2, <2>3, <2>4, TurnChanges
  <2>. QED  BY <2>1, <2>5 DEF Turned
<1>5. \A k \in 0 .. Len(pairs) : Changed(f, h[k], L, N, done(k), wanted)
  <2> DEFINE bad == {k \in 0 .. Len(pairs) : ~Changed(f, h[k], L, N, done(k), wanted)}
  <2> SUFFICES ASSUME bad # {} PROVE FALSE
    OBVIOUS
  <2>1. PICK n \in bad : \A x \in bad : n <= x
    <3>1. bad \subseteq Nat
      BY <1>1
    <3> HIDE DEF bad
    <3>. QED  BY <3>1, LeastElement
  <2>2. n \in 0 .. Len(pairs) /\ ~Changed(f, h[n], L, N, done(n), wanted)
    BY <2>1
  <2> HIDE DEF done
  <2>3. n # 0
    BY <1>3, <2>2
  <2>4. n \in 1 .. Len(pairs) /\ n - 1 \in 0 .. Len(pairs) /\ ~(n <= n - 1)
    BY <1>1, <2>2, <2>3
  <2>5. n - 1 \notin bad
    BY <2>1, <2>4
  <2>6. Changed(f, h[n - 1], L, N, done(n - 1), wanted)
    BY <2>4, <2>5
  <2>. QED  BY <1>4, <2>2, <2>4, <2>6
<1>6. \A k \in 1 .. Len(pairs) : NewIfFull(h[k - 1], h[k])
  <2> SUFFICES ASSUME NEW k \in 1 .. Len(pairs) PROVE NewIfFull(h[k - 1], h[k])
    OBVIOUS
  <2>1. k - 1 \in 0 .. Len(pairs)
    BY <1>1
  <2> HIDE DEF done
  <2>. QED  BY <1>4, <1>5, <2>1
<1>7. Stepwise(f, pairs, wanted, L, N, h)
  BY <1>2, <1>5, <1>6 DEF Stepwise
<1>. QED  BY <1>7

LEMMA ChangeLinksKeeps ==
  ASSUME NEW f, NEW L, NEW N, FabricInv(f, L, N),
         NEW pairs, NEW wanted, Changeable(f, L, N, pairs, wanted)
  PROVE  Changed(f, ChangeLinks(f, pairs, wanted), L, N, Range(pairs), wanted)
<1>1. pairs \in Seq(AllPairs) /\ Len(pairs) \in Nat /\ DOMAIN pairs = 1 .. Len(pairs)
  BY DEF Changeable
<1>2. PICK h : Stepwise(f, pairs, wanted, L, N, h)
  BY ChangeLinksStepwise
<1>3. Done(pairs, Len(pairs)) = Range(pairs)
  BY <1>1 DEF Range, Done
<1>4. Len(pairs) \in 0 .. Len(pairs)
  BY <1>1
<1>. QED  BY <1>2, <1>3, <1>4 DEF Stepwise, Unrolled

LEMMA SetToSeqFacts ==
  ASSUME NEW S, IsFiniteSet(S)
  PROVE  /\ SetToSeq(S) \in Seq(S) /\ Len(SetToSeq(S)) \in Nat /\ Range(SetToSeq(S)) = S
         /\ \A k \in 1 .. Len(SetToSeq(S)) : \A l \in 1 .. k - 1 : SetToSeq(S)[l] # SetToSeq(S)[k]
<1> DEFINE n == Cardinality(S)
           s == SetToSeq(S)
<1>1. n \in Nat /\ ExistsBijection(1 .. n, S)
  BY FS_CardinalityType
<1>2. \E h \in [1 .. n -> S] : IsInjective(h)
  <2>1. PICK h : h \in Bijection(1 .. n, S)
    BY <1>1 DEF ExistsBijection
  <2>2. h \in [1 .. n -> S] /\ IsInjective(h)
    BY <2>1 DEF Bijection, Injection
  <2>. QED  BY <2>2
<1>3. s \in [1 .. n -> S] /\ IsInjective(s)
  BY <1>2 DEF SetToSeq
<1> HIDE DEF s
<1>4. s \in Seq(S) /\ Len(s) = n /\ DOMAIN s = 1 .. n
  BY <1>1, <1>3
<1>5. s \in Injection(1 .. n, S)
  BY <1>3 DEF Injection
<1>6. s \in Surjection(1 .. n, S)
  <2>1. Cardinality(1 .. n) = n
    BY <1>1, FS_Interval
  <2>2. Cardinality(1 .. n) = Cardinality(S) <=> s \in Surjection(1 .. n, S)
    <3> HIDE DEF n
    <3>. QED  BY <1>5, FS_Injection
  <2>. QED  BY <2>1, <2>2
<1>7. Range(s) = S
  BY <1>4, <1>6 DEF Surjection, Range
<1>8. \A k \in 1 .. n : \A l \in 1 .. k - 1 : s[l] # s[k]
  <2> SUFFICES ASSUME NEW k \in 1 .. n, NEW l \in 1 .. k - 1 PROVE s[l] # s[k]
    OBVIOUS
  <2>1. l \in 1 .. n /\ l # k
    BY <1>1
  <2>. QED  BY <1>3, <1>4, <2>1 DEF IsInjective
<1>. QED  BY <1>1, <1>4, <1>7, <1>8 DEF s

LEMMA FinitePairs ==
  ASSUME NEW S, S \subseteq SkyPairs \union Wires
  PROVE  IsFiniteSet(S)
<1>1. IsFiniteSet(Nodes \X Nodes)
  BY FabricAssumption, FS_Product
<1>2. S \subseteq Nodes \X Nodes
  BY FabricAssumption DEF SkyPairs, Wires, Nodes, Routers, Endpoints
<1>. QED  BY <1>1, <1>2, FS_Subset

(* A loop over a set of links of ground stations or user terminals.        *)
LEMMA SkyChangeable ==
  ASSUME NEW f, NEW L, NEW N, FabricInv(f, L, N), NEW S, S \subseteq SkyPairs, NEW wanted,
         \A p \in S : IF p \in wanted THEN p \notin L ELSE p \in L /\ p \notin N
  PROVE  Changeable(f, L, N, SetToSeq(S), wanted) /\ Range(SetToSeq(S)) = S
<1> DEFINE pairs == SetToSeq(S)
<1>1. /\ pairs \in Seq(S) /\ Len(pairs) \in Nat /\ Range(pairs) = S
      /\ \A k \in 1 .. Len(pairs) : \A l \in 1 .. k - 1 : pairs[l] # pairs[k]
  <2>1. IsFiniteSet(S)
    BY FinitePairs
  <2>. QED  BY <2>1, SetToSeqFacts
<1> HIDE DEF pairs
<1>2. \A k \in 1 .. Len(pairs) : pairs[k] \in S
  BY <1>1
<1>3. pairs \in Seq(AllPairs)
  BY <1>1 DEF AllPairs
<1>4. Changeable(f, L, N, pairs, wanted)
  BY <1>1, <1>2, <1>3 DEF Changeable
<1>. QED  BY <1>1, <1>4 DEF pairs

LEMMA ChangeSkyLinks ==
  ASSUME NEW f, NEW L, NEW N, FabricInv(f, L, N), NEW S, S \subseteq SkyPairs, NEW wanted,
         \A p \in S : IF p \in wanted THEN p \notin L ELSE p \in L /\ p \notin N
  PROVE  Changed(f, ChangeLinks(f, SetToSeq(S), wanted), L, N, S, wanted)
<1> DEFINE pairs == SetToSeq(S)
<1>1. Changeable(f, L, N, pairs, wanted) /\ Range(pairs) = S
  BY SkyChangeable
<1> HIDE DEF pairs
<1>2. Changed(f, ChangeLinks(f, pairs, wanted), L, N, Range(pairs), wanted)
  BY <1>1, ChangeLinksKeeps
<1>. QED  BY <1>1, <1>2 DEF pairs

(* The links that are never removed.                                       *)
FixedLinks == Wires \union Range(InterSatelliteLinks)

LEMMA FixedKinds ==
  /\ Range(InterSatelliteLinks) \subseteq GridPairs /\ FixedLinks \subseteq AllPairs
  /\ FixedLinks \intersect SkyPairs = {}
<1>1. InterSatelliteLinks \in Seq(GridPairs)
  BY FabricAssumption DEF GridPairs
<1>2. Range(InterSatelliteLinks) \subseteq GridPairs
  BY <1>1 DEF Range
<1>3. FixedLinks \subseteq AllPairs
  BY <1>2 DEF FixedLinks, AllPairs
<1>4. \A p : p \in SkyPairs => p = <<p[1], p[2]>>
  BY DEF SkyPairs
<1>5. \A p : p \in SkyPairs => p \notin Wires /\ p \notin GridPairs
  <2> SUFFICES ASSUME NEW p, p \in SkyPairs PROVE p \notin Wires /\ p \notin GridPairs
    OBVIOUS
  <2>1. <<p[1], p[2]>> \in SkyPairs
    BY <1>4
  <2>2. <<p[1], p[2]>> \notin Wires /\ <<p[1], p[2]>> \notin GridPairs
    BY <2>1, SkyKinds
  <2>. QED  BY <1>4, <2>2
<1>. QED  BY <1>2, <1>3, <1>5 DEF FixedLinks

(* The loops of setUpSimulation as one, on nodes that have no interface    *)
(* yet: w wires, then the inter-satellite links.                           *)
SetUpLoop(f, pairs, w) ==
  /\ SetUpSimulation(f) = ChangeLinks(f, pairs, Range(pairs))
  /\ Changeable(f, {}, {}, pairs, Range(pairs)) /\ Range(pairs) = FixedLinks
  /\ w \in Nat /\ Len(pairs) \in Nat
  /\ \A k \in 1 .. Len(pairs) :
       \/ pairs[k] \in Wires
       \/ k - w \in 1 .. Len(InterSatelliteLinks) /\ pairs[k] = InterSatelliteLinks[k - w]

LEMMA SetUpSimulationLoop ==
  ASSUME NEW f, NoInterfaces(f)
  PROVE  \E pairs, w : SetUpLoop(f, pairs, w)
<1> DEFINE wires == SetToSeq(Wires)
           pairs == wires \o InterSatelliteLinks
<1>1. /\ wires \in Seq(Wires) /\ Len(wires) \in Nat /\ Range(wires) = Wires
      /\ \A k \in 1 .. Len(wires) : \A l \in 1 .. k - 1 : wires[l] # wires[k]
  <2>1. IsFiniteSet(Wires)
    BY FinitePairs
  <2>. QED  BY <2>1, SetToSeqFacts
<1> HIDE DEF wires
<1>2. InterSatelliteLinks \in Seq(GridPairs)
  BY FabricAssumption DEF GridPairs
<1>3. /\ pairs \in Seq(AllPairs) /\ Len(pairs) \in Nat
      /\ Len(pairs) = Len(wires) + Len(InterSatelliteLinks)
      /\ \A k \in 1 .. Len(pairs) :
           pairs[k] = IF k <= Len(wires) THEN wires[k] ELSE InterSatelliteLinks[k - Len(wires)]
  BY <1>1, <1>2 DEF AllPairs
<1>4. Len(InterSatelliteLinks) \in Nat
  BY <1>2
<1> HIDE DEF pairs
<1>5. \A k \in 1 .. Len(pairs) :
        \/ k \in 1 .. Len(wires) /\ pairs[k] = wires[k]
        \/ /\ k - Len(wires) \in 1 .. Len(InterSatelliteLinks) /\ ~(k <= Len(wires))
           /\ pairs[k] = InterSatelliteLinks[k - Len(wires)]
  BY <1>1, <1>3, <1>4
<1>6. \A k \in 1 .. Len(pairs) : \/ k \in 1 .. Len(wires) /\ pairs[k] = wires[k] /\ pairs[k] \in Wires
                                 \/ pairs[k] \in GridPairs
  BY <1>1, <1>2, <1>5
<1>7. Range(pairs) = FixedLinks
  <2>1. \A p : p \in Range(pairs) <=> \E k \in 1 .. Len(pairs) : p = pairs[k]
    BY <1>3 DEF Range
  <2>2. \A p : p \in Wires <=> \E k \in 1 .. Len(wires) : p = wires[k]
    BY <1>1 DEF Range
  <2>3. \A p : p \in Range(InterSatelliteLinks) <=>
                 \E k \in 1 .. Len(InterSatelliteLinks) : p = InterSatelliteLinks[k]
    BY <1>2 DEF Range
  <2>4. ASSUME NEW p \in Range(pairs) PROVE p \in FixedLinks
    BY <1>5, <2>1, <2>2, <2>3 DEF FixedLinks
  <2>5. ASSUME NEW p \in Wires PROVE p \in Range(pairs)
    <3>1. PICK k \in 1 .. Len(wires) : p = wires[k]
      BY <2>2
    <3>2. k \in 1 .. Len(pairs) /\ pairs[k] = wires[k]
      BY <1>1, <1>3, <1>4
    <3>. QED  BY <2>1, <3>1, <3>2
  <2>6. ASSUME NEW p \in Range(InterSatelliteLinks) PROVE p \in Range(pairs)
    <3>1. PICK k \in 1 .. Len(InterSatelliteLinks) : p = InterSatelliteLinks[k]
      BY <2>3
    <3>2. k + Len(wires) \in 1 .. Len(pairs) /\ ~(k + Len(wires) <= Len(wires))
      BY <1>1, <1>3, <1>4
    <3>3. pairs[k + Len(wires)] = InterSatelliteLinks[(k + Len(wires)) - Len(wires)]
      BY <1>3, <3>2
    <3>4. (k + Len(wires)) - Len(wires) = k
      BY <1>1, <1>4
    <3>. QED  BY <2>1, <3>1, <3>2, <3>3, <3>4
  <2>. QED  BY <2>4, <2>5, <2>6 DEF FixedLinks
<1>8. Changeable(f, {}, {}, pairs, Range(pairs))
  <2>1. \A k \in 1 .. Len(pairs) : pairs[k] \in Range(pairs)
    <3>1. DOMAIN pairs = 1 .. Len(pairs)
      BY <1>3
    <3>. QED  BY <3>1 DEF Range
  <2>2. ASSUME NEW k \in 1 .. Len(pairs), pairs[k] \notin GridPairs, NEW l \in 1 .. k - 1
        PROVE  pairs[l] # pairs[k]
    <3>1. k \in 1 .. Len(wires) /\ pairs[k] = wires[k]
      BY <1>6, <2>2
    <3>2. l \in 1 .. Len(pairs) /\ l <= Len(wires)
      BY <1>1, <1>3, <3>1
    <3>3. pairs[l] = wires[l]
      BY <1>3, <3>2
    <3>4. wires[l] # wires[k]
      BY <1>1, <3>1
    <3>. QED  BY <3>1, <3>3, <3>4
  <2>. QED  BY <1>3, <2>1, <2>2 DEF Changeable
<1>9. SetUpSimulation(f) = ChangeLinks(f, pairs, Range(pairs))
  BY DEF SetUpSimulation, pairs, wires
<1>10. SetUpLoop(f, pairs, Len(wires))
  BY <1>1, <1>3, <1>5, <1>6, <1>7, <1>8, <1>9 DEF SetUpLoop
<1>. QED  BY <1>10

LEMMA SetUpSimulationKeeps ==
  ASSUME NEW f, FabricInv(f, {}, {}), NoInterfaces(f)
  PROVE  /\ FabricInv(SetUpSimulation(f), FixedLinks, FixedLinks)
         /\ NoInterfaces(SetUpSimulation(f))
<1>1. PICK pairs, w : SetUpLoop(f, pairs, w)
  BY SetUpSimulationLoop
<1> DEFINE g == SetUpSimulation(f)
<1>2. Changed(f, ChangeLinks(f, pairs, Range(pairs)), {}, {}, Range(pairs), Range(pairs))
  BY <1>1, ChangeLinksKeeps DEF SetUpLoop
<1>3. g = ChangeLinks(f, pairs, Range(pairs)) /\ Range(pairs) = FixedLinks
  BY <1>1 DEF SetUpLoop
<1> HIDE DEF g
<1>4. Changed(f, g, {}, {}, FixedLinks, FixedLinks)
  BY <1>2, <1>3
<1>5. LinksAfter({}, FixedLinks, FixedLinks) = FixedLinks
      /\ {} \union (FixedLinks \intersect FixedLinks) = FixedLinks
  BY DEF LinksAfter
<1>6. FabricInv(g, FixedLinks, FixedLinks) /\ g.ppp = f.ppp
  BY <1>4, <1>5 DEF Changed
<1>. QED  BY <1>6 DEF NoInterfaces, g

-----------------------------------------------------------------------------
(* Interfaces.                                                             *)

NewGates(f, nodes, n) == IF n \in nodes THEN (f.ppp[n] + 1) .. Len(f.gate[n]) ELSE {}

KnownGates(f, nodes, known, n) == IF n \in known THEN NewGates(f, nodes, n) ELSE {}

NewTowards(f, nodes, known, n, m) == KnownGates(f, nodes, known, n) \intersect GatesTo(f, n, m)

Updated(f, g, nodes, known) ==
  /\ g \in Fabrics /\ g.gate = f.gate /\ g.dirtyPppModules = f.dirtyPppModules
  /\ \A n \in Nodes :
       /\ g.ppp[n] = IF n \in nodes THEN Len(f.gate[n]) ELSE f.ppp[n]
       /\ g.up[n] = f.up[n] \union NewGates(f, nodes, n)
       /\ g.routerId[n] = f.routerId[n] \union KnownGates(f, nodes, known, n)
       /\ \A m \in Nodes :
            IF NewTowards(f, nodes, known, n, m) = {} THEN g.nextHopInterface[n][m] = f.nextHopInterface[n][m]
            ELSE g.nextHopInterface[n][m] \in NewTowards(f, nodes, known, n, m)

LEMMA LastOfMember ==
  ASSUME NEW l \in Nat, NEW S, S \subseteq 1 .. l, S # {}
  PROVE  LastOf(S) \in S
<1>1. S \subseteq 0 .. l
  OBVIOUS
<1>2. \E x \in S : \A y \in S : y <= x
  BY <1>1, GreatestElement
<1>. QED  BY <1>2 DEF LastOf

LEMMA UpdateFacts ==
  ASSUME NEW f \in Fabrics, NEW nodes, NEW known
  PROVE  Updated(f, UpdatePPPModules(f, nodes, known), nodes, known)
<1> DEFINE new(n) == IF n \in nodes THEN (f.ppp[n] + 1) .. Len(f.gate[n]) ELSE {}
           reg(n) == IF n \in known THEN new(n) ELSE {}
           towards(n, m) == reg(n) \intersect GatesTo(f, n, m)
           ppp1 == [n \in Nodes |-> IF n \in nodes THEN Len(f.gate[n]) ELSE f.ppp[n]]
           up1 == [n \in Nodes |-> f.up[n] \union new(n)]
           id1 == [n \in Nodes |-> f.routerId[n] \union reg(n)]
           nh1 == [n \in Nodes |-> [m \in Nodes |->
                     IF towards(n, m) = {} THEN f.nextHopInterface[n][m] ELSE LastOf(towards(n, m))]]
           g == [f EXCEPT !.ppp = ppp1, !.up = up1, !.routerId = id1, !.nextHopInterface = nh1]
<1>1. UpdatePPPModules(f, nodes, known) = g
  BY DEF UpdatePPPModules
<1>2. \A n : new(n) = NewGates(f, nodes, n) /\ reg(n) = KnownGates(f, nodes, known, n)
  BY DEF NewGates, KnownGates
<1>3. \A n, m : towards(n, m) = NewTowards(f, nodes, known, n, m)
  BY <1>2 DEF NewTowards
<1>4. ppp1 \in [Nodes -> Nat]
  BY FabricFields
<1>5. \A n \in Nodes : new(n) \subseteq Nat /\ reg(n) \subseteq Nat
  BY FabricFields
<1> HIDE DEF new, reg
<1>6. up1 \in [Nodes -> SUBSET Nat] /\ id1 \in [Nodes -> SUBSET Nat]
  BY <1>5, FabricFields
<1>7. ASSUME NEW n \in Nodes, NEW m \in Nodes, towards(n, m) # {}
      PROVE  LastOf(towards(n, m)) \in towards(n, m) /\ LastOf(towards(n, m)) \in Nat
  <2>1. towards(n, m) \subseteq 1 .. Len(f.gate[n]) /\ Len(f.gate[n]) \in Nat
    BY GatesToMember, FabricFields
  <2> HIDE DEF towards
  <2>2. LastOf(towards(n, m)) \in towards(n, m)
    BY <1>7, <2>1, LastOfMember
  <2>. QED  BY <2>1, <2>2
<1> HIDE DEF towards
<1>8. nh1 \in [Nodes -> [Nodes -> Nat]]
  BY <1>7, FabricFields
<1>9. /\ \A n \in Nodes : ppp1[n] = IF n \in nodes THEN Len(f.gate[n]) ELSE f.ppp[n]
      /\ \A n \in Nodes : up1[n] = f.up[n] \union new(n) /\ id1[n] = f.routerId[n] \union reg(n)
      /\ \A n \in Nodes : \A m \in Nodes : nh1[n][m] =
           IF towards(n, m) = {} THEN f.nextHopInterface[n][m] ELSE LastOf(towards(n, m))
  OBVIOUS
<1> HIDE DEF ppp1, up1, id1, nh1
<1>10. /\ g \in Fabrics /\ g.gate = f.gate /\ g.dirtyPppModules = f.dirtyPppModules
       /\ g.ppp = ppp1 /\ g.up = up1 /\ g.routerId = id1 /\ g.nextHopInterface = nh1
  BY <1>4, <1>6, <1>8 DEF Fabrics
<1> HIDE DEF g
<1>11. \A n \in Nodes : \A m \in Nodes :
         IF NewTowards(f, nodes, known, n, m) = {} THEN g.nextHopInterface[n][m] = f.nextHopInterface[n][m]
         ELSE g.nextHopInterface[n][m] \in NewTowards(f, nodes, known, n, m)
  BY <1>3, <1>7, <1>9, <1>10
<1>12. \A n \in Nodes :
         /\ g.ppp[n] = IF n \in nodes THEN Len(f.gate[n]) ELSE f.ppp[n]
         /\ g.up[n] = f.up[n] \union NewGates(f, nodes, n)
         /\ g.routerId[n] = f.routerId[n] \union KnownGates(f, nodes, known, n)
  BY <1>2, <1>9, <1>10
<1>13. Updated(f, g, nodes, known)
  BY <1>10, <1>11, <1>12 DEF Updated
<1>. QED  BY <1>1, <1>13

(* The interfaces that are finished at n, towards the other ends of links. *)
FinishedGates(f, links, n) ==
  {i \in {GateTo(f, n, m) : m \in {x \in Nodes : Joined(TerminalLinks(links), n, x)}} :
     HasInterface(f, n, i)}

Finished(f, g, links) ==
  /\ g \in Fabrics /\ g.gate = f.gate /\ g.ppp = f.ppp /\ g.dirtyPppModules = f.dirtyPppModules
  /\ g.nextHopInterface = f.nextHopInterface
  /\ \A n \in Nodes : /\ g.up[n] = f.up[n] \union FinishedGates(f, links, n)
                      /\ g.routerId[n] = f.routerId[n] \union FinishedGates(f, links, n)

LEMMA FinalizeFacts ==
  ASSUME NEW f \in Fabrics, NEW links,
         \A n, m \in Nodes : Joined(TerminalLinks(links), n, m) => \E i : GatesTo(f, n, m) = {i}
  PROVE  Finished(f, FinalizeUserTerminalLinks(f, links), links)
<1> DEFINE up1 == [n \in Nodes |-> f.up[n] \union FinishedGates(f, links, n)]
           id1 == [n \in Nodes |-> f.routerId[n] \union FinishedGates(f, links, n)]
           g == [f EXCEPT !.up = up1, !.routerId = id1]
<1>1. FinalizeUserTerminalLinks(f, links) = g
  BY DEF FinalizeUserTerminalLinks, FinishedGates, Joined
<1>2. ASSUME NEW n \in Nodes PROVE FinishedGates(f, links, n) \subseteq Nat
  <2> SUFFICES ASSUME NEW m \in Nodes, Joined(TerminalLinks(links), n, m) PROVE GateTo(f, n, m) \in Nat
    BY DEF FinishedGates
  <2>1. PICK i : GatesTo(f, n, m) = {i}
    OBVIOUS
  <2>2. GateTo(f, n, m) = i
    BY <2>1 DEF GateTo
  <2>3. i \in 1 .. Len(f.gate[n])
    BY <2>1, GatesToMember
  <2>4. Len(f.gate[n]) \in Nat
    BY FabricFields
  <2>. QED  BY <2>2, <2>3, <2>4
<1>3. up1 \in [Nodes -> SUBSET Nat] /\ id1 \in [Nodes -> SUBSET Nat]
  BY <1>2, FabricFields
<1>4. \A n \in Nodes : /\ up1[n] = f.up[n] \union FinishedGates(f, links, n)
                       /\ id1[n] = f.routerId[n] \union FinishedGates(f, links, n)
  OBVIOUS
<1> HIDE DEF up1, id1
<1>5. /\ g \in Fabrics /\ g.gate = f.gate /\ g.ppp = f.ppp /\ g.dirtyPppModules = f.dirtyPppModules
      /\ g.nextHopInterface = f.nextHopInterface /\ g.up = up1 /\ g.routerId = id1
  BY <1>3 DEF Fabrics
<1> HIDE DEF g
<1>6. Finished(f, g, links)
  BY <1>4, <1>5 DEF Finished
<1>. QED  BY <1>1, <1>6

(* The interfaces of n that a link is plugged into.                        *)
ConnectedGates(f, n) == {i \in 1 .. Len(f.gate[n]) : i <= f.ppp[n] /\ f.gate[n][i] \in Nodes}

Filled(f, g) ==
  /\ g \in Fabrics /\ g.gate = f.gate /\ g.ppp = f.ppp /\ g.dirtyPppModules = f.dirtyPppModules
  /\ g.up = f.up
  /\ \A n \in Nodes :
       /\ g.routerId[n] = f.routerId[n] \union ConnectedGates(f, n)
       /\ \A m \in Nodes : \/ g.nextHopInterface[n][m] \in GatesTo(f, n, m)
                           \/ g.nextHopInterface[n][m] = f.nextHopInterface[n][m]

LEMMA FillFacts ==
  ASSUME NEW f \in Fabrics
  PROVE  Filled(f, FillNextHopInterfaceMap(f))
<1> DEFINE towards(n, m) == {i \in GatesTo(f, n, m) : HasInterface(f, n, i)}
           connected(n)  == UNION {towards(n, m) : m \in Nodes}
           id1 == [n \in Nodes |-> f.routerId[n] \union connected(n)]
           nh1 == [n \in Nodes |-> [m \in Nodes |->
                     IF n \in Routers /\ towards(n, m) # {} THEN LastOf(towards(n, m))
                     ELSE f.nextHopInterface[n][m]]]
           g == [f EXCEPT !.routerId = id1, !.nextHopInterface = nh1]
<1>1. FillNextHopInterfaceMap(f) = g
  BY DEF FillNextHopInterfaceMap
<1>2. ASSUME NEW n \in Nodes PROVE connected(n) = ConnectedGates(f, n)
  <2>1. \A i : i \in connected(n) <=> \E m \in Nodes : i \in GatesTo(f, n, m) /\ i <= f.ppp[n]
    BY DEF HasInterface
  <2>2. \A m : \A i : i \in GatesTo(f, n, m) <=> i \in 1 .. Len(f.gate[n]) /\ f.gate[n][i] = m
    BY GatesToMember
  <2> HIDE DEF connected
  <2>3. \A i : i \in connected(n) <=> i \in ConnectedGates(f, n)
    BY <2>1, <2>2 DEF ConnectedGates
  <2>. QED  BY <2>3
<1>3. \A n \in Nodes : ConnectedGates(f, n) \subseteq Nat
  BY DEF ConnectedGates
<1>4. ASSUME NEW n \in Nodes, NEW m \in Nodes, towards(n, m) # {}
      PROVE  LastOf(towards(n, m)) \in GatesTo(f, n, m) /\ LastOf(towards(n, m)) \in Nat
  <2>1. /\ towards(n, m) \subseteq 1 .. Len(f.gate[n]) /\ Len(f.gate[n]) \in Nat
        /\ towards(n, m) \subseteq GatesTo(f, n, m)
    BY GatesToMember, FabricFields
  <2> HIDE DEF towards
  <2>2. LastOf(towards(n, m)) \in towards(n, m)
    BY <1>4, <2>1, LastOfMember
  <2>. QED  BY <2>1, <2>2
<1> HIDE DEF towards, connected
<1>5. id1 \in [Nodes -> SUBSET Nat]
  BY <1>2, <1>3, FabricFields
<1>6. nh1 \in [Nodes -> [Nodes -> Nat]]
  BY <1>4, FabricFields
<1>7. /\ \A n \in Nodes : id1[n] = f.routerId[n] \union connected(n)
      /\ \A n \in Nodes : \A m \in Nodes : nh1[n][m] =
           IF n \in Routers /\ towards(n, m) # {} THEN LastOf(towards(n, m)) ELSE f.nextHopInterface[n][m]
  OBVIOUS
<1> HIDE DEF id1, nh1
<1>8. /\ g \in Fabrics /\ g.gate = f.gate /\ g.ppp = f.ppp /\ g.dirtyPppModules = f.dirtyPppModules
      /\ g.up = f.up /\ g.routerId = id1 /\ g.nextHopInterface = nh1
  BY <1>5, <1>6 DEF Fabrics
<1> HIDE DEF g
<1>9. \A n \in Nodes : \A m \in Nodes :
        \/ g.nextHopInterface[n][m] \in GatesTo(f, n, m)
        \/ g.nextHopInterface[n][m] = f.nextHopInterface[n][m]
  BY <1>4, <1>7, <1>8
<1>10. Filled(f, g)
  BY <1>2, <1>7, <1>8, <1>9 DEF Filled
<1>. QED  BY <1>1, <1>10

(* Every gate has its interface.                                           *)
Complete(f) == \A n \in Nodes : f.ppp[n] = Len(f.gate[n])

LEMMA SkyIsNotFixed ==
  ASSUME NEW N, N \subseteq SkyPairs, NEW n, NEW m, Joined(N, n, m)
  PROVE  ~Joined(Wires \union GridPairs, n, m)
<1>1. ASSUME NEW a, NEW b, <<a, b>> \in SkyPairs PROVE ~Joined(Wires \union GridPairs, a, b)
  <2>1. /\ <<a, b>> \notin GridPairs /\ <<b, a>> \notin GridPairs
        /\ <<a, b>> \notin Wires /\ <<b, a>> \notin AllPairs
    BY <1>1, SkyKinds
  <2>. QED  BY <2>1 DEF Joined, AllPairs
<1>2. <<n, m>> \in SkyPairs \/ <<m, n>> \in SkyPairs
  BY DEF Joined
<1>3. CASE <<n, m>> \in SkyPairs
  BY <1>1, <1>3
<1>4. CASE <<m, n>> \in SkyPairs
  <2>1. ~Joined(Wires \union GridPairs, m, n)
    BY <1>1, <1>4
  <2>. QED  BY <2>1 DEF Joined
<1>. QED  BY <1>2, <1>3, <1>4

(* A gate without an interface is one of a marked node.                    *)
LEMMA NewAreMarked ==
  ASSUME NEW f, NEW L, NEW N, FabricInv(f, L, N), N \subseteq SkyPairs,
         NEW n \in Nodes, NEW i \in 1 .. Len(f.gate[n]), i > f.ppp[n]
  PROVE  n \in f.dirtyPppModules /\ f.gate[n][i] # Free
<1>1. /\ Joined(N, n, f.gate[n][i])
      /\ n \in f.dirtyPppModules \/ Joined(Wires \union GridPairs, n, f.gate[n][i])
  BY DEF FabricInv, NewOK
<1>2. f.gate[n][i] # Free
  <2>1. \A m : Joined(N, n, m) => m \in Nodes
    <3> SUFFICES ASSUME NEW m, Joined(N, n, m) PROVE m \in Nodes
      OBVIOUS
    <3>1. <<n, m>> \in SkyPairs \/ <<m, n>> \in SkyPairs
      BY DEF Joined
    <3>. QED  BY <3>1, SkyKinds
  <2>2. Free \notin Nodes
    BY FabricAssumption
  <2>. QED  BY <1>1, <2>1, <2>2
<1>. QED  BY <1>1, <1>2, SkyIsNotFixed

LEMMA AddPPPInterfacesKeeps ==
  ASSUME NEW f, NEW L, NEW N, FabricInv(f, L, N), N \subseteq SkyPairs
  PROVE  LET g == AddPPPInterfaces(f)
         IN  FabricInv(g, L, N) /\ Complete(g) /\ g.gate = f.gate
<1> DEFINE D == f.dirtyPppModules
           h == UpdatePPPModules(f, D, D)
           g == [h EXCEPT !.dirtyPppModules = {}]
<1>1. AddPPPInterfaces(f) = g
  BY DEF AddPPPInterfaces
<1>2. /\ f \in Fabrics /\ L \subseteq AllPairs /\ N \subseteq L
      /\ GatesOK(f, L) /\ InterfacesOK(f, N) /\ NewOK(f, N) /\ MatrixOK(f)
  BY DEF FabricInv
<1>3. Updated(f, h, D, D)
  BY <1>2, UpdateFacts
<1> HIDE DEF h
<1>4. h \in Fabrics
  BY <1>3 DEF Updated
<1>5. /\ g \in Fabrics /\ g.gate = h.gate /\ g.ppp = h.ppp /\ g.up = h.up /\ g.routerId = h.routerId
      /\ g.nextHopInterface = h.nextHopInterface
  BY <1>4 DEF Fabrics
<1> HIDE DEF g
<1>6. g.gate = f.gate
  BY <1>3, <1>5 DEF Updated
<1>7. ASSUME NEW n \in Nodes
      PROVE  /\ Len(f.gate[n]) \in Nat /\ f.ppp[n] \in Nat
             /\ g.ppp[n] = Len(f.gate[n])
             /\ NewGates(f, D, n) = (f.ppp[n] + 1) .. Len(f.gate[n])
             /\ g.up[n] = f.up[n] \union NewGates(f, D, n)
             /\ g.routerId[n] = f.routerId[n] \union NewGates(f, D, n)
             /\ KnownGates(f, D, D, n) = NewGates(f, D, n)
  <2>1. Len(f.gate[n]) \in Nat /\ f.ppp[n] \in Nat /\ f.ppp[n] <= Len(f.gate[n])
    BY <1>2, FabricFields DEF InterfacesOK
  <2>2. n \notin D => f.ppp[n] = Len(f.gate[n])
    <3> SUFFICES ASSUME f.ppp[n] < Len(f.gate[n]) PROVE n \in D
      BY <2>1
    <3>1. Len(f.gate[n]) \in 1 .. Len(f.gate[n]) /\ Len(f.gate[n]) > f.ppp[n]
      BY <2>1
    <3>. QED  BY <3>1, NewAreMarked
  <2>3. NewGates(f, D, n) = (f.ppp[n] + 1) .. Len(f.gate[n])
    BY <2>1, <2>2 DEF NewGates
  <2>4. KnownGates(f, D, D, n) = NewGates(f, D, n)
    BY DEF KnownGates, NewGates
  <2>5. /\ h.ppp[n] = IF n \in D THEN Len(f.gate[n]) ELSE f.ppp[n]
        /\ h.up[n] = f.up[n] \union NewGates(f, D, n)
        /\ h.routerId[n] = f.routerId[n] \union KnownGates(f, D, D, n)
    BY <1>3 DEF Updated
  <2> HIDE DEF D
  <2>. QED  BY <1>5, <2>1, <2>2, <2>3, <2>4, <2>5
<1>8. Complete(g)
  BY <1>6, <1>7 DEF Complete
<1>9. ASSUME NEW n \in Nodes, NEW i \in NewGates(f, D, n)
      PROVE  i \in 1 .. Len(f.gate[n]) /\ f.gate[n][i] # Free
  <2>1. i \in 1 .. Len(f.gate[n]) /\ i > f.ppp[n]
    BY <1>7
  <2>. QED  BY <2>1, NewAreMarked
<1>10. GatesOK(g, L)
  BY <1>2, <1>6 DEF GatesOK, GatesTo
<1>11. InterfacesOK(g, N)
  <2> SUFFICES ASSUME NEW n \in Nodes
               PROVE  /\ g.ppp[n] <= Len(g.gate[n])
                      /\ g.up[n] \subseteq 1 .. g.ppp[n] /\ g.routerId[n] \subseteq 1 .. g.ppp[n]
                      /\ \A k \in 1 .. g.ppp[n] :
                           /\ g.gate[n][k] = Free => k \notin g.up[n] /\ k \notin g.routerId[n]
                           /\ g.gate[n][k] # Free /\ ~Pending(N, n, g.gate[n][k]) =>
                                k \in g.up[n] /\ k \in g.routerId[n]
    BY DEF InterfacesOK
  <2>1. /\ f.ppp[n] <= Len(f.gate[n])
        /\ f.up[n] \subseteq 1 .. f.ppp[n] /\ f.routerId[n] \subseteq 1 .. f.ppp[n]
        /\ \A k \in 1 .. f.ppp[n] :
             /\ f.gate[n][k] = Free => k \notin f.up[n] /\ k \notin f.routerId[n]
             /\ f.gate[n][k] # Free /\ ~Pending(N, n, f.gate[n][k]) => k \in f.up[n] /\ k \in f.routerId[n]
    BY <1>2 DEF InterfacesOK
  <2>2. g.up[n] \subseteq 1 .. g.ppp[n] /\ g.routerId[n] \subseteq 1 .. g.ppp[n]
    BY <1>7, <1>9, <2>1
  <2>3. \A k \in 1 .. g.ppp[n] : k \in 1 .. f.ppp[n] \/ k \in NewGates(f, D, n)
    BY <1>7
  <2>4. \A k : k \in g.up[n] <=> k \in f.up[n] \/ k \in NewGates(f, D, n)
    BY <1>7
  <2>5. \A k : k \in g.routerId[n] <=> k \in f.routerId[n] \/ k \in NewGates(f, D, n)
    BY <1>7
  <2>6. g.ppp[n] <= Len(g.gate[n])
    BY <1>6, <1>7
  <2> HIDE DEF D
  <2>. QED  BY <1>6, <1>9, <2>1, <2>2, <2>3, <2>4, <2>5, <2>6
<1>12. NewOK(g, N)
  <2> SUFFICES ASSUME NEW n \in Nodes, NEW i \in 1 .. Len(g.gate[n]) PROVE ~(i > g.ppp[n])
    BY DEF NewOK
  <2>. QED  BY <1>6, <1>7
<1>13. MatrixOK(g)
  <2> SUFFICES ASSUME NEW n \in Routers, NEW m \in Routers
               PROVE  \/ g.nextHopInterface[n][m] \in GatesTo(g, n, m)
                      \/ g.nextHopInterface[n][m] = NoInterface /\ GatesTo(g, n, m) = {}
    BY DEF MatrixOK
  <2>1. n \in Nodes /\ m \in Nodes
    BY DEF Nodes
  <2>2. GatesTo(g, n, m) = GatesTo(f, n, m)
    BY <1>6 DEF GatesTo
  <2>3. \/ f.nextHopInterface[n][m] \in GatesTo(f, n, m)
        \/ /\ f.nextHopInterface[n][m] = NoInterface
           /\ GatesTo(f, n, m) = {} \/ \E i \in GatesTo(f, n, m) : i > f.ppp[n]
    BY <1>2 DEF MatrixOK
  <2>4. IF NewTowards(f, D, D, n, m) = {} THEN g.nextHopInterface[n][m] = f.nextHopInterface[n][m]
        ELSE g.nextHopInterface[n][m] \in NewTowards(f, D, D, n, m)
    BY <1>3, <1>5, <2>1 DEF Updated
  <2>5. NewTowards(f, D, D, n, m) = NewGates(f, D, n) \intersect GatesTo(f, n, m)
    BY <1>7, <2>1 DEF NewTowards
  <2>6. ASSUME NEW i \in GatesTo(f, n, m), i > f.ppp[n] PROVE i \in NewTowards(f, D, D, n, m)
    <3>1. i \in 1 .. Len(f.gate[n])
      BY <1>2, <2>1, GatesToMember
    <3>2. i \in (f.ppp[n] + 1) .. Len(f.gate[n])
      BY <1>7, <2>1, <2>6, <3>1
    <3>. QED  BY <1>7, <2>1, <2>5, <3>2
  <2>. QED  BY <2>2, <2>3, <2>4, <2>5, <2>6
<1>14. FabricInv(g, L, N)
  BY <1>2, <1>5, <1>10, <1>11, <1>12, <1>13 DEF FabricInv
<1>. QED  BY <1>1, <1>6, <1>8, <1>14

(* Once the links of user terminals are finished, none is new.             *)
LEMMA NothingNew ==
  ASSUME NEW f, NEW L, NEW N, FabricInv(f, L, N), Complete(f),
         \A n, m \in Nodes : ~Pending(N, n, m)
  PROVE  FabricInv(f, L, {})
<1>1. /\ f \in Fabrics /\ L \subseteq AllPairs /\ N \subseteq L
      /\ GatesOK(f, L) /\ InterfacesOK(f, N) /\ MatrixOK(f)
  BY DEF FabricInv
<1>2. InterfacesOK(f, {})
  <2> SUFFICES ASSUME NEW n \in Nodes, NEW k \in 1 .. f.ppp[n], f.gate[n][k] # Free
               PROVE  ~Pending(N, n, f.gate[n][k])
    BY <1>1 DEF InterfacesOK
  <2>1. k \in 1 .. Len(f.gate[n])
    BY DEF Complete
  <2>2. f.gate[n][k] \in Nodes \union {Free}
    BY <1>1, <2>1, FabricFields
  <2>. QED  BY <2>2
<1>3. NewOK(f, {})
  <2> SUFFICES ASSUME NEW n \in Nodes, NEW i \in 1 .. Len(f.gate[n]) PROVE ~(i > f.ppp[n])
    BY DEF NewOK
  <2>1. f.ppp[n] = Len(f.gate[n]) /\ Len(f.gate[n]) \in Nat
    BY <1>1, FabricFields DEF Complete
  <2>. QED  BY <2>1
<1>. QED  BY <1>1, <1>2, <1>3 DEF FabricInv

LEMMA TerminalLinksKinds ==
  ASSUME NEW links \in [UserTerminals -> Satellites \union {Free}]
  PROVE  /\ TerminalLinks(links) \subseteq UserTerminals \X Satellites
         /\ TerminalLinks(links) \subseteq SkyPairs
BY DEF TerminalLinks, SkyPairs

LEMMA FinalizeKeeps ==
  ASSUME NEW f, NEW L, NEW N, FabricInv(f, L, N), Complete(f),
         NEW links \in [UserTerminals -> Satellites \union {Free}], TerminalLinks(links) \subseteq L,
         \A n, m \in Nodes : Pending(N, n, m) => Joined(TerminalLinks(links), n, m)
  PROVE  LET g == FinalizeUserTerminalLinks(f, links)
         IN  FabricInv(g, L, {}) /\ g.gate = f.gate /\ g.ppp = f.ppp
<1> DEFINE T == TerminalLinks(links)
           g == FinalizeUserTerminalLinks(f, links)
<1>1. /\ f \in Fabrics /\ L \subseteq AllPairs
      /\ GatesOK(f, L) /\ InterfacesOK(f, N) /\ MatrixOK(f)
  BY DEF FabricInv
<1>2. ASSUME NEW n \in Nodes, NEW m \in Nodes, Joined(T, n, m) PROVE \E i : GatesTo(f, n, m) = {i}
  <2>1. <<n, m>> \notin GridPairs
    <3>1. <<n, m>> \in SkyPairs \/ <<m, n>> \in SkyPairs
      BY <1>2, TerminalLinksKinds DEF Joined
    <3>. QED  BY <3>1, SkyKinds
  <2>2. Joined(L, n, m)
    BY <1>2 DEF Joined
  <2>. QED  BY <1>1, <2>1, <2>2 DEF GatesOK
<1>3. Finished(f, g, links)
  BY <1>1, <1>2, FinalizeFacts
<1> HIDE DEF g
<1>4. /\ g \in Fabrics /\ g.gate = f.gate /\ g.ppp = f.ppp
      /\ g.nextHopInterface = f.nextHopInterface
      /\ \A n \in Nodes : /\ g.up[n] = f.up[n] \union FinishedGates(f, links, n)
                          /\ g.routerId[n] = f.routerId[n] \union FinishedGates(f, links, n)
  BY <1>3 DEF Finished
<1>5. ASSUME NEW n \in Nodes
      PROVE  \A k \in FinishedGates(f, links, n) : k \in 1 .. f.ppp[n] /\ f.gate[n][k] # Free
  <2> SUFFICES ASSUME NEW m \in Nodes, Joined(T, n, m)
               PROVE  GateTo(f, n, m) \in 1 .. f.ppp[n] /\ f.gate[n][GateTo(f, n, m)] # Free
    BY DEF FinishedGates
  <2>1. PICK i : GatesTo(f, n, m) = {i}
    BY <1>2
  <2>2. GateTo(f, n, m) = i
    BY <2>1 DEF GateTo
  <2>3. i \in 1 .. Len(f.gate[n]) /\ f.gate[n][i] = m
    BY <1>1, <2>1, GatesToMember
  <2>. QED  BY <2>2, <2>3, FabricAssumption DEF Complete
<1>6. ASSUME NEW n \in Nodes, NEW k \in 1 .. f.ppp[n], Pending(N, n, f.gate[n][k]), f.gate[n][k] # Free
      PROVE  k \in FinishedGates(f, links, n)
  <2> DEFINE m == f.gate[n][k]
  <2>1. k \in 1 .. Len(f.gate[n])
    BY DEF Complete
  <2>2. m \in Nodes
    BY <1>1, <1>6, <2>1, FabricFields
  <2>3. Joined(T, n, m)
    BY <1>6, <2>2
  <2>4. PICK i : GatesTo(f, n, m) = {i}
    BY <1>2, <2>2, <2>3
  <2>5. k \in GatesTo(f, n, m)
    BY <1>1, <2>1, GatesToMember
  <2>6. GateTo(f, n, m) = k
    BY <2>4, <2>5 DEF GateTo
  <2>7. HasInterface(f, n, k)
    BY DEF HasInterface
  <2> HIDE DEF m
  <2>. QED  BY <2>2, <2>3, <2>6, <2>7 DEF FinishedGates
<1>7. InterfacesOK(g, {})
  <2> SUFFICES ASSUME NEW n \in Nodes
               PROVE  /\ g.ppp[n] <= Len(g.gate[n])
                      /\ g.up[n] \subseteq 1 .. g.ppp[n] /\ g.routerId[n] \subseteq 1 .. g.ppp[n]
                      /\ \A k \in 1 .. g.ppp[n] :
                           /\ g.gate[n][k] = Free => k \notin g.up[n] /\ k \notin g.routerId[n]
                           /\ g.gate[n][k] # Free => k \in g.up[n] /\ k \in g.routerId[n]
    BY DEF InterfacesOK
  <2>1. /\ f.ppp[n] <= Len(f.gate[n])
        /\ f.up[n] \subseteq 1 .. f.ppp[n] /\ f.routerId[n] \subseteq 1 .. f.ppp[n]
        /\ \A k \in 1 .. f.ppp[n] :
             /\ f.gate[n][k] = Free => k \notin f.up[n] /\ k \notin f.routerId[n]
             /\ f.gate[n][k] # Free /\ ~Pending(N, n, f.gate[n][k]) => k \in f.up[n] /\ k \in f.routerId[n]
    BY <1>1 DEF InterfacesOK
  <2>2. \A k : k \in g.up[n] <=> k \in f.up[n] \/ k \in FinishedGates(f, links, n)
    BY <1>4
  <2>3. \A k : k \in g.routerId[n] <=> k \in f.routerId[n] \/ k \in FinishedGates(f, links, n)
    BY <1>4
  <2>4. g.up[n] \subseteq 1 .. g.ppp[n] /\ g.routerId[n] \subseteq 1 .. g.ppp[n]
    BY <1>4, <1>5, <2>1, <2>2, <2>3
  <2>. QED  BY <1>4, <1>5, <1>6, <2>1, <2>2, <2>3, <2>4
<1>8. Complete(g)
  BY <1>4 DEF Complete
<1>9. GatesOK(g, L)
  <2>1. \A n, m : GatesTo(g, n, m) = GatesTo(f, n, m)
    BY <1>4 DEF GatesTo
  <2>. QED  BY <1>1, <2>1 DEF GatesOK
<1>10. MatrixOK(g)
  BY <1>1, <1>4 DEF MatrixOK, GatesTo
<1>11. NewOK(g, {})
  <2> SUFFICES ASSUME NEW n \in Nodes, NEW i \in 1 .. Len(g.gate[n]) PROVE ~(i > g.ppp[n])
    BY DEF NewOK
  <2>1. g.ppp[n] = Len(g.gate[n]) /\ Len(g.gate[n]) \in Nat
    BY <1>4, <1>8, FabricFields DEF Complete
  <2>. QED  BY <2>1
<1>12. FabricInv(g, L, {})
  BY <1>1, <1>4, <1>7, <1>9, <1>10, <1>11 DEF FabricInv
<1>. QED  BY <1>4, <1>12 DEF g

LEMMA UnconnectedInv == FabricInv(Unconnected, {}, {}) /\ NoInterfaces(Unconnected)
<1> DEFINE f == Unconnected
<1>1. /\ f.gate = [n \in Nodes |-> <<>>] /\ f.ppp = [n \in Nodes |-> 0]
      /\ f.up = [n \in Nodes |-> {}] /\ f.routerId = [n \in Nodes |-> {}]
      /\ f.nextHopInterface = [n \in Nodes |-> [m \in Nodes |-> NoInterface]]
      /\ f.dirtyPppModules = {}
  BY DEF Unconnected
<1>2. f \in Fabrics
  <2>1. <<>> \in Seq(Nodes \union {Free})
    OBVIOUS
  <2>. QED  BY <2>1 DEF Fabrics, Unconnected, NoInterface
<1> HIDE DEF f
<1>3. \A n \in Nodes : Len(f.gate[n]) = 0 /\ f.ppp[n] = 0 /\ f.up[n] = {} /\ f.routerId[n] = {}
  BY <1>1
<1>4. ASSUME NEW n \in Nodes, NEW m PROVE GatesTo(f, n, m) = {}
  BY <1>2, <1>3, GatesToMember
<1>5. GatesOK(f, {})
  BY <1>4 DEF GatesOK, Joined
<1>6. InterfacesOK(f, {}) /\ NewOK(f, {})
  BY <1>3 DEF InterfacesOK, NewOK
<1>7. MatrixOK(f)
  <2> SUFFICES ASSUME NEW n \in Routers, NEW m \in Routers
               PROVE  f.nextHopInterface[n][m] = NoInterface /\ GatesTo(f, n, m) = {}
    BY DEF MatrixOK
  <2>1. n \in Nodes /\ m \in Nodes
    BY DEF Nodes
  <2>. QED  BY <1>1, <1>4, <2>1
<1>8. NoInterfaces(f)
  BY <1>3 DEF NoInterfaces
<1>9. FabricInv(f, {}, {})
  BY <1>2, <1>5, <1>6, <1>7 DEF FabricInv
<1>. QED  BY <1>8, <1>9 DEF f

(* All interfaces run, as after setUpInterfaces.                           *)
AllUp(f, g) ==
  /\ g \in Fabrics /\ g.gate = f.gate
  /\ \A n \in Nodes : /\ g.ppp[n] = Len(f.gate[n])
                      /\ g.up[n] = 1 .. Len(f.gate[n])
                      /\ g.routerId[n] \subseteq 1 .. Len(f.gate[n])
  /\ \A n, m \in Routers : \/ g.nextHopInterface[n][m] \in GatesTo(f, n, m)
                           \/ g.nextHopInterface[n][m] = NoInterface /\ GatesTo(f, n, m) = {}

LEMMA SetUpInterfacesAllUp ==
  ASSUME NEW f, NEW L, FabricInv(f, L, L), NoInterfaces(f)
  PROVE  AllUp(f, SetUpInterfaces(f))
<1> DEFINE g == UpdatePPPModules(f, Nodes, Routers)
<1>1. SetUpInterfaces(f) = g
  BY DEF SetUpInterfaces
<1>2. f \in Fabrics /\ InterfacesOK(f, L) /\ MatrixOK(f)
  BY DEF FabricInv
<1>3. Updated(f, g, Nodes, Routers)
  BY <1>2, UpdateFacts
<1> HIDE DEF g
<1>4. g \in Fabrics /\ g.gate = f.gate
  BY <1>3 DEF Updated
<1>5. ASSUME NEW n \in Nodes
      PROVE  /\ f.ppp[n] = 0 /\ f.up[n] = {} /\ f.routerId[n] = {} /\ Len(f.gate[n]) \in Nat
             /\ NewGates(f, Nodes, n) = 1 .. Len(f.gate[n])
             /\ KnownGates(f, Nodes, Routers, n) \subseteq 1 .. Len(f.gate[n])
             /\ n \in Routers => KnownGates(f, Nodes, Routers, n) = 1 .. Len(f.gate[n])
  <2>1. f.ppp[n] = 0 /\ f.up[n] \subseteq 1 .. f.ppp[n] /\ f.routerId[n] \subseteq 1 .. f.ppp[n]
    BY <1>2 DEF InterfacesOK, NoInterfaces
  <2>2. Len(f.gate[n]) \in Nat
    BY <1>2, FabricFields
  <2>. QED  BY <2>1, <2>2 DEF NewGates, KnownGates
<1>6. \A n \in Nodes : /\ g.ppp[n] = Len(f.gate[n])
                       /\ g.up[n] = 1 .. Len(f.gate[n])
                       /\ g.routerId[n] \subseteq 1 .. Len(f.gate[n])
  <2> SUFFICES ASSUME NEW n \in Nodes
               PROVE  /\ g.ppp[n] = Len(f.gate[n])
                      /\ g.up[n] = 1 .. Len(f.gate[n])
                      /\ g.routerId[n] \subseteq 1 .. Len(f.gate[n])
    OBVIOUS
  <2>1. /\ g.ppp[n] = Len(f.gate[n])
        /\ g.up[n] = f.up[n] \union NewGates(f, Nodes, n)
        /\ g.routerId[n] = f.routerId[n] \union KnownGates(f, Nodes, Routers, n)
    BY <1>3 DEF Updated
  <2>2. g.routerId[n] = KnownGates(f, Nodes, Routers, n) /\ g.up[n] = NewGates(f, Nodes, n)
    BY <1>5, <2>1
  <2>. QED  BY <1>5, <2>1, <2>2
<1>7. ASSUME NEW n \in Routers, NEW m \in Routers
      PROVE  \/ g.nextHopInterface[n][m] \in GatesTo(f, n, m)
             \/ g.nextHopInterface[n][m] = NoInterface /\ GatesTo(f, n, m) = {}
  <2>1. n \in Nodes /\ m \in Nodes
    BY DEF Nodes
  <2>2. GatesTo(f, n, m) \subseteq 1 .. Len(f.gate[n])
    BY <1>2, <2>1, GatesToMember
  <2>3. NewTowards(f, Nodes, Routers, n, m) = GatesTo(f, n, m)
    BY <1>5, <2>1, <2>2 DEF NewTowards
  <2>4. IF GatesTo(f, n, m) = {} THEN g.nextHopInterface[n][m] = f.nextHopInterface[n][m]
        ELSE g.nextHopInterface[n][m] \in GatesTo(f, n, m)
    BY <1>3, <2>1, <2>3 DEF Updated
  <2>5. f.nextHopInterface[n][m] \in GatesTo(f, n, m) \/ f.nextHopInterface[n][m] = NoInterface
    BY <1>2 DEF MatrixOK
  <2>. QED  BY <2>4, <2>5
<1>8. AllUp(f, g)
  BY <1>4, <1>6, <1>7 DEF AllUp
<1>. QED  BY <1>1, <1>8

LEMMA FinalizeAllUp ==
  ASSUME NEW f, NEW L, FabricInv(f, L, L),
         NEW links \in [UserTerminals -> Satellites \union {Free}], TerminalLinks(links) \subseteq L,
         NEW h, AllUp(f, h)
  PROVE  AllUp(f, FinalizeUserTerminalLinks(h, links))
<1> DEFINE T == TerminalLinks(links)
           g == FinalizeUserTerminalLinks(h, links)
<1>1. f \in Fabrics /\ GatesOK(f, L)
  BY DEF FabricInv
<1>2. h \in Fabrics /\ h.gate = f.gate
  BY DEF AllUp
<1>3. ASSUME NEW n \in Nodes, NEW m \in Nodes, Joined(T, n, m) PROVE \E i : GatesTo(h, n, m) = {i}
  <2>1. <<n, m>> \notin GridPairs
    <3>1. <<n, m>> \in SkyPairs \/ <<m, n>> \in SkyPairs
      BY <1>3, TerminalLinksKinds DEF Joined
    <3>. QED  BY <3>1, SkyKinds
  <2>2. Joined(L, n, m)
    BY <1>3 DEF Joined
  <2>3. GatesTo(h, n, m) = GatesTo(f, n, m)
    BY <1>2 DEF GatesTo
  <2>4. IF Joined(L, n, m) THEN \E i : GatesTo(f, n, m) = {i} ELSE GatesTo(f, n, m) = {}
    BY <1>1, <2>1 DEF GatesOK
  <2>. QED  BY <2>2, <2>3, <2>4
<1>4. Finished(h, g, links)
  BY <1>2, <1>3, FinalizeFacts
<1> HIDE DEF g
<1>5. /\ g \in Fabrics /\ g.gate = f.gate /\ g.ppp = h.ppp /\ g.nextHopInterface = h.nextHopInterface
      /\ \A n \in Nodes : /\ g.up[n] = h.up[n] \union FinishedGates(h, links, n)
                          /\ g.routerId[n] = h.routerId[n] \union FinishedGates(h, links, n)
  BY <1>2, <1>4 DEF Finished
<1>6. ASSUME NEW n \in Nodes PROVE FinishedGates(h, links, n) \subseteq 1 .. Len(f.gate[n])
  <2> SUFFICES ASSUME NEW m \in Nodes, Joined(T, n, m)
               PROVE  GateTo(h, n, m) \in 1 .. Len(f.gate[n])
    BY DEF FinishedGates
  <2>1. PICK i : GatesTo(h, n, m) = {i}
    BY <1>3
  <2>2. GateTo(h, n, m) = i
    BY <2>1 DEF GateTo
  <2>3. i \in 1 .. Len(h.gate[n])
    BY <1>2, <2>1, GatesToMember
  <2>. QED  BY <1>2, <2>2, <2>3
<1>7. \A n \in Nodes : /\ g.ppp[n] = Len(f.gate[n])
                       /\ g.up[n] = 1 .. Len(f.gate[n])
                       /\ g.routerId[n] \subseteq 1 .. Len(f.gate[n])
  <2>1. \A n \in Nodes : /\ h.ppp[n] = Len(f.gate[n])
                         /\ h.up[n] = 1 .. Len(f.gate[n])
                         /\ h.routerId[n] \subseteq 1 .. Len(f.gate[n])
    BY DEF AllUp
  <2>. QED  BY <1>5, <1>6, <2>1
<1>8. \A n, m \in Routers : \/ g.nextHopInterface[n][m] \in GatesTo(f, n, m)
                            \/ g.nextHopInterface[n][m] = NoInterface /\ GatesTo(f, n, m) = {}
  BY <1>5 DEF AllUp
<1>9. AllUp(f, g)
  BY <1>5, <1>7, <1>8 DEF AllUp
<1>. QED  BY <1>9 DEF g

(* The interfaces that the simulation starts with.                         *)
LEMMA FillKeeps ==
  ASSUME NEW f, NEW L, FabricInv(f, L, L), NoInterfaces(f), NEW h, AllUp(f, h)
  PROVE  FabricInv(FillNextHopInterfaceMap(h), L, {})
<1> DEFINE g == FillNextHopInterfaceMap(h)
<1>1. /\ f \in Fabrics /\ L \subseteq AllPairs /\ GatesOK(f, L) /\ NewOK(f, L)
  BY DEF FabricInv
<1>2. h \in Fabrics /\ h.gate = f.gate
  BY DEF AllUp
<1>3. Filled(h, g)
  BY <1>2, FillFacts
<1> HIDE DEF g
<1>4. /\ g \in Fabrics /\ g.gate = f.gate /\ g.ppp = h.ppp /\ g.up = h.up
      /\ \A n \in Nodes : g.routerId[n] = h.routerId[n] \union ConnectedGates(h, n)
  BY <1>2, <1>3 DEF Filled
<1>5. \A n, m : GatesTo(g, n, m) = GatesTo(f, n, m) /\ GatesTo(h, n, m) = GatesTo(f, n, m)
  BY <1>2, <1>4 DEF GatesTo
<1>6. ASSUME NEW n \in Nodes
      PROVE  /\ h.ppp[n] = Len(f.gate[n]) /\ h.up[n] = 1 .. Len(f.gate[n]) /\ Len(f.gate[n]) \in Nat
             /\ g.routerId[n] = 1 .. Len(f.gate[n])
             /\ \A k \in 1 .. Len(f.gate[n]) : f.gate[n][k] # Free
  <2>1. /\ h.ppp[n] = Len(f.gate[n]) /\ h.up[n] = 1 .. Len(f.gate[n])
        /\ h.routerId[n] \subseteq 1 .. Len(f.gate[n])
    BY DEF AllUp
  <2>2. Len(f.gate[n]) \in Nat /\ f.gate[n] \in Seq(Nodes \union {Free})
    BY <1>1, FabricFields
  <2>3. ASSUME NEW k \in 1 .. Len(f.gate[n]) PROVE f.gate[n][k] \in Nodes
    <3>1. f.ppp[n] = 0
      BY DEF NoInterfaces
    <3>2. Joined(L, n, f.gate[n][k])
      BY <1>1, <3>1 DEF NewOK
    <3>3. \A a, b : <<a, b>> \in AllPairs => a \in Nodes /\ b \in Nodes
      BY Kinds DEF AllPairs
    <3>. QED  BY <1>1, <3>2, <3>3 DEF Joined
  <2>4. ConnectedGates(h, n) = 1 .. Len(f.gate[n])
    BY <1>2, <2>1, <2>2, <2>3 DEF ConnectedGates
  <2>. QED  BY <1>4, <2>1, <2>2, <2>3, <2>4, FabricAssumption
<1>7. InterfacesOK(g, {})
  <2> SUFFICES ASSUME NEW n \in Nodes
               PROVE  /\ g.ppp[n] <= Len(g.gate[n])
                      /\ g.up[n] = 1 .. g.ppp[n] /\ g.routerId[n] = 1 .. g.ppp[n]
                      /\ \A k \in 1 .. g.ppp[n] : g.gate[n][k] # Free
    BY DEF InterfacesOK
  <2>. QED  BY <1>4, <1>6
<1>8. NewOK(g, {})
  <2> SUFFICES ASSUME NEW n \in Nodes, NEW i \in 1 .. Len(g.gate[n]) PROVE ~(i > g.ppp[n])
    BY DEF NewOK
  <2>. QED  BY <1>4, <1>6
<1>9. GatesOK(g, L)
  <2>1. \A n, m : GatesTo(g, n, m) = GatesTo(f, n, m)
    BY <1>5
  <2>. QED  BY <1>1, <2>1 DEF GatesOK
<1>10. MatrixOK(g)
  <2> SUFFICES ASSUME NEW n \in Routers, NEW m \in Routers
               PROVE  \/ g.nextHopInterface[n][m] \in GatesTo(g, n, m)
                      \/ g.nextHopInterface[n][m] = NoInterface /\ GatesTo(g, n, m) = {}
    BY DEF MatrixOK
  <2>1. n \in Nodes /\ m \in Nodes
    BY DEF Nodes
  <2>2. \/ g.nextHopInterface[n][m] \in GatesTo(h, n, m)
        \/ g.nextHopInterface[n][m] = h.nextHopInterface[n][m]
    BY <1>3, <2>1 DEF Filled
  <2>3. \/ h.nextHopInterface[n][m] \in GatesTo(f, n, m)
        \/ h.nextHopInterface[n][m] = NoInterface /\ GatesTo(f, n, m) = {}
    BY DEF AllUp
  <2>. QED  BY <1>5, <2>2, <2>3
<1>11. FabricInv(g, L, {})
  BY <1>1, <1>4, <1>7, <1>8, <1>9, <1>10 DEF FabricInv
<1>. QED  BY <1>11 DEF g

-----------------------------------------------------------------------------
(* The parts of an event.                                                  *)

LinksOf(gsl, utl) == FixedLinks \union gsl \union TerminalLinks(utl)

GroundStationPairs == GroundStations \X Satellites
TerminalTables == [UserTerminals -> Satellites \union {Free}]

LEMMA PairsDisjoint ==
  /\ GroundStationPairs \subseteq SkyPairs /\ GroundStationPairs \intersect FixedLinks = {}
  /\ \A utl \in TerminalTables : /\ TerminalLinks(utl) \subseteq SkyPairs
                                 /\ TerminalLinks(utl) \intersect GroundStationPairs = {}
                                 /\ TerminalLinks(utl) \intersect FixedLinks = {}
<1>1. GroundStationPairs \subseteq SkyPairs
  BY DEF GroundStationPairs, SkyPairs
<1>2. (UserTerminals \X Satellites) \intersect GroundStationPairs = {}
  <2>1. Routers \intersect Endpoints = {}
    BY FabricAssumption
  <2>. QED  BY <2>1 DEF GroundStationPairs, Routers, Endpoints
<1>3. \A utl \in TerminalTables : /\ TerminalLinks(utl) \subseteq UserTerminals \X Satellites
                                  /\ TerminalLinks(utl) \subseteq SkyPairs
  BY TerminalLinksKinds DEF TerminalTables
<1>. QED  BY <1>1, <1>2, <1>3, FixedKinds

(* What a loop has made of the links, where it has worked.                 *)
GatesKept(f, g, S) == \A n, m \in Nodes : ~Joined(S, n, m) => GatesTo(g, n, m) = GatesTo(f, n, m)

(* What setUpGSLinks makes of a fabric.                                    *)
GroundStationsMoved(f, N, gsl, reachable, utl) ==
  LET g == SetUpGSLinks(f, gsl, reachable) IN
  /\ FabricInv(g, LinksOf(reachable, utl), N \union (reachable \ gsl))
  /\ g.ppp = f.ppp
  /\ GatesKept(f, g, (gsl \ reachable) \union (reachable \ gsl))

LEMMA SetUpGSLinksKeeps ==
  ASSUME NEW f, NEW N, NEW gsl \in SUBSET GroundStationPairs, NEW reachable \in SUBSET GroundStationPairs,
         NEW utl \in TerminalTables, FabricInv(f, LinksOf(gsl, utl), N), N \intersect gsl = {}
  PROVE  GroundStationsMoved(f, N, gsl, reachable, utl)
<1> DEFINE S == (gsl \ reachable) \union (reachable \ gsl)
           L == LinksOf(gsl, utl)
           g == ChangeLinks(f, SetToSeq(S), reachable)
<1>1. SetUpGSLinks(f, gsl, reachable) = g
  BY DEF SetUpGSLinks
<1>2. /\ S \subseteq GroundStationPairs /\ S \subseteq SkyPairs
      /\ S \intersect FixedLinks = {} /\ S \intersect TerminalLinks(utl) = {}
  BY PairsDisjoint
<1>3. \A p \in S : IF p \in reachable THEN p \notin L ELSE p \in L /\ p \notin N
  BY <1>2 DEF LinksOf
<1>4. LinksAfter(L, S, reachable) = LinksOf(reachable, utl)
  BY <1>2 DEF LinksAfter, LinksOf
<1>5. N \union (S \intersect reachable) = N \union (reachable \ gsl)
  OBVIOUS
<1> HIDE DEF S, L
<1>6. Changed(f, g, L, N, S, reachable)
  BY <1>2, <1>3, ChangeSkyLinks DEF L
<1> HIDE DEF g
<1>7. FabricInv(g, LinksOf(reachable, utl), N \union (reachable \ gsl)) /\ g.ppp = f.ppp
  BY <1>4, <1>5, <1>6 DEF Changed
<1>8. GatesKept(f, g, S)
  BY <1>6 DEF Changed, GatesKept
<1>. QED  BY <1>1, <1>7, <1>8 DEF S, GroundStationsMoved

LEMMA CreateUserTerminalLinksKeeps ==
  ASSUME NEW f, NEW L, NEW N, FabricInv(f, L, N),
         NEW S, S \subseteq SkyPairs, S \intersect L = {}
  PROVE  LET g == CreateUserTerminalLinks(f, S)
         IN  FabricInv(g, L \union S, N \union S) /\ g.ppp = f.ppp /\ GatesKept(f, g, S)
<1> DEFINE g == ChangeLinks(f, SetToSeq(S), S)
<1>1. CreateUserTerminalLinks(f, S) = g
  BY DEF CreateUserTerminalLinks
<1>2. \A p \in S : IF p \in S THEN p \notin L ELSE p \in L /\ p \notin N
  OBVIOUS
<1>3. Changed(f, g, L, N, S, S)
  BY <1>2, ChangeSkyLinks
<1>4. LinksAfter(L, S, S) = L \union S /\ N \union (S \intersect S) = N \union S
  BY DEF LinksAfter
<1> HIDE DEF g
<1>. QED  BY <1>1, <1>3, <1>4 DEF Changed, GatesKept

LEMMA RemoveUserTerminalLinksKeeps ==
  ASSUME NEW f, NEW L, NEW N, FabricInv(f, L, N),
         NEW S, S \subseteq SkyPairs, S \subseteq L, S \intersect N = {}
  PROVE  LET g == RemoveUserTerminalLinks(f, S)
         IN  FabricInv(g, L \ S, N) /\ g.ppp = f.ppp /\ GatesKept(f, g, S)
<1> DEFINE g == ChangeLinks(f, SetToSeq(S), {})
<1>1. RemoveUserTerminalLinks(f, S) = g
  BY DEF RemoveUserTerminalLinks
<1>2. \A p \in S : IF p \in {} THEN p \notin L ELSE p \in L /\ p \notin N
  OBVIOUS
<1>3. Changed(f, g, L, N, S, {})
  BY <1>2, ChangeSkyLinks
<1>4. LinksAfter(L, S, {}) = L \ S /\ N \union (S \intersect {}) = N
  BY DEF LinksAfter
<1> HIDE DEF g
<1>. QED  BY <1>1, <1>3, <1>4 DEF Changed, GatesKept

Lost(utl, links)    == TerminalLinks(utl) \ TerminalLinks(links)
Created(utl, links) == TerminalLinks(links) \ TerminalLinks(utl)

LEMMA RefreshedKeeps ==
  ASSUME NEW f, NEW N, NEW gsl \in SUBSET GroundStationPairs,
         NEW utl \in TerminalTables, NEW links \in TerminalTables,
         FabricInv(f, LinksOf(gsl, utl), N), N \subseteq GroundStationPairs
  PROVE  LET g == CreateUserTerminalLinks(RemoveUserTerminalLinks(f, Lost(utl, links)), Created(utl, links))
         IN  /\ FabricInv(g, LinksOf(gsl, links), N \union Created(utl, links))
             /\ GatesKept(f, g, Lost(utl, links) \union Created(utl, links))
<1> DEFINE lost == Lost(utl, links)
           created == Created(utl, links)
           L == LinksOf(gsl, utl)
           h == RemoveUserTerminalLinks(f, lost)
           g == CreateUserTerminalLinks(h, created)
<1>1. /\ TerminalLinks(utl) \subseteq SkyPairs /\ TerminalLinks(links) \subseteq SkyPairs
      /\ TerminalLinks(utl) \intersect GroundStationPairs = {}
      /\ TerminalLinks(links) \intersect GroundStationPairs = {}
      /\ TerminalLinks(utl) \intersect FixedLinks = {} /\ TerminalLinks(links) \intersect FixedLinks = {}
  BY PairsDisjoint
<1>2. lost \subseteq SkyPairs /\ lost \subseteq L /\ lost \intersect N = {}
  BY <1>1 DEF Lost, LinksOf
<1>3. created \subseteq SkyPairs /\ created \intersect (L \ lost) = {}
  BY <1>1 DEF Created, LinksOf
<1>4. (L \ lost) \union created = LinksOf(gsl, links)
  BY <1>1 DEF Lost, Created, LinksOf
<1> HIDE DEF lost, created, L
<1>5. FabricInv(h, L \ lost, N) /\ GatesKept(f, h, lost)
  BY <1>2, RemoveUserTerminalLinksKeeps DEF L
<1> HIDE DEF h
<1>6. FabricInv(g, (L \ lost) \union created, N \union created) /\ GatesKept(h, g, created)
  BY <1>3, <1>5, CreateUserTerminalLinksKeeps
<1> HIDE DEF g
<1>7. GatesKept(f, g, lost \union created)
  BY <1>5, <1>6 DEF GatesKept, Joined
<1>. QED  BY <1>4, <1>6, <1>7 DEF g, h, lost, created

(* What is pending is the links of user terminals that were created.       *)
LEMMA PendingIsCreated ==
  ASSUME NEW N, N \subseteq GroundStationPairs, NEW S, NEW n \in Nodes, NEW m \in Nodes,
         Pending(N \union S, n, m)
  PROVE  Joined(S, n, m)
<1>1. ~Joined(N, n, m) \/ ~(n \in UserTerminals \/ m \in UserTerminals)
  <2>1. Routers \intersect Endpoints = {}
    BY FabricAssumption
  <2>. QED  BY <2>1 DEF Joined, GroundStationPairs, Routers, Endpoints
<1>. QED  BY <1>1 DEF Pending, Joined

(* The interfaces after the links have changed.                            *)
Settle(f, utl, links) ==
  IF Created(utl, links) # {} THEN FinalizeUserTerminalLinks(AddPPPInterfaces(f), links)
  ELSE AddPPPInterfaces(f)

LEMMA SettledKeeps ==
  ASSUME NEW f, NEW N, NEW gsl \in SUBSET GroundStationPairs,
         NEW utl \in TerminalTables, NEW links \in TerminalTables,
         FabricInv(f, LinksOf(gsl, links), N \union Created(utl, links)), N \subseteq GroundStationPairs
  PROVE  FabricInv(Settle(f, utl, links), LinksOf(gsl, links), {}) /\ Settle(f, utl, links).gate = f.gate
<1> DEFINE created == Created(utl, links)
           L == LinksOf(gsl, links)
           h == AddPPPInterfaces(f)
<1>1. N \union created \subseteq SkyPairs /\ TerminalLinks(links) \subseteq L
  BY PairsDisjoint DEF Created, LinksOf
<1>2. created \subseteq TerminalLinks(links)
  BY DEF Created
<1> HIDE DEF created, L
<1>3. FabricInv(h, L, N \union created) /\ Complete(h) /\ h.gate = f.gate
  BY <1>1, AddPPPInterfacesKeeps DEF L, created
<1> HIDE DEF h
<1>4. CASE created # {}
  <2>1. \A n, m \in Nodes : Pending(N \union created, n, m) => Joined(TerminalLinks(links), n, m)
    BY <1>2, PendingIsCreated DEF Joined
  <2>2. links \in [UserTerminals -> Satellites \union {Free}]
    BY DEF TerminalTables
  <2>3. LET r == FinalizeUserTerminalLinks(h, links) IN FabricInv(r, L, {}) /\ r.gate = h.gate
    BY <1>1, <1>3, <2>1, <2>2, FinalizeKeeps
  <2>. QED  BY <1>3, <1>4, <2>3 DEF L, created, h, Settle
<1>5. CASE created = {}
  <2>1. \A n, m \in Nodes : ~Pending(N \union created, n, m)
    BY <1>5, PendingIsCreated DEF Joined
  <2>2. FabricInv(h, L, {})
    BY <1>3, <2>1, NothingNew
  <2>. QED  BY <1>3, <1>5, <2>2 DEF L, created, h, Settle
<1>. QED  BY <1>4, <1>5

-----------------------------------------------------------------------------
(* Numbers of gates.                                                       *)

(* The gates of n that lead to nodes of S.                                 *)
GatesInto(f, n, S) == {i \in 1 .. Len(f.gate[n]) : f.gate[n][i] \in S}

(* As many links as a node can have at the same time.                      *)
Places(n) ==
  CASE n \in Satellites -> Cardinality(GroundStations) + Cardinality(UserTerminals)
                           + Cardinality(GridEnds(n))
    [] n \in GroundStations -> Cardinality(Satellites)
                               + Cardinality({e \in EndUsers : ConnectModule[e] = n})
    [] n \in Endpoints -> 1

Fits(f) == \A n \in Nodes : Len(f.gate[n]) <= Places(n)

GridFits(f) ==
  \A n \in Satellites : Cardinality(GatesInto(f, n, Satellites)) <= Cardinality(GridEnds(n))

Room(f) == Fits(f) /\ GridFits(f)

(* A user terminal has no two links.                                       *)
AtMostOne(L) == \A ut \in UserTerminals : \A x, y : <<ut, x>> \in L /\ <<ut, y>> \in L => x = y

LEMMA GatesIntoFacts ==
  ASSUME NEW f \in Fabrics, NEW n \in Nodes
  PROVE  /\ Len(f.gate[n]) \in Nat
         /\ \A S : GatesInto(f, n, S) \subseteq 1 .. Len(f.gate[n])
         /\ \A S : IsFiniteSet(GatesInto(f, n, S)) /\ Cardinality(GatesInto(f, n, S)) \in Nat
<1>1. Len(f.gate[n]) \in Nat
  BY FabricFields
<1>2. IsFiniteSet(1 .. Len(f.gate[n]))
  BY <1>1, FS_Interval
<1>3. ASSUME NEW S
      PROVE  /\ GatesInto(f, n, S) \subseteq 1 .. Len(f.gate[n])
             /\ IsFiniteSet(GatesInto(f, n, S)) /\ Cardinality(GatesInto(f, n, S)) \in Nat
  <2>1. GatesInto(f, n, S) \subseteq 1 .. Len(f.gate[n])
    BY DEF GatesInto
  <2>2. IsFiniteSet(GatesInto(f, n, S))
    BY <1>2, <2>1, FS_Subset
  <2>. QED  BY <2>1, <2>2, FS_CardinalityType
<1>. QED  BY <1>1, <1>3

LEMMA GatesIntoUnion ==
  ASSUME NEW f \in Fabrics, NEW n \in Nodes, NEW S, NEW T
  PROVE  Cardinality(GatesInto(f, n, S \union T))
           <= Cardinality(GatesInto(f, n, S)) + Cardinality(GatesInto(f, n, T))
<1> DEFINE A == GatesInto(f, n, S)
           B == GatesInto(f, n, T)
<1>1. GatesInto(f, n, S \union T) = A \union B
  BY DEF GatesInto
<1>2. /\ IsFiniteSet(A) /\ Cardinality(A) \in Nat
      /\ IsFiniteSet(B) /\ Cardinality(B) \in Nat
  BY GatesIntoFacts
<1> HIDE DEF A, B
<1>3. Cardinality(A \union B) = Cardinality(A) + Cardinality(B) - Cardinality(A \intersect B)
  BY <1>2, FS_Union
<1>4. Cardinality(A \intersect B) \in Nat
  BY <1>2, FS_Intersection, FS_CardinalityType
<1>5. Cardinality(A \union B) <= Cardinality(A) + Cardinality(B)
  BY <1>2, <1>3, <1>4
<1>. QED  BY <1>1, <1>5 DEF A, B

(* One gate for each node of S.                                            *)
LEMMA GatesIntoOnce ==
  ASSUME NEW f \in Fabrics, NEW n \in Nodes, NEW S, IsFiniteSet(S),
         \A m \in S : \A i, j \in GatesTo(f, n, m) : i = j
  PROVE  Cardinality(GatesInto(f, n, S)) <= Cardinality(S)
<1> DEFINE A == GatesInto(f, n, S)
           h == [i \in A |-> f.gate[n][i]]
<1>1. h \in [A -> S]
  BY DEF GatesInto
<1>2. ASSUME NEW i \in A, NEW j \in A, h[i] = h[j] PROVE i = j
  <2>1. /\ i \in 1 .. Len(f.gate[n]) /\ j \in 1 .. Len(f.gate[n])
        /\ f.gate[n][i] \in S /\ f.gate[n][j] = f.gate[n][i]
    BY <1>2 DEF GatesInto
  <2>2. DOMAIN f.gate[n] = 1 .. Len(f.gate[n])
    BY FabricFields
  <2>3. i \in GatesTo(f, n, f.gate[n][i]) /\ j \in GatesTo(f, n, f.gate[n][i])
    BY <2>1, <2>2 DEF GatesTo
  <2>. QED  BY <2>1, <2>3
<1> HIDE DEF h
<1>3. h \in Injection(A, S)
  BY <1>1, <1>2 DEF Injection, IsInjective
<1>4. Cardinality(A) <= Cardinality(S)
  <2> HIDE DEF A
  <2>. QED  BY <1>3, FS_Injection
<1>. QED  BY <1>4

(* A node without free gates has gates to its peers only.                  *)
LEMMA AllGatesInto ==
  ASSUME NEW f \in Fabrics, NEW n \in Nodes, GatesTo(f, n, Free) = {}, NEW S,
         \A m \in Nodes : m \notin S => GatesTo(f, n, m) = {}
  PROVE  /\ \A i \in 1 .. Len(f.gate[n]) : f.gate[n][i] \in S
         /\ Len(f.gate[n]) = Cardinality(GatesInto(f, n, S))
<1>1. /\ f.gate[n] \in Seq(Nodes \union {Free}) /\ Len(f.gate[n]) \in Nat
      /\ DOMAIN f.gate[n] = 1 .. Len(f.gate[n])
  BY FabricFields
<1>2. ASSUME NEW i \in 1 .. Len(f.gate[n]) PROVE f.gate[n][i] \in S
  <2>1. f.gate[n][i] \in Nodes \union {Free}
    BY <1>1
  <2>2. i \in GatesTo(f, n, f.gate[n][i])
    BY <1>1 DEF GatesTo
  <2>. QED  BY <2>1, <2>2
<1>3. GatesInto(f, n, S) = 1 .. Len(f.gate[n])
  BY <1>2 DEF GatesInto
<1>4. Cardinality(1 .. Len(f.gate[n])) = Len(f.gate[n])
  BY <1>1, FS_Interval
<1>. QED  BY <1>2, <1>3, <1>4

LEMMA FiniteKinds ==
  /\ IsFiniteSet(Satellites) /\ IsFiniteSet(GroundStations) /\ IsFiniteSet(UserTerminals)
  /\ \A n : IsFiniteSet({e \in EndUsers : ConnectModule[e] = n})
  /\ \A n : IsFiniteSet(GridEnds(n)) /\ Cardinality(GridEnds(n)) \in Nat
<1>1. IsFiniteSet(Nodes)
  BY FabricAssumption
<1>2. /\ Satellites \subseteq Nodes /\ GroundStations \subseteq Nodes /\ UserTerminals \subseteq Nodes
      /\ \A n : {e \in EndUsers : ConnectModule[e] = n} \subseteq Nodes
  BY DEF Nodes, Routers, Endpoints
<1>3. ASSUME NEW n PROVE IsFiniteSet(GridEnds(n)) /\ Cardinality(GridEnds(n)) \in Nat
  <2>1. /\ Len(InterSatelliteLinks) \in Nat
        /\ DOMAIN InterSatelliteLinks = 1 .. Len(InterSatelliteLinks)
    BY FabricAssumption
  <2>2. IsFiniteSet(1 .. Len(InterSatelliteLinks)) /\ IsFiniteSet(1 .. 2)
    <3>1. \A k : k \in Nat => IsFiniteSet(1 .. k)
      BY FS_Interval
    <3>. QED  BY <2>1, <3>1
  <2>3. {1, 2} = 1 .. 2
    OBVIOUS
  <2>4. IsFiniteSet((DOMAIN InterSatelliteLinks) \X {1, 2})
    BY <2>1, <2>2, <2>3, FS_Product
  <2>5. GridEnds(n) \subseteq (DOMAIN InterSatelliteLinks) \X {1, 2}
    BY DEF GridEnds
  <2>6. IsFiniteSet(GridEnds(n))
    BY <2>4, <2>5, FS_Subset
  <2>. QED  BY <2>6, FS_CardinalityType
<1>4. /\ IsFiniteSet(Satellites) /\ IsFiniteSet(GroundStations) /\ IsFiniteSet(UserTerminals)
  BY <1>1, <1>2, FS_Subset
<1>5. \A n : IsFiniteSet({e \in EndUsers : ConnectModule[e] = n})
  BY <1>1, <1>2, FS_Subset
<1>. QED  BY <1>3, <1>4, <1>5

(* A node without free gates has no more of them than places for links.    *)
LEMMA FullFits ==
  ASSUME NEW f, NEW L, NEW N, FabricInv(f, L, N), AtMostOne(L), GridFits(f),
         NEW n \in Nodes, GatesTo(f, n, Free) = {}
  PROVE  Len(f.gate[n]) <= Places(n)
<1>1. f \in Fabrics /\ L \subseteq AllPairs /\ GatesOK(f, L)
  BY DEF FabricInv
<1>2. /\ Satellites \intersect GroundStations = {} /\ UserTerminals \intersect EndUsers = {}
      /\ (Satellites \union GroundStations) \intersect (UserTerminals \union EndUsers) = {}
      /\ ConnectModule \in [EndUsers -> GroundStations]
  BY FabricAssumption DEF Routers, Endpoints
<1>3. /\ \A m : m \in Nodes <=> \/ m \in Satellites \/ m \in GroundStations
                                \/ m \in UserTerminals \/ m \in EndUsers
      /\ \A m : m \in Endpoints <=> m \in UserTerminals \/ m \in EndUsers
  BY DEF Nodes, Routers, Endpoints
<1>4. \A a, b : <<a, b>> \in L => \/ a \in EndUsers /\ b = ConnectModule[a]
                                  \/ a \in Satellites /\ b \in Satellites
                                  \/ a \in GroundStations /\ b \in Satellites
                                  \/ a \in UserTerminals /\ b \in Satellites
  BY <1>1 DEF AllPairs, Wires, GridPairs, SkyPairs
<1>5. \A m \in Nodes : ~(n \in Satellites /\ m \in Satellites) =>
        /\ ~Joined(L, n, m) => GatesTo(f, n, m) = {}
        /\ \A i, j \in GatesTo(f, n, m) : i = j
  <2> SUFFICES ASSUME NEW m \in Nodes, ~(n \in Satellites /\ m \in Satellites)
               PROVE  /\ ~Joined(L, n, m) => GatesTo(f, n, m) = {}
                      /\ \A i, j \in GatesTo(f, n, m) : i = j
    OBVIOUS
  <2>1. <<n, m>> \notin GridPairs
    BY DEF GridPairs
  <2>2. IF Joined(L, n, m) THEN \E i : GatesTo(f, n, m) = {i} ELSE GatesTo(f, n, m) = {}
    BY <1>1, <2>1 DEF GatesOK
  <2>. QED  BY <2>2
<1>6. CASE n \in Satellites
  <2>1. \A m \in Nodes : m \notin GroundStations \union UserTerminals \union Satellites =>
          GatesTo(f, n, m) = {}
    <3> SUFFICES ASSUME NEW m \in Nodes, m \in EndUsers PROVE GatesTo(f, n, m) = {}
      BY <1>3
    <3>1. ~Joined(L, n, m) /\ m \notin Satellites
      BY <1>2, <1>4, <1>6 DEF Joined
    <3>. QED  BY <1>5, <3>1
  <2>2. Len(f.gate[n]) = Cardinality(GatesInto(f, n, GroundStations \union UserTerminals \union Satellites))
    BY <1>1, <2>1, AllGatesInto
  <2> DEFINE g == Cardinality(GatesInto(f, n, GroundStations))
             u == Cardinality(GatesInto(f, n, UserTerminals))
             s == Cardinality(GatesInto(f, n, Satellites))
             gu == Cardinality(GatesInto(f, n, GroundStations \union UserTerminals))
  <2>3. g \in Nat /\ u \in Nat /\ s \in Nat /\ gu \in Nat /\ Len(f.gate[n]) \in Nat
    BY <1>1, GatesIntoFacts
  <2>4. Len(f.gate[n]) <= gu + s
    BY <1>1, <2>2, GatesIntoUnion
  <2>5. gu <= g + u
    BY <1>1, GatesIntoUnion
  <2>6. g <= Cardinality(GroundStations)
    <3>1. \A m \in GroundStations : \A i, j \in GatesTo(f, n, m) : i = j
      BY <1>2, <1>3, <1>5
    <3>. QED  BY <1>1, <3>1, FiniteKinds, GatesIntoOnce
  <2>7. u <= Cardinality(UserTerminals)
    <3>1. \A m \in UserTerminals : \A i, j \in GatesTo(f, n, m) : i = j
      BY <1>2, <1>3, <1>5
    <3>. QED  BY <1>1, <3>1, FiniteKinds, GatesIntoOnce
  <2>8. s <= Cardinality(GridEnds(n))
    BY <1>6 DEF GridFits
  <2>9. /\ Cardinality(GroundStations) \in Nat /\ Cardinality(UserTerminals) \in Nat
        /\ Cardinality(GridEnds(n)) \in Nat
    BY FiniteKinds, FS_CardinalityType
  <2>10. Places(n) = Cardinality(GroundStations) + Cardinality(UserTerminals) + Cardinality(GridEnds(n))
    BY <1>2, <1>3, <1>6 DEF Places
  <2> HIDE DEF g, u, s, gu
  <2>. QED  BY <2>3, <2>4, <2>5, <2>6, <2>7, <2>8, <2>9, <2>10
<1>7. CASE n \in GroundStations
  <2> DEFINE E == {e \in EndUsers : ConnectModule[e] = n}
  <2>1. \A m \in Nodes : m \notin Satellites \union E => GatesTo(f, n, m) = {}
    <3> SUFFICES ASSUME NEW m \in Nodes, m \notin Satellites, m \notin E PROVE GatesTo(f, n, m) = {}
      OBVIOUS
    <3>1. ~Joined(L, n, m)
      BY <1>2, <1>4, <1>7 DEF Joined
    <3>. QED  BY <1>5, <3>1
  <2>2. Len(f.gate[n]) = Cardinality(GatesInto(f, n, Satellites \union E))
    <3> HIDE DEF E
    <3>. QED  BY <1>1, <2>1, AllGatesInto
  <2> DEFINE s == Cardinality(GatesInto(f, n, Satellites))
             e == Cardinality(GatesInto(f, n, E))
  <2>3. s \in Nat /\ e \in Nat /\ Len(f.gate[n]) \in Nat
    BY <1>1, GatesIntoFacts
  <2>4. Len(f.gate[n]) <= s + e
    <3> HIDE DEF E
    <3>. QED  BY <1>1, <2>2, GatesIntoUnion
  <2>5. s <= Cardinality(Satellites)
    <3>1. \A m \in Satellites : \A i, j \in GatesTo(f, n, m) : i = j
      BY <1>2, <1>3, <1>5, <1>7
    <3>. QED  BY <1>1, <3>1, FiniteKinds, GatesIntoOnce
  <2>6. e <= Cardinality(E)
    <3>1. \A m \in E : \A i, j \in GatesTo(f, n, m) : i = j
      BY <1>2, <1>3, <1>5, <1>7
    <3>2. IsFiniteSet(E)
      BY FiniteKinds
    <3> HIDE DEF E
    <3>. QED  BY <1>1, <3>1, <3>2, GatesIntoOnce
  <2>7. Cardinality(Satellites) \in Nat /\ Cardinality(E) \in Nat
    BY FiniteKinds, FS_CardinalityType
  <2>8. Places(n) = Cardinality(Satellites) + Cardinality(E)
    BY <1>2, <1>3, <1>7 DEF Places
  <2> HIDE DEF s, e, E
  <2>. QED  BY <2>3, <2>4, <2>5, <2>6, <2>7, <2>8
<1>8. CASE n \in Endpoints
  <2> DEFINE S == {m \in Nodes : Joined(L, n, m)}
  <2>1. n \notin Satellites /\ n \notin GroundStations
    BY <1>2, <1>3, <1>8
  <2>2. \A m \in Nodes : m \notin S => GatesTo(f, n, m) = {}
    BY <1>5, <2>1
  <2>3. \A i \in 1 .. Len(f.gate[n]) : f.gate[n][i] \in S
    <3> HIDE DEF S
    <3>. QED  BY <1>1, <2>2, AllGatesInto
  <2>4. \A x, y \in S : x = y
    <3>1. CASE n \in UserTerminals
      <4>1. \A x \in S : <<n, x>> \in L
        BY <1>2, <1>4, <3>1 DEF Joined
      <4>. QED  BY <3>1, <4>1 DEF AtMostOne
    <3>2. CASE n \in EndUsers
      <4>1. \A x \in S : x = ConnectModule[n]
        BY <1>2, <1>4, <3>2 DEF Joined
      <4>. QED  BY <4>1
    <3>. QED  BY <1>3, <1>8, <3>1, <3>2
  <2>5. Len(f.gate[n]) \in Nat /\ DOMAIN f.gate[n] = 1 .. Len(f.gate[n])
    BY <1>1, FabricFields
  <2>6. ASSUME ~(Len(f.gate[n]) <= 1) PROVE FALSE
    <3>1. 1 \in 1 .. Len(f.gate[n]) /\ 2 \in 1 .. Len(f.gate[n])
      BY <2>5, <2>6
    <3>2. f.gate[n][1] \in S /\ f.gate[n][2] \in S
      BY <2>3, <3>1
    <3>3. f.gate[n][1] = f.gate[n][2]
      <4> HIDE DEF S
      <4>. QED  BY <2>4, <3>2
    <3>4. 1 \in GatesTo(f, n, f.gate[n][1]) /\ 2 \in GatesTo(f, n, f.gate[n][1])
      BY <2>5, <3>1, <3>3 DEF GatesTo
    <3>. QED  BY <1>5, <2>1, <3>2, <3>4
  <2>7. Places(n) = 1
    BY <1>8, <2>1 DEF Places
  <2>. QED  BY <2>6, <2>7
<1>. QED  BY <1>3, <1>6, <1>7, <1>8

(* A loop that leaves room for links between satellites leaves it at all.  *)
LEMMA LoopFits ==
  ASSUME NEW f, NEW L, NEW N, NEW pairs, NEW wanted, NEW h, Len(pairs) \in Nat,
         Stepwise(f, pairs, wanted, L, N, h), Fits(f),
         \A k \in 0 .. Len(pairs) : GridFits(h[k]) /\ AtMostOne(LinksAfter(L, Done(pairs, k), wanted))
  PROVE  Room(ChangeLinks(f, pairs, wanted))
<1>1. /\ ChangeLinks(f, pairs, wanted) = h[Len(pairs)] /\ h[0] = f
      /\ \A k \in 0 .. Len(pairs) : Changed(f, h[k], L, N, Done(pairs, k), wanted)
      /\ \A k \in 1 .. Len(pairs) : NewIfFull(h[k - 1], h[k])
  BY DEF Stepwise, Unrolled
<1>2. ASSUME NEW k \in 1 .. Len(pairs), Fits(h[k - 1]) PROVE Fits(h[k])
  <2> SUFFICES ASSUME NEW n \in Nodes PROVE Len(h[k].gate[n]) <= Places(n)
    BY DEF Fits
  <2>1. k \in 0 .. Len(pairs)
    OBVIOUS
  <2>2. CASE Len(h[k].gate[n]) = Len(h[k - 1].gate[n])
    BY <1>2, <2>2 DEF Fits
  <2>3. CASE Len(h[k].gate[n]) # Len(h[k - 1].gate[n])
    <3>1. GatesTo(h[k], n, Free) = {}
      BY <1>1, <2>3 DEF NewIfFull
    <3>2. FabricInv(h[k], LinksAfter(L, Done(pairs, k), wanted), N \union (Done(pairs, k) \intersect wanted))
      BY <1>1, <2>1 DEF Changed
    <3>. QED  BY <2>1, <3>1, <3>2, FullFits
  <2>. QED  BY <2>2, <2>3
<1>3. \A k \in 0 .. Len(pairs) : Fits(h[k])
  <2> DEFINE bad == {k \in 0 .. Len(pairs) : ~Fits(h[k])}
  <2> SUFFICES ASSUME bad # {} PROVE FALSE
    OBVIOUS
  <2>1. PICK n \in bad : \A x \in bad : n <= x
    <3>1. bad \subseteq Nat
      OBVIOUS
    <3> HIDE DEF bad
    <3>. QED  BY <3>1, LeastElement
  <2>2. n \in 0 .. Len(pairs) /\ ~Fits(h[n])
    BY <2>1
  <2>3. n # 0
    BY <1>1, <2>2
  <2>4. n \in 1 .. Len(pairs) /\ n - 1 \in 0 .. Len(pairs) /\ ~(n <= n - 1)
    BY <2>2, <2>3
  <2>5. Fits(h[n - 1])
    BY <2>1, <2>4
  <2>. QED  BY <1>2, <2>2, <2>4, <2>5
<1>4. Len(pairs) \in 0 .. Len(pairs)
  OBVIOUS
<1>. QED  BY <1>1, <1>3, <1>4 DEF Room

LEMMA SameGatesInto ==
  ASSUME NEW f \in Fabrics, NEW g \in Fabrics, NEW n \in Nodes, NEW S,
         \A m \in S : GatesTo(g, n, m) = GatesTo(f, n, m)
  PROVE  GatesInto(g, n, S) = GatesInto(f, n, S)
<1>1. DOMAIN f.gate[n] = 1 .. Len(f.gate[n]) /\ DOMAIN g.gate[n] = 1 .. Len(g.gate[n])
  BY FabricFields
<1>2. \A i : i \in GatesInto(f, n, S) <=> \E m \in S : i \in GatesTo(f, n, m)
  BY <1>1 DEF GatesTo, GatesInto
<1>3. \A i : i \in GatesInto(g, n, S) <=> \E m \in S : i \in GatesTo(g, n, m)
  BY <1>1 DEF GatesTo, GatesInto
<1>. QED  BY <1>2, <1>3

(* The loops over links of ground stations and user terminals.             *)
LEMMA SkyLoopFits ==
  ASSUME NEW f, NEW L, NEW N, FabricInv(f, L, N), NEW S, S \subseteq SkyPairs, NEW wanted,
         \A p \in S : IF p \in wanted THEN p \notin L ELSE p \in L /\ p \notin N,
         Room(f), AtMostOne(L \union (S \intersect wanted))
  PROVE  Room(ChangeLinks(f, SetToSeq(S), wanted))
<1> DEFINE pairs == SetToSeq(S)
<1>1. Changeable(f, L, N, pairs, wanted) /\ Range(pairs) = S
  BY SkyChangeable
<1> HIDE DEF pairs
<1>2. Len(pairs) \in Nat /\ DOMAIN pairs = 1 .. Len(pairs)
  BY <1>1 DEF Changeable
<1>3. PICK h : Stepwise(f, pairs, wanted, L, N, h)
  BY <1>1, ChangeLinksStepwise
<1>4. \A k \in 0 .. Len(pairs) : Done(pairs, k) \subseteq S
  BY <1>1, <1>2 DEF Done, Range
<1>5. ASSUME NEW k \in 0 .. Len(pairs) PROVE AtMostOne(LinksAfter(L, Done(pairs, k), wanted))
  BY <1>4 DEF AtMostOne, LinksAfter
<1>6. ASSUME NEW k \in 0 .. Len(pairs) PROVE GridFits(h[k])
  <2>1. Changed(f, h[k], L, N, Done(pairs, k), wanted)
    BY <1>3 DEF Stepwise
  <2>2. f \in Fabrics /\ h[k] \in Fabrics
    BY <2>1 DEF Changed, FabricInv
  <2>3. ASSUME NEW n \in Satellites, NEW m \in Satellites PROVE GatesTo(h[k], n, m) = GatesTo(f, n, m)
    <3>1. <<n, m>> \notin SkyPairs /\ <<m, n>> \notin SkyPairs
      BY FabricAssumption DEF SkyPairs, Routers, Endpoints
    <3>2. ~Joined(Done(pairs, k), n, m)
      BY <1>4, <3>1 DEF Joined
    <3>3. n \in Nodes /\ m \in Nodes
      BY DEF Nodes, Routers
    <3>. QED  BY <2>1, <3>2, <3>3 DEF Changed
  <2>4. \A n \in Satellites : GatesInto(h[k], n, Satellites) = GatesInto(f, n, Satellites)
    <3>1. \A n \in Satellites : n \in Nodes
      BY DEF Nodes, Routers
    <3>. QED  BY <2>2, <2>3, <3>1, SameGatesInto
  <2>. QED  BY <2>4 DEF Room, GridFits
<1>7. Fits(f)
  BY DEF Room
<1>8. Room(ChangeLinks(f, pairs, wanted))
  BY <1>2, <1>3, <1>5, <1>6, <1>7, LoopFits
<1>. QED  BY <1>8 DEF pairs

LEMMA TerminalLinksOnce ==
  ASSUME NEW gsl \in SUBSET GroundStationPairs, NEW utl \in TerminalTables
  PROVE  AtMostOne(LinksOf(gsl, utl))
<1>1. FixedLinks \subseteq Wires \union GridPairs
  BY FixedKinds DEF FixedLinks
<1>2. \A ut \in UserTerminals : \A x : <<ut, x>> \in LinksOf(gsl, utl) => <<ut, x>> \in TerminalLinks(utl)
  <2>1. Routers \intersect Endpoints = {} /\ UserTerminals \intersect EndUsers = {}
    BY FabricAssumption
  <2>. QED  BY <1>1, <2>1 DEF LinksOf, Wires, GridPairs, GroundStationPairs, Routers, Endpoints
<1>3. \A ut \in UserTerminals : \A x : <<ut, x>> \in TerminalLinks(utl) => x = utl[ut]
  BY DEF TerminalLinks
<1>. QED  BY <1>2, <1>3 DEF AtMostOne

LEMMA SetUpGSLinksFits ==
  ASSUME NEW f, NEW N, NEW gsl \in SUBSET GroundStationPairs, NEW reachable \in SUBSET GroundStationPairs,
         NEW utl \in TerminalTables, FabricInv(f, LinksOf(gsl, utl), N), N \intersect gsl = {}, Room(f)
  PROVE  Room(SetUpGSLinks(f, gsl, reachable))
<1> DEFINE S == (gsl \ reachable) \union (reachable \ gsl)
           L == LinksOf(gsl, utl)
<1>1. /\ S \subseteq GroundStationPairs /\ S \subseteq SkyPairs
      /\ S \intersect FixedLinks = {} /\ S \intersect TerminalLinks(utl) = {}
  BY PairsDisjoint
<1>2. \A p \in S : IF p \in reachable THEN p \notin L ELSE p \in L /\ p \notin N
  BY <1>1 DEF LinksOf
<1>3. AtMostOne(L \union (S \intersect reachable))
  <2>1. L \union (S \intersect reachable) = LinksOf(gsl \union reachable, utl)
    BY DEF LinksOf
  <2>2. gsl \union reachable \in SUBSET GroundStationPairs
    OBVIOUS
  <2>. QED  BY <2>1, <2>2, TerminalLinksOnce
<1>4. SetUpGSLinks(f, gsl, reachable) = ChangeLinks(f, SetToSeq(S), reachable)
  BY DEF SetUpGSLinks
<1> HIDE DEF S, L
<1>5. Room(ChangeLinks(f, SetToSeq(S), reachable))
  BY <1>1, <1>2, <1>3, SkyLoopFits DEF L
<1>. QED  BY <1>4, <1>5

LEMMA CreateUserTerminalLinksFits ==
  ASSUME NEW f, NEW L, NEW N, FabricInv(f, L, N), NEW created, created \subseteq SkyPairs,
         created \intersect L = {}, AtMostOne(L \union created), Room(f)
  PROVE  Room(CreateUserTerminalLinks(f, created))
<1>1. \A p \in created : IF p \in created THEN p \notin L ELSE p \in L /\ p \notin N
  OBVIOUS
<1>2. L \union (created \intersect created) = L \union created
  OBVIOUS
<1>3. Room(ChangeLinks(f, SetToSeq(created), created))
  BY <1>1, <1>2, SkyLoopFits
<1>. QED  BY <1>3 DEF CreateUserTerminalLinks

LEMMA RemoveUserTerminalLinksFits ==
  ASSUME NEW f, NEW L, NEW N, FabricInv(f, L, N), NEW lost, lost \subseteq SkyPairs,
         lost \subseteq L, lost \intersect N = {}, AtMostOne(L), Room(f)
  PROVE  Room(RemoveUserTerminalLinks(f, lost))
<1>1. \A p \in lost : IF p \in {} THEN p \notin L ELSE p \in L /\ p \notin N
  OBVIOUS
<1>2. L \union (lost \intersect {}) = L
  OBVIOUS
<1>3. Room(ChangeLinks(f, SetToSeq(lost), {}))
  BY <1>1, <1>2, SkyLoopFits
<1>. QED  BY <1>3 DEF RemoveUserTerminalLinks

LEMMA RefreshedFits ==
  ASSUME NEW f, NEW N, NEW gsl \in SUBSET GroundStationPairs,
         NEW utl \in TerminalTables, NEW links \in TerminalTables,
         FabricInv(f, LinksOf(gsl, utl), N), N \subseteq GroundStationPairs, Room(f)
  PROVE  Room(CreateUserTerminalLinks(RemoveUserTerminalLinks(f, Lost(utl, links)), Created(utl, links)))
<1> DEFINE lost == Lost(utl, links)
           created == Created(utl, links)
           L == LinksOf(gsl, utl)
           h == RemoveUserTerminalLinks(f, lost)
<1>1. /\ TerminalLinks(utl) \subseteq SkyPairs /\ TerminalLinks(links) \subseteq SkyPairs
      /\ TerminalLinks(utl) \intersect GroundStationPairs = {}
      /\ TerminalLinks(links) \intersect GroundStationPairs = {}
      /\ TerminalLinks(utl) \intersect FixedLinks = {} /\ TerminalLinks(links) \intersect FixedLinks = {}
  BY PairsDisjoint
<1>2. lost \subseteq SkyPairs /\ lost \subseteq L /\ lost \intersect N = {}
  BY <1>1 DEF Lost, LinksOf
<1>3. created \subseteq SkyPairs /\ created \intersect (L \ lost) = {}
  BY <1>1 DEF Created, LinksOf
<1>4. (L \ lost) \union created = LinksOf(gsl, links)
  BY <1>1 DEF Lost, Created, LinksOf
<1>5. AtMostOne(L) /\ AtMostOne(LinksOf(gsl, links))
  BY TerminalLinksOnce
<1> HIDE DEF lost, created, L
<1>6. FabricInv(h, L \ lost, N)
  BY <1>2, RemoveUserTerminalLinksKeeps DEF L
<1>7. Room(h)
  BY <1>2, <1>5, RemoveUserTerminalLinksFits DEF L
<1> HIDE DEF h
<1>8. Room(CreateUserTerminalLinks(h, created))
  BY <1>3, <1>4, <1>5, <1>6, <1>7, CreateUserTerminalLinksFits
<1>. QED  BY <1>8 DEF h, lost, created

(* Counting: an element more on both sides.                                *)
NoMore(X, E) == IsFiniteSet(X) /\ Cardinality(X) <= Cardinality(E)

Grow(X, Y, i, E, F, x) ==
  /\ IsFiniteSet(F) /\ Y \subseteq X \union {i}
  /\ E \union {x} \subseteq F /\ x \notin E

LEMMA OneMore ==
  ASSUME NEW X, NEW Y, NEW i, NEW E, NEW F, NEW x, NoMore(X, E), Grow(X, Y, i, E, F, x)
  PROVE  NoMore(Y, F)
<1> USE DEF NoMore, Grow
<1>1. IsFiniteSet(E)
  BY FS_Subset
<1>2. IsFiniteSet(X \union {i}) /\ IsFiniteSet(E \union {x})
  BY <1>1, FS_AddElement
<1>3. IsFiniteSet(Y) /\ Cardinality(Y) <= Cardinality(X \union {i})
  BY <1>2, FS_Subset
<1>4. Cardinality(E \union {x}) <= Cardinality(F)
  BY FS_Subset
<1>5. Cardinality(X \union {i}) = IF i \in X THEN Cardinality(X) ELSE Cardinality(X) + 1
  BY FS_AddElement
<1>6. Cardinality(E \union {x}) = Cardinality(E) + 1
  BY <1>1, FS_AddElement
<1>7. /\ Cardinality(X) \in Nat /\ Cardinality(E) \in Nat /\ Cardinality(F) \in Nat
      /\ Cardinality(Y) \in Nat
  BY <1>1, <1>3, FS_CardinalityType
<1>. QED  BY <1>3, <1>4, <1>5, <1>6, <1>7

(* The ends at n of the links made in the first k turns of setUpSimulation. *)
EndsBefore(n, k, w) == {end \in GridEnds(n) : end[1] + w <= k}

LEMMA GridTurn ==
  ASSUME NEW c \in Fabrics, NEW a \in Satellites, NEW b \in Satellites, NEW w \in Nat, NEW k \in Nat,
         k - w \in 1 .. Len(InterSatelliteLinks), InterSatelliteLinks[k - w] = <<a, b>>,
         NEW n \in Satellites,
         Cardinality(GatesInto(c, n, Satellites)) <= Cardinality(EndsBefore(n, k - 1, w))
  PROVE  Cardinality(GatesInto(Connect(c, a, b), n, Satellites)) <= Cardinality(EndsBefore(n, k, w))
<1> DEFINE g  == Connect(c, a, b)
           X  == GatesInto(c, n, Satellites)
           Y  == GatesInto(g, n, Satellites)
           E0 == EndsBefore(n, k - 1, w)
           E1 == EndsBefore(n, k, w)
           e  == k - w
<1>1. a \in Nodes /\ b \in Nodes /\ n \in Nodes /\ Satellites \subseteq Nodes
  BY DEF Nodes, Routers
<1>2. g \in Fabrics /\ OthersKept(c, g, a, b) /\ GateMore(c, g, a, b)
  BY <1>1, ConnectFacts
<1>3. IsFiniteSet(X) /\ IsFiniteSet(GridEnds(n))
  BY <1>1, FiniteKinds, GatesIntoFacts
<1>4. E1 \subseteq GridEnds(n) /\ IsFiniteSet(E1)
  <2>1. E1 \subseteq GridEnds(n)
    BY DEF EndsBefore
  <2>. QED  BY <1>3, <2>1, FS_Subset
<1>5. E0 \subseteq E1 /\ <<e, 1>> \notin E0 /\ <<e, 2>> \notin E0
  <2>1. DOMAIN InterSatelliteLinks = 1 .. Len(InterSatelliteLinks) /\ Len(InterSatelliteLinks) \in Nat
    BY FabricAssumption
  <2>2. \A end \in GridEnds(n) : end[1] \in Nat
    BY <2>1 DEF GridEnds
  <2>3. E0 \subseteq E1
    BY <2>2 DEF EndsBefore
  <2>4. ~(e + w <= k - 1)
    OBVIOUS
  <2> HIDE DEF e
  <2>5. \A d : <<e, d>>[1] = e
    OBVIOUS
  <2>. QED  BY <2>3, <2>4, <2>5 DEF EndsBefore
<1>6. /\ a = n => <<e, 1>> \in E1
      /\ b = n => <<e, 2>> \in E1
  <2>1. e \in DOMAIN InterSatelliteLinks /\ InterSatelliteLinks[e] = <<a, b>> /\ e + w <= k
    <3>1. DOMAIN InterSatelliteLinks = 1 .. Len(InterSatelliteLinks)
      BY FabricAssumption
    <3>. QED  BY <3>1
  <2> HIDE DEF e
  <2>2. a = n => <<e, 1>> \in GridEnds(n)
    BY <2>1 DEF GridEnds
  <2>3. b = n => <<e, 2>> \in GridEnds(n)
    BY <2>1 DEF GridEnds
  <2>. QED  BY <2>1, <2>2, <2>3 DEF EndsBefore
<1>7. \A i : i \in Y <=> \E m \in Satellites : i \in GatesTo(g, n, m)
  <2>1. DOMAIN g.gate[n] = 1 .. Len(g.gate[n])
    BY <1>1, <1>2, FabricFields
  <2> HIDE DEF g
  <2>. QED  BY <2>1 DEF GatesTo, GatesInto
<1>8. \A i : i \in X <=> \E m \in Satellites : i \in GatesTo(c, n, m)
  <2>1. DOMAIN c.gate[n] = 1 .. Len(c.gate[n])
    BY <1>1, FabricFields
  <2>. QED  BY <2>1 DEF GatesTo, GatesInto
<1> HIDE DEF g, X, Y, E0, E1, e
<1>9. NoMore(X, E0)
  BY <1>3 DEF NoMore, X, E0
<1>10. PICK i, j :
         /\ a # b => /\ GatesTo(g, a, b) = GatesTo(c, a, b) \union {i}
                     /\ GatesTo(g, b, a) = GatesTo(c, b, a) \union {j}
         /\ a = b => GatesTo(g, a, a) = (GatesTo(c, a, a) \union {i}) \union {j}
  BY <1>2 DEF GateMore
<1>11. \A m \in Nodes : ~((n = a /\ m = b) \/ (n = b /\ m = a)) => GatesTo(g, n, m) = GatesTo(c, n, m)
  BY <1>1, <1>2 DEF OthersKept
<1>12. CASE n # a /\ n # b
  <2>1. Y = X
    BY <1>1, <1>7, <1>8, <1>11, <1>12
  <2>2. Cardinality(E0) <= Cardinality(E1) /\ IsFiniteSet(E0)
    BY <1>4, <1>5, FS_Subset
  <2>3. Cardinality(X) \in Nat /\ Cardinality(E0) \in Nat /\ Cardinality(E1) \in Nat
    BY <1>3, <1>4, <2>2, FS_CardinalityType
  <2>4. Cardinality(Y) <= Cardinality(E1)
    BY <1>9, <2>1, <2>2, <2>3 DEF NoMore
  <2>. QED  BY <2>4 DEF Y, E1, g
<1>13. CASE n = a /\ a # b
  <2>1. Y \subseteq X \union {i}
    BY <1>1, <1>7, <1>8, <1>10, <1>11, <1>13
  <2>2. Grow(X, Y, i, E0, E1, <<e, 1>>)
    BY <1>4, <1>5, <1>6, <1>13, <2>1 DEF Grow
  <2>3. NoMore(Y, E1)
    BY <1>9, <2>2, OneMore
  <2>. QED  BY <2>3 DEF NoMore, Y, E1, g
<1>14. CASE n = b /\ a # b
  <2>1. Y \subseteq X \union {j}
    BY <1>1, <1>7, <1>8, <1>10, <1>11, <1>14
  <2>2. Grow(X, Y, j, E0, E1, <<e, 2>>)
    BY <1>4, <1>5, <1>6, <1>14, <2>1 DEF Grow
  <2>3. NoMore(Y, E1)
    BY <1>9, <2>2, OneMore
  <2>. QED  BY <2>3 DEF NoMore, Y, E1, g
<1>15. CASE n = a /\ n = b
  <2>1. Y \subseteq (X \union {i}) \union {j}
    BY <1>1, <1>7, <1>8, <1>10, <1>11, <1>15
  <2> DEFINE E == E0 \union {<<e, 1>>}
             Z == X \union {i}
  <2>2. E \union {<<e, 2>>} \subseteq E1 /\ <<e, 2>> \notin E
    <3>1. <<e, 2>> # <<e, 1>>
      OBVIOUS
    <3>. QED  BY <1>5, <1>6, <1>15, <3>1
  <2>3. IsFiniteSet(E)
    BY <1>4, <2>2, FS_Subset
  <2>4. Grow(X, Z, i, E0, E, <<e, 1>>)
    BY <1>5, <2>3 DEF Grow
  <2>5. Grow(Z, Y, j, E, E1, <<e, 2>>)
    BY <1>4, <2>1, <2>2 DEF Grow
  <2> HIDE DEF E, Z
  <2>6. NoMore(Z, E)
    BY <1>9, <2>4, OneMore
  <2>7. NoMore(Y, E1)
    BY <2>5, <2>6, OneMore
  <2>. QED  BY <2>7 DEF NoMore, Y, E1, g
<1>. QED  BY <1>12, <1>13, <1>14, <1>15

(* After k turns of setUpSimulation.                                       *)
WithinEnds(f, k, w) ==
  \A n \in Satellites : Cardinality(GatesInto(f, n, Satellites)) <= Cardinality(EndsBefore(n, k, w))

LEMMA EndsBeforeFacts ==
  ASSUME NEW n, NEW k \in Nat, NEW w \in Nat
  PROVE  /\ IsFiniteSet(EndsBefore(n, k, w)) /\ EndsBefore(n, k, w) \subseteq GridEnds(n)
         /\ Cardinality(EndsBefore(n, k, w)) \in Nat
         /\ Cardinality(EndsBefore(n, k, w)) <= Cardinality(GridEnds(n))
         /\ k # 0 => Cardinality(EndsBefore(n, k - 1, w)) <= Cardinality(EndsBefore(n, k, w))
         /\ k # 0 => Cardinality(EndsBefore(n, k - 1, w)) \in Nat
<1> DEFINE E0 == EndsBefore(n, k - 1, w)
           E1 == EndsBefore(n, k, w)
<1>1. E1 \subseteq GridEnds(n) /\ IsFiniteSet(GridEnds(n))
  BY FiniteKinds DEF EndsBefore
<1>2. E0 \subseteq E1
  <2>1. DOMAIN InterSatelliteLinks = 1 .. Len(InterSatelliteLinks) /\ Len(InterSatelliteLinks) \in Nat
    BY FabricAssumption
  <2>2. \A end \in GridEnds(n) : end[1] \in Nat
    BY <2>1 DEF GridEnds
  <2>. QED  BY <2>2 DEF EndsBefore
<1> HIDE DEF E0, E1
<1>3. IsFiniteSet(E1) /\ Cardinality(E1) <= Cardinality(GridEnds(n))
  BY <1>1, FS_Subset
<1>4. IsFiniteSet(E0) /\ Cardinality(E0) <= Cardinality(E1)
  BY <1>2, <1>3, FS_Subset
<1>5. Cardinality(E0) \in Nat /\ Cardinality(E1) \in Nat
  BY <1>3, <1>4, FS_CardinalityType
<1>. QED  BY <1>1, <1>3, <1>4, <1>5 DEF E0, E1

(* A wire takes no gate between satellites.                                *)
LEMMA SetUpTurn ==
  ASSUME NEW c \in Fabrics, NEW p, NEW k \in Nat, k # 0, NEW w \in Nat,
         \/ p \in Wires
         \/ k - w \in 1 .. Len(InterSatelliteLinks) /\ p = InterSatelliteLinks[k - w],
         WithinEnds(c, k - 1, w)
  PROVE  WithinEnds(CreateLink(c, p), k, w)
<1>1. CASE p \in Wires
  <2>1. p = <<p[1], p[2]>>
    BY <1>1 DEF Wires
  <2>2. /\ p[1] \in Nodes /\ p[2] \in Nodes /\ p[1] \in EndUsers /\ p[2] \in GroundStations
        /\ <<p[1], p[2]>> \in Wires \union GridPairs
    BY <1>1, <2>1, WireKinds
  <2>3. CreateLink(c, p) = Connect(c, p[1], p[2])
    BY <2>2, CreateWired, <2>1
  <2> DEFINE g == Connect(c, p[1], p[2])
  <2>4. g \in Fabrics /\ OthersKept(c, g, p[1], p[2])
    BY <2>2, ConnectFacts
  <2> HIDE DEF g
  <2>5. p[1] \notin Satellites /\ p[2] \notin Satellites
    BY <2>2, FabricAssumption DEF Routers, Endpoints
  <2> SUFFICES ASSUME NEW n \in Satellites
               PROVE  Cardinality(GatesInto(g, n, Satellites)) <= Cardinality(EndsBefore(n, k, w))
    BY <2>3 DEF WithinEnds, g
  <2>6. n \in Nodes /\ Satellites \subseteq Nodes
    BY DEF Nodes, Routers
  <2>7. \A m \in Satellites : GatesTo(g, n, m) = GatesTo(c, n, m)
    BY <2>4, <2>5, <2>6 DEF OthersKept
  <2>8. GatesInto(g, n, Satellites) = GatesInto(c, n, Satellites)
    BY <2>4, <2>6, <2>7, SameGatesInto
  <2>9. Cardinality(GatesInto(c, n, Satellites)) \in Nat
    BY <2>6, GatesIntoFacts
  <2>10. /\ Cardinality(EndsBefore(n, k - 1, w)) <= Cardinality(EndsBefore(n, k, w))
         /\ Cardinality(EndsBefore(n, k - 1, w)) \in Nat /\ Cardinality(EndsBefore(n, k, w)) \in Nat
    BY EndsBeforeFacts
  <2>11. Cardinality(GatesInto(c, n, Satellites)) <= Cardinality(EndsBefore(n, k - 1, w))
    BY DEF WithinEnds
  <2>. QED  BY <2>8, <2>9, <2>10, <2>11
<1>2. CASE k - w \in 1 .. Len(InterSatelliteLinks) /\ p = InterSatelliteLinks[k - w]
  <2>1. p \in GridPairs
    <3>1. InterSatelliteLinks \in Seq(GridPairs)
      BY FabricAssumption DEF GridPairs
    <3>. QED  BY <1>2, <3>1
  <2>2. p = <<p[1], p[2]>> /\ p[1] \in Satellites /\ p[2] \in Satellites
    BY <2>1 DEF GridPairs
  <2>3. CreateLink(c, p) = Connect(c, p[1], p[2])
    BY <2>1, <2>2, CreateWired
  <2>4. InterSatelliteLinks[k - w] = <<p[1], p[2]>>
    BY <1>2, <2>2
  <2>5. ASSUME NEW n \in Satellites
        PROVE  Cardinality(GatesInto(Connect(c, p[1], p[2]), n, Satellites))
                 <= Cardinality(EndsBefore(n, k, w))
    <3>1. Cardinality(GatesInto(c, n, Satellites)) <= Cardinality(EndsBefore(n, k - 1, w))
      BY DEF WithinEnds
    <3>. QED  BY <1>2, <2>2, <2>4, <3>1, GridTurn
  <2>. QED  BY <2>3, <2>5 DEF WithinEnds
<1>. QED  BY <1>1, <1>2

LEMMA NoGates == Unconnected \in Fabrics /\ \A n \in Nodes : Len(Unconnected.gate[n]) = 0
BY UnconnectedInv DEF FabricInv, Unconnected

(* Before the first link every node has room.                              *)
LEMMA UnconnectedFits ==
  /\ Room(Unconnected) /\ \A w \in Nat : WithinEnds(Unconnected, 0, w)
<1>1. ASSUME NEW n \in Nodes PROVE Len(Unconnected.gate[n]) = 0 /\ Len(Unconnected.gate[n]) <= Places(n)
  <2>1. Len(Unconnected.gate[n]) = 0
    BY NoGates
  <2>2. n \in Satellites \/ n \in GroundStations \/ n \in Endpoints
    BY DEF Nodes, Routers
  <2>3. /\ Cardinality(GroundStations) \in Nat /\ Cardinality(UserTerminals) \in Nat
        /\ Cardinality(Satellites) \in Nat
        /\ Cardinality(GridEnds(n)) \in Nat /\ Cardinality({e \in EndUsers : ConnectModule[e] = n}) \in Nat
    BY FiniteKinds, FS_CardinalityType
  <2>4. /\ Satellites \intersect GroundStations = {} /\ (Satellites \union GroundStations) \intersect Endpoints = {}
    BY FabricAssumption DEF Routers
  <2>5. Places(n) \in Nat
    BY <2>2, <2>3, <2>4 DEF Places
  <2>. QED  BY <2>1, <2>5
<1>2. ASSUME NEW n \in Satellites PROVE Cardinality(GatesInto(Unconnected, n, Satellites)) = 0
  <2>1. n \in Nodes
    BY DEF Nodes, Routers
  <2>2. GatesInto(Unconnected, n, Satellites) = {}
    BY <1>1, <2>1 DEF GatesInto
  <2>. QED  BY <2>2, FS_EmptySet
<1>3. Fits(Unconnected)
  BY <1>1 DEF Fits
<1>4. GridFits(Unconnected)
  <2>1. \A n : Cardinality(GridEnds(n)) \in Nat
    BY FiniteKinds
  <2>. QED  BY <1>2, <2>1 DEF GridFits
<1>5. ASSUME NEW w \in Nat PROVE WithinEnds(Unconnected, 0, w)
  <2>1. \A n : Cardinality(EndsBefore(n, 0, w)) \in Nat
    BY EndsBeforeFacts
  <2>. QED  BY <1>2, <2>1 DEF WithinEnds
<1>. QED  BY <1>3, <1>4, <1>5 DEF Room

LEMMA SameRoom ==
  ASSUME NEW f, NEW g, g.gate = f.gate, Room(f)
  PROVE  Room(g)
BY DEF Room, Fits, GridFits, GatesInto

LEMMA SetUpSimulationFits == Room(SetUpSimulation(Unconnected))
<1>1. FabricInv(Unconnected, {}, {}) /\ NoInterfaces(Unconnected)
  BY UnconnectedInv
<1>2. PICK pairs, w : SetUpLoop(Unconnected, pairs, w)
  BY <1>1, SetUpSimulationLoop
<1>3. PICK h : Stepwise(Unconnected, pairs, Range(pairs), {}, {}, h)
  BY <1>1, <1>2, ChangeLinksStepwise DEF SetUpLoop
<1>4. /\ w \in Nat /\ Len(pairs) \in Nat /\ Range(pairs) = FixedLinks
      /\ DOMAIN pairs = 1 .. Len(pairs)
      /\ \A k \in 1 .. Len(pairs) :
           \/ pairs[k] \in Wires
           \/ k - w \in 1 .. Len(InterSatelliteLinks) /\ pairs[k] = InterSatelliteLinks[k - w]
  BY <1>2 DEF SetUpLoop, Changeable
<1>5. ASSUME NEW k \in 0 .. Len(pairs) PROVE h[k] \in Fabrics
  BY <1>3 DEF Stepwise, Changed, FabricInv
<1>6. h[0] = Unconnected /\ \A k \in 1 .. Len(pairs) : h[k] = CreateLink(h[k - 1], pairs[k])
  <2>1. \A k \in 1 .. Len(pairs) : pairs[k] \in Range(pairs)
    BY <1>4 DEF Range
  <2>. QED  BY <1>3, <2>1 DEF Stepwise, Unrolled
<1>7. ASSUME NEW k \in 1 .. Len(pairs), WithinEnds(h[k - 1], k - 1, w) PROVE WithinEnds(h[k], k, w)
  <2>1. k \in Nat /\ k # 0 /\ k - 1 \in 0 .. Len(pairs)
    BY <1>4
  <2>2. h[k - 1] \in Fabrics
    BY <1>5, <2>1
  <2>3. WithinEnds(CreateLink(h[k - 1], pairs[k]), k, w)
    BY <1>4, <1>7, <2>1, <2>2, SetUpTurn
  <2>. QED  BY <1>6, <2>3
<1>8. \A k \in 0 .. Len(pairs) : WithinEnds(h[k], k, w)
  <2> DEFINE bad == {k \in 0 .. Len(pairs) : ~WithinEnds(h[k], k, w)}
  <2> SUFFICES ASSUME bad # {} PROVE FALSE
    OBVIOUS
  <2>1. PICK n \in bad : \A x \in bad : n <= x
    <3>1. bad \subseteq Nat
      OBVIOUS
    <3> HIDE DEF bad
    <3>. QED  BY <3>1, LeastElement
  <2>2. n \in 0 .. Len(pairs) /\ ~WithinEnds(h[n], n, w)
    BY <2>1
  <2>3. n # 0
    BY <1>4, <1>6, <2>2, UnconnectedFits
  <2>4. n \in 1 .. Len(pairs) /\ n - 1 \in 0 .. Len(pairs) /\ ~(n <= n - 1)
    BY <1>4, <2>2, <2>3
  <2>5. WithinEnds(h[n - 1], n - 1, w)
    BY <2>1, <2>4
  <2>. QED  BY <1>7, <2>2, <2>4, <2>5
<1>9. ASSUME NEW k \in 0 .. Len(pairs) PROVE GridFits(h[k])
  <2> SUFFICES ASSUME NEW n \in Satellites
               PROVE  Cardinality(GatesInto(h[k], n, Satellites)) <= Cardinality(GridEnds(n))
    BY DEF GridFits
  <2>1. Cardinality(GatesInto(h[k], n, Satellites)) <= Cardinality(EndsBefore(n, k, w))
    BY <1>8 DEF WithinEnds
  <2>2. Cardinality(GatesInto(h[k], n, Satellites)) \in Nat
    BY <1>5, GatesIntoFacts DEF Nodes, Routers
  <2>3. k \in Nat
    OBVIOUS
  <2>4. /\ Cardinality(EndsBefore(n, k, w)) \in Nat
        /\ Cardinality(EndsBefore(n, k, w)) <= Cardinality(GridEnds(n)) /\ Cardinality(GridEnds(n)) \in Nat
    BY <1>4, <2>3, EndsBeforeFacts, FiniteKinds
  <2>. QED  BY <2>1, <2>2, <2>4
<1>10. ASSUME NEW k \in 0 .. Len(pairs)
       PROVE  AtMostOne(LinksAfter({}, Done(pairs, k), Range(pairs)))
  <2>1. LinksAfter({}, Done(pairs, k), Range(pairs)) \subseteq FixedLinks
    BY <1>4 DEF LinksAfter
  <2>2. \A ut \in UserTerminals : \A x : <<ut, x>> \notin FixedLinks
    <3>1. FixedLinks \subseteq Wires \union GridPairs
      BY FixedKinds DEF FixedLinks
    <3>2. Routers \intersect Endpoints = {} /\ UserTerminals \intersect EndUsers = {}
      BY FabricAssumption
    <3>. QED  BY <3>1, <3>2 DEF Wires, GridPairs, Routers, Endpoints
  <2>. QED  BY <2>1, <2>2 DEF AtMostOne
<1>11. Fits(Unconnected)
  BY UnconnectedFits DEF Room
<1>12. Room(ChangeLinks(Unconnected, pairs, Range(pairs)))
  BY <1>3, <1>4, <1>9, <1>10, <1>11, LoopFits
<1>. QED  BY <1>2, <1>12 DEF SetUpLoop

-----------------------------------------------------------------------------
(* Endpoint tables.                                                        *)

AttachmentOf(utl, e) == IF e \in EndUsers THEN ConnectModule[e] ELSE utl[e]

Tables == [Endpoints -> [node: Routers \union {Free}, attachment: Nat, uplink: Nat]]

TableCurrent(f, utl, tables, e) ==
  LET at == AttachmentOf(utl, e)
      t  == tables[e]
  IN  IF at = Free THEN t = Detached
      ELSE /\ t.node = at
           /\ GatesTo(f, at, e) = {t.attachment}
           /\ GatesTo(f, e, at) = {t.uplink}

TablesCurrent(f, utl, tables) == \A e \in Endpoints : TableCurrent(f, utl, tables, e)

LEMMA EndpointLinks ==
  ASSUME NEW gsl \in SUBSET GroundStationPairs, NEW utl \in TerminalTables,
         NEW e \in Endpoints
  PROVE  /\ AttachmentOf(utl, e) \in Routers \union {Free} /\ e \in Nodes /\ Free \notin Nodes
         /\ Routers \subseteq Nodes /\ e \notin Routers
         /\ \A n \in Nodes : /\ Joined(LinksOf(gsl, utl), e, n) <=> n = AttachmentOf(utl, e)
                             /\ Joined(LinksOf(gsl, utl), n, e) <=> n = AttachmentOf(utl, e)
                             /\ <<e, n>> \notin GridPairs /\ <<n, e>> \notin GridPairs
<1>1. /\ Satellites \intersect GroundStations = {} /\ UserTerminals \intersect EndUsers = {}
      /\ (Satellites \union GroundStations) \intersect (UserTerminals \union EndUsers) = {}
      /\ ConnectModule \in [EndUsers -> GroundStations] /\ Free \notin Nodes
  BY FabricAssumption DEF Routers, Endpoints
<1>2. /\ e \in UserTerminals \/ e \in EndUsers
      /\ e \notin Satellites /\ e \notin GroundStations
  BY <1>1 DEF Endpoints
<1>3. utl \in [UserTerminals -> Satellites \union {Free}]
  BY DEF TerminalTables
<1>4. AttachmentOf(utl, e) \in Routers \union {Free}
  BY <1>1, <1>2, <1>3 DEF AttachmentOf, Routers
<1>5. e \in Nodes /\ Routers \subseteq Nodes /\ e \notin Routers
  BY <1>2 DEF Nodes, Routers, Endpoints
<1>6. ASSUME NEW n \in Nodes
      PROVE  /\ <<e, n>> \in LinksOf(gsl, utl) <=> n = AttachmentOf(utl, e)
             /\ <<n, e>> \notin LinksOf(gsl, utl)
             /\ <<e, n>> \notin GridPairs /\ <<n, e>> \notin GridPairs
  <2>1. <<e, n>> \notin GridPairs /\ <<n, e>> \notin GridPairs
    BY <1>2 DEF GridPairs
  <2>2. <<e, n>> \notin Range(InterSatelliteLinks) /\ <<n, e>> \notin Range(InterSatelliteLinks)
    BY <2>1, FixedKinds
  <2>3. <<e, n>> \notin gsl /\ <<n, e>> \notin gsl
    BY <1>2 DEF GroundStationPairs
  <2>4. <<n, e>> \notin Wires /\ (<<e, n>> \in Wires <=> e \in EndUsers /\ n = ConnectModule[e])
    BY <1>1, <1>2 DEF Wires
  <2>5. <<n, e>> \notin TerminalLinks(utl)
    <3>1. TerminalLinks(utl) \subseteq UserTerminals \X Satellites
      BY <1>3, TerminalLinksKinds
    <3>. QED  BY <1>2, <3>1
  <2>6. <<e, n>> \in TerminalLinks(utl) <=> e \in UserTerminals /\ n = utl[e]
    <3>1. n # Free
      BY <1>1
    <3>. QED  BY <3>1 DEF TerminalLinks
  <2>7. <<e, n>> \in LinksOf(gsl, utl) <=> n = AttachmentOf(utl, e)
    <3>1. <<e, n>> \in LinksOf(gsl, utl) <=> <<e, n>> \in Wires \/ <<e, n>> \in TerminalLinks(utl)
      BY <2>2, <2>3 DEF LinksOf, FixedLinks
    <3>2. e \in UserTerminals <=> e \notin EndUsers
      BY <1>1, <1>2
    <3>. QED  BY <2>4, <2>6, <3>1, <3>2 DEF AttachmentOf
  <2>8. <<n, e>> \notin LinksOf(gsl, utl)
    BY <2>2, <2>3, <2>4, <2>5 DEF LinksOf, FixedLinks
  <2>. QED  BY <2>1, <2>7, <2>8
<1>. QED  BY <1>1, <1>4, <1>5, <1>6 DEF Joined

(* The gates of an endpoint and the gates to it have their interfaces, as  *)
(* long as only links of ground stations are new.                          *)
LEMMA EndpointInterfaces ==
  ASSUME NEW f, NEW L, NEW N, FabricInv(f, L, N), N \subseteq GroundStationPairs,
         NEW n \in Nodes, NEW m \in Nodes, n \in Endpoints \/ m \in Endpoints,
         NEW i \in GatesTo(f, n, m)
  PROVE  HasInterface(f, n, i)
<1>1. f \in Fabrics /\ NewOK(f, N)
  BY DEF FabricInv
<1>2. i \in 1 .. Len(f.gate[n]) /\ f.gate[n][i] = m
  BY <1>1, GatesToMember
<1>3. ~Joined(N, n, m)
  <2>1. Routers \intersect Endpoints = {}
    BY FabricAssumption
  <2>. QED  BY <2>1 DEF Joined, GroundStationPairs, Routers
<1>4. ~(i > f.ppp[n])
  BY <1>1, <1>2, <1>3 DEF NewOK
<1>5. i \in Nat /\ f.ppp[n] \in Nat
  BY <1>1, <1>2, FabricFields
<1>. QED  BY <1>4, <1>5 DEF HasInterface

LEMMA TablesAreCurrent ==
  ASSUME NEW f, NEW N, NEW gsl \in SUBSET GroundStationPairs, NEW utl \in TerminalTables,
         FabricInv(f, LinksOf(gsl, utl), N), N \subseteq GroundStationPairs
  PROVE  EndpointTables(f) \in Tables /\ TablesCurrent(f, utl, EndpointTables(f))
<1> DEFINE usable(e) == {i \in DOMAIN f.gate[e] :
                           LET n == f.gate[e][i] IN
                           n # Free /\ HasInterface(f, e, i) /\ HasInterface(f, n, GateTo(f, n, e))}
           first(e) == CHOOSE i \in usable(e) : \A j \in usable(e) : i <= j
           entry(e) == IF usable(e) = {} THEN Detached
                       ELSE [node |-> f.gate[e][first(e)],
                             attachment |-> GateTo(f, f.gate[e][first(e)], e), uplink |-> first(e)]
<1>1. EndpointTables(f) = [e \in Endpoints |-> entry(e)]
  BY DEF EndpointTables
<1>2. f \in Fabrics /\ GatesOK(f, LinksOf(gsl, utl))
  BY DEF FabricInv
<1>3. ASSUME NEW e \in Endpoints
      PROVE  /\ entry(e) \in [node: Routers \union {Free}, attachment: Nat, uplink: Nat]
             /\ LET at == AttachmentOf(utl, e) IN
                IF at = Free THEN entry(e) = Detached
                ELSE /\ entry(e).node = at
                     /\ GatesTo(f, at, e) = {entry(e).attachment}
                     /\ GatesTo(f, e, at) = {entry(e).uplink}
  <2> DEFINE at == AttachmentOf(utl, e)
  <2>1. /\ at \in Routers \union {Free} /\ e \in Nodes /\ Free \notin Nodes /\ Routers \subseteq Nodes
        /\ \A n \in Nodes : /\ Joined(LinksOf(gsl, utl), e, n) <=> n = at
                            /\ Joined(LinksOf(gsl, utl), n, e) <=> n = at
                            /\ <<e, n>> \notin GridPairs /\ <<n, e>> \notin GridPairs
    BY EndpointLinks
  <2>2. f.gate[e] \in Seq(Nodes \union {Free}) /\ DOMAIN f.gate[e] = 1 .. Len(f.gate[e])
        /\ Len(f.gate[e]) \in Nat
    BY <1>2, <2>1, FabricFields
  <2> HIDE DEF at
  <2>3. ASSUME NEW n \in Nodes, n # at PROVE GatesTo(f, e, n) = {}
    BY <1>2, <2>1, <2>3 DEF GatesOK
  <2>4. \A i \in DOMAIN f.gate[e] : f.gate[e][i] # Free => i \in GatesTo(f, e, at) /\ f.gate[e][i] = at
    <3> SUFFICES ASSUME NEW i \in DOMAIN f.gate[e], f.gate[e][i] # Free
                 PROVE  i \in GatesTo(f, e, at) /\ f.gate[e][i] = at
      OBVIOUS
    <3>1. f.gate[e][i] \in Nodes /\ i \in GatesTo(f, e, f.gate[e][i])
      BY <2>2 DEF GatesTo
    <3>2. f.gate[e][i] = at
      BY <2>3, <3>1
    <3>. QED  BY <3>1, <3>2
  <2>5. CASE at = Free
    <3>1. usable(e) = {}
      <4> SUFFICES ASSUME NEW i \in DOMAIN f.gate[e], f.gate[e][i] # Free PROVE FALSE
        OBVIOUS
      <4>. QED  BY <2>4, <2>5
    <3>2. entry(e) = Detached
      BY <3>1
    <3>3. Detached \in [node: Routers \union {Free}, attachment: Nat, uplink: Nat]
      BY DEF Detached, NoInterface
    <3> HIDE DEF entry
    <3>. QED  BY <2>5, <3>2, <3>3 DEF at
  <2>6. CASE at # Free
    <3>1. at \in Nodes /\ at \in Routers
      BY <2>1, <2>6
    <3>2. PICK i : GatesTo(f, e, at) = {i}
      BY <1>2, <2>1, <3>1 DEF GatesOK
    <3>3. PICK k : GatesTo(f, at, e) = {k}
      BY <1>2, <2>1, <3>1 DEF GatesOK
    <3>4. GateTo(f, at, e) = k
      BY <3>3 DEF GateTo
    <3>5. HasInterface(f, e, i) /\ HasInterface(f, at, k)
      BY <2>1, <3>1, <3>2, <3>3, EndpointInterfaces
    <3>6. i \in DOMAIN f.gate[e] /\ f.gate[e][i] = at /\ i \in Nat
      BY <1>2, <2>1, <2>2, <3>2, GatesToMember
    <3>7. k \in Nat
      <4>1. k \in 1 .. Len(f.gate[at])
        BY <1>2, <3>1, <3>3, GatesToMember
      <4>. QED  BY <1>2, <3>1, <4>1, FabricFields
    <3>8. usable(e) = {i}
      <4>1. i \in usable(e)
        BY <2>6, <3>4, <3>5, <3>6
      <4>2. \A j \in usable(e) : j = i
        BY <2>4, <3>2
      <4>. QED  BY <4>1, <4>2
    <3>9. first(e) = i
      <4> HIDE DEF usable
      <4>. QED  BY <3>6, <3>8
    <3> HIDE DEF first
    <3>10. entry(e) = [node |-> at, attachment |-> k, uplink |-> i]
      <4> HIDE DEF usable
      <4>. QED  BY <3>4, <3>6, <3>8, <3>9
    <3> HIDE DEF entry
    <3>. QED  BY <2>6, <3>1, <3>2, <3>3, <3>6, <3>7, <3>10 DEF at
  <2>. QED  BY <2>5, <2>6
<1> HIDE DEF entry
<1>4. EndpointTables(f) \in Tables
  BY <1>1, <1>3 DEF Tables
<1>5. TablesCurrent(f, utl, EndpointTables(f))
  BY <1>1, <1>3 DEF TablesCurrent, TableCurrent
<1>. QED  BY <1>4, <1>5

LEMMA TablesKept ==
  ASSUME NEW f, NEW g, NEW utl \in TerminalTables, NEW tables, TablesCurrent(f, utl, tables),
         NEW S, GatesKept(f, g, S),
         \A e \in Endpoints : \A n \in Nodes : ~Joined(S, e, n) /\ ~Joined(S, n, e)
  PROVE  TablesCurrent(g, utl, tables)
<1> SUFFICES ASSUME NEW e \in Endpoints, AttachmentOf(utl, e) # Free
             PROVE  /\ GatesTo(g, e, AttachmentOf(utl, e)) = GatesTo(f, e, AttachmentOf(utl, e))
                    /\ GatesTo(g, AttachmentOf(utl, e), e) = GatesTo(f, AttachmentOf(utl, e), e)
  BY DEF TablesCurrent, TableCurrent
<1>1. AttachmentOf(utl, e) \in Nodes /\ e \in Nodes
  <2>1. {} \in SUBSET GroundStationPairs
    OBVIOUS
  <2>. QED  BY <2>1, EndpointLinks
<1>. QED  BY <1>1 DEF GatesKept

-----------------------------------------------------------------------------
(* The inter-satellite links.                                              *)

LinkedBothWays(f, p) == GatesTo(f, p[1], p[2]) # {} /\ GatesTo(f, p[2], p[1]) # {}

(* Every link of the grid is there.                                        *)
GridLinked(f) == \A p \in Range(InterSatelliteLinks) : LinkedBothWays(f, p)

LEMMA ConnectLinks ==
  ASSUME NEW f \in Fabrics, NEW a \in Nodes, NEW b \in Nodes
  PROVE  /\ \A n, m \in Nodes : GatesTo(f, n, m) \subseteq GatesTo(Connect(f, a, b), n, m)
         /\ LinkedBothWays(Connect(f, a, b), <<a, b>>)
<1> DEFINE g == Connect(f, a, b)
<1>1. OthersKept(f, g, a, b) /\ GateMore(f, g, a, b)
  BY ConnectFacts
<1> HIDE DEF g
<1>2. PICK i, j :
        /\ a # b => /\ GatesTo(g, a, b) = GatesTo(f, a, b) \union {i}
                    /\ GatesTo(g, b, a) = GatesTo(f, b, a) \union {j}
        /\ a = b => GatesTo(g, a, a) = (GatesTo(f, a, a) \union {i}) \union {j}
  BY <1>1 DEF GateMore
<1>3. /\ GatesTo(f, a, b) \union {i} \subseteq GatesTo(g, a, b)
      /\ GatesTo(f, b, a) \union {j} \subseteq GatesTo(g, b, a)
  <2>1. CASE a = b
    BY <1>2, <2>1
  <2>2. CASE a # b
    BY <1>2, <2>2
  <2>. QED  BY <2>1, <2>2
<1>4. LinkedBothWays(g, <<a, b>>)
  BY <1>3 DEF LinkedBothWays
<1>5. ASSUME NEW n \in Nodes, NEW m \in Nodes PROVE GatesTo(f, n, m) \subseteq GatesTo(g, n, m)
  <2>1. CASE n = a /\ m = b
    BY <1>3, <2>1
  <2>2. CASE n = b /\ m = a
    BY <1>3, <2>2
  <2>3. CASE ~((n = a /\ m = b) \/ (n = b /\ m = a))
    BY <1>1, <2>3 DEF OthersKept
  <2>. QED  BY <2>1, <2>2, <2>3
<1>. QED  BY <1>4, <1>5 DEF g

(* The links that setUpSimulation makes stay until it ends.                *)
LEMMA SetUpSimulationLinks ==
  ASSUME NEW f, FabricInv(f, {}, {}), NoInterfaces(f)
  PROVE  GridLinked(SetUpSimulation(f))
<1>1. PICK pairs, w : SetUpLoop(f, pairs, w)
  BY SetUpSimulationLoop
<1>2. /\ Changeable(f, {}, {}, pairs, Range(pairs)) /\ Range(pairs) = FixedLinks /\ Len(pairs) \in Nat
      /\ SetUpSimulation(f) = ChangeLinks(f, pairs, Range(pairs))
  BY <1>1 DEF SetUpLoop
<1>3. PICK h : Stepwise(f, pairs, Range(pairs), {}, {}, h)
  BY <1>2, ChangeLinksStepwise
<1>4. DOMAIN pairs = 1 .. Len(pairs)
  BY <1>2 DEF Changeable
<1>5. \A e : e \in Range(pairs) <=> \E k \in 1 .. Len(pairs) : pairs[k] = e
  BY <1>4 DEF Range
<1> DEFINE linked(k) == \A l \in 1 .. k : LinkedBothWays(h[k], pairs[l])
<1>6. ASSUME NEW k \in 1 .. Len(pairs), linked(k - 1) PROVE linked(k)
  <2> DEFINE p == pairs[k]
             c == h[k - 1]
  <2>1. p \in FixedLinks
    BY <1>2, <1>5
  <2>2. /\ p = <<p[1], p[2]>> /\ <<p[1], p[2]>> \in Wires \union GridPairs
        /\ p[1] \in Nodes /\ p[2] \in Nodes
    <3>1. p \in Wires \union GridPairs
      BY <2>1, FixedKinds DEF FixedLinks
    <3>2. p = <<p[1], p[2]>>
      BY <3>1 DEF Wires, GridPairs
    <3>3. ConnectModule \in [EndUsers -> GroundStations]
      BY FabricAssumption
    <3>4. p[1] \in Nodes /\ p[2] \in Nodes
      BY <3>1, <3>3 DEF Wires, GridPairs, Nodes, Routers, Endpoints
    <3>. QED  BY <3>1, <3>2, <3>4
  <2>3. h[k] = CreateLink(c, p)
    BY <1>3, <1>5 DEF Stepwise, Unrolled
  <2>4. c \in Fabrics
    <3>1. k - 1 \in 0 .. Len(pairs)
      BY <1>2
    <3>. QED  BY <1>3, <3>1 DEF Stepwise, Changed, FabricInv
  <2>5. h[k] = Connect(c, p[1], p[2])
    BY <2>2, <2>3, CreateWired
  <2>6. \A l \in 1 .. k - 1 : LinkedBothWays(c, pairs[l])
    BY <1>6
  <2>7. \A l \in 1 .. k : l \in 1 .. k - 1 \/ l = k
    BY <1>2
  <2>8. \A l \in 1 .. k : pairs[l][1] \in Nodes /\ pairs[l][2] \in Nodes
    <3> SUFFICES ASSUME NEW l \in 1 .. k PROVE pairs[l][1] \in Nodes /\ pairs[l][2] \in Nodes
      OBVIOUS
    <3>1. l \in 1 .. Len(pairs)
      BY <1>2
    <3>2. pairs[l] \in Wires \union GridPairs
      BY <1>2, <1>5, <3>1, FixedKinds DEF FixedLinks
    <3>3. ConnectModule \in [EndUsers -> GroundStations]
      BY FabricAssumption
    <3>. QED  BY <3>2, <3>3 DEF Wires, GridPairs, Nodes, Routers, Endpoints
  <2> HIDE DEF c, p
  <2>9. /\ \A n, m \in Nodes : GatesTo(c, n, m) \subseteq GatesTo(h[k], n, m)
        /\ LinkedBothWays(h[k], p)
    BY <2>2, <2>4, <2>5, ConnectLinks
  <2> SUFFICES ASSUME NEW l \in 1 .. k PROVE LinkedBothWays(h[k], pairs[l])
    OBVIOUS
  <2>10. CASE l = k
    BY <2>9, <2>10 DEF p
  <2>11. CASE l \in 1 .. k - 1
    <3>1. LinkedBothWays(c, pairs[l])
      BY <2>6, <2>11
    <3>. QED  BY <2>8, <2>9, <3>1 DEF LinkedBothWays
  <2>. QED  BY <2>7, <2>10, <2>11
<1>7. linked(Len(pairs))
  <2> DEFINE bad == {k \in 0 .. Len(pairs) : ~linked(k)}
  <2> SUFFICES ASSUME bad # {} PROVE FALSE
    BY <1>2
  <2>1. PICK n \in bad : \A x \in bad : n <= x
    <3>1. bad \subseteq Nat
      BY <1>2
    <3> HIDE DEF bad
    <3>. QED  BY <3>1, LeastElement
  <2>2. n \in 0 .. Len(pairs) /\ ~linked(n)
    BY <2>1
  <2>3. linked(0)
    OBVIOUS
  <2> HIDE DEF linked
  <2>4. n \in 1 .. Len(pairs) /\ n - 1 \in 0 .. Len(pairs) /\ ~(n <= n - 1)
    BY <1>2, <2>2, <2>3
  <2>5. linked(n - 1)
    BY <2>1, <2>4
  <2>. QED  BY <1>6, <2>2, <2>4, <2>5
<1>8. h[Len(pairs)] = SetUpSimulation(f)
  BY <1>2, <1>3 DEF Stepwise, Unrolled
<1> SUFFICES ASSUME NEW p \in Range(InterSatelliteLinks) PROVE LinkedBothWays(SetUpSimulation(f), p)
  BY DEF GridLinked
<1>9. p \in Range(pairs)
  BY <1>2 DEF FixedLinks
<1>. QED  BY <1>5, <1>7, <1>8, <1>9

(* No later link disturbs them.                                            *)
LEMMA GridKept ==
  ASSUME NEW f, NEW g, NEW S, S \subseteq SkyPairs, GatesKept(f, g, S), GridLinked(f)
  PROVE  GridLinked(g)
<1> SUFFICES ASSUME NEW p \in Range(InterSatelliteLinks) PROVE LinkedBothWays(g, p)
  BY DEF GridLinked
<1>1. <<p[1], p[2]>> \in GridPairs /\ <<p[2], p[1]>> \in GridPairs /\ p[1] \in Nodes /\ p[2] \in Nodes
  BY FixedKinds DEF GridPairs, Nodes, Routers
<1>2. ~Joined(S, p[1], p[2]) /\ ~Joined(S, p[2], p[1])
  BY <1>1, SkyKinds DEF Joined
<1>3. LinkedBothWays(f, p)
  BY DEF GridLinked
<1>. QED  BY <1>1, <1>2, <1>3 DEF GatesKept, LinkedBothWays

-----------------------------------------------------------------------------
(* The events.                                                             *)

(* The invariant between events: the fabric is as its links ask for, none  *)
(* of them is unfinished, and the endpoint tables tell where they are.     *)
RestInv ==
  /\ started \in BOOLEAN /\ Room(fabric)
  /\ groundStationLinks \in SUBSET GroundStationPairs
  /\ userTerminalLinks \in TerminalTables
  /\ endpointTable \in Tables
  /\ ~started => /\ fabric = Unconnected /\ groundStationLinks = {}
                 /\ TerminalLinks(userTerminalLinks) = {}
  /\ started => /\ FabricInv(fabric, LinksOf(groundStationLinks, userTerminalLinks), {})
                /\ TablesCurrent(fabric, userTerminalLinks, endpointTable)
                /\ GridLinked(fabric)

LEMMA InitKeeps == Init => RestInv
<1> SUFFICES ASSUME Init PROVE RestInv
  OBVIOUS
<1>1. userTerminalLinks \in TerminalTables
  BY DEF Init, TerminalTables
<1>2. TerminalLinks(userTerminalLinks) = {}
  BY DEF Init, TerminalLinks
<1>3. endpointTable \in Tables
  BY DEF Init, Tables, Detached, NoInterface
<1>4. Room(fabric)
  BY UnconnectedFits DEF Init
<1>. QED  BY <1>1, <1>2, <1>3, <1>4 DEF Init, RestInv

LEMMA StartSimulationKeeps == RestInv /\ StartSimulation => RestInv'
<1> SUFFICES ASSUME RestInv, StartSimulation PROVE RestInv'
  OBVIOUS
<1>1. PICK reachable \in SUBSET (GroundStations \X Satellites),
           links \in [UserTerminals -> Satellites \union {Free}] :
        LET created == TerminalLinks(links)
            wired   == SetUpGSLinks(SetUpSimulation(fabric), groundStationLinks, reachable)
            ready   == SetUpInterfaces(CreateUserTerminalLinks(wired, created))
            final   == IF created # {} THEN FinalizeUserTerminalLinks(ready, links) ELSE ready
        IN
        /\ ~started
        /\ started' = TRUE
        /\ fabric' = FillNextHopInterfaceMap(final)
        /\ groundStationLinks' = reachable
        /\ userTerminalLinks' = links
        /\ endpointTable' = EndpointTables(fabric')
  BY DEF StartSimulation
<1> DEFINE created == TerminalLinks(links)
           laid    == SetUpSimulation(fabric)
           wired   == SetUpGSLinks(laid, groundStationLinks, reachable)
           linked  == CreateUserTerminalLinks(wired, created)
           ready   == SetUpInterfaces(linked)
           final   == IF created # {} THEN FinalizeUserTerminalLinks(ready, links) ELSE ready
           filled  == FillNextHopInterfaceMap(final)
<1>2. /\ ~started /\ started' = TRUE
      /\ fabric' = filled /\ groundStationLinks' = reachable /\ userTerminalLinks' = links
      /\ endpointTable' = EndpointTables(fabric')
  BY <1>1
<1>3. /\ fabric = Unconnected /\ groundStationLinks = {} /\ TerminalLinks(userTerminalLinks) = {}
      /\ userTerminalLinks \in TerminalTables
  BY <1>2 DEF RestInv
<1>4. reachable \in SUBSET GroundStationPairs /\ links \in TerminalTables
  BY DEF GroundStationPairs, TerminalTables
<1>5. /\ FabricInv(laid, FixedLinks, FixedLinks) /\ NoInterfaces(laid) /\ Room(laid)
      /\ GridLinked(laid)
  BY <1>3, UnconnectedInv, SetUpSimulationKeeps, SetUpSimulationFits, SetUpSimulationLinks
<1> HIDE DEF laid
<1>6. /\ FabricInv(wired, LinksOf(reachable, userTerminalLinks),
                    FixedLinks \union (reachable \ groundStationLinks))
      /\ wired.ppp = laid.ppp /\ Room(wired) /\ GridLinked(wired)
  <2>1. LinksOf(groundStationLinks, userTerminalLinks) = FixedLinks
    BY <1>3 DEF LinksOf
  <2>2. FabricInv(laid, LinksOf(groundStationLinks, userTerminalLinks), FixedLinks)
    BY <1>5, <2>1
  <2>3. groundStationLinks \in SUBSET GroundStationPairs /\ FixedLinks \intersect groundStationLinks = {}
    BY <1>3
  <2>4. reachable \in SUBSET GroundStationPairs /\ userTerminalLinks \in TerminalTables
    BY <1>3, <1>4
  <2>5. GroundStationsMoved(laid, FixedLinks, groundStationLinks, reachable, userTerminalLinks)
    BY <2>2, <2>3, <2>4, SetUpGSLinksKeeps
  <2>6. Room(wired)
    BY <1>5, <2>2, <2>3, <2>4, SetUpGSLinksFits
  <2> DEFINE S == (groundStationLinks \ reachable) \union (reachable \ groundStationLinks)
  <2>7. GatesKept(laid, wired, S)
    BY <2>5 DEF GroundStationsMoved
  <2>8. S \subseteq SkyPairs
    BY <2>3, <2>4, PairsDisjoint
  <2> HIDE DEF S
  <2>9. GridLinked(wired)
    <3> HIDE DEF wired
    <3>. QED  BY <1>5, <2>7, <2>8, GridKept
  <2>. QED  BY <2>5, <2>6, <2>9 DEF GroundStationsMoved
<1>7. LinksOf(reachable, userTerminalLinks) = FixedLinks \union reachable
      /\ FixedLinks \union (reachable \ groundStationLinks) = FixedLinks \union reachable
  BY <1>3 DEF LinksOf
<1>8. FabricInv(wired, FixedLinks \union reachable, FixedLinks \union reachable)
  BY <1>6, <1>7
<1> HIDE DEF wired
<1>9. /\ created \subseteq SkyPairs /\ created \intersect (FixedLinks \union reachable) = {}
      /\ (FixedLinks \union reachable) \union created = LinksOf(reachable, links)
  BY <1>4, PairsDisjoint DEF LinksOf
<1>10. FabricInv(linked, LinksOf(reachable, links), LinksOf(reachable, links)) /\ linked.ppp = wired.ppp
       /\ Room(linked) /\ GridLinked(linked)
  <2> HIDE DEF created
  <2>1. /\ FabricInv(linked, (FixedLinks \union reachable) \union created,
                             (FixedLinks \union reachable) \union created)
        /\ linked.ppp = wired.ppp /\ GatesKept(wired, linked, created)
    BY <1>8, <1>9, CreateUserTerminalLinksKeeps
  <2>2. AtMostOne((FixedLinks \union reachable) \union created)
    BY <1>4, <1>9, TerminalLinksOnce
  <2>3. Room(linked)
    BY <1>6, <1>8, <1>9, <2>2, CreateUserTerminalLinksFits
  <2>4. GridLinked(linked)
    <3> HIDE DEF linked
    <3>. QED  BY <1>6, <1>9, <2>1, GridKept
  <2>. QED  BY <1>9, <2>1, <2>3, <2>4
<1> HIDE DEF linked
<1>11. NoInterfaces(linked)
  BY <1>5, <1>6, <1>10 DEF NoInterfaces
<1>12. AllUp(linked, ready)
  BY <1>10, <1>11, SetUpInterfacesAllUp
<1> HIDE DEF ready
<1>13. AllUp(linked, FinalizeUserTerminalLinks(ready, links))
  <2>1. TerminalLinks(links) \subseteq LinksOf(reachable, links)
    BY DEF LinksOf
  <2>. QED  BY <1>10, <1>12, <2>1, FinalizeAllUp
<1>14. AllUp(linked, final)
  BY <1>12, <1>13
<1> HIDE DEF final
<1>15. FabricInv(filled, LinksOf(reachable, links), {}) /\ Room(filled) /\ GridLinked(filled)
  <2>1. FabricInv(filled, LinksOf(reachable, links), {})
    BY <1>10, <1>11, <1>14, FillKeeps
  <2>2. filled.gate = linked.gate
    BY <1>14, FillFacts DEF AllUp, Filled
  <2> HIDE DEF filled
  <2>3. GridLinked(filled)
    BY <1>10, <2>2 DEF GridLinked, LinkedBothWays, GatesTo
  <2>. QED  BY <1>10, <2>1, <2>2, <2>3, SameRoom
<1> HIDE DEF filled
<1>16. EndpointTables(filled) \in Tables /\ TablesCurrent(filled, links, EndpointTables(filled))
  BY <1>4, <1>15, TablesAreCurrent
<1>17. endpointTable' = EndpointTables(filled)
  BY <1>2
<1>. QED  BY <1>2, <1>4, <1>15, <1>16, <1>17 DEF RestInv

LEMMA SameTable ==
  ASSUME NEW utl \in TerminalTables, NEW links \in TerminalTables,
         Lost(utl, links) = {}, Created(utl, links) = {}
  PROVE  links = utl
<1>1. TerminalLinks(utl) = TerminalLinks(links)
  BY DEF Lost, Created
<1>2. ASSUME NEW ut \in UserTerminals PROVE links[ut] = utl[ut]
  <2>1. utl[ut] # Free <=> <<ut, utl[ut]>> \in TerminalLinks(utl)
    BY DEF TerminalLinks
  <2>2. links[ut] # Free <=> <<ut, links[ut]>> \in TerminalLinks(links)
    BY DEF TerminalLinks
  <2>3. \A x : <<ut, x>> \in TerminalLinks(utl) => x = utl[ut]
    BY DEF TerminalLinks
  <2>4. \A x : <<ut, x>> \in TerminalLinks(links) => x = links[ut]
    BY DEF TerminalLinks
  <2>. QED  BY <1>1, <2>1, <2>2, <2>3, <2>4
<1>. QED  BY <1>2 DEF TerminalTables

(* What both timers do to the links: before them, f is the fabric with the *)
(* ground-station links S changed.                                         *)
LEMMA RefreshLinksKeeps ==
  ASSUME RestInv, started, NEW reachable \in SUBSET GroundStationPairs, NEW links \in TerminalTables,
         NEW f, NEW N, N \subseteq GroundStationPairs,
         FabricInv(f, LinksOf(reachable, userTerminalLinks), N),
         NEW S, S \subseteq GroundStationPairs, GatesKept(fabric, f, S), Room(f),
         RefreshLinks(f, links)
  PROVE  /\ FabricInv(fabric', LinksOf(reachable, links), {}) /\ Room(fabric')
         /\ endpointTable' \in Tables /\ TablesCurrent(fabric', links, endpointTable')
         /\ userTerminalLinks' = links
         /\ GatesKept(fabric, fabric', S \union Lost(userTerminalLinks, links)
                                          \union Created(userTerminalLinks, links))
<1> DEFINE lost      == Lost(userTerminalLinks, links)
           created   == Created(userTerminalLinks, links)
           refreshed == CreateUserTerminalLinks(RemoveUserTerminalLinks(f, lost), created)
           ready     == AddPPPInterfaces(refreshed)
           g         == IF created # {} THEN FinalizeUserTerminalLinks(ready, links) ELSE ready
<1>1. /\ fabric' = g /\ userTerminalLinks' = links
      /\ endpointTable' = IF created # {} THEN EndpointTables(fabric')
                          ELSE IF lost # {} THEN EndpointTables(refreshed)
                          ELSE endpointTable
  BY DEF RefreshLinks, Lost, Created
<1>2. /\ userTerminalLinks \in TerminalTables /\ endpointTable \in Tables
      /\ TablesCurrent(fabric, userTerminalLinks, endpointTable)
  BY DEF RestInv
<1>3. /\ FabricInv(refreshed, LinksOf(reachable, links), N \union created)
      /\ GatesKept(f, refreshed, lost \union created) /\ Room(refreshed)
  BY <1>2, RefreshedKeeps, RefreshedFits
<1> HIDE DEF refreshed
<1>4. FabricInv(g, LinksOf(reachable, links), {}) /\ g.gate = refreshed.gate
  <2>1. FabricInv(refreshed, LinksOf(reachable, links), N \union Created(userTerminalLinks, links))
    BY <1>3
  <2>2. g = Settle(refreshed, userTerminalLinks, links)
    BY DEF Settle
  <2> HIDE DEF g
  <2>. QED  BY <1>2, <2>1, <2>2, SettledKeeps, ZenonT(30)
<1> HIDE DEF g, lost, created
<1>5. \A n, m : GatesTo(g, n, m) = GatesTo(refreshed, n, m)
  BY <1>4 DEF GatesTo
<1>6. GatesKept(fabric, g, S \union lost \union created)
  BY <1>3, <1>5 DEF GatesKept, Joined
<1>7. endpointTable' \in Tables /\ TablesCurrent(g, links, endpointTable')
  <2>1. CASE created # {}
    <3>1. endpointTable' = EndpointTables(g)
      BY <1>1, <2>1
    <3>. QED  BY <1>4, <3>1, TablesAreCurrent
  <2>2. CASE created = {} /\ lost # {}
    <3>1. endpointTable' = EndpointTables(refreshed)
      BY <1>1, <2>2
    <3>2. N \union created = N
      BY <2>2
    <3>3. EndpointTables(refreshed) \in Tables /\ TablesCurrent(refreshed, links, EndpointTables(refreshed))
      BY <1>3, <3>2, TablesAreCurrent
    <3>4. GatesKept(refreshed, g, {}) /\ \A n, m : ~Joined({}, n, m)
      BY <1>5 DEF GatesKept, Joined
    <3>. QED  BY <3>1, <3>3, <3>4, TablesKept
  <2>3. CASE created = {} /\ lost = {}
    <3>1. endpointTable' = endpointTable
      BY <1>1, <2>3
    <3>2. links = userTerminalLinks
      BY <1>2, <2>3, SameTable DEF lost, created
    <3>3. S \union lost \union created = S
      BY <2>3
    <3>4. GatesKept(fabric, g, S)
      BY <1>6, <3>3
    <3>5. \A e \in Endpoints : \A n \in Nodes : ~Joined(S, e, n) /\ ~Joined(S, n, e)
      <4>1. (Satellites \union GroundStations) \intersect Endpoints = {}
        BY FabricAssumption DEF Routers
      <4>. QED  BY <4>1 DEF Joined, GroundStationPairs
    <3>6. TablesCurrent(g, userTerminalLinks, endpointTable)
      BY <1>2, <3>4, <3>5, TablesKept
    <3>. QED  BY <1>2, <3>1, <3>2, <3>6
  <2>. QED  BY <2>1, <2>2, <2>3
<1>8. Room(g)
  BY <1>3, <1>4, SameRoom
<1>. QED  BY <1>1, <1>4, <1>6, <1>7, <1>8 DEF lost, created

(* What a timer does, in the words of the lemma above.                     *)
TimerStep(reachable, links, S) ==
  /\ started /\ started' = started
  /\ reachable \in SUBSET GroundStationPairs /\ links \in TerminalTables
  /\ groundStationLinks' = reachable /\ userTerminalLinks' = links
  /\ S = (groundStationLinks \ reachable) \union (reachable \ groundStationLinks)
  /\ FabricInv(fabric', LinksOf(reachable, links), {}) /\ Room(fabric')
  /\ endpointTable' \in Tables /\ TablesCurrent(fabric', links, endpointTable')
  /\ GatesKept(fabric, fabric', S \union Lost(userTerminalLinks, links)
                                  \union Created(userTerminalLinks, links))

LEMMA HandleUpdateTimerStep ==
  ASSUME RestInv, HandleUpdateTimer
  PROVE  \E reachable, links, S : TimerStep(reachable, links, S)
<1>1. PICK reachable \in SUBSET (GroundStations \X Satellites), links \in HardHandovers :
        /\ started
        /\ RefreshLinks(SetUpGSLinks(fabric, groundStationLinks, reachable), links)
        /\ groundStationLinks' = reachable
        /\ UNCHANGED started
  BY DEF HandleUpdateTimer
<1> DEFINE f == SetUpGSLinks(fabric, groundStationLinks, reachable)
           S == (groundStationLinks \ reachable) \union (reachable \ groundStationLinks)
           N == {} \union (reachable \ groundStationLinks)
<1>2. reachable \in SUBSET GroundStationPairs /\ links \in TerminalTables
  BY DEF GroundStationPairs, TerminalTables, HardHandovers
<1>3. /\ groundStationLinks \in SUBSET GroundStationPairs /\ userTerminalLinks \in TerminalTables
      /\ FabricInv(fabric, LinksOf(groundStationLinks, userTerminalLinks), {}) /\ Room(fabric)
  BY <1>1 DEF RestInv
<1>4. FabricInv(f, LinksOf(reachable, userTerminalLinks), N) /\ GatesKept(fabric, f, S) /\ Room(f)
  <2>1. {} \intersect groundStationLinks = {}
    OBVIOUS
  <2>2. GroundStationsMoved(fabric, {}, groundStationLinks, reachable, userTerminalLinks)
    BY <1>2, <1>3, <2>1, SetUpGSLinksKeeps
  <2>3. Room(f)
    BY <1>2, <1>3, <2>1, SetUpGSLinksFits
  <2>. QED  BY <2>2, <2>3 DEF GroundStationsMoved
<1>5. N \subseteq GroundStationPairs /\ S \subseteq GroundStationPairs
  BY <1>2, <1>3
<1>6. RefreshLinks(f, links)
  BY <1>1
<1> HIDE DEF f, N
<1>7. /\ FabricInv(fabric', LinksOf(reachable, links), {}) /\ Room(fabric')
      /\ endpointTable' \in Tables /\ TablesCurrent(fabric', links, endpointTable')
      /\ userTerminalLinks' = links
      /\ GatesKept(fabric, fabric', S \union Lost(userTerminalLinks, links)
                                      \union Created(userTerminalLinks, links))
  <2> HIDE DEF S
  <2>. QED  BY <1>1, <1>2, <1>4, <1>5, <1>6, RefreshLinksKeeps
<1>8. TimerStep(reachable, links, S)
  BY <1>1, <1>2, <1>7 DEF TimerStep
<1>. QED  BY <1>8

LEMMA HandleHandoverTimerStep ==
  ASSUME RestInv, HandleHandoverTimer
  PROVE  \E reachable, links, S : TimerStep(reachable, links, S)
<1>1. PICK links \in HardHandovers :
        /\ started
        /\ RefreshLinks(fabric, links)
        /\ UNCHANGED <<groundStationLinks, started>>
  BY DEF HandleHandoverTimer
<1>2. links \in TerminalTables
  BY DEF TerminalTables, HardHandovers
<1>3. /\ groundStationLinks \in SUBSET GroundStationPairs /\ userTerminalLinks \in TerminalTables
      /\ FabricInv(fabric, LinksOf(groundStationLinks, userTerminalLinks), {}) /\ Room(fabric)
  BY <1>1 DEF RestInv
<1>4. GatesKept(fabric, fabric, {}) /\ {} \subseteq GroundStationPairs
  BY DEF GatesKept
<1>5. /\ FabricInv(fabric', LinksOf(groundStationLinks, links), {}) /\ Room(fabric')
      /\ endpointTable' \in Tables /\ TablesCurrent(fabric', links, endpointTable')
      /\ userTerminalLinks' = links
      /\ GatesKept(fabric, fabric', {} \union Lost(userTerminalLinks, links)
                                       \union Created(userTerminalLinks, links))
  BY <1>1, <1>2, <1>3, <1>4, RefreshLinksKeeps
<1>6. {} = (groundStationLinks \ groundStationLinks) \union (groundStationLinks \ groundStationLinks)
  OBVIOUS
<1>7. TimerStep(groundStationLinks, links, {})
  BY <1>1, <1>2, <1>3, <1>5, <1>6 DEF TimerStep
<1>. QED  BY <1>7

LEMMA TimerStepKeeps ==
  ASSUME RestInv, NEW reachable, NEW links, NEW S, TimerStep(reachable, links, S)
  PROVE  RestInv'
<1> DEFINE moved == S \union Lost(userTerminalLinks, links) \union Created(userTerminalLinks, links)
<1>1. moved \subseteq SkyPairs
  BY PairsDisjoint DEF TimerStep, RestInv, Lost, Created
<1>2. GatesKept(fabric, fabric', moved) /\ GridLinked(fabric)
  BY DEF TimerStep, RestInv
<1> HIDE DEF moved
<1>3. GridLinked(fabric')
  BY <1>1, <1>2, GridKept
<1>. QED  BY <1>3 DEF TimerStep, RestInv

LEMMA NextKeeps == RestInv /\ [Next]_fabricVars => RestInv'
<1> SUFFICES ASSUME RestInv, [Next]_fabricVars PROVE RestInv'
  OBVIOUS
<1>1. CASE StartSimulation
  BY <1>1, StartSimulationKeeps
<1>2. CASE HandleUpdateTimer
  BY <1>2, HandleUpdateTimerStep, TimerStepKeeps
<1>3. CASE HandleHandoverTimer
  BY <1>3, HandleHandoverTimerStep, TimerStepKeeps
<1>4. CASE UNCHANGED fabricVars
  BY <1>4 DEF RestInv, fabricVars
<1>. QED  BY <1>1, <1>2, <1>3, <1>4 DEF Next

LEMMA AlwaysRest == Spec => []RestInv
BY InitKeeps, NextKeeps, PTL DEF Spec

-----------------------------------------------------------------------------
(* Theorems.                                                               *)

(* The invariant says more of every fabric than the ranges of its parts,   *)
(* and it holds of the fabric without links, before the simulation starts. *)
LEMMA FabricAlways ==
  ASSUME RestInv
  PROVE  \E L : FabricInv(fabric, L, {})
<1>1. CASE started
  BY <1>1 DEF RestInv
<1>2. CASE ~started
  BY <1>2, UnconnectedInv DEF RestInv
<1>. QED  BY <1>1, <1>2

(* Type correctness: whatever links the sky asks for, every node's running *)
(* interfaces and those with an address are among the ones that            *)
(* updatePPPModules has given it.                                          *)
THEOREM Typed == Spec => []TypeOK
<1>1. RestInv => TypeOK
  <2> SUFFICES ASSUME RestInv PROVE TypeOK
    OBVIOUS
  <2>1. PICK L : FabricInv(fabric, L, {})
    BY FabricAlways
  <2>2. /\ fabric.gate \in [Nodes -> Seq(Nodes \union {Free})] /\ fabric.ppp \in [Nodes -> Nat]
        /\ fabric.nextHopInterface \in [Nodes -> [Nodes -> Nat]] /\ fabric.dirtyPppModules \subseteq Nodes
    BY <2>1 DEF FabricInv, Fabrics
  <2>3. \A n \in Nodes : /\ fabric.up[n] \subseteq 1 .. fabric.ppp[n]
                         /\ fabric.routerId[n] \subseteq 1 .. fabric.ppp[n]
    BY <2>1 DEF FabricInv, InterfacesOK
  <2>4. /\ groundStationLinks \subseteq GroundStations \X Satellites
        /\ userTerminalLinks \in [UserTerminals -> Satellites \union {Free}]
        /\ endpointTable \in [Endpoints -> [node: Routers \union {Free}, attachment: Nat, uplink: Nat]]
    BY DEF RestInv, GroundStationPairs, TerminalTables, Tables
  <2>. QED  BY <2>2, <2>3, <2>4 DEF TypeOK
<1>. QED  BY <1>1, AlwaysRest, PTL

LEMMA InterfacesAtRest == RestInv => InterfacesFollowGates
<1> SUFFICES ASSUME RestInv, started, NEW n \in Nodes
             PROVE  LET connected == {i \in DOMAIN fabric.gate[n] : fabric.gate[n][i] # Free} IN
                    /\ fabric.ppp[n] = Len(fabric.gate[n])
                    /\ fabric.up[n] = connected
                    /\ fabric.routerId[n] = connected
  BY DEF InterfacesFollowGates
<1>1. fabric \in Fabrics /\ InterfacesOK(fabric, {}) /\ NewOK(fabric, {})
  BY DEF RestInv, FabricInv
<1>2. fabric.gate[n] \in Seq(Nodes \union {Free}) /\ fabric.ppp[n] \in Nat
  BY <1>1 DEF Fabrics
<1>3. DOMAIN fabric.gate[n] = 1 .. Len(fabric.gate[n]) /\ Len(fabric.gate[n]) \in Nat
  BY <1>2
<1>4. \A i \in 1 .. Len(fabric.gate[n]) : ~(i > fabric.ppp[n])
  BY <1>1 DEF NewOK, Joined
<1>5. fabric.ppp[n] <= Len(fabric.gate[n])
  BY <1>1 DEF InterfacesOK
<1>6. fabric.ppp[n] = Len(fabric.gate[n])
  <2> SUFFICES ASSUME fabric.ppp[n] < Len(fabric.gate[n]) PROVE FALSE
    BY <1>2, <1>3, <1>5
  <2>1. Len(fabric.gate[n]) \in 1 .. Len(fabric.gate[n]) /\ Len(fabric.gate[n]) > fabric.ppp[n]
    BY <1>2, <1>3
  <2>. QED  BY <1>4, <2>1
<1>7. /\ fabric.up[n] \subseteq 1 .. fabric.ppp[n] /\ fabric.routerId[n] \subseteq 1 .. fabric.ppp[n]
      /\ \A i \in 1 .. fabric.ppp[n] :
           /\ fabric.gate[n][i] = Free => i \notin fabric.up[n] /\ i \notin fabric.routerId[n]
           /\ fabric.gate[n][i] # Free => i \in fabric.up[n] /\ i \in fabric.routerId[n]
  BY <1>1 DEF InterfacesOK, Pending, Joined
<1>. QED  BY <1>3, <1>6, <1>7

(* After every event the interface of a gate runs, and the configurator    *)
(* knows its address, exactly while a link is plugged into the gate: what  *)
(* removeGroundStationLink and removeUserTerminalLink crash and forget, and *)
(* what the three ways to start an interface again bring back.             *)
THEOREM InterfacesFollow == Spec => []InterfacesFollowGates
BY InterfacesAtRest, AlwaysRest, PTL

(* Between two routers the next-hop matrix of the configurator never names *)
(* an interface that leads elsewhere, and never misses a link: ground      *)
(* stations that gates were reused for included.                           *)
THEOREM MatrixCurrent == Spec => []NextHopMatrixCurrent
<1>1. RestInv => NextHopMatrixCurrent
  <2> SUFFICES ASSUME RestInv, started, NEW n \in Routers, NEW m \in Routers
               PROVE  IF GatesTo(fabric, n, m) = {} THEN fabric.nextHopInterface[n][m] = NoInterface
                      ELSE fabric.nextHopInterface[n][m] \in GatesTo(fabric, n, m)
    BY DEF NextHopMatrixCurrent
  <2>1. fabric \in Fabrics /\ MatrixOK(fabric) /\ NewOK(fabric, {})
    BY DEF RestInv, FabricInv
  <2>2. fabric.gate[n] \in Seq(Nodes \union {Free}) /\ n \in Nodes
    BY <2>1 DEF Fabrics, Nodes
  <2>3. \A i \in GatesTo(fabric, n, m) : ~(i > fabric.ppp[n])
    <3>1. GatesTo(fabric, n, m) \subseteq 1 .. Len(fabric.gate[n])
      BY <2>2 DEF GatesTo
    <3>2. \A i \in 1 .. Len(fabric.gate[n]) : ~(i > fabric.ppp[n])
      BY <2>1, <2>2 DEF NewOK, Joined
    <3>. QED  BY <3>1, <3>2
  <2>. QED  BY <2>1, <2>3 DEF MatrixOK
<1>. QED  BY <1>1, AlwaysRest, PTL

(* setGroundStationsWithEndpoints is called on too few paths to recompute  *)
(* the tables after every event, but they never name a satellite that has  *)
(* handed the terminal over, nor an interface of another link.             *)
THEOREM TablesStayCurrent == Spec => []EndpointTablesCurrent
<1>1. RestInv => EndpointTablesCurrent
  BY DEF RestInv, TablesCurrent, TableCurrent, AttachmentOf, EndpointTablesCurrent
<1>. QED  BY <1>1, AlwaysRest, PTL

(* getNextFreeGate makes a gate only at a node without a free one, and all *)
(* gates of such a node lead to different peers, but for the links of the  *)
(* grid. So no sequence of links made and removed gives a node more gates  *)
(* than it has peers, and a user terminal never has a second one.          *)
THEOREM GatesAreReused == Spec => []GatesReused
<1>1. RestInv => GatesReused
  <2> SUFFICES ASSUME RestInv PROVE GatesReused
    OBVIOUS
  <2>1. \A n \in Nodes : Len(fabric.gate[n]) <= Places(n)
    BY DEF RestInv, Room, Fits
  <2>. QED  BY <2>1 DEF GatesReused, Places
<1>. QED  BY <1>1, AlwaysRest, PTL

(* An event moves no link from one gate to another: a pair that is linked  *)
(* before and after it, and so not touched by it, keeps the gates of both  *)
(* ends, and with them interfaces, queues and addresses.                   *)
THEOREM LinksUndisturbed == Spec => SurvivingLinksUndisturbed
<1> DEFINE Kept == \A p \in LinkedPairs \intersect LinkedPairs' :
                     /\ GatesTo(fabric, p[1], p[2]) = GatesTo(fabric', p[1], p[2])
                     /\ GatesTo(fabric, p[2], p[1]) = GatesTo(fabric', p[2], p[1])
<1>1. RestInv /\ RestInv' /\ [Next]_fabricVars => [Kept]_fabricVars
  <2> SUFFICES ASSUME RestInv, Next, NEW p \in LinkedPairs, p \in LinkedPairs'
               PROVE  /\ GatesTo(fabric, p[1], p[2]) = GatesTo(fabric', p[1], p[2])
                      /\ GatesTo(fabric, p[2], p[1]) = GatesTo(fabric', p[2], p[1])
    OBVIOUS
  <2>1. CASE StartSimulation
    <3>1. ~started
      BY <2>1 DEF StartSimulation
    <3>2. LinkedPairs = {}
      BY <3>1 DEF RestInv, LinkedPairs
    <3>. QED  BY <3>2
  <2>2. ASSUME NEW reachable, NEW links, NEW S, TimerStep(reachable, links, S)
        PROVE  /\ GatesTo(fabric, p[1], p[2]) = GatesTo(fabric', p[1], p[2])
               /\ GatesTo(fabric, p[2], p[1]) = GatesTo(fabric', p[2], p[1])
    <3> DEFINE T == S \union Lost(userTerminalLinks, links) \union Created(userTerminalLinks, links)
    <3>1. /\ groundStationLinks \in SUBSET GroundStationPairs /\ userTerminalLinks \in TerminalTables
          /\ reachable \in SUBSET GroundStationPairs /\ links \in TerminalTables
          /\ S = (groundStationLinks \ reachable) \union (reachable \ groundStationLinks)
          /\ GatesKept(fabric, fabric', T)
      BY <2>2 DEF RestInv, TimerStep
    <3>2. p \in groundStationLinks \union TerminalLinks(userTerminalLinks)
      BY DEF LinkedPairs
    <3>3. p \in reachable \union TerminalLinks(links)
      <4>1. groundStationLinks' = reachable /\ userTerminalLinks' = links
        BY <2>2 DEF TimerStep
      <4>. QED  BY <4>1 DEF LinkedPairs, TerminalLinks
    <3>4. /\ TerminalLinks(userTerminalLinks) \intersect GroundStationPairs = {}
          /\ TerminalLinks(links) \intersect GroundStationPairs = {}
          /\ TerminalLinks(userTerminalLinks) \subseteq SkyPairs /\ TerminalLinks(links) \subseteq SkyPairs
          /\ GroundStationPairs \subseteq SkyPairs
      BY <3>1, PairsDisjoint
    <3>5. p \notin T /\ T \subseteq SkyPairs /\ p \in SkyPairs
      BY <3>1, <3>2, <3>3, <3>4 DEF Lost, Created
    <3> HIDE DEF T
    <3>6. /\ p = <<p[1], p[2]>> /\ p[1] \in Nodes /\ p[2] \in Nodes
          /\ p[2] \in Satellites /\ p[1] \notin Satellites
      <4>1. Satellites \intersect GroundStations = {} /\ Routers \intersect Endpoints = {}
        BY FabricAssumption
      <4>. QED  BY <3>5, <4>1 DEF SkyPairs, Nodes, Routers, Endpoints
    <3>7. <<p[2], p[1]>> \notin T
      BY <3>5, <3>6 DEF SkyPairs
    <3>8. ~Joined(T, p[1], p[2]) /\ ~Joined(T, p[2], p[1])
      BY <3>5, <3>6, <3>7 DEF Joined
    <3>. QED  BY <3>1, <3>6, <3>8 DEF GatesKept
  <2>3. CASE HandleUpdateTimer
    <3>1. PICK reachable, links, S : TimerStep(reachable, links, S)
      BY <2>3, HandleUpdateTimerStep
    <3>. QED  BY <2>2, <3>1
  <2>4. CASE HandleHandoverTimer
    <3>1. PICK reachable, links, S : TimerStep(reachable, links, S)
      BY <2>4, HandleHandoverTimerStep
    <3>. QED  BY <2>2, <3>1
  <2>. QED  BY <2>1, <2>3, <2>4 DEF Next
<1>2. Spec => [][Kept]_fabricVars
  BY <1>1, AlwaysRest, PTL DEF Spec
<1>. QED  BY <1>2 DEF SurvivingLinksUndisturbed

=============================================================================
