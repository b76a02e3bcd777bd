------------------------- MODULE StaticRoutesProofs -------------------------
(***************************************************************************)
(* The loops of StaticRoutes keep their counters and the walk on the way   *)
(* within the network, for any network and any configuration, and no       *)
(* routing table ever has two entries for one destination. With a single   *)
(* autoroute element, no route leads over a disabled link.                 *)
(***************************************************************************)
EXTENDS StaticRoutes, NaturalOrder, FiniteSetTheorems

LOCAL INSTANCE FiniteSetsExt   \* Min, as in StaticRoutes

(* Where the loops are: a source is being considered, and the walk has     *)
(* come to a node of the network, to the source by a link only.            *)
LoopOK ==
  /\ pc \in {"paths", "destination", "walk"} => i <= Len(NodeOrder)
  /\ pc = "walk" =>
       /\ j <= Len(InterfaceOrder)
       /\ node \in Nodes
       /\ node = sourceNode => link \in Links

IInv == TypeOK /\ LoopOK

-----------------------------------------------------------------------------
(* Operators.                                                              *)

(* The least element that TLC's Min finds is in the set. *)
LEMMA MinInSet ==
  ASSUME NEW S, S \subseteq Nat, S # {}
  PROVE  Min(S) \in S
BY LeastElement DEF Min

(* An element of a sequence, by its position. *)
LEMMA ElementAt ==
  ASSUME NEW T, NEW q \in Seq(T), NEW k \in DOMAIN q
  PROVE  k \in Nat /\ k \in 1 .. Len(q) /\ q[k] \in T
OBVIOUS

(* The ends of a link are nodes. *)
LEMMA LinkEnds ==
  ASSUME NEW l \in Links
  PROVE  /\ l.source \in Interfaces /\ l.destination \in Interfaces
         /\ NodeOf[l.source] \in Nodes /\ NodeOf[l.destination] \in Nodes
BY StaticRoutesAssumption DEF Links

(* A cost is found or is the default. *)
LEMMA WeightsAreNumbers ==
  ASSUME element \in DOMAIN Autoroutes, NEW l \in Links, NEW n \in Nodes
  PROVE  LinkWeight(l) \in Nat /\ NodeWeight(n) \in Nat
<1> DEFINE e  == Autoroutes[element]
           ml == {k \in DOMAIN e.links : {l.source, l.destination} \intersect e.links[k].interfaces # {}}
           mn == {k \in DOMAIN e.nodes : n \in e.nodes[k].hosts}
<1>1. e \in Element
  BY StaticRoutesAssumption
<1>2. /\ \A k \in DOMAIN e.links : k \in Nat /\ e.links[k].cost \in Nat
      /\ \A k \in DOMAIN e.nodes : k \in Nat /\ e.nodes[k].cost \in Nat
  <2>1. e.links \in Seq([interfaces: SUBSET Interfaces, cost: 1 .. Infinity])
    BY <1>1 DEF Element
  <2>2. e.nodes \in Seq([hosts: SUBSET Nodes, cost: 1 .. Infinity])
    BY <1>1 DEF Element
  <2>3. \A c \in 1 .. Infinity : c \in Nat
    BY StaticRoutesAssumption
  <2> HIDE DEF e
  <2>4. \A k \in DOMAIN e.links : k \in Nat /\ e.links[k] \in [interfaces: SUBSET Interfaces, cost: 1 .. Infinity]
    BY <2>1, ElementAt, Zenon
  <2>5. \A k \in DOMAIN e.nodes : k \in Nat /\ e.nodes[k] \in [hosts: SUBSET Nodes, cost: 1 .. Infinity]
    BY <2>2, ElementAt, Zenon
  <2>. QED  BY <2>3, <2>4, <2>5
<1>3. LinkWeight(l) \in Nat
  <2>1. CASE ml = {}
    BY <2>1 DEF LinkWeight
  <2>2. CASE ml # {}
    <3>1. Min(ml) \in ml
      BY <1>2, <2>2, MinInSet
    <3>2. LinkWeight(l) = e.links[Min(ml)].cost
      BY <2>2 DEF LinkWeight
    <3>. QED  BY <1>2, <3>1, <3>2
  <2>. QED  BY <2>1, <2>2
<1>4. NodeWeight(n) \in Nat
  <2>1. CASE mn = {}
    BY <2>1 DEF NodeWeight
  <2>2. CASE mn # {}
    <3>1. Min(mn) \in mn
      BY <1>2, <2>2, MinInSet
    <3>2. NodeWeight(n) = e.nodes[Min(mn)].cost
      BY <2>2 DEF NodeWeight
    <3>. QED  BY <1>2, <3>1, <3>2
  <2>. QED  BY <2>1, <2>2
<1>. QED  BY <1>3, <1>4

(* Shortening keeps distances between 0 and the cost "inf". *)
LEMMA DistancesAreNumbers ==
  ASSUME TypeOK, NEW s \in Nodes
  PROVE  Relaxed(s) \in [Nodes -> 0 .. Infinity]
<1>1. ASSUME NEW l \in Links PROVE DistanceBy(l, dist, s) \in 0 .. Infinity
  <2> DEFINE next == NodeOf[l.destination]
             sum  == dist[next] + LinkWeight(l) + (IF next = s THEN 0 ELSE NodeWeight(next))
  <2>1. next \in Nodes
    BY LinkEnds
  <2>2. dist[next] \in 0 .. Infinity
    BY <2>1 DEF TypeOK
  <2>3. LinkWeight(l) \in Nat /\ NodeWeight(next) \in Nat
    BY <2>1, WeightsAreNumbers DEF TypeOK
  <2>4. sum \in Nat
    BY <2>2, <2>3, StaticRoutesAssumption
  <2> HIDE DEF sum
  <2>5. DistanceBy(l, dist, s) = IF sum < Infinity THEN sum ELSE Infinity
    BY DEF DistanceBy, sum
  <2>. QED  BY <2>4, <2>5, StaticRoutesAssumption
<1> DEFINE Shortest(n) ==
             Min({dist[n]} \union {DistanceBy(l, dist, s) : l \in {m \in enabledLinks : NodeOf[m.source] = n}})
<1>2. ASSUME NEW n \in Nodes
      PROVE  Shortest(n) \in 0 .. Infinity
  <2> DEFINE D == {dist[n]} \union {DistanceBy(l, dist, s) : l \in {m \in enabledLinks : NodeOf[m.source] = n}}
  <2>1. D \subseteq 0 .. Infinity
    BY <1>1 DEF TypeOK
  <2>2. D # {}
    OBVIOUS
  <2> HIDE DEF D
  <2>3. 0 .. Infinity \subseteq Nat
    BY StaticRoutesAssumption
  <2>4. Min(D) \in D
    BY <2>1, <2>2, <2>3, MinInSet
  <2>. QED  BY <2>1, <2>4 DEF D
<1>3. Relaxed(s) = [n \in Nodes |-> Shortest(n)]
  BY DEF Relaxed
<1> HIDE DEF Shortest
<1>. QED  BY <1>2, <1>3

(* The elements of the configuration, in their order. *)
LEMMA NextElement ==
  ASSUME NEW e \in DOMAIN Autoroutes
  PROVE  /\ 1 \in DOMAIN Autoroutes
         /\ e < Len(Autoroutes) => e + 1 \in DOMAIN Autoroutes
<1>1. DOMAIN Autoroutes = 1 .. Len(Autoroutes) /\ Len(Autoroutes) \in Nat \ {0}
  BY StaticRoutesAssumption
<1>. QED  BY <1>1

(* The source node is a node while one is considered. *)
LEMMA SourceIsNode ==
  ASSUME TypeOK, i <= Len(NodeOrder)
  PROVE  sourceNode \in Nodes
BY StaticRoutesAssumption DEF TypeOK, sourceNode

(* A destination is one of the interfaces. *)
LEMMA DestinationIsInterface ==
  ASSUME TypeOK, j <= Len(InterfaceOrder)
  PROVE  /\ InterfaceOrder[j] \in Interfaces
         /\ NodeOf[InterfaceOrder[j]] \in Nodes
<1>1. j \in 1 .. Len(InterfaceOrder)
  BY StaticRoutesAssumption DEF TypeOK
<1>2. InterfaceOrder[j] \in Interfaces
  BY <1>1, StaticRoutesAssumption
<1>. QED  BY <1>2, StaticRoutesAssumption

(* The gateway of a LAN is an interface, if there is one. *)
LEMMA GatewayIsInterface ==
  ASSUME NEW lan
  PROVE  GatewayInterface(lan) \in Interfaces \union {None}
<1> DEFINE routers == {x \in Interfaces : LanOf[x] = lan /\ Cardinality(InterfacesOf(NodeOf[x])) > 1}
<1>1. CASE Cardinality(routers) = 1
  <2>1. routers # {}
    BY <1>1, FS_EmptySet
  <2>2. GatewayInterface(lan) = CHOOSE x \in routers : TRUE
    BY <1>1 DEF GatewayInterface
  <2>. QED  BY <2>1, <2>2
<1>2. CASE Cardinality(routers) # 1
  BY <1>2 DEF GatewayInterface
<1>. QED  BY <1>1, <1>2

(* The default routes of a node lead out of its one interface. *)
LEMMA DefaultRoutesType ==
  ASSUME NEW n, DefaultRouteSuffices(n)
  PROVE  DefaultRoutes(n) \in Seq(Route)
<1> DEFINE out == CHOOSE out \in InterfacesOf(n) : TRUE
           direct == [destination |-> LanOf[out], gateway |-> None, interface |-> out]
           default == [destination |-> Default, gateway |-> GatewayInterface(LanOf[out]), interface |-> out]
<1>1. out \in Interfaces
  BY DEF DefaultRouteSuffices, InterfacesOf
<1>2. LanOf[out] \in Lans
  BY <1>1 DEF Lans
<1>3. direct \in Route /\ default \in Route
  BY <1>1, <1>2, GatewayIsInterface DEF Route
<1>4. DefaultRoutes(n) = (IF par.addDirectRoutes THEN <<direct>> ELSE <<>>) \o <<default>>
  BY DEF DefaultRoutes
<1> HIDE DEF direct, default
<1>. QED  BY <1>3, <1>4

(* The route that a walk ends with. *)
LEMMA RouteType ==
  ASSUME NEW to \in Interfaces, link \in Links
  PROVE  RouteTo(to) \in Route
<1>1. LanOf[to] \in Lans
  BY DEF Lans
<1>2. link.source \in Interfaces /\ link.destination \in Interfaces
  BY LinkEnds
<1>. QED  BY <1>1, <1>2 DEF RouteTo, Route

(* Merging a route gives a table of routes, without a second entry for any *)
(* destination if there was none before.                                   *)
LEMMA MergedType ==
  ASSUME NEW table \in SUBSET Route, NEW route \in Route
  PROVE  Merged(table, route) \in SUBSET Route
BY DEF Merged, Route

LEMMA MergedOnce ==
  ASSUME NEW table \in SUBSET Route, NEW route \in Route,
         \A r, s \in table : r.destination = s.destination => r = s
  PROVE  \A r, s \in Merged(table, route) : r.destination = s.destination => r = s
<1> DEFINE same == {r \in table : r.destination = route.destination}
           renewed(r) == [r EXCEPT !.gateway = route.gateway]
<1>1. CASE same = {}
  BY <1>1 DEF Merged
<1>2. CASE same # {}
  <2>1. PICK old \in table : same = {old}
    BY <1>2
  <2>2. Merged(table, route) = (table \ {old}) \union {renewed(old)}
    BY <1>2, <2>1 DEF Merged
  <2>3. renewed(old).destination = old.destination
    BY DEF Route
  <2>. QED  BY <2>1, <2>2, <2>3
<1>. QED  BY <1>1, <1>2

-----------------------------------------------------------------------------
(* The invariant.                                                          *)

(* The start. *)
LEMMA InitIInv == Init => IInv
<1> SUFFICES ASSUME Init PROVE IInv
  OBVIOUS
<1>1. TypeOK
  BY StaticRoutesAssumption DEF Init, TypeOK
<1>2. LoopOK
  BY DEF Init, LoopOK
<1>. QED  BY <1>1, <1>2 DEF IInv

(* No counter or table leaves its range in any step.                       *)
LEMMA FilterLinksKeeps == IInv /\ FilterLinks => IInv'
BY StaticRoutesAssumption DEF IInv, TypeOK, LoopOK, FilterLinks, pathVars

LEMMA SkipSourceKeeps == IInv /\ SkipSource => IInv'
BY StaticRoutesAssumption DEF IInv, TypeOK, LoopOK, SkipSource, pathVars

LEMMA AddDefaultRoutesKeeps == IInv /\ AddDefaultRoutes => IInv'
<1> SUFFICES ASSUME IInv, AddDefaultRoutes PROVE IInv'
  OBVIOUS
<1>1. sourceNode \in Nodes
  BY SourceIsNode DEF IInv, AddDefaultRoutes
<1>2. DefaultRoutes(sourceNode) \in Seq(Route)
  BY DefaultRoutesType DEF AddDefaultRoutes
<1>3. staticRoutes[sourceNode] \o DefaultRoutes(sourceNode) \in Seq(Route)
  BY <1>1, <1>2 DEF IInv, TypeOK
<1>4. staticRoutes' \in [Nodes -> Seq(Route)]
  BY <1>3 DEF IInv, TypeOK, AddDefaultRoutes
<1>5. i' \in 1 .. Len(NodeOrder) + 1
  BY StaticRoutesAssumption DEF IInv, TypeOK, AddDefaultRoutes
<1>. QED  BY <1>4, <1>5 DEF IInv, TypeOK, LoopOK, AddDefaultRoutes, pathVars

LEMMA CalculatePathsKeeps == IInv /\ CalculatePaths => IInv'
BY StaticRoutesAssumption DEF IInv, TypeOK, LoopOK, CalculatePaths

LEMMA ShortenPathsKeeps == IInv /\ ShortenPaths => IInv'
<1> SUFFICES ASSUME IInv, ShortenPaths PROVE IInv'
  OBVIOUS
<1>1. sourceNode \in Nodes
  BY SourceIsNode DEF IInv, LoopOK, ShortenPaths
<1>2. dist' \in [Nodes -> 0 .. Infinity]
  BY <1>1, DistancesAreNumbers DEF IInv, ShortenPaths
<1>. QED  BY <1>2 DEF IInv, TypeOK, LoopOK, ShortenPaths

LEMMA SkipDestinationKeeps == IInv /\ SkipDestination => IInv'
BY DEF IInv, TypeOK, LoopOK, SkipDestination, pathVars

LEMMA StartWalkKeeps == IInv /\ StartWalk => IInv'
<1> SUFFICES ASSUME IInv, StartWalk PROVE IInv'
  OBVIOUS
<1>1. NodeOf[InterfaceOrder[j]] \in Nodes
  BY DestinationIsInterface DEF IInv, StartWalk
<1>2. node' \in Nodes /\ node' # sourceNode /\ sourceNode' = sourceNode
  BY <1>1 DEF StartWalk, sourceNode
<1>. QED  BY <1>2 DEF IInv, TypeOK, LoopOK, StartWalk

LEMMA WalkKeeps == IInv /\ Walk => IInv'
<1> SUFFICES ASSUME IInv, Walk PROVE IInv'
  OBVIOUS
<1>1. PICK l \in IF path[node] = None THEN ShortestLinks(node, sourceNode) ELSE {path[node]} :
         path' = [path EXCEPT ![node] = l] /\ link' = l /\ node' = NodeOf[l.destination]
  BY DEF Walk
<1>2. node \in Nodes
  BY DEF IInv, LoopOK, Walk
<1>3. l \in Links
  BY <1>1, <1>2 DEF IInv, TypeOK, ShortestLinks
<1>4. node' \in Nodes
  BY <1>1, <1>3, LinkEnds
<1>5. path' \in [Nodes -> Links \union {None}]
  BY <1>1, <1>2, <1>3 DEF IInv, TypeOK
<1>. QED  BY <1>1, <1>3, <1>4, <1>5 DEF IInv, TypeOK, LoopOK, Walk, loopVars

LEMMA AddRouteKeeps == IInv /\ AddRoute => IInv'
<1> SUFFICES ASSUME IInv, AddRoute PROVE IInv'
  OBVIOUS
<1> DEFINE route == RouteTo(InterfaceOrder[j])
<1>1. sourceNode \in Nodes /\ link \in Links /\ InterfaceOrder[j] \in Interfaces
  BY SourceIsNode, DestinationIsInterface DEF IInv, LoopOK, AddRoute
<1>2. route \in Route
  BY <1>1, RouteType
<1>3. \/ staticRoutes' = staticRoutes
      \/ staticRoutes' = [staticRoutes EXCEPT ![sourceNode] = Append(@, route)]
  BY DEF AddRoute
<1> HIDE DEF route
<1>4. staticRoutes' \in [Nodes -> Seq(Route)]
  <2>1. Append(staticRoutes[sourceNode], route) \in Seq(Route)
    BY <1>1, <1>2 DEF IInv, TypeOK
  <2>. QED  BY <1>3, <2>1 DEF IInv, TypeOK
<1>. QED  BY <1>4 DEF IInv, TypeOK, LoopOK, AddRoute

LEMMA NextSourceKeeps == IInv /\ NextSource => IInv'
BY StaticRoutesAssumption DEF IInv, TypeOK, LoopOK, NextSource, NoPaths

LEMMA EndStaticRoutesKeeps == IInv /\ EndStaticRoutes => IInv'
BY StaticRoutesAssumption DEF IInv, TypeOK, LoopOK, EndStaticRoutes, pathVars

LEMMA ConfigureRouteKeeps == IInv /\ ConfigureRoute => IInv'
<1> SUFFICES ASSUME IInv, ConfigureRoute PROVE IInv'
  OBVIOUS
<1>1. sourceNode \in Nodes
  BY SourceIsNode DEF IInv, ConfigureRoute
<1>2. staticRoutes[sourceNode][j] \in Route
  BY <1>1 DEF IInv, TypeOK, ConfigureRoute
<1>3. Merged(routingTable[sourceNode], staticRoutes[sourceNode][j]) \in SUBSET Route
  BY <1>1, <1>2, MergedType DEF IInv, TypeOK
<1>4. routingTable' \in [Nodes -> SUBSET Route]
  BY <1>1, <1>3 DEF IInv, TypeOK, ConfigureRoute
<1>. QED  BY <1>4 DEF IInv, TypeOK, LoopOK, ConfigureRoute, pathVars

LEMMA NextRoutingTableKeeps == IInv /\ NextRoutingTable => IInv'
<1> SUFFICES ASSUME IInv, NextRoutingTable PROVE IInv'
  OBVIOUS
<1>1. i' \in 1 .. Len(NodeOrder) + 1 /\ j' \in Nat \ {0}
  BY StaticRoutesAssumption DEF IInv, TypeOK, NextRoutingTable
<1>. QED  BY <1>1 DEF IInv, TypeOK, LoopOK, NextRoutingTable, pathVars

LEMMA EndConfigureKeeps == IInv /\ EndConfigure => IInv'
<1> SUFFICES ASSUME IInv, EndConfigure PROVE IInv'
  OBVIOUS
<1>1. i' \in 1 .. Len(NodeOrder) + 1
  BY StaticRoutesAssumption DEF EndConfigure
<1>2. element' \in DOMAIN Autoroutes
  BY NextElement, StaticRoutesAssumption DEF IInv, TypeOK, EndConfigure
<1>3. pc' \in {"clear", "idle"} /\ starting' \in BOOLEAN
  BY DEF EndConfigure
<1>. QED  BY <1>1, <1>2, <1>3 DEF IInv, TypeOK, LoopOK, EndConfigure, pathVars

LEMMA HandleTimerKeeps == IInv /\ HandleTimer => IInv'
BY DEF IInv, TypeOK, LoopOK, HandleTimer, pathVars

LEMMA ClearTopologyKeeps == IInv /\ ClearTopology => IInv'
<1> SUFFICES ASSUME IInv, ClearTopology PROVE IInv'
  OBVIOUS
<1>1. staticRoutes' \in [Nodes -> Seq(Route)] /\ routingTable' \in [Nodes -> SUBSET Route]
  BY DEF ClearTopology
<1>. QED  BY <1>1 DEF IInv, TypeOK, LoopOK, ClearTopology, pathVars

LEMMA MoveSatellitesKeeps == IInv /\ MoveSatellites => IInv'
BY DEF IInv, TypeOK, LoopOK, MoveSatellites, loopVars, pathVars

LEMMA StutteringKeeps == IInv /\ UNCHANGED vars => IInv'
BY DEF IInv, TypeOK, LoopOK, vars, loopVars, pathVars, sourceNode

LEMMA NextKeeps == IInv /\ [Next]_vars => IInv'
BY FilterLinksKeeps, SkipSourceKeeps, AddDefaultRoutesKeeps, CalculatePathsKeeps, ShortenPathsKeeps,
   SkipDestinationKeeps, StartWalkKeeps, WalkKeeps, AddRouteKeeps, NextSourceKeeps, EndStaticRoutesKeeps,
   ConfigureRouteKeeps, NextRoutingTableKeeps, EndConfigureKeeps, HandleTimerKeeps, ClearTopologyKeeps, MoveSatellitesKeeps, StutteringKeeps
   DEF Next, Configure, AddStaticRoutes, ConfigureAllRoutingTables

(* The loops and the walk stay within the network, distances within the    *)
(* cost "inf", and tables hold routes.                                     *)
THEOREM TypeCorrect == Spec => []TypeOK
<1>1. IInv => TypeOK
  BY DEF IInv
<1>. QED  BY <1>1, InitIInv, NextKeeps, PTL DEF Spec

-----------------------------------------------------------------------------
(* Tables.                                                                 *)

(* A route is merged into one table, and tables are emptied together; no   *)
(* other step touches one.                                                 *)
LEMMA OneRouteKept == IInv /\ OneRoutePerDestination /\ [Next]_vars => OneRoutePerDestination'
<1> SUFFICES ASSUME IInv, OneRoutePerDestination, [Next]_vars PROVE OneRoutePerDestination'
  OBVIOUS
<1>1. CASE ConfigureRoute
  <2> DEFINE route == staticRoutes[sourceNode][j]
  <2>1. sourceNode \in Nodes
    BY <1>1, SourceIsNode DEF IInv, ConfigureRoute
  <2>2. route \in Route /\ routingTable[sourceNode] \in SUBSET Route
    BY <1>1, <2>1 DEF IInv, TypeOK, ConfigureRoute
  <2>3. \A r, s \in Merged(routingTable[sourceNode], route) : r.destination = s.destination => r = s
    BY <2>1, <2>2, MergedOnce DEF OneRoutePerDestination
  <2>4. \A n \in Nodes : routingTable'[n] =
          IF n = sourceNode THEN Merged(routingTable[sourceNode], route) ELSE routingTable[n]
    BY <1>1, <2>1 DEF IInv, TypeOK, ConfigureRoute
  <2> HIDE DEF route
  <2>. QED  BY <2>3, <2>4 DEF OneRoutePerDestination
<1>2. CASE ClearTopology
  BY <1>2 DEF ClearTopology, OneRoutePerDestination
<1>3. CASE UNCHANGED routingTable
  BY <1>3 DEF OneRoutePerDestination
<1>4. ConfigureRoute \/ ClearTopology \/ UNCHANGED routingTable
  BY DEF Next, Configure, AddStaticRoutes, ConfigureAllRoutingTables, FilterLinks, SkipSource,
         AddDefaultRoutes, CalculatePaths, ShortenPaths, SkipDestination, StartWalk, Walk, AddRoute,
         NextSource, EndStaticRoutes, NextRoutingTable, EndConfigure, HandleTimer, MoveSatellites, vars
<1>. QED  BY <1>1, <1>2, <1>3, <1>4

(* However many elements there are and however often the timer has fired,  *)
(* configureRoutingTable finds at most one entry of a route's destination, *)
(* so that the copy it made for it is deleted at most once.                *)
THEOREM DestinationsOnce == Spec => []OneRoutePerDestination
<1>1. Init => OneRoutePerDestination
  BY DEF Init, OneRoutePerDestination
<1>. QED  BY <1>1, InitIInv, NextKeeps, OneRouteKept, PTL DEF Spec

-----------------------------------------------------------------------------
(* Routes and enabled links, for one autoroute element.                    *)

Reverse(l) == [source |-> l.destination, destination |-> l.source]

(* The LAN has one router, the node of GatewayInterface.                   *)
OneRouter(lan) == GatewayInterface(lan) # None

(* One element, whose topology lists nodes and interfaces once; addresses  *)
(* and netmasks tell the destinations of the three kinds apart; and a LAN  *)
(* with one router is no radio network, so that the filter, which looks at *)
(* links between satellites and ground stations only, leaves it alone: a   *)
(* subnet or default route ignores the filter.                             *)
OneElementNetwork ==
  /\ Len(Autoroutes) = 1
  /\ \A k, l \in DOMAIN NodeOrder : NodeOrder[k] = NodeOrder[l] => k = l
  /\ \A k, l \in DOMAIN InterfaceOrder : InterfaceOrder[k] = InterfaceOrder[l] => k = l
  /\ Default \notin Interfaces \union Lans /\ Interfaces \intersect Lans = {} /\ None \notin Links
  /\ \A l \in Links : OneRouter(LanOf[l.source]) =>
       ~({NodeOf[l.source], NodeOf[l.destination]} \subseteq Satellites \union GroundStations)

(* A route of n sends what it matches over an enabled link.                *)
RouteOK(n, r) ==
  \A to \in Interfaces \ InterfacesOf(n) :
    r.destination \in {to, LanOf[to], Default} => LinkOf(r, to) \in enabledLinks

(* What the merge makes of two routes for one destination.                 *)
Mix(r, s) == [r EXCEPT !.gateway = s.gateway]

(* The links are enabled in both directions, those of LANs with one router *)
(* always.                                                                 *)
EnabledOK ==
  /\ \A l \in enabledLinks : Reverse(l) \in enabledLinks
  /\ \A l \in Links : OneRouter(LanOf[l.source]) => l \in enabledLinks

(* What is still empty.                                                    *)
FreshOK ==
  /\ pc = "weights" => \A n \in Nodes : staticRoutes[n] = <<>>
  /\ pc \in {"weights", "source", "paths", "destination", "walk"} => \A n \in Nodes : routingTable[n] = {}
  /\ pc \notin {"destination", "walk"} => path = [n \in Nodes |-> None]
  /\ pc \in {"source", "paths", "destination", "walk"} =>
       \A k \in DOMAIN NodeOrder :
         (k > i \/ (k = i /\ pc \in {"source", "paths"})) => staticRoutes[NodeOrder[k]] = <<>>

(* Any two of a node's routes for one destination may meet in the merge.   *)
MixesOK ==
  \A n \in Nodes : \A k, l \in DOMAIN staticRoutes[n] :
    staticRoutes[n][k].destination = staticRoutes[n][l].destination
      => RouteOK(n, Mix(staticRoutes[n][k], staticRoutes[n][l]))

TablesOK ==
  \A n \in Nodes : \A e \in routingTable[n] : \E k, l \in DOMAIN staticRoutes[n] :
    /\ staticRoutes[n][k].destination = staticRoutes[n][l].destination
    /\ e = Mix(staticRoutes[n][k], staticRoutes[n][l])

PathOK == \A n \in Nodes : path[n] # None => path[n] \in enabledLinks /\ NodeOf[path[n].source] = n

(* F gives nodes that lie on one way to the source one value, that of the  *)
(* way's last link where the way is known so far. With Labelled, ways that *)
(* end before the source have values of their own.                         *)
Open(n) == <<FALSE, n>>
By(l)   == <<TRUE, l>>

Follows(F) ==
  \A n \in Nodes \ {sourceNode} : path[n] # None =>
    F[n] = IF NodeOf[path[n].destination] = sourceNode THEN By(path[n]) ELSE F[NodeOf[path[n].destination]]

Labelled(F) == Follows(F) /\ \A n \in Nodes \ {sourceNode} : path[n] = None => F[n] = Open(n)

InLan(n, lan) == \E x \in InterfacesOf(n) : LanOf[x] = lan

RouterOf(lan) == NodeOf[GatewayInterface(lan)]

(* A route of the source for a LAN with one router: into the LAN, if the   *)
(* source is in it, and otherwise by the last link of the router's way.    *)
SubnetRouteOK(r) ==
  LET lan == r.destination
  IN  IF InLan(sourceNode, lan)
      THEN /\ NodeOf[r.interface] = sourceNode /\ LanOf[r.interface] = lan
           /\ r.gateway # None => LanOf[r.gateway] = lan /\ NodeOf[r.gateway] # sourceNode
      ELSE \E l \in enabledLinks :
             /\ NodeOf[l.destination] = sourceNode
             /\ r.interface = l.destination /\ r.gateway = l.source
             /\ \A F : Follows(F) => F[RouterOf(lan)] = By(l)

(* The routes computed for the source so far.                              *)
SourceOK ==
  pc \in {"destination", "walk"} =>
    /\ \E F : Labelled(F)
    /\ \A k \in DOMAIN staticRoutes[sourceNode] :
         LET r == staticRoutes[sourceNode][k]
         IN  \/ r.destination \in Lans /\ OneRouter(r.destination) /\ SubnetRouteOK(r)
             \/ \E h \in DOMAIN InterfaceOrder : h < j /\ r.destination = InterfaceOrder[h]

(* A walk that started in a LAN with one router is still in it, or it has  *)
(* come by the router and continues on the router's way.                   *)
WayOK(lan) ==
  IF node = sourceNode
  THEN IF InLan(sourceNode, lan) THEN LanOf[link.destination] = lan
       ELSE \A F : Follows(F) => F[RouterOf(lan)] = By(link)
  ELSE \/ InLan(node, lan) /\ node # RouterOf(lan)
       \/ InLan(sourceNode, lan) /\ sourceNode # RouterOf(lan)
       \/ ~InLan(sourceNode, lan) /\ \A F : Follows(F) => F[RouterOf(lan)] = F[node]

WalkOK ==
  pc = "walk" =>
    LET to == InterfaceOrder[j]
    IN  /\ NodeOf[to] # sourceNode
        /\ node = sourceNode => link \in enabledLinks /\ NodeOf[link.destination] = sourceNode
        /\ InterfacesOf(NodeOf[to]) = {to} /\ OneRouter(LanOf[to]) => WayOK(LanOf[to])

EInv ==
  /\ OneElementNetwork
  /\ EnabledOK /\ FreshOK /\ MixesOK /\ TablesOK /\ PathOK /\ SourceOK /\ WalkOK

LEMMA ReverseOfLink ==
  ASSUME NEW l \in Links
  PROVE  /\ Reverse(l) \in Links /\ Reverse(l).source = l.destination /\ Reverse(l).destination = l.source
         /\ Disabled(Reverse(l)) => Disabled(l)
         /\ LanOf[l.source] = LanOf[l.destination] /\ NodeOf[l.source] # NodeOf[l.destination]
<1>1. /\ l.source \in Interfaces /\ l.destination \in Interfaces
      /\ LanOf[l.source] = LanOf[l.destination] /\ NodeOf[l.source] # NodeOf[l.destination]
  BY DEF Links
<1>2. Reverse(l).source = l.destination /\ Reverse(l).destination = l.source
  BY DEF Reverse
<1>3. Reverse(l) \in Links
  BY <1>1 DEF Reverse, Links
<1>4. \A a, b : <<a, b>> \in InterSatelliteLinks => <<b, a>> \in InterSatelliteLinks
  BY StaticRoutesAssumption
<1>5. Disabled(Reverse(l)) => Disabled(l)
  BY <1>2, <1>4 DEF Disabled
<1>. QED  BY <1>1, <1>2, <1>3, <1>5

LEMMA NodesInterfaces ==
  \A n : \A x : x \in InterfacesOf(n) <=> x \in Interfaces /\ NodeOf[x] = n
BY DEF InterfacesOf

(* Of the nodes in a LAN with one router all others have one interface.    *)
LEMMA OthersHaveOneInterface ==
  ASSUME NEW lan, OneRouter(lan)
  PROVE  /\ GatewayInterface(lan) \in Interfaces /\ LanOf[GatewayInterface(lan)] = lan
         /\ \A x : InterfacesOf(RouterOf(lan)) # {x}
         /\ \A n : InLan(n, lan) /\ n # RouterOf(lan) =>
              \E x \in Interfaces : InterfacesOf(n) = {x} /\ LanOf[x] = lan
<1> DEFINE routers == {x \in Interfaces : LanOf[x] = lan /\ Cardinality(InterfacesOf(NodeOf[x])) > 1}
<1>1. Cardinality(routers) = 1 /\ GatewayInterface(lan) = CHOOSE x \in routers : TRUE
  BY DEF OneRouter, GatewayInterface
<1>2. IsFiniteSet(Interfaces)
  <2>1. InterfaceOrder \in Seq(Interfaces) /\ DOMAIN InterfaceOrder = 1 .. Len(InterfaceOrder)
    BY StaticRoutesAssumption
  <2>2. \A x \in Interfaces : \E k \in 1 .. Len(InterfaceOrder) : InterfaceOrder[k] = x
    BY <2>1 DEF Interfaces
  <2>. QED  BY <2>1, <2>2 DEF IsFiniteSet
<1>3. \A n : IsFiniteSet(InterfacesOf(n))
  BY <1>2, FS_Subset DEF InterfacesOf
<1>4. routers \subseteq Interfaces /\ IsFiniteSet(routers)
  BY <1>2, FS_Subset
<1>5. PICK g : routers = {g}
  BY <1>1, <1>4, FS_Singleton
<1>6. GatewayInterface(lan) = g /\ g \in Interfaces /\ LanOf[g] = lan
      /\ Cardinality(InterfacesOf(NodeOf[g])) > 1
  BY <1>1, <1>5
<1>7. \A x : InterfacesOf(RouterOf(lan)) # {x}
  <2> SUFFICES ASSUME NEW x, InterfacesOf(RouterOf(lan)) = {x} PROVE FALSE
    OBVIOUS
  <2>1. Cardinality({x}) = 1
    BY FS_Singleton
  <2>. QED  BY <1>6, <2>1 DEF RouterOf
<1>8. ASSUME NEW n, InLan(n, lan), n # RouterOf(lan)
      PROVE  \E x \in Interfaces : InterfacesOf(n) = {x} /\ LanOf[x] = lan
  <2>1. PICK x \in InterfacesOf(n) : LanOf[x] = lan
    BY <1>8 DEF InLan
  <2>2. x \in Interfaces /\ NodeOf[x] = n
    BY NodesInterfaces
  <2>3. x \notin routers
    BY <1>5, <1>6, <1>8, <2>2 DEF RouterOf
  <2>4. ~(Cardinality(InterfacesOf(n)) > 1)
    BY <2>1, <2>2, <2>3
  <2>5. Cardinality(InterfacesOf(n)) \in Nat /\ Cardinality(InterfacesOf(n)) # 0
    BY <1>3, <2>1, FS_CardinalityType, FS_EmptySet
  <2>6. Cardinality(InterfacesOf(n)) = 1
    BY <2>4, <2>5
  <2>7. PICK y : InterfacesOf(n) = {y}
    BY <1>3, <2>6, FS_Singleton
  <2>. QED  BY <2>1, <2>2, <2>7
<1>. QED  BY <1>6, <1>7, <1>8

(* The ways known so far can be labelled also after a walk's next step.    *)
LEMMA LabelsExtend ==
  ASSUME TypeOK, NEW F, Labelled(F), node \in Nodes, node # sourceNode, sourceNode' = sourceNode,
         NEW l \in Links, l # None, path[node] = None, path' = [path EXCEPT ![node] = l]
  PROVE  \E G : Labelled(G)'
<1> DEFINE next(n, p) == NodeOf[p[n].destination]
           end == IF NodeOf[l.destination] = sourceNode THEN By(l) ELSE F[NodeOf[l.destination]]
           G == [n \in Nodes |-> IF F[n] = Open(node) THEN end ELSE F[n]]
<1>1. \A n \in Nodes : path'[n] = IF n = node THEN l ELSE path[n]
  BY DEF TypeOK
<1>2. \A n \in Nodes : path[n] # None => NodeOf[path[n].destination] \in Nodes
  BY LinkEnds DEF TypeOK
<1>3. NodeOf[l.destination] \in Nodes
  BY LinkEnds
<1>4. /\ \A a, b : Open(a) = Open(b) => a = b
      /\ \A a, b : Open(a) # By(b)
  BY DEF Open, By
<1>5. \A n \in Nodes \ {sourceNode} : path[n] # None =>
        F[n] = IF NodeOf[path[n].destination] = sourceNode THEN By(path[n]) ELSE F[NodeOf[path[n].destination]]
  BY DEF Labelled, Follows
<1>6. \A n \in Nodes \ {sourceNode} : path[n] = None => F[n] = Open(n)
  BY DEF Labelled
<1>7. ASSUME NEW n \in Nodes \ {sourceNode}, path'[n] # None
      PROVE  G[n] = IF NodeOf[path'[n].destination] = sourceNode THEN By(path'[n])
                    ELSE G[NodeOf[path'[n].destination]]
  <2>1. CASE n = node
    <3>1. path'[n] = l /\ F[n] = Open(node)
      BY <1>1, <1>6, <2>1
    <3>2. G[n] = end
      BY <3>1
    <3>. QED  BY <1>3, <3>1, <3>2
  <2>2. CASE n # node
    <3>1. path'[n] = path[n] /\ path[n] # None
      BY <1>1, <1>7, <2>2
    <3>2. CASE NodeOf[path[n].destination] = sourceNode
      BY <1>4, <1>5, <3>1, <3>2
    <3>3. CASE NodeOf[path[n].destination] # sourceNode
      <4>1. F[n] = F[NodeOf[path[n].destination]] /\ NodeOf[path[n].destination] \in Nodes
        BY <1>2, <1>5, <3>1, <3>3
      <4>. QED  BY <3>1, <3>3, <4>1
    <3>. QED  BY <3>2, <3>3
  <2>. QED  BY <2>1, <2>2
<1>8. ASSUME NEW n \in Nodes \ {sourceNode}, path'[n] = None
      PROVE  G[n] = Open(n)
  <2>1. n # node /\ path[n] = None
    BY <1>1, <1>8
  <2>. QED  BY <1>4, <1>6, <2>1
<1>9. PICK H : H = G
  OBVIOUS
<1> HIDE DEF G
<1>10. Labelled(H)'
  BY <1>7, <1>8, <1>9 DEF Labelled, Follows, Open, By
<1>. QED  BY <1>10

(* What is said of all labels stays true as ways become known, and the     *)
(* next step of the walk keeps the label.                                  *)
LEMMA LabelsStay ==
  ASSUME TypeOK, node \in Nodes, node # sourceNode, sourceNode' = sourceNode,
         NEW l \in Links, l # None, path[node] \in {None, l}, path' = [path EXCEPT ![node] = l],
         NEW F, Follows(F)'
  PROVE  /\ Follows(F)
         /\ F[node] = IF NodeOf[l.destination] = sourceNode THEN By(l) ELSE F[NodeOf[l.destination]]
<1>1. \A n \in Nodes : path'[n] = IF n = node THEN l ELSE path[n]
  BY DEF TypeOK
<1>2. \A n \in Nodes \ {sourceNode} : path'[n] # None =>
        F[n] = IF NodeOf[path'[n].destination] = sourceNode THEN By(path'[n]) ELSE F[NodeOf[path'[n].destination]]
  BY DEF Follows, By
<1>3. \A n \in Nodes : path[n] # None => path'[n] = path[n]
  BY <1>1
<1>4. Follows(F)
  BY <1>2, <1>3 DEF Follows
<1>. QED  BY <1>1, <1>2, <1>4

-----------------------------------------------------------------------------

LEMMA EnabledInit == Init /\ OneElementNetwork => EInv
<1> SUFFICES ASSUME Init, OneElementNetwork PROVE EInv
  OBVIOUS
<1>1. EnabledOK
  BY ReverseOfLink DEF Init, EnabledOK
<1>2. FreshOK /\ MixesOK /\ TablesOK /\ PathOK /\ SourceOK /\ WalkOK
  <2>1. \A n \in Nodes : DOMAIN staticRoutes[n] = {}
    BY DEF Init
  <2>2. MixesOK
    BY <2>1 DEF MixesOK
  <2>. QED  BY <2>2 DEF Init, FreshOK, TablesOK, PathOK, SourceOK, WalkOK
<1>. QED  BY <1>1, <1>2 DEF EInv

(* Steps that change neither links nor routes.                             *)
LEMMA RoutesUnchanged ==
  ASSUME EInv, UNCHANGED <<enabledLinks, staticRoutes, routingTable>>
  PROVE  OneElementNetwork' /\ EnabledOK' /\ MixesOK' /\ TablesOK'
<1>1. OneElementNetwork'
  BY DEF EInv, OneElementNetwork
<1>2. EnabledOK'
  BY DEF EInv, EnabledOK, Reverse
<1>3. MixesOK'
  BY DEF EInv, MixesOK, RouteOK, LinkOf, Mix
<1>4. TablesOK'
  BY DEF EInv, TablesOK, Mix
<1>. QED  BY <1>1, <1>2, <1>3, <1>4

LEMMA FilterLinksEnabled == IInv /\ EInv /\ FilterLinks => EInv'
<1> SUFFICES ASSUME IInv, EInv, FilterLinks PROVE EInv'
  OBVIOUS
<1>1. /\ enabledLinks' = {l \in enabledLinks : ~Disabled(l)} /\ pc' = "source" /\ pc = "weights"
      /\ enabledLinks \subseteq Links
      /\ UNCHANGED <<path, staticRoutes, routingTable>>
  BY DEF FilterLinks, pathVars, IInv, TypeOK
<1>2. EnabledOK'
  <2>1. ASSUME NEW l \in enabledLinks' PROVE Reverse(l) \in enabledLinks'
    <3>1. l \in Links /\ l \in enabledLinks /\ ~Disabled(l)
      BY <1>1
    <3>2. Reverse(l) \in enabledLinks
      BY <3>1 DEF EInv, EnabledOK
    <3>. QED  BY <1>1, <3>1, <3>2, ReverseOfLink
  <2>2. ASSUME NEW l \in Links, OneRouter(LanOf[l.source]) PROVE l \in enabledLinks'
    <3>1. l \in enabledLinks
      BY <2>2 DEF EInv, EnabledOK
    <3>2. ~({NodeOf[l.source], NodeOf[l.destination]} \subseteq Satellites \union GroundStations)
      BY <2>2 DEF EInv, OneElementNetwork
    <3>3. ~Disabled(l)
      BY <3>2 DEF Disabled
    <3>. QED  BY <1>1, <3>1, <3>3
  <2>3. Links' = Links /\ \A l : OneRouter(LanOf[l.source])' = OneRouter(LanOf[l.source]) /\ Reverse(l)' = Reverse(l)
    BY DEF Links, OneRouter, GatewayInterface, Reverse
  <2>. QED  BY <2>1, <2>2 DEF EnabledOK, Reverse
<1>3. \A n \in Nodes : staticRoutes[n] = <<>> /\ routingTable[n] = {}
  BY <1>1 DEF EInv, FreshOK
<1>4. MixesOK' /\ TablesOK'
  BY <1>1, <1>3 DEF MixesOK, TablesOK
<1>5. path = [n \in Nodes |-> None]
  BY <1>1 DEF EInv, FreshOK
<1>6. FreshOK'
  <2>1. \A k \in DOMAIN NodeOrder : NodeOrder[k] \in Nodes
    BY StaticRoutesAssumption
  <2>. QED  BY <1>1, <1>3, <1>5, <2>1 DEF FreshOK
<1>7. PathOK' /\ SourceOK' /\ WalkOK'
  BY <1>1, <1>5 DEF PathOK, SourceOK, WalkOK
<1>. QED  BY <1>2, <1>4, <1>6, <1>7 DEF EInv, OneElementNetwork

LEMMA SkipSourceEnabled == IInv /\ EInv /\ SkipSource => EInv'
<1> SUFFICES ASSUME IInv, EInv, SkipSource PROVE EInv'
  OBVIOUS
<1>1. /\ pc = "source" /\ pc' = "source" /\ i' = i + 1 /\ i \in Nat
      /\ UNCHANGED <<path, enabledLinks, staticRoutes, routingTable>>
  BY DEF SkipSource, pathVars, IInv, TypeOK
<1>2. DOMAIN NodeOrder \subseteq Nat
  BY StaticRoutesAssumption
<1>3. FreshOK'
  BY <1>1, <1>2 DEF EInv, FreshOK
<1>4. PathOK' /\ SourceOK' /\ WalkOK'
  BY <1>1 DEF EInv, PathOK, SourceOK, WalkOK
<1>. QED  BY <1>1, <1>3, <1>4, RoutesUnchanged DEF EInv

(* The default routes of a node: into its only LAN, and to its router.     *)
LEMMA AddDefaultRoutesEnabled == IInv /\ EInv /\ AddDefaultRoutes => EInv'
<1> SUFFICES ASSUME IInv, EInv, AddDefaultRoutes PROVE EInv'
  OBVIOUS
<1> DEFINE s == sourceNode
           out == CHOOSE out \in InterfacesOf(s) : TRUE
           lan == LanOf[out]
           direct == [destination |-> lan, gateway |-> None, interface |-> out]
           default == [destination |-> Default, gateway |-> GatewayInterface(lan), interface |-> out]
<1>1. /\ pc = "source" /\ pc' = "source" /\ i' = i + 1 /\ i \in DOMAIN NodeOrder
      /\ UNCHANGED <<path, enabledLinks, routingTable>>
      /\ staticRoutes' = [staticRoutes EXCEPT ![s] = @ \o DefaultRoutes(s)]
      /\ DefaultRouteSuffices(s)
  BY StaticRoutesAssumption DEF AddDefaultRoutes, pathVars, IInv, TypeOK
<1>2. s \in Nodes /\ s = NodeOrder[i] /\ staticRoutes \in [Nodes -> Seq(Route)]
  BY SourceIsNode DEF IInv, TypeOK, AddDefaultRoutes, sourceNode
<1>3. staticRoutes[s] = <<>>
  BY <1>1, <1>2 DEF EInv, FreshOK
<1>4. InterfacesOf(s) = {out} /\ OneRouter(lan)
  <2>1. PICK x \in InterfacesOf(s) : InterfacesOf(s) = {x} /\ GatewayInterface(LanOf[x]) # None
    BY <1>1 DEF DefaultRouteSuffices
  <2>2. out = x
    BY <2>1
  <2>. QED  BY <2>1, <2>2 DEF OneRouter
<1>5. out \in Interfaces /\ NodeOf[out] = s /\ lan \in Lans
  BY <1>4, NodesInterfaces DEF Lans
<1>6. DefaultRoutes(s) = (IF par.addDirectRoutes THEN <<direct>> ELSE <<>>) \o <<default>>
  BY DEF DefaultRoutes
<1>7. \A to \in Interfaces \ InterfacesOf(s) : LanOf[to] = lan =>
        [source |-> out, destination |-> to] \in enabledLinks
  <2> SUFFICES ASSUME NEW to \in Interfaces \ InterfacesOf(s), LanOf[to] = lan
               PROVE  [source |-> out, destination |-> to] \in enabledLinks
    OBVIOUS
  <2>1. NodeOf[to] # s
    BY NodesInterfaces
  <2> DEFINE l == [source |-> out, destination |-> to]
  <2>2. l \in Links /\ LanOf[l.source] = lan
    BY <1>5, <2>1 DEF Links
  <2>. QED  BY <1>4, <2>2 DEF EInv, EnabledOK
<1>8. GatewayInterface(lan) \in Interfaces \ InterfacesOf(s) /\ LanOf[GatewayInterface(lan)] = lan
  <2>1. GatewayInterface(lan) \in Interfaces /\ LanOf[GatewayInterface(lan)] = lan
        /\ InterfacesOf(RouterOf(lan)) # {out}
    BY <1>4, OthersHaveOneInterface
  <2>2. NodeOf[GatewayInterface(lan)] # s
    BY <1>4, <2>1 DEF RouterOf
  <2>. QED  BY <2>1, <2>2, NodesInterfaces
<1> HIDE DEF out, lan
<1>9. RouteOK(s, direct)
  <2> SUFFICES ASSUME NEW to \in Interfaces \ InterfacesOf(s), lan \in {to, LanOf[to], Default}
               PROVE  LinkOf(direct, to) \in enabledLinks
    BY DEF RouteOK
  <2>1. LanOf[to] = lan
    BY <1>5 DEF EInv, OneElementNetwork
  <2>2. LinkOf(direct, to) = [source |-> out, destination |-> to]
    BY DEF LinkOf
  <2>. QED  BY <1>7, <2>1, <2>2
<1>10. RouteOK(s, default)
  <2> SUFFICES ASSUME NEW to \in Interfaces \ InterfacesOf(s)
               PROVE  LinkOf(default, to) \in enabledLinks
    BY DEF RouteOK
  <2>1. LinkOf(default, to) = [source |-> out, destination |-> GatewayInterface(lan)]
    BY <1>4 DEF LinkOf, OneRouter
  <2>. QED  BY <1>7, <1>8, <2>1
<1>11. \A n \in Nodes : staticRoutes'[n] = IF n = s THEN DefaultRoutes(s) ELSE staticRoutes[n]
  <2>1. DefaultRoutes(s) \in Seq(Route)
    BY <1>1, DefaultRoutesType
  <2>2. staticRoutes[s] \o DefaultRoutes(s) = DefaultRoutes(s)
    BY <1>3, <2>1
  <2>. QED  BY <1>1, <1>2, <2>2
<1>12. /\ direct.destination = lan /\ default.destination = Default /\ lan # Default
       /\ Mix(direct, direct) = direct /\ Mix(default, default) = default
  <2>1. lan # Default
    BY <1>5 DEF EInv, OneElementNetwork
  <2>. QED  BY <2>1 DEF Mix
<1> HIDE DEF direct, default
<1>13. \A k \in DOMAIN DefaultRoutes(s) : DefaultRoutes(s)[k] \in {direct, default}
  BY <1>6
<1>14. MixesOK'
  <2> SUFFICES ASSUME NEW n \in Nodes, NEW k \in DOMAIN staticRoutes'[n], NEW l \in DOMAIN staticRoutes'[n],
                      staticRoutes'[n][k].destination = staticRoutes'[n][l].destination
               PROVE  RouteOK(n, Mix(staticRoutes'[n][k], staticRoutes'[n][l]))
    BY <1>1 DEF MixesOK, RouteOK, LinkOf, Mix
  <2>1. CASE n = s
    <3>1. staticRoutes'[n][k] \in {direct, default} /\ staticRoutes'[n][l] \in {direct, default}
      BY <1>11, <1>13, <2>1
    <3>. QED  BY <1>9, <1>10, <1>12, <2>1, <3>1
  <2>2. CASE n # s
    BY <1>11, <2>2 DEF EInv, MixesOK
  <2>. QED  BY <2>1, <2>2
<1>15. \A n \in Nodes : routingTable[n] = {}
  BY <1>1 DEF EInv, FreshOK
<1>16. TablesOK'
  BY <1>1, <1>15 DEF TablesOK
<1>17. FreshOK'
  <2>1. \A k \in DOMAIN NodeOrder : k \in Nat /\ NodeOrder[k] \in Nodes
    BY StaticRoutesAssumption
  <2>2. ASSUME NEW k \in DOMAIN NodeOrder, k > i
        PROVE  staticRoutes'[NodeOrder[k]] = <<>>
    <3>1. NodeOrder[k] # s
      BY <1>1, <1>2, <2>1, <2>2 DEF EInv, OneElementNetwork
    <3>2. staticRoutes[NodeOrder[k]] = <<>>
      BY <1>1, <2>2 DEF EInv, FreshOK
    <3>. QED  BY <1>11, <2>1, <3>1, <3>2
  <2>3. \A k \in DOMAIN NodeOrder : k > i' \/ k = i' => k > i
    BY <1>1, <2>1
  <2>. QED  BY <1>1, <1>15, <2>2, <2>3 DEF EInv, FreshOK
<1>18. PathOK' /\ SourceOK' /\ WalkOK' /\ EnabledOK'
  BY <1>1 DEF EInv, PathOK, SourceOK, WalkOK, EnabledOK, Reverse
<1>. QED  BY <1>14, <1>16, <1>17, <1>18 DEF EInv, OneElementNetwork

LEMMA CalculatePathsEnabled == IInv /\ EInv /\ CalculatePaths => EInv'
<1> SUFFICES ASSUME IInv, EInv, CalculatePaths PROVE EInv'
  OBVIOUS
<1>1. pc = "source" /\ pc' = "paths" /\ UNCHANGED <<i, path, enabledLinks, staticRoutes, routingTable>>
  BY DEF CalculatePaths
<1>2. FreshOK' /\ PathOK' /\ SourceOK' /\ WalkOK'
  BY <1>1 DEF EInv, FreshOK, PathOK, SourceOK, WalkOK
<1>. QED  BY <1>1, <1>2, RoutesUnchanged DEF EInv

LEMMA ShortenPathsEnabled == IInv /\ EInv /\ ShortenPaths => EInv'
<1> SUFFICES ASSUME IInv, EInv, ShortenPaths PROVE EInv'
  OBVIOUS
<1>1. /\ pc = "paths" /\ pc' \in {"paths", "destination"}
      /\ UNCHANGED <<i, j, path, enabledLinks, staticRoutes, routingTable>>
  BY DEF ShortenPaths
<1>2. FreshOK' /\ PathOK' /\ WalkOK'
  BY <1>1 DEF EInv, FreshOK, PathOK, WalkOK
<1>3. SourceOK'
  <2>1. path = [n \in Nodes |-> None] /\ staticRoutes[sourceNode] = <<>>
    <3>1. i \in DOMAIN NodeOrder
      BY <1>1, StaticRoutesAssumption DEF IInv, TypeOK, LoopOK
    <3>. QED  BY <1>1, <3>1 DEF EInv, FreshOK, sourceNode
  <2> DEFINE F == [n \in Nodes |-> Open(n)]
  <2>2. Labelled(F)'
    BY <1>1, <2>1 DEF Labelled, Follows, Open
  <2>3. sourceNode' = sourceNode
    BY <1>1 DEF sourceNode
  <2> HIDE DEF F
  <2>. QED  BY <1>1, <2>1, <2>2, <2>3 DEF SourceOK
<1>. QED  BY <1>1, <1>2, <1>3, RoutesUnchanged DEF EInv

LEMMA SkipDestinationEnabled == IInv /\ EInv /\ SkipDestination => EInv'
<1> SUFFICES ASSUME IInv, EInv, SkipDestination PROVE EInv'
  OBVIOUS
<1>1. /\ pc = "destination" /\ pc' = "destination" /\ j' = j + 1 /\ j \in Nat
      /\ UNCHANGED <<i, path, enabledLinks, staticRoutes, routingTable>>
  BY DEF SkipDestination, pathVars, IInv, TypeOK
<1>2. FreshOK' /\ PathOK' /\ WalkOK'
  BY <1>1 DEF EInv, FreshOK, PathOK, WalkOK
<1>3. SourceOK'
  <2>1. \A h \in DOMAIN InterfaceOrder : h < j => h < j'
    BY <1>1, StaticRoutesAssumption
  <2>. QED  BY <1>1, <2>1 DEF EInv, SourceOK, Labelled, Follows, SubnetRouteOK, sourceNode
<1>. QED  BY <1>1, <1>2, <1>3, RoutesUnchanged DEF EInv

LEMMA StartWalkEnabled == IInv /\ EInv /\ StartWalk => EInv'
<1> SUFFICES ASSUME IInv, EInv, StartWalk PROVE EInv'
  OBVIOUS
<1> DEFINE to == InterfaceOrder[j]
<1>1. /\ pc = "destination" /\ pc' = "walk" /\ node' = NodeOf[to] /\ NodeOf[to] # sourceNode
      /\ UNCHANGED <<i, j, path, link, enabledLinks, staticRoutes, routingTable>>
  BY DEF StartWalk
<1>2. FreshOK' /\ PathOK'
  BY <1>1 DEF EInv, FreshOK, PathOK
<1>3. SourceOK'
  BY <1>1 DEF EInv, SourceOK, Labelled, Follows, SubnetRouteOK, sourceNode
<1>4. WalkOK'
  <2>1. sourceNode' = sourceNode
    BY <1>1 DEF sourceNode
  <2>2. ASSUME InterfacesOf(NodeOf[to]) = {to}, OneRouter(LanOf[to])
        PROVE  InLan(node', LanOf[to]) /\ node' # RouterOf(LanOf[to])
    BY <1>1, <2>2, OthersHaveOneInterface DEF InLan
  <2>3. ASSUME InterfacesOf(NodeOf[to]) = {to}, OneRouter(LanOf[to])
        PROVE  WayOK(LanOf[to])'
    BY <1>1, <2>1, <2>2, <2>3 DEF WayOK
  <2>. QED  BY <1>1, <2>1, <2>3 DEF WalkOK, InterfacesOf, OneRouter
<1>. QED  BY <1>1, <1>2, <1>3, <1>4, RoutesUnchanged DEF EInv

(* One link further. *)
LEMMA WalkEnabled == IInv /\ EInv /\ Walk => EInv'
<1> SUFFICES ASSUME IInv, EInv, Walk PROVE EInv'
  OBVIOUS
<1> DEFINE to == InterfaceOrder[j]
           lan == LanOf[to]
<1>1. PICK l \in IF path[node] = None THEN ShortestLinks(node, sourceNode) ELSE {path[node]} :
         path' = [path EXCEPT ![node] = l] /\ link' = l /\ node' = NodeOf[l.destination]
  BY DEF Walk
<1>2. /\ pc = "walk" /\ pc' = "walk" /\ node \in Nodes /\ node # sourceNode
      /\ UNCHANGED <<i, j, enabledLinks, staticRoutes, routingTable>>
      /\ sourceNode' = sourceNode
  BY DEF Walk, loopVars, IInv, LoopOK, sourceNode
<1>3. l \in enabledLinks /\ NodeOf[l.source] = node /\ path[node] \in {None, l}
  <2>1. CASE path[node] = None
    BY <1>1, <2>1 DEF ShortestLinks
  <2>2. CASE path[node] # None
    BY <1>1, <1>2, <2>2 DEF EInv, PathOK
  <2>. QED  BY <2>1, <2>2
<1>4. l \in Links /\ l # None /\ enabledLinks \subseteq Links
  BY <1>3 DEF IInv, TypeOK, EInv, OneElementNetwork
<1>5. \A n \in Nodes : path'[n] = IF n = node THEN l ELSE path[n]
  BY <1>1, <1>2 DEF IInv, TypeOK
<1>6. PathOK'
  BY <1>2, <1>3, <1>5 DEF EInv, PathOK
<1>7. ASSUME NEW F, Follows(F)'
      PROVE  /\ Follows(F)
             /\ F[node] = IF NodeOf[l.destination] = sourceNode THEN By(l) ELSE F[NodeOf[l.destination]]
  BY <1>1, <1>2, <1>3, <1>4, <1>7, LabelsStay DEF IInv
<1>8. FreshOK'
  BY <1>2 DEF EInv, FreshOK
<1>9. SourceOK'
  <2>1. \E F : Labelled(F)'
    <3>1. PICK F : Labelled(F)
      BY <1>2 DEF EInv, SourceOK
    <3>2. CASE path[node] = None
      BY <1>1, <1>2, <1>4, <3>1, <3>2, LabelsExtend DEF IInv
    <3>3. CASE path[node] = l
      <4>1. path' = path
        BY <1>1, <3>3 DEF IInv, TypeOK
      <4>. QED  BY <1>2, <3>1, <4>1 DEF Labelled, Follows, Open, By
    <3>. QED  BY <1>3, <3>2, <3>3
  <2>2. ASSUME NEW r, SubnetRouteOK(r) PROVE SubnetRouteOK(r)'
    <3>1. CASE InLan(sourceNode, r.destination)
      BY <1>2, <2>2, <3>1 DEF SubnetRouteOK, InLan
    <3>2. CASE ~InLan(sourceNode, r.destination)
      <4>1. PICK h \in enabledLinks :
              /\ NodeOf[h.destination] = sourceNode
              /\ r.interface = h.destination /\ r.gateway = h.source
              /\ \A F : Follows(F) => F[RouterOf(r.destination)] = By(h)
        BY <2>2, <3>2 DEF SubnetRouteOK
      <4>2. \A F : Follows(F)' => F[RouterOf(r.destination)] = By(h)
        BY <1>7, <4>1
      <4>. QED  BY <1>2, <3>2, <4>1, <4>2 DEF SubnetRouteOK, InLan, RouterOf, By
    <3>. QED  BY <3>1, <3>2
  <2>3. \A k \in DOMAIN staticRoutes[sourceNode] :
          LET r == staticRoutes[sourceNode][k]
          IN  \/ r.destination \in Lans /\ OneRouter(r.destination) /\ SubnetRouteOK(r)
              \/ \E h \in DOMAIN InterfaceOrder : h < j /\ r.destination = InterfaceOrder[h]
    BY <1>2 DEF EInv, SourceOK
  <2>4. \A k \in DOMAIN staticRoutes[sourceNode] : \A r :
          r = staticRoutes[sourceNode][k] =>
            \/ r.destination \in Lans /\ OneRouter(r.destination) /\ SubnetRouteOK(r)'
            \/ \E h \in DOMAIN InterfaceOrder : h < j /\ r.destination = InterfaceOrder[h]
    BY <2>2, <2>3
  <2>. QED  BY <1>2, <2>1, <2>4 DEF SourceOK
<1>10. WalkOK'
  <2>1. NodeOf[to] # sourceNode
    BY <1>2 DEF EInv, WalkOK
  <2>2. node' = sourceNode => link' \in enabledLinks /\ NodeOf[link'.destination] = sourceNode
    BY <1>1, <1>3
  <2>3. ASSUME InterfacesOf(NodeOf[to]) = {to}, OneRouter(lan)
        PROVE  WayOK(lan)'
    <3>1. WayOK(lan)
      BY <1>2, <2>3 DEF EInv, WalkOK
    <3>2. \/ InLan(node, lan) /\ node # RouterOf(lan)
          \/ InLan(sourceNode, lan) /\ sourceNode # RouterOf(lan)
          \/ ~InLan(sourceNode, lan) /\ \A F : Follows(F) => F[RouterOf(lan)] = F[node]
      BY <1>2, <3>1 DEF WayOK
    <3>3. /\ l.source \in InterfacesOf(node) /\ l.destination \in InterfacesOf(node')
          /\ LanOf[l.source] = LanOf[l.destination]
      BY <1>1, <1>3, <1>4, ReverseOfLink, LinkEnds, NodesInterfaces
    <3>4. ASSUME InLan(node, lan), node # RouterOf(lan)
          PROVE  LanOf[l.destination] = lan /\ InLan(node', lan)
      <4>1. LanOf[l.source] = lan
        BY <2>3, <3>3, <3>4, OthersHaveOneInterface
      <4>. QED  BY <3>3, <4>1 DEF InLan
    <3>5. ASSUME InLan(node', lan), node' # RouterOf(lan)
          PROVE  LanOf[l.destination] = lan
      BY <2>3, <3>3, <3>5, OthersHaveOneInterface
    <3>6. CASE node' = sourceNode
      <4>1. CASE InLan(sourceNode, lan)
        <5>1. LanOf[l.destination] = lan
          BY <3>2, <3>4, <3>5, <3>6, <4>1
        <5>. QED  BY <1>1, <1>2, <3>6, <4>1, <5>1 DEF WayOK, InLan, InterfacesOf
      <4>2. CASE ~InLan(sourceNode, lan)
        <5>1. \A F : Follows(F) => F[RouterOf(lan)] = F[node]
          BY <3>2, <3>4, <3>6, <4>2
        <5>2. \A F : Follows(F)' => F[RouterOf(lan)] = By(l)
          BY <1>1, <1>7, <3>6, <5>1
        <5>. QED  BY <1>1, <1>2, <3>6, <4>2, <5>2 DEF WayOK, InLan, InterfacesOf, RouterOf, By
      <4>. QED  BY <4>1, <4>2
    <3>7. CASE node' # sourceNode
      <4>1. CASE InLan(node', lan) /\ node' # RouterOf(lan)
        BY <1>2, <3>7, <4>1 DEF WayOK, InLan, InterfacesOf, RouterOf
      <4>2. CASE InLan(sourceNode, lan) /\ sourceNode # RouterOf(lan)
        BY <1>2, <3>7, <4>2 DEF WayOK, InLan, InterfacesOf, RouterOf
      <4>3. CASE /\ ~(InLan(node', lan) /\ node' # RouterOf(lan))
                 /\ ~(InLan(sourceNode, lan) /\ sourceNode # RouterOf(lan))
        <5>1. ~InLan(sourceNode, lan)
          <6>1. ASSUME InLan(sourceNode, lan) PROVE FALSE
            BY <3>2, <3>4, <3>7, <4>3, <6>1
          <6>. QED  BY <6>1
        <5>2. \A F : Follows(F)' => F[RouterOf(lan)] = F[node']
          <6>1. CASE node' = RouterOf(lan)
            BY <6>1
          <6>2. CASE node' # RouterOf(lan)
            <7>1. \A F : Follows(F) => F[RouterOf(lan)] = F[node]
              BY <3>2, <3>4, <4>3, <6>2
            <7>. QED  BY <1>1, <1>7, <3>7, <7>1
          <6>. QED  BY <6>1, <6>2
        <5>. QED  BY <1>2, <3>7, <5>1, <5>2 DEF WayOK, InLan, InterfacesOf, RouterOf
      <4>. QED  BY <4>1, <4>2, <4>3
    <3>. QED  BY <3>6, <3>7
  <2>. QED  BY <1>2, <2>1, <2>2, <2>3 DEF WalkOK, InterfacesOf, OneRouter
<1>. QED  BY <1>2, <1>6, <1>8, <1>9, <1>10, RoutesUnchanged DEF EInv

(* What two routes for one LAN of the source give.                         *)
LEMMA SubnetMix ==
  ASSUME IInv, EInv, NEW F, Labelled(F), sourceNode \in Nodes,
         NEW r, NEW s, r.destination = s.destination, r \in Route, s \in Route,
         r.destination \in Lans, OneRouter(r.destination), SubnetRouteOK(r), SubnetRouteOK(s)
  PROVE  RouteOK(sourceNode, Mix(r, s))
<1> DEFINE lan == r.destination
           m == Mix(r, s)
<1>1. m.destination = lan /\ m.interface = r.interface /\ m.gateway = s.gateway
  BY DEF Mix, Route
<1>2. SUFFICES ASSUME NEW to \in Interfaces \ InterfacesOf(sourceNode), lan \in {to, LanOf[to], Default}
               PROVE  LinkOf(m, to) \in enabledLinks
  BY <1>1 DEF RouteOK
<1>3. LanOf[to] = lan /\ NodeOf[to] # sourceNode
  BY <1>2, NodesInterfaces DEF EInv, OneElementNetwork
<1>4. CASE InLan(sourceNode, lan)
  <2>1. /\ NodeOf[r.interface] = sourceNode /\ LanOf[r.interface] = lan
        /\ s.gateway # None => LanOf[s.gateway] = lan /\ NodeOf[s.gateway] # sourceNode
        /\ r.interface \in Interfaces /\ s.gateway \in Interfaces \union {None}
    BY <1>4 DEF SubnetRouteOK, Route
  <2> DEFINE end == IF s.gateway = None THEN to ELSE s.gateway
             l == [source |-> r.interface, destination |-> end]
  <2>2. end \in Interfaces /\ LanOf[end] = lan /\ NodeOf[end] # sourceNode
    BY <1>3, <2>1
  <2>3. l \in Links /\ LanOf[l.source] = lan
    BY <2>1, <2>2 DEF Links
  <2>4. LinkOf(m, to) = l
    BY <1>1 DEF LinkOf
  <2>. QED  BY <2>3, <2>4 DEF EInv, EnabledOK
<1>5. CASE ~InLan(sourceNode, lan)
  <2>1. PICK g \in enabledLinks :
          /\ r.interface = g.destination /\ r.gateway = g.source
          /\ \A G : Follows(G) => G[RouterOf(lan)] = By(g)
    BY <1>5 DEF SubnetRouteOK
  <2>2. PICK h \in enabledLinks :
          /\ s.interface = h.destination /\ s.gateway = h.source
          /\ \A G : Follows(G) => G[RouterOf(lan)] = By(h)
    BY <1>5 DEF SubnetRouteOK
  <2>3. By(g) = By(h)
    BY <2>1, <2>2 DEF Labelled
  <2>4. g = h
    BY <2>3 DEF By
  <2>5. g \in Links
    BY DEF IInv, TypeOK
  <2>6. g.source # None
    BY <2>5, LinkEnds, StaticRoutesAssumption
  <2>7. LinkOf(m, to) = Reverse(g)
    BY <1>1, <2>1, <2>2, <2>4, <2>6 DEF LinkOf, Reverse
  <2>. QED  BY <2>7 DEF EInv, EnabledOK
<1>. QED  BY <1>4, <1>5

LEMMA AddRouteEnabled == IInv /\ EInv /\ AddRoute => EInv'
<1> SUFFICES ASSUME IInv, EInv, AddRoute PROVE EInv'
  OBVIOUS
<1> DEFINE s == sourceNode
           to == InterfaceOrder[j]
           r == RouteTo(to)
           subnet == /\ par.addSubnetRoutes
                     /\ InterfacesOf(NodeOf[to]) = {to} /\ OneRouter(LanOf[to])
<1>1. /\ pc = "walk" /\ pc' = "destination" /\ j' = j + 1 /\ node = s
      /\ UNCHANGED <<i, path, enabledLinks, routingTable>>
      /\ s' = s
  BY DEF AddRoute, sourceNode
<1>2. /\ s \in Nodes /\ i \in DOMAIN NodeOrder /\ s = NodeOrder[i]
      /\ j \in DOMAIN InterfaceOrder /\ j \in Nat /\ DOMAIN InterfaceOrder \subseteq Nat
      /\ to \in Interfaces /\ LanOf[to] \in Lans
  <2>1. i <= Len(NodeOrder) /\ j <= Len(InterfaceOrder) /\ i \in Nat \ {0} /\ j \in Nat \ {0}
    BY <1>1, StaticRoutesAssumption DEF IInv, TypeOK, LoopOK
  <2>2. i \in DOMAIN NodeOrder /\ j \in DOMAIN InterfaceOrder /\ DOMAIN InterfaceOrder \subseteq Nat
    BY <2>1, StaticRoutesAssumption
  <2>3. s \in Nodes /\ to \in Interfaces
    BY <2>1, SourceIsNode, DestinationIsInterface DEF IInv
  <2>. QED  BY <2>1, <2>2, <2>3 DEF sourceNode, Lans
<1>3. /\ link \in enabledLinks /\ link \in Links /\ NodeOf[link.destination] = s
      /\ NodeOf[to] # s
  BY <1>1 DEF EInv, WalkOK, IInv, TypeOK
<1>4. /\ link.source \in Interfaces /\ link.destination \in Interfaces
      /\ LanOf[link.source] = LanOf[link.destination] /\ NodeOf[link.source] # s
      /\ Reverse(link) \in enabledLinks
  BY <1>3, ReverseOfLink, LinkEnds DEF EInv, EnabledOK
<1>5. r \in Route
  BY <1>2, <1>3, RouteType
<1>6. /\ r.destination = IF subnet THEN LanOf[to] ELSE to
      /\ r.gateway = (IF link.source = to THEN None ELSE link.source)
      /\ r.interface = link.destination
  BY DEF RouteTo, OneRouter
<1>7. staticRoutes \in [Nodes -> Seq(Route)]
  BY DEF IInv, TypeOK
<1> DEFINE old == staticRoutes[s]
<1>8. \/ staticRoutes' = staticRoutes
      \/ \A n \in Nodes : staticRoutes'[n] = IF n = s THEN Append(old, r) ELSE staticRoutes[n]
  <2>1. \/ staticRoutes' = staticRoutes
        \/ staticRoutes' = [staticRoutes EXCEPT ![s] = Append(@, r)]
    BY DEF AddRoute
  <2> HIDE DEF r, s
  <2>. QED  BY <1>2, <1>7, <2>1
<1> HIDE DEF r
<1>9. old \in Seq(Route)
  BY <1>2, <1>7
<1>10. PICK F : Labelled(F)
  BY <1>1 DEF EInv, SourceOK
<1>11. \A k \in DOMAIN old : LET q == old[k] IN
         \/ q.destination \in Lans /\ OneRouter(q.destination) /\ SubnetRouteOK(q)
         \/ \E h \in DOMAIN InterfaceOrder : h < j /\ q.destination = InterfaceOrder[h]
  BY <1>1 DEF EInv, SourceOK
<1>12. subnet => OneRouter(r.destination) /\ r.destination \in Lans /\ SubnetRouteOK(r)
  <2> SUFFICES ASSUME subnet PROVE SubnetRouteOK(r)
    BY <1>2, <1>6
  <2>1. WayOK(LanOf[to])
    BY <1>1 DEF EInv, WalkOK
  <2>2. CASE InLan(s, LanOf[to])
    <3>1. LanOf[link.destination] = LanOf[to]
      BY <1>1, <2>1, <2>2 DEF WayOK
    <3>. QED  BY <1>3, <1>4, <1>6, <2>2, <3>1 DEF SubnetRouteOK
  <2>3. CASE ~InLan(s, LanOf[to])
    <3>1. \A G : Follows(G) => G[RouterOf(LanOf[to])] = By(link)
      BY <1>1, <2>1, <2>3 DEF WayOK
    <3>2. link.source # to
      BY <1>3, <1>4, <2>3, NodesInterfaces DEF InLan
    <3>. QED  BY <1>3, <1>6, <2>3, <3>1, <3>2 DEF SubnetRouteOK
  <2>. QED  BY <2>2, <2>3
<1>13. ~subnet => /\ r.destination = to /\ RouteOK(s, r)
                  /\ \A k \in DOMAIN old : old[k].destination # to
  <2> SUFFICES ASSUME ~subnet PROVE /\ RouteOK(s, r)
                                    /\ \A k \in DOMAIN old : old[k].destination # to
    BY <1>6
  <2>1. r.destination = to
    BY <1>6
  <2>2. ASSUME NEW x \in Interfaces \ InterfacesOf(s), to \in {x, LanOf[x], Default}
        PROVE  LinkOf(r, x) \in enabledLinks
    <3>1. x = to
      BY <1>2, <2>2 DEF EInv, OneElementNetwork, Lans
    <3>2. None \notin Interfaces
      BY StaticRoutesAssumption
    <3>3. LinkOf(r, x) = Reverse(link)
      BY <1>4, <1>6, <3>1, <3>2 DEF LinkOf, Reverse
    <3>. QED  BY <1>4, <3>3
  <2>3. RouteOK(s, r)
    BY <2>1, <2>2 DEF RouteOK
  <2>4. ASSUME NEW k \in DOMAIN old, old[k].destination = to PROVE FALSE
    <3>1. to \notin Lans
      BY <1>2 DEF EInv, OneElementNetwork
    <3>2. PICK h \in DOMAIN InterfaceOrder : h < j /\ to = InterfaceOrder[h]
      BY <1>11, <2>4, <3>1
    <3>3. h = j
      BY <1>2, <3>2 DEF EInv, OneElementNetwork
    <3>. QED  BY <1>2, <3>2, <3>3
  <2>. QED  BY <2>3, <2>4
<1>14. ASSUME NEW p, NEW q, p.destination = q.destination,
              p = r \/ \E k \in DOMAIN old : p = old[k],
              q = r \/ \E k \in DOMAIN old : q = old[k]
       PROVE  RouteOK(s, Mix(p, q))
  <2>1. p \in Route /\ q \in Route
    BY <1>5, <1>9, <1>14
  <2>2. CASE p # r /\ q # r
    BY <1>2, <1>14, <2>2 DEF EInv, MixesOK
  <2>3. CASE (p = r \/ q = r) /\ subnet
    <3>1. r.destination = LanOf[to] /\ LanOf[to] \in Lans /\ p.destination = LanOf[to] /\ q.destination = LanOf[to]
      BY <1>2, <1>6, <1>14, <2>3
    <3>2. \A h \in DOMAIN InterfaceOrder : InterfaceOrder[h] # LanOf[to]
      BY <3>1 DEF EInv, OneElementNetwork, Interfaces
    <3>3. \A k \in DOMAIN old : old[k].destination = LanOf[to] => SubnetRouteOK(old[k])
      BY <1>11, <3>2
    <3>4. SubnetRouteOK(p) /\ SubnetRouteOK(q)
      BY <1>12, <1>14, <2>3, <3>1, <3>3
    <3>. QED  BY <1>2, <1>10, <1>14, <2>1, <2>3, <3>1, <3>4, SubnetMix
  <2>4. CASE (p = r \/ q = r) /\ ~subnet
    <3>1. p = r /\ q = r
      BY <1>13, <1>14, <2>4
    <3>2. Mix(r, r) = r
      BY <1>5 DEF Mix, Route
    <3>. QED  BY <1>13, <2>4, <3>1, <3>2
  <2>. QED  BY <2>2, <2>3, <2>4
<1> HIDE DEF subnet, to, s
<1>15. MixesOK'
  <2>1. CASE staticRoutes' = staticRoutes
    BY <1>1, <2>1 DEF EInv, MixesOK, RouteOK, LinkOf, Mix
  <2>2. CASE \A n \in Nodes : staticRoutes'[n] = IF n = s THEN Append(old, r) ELSE staticRoutes[n]
    <3> SUFFICES ASSUME NEW n \in Nodes, NEW k \in DOMAIN staticRoutes'[n], NEW l \in DOMAIN staticRoutes'[n],
                        staticRoutes'[n][k].destination = staticRoutes'[n][l].destination
                 PROVE  RouteOK(n, Mix(staticRoutes'[n][k], staticRoutes'[n][l]))
      BY <1>1 DEF MixesOK, RouteOK, LinkOf, Mix
    <3>1. CASE n = s
      <4>1. staticRoutes'[n] = Append(old, r)
        BY <2>2, <3>1
      <4>2. \A h \in DOMAIN Append(old, r) :
              Append(old, r)[h] = r \/ \E m \in DOMAIN old : Append(old, r)[h] = old[m]
        BY <1>5, <1>9
      <4>. QED  BY <1>14, <3>1, <4>1, <4>2
    <3>2. CASE n # s
      <4>1. staticRoutes'[n] = staticRoutes[n]
        BY <2>2, <3>2
      <4>. QED  BY <4>1 DEF EInv, MixesOK
    <3>. QED  BY <3>1, <3>2
  <2>. QED  BY <1>8, <2>1, <2>2
<1>16. \A n \in Nodes : routingTable[n] = {}
  BY <1>1 DEF EInv, FreshOK
<1>17. TablesOK'
  BY <1>1, <1>16 DEF TablesOK
<1>18. FreshOK'
  <2>1. ASSUME NEW k \in DOMAIN NodeOrder, k > i
        PROVE  staticRoutes'[NodeOrder[k]] = <<>>
    <3>1. NodeOrder[k] # s /\ NodeOrder[k] \in Nodes
      BY <1>2, <2>1, StaticRoutesAssumption DEF EInv, OneElementNetwork
    <3>2. staticRoutes[NodeOrder[k]] = <<>>
      BY <1>1, <2>1 DEF EInv, FreshOK
    <3>. QED  BY <1>8, <3>1, <3>2
  <2>. QED  BY <1>1, <1>16, <2>1 DEF FreshOK
<1>19. SourceOK'
  <2>1. Labelled(F)'
    BY <1>1, <1>10 DEF Labelled, Follows, Open, By, s
  <2>2. \A q : SubnetRouteOK(q) => SubnetRouteOK(q)'
    BY <1>1 DEF SubnetRouteOK, Follows, By, s
  <2>3. \A h \in DOMAIN InterfaceOrder : h < j => h < j'
    BY <1>1, <1>2
  <2>4. /\ j < j' /\ j \in DOMAIN InterfaceOrder /\ to = InterfaceOrder[j]
    BY <1>1, <1>2 DEF to
  <2>5. \A q : q = r \/ (\E k \in DOMAIN old : q = old[k]) =>
          \/ q.destination \in Lans /\ OneRouter(q.destination) /\ SubnetRouteOK(q)'
          \/ \E h \in DOMAIN InterfaceOrder : h < j' /\ q.destination = InterfaceOrder[h]
    BY <1>11, <1>12, <1>13, <2>2, <2>3, <2>4
  <2>6. \A k \in DOMAIN staticRoutes'[s] :
          staticRoutes'[s][k] = r \/ \E h \in DOMAIN old : staticRoutes'[s][k] = old[h]
    <3>1. CASE staticRoutes'[s] = old
      BY <3>1
    <3>2. CASE staticRoutes'[s] = Append(old, r)
      BY <1>5, <1>9, <3>2
    <3>. QED  BY <1>2, <1>8, <3>1, <3>2
  <2>7. \A k \in DOMAIN staticRoutes'[s] : \A q : q = staticRoutes'[s][k] =>
          \/ q.destination \in Lans /\ OneRouter(q.destination) /\ SubnetRouteOK(q)'
          \/ \E h \in DOMAIN InterfaceOrder : h < j' /\ q.destination = InterfaceOrder[h]
    BY <2>5, <2>6
  <2>. QED  BY <1>1, <2>1, <2>7 DEF SourceOK, s
<1>20. PathOK' /\ WalkOK' /\ EnabledOK'
  BY <1>1 DEF EInv, PathOK, WalkOK, EnabledOK, Reverse
<1>. QED  BY <1>15, <1>17, <1>18, <1>19, <1>20 DEF EInv, OneElementNetwork

LEMMA NextSourceEnabled == IInv /\ EInv /\ NextSource => EInv'
<1> SUFFICES ASSUME IInv, EInv, NextSource PROVE EInv'
  OBVIOUS
<1>1. /\ pc = "destination" /\ pc' = "source" /\ i' = i + 1 /\ i \in Nat
      /\ path' = [n \in Nodes |-> None]
      /\ UNCHANGED <<enabledLinks, staticRoutes, routingTable>>
  BY DEF NextSource, NoPaths, IInv, TypeOK
<1>2. DOMAIN NodeOrder \subseteq Nat
  BY StaticRoutesAssumption
<1>3. \A k \in DOMAIN NodeOrder : k > i' \/ k = i' => k > i
  BY <1>1, <1>2
<1>4. FreshOK'
  BY <1>1, <1>3 DEF EInv, FreshOK
<1>5. PathOK' /\ SourceOK' /\ WalkOK'
  BY <1>1 DEF PathOK, SourceOK, WalkOK
<1>. QED  BY <1>1, <1>4, <1>5, RoutesUnchanged DEF EInv

LEMMA EndStaticRoutesEnabled == IInv /\ EInv /\ EndStaticRoutes => EInv'
<1> SUFFICES ASSUME IInv, EInv, EndStaticRoutes PROVE EInv'
  OBVIOUS
<1>1. Len(Autoroutes) = 1 /\ element = 1
  BY StaticRoutesAssumption DEF EInv, OneElementNetwork, IInv, TypeOK
<1>2. /\ pc = "source" /\ pc' = "configure"
      /\ UNCHANGED <<path, enabledLinks, staticRoutes, routingTable>>
  BY <1>1 DEF EndStaticRoutes, pathVars
<1>3. FreshOK' /\ PathOK' /\ SourceOK' /\ WalkOK'
  BY <1>2 DEF EInv, FreshOK, PathOK, SourceOK, WalkOK
<1>. QED  BY <1>2, <1>3, RoutesUnchanged DEF EInv

LEMMA ConfigureRouteEnabled == IInv /\ EInv /\ ConfigureRoute => EInv'
<1> SUFFICES ASSUME IInv, EInv, ConfigureRoute PROVE EInv'
  OBVIOUS
<1> DEFINE s == sourceNode
           table == routingTable[s]
           route == staticRoutes[s][j]
           same == {r \in table : r.destination = route.destination}
<1>1. /\ pc = "configure" /\ pc' = "configure"
      /\ UNCHANGED <<path, enabledLinks, staticRoutes>>
      /\ routingTable' = [routingTable EXCEPT ![s] = Merged(@, route)]
  BY DEF ConfigureRoute, pathVars
<1>2. s \in Nodes /\ j \in DOMAIN staticRoutes[s] /\ route \in Route /\ table \in SUBSET Route
      /\ staticRoutes[s] \in Seq(Route)
  <2>1. s \in Nodes
    BY SourceIsNode DEF IInv, ConfigureRoute
  <2>2. staticRoutes[s] \in Seq(Route) /\ table \in SUBSET Route /\ j \in Nat \ {0} /\ j <= Len(staticRoutes[s])
    BY <2>1 DEF IInv, TypeOK, ConfigureRoute
  <2>. QED  BY <2>1, <2>2
<1>3. \A n \in Nodes : routingTable'[n] = IF n = s THEN Merged(table, route) ELSE routingTable[n]
  <2> HIDE DEF s
  <2>. QED  BY <1>1, <1>2 DEF IInv, TypeOK
<1>4. ASSUME NEW e \in Merged(table, route)
      PROVE  \E k, l \in DOMAIN staticRoutes[s] :
               /\ staticRoutes[s][k].destination = staticRoutes[s][l].destination
               /\ e = Mix(staticRoutes[s][k], staticRoutes[s][l])
  <2>1. \A q \in table : \E k, l \in DOMAIN staticRoutes[s] :
          /\ staticRoutes[s][k].destination = staticRoutes[s][l].destination
          /\ q = Mix(staticRoutes[s][k], staticRoutes[s][l])
    BY <1>2 DEF EInv, TablesOK
  <2>2. \/ e \in table
        \/ e = route
        \/ \E q \in same : e = [q EXCEPT !.gateway = route.gateway]
    BY <1>4 DEF Merged
  <2>3. CASE e \in table
    BY <2>1, <2>3
  <2>4. CASE e = route
    <3>1. Mix(route, route) = route
      BY <1>2 DEF Mix, Route
    <3>. QED  BY <1>2, <2>4, <3>1
  <2>5. CASE \E q \in same : e = [q EXCEPT !.gateway = route.gateway]
    <3>1. PICK q \in same : e = [q EXCEPT !.gateway = route.gateway]
      BY <2>5
    <3>2. PICK k \in DOMAIN staticRoutes[s], l \in DOMAIN staticRoutes[s] : q = Mix(staticRoutes[s][k], staticRoutes[s][l])
      BY <2>1, <3>1
    <3>3. staticRoutes[s][k] \in Route /\ staticRoutes[s][l] \in Route
      BY <1>2, <3>2
    <3>4. q.destination = staticRoutes[s][k].destination /\ q.destination = route.destination
      BY <3>1, <3>2, <3>3 DEF Mix, Route
    <3>5. e = Mix(staticRoutes[s][k], route)
      BY <3>1, <3>2, <3>3 DEF Mix, Route
    <3>. QED  BY <1>2, <3>4, <3>5
  <2>. QED  BY <2>2, <2>3, <2>4, <2>5
<1>5. TablesOK'
  <2>1. ASSUME NEW n \in Nodes, NEW e \in routingTable'[n]
        PROVE  \E k, l \in DOMAIN staticRoutes[n] :
                 /\ staticRoutes[n][k].destination = staticRoutes[n][l].destination
                 /\ e = Mix(staticRoutes[n][k], staticRoutes[n][l])
    <3>1. CASE n = s
      BY <1>3, <1>4, <2>1, <3>1
    <3>2. CASE n # s
      BY <1>3, <2>1, <3>2 DEF EInv, TablesOK
    <3>. QED  BY <3>1, <3>2
  <2>. QED  BY <1>1, <2>1 DEF TablesOK, Mix
<1>6. MixesOK'
  BY <1>1 DEF EInv, MixesOK, RouteOK, LinkOf, Mix
<1>7. FreshOK' /\ PathOK' /\ SourceOK' /\ WalkOK' /\ EnabledOK'
  BY <1>1 DEF EInv, FreshOK, PathOK, SourceOK, WalkOK, EnabledOK, Reverse
<1>. QED  BY <1>5, <1>6, <1>7 DEF EInv, OneElementNetwork

LEMMA ClearTopologyEnabled == IInv /\ EInv /\ ClearTopology => EInv'
<1> SUFFICES ASSUME IInv, EInv, ClearTopology PROVE EInv'
  OBVIOUS
<1>1. /\ pc = "clear" /\ pc' = "weights" /\ enabledLinks' = Links
      /\ \A n \in Nodes : routingTable'[n] = {} /\ staticRoutes'[n] = <<>>
      /\ path' = path /\ enabledLinks \subseteq Links
  BY DEF ClearTopology, pathVars, IInv, TypeOK
<1>2. path = [n \in Nodes |-> None]
  BY <1>1 DEF EInv, FreshOK
<1>3. EnabledOK'
  BY <1>1, ReverseOfLink DEF EnabledOK, Reverse
<1>4. MixesOK'
  <2>1. \A n \in Nodes : DOMAIN staticRoutes'[n] = {}
    BY <1>1
  <2>. QED  BY <2>1 DEF MixesOK
<1>5. TablesOK' /\ FreshOK' /\ SourceOK' /\ WalkOK'
  BY <1>1, <1>2 DEF TablesOK, FreshOK, SourceOK, WalkOK
<1>6. PathOK'
  BY <1>1, <1>2 DEF PathOK
<1>. QED  BY <1>3, <1>4, <1>5, <1>6 DEF EInv, OneElementNetwork

(* The other steps outside the computation of routes.                      *)
LEMMA OtherStepsEnabled ==
  IInv /\ EInv /\ (NextRoutingTable \/ EndConfigure \/ HandleTimer \/ MoveSatellites) => EInv'
<1> SUFFICES ASSUME IInv, EInv, NextRoutingTable \/ EndConfigure \/ HandleTimer \/ MoveSatellites
             PROVE  EInv'
  OBVIOUS
<1>1. Len(Autoroutes) = 1 /\ element = 1
  BY StaticRoutesAssumption DEF EInv, OneElementNetwork, IInv, TypeOK
<1>2. /\ pc \in {"configure", "idle"} /\ pc' \in {"configure", "idle", "clear"}
      /\ UNCHANGED <<path, enabledLinks, staticRoutes, routingTable>>
  BY <1>1 DEF NextRoutingTable, EndConfigure, HandleTimer, MoveSatellites, pathVars, loopVars
<1>3. FreshOK' /\ PathOK' /\ SourceOK' /\ WalkOK'
  BY <1>2 DEF EInv, FreshOK, PathOK, SourceOK, WalkOK
<1>. QED  BY <1>2, <1>3, RoutesUnchanged DEF EInv

LEMMA StutteringEnabled == EInv /\ UNCHANGED vars => EInv'
<1> SUFFICES ASSUME EInv, UNCHANGED vars PROVE EInv'
  OBVIOUS
<1>1. UNCHANGED <<pc, i, j, enabledLinks, path, node, link, staticRoutes, routingTable>>
  BY DEF vars, loopVars, pathVars
<1>2. FreshOK' /\ PathOK'
  BY <1>1 DEF EInv, FreshOK, PathOK
<1>3. sourceNode' = sourceNode
  BY <1>1 DEF sourceNode
<1>4. \A F : Follows(F)' <=> Follows(F)
  BY <1>1, <1>3 DEF Follows, By
<1>5. SourceOK'
  BY <1>1, <1>3, <1>4 DEF EInv, SourceOK, Labelled, SubnetRouteOK, Open
<1>6. WalkOK'
  BY <1>1, <1>3, <1>4 DEF EInv, WalkOK, WayOK
<1>. QED  BY <1>1, <1>2, <1>5, <1>6, RoutesUnchanged DEF EInv

LEMMA EnabledStep == IInv /\ EInv /\ [Next]_vars => EInv'
BY FilterLinksEnabled, SkipSourceEnabled, AddDefaultRoutesEnabled, CalculatePathsEnabled, ShortenPathsEnabled,
   SkipDestinationEnabled, StartWalkEnabled, WalkEnabled, AddRouteEnabled, NextSourceEnabled,
   EndStaticRoutesEnabled, ConfigureRouteEnabled, ClearTopologyEnabled, OtherStepsEnabled, StutteringEnabled
   DEF Next, Configure, AddStaticRoutes, ConfigureAllRoutingTables

(* Between events no route leads over a link that was disabled when the    *)
(* timer last looked, for one autoroute element and any network, sky and   *)
(* costs, with all shortcuts of the computation: the walk comes to the     *)
(* source by a link that is enabled, so the route back is; and the hosts   *)
(* of a LAN, whose routes are merged to one, share their router's way.     *)
(* There is nothing to agree on then: this is so of every entry.           *)
EveryRouteEnabled ==
  pc = "idle" =>
    \A n \in Nodes : \A to \in Interfaces \ InterfacesOf(n) : \A r \in Lookup(n, to) :
      LinkOf(r, to) \in enabledLinks

THEOREM RoutesEnabled == OneElementNetwork /\ Spec => [](EveryRouteEnabled /\ RoutesOnEnabledLinks)
<1>1. IInv /\ EInv => EveryRouteEnabled /\ RoutesOnEnabledLinks
  <2> SUFFICES ASSUME IInv, EInv, NEW n \in Nodes, NEW to \in Interfaces \ InterfacesOf(n),
                      NEW r \in Lookup(n, to)
               PROVE  LinkOf(r, to) \in enabledLinks
    BY DEF EveryRouteEnabled, RoutesOnEnabledLinks
  <2>1. r \in routingTable[n] /\ r.destination \in {to, LanOf[to], Default}
    BY DEF Lookup
  <2>2. RouteOK(n, r)
    BY <2>1 DEF EInv, TablesOK, MixesOK
  <2>. QED  BY <2>1, <2>2 DEF RouteOK
<1>2. OneElementNetwork /\ Init => IInv /\ EInv
  BY InitIInv, EnabledInit
<1>3. IInv /\ EInv /\ [Next]_vars => (IInv /\ EInv)'
  BY NextKeeps, EnabledStep
<1>. QED  BY <1>1, <1>2, <1>3, PTL DEF Spec

=============================================================================
