---------------------------- MODULE StaticRoutes ----------------------------
(***************************************************************************)
(* The configurators that recompute the static routes of a whole network   *)
(* at a timer: SatelliteNetworkConfigurator, for wireless networks, which  *)
(* disables the links that the sky does not allow, and                     *)
(* LeoNetworkConfigurator, which takes every link there is. Both start as  *)
(* INET's Ipv4NetworkConfigurator does, whose parts they use are external  *)
(* here: the addresses, the shortest paths, and the tie between two of     *)
(* them, which is left open.                                               *)
(*                                                                         *)
(* One action is one round of a loop; the loops of one event run to their  *)
(* end before satellites move again. An interface stands for its address   *)
(* and a LAN for the address of its subnet, so that destinations differ    *)
(* as addresses do and have the netmask of their kind.                     *)
(* An operator whose name has an underscore is a faulty variant of the     *)
(* definition that follows it; only the tests of the properties use it.    *)
(***************************************************************************)
EXTENDS Naturals, FiniteSets, Sequences

LOCAL INSTANCE FiniteSetsExt   \* Min

CONSTANTS
  Satellites, GroundStations, Hosts,
  NodeOrder,          \* the nodes as the topology lists them
  InterfaceOrder,     \* their interfaces, node by node, without loopbacks
  NodeOf, LanOf,      \* of an interface
  InterSatelliteLinks,\* pairs of one constellation that NoradA says are linked
  Autoroutes,         \* the autoroute elements of the configuration
  Parameters,         \* the settings considered
  Infinity,           \* the cost "inf"
  Default, None

Nodes == Satellites \union GroundStations \union Hosts

Interfaces == {InterfaceOrder[k] : k \in DOMAIN InterfaceOrder}

Lans == {LanOf[i] : i \in Interfaces}

InterfacesOf(n) == {i \in Interfaces : NodeOf[i] = n}

Links ==
  {l \in [source: Interfaces, destination: Interfaces] :
     LanOf[l.source] = LanOf[l.destination] /\ NodeOf[l.source] # NodeOf[l.destination]}

(* determineGatewayForLink: the one interface of a LAN whose node has      *)
(* others too.                                                             *)
GatewayInterface(lan) ==
  LET routers == {i \in Interfaces : LanOf[i] = lan /\ Cardinality(InterfacesOf(NodeOf[i])) > 1}
  IN  IF Cardinality(routers) = 1 THEN CHOOSE i \in routers : TRUE ELSE None

Setting ==
  [filterLinks: BOOLEAN, addStaticRoutes: BOOLEAN, addSubnetRoutes: BOOLEAN, addDefaultRoutes: BOOLEAN,
   addDirectRoutes: BOOLEAN, enableInterSatelliteLinks: BOOLEAN]

Route ==
  [destination: Interfaces \union Lans \union {Default},
   gateway: Interfaces \union {None},
   interface: Interfaces]

(* A cost attribute is positive.                                           *)
Element ==
  [sourceHosts: SUBSET Nodes, destinationInterfaces: SUBSET Interfaces,
   nodes: Seq([hosts: SUBSET Nodes, cost: 1 .. Infinity]),
   links: Seq([interfaces: SUBSET Interfaces, cost: 1 .. Infinity])]

ASSUME StaticRoutesAssumption ==
  /\ NodeOrder \in Seq(Nodes) /\ InterfaceOrder \in Seq(Interfaces)
  /\ NodeOf \in [Interfaces -> Nodes]
  /\ DOMAIN LanOf = Interfaces
  /\ InterSatelliteLinks \subseteq Satellites \X Satellites
  /\ \A pair \in InterSatelliteLinks : <<pair[2], pair[1]>> \in InterSatelliteLinks
  /\ Parameters \subseteq Setting
  /\ Autoroutes \in Seq(Element) /\ Len(Autoroutes) > 0
  /\ Infinity \in Nat \ {0} /\ None \notin Interfaces

VARIABLES
  par,           \* filterLinks tells the two configurators apart
  isReachable,   \* satellites and the ground stations that see them
  pc, starting,
  element,       \* the autoroute element considered
  i, j,          \* counters of the outer and of the inner loop
  enabledLinks,
  dist,          \* of each node to the source
  path,          \* the first link of each node on its way to the source
  node, link,    \* where the walk to the source has come, by which link
  staticRoutes,  \* computed, of each node
  routingTable   \* of each node

loopVars == <<pc, starting, element, i, j>>
pathVars == <<dist, path, node, link>>
vars == <<par, isReachable, loopVars, enabledLinks, pathVars, staticRoutes, routingTable>>

TypeOK ==
  /\ par \in Parameters
  /\ isReachable \subseteq Satellites \X GroundStations
  /\ pc \in {"clear", "weights", "source", "paths", "destination", "walk", "configure", "idle"}
  /\ starting \in BOOLEAN
  /\ element \in DOMAIN Autoroutes
  /\ i \in 1 .. Len(NodeOrder) + 1 /\ j \in Nat \ {0}
  /\ enabledLinks \subseteq Links
  /\ dist \in [Nodes -> 0 .. Infinity]
  /\ path \in [Nodes -> Links \union {None}]
  /\ node \in Nodes \union {None} /\ link \in Links \union {None}
  /\ staticRoutes \in [Nodes -> Seq(Route)]
  /\ routingTable \in [Nodes -> SUBSET Route]

-----------------------------------------------------------------------------
(* Links and their weights.                                                *)

sourceNode == NodeOrder[i]

Disabled_Upwards(l) ==
  LET from == NodeOf[l.source]
      to   == NodeOf[l.destination]
  IN  /\ par.filterLinks
      /\ \/ from \in GroundStations /\ to \in GroundStations
         \/ from \in GroundStations /\ to \in Satellites /\ <<to, from>> \notin isReachable
         \/ /\ from \in Satellites /\ to \in Satellites
            /\ ~(par.enableInterSatelliteLinks /\ <<from, to>> \in InterSatelliteLinks)

Disabled(l) ==
  LET from == NodeOf[l.source]
      to   == NodeOf[l.destination]
  IN  /\ par.filterLinks
      /\ \/ from \in GroundStations /\ to \in GroundStations
         \/ from \in GroundStations /\ to \in Satellites /\ <<to, from>> \notin isReachable
         \/ from \in Satellites /\ to \in GroundStations /\ <<from, to>> \notin isReachable
         \/ /\ from \in Satellites /\ to \in Satellites
            /\ ~(par.enableInterSatelliteLinks /\ <<from, to>> \in InterSatelliteLinks)

(* The weight of the first matching node element; 0 when there is none.    *)
NodeWeight(n) ==
  LET elements == Autoroutes[element].nodes
      matching == {k \in DOMAIN elements : n \in elements[k].hosts}
  IN  IF matching = {} THEN 0 ELSE elements[Min(matching)].cost

(* A link element matches a link by either end.                            *)
LinkWeight(l) ==
  LET elements == Autoroutes[element].links
      matching == {k \in DOMAIN elements : {l.source, l.destination} \intersect elements[k].interfaces # {}}
  IN  IF matching = {} THEN 1 ELSE elements[Min(matching)].cost

(* Distance to s over link l, dest being dist's node at its far end.       *)
DistanceBy(l, d, s) ==
  LET next == NodeOf[l.destination]
      sum  == d[next] + LinkWeight(l) + (IF next = s THEN 0 ELSE NodeWeight(next))
  IN  IF sum < Infinity THEN sum ELSE Infinity

(* The distances with the links out of every node considered once more.    *)
Relaxed(s) ==
  [n \in Nodes |->
     Min({dist[n]} \union {DistanceBy(l, dist, s) : l \in {m \in enabledLinks : NodeOf[m.source] = n}})]

(* The links a node may have as its first on a shortest path.              *)
ShortestLinks(n, s) ==
  {l \in enabledLinks : NodeOf[l.source] = n /\ DistanceBy(l, dist, s) = dist[n]}

-----------------------------------------------------------------------------
(* initialize and addStaticRoutes.                                         *)

NoPaths ==
  /\ dist' = [n \in Nodes |-> Infinity] /\ path' = [n \in Nodes |-> None]
  /\ node' = None /\ link' = None

Init ==
  /\ par \in Parameters
  /\ isReachable \in SUBSET (Satellites \X GroundStations)
  /\ pc = IF par.addStaticRoutes THEN "weights" ELSE "configure"
  /\ starting = TRUE /\ element = 1 /\ i = 1 /\ j = 1
  /\ enabledLinks = Links
  /\ dist = [n \in Nodes |-> Infinity] /\ path = [n \in Nodes |-> None]
  /\ node = None /\ link = None
  /\ staticRoutes = [n \in Nodes |-> <<>>]
  /\ routingTable = [n \in Nodes |-> {}]

FilterLinks ==
  /\ pc = "weights"
  /\ enabledLinks' = {l \in enabledLinks : ~Disabled(l)}
  /\ pc' = "source" /\ i' = 1
  /\ UNCHANGED <<par, isReachable, starting, element, j, pathVars, staticRoutes, routingTable>>

SkipSource ==
  /\ pc = "source" /\ i <= Len(NodeOrder)
  /\ sourceNode \notin Autoroutes[element].sourceHosts
  /\ i' = i + 1
  /\ UNCHANGED <<par, isReachable, pc, starting, element, j, enabledLinks, pathVars, staticRoutes, routingTable>>

(* A node that has nothing but one way out needs no more than that.        *)
DefaultRouteSuffices(n) ==
  /\ par.addDefaultRoutes
  /\ \E out \in InterfacesOf(n) : InterfacesOf(n) = {out} /\ GatewayInterface(LanOf[out]) # None

DefaultRoutes(n) ==
  LET out == CHOOSE out \in InterfacesOf(n) : TRUE
  IN  (IF par.addDirectRoutes
       THEN <<[destination |-> LanOf[out], gateway |-> None, interface |-> out]>> ELSE <<>>)
        \o <<[destination |-> Default, gateway |-> GatewayInterface(LanOf[out]), interface |-> out]>>

AddDefaultRoutes ==
  /\ pc = "source" /\ i <= Len(NodeOrder)
  /\ sourceNode \in Autoroutes[element].sourceHosts
  /\ DefaultRouteSuffices(sourceNode)
  /\ staticRoutes' = [staticRoutes EXCEPT ![sourceNode] = @ \o DefaultRoutes(sourceNode)]
  /\ i' = i + 1
  /\ UNCHANGED <<par, isReachable, pc, starting, element, j, enabledLinks, pathVars, routingTable>>

(* calculateWeightedSingleShortestPathsTo.                                 *)
CalculatePaths ==
  /\ pc = "source" /\ i <= Len(NodeOrder)
  /\ sourceNode \in Autoroutes[element].sourceHosts
  /\ ~DefaultRouteSuffices(sourceNode)
  /\ dist' = [n \in Nodes |-> IF n = sourceNode THEN 0 ELSE Infinity]
  /\ pc' = "paths"
  /\ UNCHANGED <<par, isReachable, starting, element, i, j, enabledLinks, path, node, link, staticRoutes, routingTable>>

ShortenPaths ==
  /\ pc = "paths"
  /\ dist' = Relaxed(sourceNode)
  /\ pc' = IF dist' = dist THEN "destination" ELSE "paths"
  /\ UNCHANGED <<par, isReachable, starting, element, i, j, enabledLinks, path, node, link, staticRoutes, routingTable>>

(* The code walks from each node once, and here from each interface.       *)
SkipDestination ==
  /\ pc = "destination" /\ j <= Len(InterfaceOrder)
  /\ LET to == InterfaceOrder[j]
     IN  \/ NodeOf[to] = sourceNode
         \/ dist[NodeOf[to]] = Infinity
         \/ to \notin Autoroutes[element].destinationInterfaces
  /\ j' = j + 1
  /\ UNCHANGED <<par, isReachable, pc, starting, element, i, enabledLinks, pathVars, staticRoutes, routingTable>>

StartWalk ==
  /\ pc = "destination" /\ j <= Len(InterfaceOrder)
  /\ LET to == InterfaceOrder[j]
     IN  /\ NodeOf[to] # sourceNode
         /\ dist[NodeOf[to]] # Infinity
         /\ to \in Autoroutes[element].destinationInterfaces
         /\ node' = NodeOf[to]
  /\ pc' = "walk"
  /\ UNCHANGED <<par, isReachable, starting, element, i, j, enabledLinks, dist, path, link, staticRoutes, routingTable>>

(* The paths have been chosen by then; of those of one length the choice   *)
(* is made when a walk first meets it, and kept for the other walks.       *)
Walk ==
  /\ pc = "walk" /\ node # sourceNode
  /\ \E l \in IF path[node] = None THEN ShortestLinks(node, sourceNode) ELSE {path[node]} :
       /\ path' = [path EXCEPT ![node] = l]
       /\ link' = l
       /\ node' = NodeOf[l.destination]
  /\ UNCHANGED <<par, isReachable, loopVars, enabledLinks, dist, staticRoutes, routingTable>>

RouteTo_AnySubnet(to) ==
  [destination |-> IF par.addSubnetRoutes THEN LanOf[to] ELSE to,
   gateway     |-> IF link.source = to THEN None ELSE link.source,
   interface   |-> link.destination]

(* The route is the walk's last link taken backwards.                      *)
RouteTo(to) ==
  LET subnet == /\ par.addSubnetRoutes
                /\ InterfacesOf(NodeOf[to]) = {to} /\ GatewayInterface(LanOf[to]) # None
  IN  [destination |-> IF subnet THEN LanOf[to] ELSE to,
       gateway     |-> IF link.source = to THEN None ELSE link.source,
       interface   |-> link.destination]

AddRoute ==
  /\ pc = "walk" /\ node = sourceNode
  /\ LET route     == RouteTo(InterfaceOrder[j])
         contained == \E k \in DOMAIN staticRoutes[sourceNode] : staticRoutes[sourceNode][k] = route
     IN  staticRoutes' =
           IF contained \/ (~par.addDirectRoutes /\ route.gateway = None) THEN staticRoutes
           ELSE [staticRoutes EXCEPT ![sourceNode] = Append(@, route)]
  /\ pc' = "destination" /\ j' = j + 1
  /\ node' = None /\ link' = None
  /\ UNCHANGED <<par, isReachable, starting, element, i, enabledLinks, dist, path, routingTable>>

NextSource ==
  /\ pc = "destination" /\ j > Len(InterfaceOrder)
  /\ pc' = "source" /\ i' = i + 1 /\ j' = 1
  /\ NoPaths
  /\ UNCHANGED <<par, isReachable, starting, element, enabledLinks, staticRoutes, routingTable>>

(* At start all elements are considered before the tables are configured.  *)
EndStaticRoutes ==
  /\ pc = "source" /\ i > Len(NodeOrder)
  /\ i' = 1
  /\ IF starting /\ element < Len(Autoroutes)
     THEN pc' = "weights" /\ element' = element + 1
     ELSE pc' = "configure" /\ UNCHANGED element
  /\ UNCHANGED <<par, isReachable, starting, j, enabledLinks, pathVars, staticRoutes, routingTable>>

-----------------------------------------------------------------------------
(* configureRoutingTable and the timer.                                    *)

Merged_Appended(table, route) == table \union {route}

(* A route the table has the destination of only gets a new next hop.      *)
Merged(table, route) ==
  LET same == {r \in table : r.destination = route.destination}
  IN  IF same = {} THEN table \union {route}
      ELSE (table \ same) \union {[r EXCEPT !.gateway = route.gateway] : r \in same}

ConfigureRoute ==
  /\ pc = "configure" /\ i <= Len(NodeOrder) /\ j <= Len(staticRoutes[sourceNode])
  /\ routingTable' = [routingTable EXCEPT ![sourceNode] = Merged(@, staticRoutes[sourceNode][j])]
  /\ j' = j + 1
  /\ UNCHANGED <<par, isReachable, pc, starting, element, i, enabledLinks, pathVars, staticRoutes>>

NextRoutingTable ==
  /\ pc = "configure" /\ i <= Len(NodeOrder) /\ j > Len(staticRoutes[sourceNode])
  /\ i' = i + 1 /\ j' = 1
  /\ UNCHANGED <<par, isReachable, pc, starting, element, enabledLinks, pathVars, staticRoutes, routingTable>>

EndConfigure_NoEnd ==
  /\ pc = "configure" /\ i > Len(NodeOrder)
  /\ i' = 1 /\ starting' = FALSE
  /\ IF ~starting
     THEN pc' = "clear" /\ element' = element + 1
     ELSE pc' = "idle" /\ element' = 1
  /\ UNCHANGED <<par, isReachable, j, enabledLinks, pathVars, staticRoutes, routingTable>>

(* At the timer each element has an invocation of its own.                 *)
EndConfigure ==
  /\ pc = "configure" /\ i > Len(NodeOrder)
  /\ i' = 1 /\ starting' = FALSE
  /\ IF ~starting /\ element < Len(Autoroutes)
     THEN pc' = "clear" /\ element' = element + 1
     ELSE pc' = "idle" /\ element' = 1
  /\ UNCHANGED <<par, isReachable, j, enabledLinks, pathVars, staticRoutes, routingTable>>

HandleTimer ==
  /\ pc = "idle"
  /\ pc' = "clear"
  /\ UNCHANGED <<par, isReachable, starting, element, i, j, enabledLinks, pathVars, staticRoutes, routingTable>>

ClearTopology_TablesKept ==
  /\ pc = "clear"
  /\ staticRoutes' = [n \in Nodes |-> <<>>]
  /\ enabledLinks' = Links
  /\ pc' = "weights"
  /\ UNCHANGED <<par, isReachable, starting, element, i, j, pathVars, routingTable>>

(* reinvokeConfigurator up to the extracted topology, whose links are new. *)
ClearTopology ==
  /\ pc = "clear"
  /\ routingTable' = [n \in Nodes |-> {}]
  /\ staticRoutes' = [n \in Nodes |-> <<>>]
  /\ enabledLinks' = Links
  /\ pc' = "weights"
  /\ UNCHANGED <<par, isReachable, starting, element, i, j, pathVars>>

(* Satellites move by timers of their own, between the events here.        *)
MoveSatellites ==
  /\ pc = "idle"
  /\ \E sky \in SUBSET (Satellites \X GroundStations) : isReachable' = sky
  /\ UNCHANGED <<par, loopVars, enabledLinks, pathVars, staticRoutes, routingTable>>

AddStaticRoutes ==
  \/ FilterLinks
  \/ SkipSource
  \/ AddDefaultRoutes
  \/ CalculatePaths
  \/ ShortenPaths
  \/ SkipDestination
  \/ StartWalk
  \/ Walk
  \/ AddRoute
  \/ NextSource
  \/ EndStaticRoutes

ConfigureAllRoutingTables ==
  \/ ConfigureRoute
  \/ NextRoutingTable
  \/ EndConfigure

Configure == HandleTimer \/ ClearTopology \/ AddStaticRoutes \/ ConfigureAllRoutingTables

Next == Configure \/ MoveSatellites

(* The timer is rescheduled at the end of its handler and loops end.       *)
Spec == Init /\ [][Next]_vars /\ WF_vars(Configure)

-----------------------------------------------------------------------------
(* Properties.                                                             *)

(* The route a node takes for a destination, by longest prefix, as a set   *)
(* with at most one element unless the table has two of one destination.   *)
Lookup(n, to) ==
  LET matching(destination) == {r \in routingTable[n] : r.destination = destination}
  IN  IF matching(to) # {} THEN matching(to)
      ELSE IF matching(LanOf[to]) # {} THEN matching(LanOf[to])
      ELSE matching(Default)

(* The link on which a route sends a packet.                               *)
LinkOf(route, to) ==
  [source |-> route.interface, destination |-> IF route.gateway = None THEN to ELSE route.gateway]

(* Whether packets from a node for an interface get there over some links. *)
Arrives(n, to, links) ==
  LET at[k \in 0 .. Cardinality(Nodes)] ==
        IF k = 0 THEN n
        ELSE LET last == at[k - 1]
                 next == {LinkOf(r, to) : r \in Lookup(last, to)} \intersect links
             IN  IF last = NodeOf[to] \/ next = {} THEN last
                 ELSE NodeOf[(CHOOSE l \in next : TRUE).destination]
  IN  at[Cardinality(Nodes)] = NodeOf[to]

(* The nodes that usable links of those join a node to, by way of nodes    *)
(* that route.                                                             *)
Joined(n, links) ==
  LET by[k \in 0 .. Cardinality(Nodes)] ==
        IF k = 0 THEN {n}
        ELSE LET last    == by[k - 1]
                 usable(l) == /\ NodeOf[l.source] \in last
                              /\ LinkWeight(l) < Infinity
                              /\ NodeOf[l.source] = n \/ NodeWeight(NodeOf[l.source]) < Infinity
             IN  last \union {NodeOf[l.destination] : l \in {m \in links : usable(m)}}
  IN  by[Cardinality(Nodes)]

Delivering(links) ==
  \A n \in Nodes : \A to \in Interfaces : Arrives(n, to, links) <=> NodeOf[to] \in Joined(n, links)

(* All routes computed for a destination leave by the same interface.      *)
OneWay(n, destination) ==
  \A k, l \in DOMAIN staticRoutes[n] :
    staticRoutes[n][k].destination = destination /\ staticRoutes[n][l].destination = destination
      => staticRoutes[n][k].interface = staticRoutes[n][l].interface

(* A destination is in a table once, so that a route computed for it       *)
(* meets at most one entry and its unused copy is deleted once only.       *)
OneRoutePerDestination ==
  \A n \in Nodes : \A r, s \in routingTable[n] : r.destination = s.destination => r = s

(* Between events no route leads over a link that the sky did not allow    *)
(* when the timer last looked: the interface and the next hop of an entry  *)
(* are the two ends of one enabled link, in this direction. At start the   *)
(* routes of several elements meet in one table, where the first gives the *)
(* interface and the last the next hop, so this is said of destinations    *)
(* for which they agree on the interface.                                  *)
RoutesOnEnabledLinks ==
  pc = "idle" =>
    \A n \in Nodes : \A to \in Interfaces \ InterfacesOf(n) : \A r \in Lookup(n, to) :
      OneWay(n, r.destination) => LinkOf(r, to) \in enabledLinks

(* Between events the tables of all nodes together lead a packet from any  *)
(* node to any other one that usable links join it to, without a loop,     *)
(* though each node computed its paths on its own, unless elements that    *)
(* disagree on an interface have met in some table.                        *)
PacketsReachDestinations ==
  /\ pc = "idle" /\ par.addStaticRoutes /\ par.addDirectRoutes
  /\ \A n \in Nodes : \A r \in routingTable[n] : OneWay(n, r.destination)
  => Delivering(enabledLinks)

(* Once the sky stays as it is the tables come to be those of this sky     *)
(* again and again: every route leads over a link that it allows, and      *)
(* packets get exactly where those links join their source to. Nothing is  *)
(* left of routes for an earlier sky, nor of elements that disagreed.      *)
TablesFollowSky ==
  <>[][FALSE]_isReachable => []<>
    LET allowed == {l \in Links : ~Disabled(l)}
    IN  /\ pc = "idle"
        /\ \A n \in Nodes : \A to \in Interfaces \ InterfacesOf(n) : \A r \in Lookup(n, to) :
              LinkOf(r, to) \in allowed
        /\ par.addDirectRoutes => Delivering(allowed)

(* Every host that an autoroute element names as a source has routes to    *)
(* the destinations of that element, at start and after every timer.       *)
AllElementsServed ==
  pc = "idle" =>
    \A e \in DOMAIN Autoroutes : \A n \in Autoroutes[e].sourceHosts :
      \A to \in Autoroutes[e].destinationInterfaces : NodeOf[to] \in Joined(n, enabledLinks) \ {n} => Lookup(n, to) # {}

=============================================================================
