----------------------------- MODULE LinkFabric -----------------------------
(***************************************************************************)
(* The links that LeoChannelConstructor creates and removes at run time,   *)
(* and everything that must stay in step with them: the pppg gates of the  *)
(* nodes, the ppp interfaces behind the gates, and in                      *)
(* LeoIpv4NetworkConfigurator the map from addresses to nodes              *)
(* (routerIdMap), the next-hop interface matrix and the endpoint tables.   *)
(*                                                                         *)
(* A gate that loses its link keeps its interface, crashed, and a later    *)
(* link of any kind may take the gate and start the interface again. So a  *)
(* gate serves a ground station at one time and a user terminal at another, *)
(* and each of the tables is updated on a different path for the two.      *)
(*                                                                         *)
(* An interface, its address (the module id) and its interface id are all  *)
(* identified with the node and the index of its gate, from 1. Which links *)
(* there should be is the environment's choice: the sky decides for ground *)
(* stations, and UserTerminalHandover, with the sky, for user terminals.   *)
(* The table of names (NodeNumbers) is complete: where a run could not     *)
(* create its file of names, addresses of routers stay unknown.            *)
(* An operator whose name has an underscore is a faulty variant of the     *)
(* definition that follows it; only the tests of the properties use it.    *)
(***************************************************************************)
EXTENDS Naturals, FiniteSets, Sequences, SequencesExt

CONSTANTS
  Satellites, GroundStations, UserTerminals,
  EndUsers,             \* clients and servers
  ConnectModule,        \* the ground station that an end user is wired to
  InterSatelliteLinks,  \* sequence of pairs of satellites, in the order of their creation
  Free                  \* what a gate that is not connected leads to

Endpoints == UserTerminals \union EndUsers
Routers   == Satellites \union GroundStations
Nodes     == Routers \union Endpoints

ASSUME FabricAssumption ==
  /\ IsFiniteSet(Nodes) /\ Free \notin Nodes
  /\ Satellites \intersect GroundStations = {} /\ UserTerminals \intersect EndUsers = {}
  /\ Routers \intersect Endpoints = {}
  /\ ConnectModule \in [EndUsers -> GroundStations]
  /\ InterSatelliteLinks \in Seq(Satellites \X Satellites)

VARIABLES
  fabric,              \* gates, interfaces and the configurator's per-interface tables
  groundStationLinks,  \* activeGroundStationLinks: pairs <<ground station, satellite>>
  userTerminalLinks,   \* activeUserTerminalLinks: satellite of each terminal, or Free
  endpointTable,       \* the configurator's endpoint tables
  started

fabricVars == <<fabric, groundStationLinks, userTerminalLinks, endpointTable, started>>

NoInterface == 0

LastOf(S) == CHOOSE i \in S : \A j \in S : j <= i

-----------------------------------------------------------------------------
(* Gates. fabric.gate[n] lists the nodes that the gates of n lead to.      *)

GatesTo(f, n, m) == {i \in DOMAIN f.gate[n] : f.gate[n][i] = m}

(* The gate of n that leads to m; there is one link between them.          *)
GateTo(f, n, m) == CHOOSE i \in GatesTo(f, n, m) : TRUE

NextFreeGate_AlwaysNew(f, n) == Len(f.gate[n]) + 1

(* getNextFreeGate: the first gate without a connection, or a new one.     *)
NextFreeGate(f, n) ==
  IF GatesTo(f, n, Free) = {} THEN Len(f.gate[n]) + 1
  ELSE CHOOSE i \in GatesTo(f, n, Free) : \A j \in GatesTo(f, n, Free) : i <= j

PlugIn(gates, i, m) == IF i > Len(gates) THEN Append(gates, m) ELSE [gates EXCEPT ![i] = m]

(* Two channels, from a free gate of each node to the other.               *)
Connect(f, a, b) ==
  LET one == [f EXCEPT !.gate[a] = PlugIn(@, NextFreeGate(f, a), b)]
  IN  [one EXCEPT !.gate[b] = PlugIn(@, NextFreeGate(one, b), a)]

Disconnect_GatesDeleted(f, a, b) ==
  [f EXCEPT !.gate[a] = RemoveAt(@, GateTo(f, a, b)), !.gate[b] = RemoveAt(@, GateTo(f, b, a))]

(* The gates are disconnected, the addresses of their interfaces forgotten *)
(* and the interfaces crashed.                                             *)
Disconnect(f, a, b) ==
  LET i == GateTo(f, a, b)
      j == GateTo(f, b, a)
  IN  [f EXCEPT !.gate[a][i] = Free, !.gate[b][j] = Free,
                !.up[a] = @ \ {i}, !.up[b] = @ \ {j},
                !.routerId[a] = @ \ {i}, !.routerId[b] = @ \ {j}]

HasInterface(f, n, i) == i <= f.ppp[n]

-----------------------------------------------------------------------------
(* Links.                                                                  *)

(* The interface of node a towards b, if its gate has one from an earlier  *)
(* link, is started and entered into the next-hop matrix and address map.  *)
ReviveInterface(f, a, b) ==
  LET i == GateTo(f, a, b)
  IN  IF HasInterface(f, a, i)
      THEN [f EXCEPT !.up[a] = @ \union {i}, !.routerId[a] = @ \union {i},
                     !.nextHopInterface[a][b] = i]
      ELSE f

CreateGroundStationLink(f, gs, sat) ==
  LET c == Connect(f, sat, gs)
      r == ReviveInterface(ReviveInterface(c, sat, gs), gs, sat)
  IN  [r EXCEPT !.dirtyPppModules = @ \union {sat, gs}]

RemoveGroundStationLink_MatrixKept(f, gs, sat) == Disconnect(f, gs, sat)

RemoveGroundStationLink(f, gs, sat) ==
  Disconnect([f EXCEPT !.nextHopInterface[gs][sat] = NoInterface,
                       !.nextHopInterface[sat][gs] = NoInterface], gs, sat)

CreateUserTerminalLink(f, ut, sat) ==
  [Connect(f, sat, ut) EXCEPT !.dirtyPppModules = @ \union {sat, ut}]

RemoveUserTerminalLink(f, ut, sat) == Disconnect(f, ut, sat)

(* Which functions make and remove a link is told by the node it is listed *)
(* under.                                                                  *)
CreateLink(f, p) ==
  CASE p[1] \in GroundStations -> CreateGroundStationLink(f, p[1], p[2])
    [] p[1] \in UserTerminals -> CreateUserTerminalLink(f, p[1], p[2])
    [] p[1] \in EndUsers \union Satellites -> Connect(f, p[1], p[2])

RemoveLink(f, p) ==
  IF p[1] \in GroundStations THEN RemoveGroundStationLink(f, p[1], p[2])
  ELSE RemoveUserTerminalLink(f, p[1], p[2])

(* The loops over links: one after the other is created, if it is to be,   *)
(* or else removed.                                                        *)
ChangeLinks(f, pairs, wanted) ==
  LET after[k \in 0 .. Len(pairs)] ==
        IF k = 0 THEN f
        ELSE IF pairs[k] \in wanted THEN CreateLink(after[k - 1], pairs[k])
        ELSE RemoveLink(after[k - 1], pairs[k])
  IN  after[Len(pairs)]

Wires == {<<e, ConnectModule[e]>> : e \in EndUsers}

(* setUpSimulation: end users are wired to their ground stations, then the *)
(* satellites to their neighbours in the grid.                             *)
SetUpSimulation(f) ==
  LET pairs == SetToSeq(Wires) \o InterSatelliteLinks
  IN  ChangeLinks(f, pairs, Range(pairs))

(* setUpGSLinks: in turn, each pair that has become reachable gets a link  *)
(* and each that is no longer reachable loses it.                          *)
SetUpGSLinks(f, links, reachable) ==
  ChangeLinks(f, SetToSeq((links \ reachable) \union (reachable \ links)), reachable)

RemoveUserTerminalLinks(f, lost) == ChangeLinks(f, SetToSeq(lost), {})

CreateUserTerminalLinks(f, created) == ChangeLinks(f, SetToSeq(created), created)

(* A table of the user terminals' satellites as a set of links.            *)
TerminalLinks(links) == {<<ut, links[ut]>> : ut \in {x \in UserTerminals : links[x] # Free}}

-----------------------------------------------------------------------------
(* Interfaces.                                                             *)

UpdatePPPModules_VectorNotResized(f, nodes, addToGraph) ==
  [f EXCEPT !.up = [n \in Nodes |-> IF n \in nodes THEN @[n] \union ((f.ppp[n] + 1) .. Len(f.gate[n]))
                                                  ELSE @[n]]]

(* updatePPPModules, for some nodes in turn: a new interface, running and  *)
(* with an address, for each gate that has none. Those of addToGraph are   *)
(* entered into the configurator. All entries are of the node itself.      *)
UpdatePPPModules(f, nodes, addToGraph) ==
  LET new(n) == IF n \in nodes THEN (f.ppp[n] + 1) .. Len(f.gate[n]) ELSE {}
      known(n) == IF n \in addToGraph THEN new(n) ELSE {}
      towards(n, m) == known(n) \intersect GatesTo(f, n, m)
  IN  [f EXCEPT
         !.ppp = [n \in Nodes |-> IF n \in nodes THEN Len(f.gate[n]) ELSE f.ppp[n]],
         !.up = [n \in Nodes |-> f.up[n] \union new(n)],
         !.routerId = [n \in Nodes |-> f.routerId[n] \union known(n)],
         !.nextHopInterface =
            [n \in Nodes |-> [m \in Nodes |->
               IF towards(n, m) = {} THEN f.nextHopInterface[n][m] ELSE LastOf(towards(n, m))]]]

(* setUpInterfaces, at the start: all nodes, the endpoints outside the graph. *)
SetUpInterfaces(f) == UpdatePPPModules(f, Nodes, Routers)

AddPPPInterfaces(f) ==
  [UpdatePPPModules(f, f.dirtyPppModules, f.dirtyPppModules) EXCEPT !.dirtyPppModules = {}]

(* fillNextHopInterfaceMap, at the start: the address of every connected   *)
(* interface, and for every router the last interface to each neighbour.   *)
FillNextHopInterfaceMap(f) ==
  LET towards(n, m) == {i \in GatesTo(f, n, m) : HasInterface(f, n, i)}
      connected(n)  == UNION {towards(n, m) : m \in Nodes}
  IN  [f EXCEPT
         !.routerId = [n \in Nodes |-> f.routerId[n] \union connected(n)],
         !.nextHopInterface =
            [n \in Nodes |-> [m \in Nodes |->
               IF n \in Routers /\ towards(n, m) # {} THEN LastOf(towards(n, m))
               ELSE f.nextHopInterface[n][m]]]]

FinalizeUserTerminalLinks_TerminalOnly(f, links) ==
  LET finished(n) == {GateTo(f, n, m) : m \in {x \in Nodes : <<n, x>> \in TerminalLinks(links)}}
  IN  [f EXCEPT !.up = [n \in Nodes |-> f.up[n] \union finished(n)],
                !.routerId = [n \in Nodes |-> f.routerId[n] \union finished(n)]]

(* finalizeUserTerminalLinks: both interfaces of every active link of a    *)
(* user terminal are started and their addresses entered.                  *)
FinalizeUserTerminalLinks(f, links) ==
  LET active == TerminalLinks(links)
      finished(n) ==
        {i \in {GateTo(f, n, m) : m \in {x \in Nodes : <<n, x>> \in active \/ <<x, n>> \in active}} :
           HasInterface(f, n, i)}
  IN  [f EXCEPT !.up = [n \in Nodes |-> f.up[n] \union finished(n)],
                !.routerId = [n \in Nodes |-> f.routerId[n] \union finished(n)]]

Detached == [node |-> Free, attachment |-> NoInterface, uplink |-> NoInterface]

EndpointTables_SameIndex(f) ==
  [e \in Endpoints |->
     LET usable == {i \in DOMAIN f.gate[e] : f.gate[e][i] # Free /\ HasInterface(f, e, i)}
         first  == CHOOSE i \in usable : \A j \in usable : i <= j
     IN  IF usable = {} THEN Detached
         ELSE [node |-> f.gate[e][first], attachment |-> first, uplink |-> first]]

(* setGroundStationsWithEndpoints: the first connected gate of an endpoint *)
(* with an interface on both sides says where it is attached.              *)
EndpointTables(f) ==
  [e \in Endpoints |->
     LET usable == {i \in DOMAIN f.gate[e] :
                      LET n == f.gate[e][i] IN
                      n # Free /\ HasInterface(f, e, i) /\ HasInterface(f, n, GateTo(f, n, e))}
         first  == CHOOSE i \in usable : \A j \in usable : i <= j
         n      == f.gate[e][first]
     IN  IF usable = {} THEN Detached
         ELSE [node |-> n, attachment |-> GateTo(f, n, e), uplink |-> first]]

-----------------------------------------------------------------------------
(* The events.                                                             *)

Unconnected ==
  [gate |-> [n \in Nodes |-> <<>>], ppp |-> [n \in Nodes |-> 0],
   up |-> [n \in Nodes |-> {}], routerId |-> [n \in Nodes |-> {}],
   nextHopInterface |-> [n \in Nodes |-> [m \in Nodes |-> NoInterface]],
   dirtyPppModules |-> {}]

Init ==
  /\ fabric = Unconnected
  /\ groundStationLinks = {}
  /\ userTerminalLinks = [ut \in UserTerminals |-> Free]
  /\ endpointTable = [e \in Endpoints |-> Detached]
  /\ started = FALSE

(* The event that starts the simulation: links of all kinds at once.       *)
StartSimulation ==
  \E reachable \in SUBSET (GroundStations \X Satellites),
     links \in [UserTerminals -> Satellites \union {Free}] :
    LET created == TerminalLinks(links)
        wired   == SetUpGSLinks(SetUpSimulation(fabric), groundStationLinks, reachable)
        ready   == SetUpInterfaces(CreateUserTerminalLinks(wired, created))
        final   == IF created # {} THEN FinalizeUserTerminalLinks(ready, links) ELSE ready
    IN
    /\ ~started
    /\ started' = TRUE
    /\ fabric' = FillNextHopInterfaceMap(final)
    /\ groundStationLinks' = reachable
    /\ userTerminalLinks' = links
    /\ endpointTable' = EndpointTables(fabric')

(* A hard handover: no terminal loses a link and gets one in one event.    *)
HardHandovers ==
  {links \in [UserTerminals -> Satellites \union {Free}] :
     \A ut \in UserTerminals :
       userTerminalLinks[ut] # Free => links[ut] \in {userTerminalLinks[ut], Free}}

(* What both timers do after the ground-station links are set up: links of *)
(* user terminals are removed, then others created, and the tables that    *)
(* depend on them brought up to date.                                      *)
RefreshLinks(f, links) ==
  LET lost      == TerminalLinks(userTerminalLinks) \ TerminalLinks(links)
      created   == TerminalLinks(links) \ TerminalLinks(userTerminalLinks)
      refreshed == CreateUserTerminalLinks(RemoveUserTerminalLinks(f, lost), created)
      ready     == AddPPPInterfaces(refreshed)
  IN
  /\ fabric' = IF created # {} THEN FinalizeUserTerminalLinks(ready, links) ELSE ready
  /\ userTerminalLinks' = links
  /\ endpointTable' = IF created # {} THEN EndpointTables(fabric')
                      ELSE IF lost # {} THEN EndpointTables(refreshed)
                      ELSE endpointTable

(* handleMessage(updateTimer). *)
HandleUpdateTimer ==
  \E reachable \in SUBSET (GroundStations \X Satellites), links \in HardHandovers :
    /\ started
    /\ RefreshLinks(SetUpGSLinks(fabric, groundStationLinks, reachable), links)
    /\ groundStationLinks' = reachable
    /\ UNCHANGED started

(* handleMessage(userTerminalHandoverTimer): the ground-station links stay. *)
HandleHandoverTimer ==
  \E links \in HardHandovers :
    /\ started
    /\ RefreshLinks(fabric, links)
    /\ UNCHANGED <<groundStationLinks, started>>

Next == StartSimulation \/ HandleUpdateTimer \/ HandleHandoverTimer

Spec == Init /\ [][Next]_fabricVars

-----------------------------------------------------------------------------
(* Properties.                                                             *)

LinkedPairs == groundStationLinks \union TerminalLinks(userTerminalLinks)

(* The ranges of all variables: only the interfaces that a node has run or *)
(* have an address.                                                        *)
TypeOK ==
  /\ fabric.gate \in [Nodes -> Seq(Nodes \union {Free})]
  /\ fabric.ppp \in [Nodes -> Nat]
  /\ \A n \in Nodes : /\ fabric.up[n] \subseteq 1 .. fabric.ppp[n]
                      /\ fabric.routerId[n] \subseteq 1 .. fabric.ppp[n]
  /\ fabric.nextHopInterface \in [Nodes -> [Nodes -> Nat]]
  /\ fabric.dirtyPppModules \subseteq Nodes
  /\ groundStationLinks \subseteq GroundStations \X Satellites
  /\ userTerminalLinks \in [UserTerminals -> Satellites \union {Free}]
  /\ endpointTable \in [Endpoints -> [node: Routers \union {Free}, attachment: Nat, uplink: Nat]]

(* Whatever the history of a gate, after every event its interface runs    *)
(* and its address is known exactly while a link is plugged into it.       *)
InterfacesFollowGates ==
  started => \A n \in Nodes :
    LET connected == {i \in DOMAIN fabric.gate[n] : fabric.gate[n][i] # Free} IN
    /\ fabric.ppp[n] = Len(fabric.gate[n])
    /\ fabric.up[n] = connected
    /\ fabric.routerId[n] = connected

(* The next-hop matrix names, for each pair of routers, an interface that  *)
(* now leads from the one to the other, and none if there is no link: what *)
(* a route of the save run or a record of a route file is resolved with.   *)
NextHopMatrixCurrent ==
  started => \A n, m \in Routers :
    IF GatesTo(fabric, n, m) = {} THEN fabric.nextHopInterface[n][m] = NoInterface
    ELSE fabric.nextHopInterface[n][m] \in GatesTo(fabric, n, m)

(* The endpoint tables give, for each endpoint, the node it is linked to   *)
(* and the two interfaces of that very link.                               *)
EndpointTablesCurrent ==
  started => \A e \in Endpoints :
    LET at == IF e \in EndUsers THEN ConnectModule[e] ELSE userTerminalLinks[e]
        t  == endpointTable[e]
    IN  IF at = Free THEN t = Detached
        ELSE /\ t.node = at
             /\ GatesTo(fabric, at, e) = {t.attachment}
             /\ GatesTo(fabric, e, at) = {t.uplink}

(* The ends of inter-satellite links at n.                                 *)
GridEnds(n) ==
  {end \in (DOMAIN InterSatelliteLinks) \X {1, 2} : InterSatelliteLinks[end[1]][end[2]] = n}

(* Gates are reused: however links come and go, a node never has more of   *)
(* them than it can have links at the same time. A user terminal never has *)
(* a second one, so it keeps its interface and address over all handovers. *)
GatesReused ==
  \A n \in Nodes : Len(fabric.gate[n]) <=
    CASE n \in Satellites -> Cardinality(GroundStations) + Cardinality(UserTerminals)
                             + Cardinality(GridEnds(n))
      [] n \in GroundStations -> Cardinality(Satellites)
                                 + Cardinality({e \in EndUsers : ConnectModule[e] = n})
      [] n \in Endpoints -> 1

(* A link that survives an event keeps its gates, at both ends.            *)
SurvivingLinksUndisturbed ==
  [][\A p \in LinkedPairs \intersect LinkedPairs' :
       /\ GatesTo(fabric, p[1], p[2]) = GatesTo(fabric', p[1], p[2])
       /\ GatesTo(fabric, p[2], p[1]) = GatesTo(fabric', p[2], p[1])]_fabricVars

=============================================================================
