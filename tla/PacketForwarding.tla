-------------------------- MODULE PacketForwarding --------------------------
(***************************************************************************)
(* The forwarding of packets over the links of LinkFabric: the routes that *)
(* LeoIpv4NetworkConfigurator computes for satellites and ground stations, *)
(* or loads from the file that an earlier run saved, the table of outgoing *)
(* interfaces in every LeoIpv4, and the choice of the interface for a      *)
(* packet in LeoIpv4::routeUnicastPacket, which combines that table with   *)
(* the configurator's address map and endpoint tables.                     *)
(*                                                                         *)
(* Routes change only in updates, links of user terminals at any event, so *)
(* between two updates a packet follows routes that are older than the     *)
(* links at the end of its way. A route file holds for each pair of nodes  *)
(* the next hop of each path found, in the order in which igraph lists     *)
(* them. A run that loads files meets the sky of the run that saved them,  *)
(* so the records of a file are those computed for the links of now; but   *)
(* the file for an update may be missing or cut off, which is no error.    *)
(***************************************************************************)
EXTENDS LinkFabric, FiniteSetsExt

CONSTANTS
  IslDelays,     \* the possible propagation delays of an inter-satellite link
  GroundDelays,  \* and of a link to a ground station
  AddressOrder,  \* the satellites in the order of the addresses of their mobility modules
  numOfKPaths,
  LoadFiles      \* the values of the parameter loadFiles

ASSUME ForwardingAssumption ==
  /\ IslDelays \subseteq Nat \ {0} /\ GroundDelays \subseteq Nat \ {0}
  /\ AddressOrder \in Seq(Satellites) /\ ToSet(AddressOrder) = Satellites
  /\ Len(AddressOrder) = Cardinality(Satellites)
  /\ numOfKPaths \in Nat
  /\ LoadFiles \subseteq BOOLEAN

VARIABLES
  loadFiles,                 \* the parameter, fixed for a run
  routes,                    \* "current": computed or loaded in full in the last update;
                             \* "partial": its file was cut off; "old": it had no file
  delay,                     \* of current routes: the propagation delay of each link between
  routeFile,                 \* routers, and the records of the route file
  primaryNextHopInterfaces   \* of each router towards each router

routeVars      == <<routes, delay, routeFile, primaryNextHopInterfaces>>
forwardingVars == <<fabricVars, loadFiles, routeVars>>

-----------------------------------------------------------------------------
(* The graph. Its edges are the inter-satellite links, in the order of the *)
(* satellites' numbers, and then the links of the ground stations.         *)

LinkOf(pair) == {pair[1], pair[2]}

Edges(links) == InterSatelliteLinks \o SetToSeq(links)

RouterLinks(links) == {LinkOf(p) : p \in ToSet(InterSatelliteLinks) \union links}

(* Where the map of the delays has the source satellite of the k-th inter- *)
(* satellite link: its keys are pointers.                                  *)
AddressRank(k) == CHOOSE r \in DOMAIN AddressOrder : AddressOrder[r] = InterSatelliteLinks[k][1]

(* The place of that link when one goes through the map, source by source. *)
PlaceInMap(k) ==
  Cardinality({j \in DOMAIN InterSatelliteLinks :
                 AddressRank(j) < AddressRank(k) \/ (AddressRank(j) = AddressRank(k) /\ j <= k)})

Weights_GroundLinksFirst(links, d) ==
  LET collected == SetToSeq(links) \o InterSatelliteLinks
  IN  [k \in DOMAIN collected |-> d[LinkOf(collected[k])]]

(* igraph takes the weights in a sequence of its own. Those of inter-      *)
(* satellite links are collected by going through the map.                 *)
Weights(links, d) ==
  LET atPlace(k) == CHOOSE j \in DOMAIN InterSatelliteLinks : PlaceInMap(j) = k
  IN  [k \in DOMAIN Edges(links) |->
         d[LinkOf(IF k <= Len(InterSatelliteLinks) THEN InterSatelliteLinks[atPlace(k)]
                  ELSE Edges(links)[k])]]

(* The weight of the best edge between two neighbours.                     *)
EdgeWeights(links, d) ==
  LET edges   == Edges(links)
      weights == Weights(links, d)
  IN  [l \in RouterLinks(links) |-> Min({weights[k] : k \in {j \in DOMAIN edges : LinkOf(edges[j]) = l}})]

RouterPaths ==
  {p \in UNION {[1 .. n -> Routers] : n \in 2 .. Cardinality(Routers)} :
     Cardinality(ToSet(p)) = Len(p)}

PathsBetween(s, t, weight) ==
  {p \in RouterPaths : /\ p[1] = s /\ Last(p) = t
                       /\ \A i \in 1 .. Len(p) - 1 : {p[i], p[i + 1]} \in DOMAIN weight}

PathLength(p, weight) ==
  LET upTo[i \in 1 .. Len(p)] == IF i = 1 THEN 0 ELSE upTo[i - 1] + weight[{p[i - 1], p[i]}]
  IN  upTo[Len(p)]

Shortest(paths, weight) ==
  {p \in paths : \A q \in paths : PathLength(p, weight) <= PathLength(q, weight)}

(* The lists of paths that igraph may return: all shortest paths in some   *)
(* order, or the numOfKPaths shortest ones, shorter ones first.            *)
PathLists(paths, weight) ==
  IF numOfKPaths <= 1 THEN SetToSeqs(Shortest(paths, weight))
  ELSE LET byLength(seq) == \A i, j \in DOMAIN seq :
                              i < j => PathLength(seq[i], weight) <= PathLength(seq[j], weight)
       IN  {SubSeq(seq, 1, Min({numOfKPaths, Len(seq)})) : seq \in {q \in SetToSeqs(paths) : byLength(q)}}

RouterPairs  == {pair \in Routers \X Routers : pair[1] # pair[2]}
PairSequence == SetToSeq(RouterPairs)

(* The records that may be written for a pair: a next hop for each path.   *)
NextHopLists(pair, weight) ==
  {[i \in DOMAIN list |-> list[i][2]] :
     list \in PathLists(PathsBetween(pair[1], pair[2], weight), weight)}

WithRecords(files, pair, weight) ==
  {[f EXCEPT ![pair] = r] : f \in files, r \in NextHopLists(pair, weight)}

(* The records for all pairs.                                              *)
RouteRecords(links, d) ==
  LET weight == EdgeWeights(links, d)
      files[k \in 0 .. Len(PairSequence)] ==
        IF k = 0 THEN [RouterPairs -> {<<>>}]
        ELSE WithRecords(files[k - 1], PairSequence[k], weight)
  IN  files[Len(PairSequence)]

DelaysOf(links) ==
  {d \in [RouterLinks(links) -> IslDelays \union GroundDelays] :
     \A l \in RouterLinks(links) :
       d[l] \in IF l \subseteq Satellites THEN IslDelays ELSE GroundDelays}

-----------------------------------------------------------------------------
(* The tables. addKNextHop enters each record with a rank, and the primary *)
(* next hop is that of the last record with rank 1. A run that computes    *)
(* the routes ranks the paths of one list, loadConfiguration ranks every   *)
(* record 1.                                                               *)

Rank(saving, i) == IF saving /\ numOfKPaths > 1 THEN i ELSE 1

PrimaryHop_LoadKeepsFirst(saving, records) ==
  IF records = <<>> THEN Free ELSE IF saving THEN Last(records) ELSE Head(records)

PrimaryHop(saving, records) ==
  LET primary == {i \in DOMAIN records : Rank(saving, i) = 1}
  IN  IF primary = {} THEN Free ELSE records[Max(primary)]

(* The interface towards the next hop is looked up in the matrix when the  *)
(* route is computed or loaded.                                            *)
InterfaceTables(f, saving, file) ==
  [n \in Routers |-> [m \in Routers |->
     LET hop == IF n = m THEN Free ELSE PrimaryHop(saving, file[<<n, m>>])
     IN  IF hop = Free THEN NoInterface ELSE f.nextHopInterface[n][hop]]]

NewRoutes_TablesNotCleared ==
  /\ routes' = "current"
  /\ delay' \in DelaysOf(groundStationLinks')
  /\ routeFile' \in RouteRecords(groundStationLinks', delay')
  /\ LET found == InterfaceTables(fabric', ~loadFiles, routeFile')
     IN  primaryNextHopInterfaces' = [n \in Routers |-> [m \in Routers |->
           IF found[n][m] = NoInterface THEN primaryNextHopInterfaces[n][m] ELSE found[n][m]]]

(* All tables are cleared (clearNextHops) and filled again.                *)
NewRoutes ==
  /\ routes' = "current"
  /\ delay' \in DelaysOf(groundStationLinks')
  /\ routeFile' \in RouteRecords(groundStationLinks', delay')
  /\ primaryNextHopInterfaces' = InterfaceTables(fabric', ~loadFiles, routeFile')

NoRecords == [pair \in RouterPairs |-> <<>>]

NoRoutes == [n \in Routers |-> [m \in Routers |-> NoInterface]]

(* The beginning of a file: the records of the first pairs and r of those  *)
(* of the k-th.                                                            *)
Beginning(file, k, r) ==
  [pair \in RouterPairs |->
     LET place == CHOOSE j \in DOMAIN PairSequence : PairSequence[j] = pair
     IN  IF place < k THEN file[pair] ELSE IF place = k THEN SubSeq(file[pair], 1, r) ELSE <<>>]

(* loadConfiguration without a whole file.                                 *)
FailToLoad ==
  /\ loadFiles
  /\ delay' = <<>> /\ routeFile' = NoRecords

(* No file for this update: there is a warning, and the tables stay.       *)
RouteFileMissing ==
  /\ FailToLoad
  /\ routes' = "old"
  /\ UNCHANGED primaryNextHopInterfaces

(* The file ends within its header: it takes a warning, too, but by then   *)
(* all tables have been cleared.                                           *)
RouteFileEmpty ==
  /\ FailToLoad
  /\ routes' = "partial"
  /\ primaryNextHopInterfaces' = NoRoutes

(* The file ends after the header and some of its records: no warning, the *)
(* cleared tables get the routes of those.                                 *)
RouteFileCut ==
  /\ FailToLoad
  /\ routes' = "partial"
  /\ LET files == UNION {RouteRecords(groundStationLinks', d) : d \in DelaysOf(groundStationLinks')}
     IN  \E file \in files, k \in DOMAIN PairSequence :
           \E r \in 0 .. Len(file[PairSequence[k]]) - 1 :
             primaryNextHopInterfaces' = InterfaceTables(fabric', FALSE, Beginning(file, k, r))

(* updateForwardingStates, after the links have been changed.              *)
UpdateForwardingStates ==
  /\ NewRoutes \/ RouteFileMissing \/ RouteFileEmpty \/ RouteFileCut
  /\ UNCHANGED loadFiles

ForwardingInit ==
  /\ Init
  /\ loadFiles \in LoadFiles /\ routes = "old"
  /\ delay = <<>> /\ routeFile = NoRecords
  /\ primaryNextHopInterfaces = NoRoutes

ForwardingNext ==
  \/ StartSimulation /\ UpdateForwardingStates
  \/ HandleUpdateTimer /\ UpdateForwardingStates
  \/ HandleHandoverTimer /\ UNCHANGED <<loadFiles, routeVars>>

ForwardingSpec == ForwardingInit /\ [][ForwardingNext]_forwardingVars

-----------------------------------------------------------------------------
AddressKnown(m) == fabric.routerId[m] # {}

PrimaryInterface(n, m) ==
  IF n \in Routers /\ m \in Routers THEN primaryNextHopInterfaces[n][m] ELSE NoInterface

Uplink(n) == IF n \in Endpoints THEN endpointTable[n].uplink ELSE NoInterface

OutgoingInterface_AttachmentForgotten(n, m) ==
  IF m \in Endpoints /\ AddressKnown(m)
  THEN IF n \in Endpoints THEN Uplink(n) ELSE PrimaryInterface(n, endpointTable[m].node)
  ELSE IF AddressKnown(m) /\ PrimaryInterface(n, m) # NoInterface THEN PrimaryInterface(n, m)
  ELSE Uplink(n)

(* routeUnicastPacket: the interface by which node n sends a packet for an *)
(* address of node m.                                                      *)
OutgoingInterface(n, m) ==
  LET attached == endpointTable[m].node
  IN  IF m \in Endpoints /\ AddressKnown(m)
      THEN CASE n = attached -> endpointTable[m].attachment
             [] n # attached /\ n \in Endpoints -> Uplink(n)
             [] n # attached /\ n \in Routers -> PrimaryInterface(n, attached)
      ELSE IF AddressKnown(m) /\ PrimaryInterface(n, m) # NoInterface THEN PrimaryInterface(n, m)
      ELSE Uplink(n)

(* Where the packet gets: the node behind the interface, or Free if the    *)
(* packet is unroutable or the interface is not running.                   *)
NextNode(n, m) ==
  LET i == OutgoingInterface(n, m)
  IN  IF i \in fabric.up[n] THEN fabric.gate[n][i] ELSE Free

(* A packet for m after one more hop: where it is, and the delay between   *)
(* routers that it has met by then.                                        *)
AfterHop(was, m) ==
  LET next == NextNode(was.at, m)
  IN  IF was.at \in {m, Free} THEN was
      ELSE [at |-> next, total |-> IF {was.at, next} \subseteq Routers
                                   THEN was.total + delay[{was.at, next}] ELSE was.total]

(* The packet of n for m after each hop.                                   *)
Journey(n, m) ==
  LET after[hop \in 0 .. Cardinality(Nodes)] ==
        IF hop = 0 THEN [at |-> n, total |-> 0] ELSE AfterHop(after[hop - 1], m)
  IN  after

(* In the end: after as many hops as there are nodes.                      *)
Destination(n, m) == Journey(n, m)[Cardinality(Nodes)].at
TotalDelay(n, m)  == Journey(n, m)[Cardinality(Nodes)].total

-----------------------------------------------------------------------------
(* Properties.                                                             *)

AttachedTo(n) ==
  CASE n \in Routers -> n
    [] n \in EndUsers -> ConnectModule[n]
    [] n \in UserTerminals -> userTerminalLinks[n]

PathExists(n, m) ==
  LET a == AttachedTo(n)
      b == AttachedTo(m)
  IN  /\ Free \notin {a, b}
      /\ a = b \/ \E p \in RouterPaths :
           /\ p[1] = a /\ Last(p) = b
           /\ \A i \in 1 .. Len(p) - 1 : {p[i], p[i + 1]} \in RouterLinks(groundStationLinks)

(* After every event, whether it computed new routes or only moved user    *)
(* terminals, a packet gets from any node to an address of any other node  *)
(* if the network connects the two, and is dropped if not: it is neither   *)
(* lost at a stale interface nor sent in circles. This is so again after   *)
(* any number of updates without a whole route file, with the next one;    *)
(* while routes are old or partial nothing of the kind is said.            *)
PacketsDelivered ==
  routes = "current" => \A n, m \in Nodes :
    (n # m /\ AddressKnown(m)) => Destination(n, m) = IF PathExists(n, m) THEN m ELSE Free

(* No router ever hands a packet for somebody else to a client or server,  *)
(* not even by the oldest route: their gates never change hands. The gate  *)
(* behind an old route may lead to a user terminal by now, so to terminals *)
(* none is handed wrongly after updates that renewed the tables, in part   *)
(* at least, and all the handovers that follow; but after an update        *)
(* without a route file it may be.                                         *)
OnlyForDestination ==
  \A n \in Routers : \A m \in Nodes \ {n} :
    /\ NextNode(n, m) \notin EndUsers \ {m}
    /\ routes # "old" => NextNode(n, m) \notin UserTerminals \ {m}

(* "Your simulation will run a shortest path algorithm": the way that a    *)
(* packet takes between two routers has the least total delay.             *)
RoutesShortest ==
  routes = "current" => \A pair \in RouterPairs :
    \A p \in PathsBetween(pair[1], pair[2], delay) :
      TotalDelay(pair[1], pair[2]) <= PathLength(p, delay)

(* The files "will be loaded as the simulation is run to speed run times": *)
(* a run that loads a file forwards as the run that saved it did.          *)
LoadReproducesSave ==
  routes = "current" => primaryNextHopInterfaces = InterfaceTables(fabric, TRUE, routeFile)

=============================================================================
