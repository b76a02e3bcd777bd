------------------------------ MODULE IslGrid ------------------------------
(***************************************************************************)
(* The grid of inter-satellite links: each satellite is linked with the    *)
(* next one of its plane and with the one of the same index in the next    *)
(* plane. The grid is computed three times in the code. setUpSimulation    *)
(* of LeoChannelConstructor creates the channels, establishInitialISLs of  *)
(* LeoIpv4NetworkConfigurator adds the edges of the routing graph, and     *)
(* NoradA::isInterSatelliteLink tells for two satellites whether they may  *)
(* be linked.                                                              *)
(*                                                                         *)
(* One action is one round of the inner loop, or the step to the next      *)
(* plane. The order of the links is what LinkFabric and PacketForwarding   *)
(* take as the constant InterSatelliteLinks. Neither loop runs if          *)
(* enableInterSatelliteLinks is false. A plane of one satellite is left    *)
(* out: its link would lead from a gate to itself, and OMNeT++ ends the    *)
(* simulation with an error. So is a constellation with more satellites    *)
(* than its planes have room for.                                          *)
(* An operator whose name has an underscore is a faulty variant of the     *)
(* definition that follows it; only the tests of the properties use it.    *)
(***************************************************************************)
EXTENDS Integers, Sequences, FiniteSets, SequencesExt

CONSTANTS
  Shapes   \* constellations: planes, satPerPlane, and numOfSats in use

ASSUME ShapesAssumption ==
  \A s \in Shapes :
    /\ s.planes \in Nat \ {0}
    /\ s.satPerPlane \in Nat \ {0, 1}
    /\ s.numOfSats \in Nat
    /\ s.numOfSats <= s.planes * s.satPerPlane

VARIABLES
  shape,
  numOfPlanes,                 \* planes that have satellites, as computed by both modules
  loop,                        \* "channels", "edges" or "done"
  planeNum, satNum,            \* of the loop that runs
  fixedTimedLinks,             \* pairs of satellites with channels
  islVec,                      \* edges of the graph
  satelliteISLMobilityModules  \* per satellite, the other ends of its edges

vars == <<shape, numOfPlanes, loop, planeNum, satNum, fixedTimedLinks, islVec,
          satelliteISLMobilityModules>>

satPerPlane == shape.satPerPlane
numOfSats   == shape.numOfSats
Satellites  == 0 .. numOfSats - 1

-----------------------------------------------------------------------------
(* The arithmetic.                                                         *)

CeilDiv(n, d) == (n + d - 1) \div d

(* ceil(numOfSats / (planes * satPerPlane) * planes) in doubles. Where the *)
(* quotient is a whole number, rounding may lift it above that number, and *)
(* the ceiling to the next.                                                *)
PossibleNumOfPlanes(s) ==
  {CeilDiv(s.numOfSats, s.satPerPlane)}
    \union (IF s.numOfSats % s.satPerPlane = 0 THEN {s.numOfSats \div s.satPerPlane + 1} ELSE {})

(* The end of the plane, or of the satellites in use.                      *)
NumOfSatsInPlane(plane) ==
  LET full == plane * satPerPlane + satPerPlane
  IN  IF numOfSats < full THEN numOfSats ELSE full

DestSatNumA_NextPlane(plane, sat) == sat + 1

(* The next satellite of the plane; after the last one comes the first.    *)
DestSatNumA(plane, sat) ==
  LET next == (sat + 1) % (satPerPlane * (plane + 1))
  IN  IF next = 0 THEN plane * satPerPlane ELSE next

DestSatNumB(sat) == sat + satPerPlane

IfExists(sat, dest) == IF dest < numOfSats THEN <<<<sat, dest>>>> ELSE <<>>

LinksFrom_OpenPlanes(plane, sat) ==
  (IF sat + 1 < NumOfSatsInPlane(plane) THEN <<<<sat, sat + 1>>>> ELSE <<>>)
    \o IfExists(sat, DestSatNumB(sat))

LinksFrom_InPlane(plane, sat) == IfExists(sat, DestSatNumA(plane, sat))

(* The links that a round of setUpSimulation creates.                      *)
LinksFrom(plane, sat) ==
  IfExists(sat, DestSatNumA(plane, sat)) \o IfExists(sat, DestSatNumB(sat))

EdgesFrom_PlaneStartForgotten(plane, sat) ==
  LET destA == (sat + 1) % (satPerPlane * (plane + 1))
      destB == sat + satPerPlane
  IN  (IF destA < numOfSats THEN <<<<sat, destA>>>> ELSE <<>>)
        \o (IF destB < numOfSats THEN <<<<sat, destB>>>> ELSE <<>>)

(* The edges that a round of establishInitialISLs adds. The configurator   *)
(* has its own arithmetic, which does not look at the channels.            *)
EdgesFrom(plane, sat) ==
  LET wrapped == (sat + 1) % (satPerPlane * (plane + 1))
      destA   == IF wrapped = 0 THEN plane * satPerPlane ELSE wrapped
      destB   == sat + satPerPlane
  IN  (IF destA < numOfSats THEN <<<<sat, destA>>>> ELSE <<>>)
        \o (IF destB < numOfSats THEN <<<<sat, destB>>>> ELSE <<>>)

(* NoradA::isInterSatelliteLink. The first and the last plane would be     *)
(* neighbours only if the last one had the number "planes".                *)
IsInterSatelliteLink(sat1, sat2) ==
  LET s      == shape.satPerPlane
      plane1 == sat1 \div s
      plane2 == sat2 \div s
      minSat == s * plane1
      maxSat == minSat + s - 1
      index(sat, plane) == (sat % (shape.planes * s)) - s * plane
  IN  IF plane1 = plane2
      THEN \/ sat2 \in {sat1 + 1, sat1 - 1}
           \/ sat1 = maxSat /\ sat2 = minSat
           \/ sat1 = minSat /\ sat2 = maxSat
      ELSE /\ \/ plane1 \in {plane2 - 1, plane2 + 1}
              \/ plane1 = shape.planes /\ plane2 = 0
              \/ plane1 = 0 /\ plane2 = shape.planes
           /\ index(sat1, plane1) = index(sat2, plane2)

-----------------------------------------------------------------------------

Init ==
  /\ shape \in Shapes
  /\ numOfPlanes \in PossibleNumOfPlanes(shape)
  /\ loop = "channels"
  /\ planeNum = 0 /\ satNum = 0
  /\ fixedTimedLinks = <<>>
  /\ islVec = <<>>
  /\ satelliteISLMobilityModules = [sat \in Satellites |-> <<>>]

InPlane == planeNum < numOfPlanes /\ satNum < NumOfSatsInPlane(planeNum)

(* setUpSimulation, for one satellite.                                     *)
ConnectSatellite ==
  /\ loop = "channels" /\ InPlane
  /\ fixedTimedLinks' = fixedTimedLinks \o LinksFrom(planeNum, satNum)
  /\ satNum' = satNum + 1
  /\ UNCHANGED <<shape, numOfPlanes, loop, planeNum, islVec, satelliteISLMobilityModules>>

(* establishInitialISLs, for one satellite.                                *)
AddEdges ==
  LET edges == EdgesFrom(planeNum, satNum)
  IN
  /\ loop = "edges" /\ InPlane
  /\ islVec' = islVec \o edges
  /\ satelliteISLMobilityModules' =
       [satelliteISLMobilityModules EXCEPT ![satNum] = @ \o [k \in DOMAIN edges |-> edges[k][2]]]
  /\ satNum' = satNum + 1
  /\ UNCHANGED <<shape, numOfPlanes, loop, planeNum, fixedTimedLinks>>

(* The outer loop of either function, and from the one to the other.       *)
NextPlane ==
  /\ loop # "done" /\ ~InPlane
  /\ IF planeNum < numOfPlanes
     THEN /\ planeNum' = planeNum + 1
          /\ satNum' = (planeNum + 1) * satPerPlane
          /\ UNCHANGED loop
     ELSE /\ planeNum' = 0 /\ satNum' = 0
          /\ loop' = IF loop = "channels" THEN "edges" ELSE "done"
  /\ UNCHANGED <<shape, numOfPlanes, fixedTimedLinks, islVec, satelliteISLMobilityModules>>

Next == ConnectSatellite \/ AddEdges \/ NextPlane

Spec == Init /\ [][Next]_vars

-----------------------------------------------------------------------------
(* Properties.                                                             *)

(* Only satellites are linked that NoradA takes for neighbours: "adjacent" *)
(* in their plane or of "the same index within neighbouring planes".       *)
LinkedAreNeighbours ==
  \A k \in DOMAIN fixedTimedLinks :
    LET link == fixedTimedLinks[k]
    IN  link[1] # link[2] /\ IsInterSatelliteLink(link[1], link[2])

(* And all that it takes for neighbours are linked, in one direction or    *)
(* the other, also in a constellation that is in use in part only.         *)
NeighboursLinked ==
  loop # "channels" =>
    \A sat1, sat2 \in Satellites :
      (sat1 # sat2 /\ IsInterSatelliteLink(sat1, sat2))
        => {<<sat1, sat2>>, <<sat2, sat1>>} \intersect ToSet(fixedTimedLinks) # {}

(* No satellite is cut off: from link to link, in either direction, one    *)
(* comes from the first satellite to all others, however many satellites   *)
(* of the constellation are in use.                                        *)
GridConnected ==
  loop # "channels" =>
    LET links == {{link[1], link[2]} : link \in ToSet(fixedTimedLinks)}
        \* the satellites that one comes to over at most k links
        within[k \in 0 .. numOfSats] ==
          IF k = 0 THEN {0}
          ELSE LET near == within[k - 1]
               IN  near \union UNION {link \in links : link \intersect near # {}}
    IN  Satellites \subseteq within[numOfSats]

=============================================================================
