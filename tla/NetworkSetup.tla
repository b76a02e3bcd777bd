---------------------------- MODULE NetworkSetup ----------------------------
(***************************************************************************)
(* How a simulation comes up, as far as NodeNumbers and IslGrid model it.  *)
(* The configurator numbers the nodes when it is initialized. In the start *)
(* event the constructor places the channels between satellites, the       *)
(* configurator the edges of the routing graph, by number, and only then   *)
(* do the nodes learn their numbers.                                       *)
(***************************************************************************)
EXTENDS NodeNumbers, IslGrid

SetupInit ==
  /\ NumberingInit
  /\ Init
  /\ network.numOfSats = shape.numOfSats

(* initialize of the configurator, and setIpv4NodeIds at the end.          *)
NumberNodes ==
  /\ stage = "setIpv4NodeIds" => loop = "done"
  /\ NumberingNext
  /\ UNCHANGED vars

(* setUpSimulation and establishInitialISLs.                               *)
PlaceLinks ==
  /\ stage = "setIpv4NodeIds"
  /\ Next
  /\ UNCHANGED numberVars

SetupNext == NumberNodes \/ PlaceLinks

SetupSpec == SetupInit /\ [][SetupNext]_<<numberVars, vars>>

-----------------------------------------------------------------------------

(* The graph that routes are computed on is the network that packets       *)
(* travel: once all is set up, two satellites have an edge between their   *)
(* numbers exactly if they have a channel between them in that direction,  *)
(* no edge and no channel is there twice, and each edge has the mobility   *)
(* modules of its ends among those that its weight is computed from.       *)
EdgesHaveChannels ==
  stage = "done" =>
    LET Number(sat) == moduleGraphIdByModule[Node("satellite", sat)]
    IN  /\ IsInjective(fixedTimedLinks) /\ IsInjective(islVec)
        /\ ToSet(islVec) = {<<Number(link[1]), Number(link[2])>> : link \in ToSet(fixedTimedLinks)}
        /\ \A n \in Satellites :
             /\ IsInjective(satelliteISLMobilityModules[n])
             /\ ToSet(satelliteISLMobilityModules[n]) = {edge[2] : edge \in {e \in ToSet(islVec) : e[1] = n}}

=============================================================================
