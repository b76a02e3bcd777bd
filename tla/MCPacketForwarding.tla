------------------------- MODULE MCPacketForwarding -------------------------
(* Small instances of PacketForwarding for TLC. *)
EXTENDS PacketForwarding

CONSTANTS sat1, sat2, sat3, gs1, ut1, server

Wired == [e \in {server} |-> gs1]

NoEndUsers == [e \in {} |-> gs1]

Chain == <<<<sat1, sat2>>>>

(* One plane of three satellites.                                          *)
Plane == <<<<sat1, sat2>>, <<sat2, sat3>>, <<sat3, sat1>>>>

InOrder2  == <<sat1, sat2>>
Reversed3 == <<sat3, sat2, sat1>>

(* A bound: of two updates one after the other at least one has a whole    *)
(* route file. Links of terminals change any number of times in between.   *)
OneWholeFileInTwo ==
  (started /\ routes # "current")
    => \/ routes' = "current"
       \/ UNCHANGED <<groundStationLinks, routes, primaryNextHopInterfaces>>

TerminalsAtFirstSatellite ==
  loadFiles => \A ut \in UserTerminals : userTerminalLinks[ut] \in {sat1, Free}

=============================================================================
