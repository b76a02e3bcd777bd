---------------------------- MODULE MCLinkFabric ----------------------------
(* Small instances of LinkFabric for TLC. *)
EXTENDS LinkFabric

CONSTANTS sat1, sat2, gs1, gs2, ut1, ut2, server

Wired == [e \in {server} |-> gs1]

(* setUpSimulation with one plane of two satellites: two parallel links.   *)
Ring == <<<<sat1, sat2>>, <<sat2, sat1>>>>

NoISL == <<>>

=============================================================================
