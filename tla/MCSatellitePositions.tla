------------------------ MODULE MCSatellitePositions ------------------------
(* A small instance of SatellitePositions for TLC. *)
EXTENDS SatellitePositions

(* A plane of three satellites. *)
Ring == {<<0, 1>>, <<1, 2>>, <<2, 0>>}

=============================================================================
