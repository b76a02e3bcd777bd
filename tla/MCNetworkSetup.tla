--------------------------- MODULE MCNetworkSetup ---------------------------
(* All constellations of up to four planes of two to five satellites, in   *)
(* use in whole or in part, with a few other nodes or none.                *)
EXTENDS NetworkSetup

SmallShapes ==
  {s \in [planes: 1 .. 4, satPerPlane: 2 .. 5, numOfSats: 1 .. 16] :
     s.numOfSats <= s.planes * s.satPerPlane}

SmallNetworks ==
  {[numOfSats |-> n, numOfGS |-> other[1], numOfClients |-> other[2], numOfUserTerminals |-> other[3]] :
     n \in 1 .. 16, other \in {<<0, 0, 0>>, <<2, 1, 0>>, <<1, 2, 2>>}}

=============================================================================
