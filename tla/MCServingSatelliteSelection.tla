-------------------- MODULE MCServingSatelliteSelection --------------------
(* Small skies: three places, two of them on either side of north, where  *)
(* azimuths wrap.                                                          *)
EXTENDS ServingSatelliteSelection

ThreePlaces ==
  {[elevation |-> 30, azimuth |-> 350], [elevation |-> 40, azimuth |-> 100], [elevation |-> 60, azimuth |-> 20]}

=============================================================================
