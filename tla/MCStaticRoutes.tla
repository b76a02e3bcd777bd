--------------------------- MODULE MCStaticRoutes ---------------------------
(* Small instances of StaticRoutes for TLC. *)
EXTENDS StaticRoutes

CONSTANTS sat1, sat2, gs1, gs2, server, air, laser, wire

(* Two satellites and two ground stations by radio, the satellites by a    *)
(* laser too, and a server behind a ground station.                        *)
Radio == <<"sat1.radio", "sat1.laser", "sat2.radio", "sat2.laser", "gs1.radio", "gs1.eth", "gs2.radio", "server.eth">>

RadioNodes ==
  [x \in {Radio[k] : k \in DOMAIN Radio} |->
     IF x \in {"sat1.radio", "sat1.laser"} THEN sat1
     ELSE IF x \in {"sat2.radio", "sat2.laser"} THEN sat2
     ELSE IF x \in {"gs1.radio", "gs1.eth"} THEN gs1
     ELSE IF x = "gs2.radio" THEN gs2 ELSE server]

RadioLans ==
  [x \in {Radio[k] : k \in DOMAIN Radio} |->
     IF x \in {"sat1.laser", "sat2.laser"} THEN laser
     ELSE IF x \in {"gs1.eth", "server.eth"} THEN wire ELSE air]

Order == <<sat1, sat2, gs1, gs2, server>>

Pair == {<<sat1, sat2>>, <<sat2, sat1>>}

AllNodes == {sat1, sat2, gs1, gs2, server}

Everything ==
  [sourceHosts |-> AllNodes, destinationInterfaces |-> {Radio[k] : k \in DOMAIN Radio},
   nodes |-> <<>>, links |-> <<>>]

(* Two elements that differ in which satellite's radio is slow: where both *)
(* satellites see a ground station, either takes its own radio by the one  *)
(* and the laser by the other. gs2 does not route.                         *)
SlowRadio(radio, slow) ==
  [Everything EXCEPT
     !.nodes = <<[hosts |-> {gs2}, cost |-> Infinity]>>,
     !.links = <<[interfaces |-> {radio}, cost |-> slow],
                 [interfaces |-> {"sat1.laser", "sat2.laser"}, cost |-> 1],
                 [interfaces |-> Everything.destinationInterfaces, cost |-> 2]>>]

(* Only the second one has gs2 for a source.                               *)
SlowRadios ==
  <<[SlowRadio("sat1.radio", 3) EXCEPT !.sourceHosts = AllNodes \ {gs2}], SlowRadio("sat2.radio", 4)>>

(* One element for ground stations and the server, one for satellites.     *)
ByKind ==
  <<[Everything EXCEPT !.sourceHosts = {gs1, gs2, server}],
    [Everything EXCEPT !.sourceHosts = {sat1, sat2}]>>

AsShipped ==
  [filterLinks |-> TRUE, addStaticRoutes |-> TRUE, addSubnetRoutes |-> TRUE, addDefaultRoutes |-> TRUE,
   addDirectRoutes |-> TRUE, enableInterSatelliteLinks |-> TRUE]

Shipped == {AsShipped}

Varied ==
  {AsShipped,
   [AsShipped EXCEPT !.addSubnetRoutes = FALSE, !.addDefaultRoutes = FALSE],
   [AsShipped EXCEPT !.enableInterSatelliteLinks = FALSE],
   [AsShipped EXCEPT !.addDirectRoutes = FALSE, !.addStaticRoutes = FALSE],
   [AsShipped EXCEPT !.filterLinks = FALSE]}

=============================================================================
