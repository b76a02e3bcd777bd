------------------------- MODULE SelectionContract -------------------------
(***************************************************************************)
(* What the handover logic of LeoChannelConstructor may rely on when it    *)
(* asks selectServingSatelliteForUserTerminalAt for a satellite.           *)
(* UserTerminalHandover uses it in the place of the selection, and         *)
(* ServingSatelliteSelection, the model of the selection, keeps it.        *)
(***************************************************************************)

CONSTANTS
  Satellites,   \* the satellites
  NoSatellite   \* satellite index -1

SatelliteOrNone == Satellites \union {NoSatellite}

(* The result is a satellite that is reachable at the start of the slot if *)
(* there is one, and otherwise none or one that only rises later in the    *)
(* window.                                                                 *)
SelectionAllowed(vis, sel) ==
  /\ sel \in SatelliteOrNone
  /\ vis # {} => sel \in vis

=============================================================================
