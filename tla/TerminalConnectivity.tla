------------------------ MODULE TerminalConnectivity ------------------------
(***************************************************************************)
(* What the channel constructor promises the rest of the network about one *)
(* user terminal, with neither timers nor selection: a terminal is served  *)
(* by one satellite, is waiting to be connected to one, or is idle. Once   *)
(* the simulation has started a handover is hard: a terminal is never      *)
(* moved from one satellite to another in one step, it waits for exactly   *)
(* the satellite that it is then connected to, and it is connected only to *)
(* a satellite that it can see. A terminal that can see a satellite is     *)
(* left idle only if the satellite it was waiting for is out of view.      *)
(***************************************************************************)
CONSTANTS UserTerminals, Satellites, NoSatellite

VARIABLES
  serving,   \* satellite that serves the terminal, or NoSatellite
  awaited,   \* satellite that the terminal will be connected to, or NoSatellite
  inView,    \* satellites the terminal can see
  running    \* the simulation has started

vars == <<serving, awaited, inView, running>>

Init ==
  /\ serving = [ut \in UserTerminals |-> NoSatellite]
  /\ awaited = [ut \in UserTerminals |-> NoSatellite]
  /\ inView \in [UserTerminals -> SUBSET Satellites]
  /\ running = FALSE

(* The initial links: every terminal that sees a satellite gets one.       *)
Start ==
  /\ ~running
  /\ running' = TRUE
  /\ serving' \in [UserTerminals -> Satellites \union {NoSatellite}]
  /\ \A ut \in UserTerminals :
       IF inView[ut] = {} THEN serving'[ut] = NoSatellite ELSE serving'[ut] \in inView[ut]
  /\ UNCHANGED <<awaited, inView>>

Idle(ut, srv, awt) == srv[ut] = NoSatellite /\ awt[ut] = NoSatellite

(* The terminal keeps the link it has, still in view.                      *)
StayConnected(ut) ==
  /\ serving[ut] \in inView[ut]
  /\ serving'[ut] = serving[ut]
  /\ awaited'[ut] = NoSatellite

(* The link is cut, for a satellite in view that is not the present one,   *)
(* or the wait of a terminal without a link begins or begins again.        *)
BeginWait(ut) ==
  /\ serving'[ut] = NoSatellite
  /\ awaited'[ut] \in inView[ut] \ {serving[ut]}

(* A terminal that waits goes on waiting for the same satellite.           *)
KeepWaiting(ut) ==
  /\ awaited[ut] # NoSatellite
  /\ serving'[ut] = NoSatellite
  /\ awaited'[ut] = awaited[ut]

(* The wait ends with a link to the awaited satellite.                     *)
Connect(ut) ==
  /\ serving[ut] = NoSatellite
  /\ awaited[ut] \in inView[ut]
  /\ serving'[ut] = awaited[ut]
  /\ awaited'[ut] = NoSatellite

(* No satellite is in view, or the awaited one is gone when its time comes. *)
BecomeIdle(ut) ==
  /\ \/ inView[ut] = {}
     \/ awaited[ut] \notin inView[ut] \union {NoSatellite}
  /\ Idle(ut, serving', awaited')

(* One event of the constructor deals with every terminal.                 *)
Reassign ==
  /\ running
  /\ serving' \in [UserTerminals -> Satellites \union {NoSatellite}]
  /\ awaited' \in [UserTerminals -> Satellites \union {NoSatellite}]
  /\ \A ut \in UserTerminals :
       \/ StayConnected(ut)
       \/ BeginWait(ut)
       \/ KeepWaiting(ut)
       \/ Connect(ut)
       \/ BecomeIdle(ut)
  /\ UNCHANGED <<inView, running>>

(* The satellites move.                                                    *)
Move ==
  /\ running
  /\ inView' \in [UserTerminals -> SUBSET Satellites]
  /\ UNCHANGED <<serving, awaited, running>>

Next == Start \/ Reassign \/ Move

Spec == Init /\ [][Next]_vars

=============================================================================
