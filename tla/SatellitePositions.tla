------------------------- MODULE SatellitePositions -------------------------
(***************************************************************************)
(* Which instant the positions of satellites are of when the rest of the   *)
(* network uses them. SatelliteMobility moves each satellite every         *)
(* updateInterval, as an event of its own. LeoChannelConstructor derives   *)
(* the delays of channels from the positions it finds, and                 *)
(* LeoIpv4NetworkConfigurator the weights of routes; but reachability and  *)
(* the serving satellite are decided by look-aheads of INorad, which move  *)
(* a satellite to another time and back in the middle of an event.         *)
(*                                                                         *)
(* A position is represented by its instant, and a delay by the instants   *)
(* of the positions it was computed from. All times are relative to        *)
(* simTime(). The queue of future events is that of OMNeT++: events of the *)
(* same time are handled in the order in which they were scheduled. Which  *)
(* links exist, and when a pending handover ends, is decided in            *)
(* UserTerminalHandover and LinkFabric, and arbitrary here.                *)
(* An operator whose name has an underscore is a faulty variant of the     *)
(* definition that follows it; only the tests of the properties use it.    *)
(***************************************************************************)
EXTENDS Integers, FiniteSets

CONSTANTS
  numOfSats,
  InterSatelliteLinks,  \* fixedTimedLinks: pairs of satellites
  GroundStations,
  UserTerminals,
  UpdateInterval,       \* updateInterval, the same for all satellites
  StartOffset,          \* the microsecond added to the first update
  MaxDowntime,          \* how far ahead a reconnect may lie
  Horizon               \* how far ahead the selection looks

Satellites == 0 .. numOfSats - 1

ASSUME PositionsAssumption ==
  /\ numOfSats \in Nat
  /\ InterSatelliteLinks \subseteq Satellites \X Satellites
  /\ UpdateInterval \in Nat \ {0}
  /\ StartOffset \in 1 .. UpdateInterval - 1
  /\ MaxDowntime \in Nat
  /\ Horizon \in Nat

VARIABLES
  queue,               \* future events: when they arrive, and their order where at the same time
  position,            \* per satellite: the instants of eci and geoCoord
  groundStationLinks,  \* activeGroundStationLinks: <<ground station, satellite>>
  userTerminalLinks,   \* activeUserTerminalLinks: <<user terminal, satellite>>
  delay,               \* per link: instants that the delay of its channels is from
  weight               \* the same of the weights that the routes in force were computed from

vars == <<queue, position, groundStationLinks, userTerminalLinks, delay, weight>>

-----------------------------------------------------------------------------
(* The queue of future events: "arrival" is the time of each self message, *)
(* and "before" has a pair of messages that arrive at the same time if the *)
(* first of them was scheduled first and is therefore handled first.       *)

Unscheduled == -1   \* a self message that is not in the queue

startManagerNode          == <<"start", 0>>
updateTimer               == <<"update", 0>>
userTerminalHandoverTimer == <<"handover", 0>>
moveTimer(sat)            == <<"move", sat>>

Messages ==
  {startManagerNode, updateTimer, userTerminalHandoverTimer}
    \union {moveTimer(sat) : sat \in Satellites}

CancelEvent(q, message) ==
  [arrival |-> [q.arrival EXCEPT ![message] = Unscheduled],
   before  |-> {pair \in q.before : message \notin {pair[1], pair[2]}}]

ScheduleAt(q, message, time) ==
  LET others == CancelEvent(q, message)
  IN  [arrival |-> [others.arrival EXCEPT ![message] = time],
       before  |-> others.before
                     \union {<<m, message>> : m \in {n \in Messages : others.arrival[n] = time}}]

(* The message is the next to be handled, now. *)
Handles(message) ==
  /\ queue.arrival[message] = 0
  /\ \A m \in Messages : <<m, message>> \notin queue.before

-----------------------------------------------------------------------------
(* INorad and NoradA.                                                      *)

(* updateTime: both coordinates are those of the target time.              *)
UpdateTime(p, time) == [p EXCEPT !.eci = time, !.geoCoord = time]

LookAhead_GeoCoordNotRestored(p, time) == [UpdateTime(p, time) EXCEPT !.eci = p.eci]

LookAhead_NotRestored(p, time) == UpdateTime(p, time)

(* getElevationAtTime, getAzimuthAtTime and getDistanceAtTime: the         *)
(* coordinates are saved, set to the target time, read and restored.       *)
LookAhead(p, time) == [UpdateTime(p, time) EXCEPT !.eci = p.eci, !.geoCoord = p.geoCoord]

(* getAltitude computes the geographic coordinates anew.                   *)
GetAltitude(p) == [p EXCEPT !.geoCoord = p.eci]

(* The reachability tests and trajectories of an event end with some last  *)
(* look-ahead for each satellite.                                          *)
LookedAhead(time) == [sat \in Satellites |-> LookAhead(position[sat], time[sat])]

-----------------------------------------------------------------------------
(* LeoChannelConstructor and LeoIpv4NetworkConfigurator.                   *)

(* getDistance(getLatitude(), getLongitude(), getAltitude()): the order in *)
(* which the arguments are evaluated is up to the compiler.                *)
SatelliteDistance(pos, link, altitudeFirst) ==
  LET source == pos[link[1]]
      dest   == IF altitudeFirst THEN GetAltitude(pos[link[2]]) ELSE pos[link[2]]
  IN  {source.eci, dest.geoCoord, GetAltitude(dest).geoCoord}

GroundDistance(pos, link) == {pos[link[2]].eci}

(* What is left behind by the distances between satellites.                *)
AltitudesRead(pos) ==
  [sat \in Satellites |-> IF \E link \in InterSatelliteLinks : link[2] = sat
                          THEN GetAltitude(pos[sat]) ELSE pos[sat]]

(* updateChannels.                                                         *)
UpdateChannels(pos, groundLinks, altitudeFirst) ==
  [link \in InterSatelliteLinks \union groundLinks |->
     IF link \in InterSatelliteLinks THEN SatelliteDistance(pos, link, altitudeFirst)
     ELSE GroundDistance(pos, link)]

(* generateTopologyGraph: distances between satellites are computed again, *)
(* those to ground stations were passed on by updateChannels.              *)
Weights(pos, stationLinks, delays, altitudeFirst) ==
  [link \in InterSatelliteLinks \union stationLinks |->
     IF link \in InterSatelliteLinks THEN SatelliteDistance(pos, link, altitudeFirst)
     ELSE delays[link]]

NextUpdate_OffsetEachTime(simStart) == UpdateInterval + StartOffset

(* scheduleUpdate.                                                         *)
NextUpdate(simStart) == IF simStart THEN UpdateInterval + StartOffset ELSE UpdateInterval

(* scheduleUserTerminalHandoverTimer: the earliest of the pending          *)
(* reconnects, if there are any.                                           *)
HandoverTimerReset(q) ==
  {CancelEvent(q, userTerminalHandoverTimer)}
    \union {ScheduleAt(q, userTerminalHandoverTimer, time) : time \in 1 .. MaxDowntime}

-----------------------------------------------------------------------------

Init ==
  /\ queue = [arrival |-> [m \in Messages |->
                            IF m = startManagerNode THEN 0
                            ELSE IF m \in {updateTimer, userTerminalHandoverTimer} THEN Unscheduled
                            ELSE UpdateInterval],
              before  |-> {<<moveTimer(p[1]), moveTimer(p[2])>> :
                             p \in {p \in Satellites \X Satellites : p[1] < p[2]}}]
  /\ position = [sat \in Satellites |-> [eci |-> 0, geoCoord |-> 0]]
  /\ groundStationLinks = {} /\ userTerminalLinks = {}
  /\ delay = <<>> /\ weight = <<>>

(* setTargetPosition of SatelliteMobility, and the move timer of its base  *)
(* class, which comes back at nextChange.                                  *)
Move(sat) ==
  /\ Handles(moveTimer(sat))
  /\ position' = [position EXCEPT ![sat] = UpdateTime(@, 0)]
  /\ queue' = ScheduleAt(queue, moveTimer(sat), UpdateInterval)
  /\ UNCHANGED <<groundStationLinks, userTerminalLinks, delay, weight>>

UserTerminalLinksMayBe(links) ==
  /\ links \subseteq UserTerminals \X Satellites
  /\ \A a, b \in links : a[1] = b[1] => a = b

(* What the three events have in common: links of user terminals change,   *)
(* and the delays of all links are set.                                    *)
SetDelays(altitudeFirst) ==
  \E time \in [Satellites -> 0 .. Horizon] :
    LET pos == LookedAhead(time)
    IN  /\ userTerminalLinks' \in {l \in SUBSET (UserTerminals \X Satellites) : UserTerminalLinksMayBe(l)}
        /\ delay' = UpdateChannels(pos, groundStationLinks' \union userTerminalLinks', altitudeFirst)
        /\ position' = AltitudesRead(pos)

(* setUpGSLinks, and the routes of updateForwardingStates.                 *)
SetLinksAndRoutes(simStart) ==
  \E altitudeFirst \in BOOLEAN :
    /\ groundStationLinks' \in SUBSET (GroundStations \X Satellites)
    /\ SetDelays(altitudeFirst)
    /\ weight' = Weights(position', groundStationLinks', delay', altitudeFirst)

(* No handover is pending when the simulation starts.                      *)
StartSimulation ==
  /\ Handles(startManagerNode)
  /\ SetLinksAndRoutes(TRUE)
  /\ queue' = ScheduleAt(CancelEvent(queue, startManagerNode), updateTimer, NextUpdate(TRUE))

HandleUpdateTimer ==
  /\ Handles(updateTimer)
  /\ SetLinksAndRoutes(FALSE)
  /\ \E q \in HandoverTimerReset(queue) : queue' = ScheduleAt(q, updateTimer, NextUpdate(FALSE))

HandleHandoverTimer ==
  /\ Handles(userTerminalHandoverTimer)
  /\ UNCHANGED groundStationLinks
  /\ \E altitudeFirst \in BOOLEAN : SetDelays(altitudeFirst)
  /\ queue' \in HandoverTimerReset(queue)
  /\ UNCHANGED weight

Earlier(instants, elapsed) == {i - elapsed : i \in instants}

(* The kernel moves to the next event.                                     *)
AdvanceTime ==
  LET scheduled == {m \in Messages : queue.arrival[m] # Unscheduled}
  IN \E next \in scheduled :
  LET elapsed == queue.arrival[next]
  IN
  /\ \A m \in scheduled : queue.arrival[m] >= elapsed
  /\ elapsed > 0
  /\ queue' = [queue EXCEPT !.arrival =
                 [m \in Messages |-> IF m \in scheduled THEN @[m] - elapsed ELSE Unscheduled]]
  /\ position' = [sat \in Satellites |-> [eci |-> position[sat].eci - elapsed,
                                          geoCoord |-> position[sat].geoCoord - elapsed]]
  /\ delay' = [link \in DOMAIN delay |-> Earlier(delay[link], elapsed)]
  /\ weight' = [link \in DOMAIN weight |-> Earlier(weight[link], elapsed)]
  /\ UNCHANGED <<groundStationLinks, userTerminalLinks>>

Next ==
  \/ \E sat \in Satellites : Move(sat)
  \/ StartSimulation
  \/ HandleUpdateTimer
  \/ HandleHandoverTimer
  \/ AdvanceTime

Spec == Init /\ [][Next]_vars

-----------------------------------------------------------------------------
(* Properties.                                                             *)

Instants(f) == UNION {f[link] : link \in DOMAIN f}

(* All channels have the delays of one and the same instant, though the    *)
(* satellites move one by one, a handover may be due at the very time of a *)
(* move, and look-ahead after look-ahead precedes the reading: no delay is *)
(* the distance from where one satellite is to where another was.          *)
DelaysOfOneInstant == Cardinality(Instants(delay)) <= 1

(* No delay and no route is older than an update interval and the offset,  *)
(* however long the simulation runs: updates follow the moves closely and  *)
(* every update and handover renews the delays of all channels.            *)
DelaysRecent ==
  \A i \in Instants(delay) \union Instants(weight) : i >= -(UpdateInterval + StartOffset)

(* Packets have the delays that their routes were computed from. They may  *)
(* differ only between a move and the update that follows at once, when a  *)
(* handover comes in between.                                              *)
RoutesUseCurrentDelays ==
  \A link \in DOMAIN weight \intersect DOMAIN delay :
    weight[link] = delay[link] \/ queue.arrival[updateTimer] <= StartOffset

=============================================================================
