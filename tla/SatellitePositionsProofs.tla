----------------------- MODULE SatellitePositionsProofs -----------------------
(***************************************************************************)
(* Positions, delays and routes for any number of satellites, any links,   *)
(* any update interval and any offset below it.                            *)
(*                                                                         *)
(* The position of a satellite always is of the instant at which its move  *)
(* timer was set, so positions agree if and only if the move timers do.    *)
(* They disagree only while moves of one instant are being handled. No     *)
(* update falls there, because it arrives an offset away from the moves;   *)
(* no handover either, because the handover timer is set anew at every     *)
(* update, hence after the moves of the last instant and so behind those   *)
(* of the next: it is in the queue after any move of the same time, unless *)
(* there is an update before both.                                         *)
(***************************************************************************)
EXTENDS SatellitePositions, FiniteSetTheorems, TLAPS

-----------------------------------------------------------------------------
(* The inductive invariant.                                                *)

Queues == [arrival: [Messages -> Int], before: SUBSET (Messages \X Messages)]

Due(message) == queue.arrival[message]

Started == Due(startManagerNode) = Unscheduled

At(instant) == [eci |-> instant, geoCoord |-> instant]

TypeInv ==
  /\ queue \in Queues
  /\ position \in [Satellites -> [eci: Int, geoCoord: Int]]
  /\ groundStationLinks \subseteq GroundStations \X Satellites
  /\ userTerminalLinks \subseteq UserTerminals \X Satellites

(* A position is of the instant at which the move timer was set. *)
MovesInv ==
  \A sat \in Satellites :
    /\ Due(moveTimer(sat)) \in 0 .. UpdateInterval
    /\ position[sat] = At(Due(moveTimer(sat)) - UpdateInterval)

(* The start is the first event.                                           *)
StartInv ==
  ~Started => /\ Due(startManagerNode) = 0
              /\ Due(updateTimer) = Unscheduled
              /\ Due(userTerminalHandoverTimer) = Unscheduled
              /\ \A sat \in Satellites : Due(moveTimer(sat)) = UpdateInterval

(* The next update follows the next move of a satellite by the offset, or  *)
(* follows its last one.                                                   *)
UpdateInv ==
  Started => /\ Due(updateTimer) \in 0 .. UpdateInterval + StartOffset
             /\ \A sat \in Satellites : Due(updateTimer) \in
                  {Due(moveTimer(sat)) + StartOffset,
                   Due(moveTimer(sat)) + StartOffset - UpdateInterval}

(* A handover is queued behind a move of the same time, unless an update   *)
(* will set the timer anew before.                                         *)
HandoverInv ==
  /\ Due(userTerminalHandoverTimer) \in Unscheduled .. MaxDowntime
  /\ \A sat \in Satellites :
       /\ Due(userTerminalHandoverTimer) = Due(moveTimer(sat))
       /\ Due(moveTimer(sat)) < Due(updateTimer)
       => <<moveTimer(sat), userTerminalHandoverTimer>> \in queue.before

(* The instant of the positions that the last update, or the start, found. *)
Latest == Due(updateTimer) - UpdateInterval - StartOffset

AllOf(f, instant) == \A link \in DOMAIN f : f[link] = {instant}

(* Weights are of the last update; delays are too, unless a handover has   *)
(* renewed them after the moves that the next update follows.              *)
DelaysInv ==
  /\ ~Started => DOMAIN delay = {} /\ DOMAIN weight = {}
  /\ Started =>
       /\ AllOf(weight, Latest)
       /\ \E instant \in Int : /\ AllOf(delay, instant)
                               /\ instant >= Latest
                               /\ Due(updateTimer) > StartOffset => instant = Latest

IInv == TypeInv /\ MovesInv /\ StartInv /\ UpdateInv /\ HandoverInv /\ DelaysInv

-----------------------------------------------------------------------------
(* The queue.                                                              *)

LEMMA Intervals ==
  /\ UpdateInterval \in Nat /\ StartOffset \in Nat /\ MaxDowntime \in Nat
  /\ 0 < StartOffset /\ StartOffset < UpdateInterval
  /\ InterSatelliteLinks \subseteq Satellites \X Satellites
  /\ Satellites \subseteq Nat
  BY PositionsAssumption DEF Satellites

(* No two self messages are the same. *)
LEMMA MessagesDistinct ==
  /\ {startManagerNode, updateTimer, userTerminalHandoverTimer} \subseteq Messages
  /\ startManagerNode # updateTimer
  /\ startManagerNode # userTerminalHandoverTimer
  /\ updateTimer # userTerminalHandoverTimer
  /\ \A sat \in Satellites :
       /\ moveTimer(sat) \in Messages
       /\ moveTimer(sat) \notin {startManagerNode, updateTimer, userTerminalHandoverTimer}
       /\ \A other \in Satellites : moveTimer(other) = moveTimer(sat) => other = sat
  BY DEF Messages, startManagerNode, updateTimer, userTerminalHandoverTimer, moveTimer

(* A message that is cancelled leaves the others where they were. *)
LEMMA CancelEventFacts ==
  ASSUME NEW q \in Queues, NEW message \in Messages
  PROVE  LET r == CancelEvent(q, message) IN
         /\ r \in Queues
         /\ r.arrival[message] = Unscheduled
         /\ \A m \in Messages \ {message} : r.arrival[m] = q.arrival[m]
         /\ \A m, n \in Messages \ {message} : <<m, n>> \in q.before => <<m, n>> \in r.before
<1> DEFINE r == CancelEvent(q, message)
<1>1. /\ r.arrival = [q.arrival EXCEPT ![message] = Unscheduled]
      /\ r.before = {pair \in q.before : message \notin {pair[1], pair[2]}}
      /\ r = [arrival |-> r.arrival, before |-> r.before]
  BY DEF CancelEvent
<1>2. r.arrival \in [Messages -> Int] /\ r.before \subseteq Messages \X Messages
  BY <1>1 DEF Queues, Unscheduled
<1>3. r \in Queues
  BY <1>1, <1>2 DEF Queues
<1>. QED  BY <1>1, <1>3 DEF Queues

(* A message that is scheduled leaves the others where they were and comes *)
(* after those of the same time.                                           *)
LEMMA ScheduleAtFacts ==
  ASSUME NEW q \in Queues, NEW message \in Messages, NEW time \in Int
  PROVE  LET r == ScheduleAt(q, message, time) IN
         /\ r \in Queues
         /\ r.arrival[message] = time
         /\ \A m \in Messages \ {message} : /\ r.arrival[m] = q.arrival[m]
                                            /\ q.arrival[m] = time => <<m, message>> \in r.before
         /\ \A m, n \in Messages \ {message} : <<m, n>> \in q.before => <<m, n>> \in r.before
<1> DEFINE others == CancelEvent(q, message)
           sameTime == {<<m, message>> : m \in {n \in Messages : others.arrival[n] = time}}
           r == ScheduleAt(q, message, time)
<1>1. /\ others \in Queues
      /\ \A m \in Messages \ {message} : others.arrival[m] = q.arrival[m]
      /\ \A m, n \in Messages \ {message} : <<m, n>> \in q.before => <<m, n>> \in others.before
  BY CancelEventFacts
<1>2. /\ r.arrival = [others.arrival EXCEPT ![message] = time]
      /\ r.before = others.before \union sameTime
      /\ r = [arrival |-> r.arrival, before |-> r.before]
  BY DEF ScheduleAt
<1>3. \A m \in Messages \ {message} : q.arrival[m] = time => <<m, message>> \in sameTime
  BY <1>1
<1>4. sameTime \subseteq Messages \X Messages
  OBVIOUS
<1> HIDE DEF others, sameTime
<1>5. r.arrival \in [Messages -> Int] /\ r.before \subseteq Messages \X Messages
  BY <1>1, <1>2, <1>4 DEF Queues
<1>6. r \in Queues
  BY <1>2, <1>5 DEF Queues
<1>. QED  BY <1>1, <1>2, <1>3, <1>6 DEF Queues

(* The handover timer that is set anew comes after all events of its time. *)
LEMMA HandoverTimerResetFacts ==
  ASSUME NEW q \in Queues, NEW r \in HandoverTimerReset(q)
  PROVE  /\ r \in Queues
         /\ r.arrival[userTerminalHandoverTimer] \in {Unscheduled} \union (1 .. MaxDowntime)
         /\ \A m \in Messages \ {userTerminalHandoverTimer} :
              /\ r.arrival[m] = q.arrival[m]
              /\ q.arrival[m] >= 0 /\ r.arrival[userTerminalHandoverTimer] = q.arrival[m]
                   => <<m, userTerminalHandoverTimer>> \in r.before
<1>1. userTerminalHandoverTimer \in Messages
  BY MessagesDistinct
<1>2. CASE r = CancelEvent(q, userTerminalHandoverTimer)
  BY <1>1, <1>2, CancelEventFacts DEF Unscheduled
<1>3. CASE r # CancelEvent(q, userTerminalHandoverTimer)
  <2>1. PICK time \in 1 .. MaxDowntime : r = ScheduleAt(q, userTerminalHandoverTimer, time)
    BY <1>3 DEF HandoverTimerReset
  <2>2. time \in Int /\ 1 .. MaxDowntime \subseteq Int
    BY <2>1
  <2> DEFINE s == ScheduleAt(q, userTerminalHandoverTimer, time)
  <2>3. /\ s \in Queues
        /\ s.arrival[userTerminalHandoverTimer] = time
        /\ \A m \in Messages \ {userTerminalHandoverTimer} :
             /\ s.arrival[m] = q.arrival[m]
             /\ q.arrival[m] = time => <<m, userTerminalHandoverTimer>> \in s.before
    BY <1>1, <2>2, ScheduleAtFacts
  <2> HIDE DEF s
  <2>. QED  BY <2>1, <2>3 DEF s
<1>. QED  BY <1>2, <1>3

-----------------------------------------------------------------------------
(* The positions that an event finds.                                      *)

PositionsOf(instant) == \A sat \in Satellites : position[sat] = At(instant)

(* A satellite that has moved is where it is now. *)
LEMMA UpdateTimeFacts ==
  ASSUME NEW p \in [eci: Int, geoCoord: Int], NEW time \in Int
  PROVE  UpdateTime(p, time) \in [eci: Int, geoCoord: Int]
<1>. QED  BY DEF UpdateTime

(* A look-ahead puts back what it found. *)
LEMMA LookedAheadFacts ==
  ASSUME TypeInv, NEW time
  PROVE  LookedAhead(time) = position
<1>1. ASSUME NEW sat \in Satellites
      PROVE  LookAhead(position[sat], time[sat]) = position[sat]
  <2> DEFINE p == position[sat]
  <2>1. p \in [eci: Int, geoCoord: Int]
    BY DEF TypeInv
  <2>2. LookAhead(p, time[sat]) = [eci |-> p.eci, geoCoord |-> p.geoCoord]
    BY <2>1 DEF LookAhead, UpdateTime
  <2>. QED  BY <2>1, <2>2
<1>. QED  BY <1>1 DEF LookedAhead, TypeInv

(* If all positions are of one instant, so are all distances. *)
LEMMA DistancesOfOneInstant ==
  ASSUME TypeInv, NEW instant \in Int, PositionsOf(instant),
         NEW groundLinks, \A link \in groundLinks : link[2] \in Satellites,
         NEW altitudeFirst \in BOOLEAN, NEW stationLinks, stationLinks \subseteq groundLinks
  PROVE  LET delays == UpdateChannels(position, groundLinks, altitudeFirst) IN
         /\ AllOf(delays, instant)
         /\ AllOf(Weights(position, stationLinks, delays, altitudeFirst), instant)
         /\ AltitudesRead(position) = position
<1> DEFINE delays == UpdateChannels(position, groundLinks, altitudeFirst)
<1>1. ASSUME NEW sat \in Satellites
      PROVE  /\ position[sat].eci = instant /\ position[sat].geoCoord = instant
             /\ GetAltitude(position[sat]) = position[sat]
  <2>1. position[sat] = [eci |-> instant, geoCoord |-> instant]
    BY DEF PositionsOf, At
  <2>. QED  BY <2>1 DEF GetAltitude
<1>2. ASSUME NEW link \in InterSatelliteLinks
      PROVE  SatelliteDistance(position, link, altitudeFirst) = {instant}
  <2>1. link[1] \in Satellites /\ link[2] \in Satellites
    BY Intervals
  <2>. QED  BY <1>1, <2>1 DEF SatelliteDistance
<1>3. ASSUME NEW link \in groundLinks
      PROVE  GroundDistance(position, link) = {instant}
  BY <1>1 DEF GroundDistance
<1>4. AllOf(delays, instant)
  BY <1>2, <1>3 DEF AllOf, UpdateChannels
<1>5. DOMAIN delays = InterSatelliteLinks \union groundLinks
  BY DEF UpdateChannels
<1> HIDE DEF delays
<1>6. AllOf(Weights(position, stationLinks, delays, altitudeFirst), instant)
  BY <1>2, <1>4, <1>5 DEF AllOf, Weights
<1>7. AltitudesRead(position) = position
  BY <1>1 DEF AltitudesRead, TypeInv
<1>. QED  BY <1>4, <1>6, <1>7 DEF delays

(* What the events do with the positions when these are of one instant.    *)
LEMMA SetDelaysFacts ==
  ASSUME TypeInv, NEW instant \in Int, PositionsOf(instant), NEW altitudeFirst \in BOOLEAN,
         SetDelays(altitudeFirst), groundStationLinks' \subseteq GroundStations \X Satellites
  PROVE  /\ userTerminalLinks' \subseteq UserTerminals \X Satellites
         /\ position' = position
         /\ AllOf(delay', instant)
         /\ AllOf(Weights(position', groundStationLinks', delay', altitudeFirst), instant)
<1>1. PICK time \in [Satellites -> 0 .. Horizon] :
        LET pos == LookedAhead(time)
        IN  /\ userTerminalLinks' \in {l \in SUBSET (UserTerminals \X Satellites) : UserTerminalLinksMayBe(l)}
            /\ delay' = UpdateChannels(pos, groundStationLinks' \union userTerminalLinks', altitudeFirst)
            /\ position' = AltitudesRead(pos)
  BY Zenon DEF SetDelays
<1>2. userTerminalLinks' \subseteq UserTerminals \X Satellites
  BY <1>1
<1>3. /\ delay' = UpdateChannels(position, groundStationLinks' \union userTerminalLinks', altitudeFirst)
      /\ position' = AltitudesRead(position)
  BY <1>1, LookedAheadFacts
<1> DEFINE groundLinks == groundStationLinks' \union userTerminalLinks'
<1>4. \A link \in groundLinks : link[2] \in Satellites
  BY <1>2
<1>5. groundStationLinks' \subseteq groundLinks
  OBVIOUS
<1> HIDE DEF groundLinks
<1>. QED  BY <1>2, <1>3, <1>4, <1>5, DistancesOfOneInstant DEF groundLinks

LEMMA SetLinksAndRoutesFacts ==
  ASSUME TypeInv, NEW instant \in Int, PositionsOf(instant), NEW simStart, SetLinksAndRoutes(simStart)
  PROVE  /\ groundStationLinks' \subseteq GroundStations \X Satellites
         /\ userTerminalLinks' \subseteq UserTerminals \X Satellites
         /\ position' = position
         /\ AllOf(delay', instant)
         /\ AllOf(weight', instant)
<1>1. PICK altitudeFirst \in BOOLEAN :
        /\ groundStationLinks' \in SUBSET (GroundStations \X Satellites)
        /\ SetDelays(altitudeFirst)
        /\ weight' = Weights(position', groundStationLinks', delay', altitudeFirst)
  BY Zenon DEF SetLinksAndRoutes
<1>2. groundStationLinks' \subseteq GroundStations \X Satellites
  BY <1>1
<1>. QED  BY <1>1, <1>2, SetDelaysFacts

-----------------------------------------------------------------------------
(* The invariant is inductive.                                             *)

LEMMA InitIInv == Init => IInv
<1>. SUFFICES ASSUME Init PROVE IInv
  OBVIOUS
<1>1. /\ queue.arrival \in [Messages -> Int] /\ queue.before \subseteq Messages \X Messages
      /\ queue = [arrival |-> queue.arrival, before |-> queue.before]
  <2> DEFINE inOrder == {<<moveTimer(p[1]), moveTimer(p[2])>> :
                           p \in {p \in Satellites \X Satellites : p[1] < p[2]}}
  <2>1. /\ queue.arrival = [m \in Messages |->
                             IF m = startManagerNode THEN 0
                             ELSE IF m \in {updateTimer, userTerminalHandoverTimer} THEN Unscheduled
                             ELSE UpdateInterval]
        /\ queue.before = inOrder
        /\ queue = [arrival |-> queue.arrival, before |-> queue.before]
    BY DEF Init
  <2>2. inOrder \subseteq Messages \X Messages
    <3>1. \A p \in Satellites \X Satellites :
            moveTimer(p[1]) \in Messages /\ moveTimer(p[2]) \in Messages
      BY MessagesDistinct
    <3>. QED  BY <3>1
  <2>3. queue.arrival \in [Messages -> Int]
    BY <2>1, Intervals DEF Unscheduled
  <2>. QED  BY <2>1, <2>2, <2>3
<1>2. TypeInv
  BY <1>1 DEF Init, TypeInv, Queues
<1>3. /\ Due(startManagerNode) = 0
      /\ Due(updateTimer) = Unscheduled
      /\ Due(userTerminalHandoverTimer) = Unscheduled
      /\ \A sat \in Satellites : Due(moveTimer(sat)) = UpdateInterval
  BY MessagesDistinct DEF Init, Due
<1>4. ~Started
  BY <1>3 DEF Started, Unscheduled
<1>5. MovesInv
  BY <1>3, Intervals DEF Init, MovesInv, At
<1>6. HandoverInv
  BY <1>3, Intervals DEF HandoverInv, Unscheduled
<1>7. DOMAIN delay = {} /\ DOMAIN weight = {}
  BY DEF Init
<1>. QED
  BY <1>2, <1>3, <1>4, <1>5, <1>6, <1>7 DEF IInv, StartInv, UpdateInv, DelaysInv

(* A satellite moves: its next move is after the next update.              *)
LEMMA MoveIInv ==
  ASSUME IInv, NEW sat \in Satellites, Move(sat)
  PROVE  IInv'
<1>1. /\ TypeInv /\ MovesInv /\ StartInv /\ UpdateInv /\ HandoverInv /\ DelaysInv
      /\ queue \in Queues /\ UpdateInterval \in Int
  BY Intervals DEF IInv, TypeInv
<1>2. /\ queue' \in Queues
      /\ Due(moveTimer(sat))' = UpdateInterval
      /\ \A m \in Messages \ {moveTimer(sat)} : Due(m)' = Due(m)
      /\ \A m, n \in Messages \ {moveTimer(sat)} :
           <<m, n>> \in queue.before => <<m, n>> \in queue'.before
  <2> DEFINE r == ScheduleAt(queue, moveTimer(sat), UpdateInterval)
  <2>1. /\ r \in Queues
        /\ r.arrival[moveTimer(sat)] = UpdateInterval
        /\ \A m \in Messages \ {moveTimer(sat)} : r.arrival[m] = queue.arrival[m]
        /\ \A m, n \in Messages \ {moveTimer(sat)} :
             <<m, n>> \in queue.before => <<m, n>> \in r.before
    <3> DEFINE message == moveTimer(sat)
    <3>1. message \in Messages /\ queue \in Queues /\ UpdateInterval \in Int
      BY <1>1, MessagesDistinct
    <3> HIDE DEF message
    <3>2. LET s == ScheduleAt(queue, message, UpdateInterval) IN
          /\ s \in Queues
          /\ s.arrival[message] = UpdateInterval
          /\ \A m \in Messages \ {message} :
               /\ s.arrival[m] = queue.arrival[m]
               /\ queue.arrival[m] = UpdateInterval => <<m, message>> \in s.before
          /\ \A m, n \in Messages \ {message} : <<m, n>> \in queue.before => <<m, n>> \in s.before
      BY <3>1, ScheduleAtFacts
    <3>. QED  BY <3>2 DEF message
  <2>2. queue' = r
    BY DEF Move
  <2> HIDE DEF r
  <2>3. \A m : Due(m)' = r.arrival[m] /\ Due(m) = queue.arrival[m]
    BY <2>2 DEF Due
  <2>. QED  BY <2>1, <2>2, <2>3
<1>3. Due(moveTimer(sat)) = 0
  BY DEF Move, Handles, Due
<1>4. Started /\ Due(updateTimer) = StartOffset
  BY <1>1, <1>3, Intervals DEF StartInv, UpdateInv
<1>5. /\ Due(startManagerNode)' = Due(startManagerNode)
      /\ Due(updateTimer)' = StartOffset
      /\ Due(userTerminalHandoverTimer)' = Due(userTerminalHandoverTimer)
      /\ Started'
  BY <1>2, <1>4, MessagesDistinct DEF Started
<1>6. /\ position' = [position EXCEPT ![sat] = UpdateTime(@, 0)]
      /\ UNCHANGED <<groundStationLinks, userTerminalLinks, delay, weight>>
  BY DEF Move
<1>7. ASSUME NEW other \in Satellites
      PROVE  /\ Due(moveTimer(other))' \in 0 .. UpdateInterval
             /\ position'[other] = At(Due(moveTimer(other))' - UpdateInterval)
             /\ StartOffset \in {Due(moveTimer(other))' + StartOffset,
                                 Due(moveTimer(other))' + StartOffset - UpdateInterval}
             /\ /\ Due(userTerminalHandoverTimer)' = Due(moveTimer(other))'
                /\ Due(moveTimer(other))' < Due(updateTimer)'
                => <<moveTimer(other), userTerminalHandoverTimer>> \in queue'.before
  <2>1. CASE other = sat
    <3>1. position'[sat] = At(0)
      <4>1. position[sat] \in [eci: Int, geoCoord: Int]
        BY <1>1 DEF TypeInv
      <4>. QED  BY <1>1, <1>6, <4>1 DEF TypeInv, UpdateTime, At
    <3>. QED  BY <1>2, <1>5, <2>1, <3>1, Intervals
  <2>2. CASE other # sat
    <3>1. /\ moveTimer(other) \in Messages \ {moveTimer(sat)}
          /\ userTerminalHandoverTimer \in Messages \ {moveTimer(sat)}
      BY <2>2, MessagesDistinct
    <3>2. Due(moveTimer(other))' = Due(moveTimer(other)) /\ position'[other] = position[other]
      BY <1>1, <1>2, <1>6, <2>2, <3>1 DEF TypeInv
    <3>3. /\ Due(moveTimer(other)) \in 0 .. UpdateInterval
          /\ position[other] = At(Due(moveTimer(other)) - UpdateInterval)
          /\ StartOffset \in {Due(moveTimer(other)) + StartOffset,
                              Due(moveTimer(other)) + StartOffset - UpdateInterval}
      BY <1>1, <1>4 DEF MovesInv, UpdateInv
    <3>4. /\ Due(userTerminalHandoverTimer) = Due(moveTimer(other))
          /\ Due(moveTimer(other)) < Due(updateTimer)
          => <<moveTimer(other), userTerminalHandoverTimer>> \in queue.before
      BY <1>1 DEF HandoverInv
    <3>5. <<moveTimer(other), userTerminalHandoverTimer>> \in queue.before
          => <<moveTimer(other), userTerminalHandoverTimer>> \in queue'.before
      BY <1>2, <3>1
    <3>. QED
      BY <1>4, <1>5, <3>2, <3>3, <3>4, <3>5
  <2>. QED  BY <2>1, <2>2
<1>8. TypeInv'
  <2>1. position[sat] \in [eci: Int, geoCoord: Int] /\ 0 \in Int
    BY <1>1 DEF TypeInv
  <2>2. UpdateTime(position[sat], 0) \in [eci: Int, geoCoord: Int]
    BY <2>1, UpdateTimeFacts, Zenon
  <2>3. position' \in [Satellites -> [eci: Int, geoCoord: Int]]
    BY <1>1, <1>6, <2>2 DEF TypeInv
  <2>. QED  BY <1>1, <1>2, <1>6, <2>3 DEF TypeInv
<1>9. Latest' = Latest
  BY <1>4, <1>5 DEF Latest
<1>10. DelaysInv'
  BY <1>1, <1>4, <1>5, <1>6, <1>9 DEF DelaysInv, AllOf
<1>11. MovesInv' /\ StartInv' /\ UpdateInv' /\ HandoverInv'
  <2>1. StartOffset \in 0 .. UpdateInterval + StartOffset
    BY Intervals
  <2>. QED
    BY <1>1, <1>5, <1>7, <2>1 DEF MovesInv, StartInv, UpdateInv, HandoverInv
<1>. QED  BY <1>8, <1>10, <1>11 DEF IInv

(* At the start all positions are of now, and the next update is an offset *)
(* behind the first moves.                                                 *)
LEMMA StartSimulationIInv ==
  ASSUME IInv, StartSimulation
  PROVE  IInv'
<1>1. /\ TypeInv /\ MovesInv /\ StartInv /\ UpdateInv /\ HandoverInv /\ DelaysInv
      /\ queue \in Queues /\ UpdateInterval + StartOffset \in Int
  BY Intervals DEF IInv, TypeInv
<1>2. Due(startManagerNode) = 0
  BY DEF StartSimulation, Handles, Due
<1>3. /\ Due(userTerminalHandoverTimer) = Unscheduled
      /\ \A sat \in Satellites : Due(moveTimer(sat)) = UpdateInterval
  BY <1>1, <1>2 DEF StartInv, Started, Unscheduled
<1>4. PositionsOf(0)
  BY <1>1, <1>3, Intervals DEF MovesInv, PositionsOf
<1>5. /\ groundStationLinks' \subseteq GroundStations \X Satellites
      /\ userTerminalLinks' \subseteq UserTerminals \X Satellites
      /\ position' = position
      /\ AllOf(delay', 0)
      /\ AllOf(weight', 0)
  <2>1. SetLinksAndRoutes(TRUE)
    BY DEF StartSimulation
  <2>2. 0 \in Int
    OBVIOUS
  <2>. QED  BY <1>1, <1>4, <2>1, <2>2, SetLinksAndRoutesFacts, Zenon
<1>6. /\ queue' \in Queues
      /\ Due(startManagerNode)' = Unscheduled
      /\ Due(updateTimer)' = UpdateInterval + StartOffset
      /\ \A m \in Messages \ {startManagerNode, updateTimer} : Due(m)' = Due(m)
  <2> DEFINE q == CancelEvent(queue, startManagerNode)
             r == ScheduleAt(q, updateTimer, UpdateInterval + StartOffset)
  <2>1. /\ q \in Queues
        /\ q.arrival[startManagerNode] = Unscheduled
        /\ \A m \in Messages \ {startManagerNode} : q.arrival[m] = queue.arrival[m]
    BY <1>1, MessagesDistinct, CancelEventFacts
  <2>2. queue' = r
    BY DEF StartSimulation, NextUpdate
  <2> HIDE DEF q
  <2>3. /\ r \in Queues
        /\ r.arrival[updateTimer] = UpdateInterval + StartOffset
        /\ \A m \in Messages \ {updateTimer} :
             /\ r.arrival[m] = q.arrival[m]
             /\ q.arrival[m] = UpdateInterval + StartOffset => <<m, updateTimer>> \in r.before
        /\ \A m, n \in Messages \ {updateTimer} : <<m, n>> \in q.before => <<m, n>> \in r.before
    <3>1. updateTimer \in Messages /\ q \in Queues /\ UpdateInterval + StartOffset \in Int
      BY <1>1, <2>1, MessagesDistinct
    <3>. QED  BY <3>1, ScheduleAtFacts
  <2> HIDE DEF r
  <2>4. \A m : Due(m)' = r.arrival[m] /\ Due(m) = queue.arrival[m]
    BY <2>2 DEF Due
  <2>. QED  BY <2>1, <2>2, <2>3, <2>4, MessagesDistinct
<1>7. /\ Due(userTerminalHandoverTimer)' = Unscheduled
      /\ \A sat \in Satellites : Due(moveTimer(sat))' = UpdateInterval
  BY <1>3, <1>6, MessagesDistinct
<1>8. Started' /\ TypeInv'
  BY <1>1, <1>5, <1>6 DEF Started, TypeInv
<1>9. MovesInv'
  BY <1>4, <1>5, <1>7, Intervals DEF MovesInv, PositionsOf
<1>10. StartInv' /\ UpdateInv' /\ HandoverInv'
  BY <1>6, <1>7, <1>8, Intervals DEF StartInv, UpdateInv, HandoverInv, Unscheduled
<1>11. Latest' = 0
  BY <1>6, Intervals DEF Latest
<1>12. DelaysInv'
  BY <1>5, <1>8, <1>11 DEF DelaysInv
<1>. QED  BY <1>8, <1>9, <1>10, <1>12 DEF IInv

(* At an update all positions are of an offset ago.                        *)
LEMMA HandleUpdateTimerIInv ==
  ASSUME IInv, HandleUpdateTimer
  PROVE  IInv'
<1>1. /\ TypeInv /\ MovesInv /\ StartInv /\ UpdateInv /\ HandoverInv /\ DelaysInv
      /\ queue \in Queues /\ UpdateInterval \in Int
  BY Intervals DEF IInv, TypeInv
<1>2. Due(updateTimer) = 0
  BY DEF HandleUpdateTimer, Handles, Due
<1>3. Started
  BY <1>1, <1>2 DEF StartInv, Unscheduled
<1>4. \A sat \in Satellites : Due(moveTimer(sat)) = UpdateInterval - StartOffset
  BY <1>1, <1>2, <1>3, Intervals DEF MovesInv, UpdateInv
<1>5. PositionsOf(-StartOffset)
  <2>1. ASSUME NEW sat \in Satellites
        PROVE  position[sat] = At(-StartOffset)
    <3>1. position[sat] = At(Due(moveTimer(sat)) - UpdateInterval)
      BY <1>1 DEF MovesInv
    <3>2. Due(moveTimer(sat)) - UpdateInterval = -StartOffset
      BY <1>4, Intervals
    <3>. QED  BY <3>1, <3>2
  <2>. QED  BY <2>1 DEF PositionsOf
<1>6. /\ groundStationLinks' \subseteq GroundStations \X Satellites
      /\ userTerminalLinks' \subseteq UserTerminals \X Satellites
      /\ position' = position
      /\ AllOf(delay', -StartOffset)
      /\ AllOf(weight', -StartOffset)
  <2>1. SetLinksAndRoutes(FALSE)
    BY DEF HandleUpdateTimer
  <2>2. -StartOffset \in Int
    BY Intervals
  <2>. QED  BY <1>1, <1>5, <2>1, <2>2, SetLinksAndRoutesFacts
<1>7. /\ queue' \in Queues
      /\ Due(updateTimer)' = UpdateInterval
      /\ Due(userTerminalHandoverTimer)' \in {Unscheduled} \union (1 .. MaxDowntime)
      /\ \A m \in Messages \ {updateTimer, userTerminalHandoverTimer} :
           /\ Due(m)' = Due(m)
           /\ Due(m) >= 0 /\ Due(userTerminalHandoverTimer)' = Due(m)
                => <<m, userTerminalHandoverTimer>> \in queue'.before
  <2>1. PICK q \in HandoverTimerReset(queue) : queue' = ScheduleAt(q, updateTimer, UpdateInterval)
    BY DEF HandleUpdateTimer, NextUpdate
  <2>2. /\ q \in Queues
        /\ q.arrival[userTerminalHandoverTimer] \in {Unscheduled} \union (1 .. MaxDowntime)
        /\ \A m \in Messages \ {userTerminalHandoverTimer} :
             /\ q.arrival[m] = queue.arrival[m]
             /\ queue.arrival[m] >= 0 /\ q.arrival[userTerminalHandoverTimer] = queue.arrival[m]
                  => <<m, userTerminalHandoverTimer>> \in q.before
    BY <1>1, <2>1, HandoverTimerResetFacts
  <2> DEFINE r == ScheduleAt(q, updateTimer, UpdateInterval)
  <2>3. /\ r \in Queues
        /\ r.arrival[updateTimer] = UpdateInterval
        /\ \A m \in Messages \ {updateTimer} :
             /\ r.arrival[m] = q.arrival[m]
             /\ q.arrival[m] = UpdateInterval => <<m, updateTimer>> \in r.before
        /\ \A m, n \in Messages \ {updateTimer} : <<m, n>> \in q.before => <<m, n>> \in r.before
    <3>1. updateTimer \in Messages /\ q \in Queues /\ UpdateInterval \in Int
      BY <1>1, <2>2, MessagesDistinct
    <3>. QED  BY <3>1, ScheduleAtFacts
  <2>4. queue' = r
    BY <2>1
  <2> HIDE DEF r
  <2>5. \A m : Due(m)' = r.arrival[m] /\ Due(m) = queue.arrival[m]
    BY <2>4 DEF Due
  <2>6. userTerminalHandoverTimer \in Messages \ {updateTimer}
    BY MessagesDistinct
  <2>. QED  BY <2>2, <2>3, <2>4, <2>5, <2>6
<1>8. /\ Due(startManagerNode)' = Due(startManagerNode)
      /\ \A sat \in Satellites :
           /\ Due(moveTimer(sat))' = UpdateInterval - StartOffset
           /\ Due(userTerminalHandoverTimer)' = UpdateInterval - StartOffset
                => <<moveTimer(sat), userTerminalHandoverTimer>> \in queue'.before
  <2>1. Due(startManagerNode)' = Due(startManagerNode)
    BY <1>7, MessagesDistinct
  <2>2. ASSUME NEW sat \in Satellites
        PROVE  /\ Due(moveTimer(sat))' = UpdateInterval - StartOffset
               /\ Due(userTerminalHandoverTimer)' = UpdateInterval - StartOffset
                    => <<moveTimer(sat), userTerminalHandoverTimer>> \in queue'.before
    <3>1. moveTimer(sat) \in Messages \ {updateTimer, userTerminalHandoverTimer}
      BY MessagesDistinct
    <3>2. Due(moveTimer(sat)) = UpdateInterval - StartOffset /\ Due(moveTimer(sat)) >= 0
      BY <1>4, Intervals
    <3>. QED  BY <1>7, <3>1, <3>2
  <2>. QED  BY <2>1, <2>2
<1>9. Started' /\ TypeInv'
  BY <1>1, <1>3, <1>6, <1>7, <1>8 DEF Started, TypeInv
<1>10. MovesInv'
  <2>1. UpdateInterval - StartOffset - UpdateInterval = -StartOffset
    BY Intervals
  <2>2. ASSUME NEW sat \in Satellites
        PROVE  /\ Due(moveTimer(sat))' \in 0 .. UpdateInterval
               /\ position'[sat] = At(Due(moveTimer(sat))' - UpdateInterval)
    <3>1. Due(moveTimer(sat))' = UpdateInterval - StartOffset
      BY <1>8
    <3>2. position'[sat] = At(-StartOffset)
      BY <1>5, <1>6 DEF PositionsOf
    <3>. QED  BY <2>1, <3>1, <3>2, Intervals
  <2>. QED  BY <2>2 DEF MovesInv
<1>11. StartInv' /\ UpdateInv'
  <2>1. UpdateInterval \in 0 .. UpdateInterval + StartOffset
    BY Intervals
  <2>2. UpdateInterval = UpdateInterval - StartOffset + StartOffset
    BY Intervals
  <2>. QED  BY <1>7, <1>8, <1>9, <2>1, <2>2 DEF StartInv, UpdateInv
<1>14. HandoverInv'
  BY <1>7, <1>8, Intervals DEF HandoverInv, Unscheduled
<1>12. Latest' = -StartOffset /\ -StartOffset \in Int
  BY <1>7, Intervals DEF Latest
<1>13. DelaysInv'
  BY <1>6, <1>9, <1>12 DEF DelaysInv
<1>. QED  BY <1>9, <1>10, <1>11, <1>13, <1>14 DEF IInv

(* At a handover no move of the same time is left, so all positions are of *)
(* the last moves: those the last update found, or those that the next one *)
(* will find.                                                              *)
LEMMA HandleHandoverTimerIInv ==
  ASSUME IInv, HandleHandoverTimer
  PROVE  IInv'
<1> DEFINE found == IF Due(updateTimer) > StartOffset THEN Latest ELSE Due(updateTimer) - StartOffset
<1>1. /\ TypeInv /\ MovesInv /\ StartInv /\ UpdateInv /\ HandoverInv /\ DelaysInv
      /\ queue \in Queues
  BY DEF IInv, TypeInv
<1>2. /\ Due(userTerminalHandoverTimer) = 0
      /\ \A m \in Messages : <<m, userTerminalHandoverTimer>> \notin queue.before
  BY DEF HandleHandoverTimer, Handles, Due
<1>3. Started /\ Due(updateTimer) \in 0 .. UpdateInterval + StartOffset
  BY <1>1, <1>2 DEF StartInv, UpdateInv, Unscheduled
<1>4. Latest \in Int /\ found \in Int
  BY <1>3, Intervals DEF Latest
<1>5. PositionsOf(found)
  <2>1. ASSUME NEW sat \in Satellites
        PROVE  position[sat] = At(found)
    <3>1. /\ Due(moveTimer(sat)) \in 0 .. UpdateInterval
          /\ position[sat] = At(Due(moveTimer(sat)) - UpdateInterval)
      BY <1>1 DEF MovesInv
    <3>2. Due(updateTimer) \in {Due(moveTimer(sat)) + StartOffset,
                                Due(moveTimer(sat)) + StartOffset - UpdateInterval}
      BY <1>1, <1>3 DEF UpdateInv
    <3>3. Due(moveTimer(sat)) # 0
      <4>1. SUFFICES ASSUME Due(moveTimer(sat)) = 0 PROVE FALSE
        OBVIOUS
      <4>2. 0 < Due(updateTimer)
        BY <1>3, <3>2, <4>1, Intervals
      <4>3. <<moveTimer(sat), userTerminalHandoverTimer>> \in queue.before
        BY <1>1, <1>2, <4>1, <4>2 DEF HandoverInv
      <4>. QED  BY <1>2, <4>3, MessagesDistinct
    <3>4. Due(moveTimer(sat)) - UpdateInterval = found
      BY <1>3, <3>1, <3>2, <3>3, Intervals DEF Latest
    <3>. QED  BY <3>1, <3>4
  <2>. QED  BY <2>1 DEF PositionsOf
<1>6. /\ found >= Latest
      /\ Due(updateTimer) > StartOffset => found = Latest
  BY <1>3, Intervals DEF Latest
<1> HIDE DEF found
<1>7. /\ groundStationLinks' = groundStationLinks /\ weight' = weight
      /\ groundStationLinks' \subseteq GroundStations \X Satellites
      /\ userTerminalLinks' \subseteq UserTerminals \X Satellites
      /\ position' = position
      /\ AllOf(delay', found)
  <2>1. PICK altitudeFirst \in BOOLEAN : SetDelays(altitudeFirst)
    BY Zenon DEF HandleHandoverTimer
  <2>2. groundStationLinks' = groundStationLinks /\ weight' = weight
    BY DEF HandleHandoverTimer
  <2>3. groundStationLinks' \subseteq GroundStations \X Satellites
    BY <1>1, <2>2 DEF TypeInv
  <2>. QED  BY <1>1, <1>4, <1>5, <2>1, <2>2, <2>3, SetDelaysFacts
<1>8. /\ queue' \in Queues
      /\ Due(userTerminalHandoverTimer)' \in {Unscheduled} \union (1 .. MaxDowntime)
      /\ \A m \in Messages \ {userTerminalHandoverTimer} :
           /\ Due(m)' = Due(m)
           /\ Due(m) >= 0 /\ Due(userTerminalHandoverTimer)' = Due(m)
                => <<m, userTerminalHandoverTimer>> \in queue'.before
  <2>1. PICK r \in HandoverTimerReset(queue) : queue' = r
    BY DEF HandleHandoverTimer
  <2>2. /\ r \in Queues
        /\ r.arrival[userTerminalHandoverTimer] \in {Unscheduled} \union (1 .. MaxDowntime)
        /\ \A m \in Messages \ {userTerminalHandoverTimer} :
             /\ r.arrival[m] = queue.arrival[m]
             /\ queue.arrival[m] >= 0 /\ r.arrival[userTerminalHandoverTimer] = queue.arrival[m]
                  => <<m, userTerminalHandoverTimer>> \in r.before
    BY <1>1, HandoverTimerResetFacts
  <2>3. \A m : Due(m)' = r.arrival[m] /\ Due(m) = queue.arrival[m]
    BY <2>1 DEF Due
  <2>. QED  BY <2>1, <2>2, <2>3
<1>9. /\ Due(startManagerNode)' = Due(startManagerNode)
      /\ Due(updateTimer)' = Due(updateTimer)
  BY <1>8, MessagesDistinct
<1>10. ASSUME NEW sat \in Satellites
       PROVE  /\ Due(moveTimer(sat))' = Due(moveTimer(sat))
              /\ Due(userTerminalHandoverTimer)' = Due(moveTimer(sat))'
                   => <<moveTimer(sat), userTerminalHandoverTimer>> \in queue'.before
  <2>1. moveTimer(sat) \in Messages \ {userTerminalHandoverTimer}
    BY MessagesDistinct
  <2>2. Due(moveTimer(sat)) >= 0
    BY <1>1 DEF MovesInv
  <2>. QED  BY <1>8, <2>1, <2>2
<1>11. Started' /\ TypeInv'
  BY <1>1, <1>3, <1>7, <1>8, <1>9 DEF Started, TypeInv
<1>12. MovesInv'
  BY <1>1, <1>7, <1>10 DEF MovesInv
<1>13. StartInv' /\ UpdateInv'
  BY <1>1, <1>3, <1>9, <1>10, <1>11 DEF StartInv, UpdateInv
<1>14. HandoverInv'
  <2>1. Due(userTerminalHandoverTimer)' \in Unscheduled .. MaxDowntime
    BY <1>8, Intervals DEF Unscheduled
  <2>. QED  BY <1>10, <2>1 DEF HandoverInv
<1>15. Latest' = Latest
  BY <1>9 DEF Latest
<1>16. DelaysInv'
  <2>1. AllOf(weight', Latest')
    BY <1>1, <1>3, <1>7, <1>15 DEF DelaysInv
  <2>. QED  BY <1>4, <1>6, <1>7, <1>9, <1>11, <1>15, <2>1 DEF DelaysInv
<1>. QED  BY <1>11, <1>12, <1>13, <1>14, <1>16 DEF IInv

(* Time that passes shifts events, positions and delays alike.             *)
LEMMA AdvanceTimeIInv ==
  ASSUME IInv, AdvanceTime
  PROVE  IInv'
<1> DEFINE scheduled == {m \in Messages : queue.arrival[m] # Unscheduled}
<1>1. /\ TypeInv /\ MovesInv /\ StartInv /\ UpdateInv /\ HandoverInv /\ DelaysInv
      /\ queue \in Queues
  BY DEF IInv, TypeInv
<1>2. PICK next \in scheduled :
        LET elapsed == queue.arrival[next] IN
        /\ \A m \in scheduled : queue.arrival[m] >= elapsed
        /\ elapsed > 0
        /\ queue' = [queue EXCEPT !.arrival =
                       [m \in Messages |-> IF m \in scheduled THEN @[m] - elapsed ELSE Unscheduled]]
        /\ position' = [sat \in Satellites |-> [eci |-> position[sat].eci - elapsed,
                                                geoCoord |-> position[sat].geoCoord - elapsed]]
        /\ delay' = [link \in DOMAIN delay |-> Earlier(delay[link], elapsed)]
        /\ weight' = [link \in DOMAIN weight |-> Earlier(weight[link], elapsed)]
        /\ UNCHANGED <<groundStationLinks, userTerminalLinks>>
  BY Zenon DEF AdvanceTime
<1> DEFINE elapsed == queue.arrival[next]
<1>3. /\ \A m \in Messages : queue.arrival[m] # Unscheduled => queue.arrival[m] >= elapsed
      /\ elapsed > 0 /\ elapsed \in Int
      /\ position' = [sat \in Satellites |-> [eci |-> position[sat].eci - elapsed,
                                              geoCoord |-> position[sat].geoCoord - elapsed]]
      /\ delay' = [link \in DOMAIN delay |-> Earlier(delay[link], elapsed)]
      /\ weight' = [link \in DOMAIN weight |-> Earlier(weight[link], elapsed)]
      /\ groundStationLinks' = groundStationLinks /\ userTerminalLinks' = userTerminalLinks
  BY <1>1, <1>2 DEF Queues
<1>4. queue' = [queue EXCEPT !.arrival =
                  [m \in Messages |-> IF queue.arrival[m] # Unscheduled THEN queue.arrival[m] - elapsed
                                      ELSE Unscheduled]]
  BY <1>2
<1> HIDE DEF elapsed
<1>5. /\ queue'.before = queue.before
      /\ \A m \in Messages : Due(m)' = IF Due(m) # Unscheduled THEN Due(m) - elapsed ELSE Unscheduled
  BY <1>1, <1>4 DEF Queues, Due
<1>6. queue' \in Queues
  <2> DEFINE arrival == [m \in Messages |-> IF queue.arrival[m] # Unscheduled
                                            THEN queue.arrival[m] - elapsed ELSE Unscheduled]
  <2>1. arrival \in [Messages -> Int]
    BY <1>1, <1>3 DEF Queues, Unscheduled
  <2>2. queue' = [queue EXCEPT !.arrival = arrival]
    BY <1>4
  <2> HIDE DEF arrival
  <2>. QED  BY <1>1, <2>1, <2>2 DEF Queues
<1>7. Started
  BY <1>1, <1>3, MessagesDistinct DEF StartInv, Started, Due, Unscheduled
<1>8. Started'
  BY <1>5, <1>7, MessagesDistinct DEF Started
<1>9. /\ Due(updateTimer) >= elapsed /\ Due(updateTimer)' = Due(updateTimer) - elapsed
      /\ Due(updateTimer) \in 0 .. UpdateInterval + StartOffset
  <2>1. Due(updateTimer) \in 0 .. UpdateInterval + StartOffset
    BY <1>1, <1>7 DEF UpdateInv
  <2>2. Due(updateTimer) # Unscheduled
    BY <2>1 DEF Unscheduled
  <2>3. Due(updateTimer) >= elapsed
    BY <1>3, <2>2, MessagesDistinct DEF Due
  <2>. QED  BY <1>5, <2>1, <2>2, <2>3, MessagesDistinct
<1>10. ASSUME NEW sat \in Satellites
       PROVE  /\ Due(moveTimer(sat)) >= elapsed
              /\ Due(moveTimer(sat))' = Due(moveTimer(sat)) - elapsed
              /\ Due(moveTimer(sat)) \in 0 .. UpdateInterval
              /\ position[sat] = At(Due(moveTimer(sat)) - UpdateInterval)
              /\ position'[sat] = At(Due(moveTimer(sat))' - UpdateInterval)
  <2>1. /\ Due(moveTimer(sat)) \in 0 .. UpdateInterval
        /\ position[sat] = At(Due(moveTimer(sat)) - UpdateInterval)
    BY <1>1 DEF MovesInv
  <2>2. Due(moveTimer(sat)) # Unscheduled
    BY <2>1 DEF Unscheduled
  <2>3. Due(moveTimer(sat)) >= elapsed
    BY <1>3, <2>2, MessagesDistinct DEF Due
  <2>4. Due(moveTimer(sat))' = Due(moveTimer(sat)) - elapsed
    BY <1>5, <2>2, MessagesDistinct
  <2>5. /\ position[sat].eci = Due(moveTimer(sat)) - UpdateInterval
        /\ position[sat].geoCoord = Due(moveTimer(sat)) - UpdateInterval
    BY <2>1 DEF At
  <2>6. Due(moveTimer(sat)) - UpdateInterval - elapsed = Due(moveTimer(sat))' - UpdateInterval
    BY <1>3, <2>1, <2>4, Intervals
  <2>7. position'[sat] = At(Due(moveTimer(sat))' - UpdateInterval)
    BY <1>3, <2>5, <2>6 DEF At
  <2>. QED  BY <2>1, <2>3, <2>4, <2>7
<1>11. TypeInv'
  <2>1. position' \in [Satellites -> [eci: Int, geoCoord: Int]]
    BY <1>1, <1>3 DEF TypeInv
  <2>. QED  BY <1>1, <1>3, <1>6, <2>1 DEF TypeInv
<1>12. MovesInv'
  BY <1>3, <1>10, Intervals DEF MovesInv
<1>13. StartInv' /\ UpdateInv'
  <2>1. Due(updateTimer)' \in 0 .. UpdateInterval + StartOffset
    BY <1>3, <1>9, Intervals
  <2>2. ASSUME NEW sat \in Satellites
        PROVE  Due(updateTimer)' \in {Due(moveTimer(sat))' + StartOffset,
                                      Due(moveTimer(sat))' + StartOffset - UpdateInterval}
    <3>1. Due(updateTimer) \in {Due(moveTimer(sat)) + StartOffset,
                                Due(moveTimer(sat)) + StartOffset - UpdateInterval}
      BY <1>1, <1>7 DEF UpdateInv
    <3>. QED  BY <1>3, <1>9, <1>10, <3>1, Intervals
  <2>. QED  BY <1>8, <2>1, <2>2 DEF StartInv, UpdateInv
<1>14. HandoverInv'
  <2>1. /\ Due(userTerminalHandoverTimer) \in Unscheduled .. MaxDowntime
        /\ Due(userTerminalHandoverTimer)'
             = IF Due(userTerminalHandoverTimer) # Unscheduled
               THEN Due(userTerminalHandoverTimer) - elapsed ELSE Unscheduled
        /\ Due(userTerminalHandoverTimer) # Unscheduled => Due(userTerminalHandoverTimer) >= elapsed
    BY <1>1, <1>3, <1>5, MessagesDistinct DEF HandoverInv, Due
  <2>2. Due(userTerminalHandoverTimer)' \in Unscheduled .. MaxDowntime
    BY <1>3, <2>1, Intervals DEF Unscheduled
  <2>3. ASSUME NEW sat \in Satellites,
               Due(userTerminalHandoverTimer)' = Due(moveTimer(sat))',
               Due(moveTimer(sat))' < Due(updateTimer)'
        PROVE  <<moveTimer(sat), userTerminalHandoverTimer>> \in queue'.before
    <3>1. /\ Due(userTerminalHandoverTimer) = Due(moveTimer(sat))
          /\ Due(moveTimer(sat)) < Due(updateTimer)
      BY <1>3, <1>9, <1>10, <2>1, <2>3, Intervals DEF Unscheduled
    <3>. QED  BY <1>1, <1>5, <3>1 DEF HandoverInv
  <2>. QED  BY <2>2, <2>3 DEF HandoverInv
<1>15. Latest \in Int /\ Latest' = Latest - elapsed
  BY <1>3, <1>9, Intervals DEF Latest
<1>16. ASSUME NEW instant \in Int
       PROVE  /\ AllOf(delay, instant) => AllOf(delay', instant - elapsed)
              /\ AllOf(weight, instant) => AllOf(weight', instant - elapsed)
  <2>1. Earlier({instant}, elapsed) = {instant - elapsed}
    BY DEF Earlier
  <2>. QED  BY <1>3, <2>1 DEF AllOf
<1>17. DelaysInv'
  <2>1. /\ AllOf(weight, Latest)
        /\ \E instant \in Int : /\ AllOf(delay, instant)
                                /\ instant >= Latest
                                /\ Due(updateTimer) > StartOffset => instant = Latest
    BY <1>1, <1>7 DEF DelaysInv
  <2>2. PICK instant \in Int : /\ AllOf(delay, instant)
                               /\ instant >= Latest
                               /\ Due(updateTimer) > StartOffset => instant = Latest
    BY <2>1
  <2>3. AllOf(delay', instant - elapsed)
    BY <1>16, <2>2
  <2>4. AllOf(weight', Latest')
    <3>1. AllOf(weight', Latest - elapsed)
      BY <1>15, <1>16, <2>1
    <3>. QED  BY <1>15, <3>1
  <2>5. /\ instant - elapsed \in Int /\ instant - elapsed >= Latest'
        /\ Due(updateTimer)' > StartOffset => instant - elapsed = Latest'
    <3>1. /\ elapsed \in Int /\ Latest \in Int /\ Latest' = Latest - elapsed
          /\ instant >= Latest
      BY <1>3, <1>15, <2>2
    <3>2. Due(updateTimer)' > StartOffset => Due(updateTimer) > StartOffset
      BY <1>3, <1>9, Intervals
    <3>3. Due(updateTimer)' > StartOffset => instant = Latest
      BY <2>2, <3>2
    <3>. QED  BY <3>1, <3>3
  <2>. QED  BY <1>8, <2>3, <2>4, <2>5 DEF DelaysInv
<1>. QED  BY <1>11, <1>12, <1>13, <1>14, <1>17 DEF IInv

LEMMA NextIInv ==
  ASSUME IInv, [Next]_vars
  PROVE  IInv'
<1>1. ASSUME NEW sat \in Satellites, Move(sat)
      PROVE  IInv'
  BY <1>1, MoveIInv
<1>2. CASE StartSimulation
  BY <1>2, StartSimulationIInv
<1>3. CASE HandleUpdateTimer
  BY <1>3, HandleUpdateTimerIInv
<1>4. CASE HandleHandoverTimer
  BY <1>4, HandleHandoverTimerIInv
<1>5. CASE AdvanceTime
  BY <1>5, AdvanceTimeIInv
<1>6. CASE UNCHANGED vars
  BY <1>6 DEF vars, IInv, TypeInv, MovesInv, StartInv, UpdateInv, HandoverInv, DelaysInv,
              Latest, Started, Due
<1>. QED  BY <1>1, <1>2, <1>3, <1>4, <1>5, <1>6 DEF Next

THEOREM Inductive == Spec => []IInv
<1>. QED  BY InitIInv, NextIInv, PTL DEF Spec

-----------------------------------------------------------------------------
(* The properties.                                                         *)

LEMMA InstantsFacts ==
  ASSUME NEW f, NEW instant, AllOf(f, instant)
  PROVE  Instants(f) = {} \/ Instants(f) = {instant}
<1>1. CASE DOMAIN f = {}
  BY <1>1 DEF Instants
<1>2. CASE DOMAIN f # {}
  BY <1>2 DEF AllOf, Instants
<1>. QED  BY <1>1, <1>2

(* At any time all weights are of one instant and all delays of one.       *)
LEMMA InstantsInForce ==
  ASSUME IInv
  PROVE  /\ \E instant \in Int : /\ AllOf(weight, instant)
                                 /\ instant >= -(UpdateInterval + StartOffset)
         /\ \E instant \in Int : /\ AllOf(delay, instant)
                                 /\ instant >= -(UpdateInterval + StartOffset)
<1>1. DelaysInv /\ UpdateInv
  BY DEF IInv
<1>2. CASE Started
  <2>1. Latest \in Int /\ Latest >= -(UpdateInterval + StartOffset)
    BY <1>1, <1>2, Intervals DEF UpdateInv, Latest
  <2>2. PICK instant \in Int : AllOf(delay, instant) /\ instant >= Latest
    BY <1>1, <1>2 DEF DelaysInv
  <2>3. instant >= -(UpdateInterval + StartOffset)
    BY <2>1, <2>2, Intervals
  <2>. QED  BY <1>1, <1>2, <2>1, <2>2, <2>3 DEF DelaysInv
<1>3. CASE ~Started
  <2>1. AllOf(delay, 0) /\ AllOf(weight, 0)
    BY <1>1, <1>3 DEF DelaysInv, AllOf
  <2>2. 0 \in Int /\ 0 >= -(UpdateInterval + StartOffset)
    BY Intervals
  <2>. QED  BY <2>1, <2>2
<1>. QED  BY <1>2, <1>3

(* The delays of channels never mix positions of several instants, in      *)
(* whatever order moves, updates and handovers of the same time are        *)
(* handled and whatever the look-aheads did to the satellites before.      *)
THEOREM OneInstant == Spec => []DelaysOfOneInstant
<1>1. IInv => DelaysOfOneInstant
  <2>. SUFFICES ASSUME IInv PROVE DelaysOfOneInstant
    OBVIOUS
  <2>1. PICK instant \in Int : AllOf(delay, instant)
    BY InstantsInForce
  <2>2. Cardinality({}) = 0 /\ Cardinality({instant}) = 1
    BY FS_EmptySet, FS_Singleton
  <2>. QED  BY <2>1, <2>2, InstantsFacts DEF DelaysOfOneInstant
<1>. QED  BY <1>1, Inductive, PTL

(* No delay and no weight outlives an update interval and the offset.      *)
THEOREM Recent == Spec => []DelaysRecent
<1>1. IInv => DelaysRecent
  <2>. SUFFICES ASSUME IInv PROVE DelaysRecent
    OBVIOUS
  <2>1. PICK w \in Int : AllOf(weight, w) /\ w >= -(UpdateInterval + StartOffset)
    BY InstantsInForce
  <2>2. PICK d \in Int : AllOf(delay, d) /\ d >= -(UpdateInterval + StartOffset)
    BY InstantsInForce
  <2>3. Instants(weight) \subseteq {w} /\ Instants(delay) \subseteq {d}
    BY <2>1, <2>2, InstantsFacts
  <2>. QED  BY <2>1, <2>2, <2>3 DEF DelaysRecent
<1>. QED  BY <1>1, Inductive, PTL

(* Routes are computed from the delays that packets have, except from a    *)
(* handover behind the moves to the update an offset later.                *)
THEOREM CurrentDelays == Spec => []RoutesUseCurrentDelays
<1>1. IInv => RoutesUseCurrentDelays
  <2>. SUFFICES ASSUME IInv, NEW link \in DOMAIN weight \intersect DOMAIN delay,
                       ~(Due(updateTimer) <= StartOffset)
                PROVE  weight[link] = delay[link]
    BY DEF RoutesUseCurrentDelays, Due
  <2>1. DelaysInv /\ UpdateInv /\ Started
    BY DEF IInv, DelaysInv
  <2>2. Due(updateTimer) > StartOffset
    BY <2>1, Intervals DEF UpdateInv
  <2>3. AllOf(weight, Latest) /\ AllOf(delay, Latest)
    BY <2>1, <2>2 DEF DelaysInv
  <2>. QED  BY <2>3 DEF AllOf
<1>. QED  BY <1>1, Inductive, PTL

=============================================================================
