------------------------ MODULE UserTerminalHandover ------------------------
(***************************************************************************)
(* The user-terminal side of LeoChannelConstructor: which satellite serves *)
(* each user terminal, the hard handovers in progress, the two self        *)
(* messages that drive them (updateTimer and userTerminalHandoverTimer),   *)
(* the periodic polling slot, the UserTerminalHandoverOracle that the      *)
(* constructor keeps informed, and the endpoint table that                 *)
(* LeoIpv4NetworkConfigurator rebuilds from the links.                     *)
(*                                                                         *)
(* TIME. Every time in this module is relative to simTime(): the value of  *)
(* a variable is the code's value minus the current simulation time, so a  *)
(* handler runs at time 0, "reconnectTime > simTime()" is                  *)
(* "reconnectTime > 0", and AdvanceTime, the step of the OMNeT++ kernel to *)
(* the next event, subtracts the time that passes. The code only compares  *)
(* and subtracts times, so nothing is lost, and a behaviour of any length  *)
(* stays in a finite state space. A downtime is never 0: it is 1.5 round   *)
(* trip times, or a configured fallback.                                   *)
(*                                                                         *)
(* SKY. Satellite motion is the environment. What the handlers read of it  *)
(* at one instant is, for each terminal, the satellites above the          *)
(* elevation mask and the result of the serving-satellite selection.       *)
(*                                                                         *)
(* An operator whose name has an underscore is a faulty variant of the     *)
(* definition that follows it; only the tests of the properties use it.    *)
(***************************************************************************)
EXTENDS Integers, FiniteSets, SelectionContract

CONSTANTS
  UserTerminals,   \* the user terminals
  UpdateInterval,  \* updateInterval of the satellite mobility
  SlotInterval,    \* userTerminalUpdateInterval; 0 turns the polling slot off
  StartOffset,     \* the microsecond added to the first update
  Downtimes,       \* what computeUserTerminalHandoverDowntime may return
  MaxDowntime      \* an upper bound of the downtimes

ASSUME ConstantsAssumption ==
  /\ NoSatellite \notin Satellites
  /\ UserTerminals # {} /\ IsFiniteSet(UserTerminals)
  /\ UpdateInterval \in Nat \ {0}
  /\ SlotInterval \in Nat
  /\ StartOffset \in Nat \ {0}
  /\ MaxDowntime \in Nat
  /\ Downtimes \subseteq 1 .. MaxDowntime /\ Downtimes # {}

VARIABLES
  startManagerNode,       \* self message that starts the simulation
  updateTimer,            \* periodic update
  userTerminalHandoverTimer, \* next reconnect of a pending handover
  handoverQueuedFirst,    \* the handover timer precedes an update timer due at the same time
  nextUserTerminalUpdate, \* start of the next polling slot
  terminal,               \* per terminal: link, pending handover, oracle entry
  predicted,              \* nextHandoverStartTimes[ut] # 0, that is, = nextUserTerminalUpdate
  endpointSatellite,      \* satellite the configurator's endpoint tables attach the terminal to
  visible,                \* satellites reachable now
  selected,               \* satellite selected now
  nextSelected            \* reachable satellite selected at nextUserTerminalUpdate

timers == <<startManagerNode, updateTimer, userTerminalHandoverTimer, handoverQueuedFirst>>
sky    == <<visible, selected>>
vars   == <<timers, nextUserTerminalUpdate, terminal, predicted, endpointSatellite,
            sky, nextSelected>>

Unscheduled == -1   \* a self message that is not in the event queue
Past        == -1   \* any time before now

(***************************************************************************)
(* One record per terminal. "link" is activeUserTerminalLinks[ut] (its     *)
(* satellite), "target" and "reconnectTime" are                            *)
(* pendingUserTerminalHandovers[ut], and the rest is the oracle's entry.   *)
(* There is no link, or no pending handover, when the satellite is         *)
(* NoSatellite.                                                            *)
(***************************************************************************)
TerminalState ==
  [link: SatelliteOrNone, target: SatelliteOrNone, reconnectTime: Int,
   hardHandoverActive: BOOLEAN, expectedHandoverEnd: Int,
   oldSatellite: SatelliteOrNone, newSatellite: SatelliteOrNone]

InitialTerminal ==
  [link |-> NoSatellite, target |-> NoSatellite, reconnectTime |-> 0,
   hardHandoverActive |-> FALSE, expectedHandoverEnd |-> Past,
   oldSatellite |-> NoSatellite, newSatellite |-> NoSatellite]

-----------------------------------------------------------------------------
(* The sky.                                                                *)

(* The selection is a function of the terminal and the time, so what was   *)
(* computed for nextUserTerminalUpdate comes true when that time comes.    *)
SkyMayBecome(atSlot, vis, sel) ==
  \A ut \in UserTerminals :
    /\ SelectionAllowed(vis[ut], sel[ut])
    /\ atSlot => /\ nextSelected[ut] = NoSatellite => vis[ut] = {}
                 /\ nextSelected[ut] # NoSatellite => sel[ut] = nextSelected[ut] /\ sel[ut] \in vis[ut]

SelectedReachableNow(ut) == selected[ut] \in visible[ut]

-----------------------------------------------------------------------------
(* Operations on one terminal's record, in the code's vocabulary.          *)

HasLink(t)    == t.link # NoSatellite
HasPending(t) == t.target # NoSatellite

(* What the oracle is told. *)
MarkHardHandoverEnded(t) == [t EXCEPT !.hardHandoverActive = FALSE]

MarkHardHandoverStarted(t, old, new, expectedEnd) ==
  [t EXCEPT !.hardHandoverActive = TRUE, !.expectedHandoverEnd = expectedEnd,
            !.oldSatellite = old, !.newSatellite = new]

CancelPending_OracleNotTold(t) ==
  IF HasPending(t) THEN [t EXCEPT !.target = NoSatellite, !.reconnectTime = 0] ELSE t

CancelPending(t) ==
  IF HasPending(t)
  THEN MarkHardHandoverEnded([t EXCEPT !.target = NoSatellite, !.reconnectTime = 0])
  ELSE t

RemoveActiveLink(t) == CancelPending([t EXCEPT !.link = NoSatellite])

SchedulePending_NoDowntime(t, old, new, downtime) ==
  MarkHardHandoverStarted([t EXCEPT !.target = new, !.reconnectTime = 0], old, new, 0)

SchedulePending(t, old, new, downtime) ==
  MarkHardHandoverStarted([t EXCEPT !.target = new, !.reconnectTime = downtime],
                          old, new, downtime)

DropAndProbe_OnlyWhenLost(ut, t, downtime) ==
  IF HasLink(t) /\ t.link \notin visible[ut]
  THEN IF SelectedReachableNow(ut)
       THEN SchedulePending(RemoveActiveLink(t), t.link, selected[ut], downtime)
       ELSE RemoveActiveLink(t)
  ELSE t

(* First loop of refreshUserTerminalLinks: drop a link whose satellite has *)
(* set, and give a terminal that has neither a link nor a pending handover *)
(* a pending handover to the selected satellite.                           *)
DropAndProbe(ut, t, downtime) ==
  LET lost == HasLink(t) /\ t.link \notin visible[ut]
      u    == IF lost THEN RemoveActiveLink(t) ELSE t
      old  == IF lost THEN t.link ELSE NoSatellite
  IN  IF ~HasLink(u) /\ ~HasPending(u) /\ SelectedReachableNow(ut)
      THEN SchedulePending(u, old, selected[ut], downtime)
      ELSE u

PollSlot_AlwaysSwitch(ut, t, downtime) ==
  LET u == IF HasLink(t) THEN RemoveActiveLink(t) ELSE t
  IN  IF SelectedReachableNow(ut) THEN SchedulePending(u, t.link, selected[ut], downtime)
      ELSE CancelPending(u)

(* Body of the polling slot. The pending handover of a detached terminal   *)
(* is replaced, its countdown restarted, or cancelled.                     *)
PollSlot(ut, t, downtime) ==
  LET keepLink == \/ ~SelectedReachableNow(ut) /\ t.link \in visible[ut]
                  \/ selected[ut] = t.link
      u        == IF HasLink(t) THEN RemoveActiveLink(t) ELSE t
  IN  IF HasLink(t) /\ keepLink THEN CancelPending(t)
      ELSE IF SelectedReachableNow(ut) THEN SchedulePending(u, t.link, selected[ut], downtime)
      ELSE CancelPending(u)

ReconnectDue_Late(t) == HasPending(t) /\ t.reconnectTime < 0

ReconnectDue(t) == HasPending(t) /\ t.reconnectTime <= 0

CompletePending_Unchecked(ut, t) ==
  IF ReconnectDue(t) THEN CancelPending([t EXCEPT !.link = t.target]) ELSE t

(* A due handover ends; it ends with a link if its target is reachable.    *)
CompletePending(ut, t) ==
  IF ReconnectDue(t)
  THEN CancelPending([t EXCEPT !.link = IF t.target \in visible[ut] THEN t.target ELSE @])
  ELSE t

EarliestReconnect_Latest(term) ==
  LET pending == {ut \in UserTerminals : HasPending(term[ut])}
  IN  IF pending = {} THEN Unscheduled
      ELSE CHOOSE r \in {term[ut].reconnectTime : ut \in pending} :
             \A ut \in pending : r >= term[ut].reconnectTime

(* scheduleUserTerminalHandoverTimer: the earliest pending reconnect.      *)
EarliestReconnect(term) ==
  LET pending == {ut \in UserTerminals : HasPending(term[ut])}
  IN  IF pending = {} THEN Unscheduled
      ELSE CHOOSE r \in {term[ut].reconnectTime : ut \in pending} :
             \A ut \in pending : r <= term[ut].reconnectTime

NextSlot_OneStep(slot) == slot + SlotInterval

NextSlot_WrongInterval(slot) == slot + UpdateInterval

(* The first slot boundary after now: "while (next <= now) next += S".     *)
NextSlot(slot) == SlotInterval - ((-slot) % SlotInterval)

HandoverPredicted_AnySelection(ut, t, sel) ==
  SlotInterval > 0 /\ HasLink(t) /\ sel[ut] # NoSatellite

(* publishNextUserTerminalHandoverTime: the time of the next slot is       *)
(* announced for a terminal that will then be moved to another satellite.  *)
HandoverPredicted(ut, t, sel) ==
  /\ SlotInterval > 0
  /\ HasLink(t)
  /\ sel[ut] \notin {NoSatellite, t.link}

-----------------------------------------------------------------------------

Init ==
  /\ startManagerNode = 0
  /\ updateTimer = Unscheduled
  /\ userTerminalHandoverTimer = Unscheduled
  /\ handoverQueuedFirst = FALSE
  /\ nextUserTerminalUpdate = 0
  /\ terminal = [ut \in UserTerminals |-> InitialTerminal]
  /\ predicted = [ut \in UserTerminals |-> FALSE]
  /\ endpointSatellite = [ut \in UserTerminals |-> NoSatellite]
  /\ visible \in [UserTerminals -> SUBSET Satellites]
  /\ selected \in [UserTerminals -> SatelliteOrNone]
  /\ \A ut \in UserTerminals : SelectionAllowed(visible[ut], selected[ut])
  /\ nextSelected = [ut \in UserTerminals |-> NoSatellite]

(* refreshUserTerminalLinks(true), in the event that starts the            *)
(* simulation: no terminal has a link yet, and one is created at once to   *)
(* the selected satellite.                                                 *)
StartSimulation ==
  LET started == [ut \in UserTerminals |->
        IF SelectedReachableNow(ut)
        THEN [CancelPending(terminal[ut]) EXCEPT !.link = selected[ut]]
        ELSE CancelPending(terminal[ut])]
  IN
  /\ startManagerNode = 0
  /\ terminal' = started
  /\ nextUserTerminalUpdate' = SlotInterval
  /\ nextSelected' \in [UserTerminals -> SatelliteOrNone]
  /\ predicted' = [ut \in UserTerminals |-> HandoverPredicted(ut, started[ut], nextSelected')]
  /\ userTerminalHandoverTimer' = EarliestReconnect(started)
  /\ endpointSatellite' = [ut \in UserTerminals |-> started[ut].link]
  /\ startManagerNode' = Unscheduled
  /\ updateTimer' = UpdateInterval + StartOffset
  /\ handoverQueuedFirst' = TRUE
  /\ UNCHANGED sky

SlotDue == SlotInterval > 0 /\ nextUserTerminalUpdate <= 0

(* The two loops of refreshUserTerminalLinks(false) for one terminal.      *)
Reassigned(ut, downtime) ==
  LET t == DropAndProbe(ut, terminal[ut], downtime)
  IN  IF SlotDue THEN PollSlot(ut, t, downtime) ELSE t

EndpointTables_NewLinksOnly(assigned, done) ==
  IF \E ut \in UserTerminals : ReconnectDue(assigned[ut]) /\ assigned[ut].target \in visible[ut]
  THEN [ut \in UserTerminals |-> done[ut].link]
  ELSE endpointSatellite

(* The endpoint tables are rebuilt by finalizeUserTerminalLinks when a     *)
(* link was created, and otherwise by refreshUserTerminalLinks itself when *)
(* one was removed.                                                        *)
EndpointTables(assigned, done) ==
  LET linksReadyToFinalize    == \E ut \in UserTerminals :
                                   ReconnectDue(assigned[ut]) /\ assigned[ut].target \in visible[ut]
      endpointTopologyChanged == \E ut \in UserTerminals :
                                   HasLink(terminal[ut]) /\ ~HasLink(assigned[ut])
  IN  IF linksReadyToFinalize \/ endpointTopologyChanged
      THEN [ut \in UserTerminals |-> done[ut].link]
      ELSE endpointSatellite

(* refreshUserTerminalLinks(false) and, when it reports new links,         *)
(* finalizeUserTerminalLinks.                                              *)
RefreshUserTerminalLinks ==
  \E downtime \in [UserTerminals -> Downtimes] :
    LET assigned == [ut \in UserTerminals |-> Reassigned(ut, downtime[ut])]
        done     == [ut \in UserTerminals |-> CompletePending(ut, assigned[ut])]
    IN
    /\ terminal' = done
    /\ IF SlotDue
       THEN /\ nextUserTerminalUpdate' = NextSlot(nextUserTerminalUpdate)
            /\ nextSelected' \in [UserTerminals -> SatelliteOrNone]
       ELSE UNCHANGED <<nextUserTerminalUpdate, nextSelected>>
    /\ predicted' = [ut \in UserTerminals |-> HandoverPredicted(ut, done[ut], nextSelected')]
    /\ userTerminalHandoverTimer' = EarliestReconnect(done)
    /\ endpointSatellite' = EndpointTables(assigned, done)

(* Both timers of the constructor have the same priority, so of two that   *)
(* are due at the same time the one that was scheduled first is handled    *)
(* first. An update reschedules the handover timer and then itself; a      *)
(* handover event reschedules the handover timer only.                     *)
UpdateDue   == updateTimer = 0 /\ (userTerminalHandoverTimer = 0 => ~handoverQueuedFirst)
HandoverDue == userTerminalHandoverTimer = 0 /\ (updateTimer = 0 => handoverQueuedFirst)

(* handleMessage(updateTimer). *)
HandleUpdateTimer ==
  /\ UpdateDue
  /\ RefreshUserTerminalLinks
  /\ updateTimer' = UpdateInterval
  /\ handoverQueuedFirst' = TRUE
  /\ UNCHANGED <<startManagerNode, sky>>

(* handleMessage(userTerminalHandoverTimer). *)
HandleHandoverTimer ==
  /\ HandoverDue
  /\ RefreshUserTerminalLinks
  /\ handoverQueuedFirst' = FALSE
  /\ UNCHANGED <<startManagerNode, updateTimer, sky>>

EventDue == 0 \in {startManagerNode, updateTimer, userTerminalHandoverTimer}

TimeToNextEvent ==
  IF userTerminalHandoverTimer = Unscheduled \/ updateTimer <= userTerminalHandoverTimer
  THEN updateTimer ELSE userTerminalHandoverTimer

Earlier(time, elapsed) == IF time - elapsed < Past THEN Past ELSE time - elapsed

(* The kernel moves to the next event: every time that is still of         *)
(* interest comes closer, and the satellites move.                         *)
AdvanceTime ==
  LET elapsed == TimeToNextEvent
      atSlot  == SlotInterval > 0 /\ nextUserTerminalUpdate = elapsed
  IN
  /\ ~EventDue
  /\ updateTimer' = updateTimer - elapsed
  /\ userTerminalHandoverTimer' = IF userTerminalHandoverTimer = Unscheduled THEN Unscheduled
                                  ELSE userTerminalHandoverTimer - elapsed
  /\ nextUserTerminalUpdate' = IF SlotInterval > 0 THEN nextUserTerminalUpdate - elapsed ELSE 0
  /\ terminal' = [ut \in UserTerminals |->
       [terminal[ut] EXCEPT
          !.reconnectTime = IF HasPending(terminal[ut]) THEN @ - elapsed ELSE @,
          !.expectedHandoverEnd = Earlier(@, elapsed)]]
  /\ visible' \in [UserTerminals -> SUBSET Satellites]
  /\ selected' \in [UserTerminals -> SatelliteOrNone]
  /\ SkyMayBecome(atSlot, visible', selected')
  /\ UNCHANGED <<startManagerNode, handoverQueuedFirst, predicted, endpointSatellite, nextSelected>>

Next ==
  \/ StartSimulation
  \/ HandleUpdateTimer
  \/ HandleHandoverTimer
  \/ AdvanceTime

(* The simulation kernel always dispatches the next event.                 *)
Fairness == WF_vars(Next)

Spec == Init /\ [][Next]_vars /\ Fairness

-----------------------------------------------------------------------------
(* Properties.                                                             *)

Started == startManagerNode = Unscheduled

(* The ranges of all variables: no timer is ever overdue, a reconnect lies *)
(* at most the longest downtime ahead, and a polling slot is taken no      *)
(* later than the first update after its boundary.                         *)
TypeOK ==
  /\ startManagerNode \in {Unscheduled, 0}
  /\ updateTimer \in Unscheduled .. (UpdateInterval + StartOffset)
  /\ userTerminalHandoverTimer \in Unscheduled .. MaxDowntime
  /\ handoverQueuedFirst \in BOOLEAN
  /\ nextUserTerminalUpdate \in Int /\ nextUserTerminalUpdate <= SlotInterval
  /\ nextUserTerminalUpdate + UpdateInterval + StartOffset > 0
  /\ terminal \in [UserTerminals -> TerminalState]
  /\ \A ut \in UserTerminals :
       /\ terminal[ut].reconnectTime \in 0 .. MaxDowntime
       /\ terminal[ut].expectedHandoverEnd \in Past .. MaxDowntime
  /\ predicted \in [UserTerminals -> BOOLEAN]
  /\ endpointSatellite \in [UserTerminals -> SatelliteOrNone]
  /\ visible \in [UserTerminals -> SUBSET Satellites]
  /\ selected \in [UserTerminals -> SatelliteOrNone]
  /\ nextSelected \in [UserTerminals -> SatelliteOrNone]

(* A terminal never has a link and a pending handover at the same time,    *)
(* and what the oracle tells about a hard handover (that one is active,    *)
(* its target, its expected end) is what the pending handover will do.     *)
OracleTracksPending ==
  \A ut \in UserTerminals :
    LET t == terminal[ut] IN
    /\ ~(HasLink(t) /\ HasPending(t))
    /\ t.hardHandoverActive <=> HasPending(t)
    /\ HasPending(t) => /\ t.newSatellite = t.target
                        /\ t.oldSatellite # t.newSatellite
                        /\ t.expectedHandoverEnd = t.reconnectTime

(* The handover timer is armed exactly for the earliest pending reconnect, *)
(* and no reconnect is left behind: between two instants every pending     *)
(* handover lies in the future.                                            *)
NoReconnectForgotten ==
  /\ \A ut \in UserTerminals : HasPending(terminal[ut]) =>
       /\ userTerminalHandoverTimer # Unscheduled
       /\ userTerminalHandoverTimer <= terminal[ut].reconnectTime
  /\ userTerminalHandoverTimer # Unscheduled =>
       \E ut \in UserTerminals : /\ HasPending(terminal[ut])
                                 /\ terminal[ut].reconnectTime = userTerminalHandoverTimer
  /\ ~EventDue => \A ut \in UserTerminals : HasPending(terminal[ut]) => terminal[ut].reconnectTime > 0

(* Between two instants every link leads to a satellite that was in view   *)
(* when the last event was handled: a link is neither created to nor kept  *)
(* on a satellite that has set.                                            *)
ServingSatelliteVisible ==
  ~EventDue => \A ut \in UserTerminals :
                 HasLink(terminal[ut]) => terminal[ut].link \in visible[ut]

(* The configurator's endpoint tables, from which packets to and from a    *)
(* terminal are routed, name the terminal's satellite whenever the handler *)
(* of an event has returned, whichever of the two paths rebuilt them.      *)
EndpointTablesFollowLinks ==
  \A ut \in UserTerminals : endpointSatellite[ut] = terminal[ut].link

(* A link to a satellite still in view is given up only for a pending      *)
(* handover to another satellite in view ("keep using a healthy serving    *)
(* satellite until an immediate replacement exists").                      *)
HealthyLinkKept ==
  [][\A ut \in UserTerminals :
       /\ HasLink(terminal[ut])
       /\ terminal[ut].link \in visible[ut]
       /\ terminal'[ut].link # terminal[ut].link
       => terminal'[ut].target \in visible[ut] \ {terminal[ut].link}]_vars

(* The oracle's prediction is right: if an event falls on the announced    *)
(* time, a terminal that still has its link starts a hard handover then if *)
(* and only if one was announced for it.                                   *)
PredictionHonoured ==
  [][(EventDue /\ Started /\ SlotInterval > 0 /\ nextUserTerminalUpdate = 0)
     => \A ut \in UserTerminals :
          HasLink(terminal[ut]) => (predicted[ut] <=> HasPending(terminal'[ut]))]_vars

(* Every event gives each terminal that sees a satellite a link or a       *)
(* pending handover, unless the handover that just ended, or still runs    *)
(* out, was to a satellite that has set ("keep probing for a replacement   *)
(* so detached terminals don't wait until the next polling slot").         *)
DetachedTerminalsProbed ==
  [][EventDue => \A ut \in UserTerminals :
       \/ visible[ut] = {}
       \/ HasLink(terminal'[ut]) \/ HasPending(terminal'[ut])
       \/ HasPending(terminal[ut]) /\ terminal[ut].target \notin visible[ut]]_vars

(* A terminal that sees every satellite from some time on is connected     *)
(* again and again: no polling slot, lost target or simultaneous event     *)
(* keeps it detached for ever. Holds when a downtime is shorter than the   *)
(* time between two handled slots.                                         *)
Reconnects ==
  \A ut \in UserTerminals :
    <>[](visible[ut] = Satellites) => []<>HasLink(terminal[ut])

(* The promise to the rest of the network, TerminalConnectivity, kept with *)
(* the record of a terminal as its serving and awaited satellites.         *)
Connectivity == INSTANCE TerminalConnectivity WITH
  serving <- [ut \in UserTerminals |-> terminal[ut].link],
  awaited <- [ut \in UserTerminals |-> terminal[ut].target],
  inView  <- visible,
  running <- Started

HandoverIsHard == Connectivity!Spec

=============================================================================
