------------------------- MODULE UserTerminalOutage -------------------------
(***************************************************************************)
(* UserTerminalHandover with a history variable that measures outages: how *)
(* long a terminal has been without a link although the sky would have     *)
(* allowed one. The measure starts again at 0 when the terminal gets a     *)
(* link, when it sees no satellite, and when the satellite that it waits   *)
(* for has set: no handover policy can be blamed for those. "postponed"    *)
(* counts the polling slots that restarted the countdown of the terminal's *)
(* pending handover during the outage.                                     *)
(***************************************************************************)
EXTENDS UserTerminalHandover

VARIABLES outage, postponed

outageVars == <<vars, outage, postponed>>

Blameless(ut) ==
  \/ visible[ut] = {}
  \/ HasPending(terminal[ut]) /\ terminal[ut].target \notin visible[ut]

OutageInit ==
  /\ Init
  /\ outage = [ut \in UserTerminals |-> 0]
  /\ postponed = [ut \in UserTerminals |-> 0]

(* A terminal without a link ages while time passes.                       *)
OutageAdvance ==
  /\ AdvanceTime
  /\ outage' = [ut \in UserTerminals |->
                  IF HasLink(terminal[ut]) THEN 0 ELSE outage[ut] + TimeToNextEvent]
  /\ UNCHANGED postponed

(* An event of the constructor ends the outages that it can end.           *)
OutageEvent ==
  LET over(ut) == HasLink(terminal'[ut]) \/ Blameless(ut)
  IN
  /\ StartSimulation \/ HandleUpdateTimer \/ HandleHandoverTimer
  /\ outage' = [ut \in UserTerminals |-> IF over(ut) THEN 0 ELSE outage[ut]]
  /\ postponed' = [ut \in UserTerminals |->
       IF over(ut) THEN 0
       ELSE IF SlotDue /\ ~HasLink(terminal[ut]) /\ HasPending(terminal[ut])
            THEN postponed[ut] + 1
            ELSE postponed[ut]]

OutageNext == OutageAdvance \/ OutageEvent

OutageSpec == OutageInit /\ [][OutageNext]_outageVars /\ WF_outageVars(OutageNext)

-----------------------------------------------------------------------------

(* The worst outage that the handover policy itself can cause. A terminal  *)
(* that lost its target waits for the next update (the first one comes a little *)
(* later than the others), then for one downtime,                          *)
(* and every polling slot that falls into the wait can restart it once.    *)
OutageBounded ==
  \A ut \in UserTerminals :
    outage[ut] <= StartOffset + UpdateInterval + (1 + postponed[ut]) * MaxDowntime

(* With a downtime shorter than the time between two handled slots at most *)
(* one polling slot falls into an outage, so an outage lasts at most one   *)
(* update interval and two downtimes.                                      *)
PostponedOnce ==
  MaxDowntime + UpdateInterval < SlotInterval =>
    \A ut \in UserTerminals : postponed[ut] <= 1

=============================================================================
