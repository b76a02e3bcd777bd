--------------------- MODULE UserTerminalHandoverProofs ---------------------
(***************************************************************************)
(* What UserTerminalHandover and UserTerminalOutage promise, for every set *)
(* of terminals, satellites, downtimes and every choice of the two         *)
(* intervals.                                                              *)
(*                                                                         *)
(* Safety is argued per terminal: each stage of refreshUserTerminalLinks   *)
(* (drop and probe, polling slot, completion) keeps a terminal's record    *)
(* consistent, and the last stage leaves no reconnect due. The shared      *)
(* variables then follow from the records: the handover timer is their     *)
(* minimum, and the endpoint tables are rebuilt whenever a link changed.   *)
(*                                                                         *)
(* The second half is about what a terminal can rely on. The detailed      *)
(* channel constructor implements TerminalConnectivity: each event takes   *)
(* every terminal through one of the five abstract steps, and time passing *)
(* is a move of the sky. Beside the inductive invariant this needs the     *)
(* contract of the selection (a reachable satellite is selected if there   *)
(* is one), without which a terminal that sees one could be left idle. How *)
(* long the policy can keep a terminal detached is a budget: what it has   *)
(* waited and what it still has to wait (the countdown of its handover or, *)
(* if it has none, the time to the next update) never exceed the bound     *)
(* together. Time only moves from the one to the other, and a polling slot *)
(* that restarts a countdown adds at most one downtime, which postponed    *)
(* accounts for.                                                           *)
(***************************************************************************)
EXTENDS UserTerminalOutage, NaturalOrder, TLAPS

-----------------------------------------------------------------------------
(* The inductive invariant.                                                *)

(* A record that can be in the table: what TypeOK and OracleTracksPending  *)
(* say of one terminal.                                                    *)
RecordOK(t) ==
  /\ t \in TerminalState
  /\ t.reconnectTime \in 0 .. MaxDowntime
  /\ t.expectedHandoverEnd \in Past .. MaxDowntime
  /\ ~(HasLink(t) /\ HasPending(t))
  /\ t.hardHandoverActive <=> HasPending(t)
  /\ HasPending(t) => /\ t.newSatellite = t.target
                      /\ t.oldSatellite # t.newSatellite
                      /\ t.expectedHandoverEnd = t.reconnectTime

(* Before the start nothing is scheduled and no terminal has a link; after *)
(* it an update is always scheduled, and the polling slot lies ahead       *)
(* whenever no event is due.                                               *)
EventLoopInv ==
  /\ ~Started => /\ startManagerNode = 0
                 /\ updateTimer = Unscheduled
                 /\ userTerminalHandoverTimer = Unscheduled
                 /\ nextUserTerminalUpdate = 0
                 /\ \A ut \in UserTerminals : ~HasLink(terminal[ut]) /\ ~HasPending(terminal[ut])
  /\ Started => updateTimer # Unscheduled
  /\ SlotInterval = 0 => nextUserTerminalUpdate = 0
  /\ ~EventDue /\ SlotInterval > 0 => nextUserTerminalUpdate > 0

IInv ==
  /\ TypeOK
  /\ OracleTracksPending
  /\ NoReconnectForgotten
  /\ ServingSatelliteVisible
  /\ EndpointTablesFollowLinks
  /\ EventLoopInv

-----------------------------------------------------------------------------
(* Lemmas about the operators.                                             *)

(* The ranges of the numeric constants. *)
LEMMA Intervals ==
  /\ UpdateInterval \in Nat /\ UpdateInterval > 0
  /\ StartOffset \in Nat /\ StartOffset > 0
  /\ SlotInterval \in Nat
  /\ MaxDowntime \in Nat
  BY ConstantsAssumption

(* scheduleUserTerminalHandoverTimer picks the least pending reconnect. *)
LEMMA EarliestReconnectIsLeast ==
  ASSUME NEW term,
         \A ut \in UserTerminals : HasPending(term[ut]) => term[ut].reconnectTime \in Nat
  PROVE  /\ \A ut \in UserTerminals : HasPending(term[ut]) =>
              /\ EarliestReconnect(term) # Unscheduled
              /\ EarliestReconnect(term) <= term[ut].reconnectTime
         /\ EarliestReconnect(term) # Unscheduled =>
              \E ut \in UserTerminals : /\ HasPending(term[ut])
                                        /\ term[ut].reconnectTime = EarliestReconnect(term)
<1> DEFINE pending == {ut \in UserTerminals : HasPending(term[ut])}
           times   == {term[ut].reconnectTime : ut \in pending}
<1>1. CASE pending = {}
  BY <1>1 DEF EarliestReconnect
<1>2. CASE pending # {}
  <2>1. times \subseteq Nat /\ times # {}
    BY <1>2
  <2>2. \E x \in times : \A y \in times : x <= y
    BY <2>1, LeastElement
  <2>3. \E r \in times : \A ut \in pending : r <= term[ut].reconnectTime
    BY <2>2
  <2>4. EarliestReconnect(term)
          = CHOOSE r \in times : \A ut \in pending : r <= term[ut].reconnectTime
    BY <1>2 DEF EarliestReconnect
  <2>5. /\ EarliestReconnect(term) \in times
        /\ \A ut \in pending : EarliestReconnect(term) <= term[ut].reconnectTime
    BY <2>3, <2>4
  <2>. QED  BY <2>1, <2>5 DEF Unscheduled
<1>. QED  BY <1>1, <1>2

(* The next polling slot lies ahead, by at most one slot interval. *)
LEMMA NextSlotAhead ==
  ASSUME NEW slot \in Int, SlotInterval > 0
  PROVE  NextSlot(slot) \in 1 .. SlotInterval
<1>1. SlotInterval \in Nat
  BY ConstantsAssumption
<1>2. (-slot) % SlotInterval \in 0 .. (SlotInterval - 1)
  BY <1>1
<1>. QED  BY <1>1, <1>2 DEF NextSlot

(* Cancelling keeps a record consistent and leaves no pending handover. *)
LEMMA CancelPendingOK ==
  ASSUME NEW t, t \in TerminalState, t.reconnectTime \in 0 .. MaxDowntime,
         t.expectedHandoverEnd \in Past .. MaxDowntime,
         t.hardHandoverActive <=> HasPending(t)
  PROVE  /\ RecordOK(CancelPending(t))
         /\ CancelPending(t).link = t.link
         /\ ~HasPending(CancelPending(t))
<1> DEFINE u == CancelPending(t)
<1>1. CASE HasPending(t)
  <2>1. u = [t EXCEPT !.target = NoSatellite, !.reconnectTime = 0, !.hardHandoverActive = FALSE]
    BY <1>1 DEF CancelPending, MarkHardHandoverEnded
  <2>2. u \in TerminalState
    <3>1. NoSatellite \in SatelliteOrNone /\ 0 \in Int /\ FALSE \in BOOLEAN
      BY DEF SatelliteOrNone
    <3>. QED  BY ONLY <2>1, <3>1, t \in TerminalState DEF TerminalState
  <2>3. /\ u.target = NoSatellite /\ u.reconnectTime = 0 /\ u.hardHandoverActive = FALSE
        /\ u.link = t.link /\ u.expectedHandoverEnd = t.expectedHandoverEnd
    BY <2>1 DEF TerminalState
  <2>4. 0 \in 0 .. MaxDowntime
    BY ConstantsAssumption
  <2>. QED  BY <2>2, <2>3, <2>4 DEF RecordOK, HasPending
<1>2. CASE ~HasPending(t)
  <2>1. u = t
    BY <1>2 DEF CancelPending, MarkHardHandoverEnded
  <2>. QED  BY <1>2, <2>1 DEF RecordOK
<1>. QED  BY <1>1, <1>2

LEMMA RemoveActiveLinkOK ==
  ASSUME NEW t, RecordOK(t)
  PROVE  /\ RecordOK(RemoveActiveLink(t))
         /\ ~HasLink(RemoveActiveLink(t))
         /\ ~HasPending(RemoveActiveLink(t))
<1> DEFINE u == [t EXCEPT !.link = NoSatellite]
<1>1. /\ u \in TerminalState /\ u.reconnectTime \in 0 .. MaxDowntime
      /\ u.expectedHandoverEnd \in Past .. MaxDowntime
      /\ u.hardHandoverActive <=> HasPending(u)
      /\ u.link = NoSatellite
  BY DEF RecordOK, TerminalState, SatelliteOrNone, HasPending
<1>2. RemoveActiveLink(t) = CancelPending(u)
  BY DEF RemoveActiveLink
<1> HIDE DEF u
<1>. QED  BY <1>1, <1>2, CancelPendingOK DEF HasLink

(* A handover that is scheduled for a terminal without a link. *)
LEMMA SchedulePendingOK ==
  ASSUME NEW t, RecordOK(t), ~HasLink(t),
         NEW old \in SatelliteOrNone, NEW new \in Satellites, old # new,
         NEW downtime \in Downtimes
  PROVE  LET u == SchedulePending(t, old, new, downtime) IN
         RecordOK(u) /\ ~HasLink(u) /\ HasPending(u) /\ u.reconnectTime > 0 /\ u.target = new
<1> DEFINE u == SchedulePending(t, old, new, downtime)
<1>1. /\ new \in SatelliteOrNone /\ new # NoSatellite
      /\ downtime \in 1 .. MaxDowntime /\ downtime \in Int
      /\ MaxDowntime \in Nat
  BY ConstantsAssumption DEF SatelliteOrNone
<1>2. t \in TerminalState /\ t.link = NoSatellite
  BY DEF RecordOK, HasLink
<1>3. u \in TerminalState
  BY ONLY <1>1, <1>2, old \in SatelliteOrNone DEF SchedulePending, MarkHardHandoverStarted, TerminalState
<1>4. /\ u.link = NoSatellite /\ u.target = new /\ u.newSatellite = new
      /\ u.oldSatellite = old /\ u.hardHandoverActive = TRUE
      /\ u.reconnectTime = downtime /\ u.expectedHandoverEnd = downtime
  BY <1>2 DEF SchedulePending, MarkHardHandoverStarted, TerminalState
<1>. QED
  BY <1>1, <1>3, <1>4 DEF RecordOK, HasPending, HasLink, Past

-----------------------------------------------------------------------------
(* The stages of refreshUserTerminalLinks, for one terminal.               *)

SkyTypeOK ==
  /\ visible \in [UserTerminals -> SUBSET Satellites]
  /\ selected \in [UserTerminals -> SatelliteOrNone]

(* After the first loop a link leads to a satellite in view, and it is the *)
(* link that the terminal had.                                             *)
LEMMA DropAndProbeOK ==
  ASSUME NEW ut \in UserTerminals, NEW t, RecordOK(t), NEW downtime \in Downtimes, SkyTypeOK
  PROVE  LET u == DropAndProbe(ut, t, downtime) IN
         /\ RecordOK(u)
         /\ HasLink(u) => u = t /\ u.link \in visible[ut]
         /\ HasLink(t) /\ t.link \in visible[ut] => u = t
<1> DEFINE lost == HasLink(t) /\ t.link \notin visible[ut]
           v    == IF lost THEN RemoveActiveLink(t) ELSE t
           old  == IF lost THEN t.link ELSE NoSatellite
           u    == DropAndProbe(ut, t, downtime)
<1>1. RecordOK(v) /\ (lost => ~HasLink(v)) /\ (~lost => v = t)
  BY RemoveActiveLinkOK
<1>2. old \in SatelliteOrNone
  BY DEF RecordOK, TerminalState, SatelliteOrNone
<1>3. CASE ~HasLink(v) /\ ~HasPending(v) /\ SelectedReachableNow(ut)
  <2>1. u = SchedulePending(v, old, selected[ut], downtime)
    BY <1>3 DEF DropAndProbe
  <2>2. selected[ut] \in Satellites /\ selected[ut] \in visible[ut]
    BY <1>3 DEF SelectedReachableNow, SkyTypeOK
  <2>3. old # selected[ut]
    BY <2>2, ConstantsAssumption
  <2>4. RecordOK(u) /\ ~HasLink(u)
    BY <1>1, <1>2, <1>3, <2>1, <2>2, <2>3, SchedulePendingOK
  <2>5. ~(HasLink(t) /\ t.link \in visible[ut])
    BY <1>1, <1>3
  <2>. QED  BY <2>4, <2>5
<1>4. CASE ~(~HasLink(v) /\ ~HasPending(v) /\ SelectedReachableNow(ut))
  <2>1. u = v
    BY <1>4 DEF DropAndProbe
  <2>. QED  BY <1>1, <2>1
<1>. QED  BY <1>3, <1>4

(* After the polling slot a link leads to a satellite in view, if it did   *)
(* before, and it is the link that the terminal had.                       *)
LEMMA PollSlotOK ==
  ASSUME NEW ut \in UserTerminals, NEW t, RecordOK(t), NEW downtime \in Downtimes, SkyTypeOK
  PROVE  LET u == PollSlot(ut, t, downtime) IN
         /\ RecordOK(u)
         /\ HasLink(u) => HasLink(t) /\ u.link = t.link
         /\ HasLink(t) /\ t.link \in visible[ut] /\ ~HasLink(u) =>
              u.target \in visible[ut] \ {t.link} /\ ~ReconnectDue(u)
<1> DEFINE keepLink == \/ ~SelectedReachableNow(ut) /\ t.link \in visible[ut]
                       \/ selected[ut] = t.link
           v == IF HasLink(t) THEN RemoveActiveLink(t) ELSE t
           u == PollSlot(ut, t, downtime)
<1>1. RecordOK(v) /\ ~HasLink(v)
  BY RemoveActiveLinkOK
<1>2. CASE HasLink(t) /\ keepLink
  <2>1. u = CancelPending(t)
    BY <1>2 DEF PollSlot
  <2>2. RecordOK(u) /\ u.link = t.link
    BY <2>1, CancelPendingOK DEF RecordOK
  <2>. QED  BY <1>2, <2>2 DEF HasLink
<1>3. CASE ~(HasLink(t) /\ keepLink) /\ SelectedReachableNow(ut)
  <2>1. u = SchedulePending(v, t.link, selected[ut], downtime)
    BY <1>3 DEF PollSlot
  <2>2. selected[ut] \in Satellites /\ selected[ut] \in visible[ut]
    BY <1>3 DEF SelectedReachableNow, SkyTypeOK
  <2>3. t.link \in SatelliteOrNone /\ t.link # selected[ut]
    BY <1>3, <2>2, ConstantsAssumption DEF HasLink, RecordOK, TerminalState
  <2>4. RecordOK(u) /\ ~HasLink(u) /\ ~ReconnectDue(u)
    BY <1>1, <2>1, <2>2, <2>3, SchedulePendingOK DEF ReconnectDue, RecordOK
  <2>5. u.target = selected[ut]
    BY <1>1, <2>1 DEF SchedulePending, MarkHardHandoverStarted, RecordOK, TerminalState
  <2>. QED  BY <2>2, <2>3, <2>4, <2>5
<1>4. CASE ~(HasLink(t) /\ keepLink) /\ ~SelectedReachableNow(ut)
  <2>1. u = CancelPending(v)
    BY <1>4 DEF PollSlot
  <2>2. RecordOK(u) /\ ~HasLink(u)
    BY <1>1, <2>1, CancelPendingOK DEF RecordOK, HasLink
  <2>. QED  BY <1>4, <2>2
<1>. QED  BY <1>2, <1>3, <1>4

(* The last stage leaves no reconnect due; a link that it creates leads to *)
(* the target of the handover, in view.                                    *)
LEMMA CompletePendingOK ==
  ASSUME NEW ut \in UserTerminals, NEW t, RecordOK(t), SkyTypeOK
  PROVE  LET u == CompletePending(ut, t) IN
         /\ RecordOK(u)
         /\ HasPending(u) => u.reconnectTime > 0
         /\ ReconnectDue(t) /\ t.target \in visible[ut] => u.link = t.target
         /\ ~(ReconnectDue(t) /\ t.target \in visible[ut]) => u.link = t.link
<1> DEFINE new == IF t.target \in visible[ut] THEN t.target ELSE t.link
           v   == [t EXCEPT !.link = new]
           u   == CompletePending(ut, t)
<1>1. CASE ReconnectDue(t)
  <2>1. u = CancelPending(v)
    BY <1>1 DEF CompletePending
  <2>2. new \in SatelliteOrNone
    BY DEF RecordOK, TerminalState
  <2>3. /\ v \in TerminalState /\ v.reconnectTime \in 0 .. MaxDowntime
        /\ v.expectedHandoverEnd \in Past .. MaxDowntime
        /\ v.hardHandoverActive <=> HasPending(v)
        /\ v.link = new
    BY <2>2 DEF RecordOK, TerminalState, HasPending
  <2>4. RecordOK(u) /\ u.link = new /\ ~HasPending(u)
    <3> HIDE DEF v, new
    <3>. QED  BY <2>1, <2>3, CancelPendingOK
  <2>. QED  BY <1>1, <2>4
<1>2. CASE ~ReconnectDue(t)
  <2>1. u = t
    BY <1>2 DEF CompletePending
  <2>2. HasPending(t) => t.reconnectTime > 0
    BY <1>2 DEF ReconnectDue, RecordOK
  <2>. QED  BY <1>2, <2>1, <2>2
<1>. QED  BY <1>1, <1>2

(* The whole of refreshUserTerminalLinks for one terminal: t before it, a  *)
(* after its two loops and b at its end.                                   *)
LEMMA RefreshTerminalOK ==
  ASSUME NEW ut \in UserTerminals, NEW downtime \in Downtimes, SkyTypeOK,
         RecordOK(terminal[ut])
  PROVE  LET t == terminal[ut]
             a == Reassigned(ut, downtime)
             b == CompletePending(ut, a) IN
         /\ RecordOK(b)
         /\ HasPending(b) => b.reconnectTime > 0
         /\ HasLink(b) => b.link \in visible[ut]
         /\ b.link # t.link => \/ ReconnectDue(a) /\ a.target \in visible[ut]
                               \/ HasLink(t) /\ ~HasLink(a)
         /\ HasLink(t) /\ t.link \in visible[ut] /\ b.link # t.link =>
              b.target \in visible[ut] \ {t.link}
<1> DEFINE t == terminal[ut]
           d == DropAndProbe(ut, t, downtime)
           a == Reassigned(ut, downtime)
           b == CompletePending(ut, a)
<1>1. /\ RecordOK(d)
      /\ HasLink(d) => d = t /\ d.link \in visible[ut]
      /\ HasLink(t) /\ t.link \in visible[ut] => d = t
  BY DropAndProbeOK
<1>2. /\ RecordOK(a)
      /\ HasLink(a) => HasLink(t) /\ a.link = t.link /\ a.link \in visible[ut]
      /\ HasLink(t) /\ t.link \in visible[ut] /\ ~HasLink(a) =>
           a.target \in visible[ut] \ {t.link} /\ ~ReconnectDue(a)
  <2> HIDE DEF t, d
  <2>1. CASE SlotDue
    <3>1. a = PollSlot(ut, d, downtime)
      BY <2>1 DEF Reassigned, d, t
    <3>2. /\ RecordOK(a)
          /\ HasLink(a) => HasLink(d) /\ a.link = d.link
          /\ HasLink(d) /\ d.link \in visible[ut] /\ ~HasLink(a) =>
               a.target \in visible[ut] \ {d.link} /\ ~ReconnectDue(a)
      BY <1>1, <3>1, PollSlotOK
    <3>. QED  BY <1>1, <3>2
  <2>2. CASE ~SlotDue
    <3>1. a = d
      BY <2>2 DEF Reassigned, d, t
    <3>. QED  BY <1>1, <3>1
  <2>. QED  BY <2>1, <2>2
<1>3. /\ RecordOK(b)
      /\ HasPending(b) => b.reconnectTime > 0
      /\ ReconnectDue(a) /\ a.target \in visible[ut] => b.link = a.target
      /\ ~(ReconnectDue(a) /\ a.target \in visible[ut]) => b.link = a.link
  BY <1>2, CompletePendingOK
<1> HIDE DEF a, t
<1>4. HasLink(b) => b.link \in visible[ut]
  BY <1>2, <1>3 DEF HasLink
<1>5. b.link # t.link => \/ ReconnectDue(a) /\ a.target \in visible[ut]
                         \/ HasLink(t) /\ ~HasLink(a)
  <2>1. SUFFICES ASSUME ~(ReconnectDue(a) /\ a.target \in visible[ut]), b.link # t.link
                 PROVE  HasLink(t) /\ ~HasLink(a)
    OBVIOUS
  <2>2. a.link # t.link
    BY <1>3, <2>1
  <2>. QED  BY <1>2, <2>2 DEF HasLink
<1>6. ASSUME HasLink(t), t.link \in visible[ut], b.link # t.link
      PROVE  b.target \in visible[ut] \ {t.link}
  <2>1. CASE HasLink(a)
    <3>1. ~ReconnectDue(a)
      BY <1>2, <2>1 DEF RecordOK, ReconnectDue
    <3>2. b.link = a.link
      BY <1>3, <3>1
    <3>. QED  BY <1>2, <1>6, <2>1, <3>2
  <2>2. CASE ~HasLink(a)
    <3>1. a.target \in visible[ut] \ {t.link} /\ ~ReconnectDue(a)
      BY <1>2, <1>6, <2>2
    <3>2. b = a
      BY <3>1 DEF CompletePending
    <3>. QED  BY <3>1, <3>2
  <2>. QED  BY <2>1, <2>2
<1>. QED  BY <1>3, <1>4, <1>5, <1>6 DEF a, t

-----------------------------------------------------------------------------
(* From the records to the invariant.                                      *)

Records == \A ut \in UserTerminals : RecordOK(terminal[ut])

LEMMA RecordsOfInv ==
  TypeOK /\ OracleTracksPending => Records /\ SkyTypeOK
  BY DEF TypeOK, OracleTracksPending, Records, RecordOK, SkyTypeOK

LEMMA InvOfRecords ==
  Records => /\ OracleTracksPending
             /\ \A ut \in UserTerminals :
                  /\ terminal[ut] \in TerminalState
                  /\ terminal[ut].reconnectTime \in 0 .. MaxDowntime
                  /\ terminal[ut].expectedHandoverEnd \in Past .. MaxDowntime
  BY DEF OracleTracksPending, Records, RecordOK

(* The handover timer, when it is set to the earliest pending reconnect,   *)
(* keeps its range.                                                        *)
LEMMA EarliestReconnectType ==
  ASSUME NEW term, \A ut \in UserTerminals : RecordOK(term[ut])
  PROVE  /\ EarliestReconnect(term) \in Unscheduled .. MaxDowntime
         /\ \A ut \in UserTerminals : HasPending(term[ut]) =>
              /\ EarliestReconnect(term) # Unscheduled
              /\ EarliestReconnect(term) <= term[ut].reconnectTime
         /\ EarliestReconnect(term) # Unscheduled =>
              \E ut \in UserTerminals : /\ HasPending(term[ut])
                                        /\ term[ut].reconnectTime = EarliestReconnect(term)
<1>1. \A ut \in UserTerminals : term[ut].reconnectTime \in 0 .. MaxDowntime
  BY DEF RecordOK
<1>2. MaxDowntime \in Nat
  BY ConstantsAssumption
<1>3. \A ut \in UserTerminals : HasPending(term[ut]) => term[ut].reconnectTime \in Nat
  BY <1>1, <1>2
<1>4. /\ \A ut \in UserTerminals : HasPending(term[ut]) =>
              /\ EarliestReconnect(term) # Unscheduled
              /\ EarliestReconnect(term) <= term[ut].reconnectTime
      /\ EarliestReconnect(term) # Unscheduled =>
              \E ut \in UserTerminals : /\ HasPending(term[ut])
                                        /\ term[ut].reconnectTime = EarliestReconnect(term)
  BY <1>3, EarliestReconnectIsLeast
<1>5. EarliestReconnect(term) \in Unscheduled .. MaxDowntime
  BY <1>1, <1>2, <1>4 DEF Unscheduled
<1>. QED  BY <1>4, <1>5

-----------------------------------------------------------------------------
(* The invariant is inductive.                                             *)

LEMMA InitIInv == Init => IInv
<1>. SUFFICES ASSUME Init PROVE IInv
  OBVIOUS
<1>1. \A ut \in UserTerminals : terminal[ut] = InitialTerminal
  BY DEF Init
<1>2. InitialTerminal \in TerminalState
  BY DEF InitialTerminal, TerminalState, SatelliteOrNone, Past
<1>3. RecordOK(InitialTerminal) /\ ~HasLink(InitialTerminal) /\ ~HasPending(InitialTerminal)
  BY <1>2, ConstantsAssumption
     DEF InitialTerminal, RecordOK, HasLink, HasPending, Past
<1>4. Records
  BY <1>1, <1>3 DEF Records
<1>5. TypeOK
  <2>1. terminal \in [UserTerminals -> TerminalState]
    BY <1>2 DEF Init
  <2>2. /\ updateTimer \in Unscheduled .. (UpdateInterval + StartOffset)
        /\ userTerminalHandoverTimer \in Unscheduled .. MaxDowntime
        /\ nextUserTerminalUpdate \in Int /\ nextUserTerminalUpdate <= SlotInterval
        /\ nextUserTerminalUpdate + UpdateInterval + StartOffset > 0
    BY ConstantsAssumption DEF Init, Unscheduled
  <2>. QED  BY <1>4, <2>1, <2>2, InvOfRecords DEF TypeOK, Init, SatelliteOrNone
<1>6. EventLoopInv
  BY <1>1, <1>3 DEF EventLoopInv, Started, EventDue, Init, Unscheduled
<1>7. OracleTracksPending /\ NoReconnectForgotten /\ ServingSatelliteVisible
  BY <1>1, <1>3, <1>4, InvOfRecords
     DEF NoReconnectForgotten, ServingSatelliteVisible, Init
<1>8. EndpointTablesFollowLinks
  BY <1>1 DEF EndpointTablesFollowLinks, Init, InitialTerminal
<1>. QED  BY <1>5, <1>6, <1>7, <1>8 DEF IInv

(* The event that starts the simulation. *)
LEMMA StartSimulationIInv == IInv /\ StartSimulation => IInv'
<1>. SUFFICES ASSUME IInv, StartSimulation PROVE IInv'
  OBVIOUS
<1> DEFINE started == [ut \in UserTerminals |->
             IF SelectedReachableNow(ut)
             THEN [CancelPending(terminal[ut]) EXCEPT !.link = selected[ut]]
             ELSE CancelPending(terminal[ut])]
<1>1. Records /\ SkyTypeOK
  BY RecordsOfInv DEF IInv
<1>2. ~Started
  BY DEF StartSimulation, Started, Unscheduled
<1>3. ASSUME NEW ut \in UserTerminals
      PROVE  /\ RecordOK(started[ut]) /\ ~HasPending(started[ut])
             /\ HasLink(started[ut]) => started[ut].link \in visible[ut]
  <2> DEFINE c == CancelPending(terminal[ut])
  <2>1. ~HasLink(terminal[ut]) /\ ~HasPending(terminal[ut])
    BY <1>2 DEF IInv, EventLoopInv
  <2>2. RecordOK(c) /\ ~HasLink(c) /\ ~HasPending(c)
    BY <1>1, <2>1 DEF CancelPending, MarkHardHandoverEnded, Records
  <2> HIDE DEF c
  <2>3. CASE SelectedReachableNow(ut)
    <3>1. started[ut] = [c EXCEPT !.link = selected[ut]]
      BY <2>3 DEF c
    <3>2. selected[ut] \in SatelliteOrNone /\ selected[ut] \in visible[ut]
      BY <1>1, <2>3 DEF SkyTypeOK, SelectedReachableNow
    <3>3. c \in TerminalState
      BY <2>2 DEF RecordOK
    <3>4. started[ut] \in TerminalState
      BY ONLY <3>1, <3>2, <3>3 DEF TerminalState
    <3>5. /\ started[ut].link = selected[ut]
          /\ started[ut].target = c.target
          /\ started[ut].reconnectTime = c.reconnectTime
          /\ started[ut].hardHandoverActive = c.hardHandoverActive
          /\ started[ut].expectedHandoverEnd = c.expectedHandoverEnd
      BY ONLY <3>1, <3>3 DEF TerminalState
    <3> HIDE DEF started
    <3>. QED  BY <2>2, <3>2, <3>4, <3>5 DEF RecordOK, HasPending
  <2>4. CASE ~SelectedReachableNow(ut)
    <3>1. started[ut] = c
      BY <2>4 DEF c
    <3>. QED  BY <2>2, <3>1
  <2>. QED  BY <2>3, <2>4
<1>4. terminal' = started
  BY DEF StartSimulation
<1>5. DOMAIN started = UserTerminals
  OBVIOUS
<1> HIDE DEF started
<1>6. Records'
  BY <1>3, <1>4 DEF Records
<1>7. /\ userTerminalHandoverTimer' = EarliestReconnect(terminal')
      /\ EarliestReconnect(terminal') \in Unscheduled .. MaxDowntime
      /\ EarliestReconnect(terminal') = Unscheduled
  BY <1>3, <1>4, EarliestReconnectType DEF StartSimulation, started
<1>8. OracleTracksPending'
      /\ \A ut \in UserTerminals :
           /\ terminal'[ut] \in TerminalState
           /\ terminal'[ut].reconnectTime \in 0 .. MaxDowntime
           /\ terminal'[ut].expectedHandoverEnd \in Past .. MaxDowntime
  BY <1>3, <1>4 DEF OracleTracksPending, RecordOK
<1>9. TypeOK'
  <2>1. /\ startManagerNode' = Unscheduled /\ updateTimer' = UpdateInterval + StartOffset
        /\ handoverQueuedFirst' = TRUE /\ nextUserTerminalUpdate' = SlotInterval
        /\ nextSelected' \in [UserTerminals -> SatelliteOrNone]
        /\ visible' = visible /\ selected' = selected
        /\ predicted' \in [UserTerminals -> BOOLEAN]
        /\ endpointSatellite' = [ut \in UserTerminals |-> terminal'[ut].link]
    BY <1>4 DEF StartSimulation, started, sky, HandoverPredicted
  <2>2. /\ updateTimer' \in Unscheduled .. (UpdateInterval + StartOffset)
        /\ nextUserTerminalUpdate' \in Int /\ nextUserTerminalUpdate' <= SlotInterval
        /\ nextUserTerminalUpdate' + UpdateInterval + StartOffset > 0
    BY <2>1, ConstantsAssumption DEF Unscheduled
  <2>3. terminal' \in [UserTerminals -> TerminalState]
    BY <1>4, <1>8 DEF started
  <2>4. endpointSatellite' \in [UserTerminals -> SatelliteOrNone]
    BY <1>8, <2>1 DEF TerminalState
  <2>. QED  BY <1>1, <1>7, <1>8, <2>1, <2>2, <2>3, <2>4 DEF TypeOK, SkyTypeOK
<1>10. NoReconnectForgotten'
  BY <1>3, <1>4, <1>7 DEF NoReconnectForgotten
<1>11. ServingSatelliteVisible'
  BY <1>3, <1>4 DEF ServingSatelliteVisible, StartSimulation, sky
<1>12. EndpointTablesFollowLinks'
  BY <1>4 DEF EndpointTablesFollowLinks, StartSimulation, started
<1>13. EventLoopInv'
  <2>1. startManagerNode' = Unscheduled /\ updateTimer' = UpdateInterval + StartOffset
        /\ nextUserTerminalUpdate' = SlotInterval
    BY DEF StartSimulation
  <2>. QED  BY <2>1, ConstantsAssumption DEF EventLoopInv, Started, Unscheduled
<1>. QED  BY <1>8, <1>9, <1>10, <1>11, <1>12, <1>13 DEF IInv

(* What the two timer handlers share: refreshUserTerminalLinks re-arms the *)
(* handover timer, moves the polling slot ahead and rebuilds the endpoint  *)
(* tables when a link changed.                                             *)
LEMMA RefreshIInv ==
  ASSUME IInv, Started, RefreshUserTerminalLinks, UNCHANGED <<startManagerNode, sky>>,
         updateTimer' \in 0 .. (UpdateInterval + StartOffset),
         handoverQueuedFirst' \in BOOLEAN
  PROVE  IInv'
<1>1. PICK downtime \in [UserTerminals -> Downtimes] :
        LET assigned == [ut \in UserTerminals |-> Reassigned(ut, downtime[ut])]
            done     == [ut \in UserTerminals |-> CompletePending(ut, assigned[ut])]
        IN
        /\ terminal' = done
        /\ IF SlotDue
           THEN /\ nextUserTerminalUpdate' = NextSlot(nextUserTerminalUpdate)
                /\ nextSelected' \in [UserTerminals -> SatelliteOrNone]
           ELSE UNCHANGED <<nextUserTerminalUpdate, nextSelected>>
        /\ predicted' = [ut \in UserTerminals |-> HandoverPredicted(ut, done[ut], nextSelected')]
        /\ userTerminalHandoverTimer' = EarliestReconnect(done)
        /\ endpointSatellite' = EndpointTables(assigned, done)
  BY Zenon DEF RefreshUserTerminalLinks
<1> DEFINE assigned == [ut \in UserTerminals |-> Reassigned(ut, downtime[ut])]
           done     == [ut \in UserTerminals |-> CompletePending(ut, assigned[ut])]
<1>2. Records /\ SkyTypeOK
  BY RecordsOfInv DEF IInv
<1>3. ASSUME NEW ut \in UserTerminals
      PROVE  LET t == terminal[ut]
                 a == assigned[ut]
                 b == done[ut] IN
             /\ RecordOK(b)
             /\ HasPending(b) => b.reconnectTime > 0
             /\ HasLink(b) => b.link \in visible[ut]
             /\ b.link # t.link => \/ ReconnectDue(a) /\ a.target \in visible[ut]
                                   \/ HasLink(t) /\ ~HasLink(a)
  <2>1. downtime[ut] \in Downtimes /\ RecordOK(terminal[ut])
    BY <1>2 DEF Records
  <2>2. assigned[ut] = Reassigned(ut, downtime[ut])
        /\ done[ut] = CompletePending(ut, Reassigned(ut, downtime[ut]))
    OBVIOUS
  <2> HIDE DEF assigned, done
  <2>. QED  BY <1>2, <2>1, <2>2, RefreshTerminalOK
<1>4. DOMAIN done = UserTerminals /\ DOMAIN assigned = UserTerminals
  OBVIOUS
<1>5. /\ terminal' = done
      /\ userTerminalHandoverTimer' = EarliestReconnect(done)
      /\ endpointSatellite' = EndpointTables(assigned, done)
      /\ predicted' = [ut \in UserTerminals |-> HandoverPredicted(ut, done[ut], nextSelected')]
      /\ SlotDue => /\ nextUserTerminalUpdate' = NextSlot(nextUserTerminalUpdate)
                    /\ nextSelected' \in [UserTerminals -> SatelliteOrNone]
      /\ ~SlotDue => UNCHANGED <<nextUserTerminalUpdate, nextSelected>>
  BY <1>1
<1>6. done = [ut \in UserTerminals |-> done[ut]]
  OBVIOUS
<1> HIDE DEF assigned, done
<1>7. /\ OracleTracksPending'
      /\ \A ut \in UserTerminals :
           /\ terminal'[ut] \in TerminalState
           /\ terminal'[ut].reconnectTime \in 0 .. MaxDowntime
           /\ terminal'[ut].expectedHandoverEnd \in Past .. MaxDowntime
  BY <1>3, <1>5 DEF OracleTracksPending, RecordOK
<1>8. /\ userTerminalHandoverTimer' \in Unscheduled .. MaxDowntime
      /\ \A ut \in UserTerminals : HasPending(terminal'[ut]) =>
           /\ userTerminalHandoverTimer' # Unscheduled
           /\ userTerminalHandoverTimer' <= terminal'[ut].reconnectTime
      /\ userTerminalHandoverTimer' # Unscheduled =>
           \E ut \in UserTerminals : /\ HasPending(terminal'[ut])
                                     /\ terminal'[ut].reconnectTime = userTerminalHandoverTimer'
  <2>1. \A ut \in UserTerminals : RecordOK(done[ut])
    BY <1>3
  <2>. QED  BY <1>5, <2>1, EarliestReconnectType
<1>9. /\ nextUserTerminalUpdate' \in Int /\ nextUserTerminalUpdate' <= SlotInterval
      /\ nextUserTerminalUpdate' + UpdateInterval + StartOffset > 0
      /\ SlotInterval = 0 => nextUserTerminalUpdate' = 0
      /\ SlotInterval > 0 => nextUserTerminalUpdate' > 0
  <2>1. CASE SlotDue
    <3>1. nextUserTerminalUpdate' \in 1 .. SlotInterval /\ SlotInterval > 0
      BY <1>5, <2>1, NextSlotAhead DEF IInv, TypeOK, SlotDue
    <3>2. \A x \in 1 .. SlotInterval :
            x \in Int /\ x <= SlotInterval /\ x > 0 /\ x + UpdateInterval + StartOffset > 0
      BY Intervals
    <3>. QED  BY <3>1, <3>2
  <2>2. CASE ~SlotDue
    <3>1. nextUserTerminalUpdate' = nextUserTerminalUpdate
      BY <1>5, <2>2
    <3>. QED
      BY <2>2, <3>1, Intervals DEF IInv, TypeOK, EventLoopInv, SlotDue
  <2>. QED  BY <2>1, <2>2
<1>10. EndpointTablesFollowLinks'
  <2>1. CASE \/ \E ut \in UserTerminals :
                  ReconnectDue(assigned[ut]) /\ assigned[ut].target \in visible[ut]
             \/ \E ut \in UserTerminals :
                  HasLink(terminal[ut]) /\ ~HasLink(assigned[ut])
    <3>1. endpointSatellite' = [ut \in UserTerminals |-> done[ut].link]
      BY <1>5, <2>1 DEF EndpointTables
    <3>. QED  BY <1>5, <3>1 DEF EndpointTablesFollowLinks
  <2>2. CASE ~(\/ \E ut \in UserTerminals :
                    ReconnectDue(assigned[ut]) /\ assigned[ut].target \in visible[ut]
               \/ \E ut \in UserTerminals :
                    HasLink(terminal[ut]) /\ ~HasLink(assigned[ut]))
    <3>1. endpointSatellite' = endpointSatellite
      BY <1>5, <2>2 DEF EndpointTables
    <3>2. \A ut \in UserTerminals : done[ut].link = terminal[ut].link
      BY <1>3, <2>2
    <3>. QED  BY <1>5, <3>1, <3>2 DEF EndpointTablesFollowLinks, IInv
  <2>. QED  BY <2>1, <2>2
<1>11. TypeOK'
  <2>1. terminal' \in [UserTerminals -> TerminalState]
    BY <1>5, <1>6, <1>7
  <2>2. nextSelected' \in [UserTerminals -> SatelliteOrNone]
    BY <1>5 DEF IInv, TypeOK
  <2>3. predicted' \in [UserTerminals -> BOOLEAN]
    BY <1>5 DEF HandoverPredicted
  <2>4. endpointSatellite' \in [UserTerminals -> SatelliteOrNone]
    <3>1. \A ut \in UserTerminals : done[ut].link \in SatelliteOrNone
      BY <1>5, <1>7 DEF TerminalState
    <3>2. \/ endpointSatellite' = [ut \in UserTerminals |-> done[ut].link]
          \/ endpointSatellite' = endpointSatellite
      BY <1>5 DEF EndpointTables
    <3>. QED  BY <3>1, <3>2 DEF IInv, TypeOK
  <2>5. /\ startManagerNode' = Unscheduled
        /\ updateTimer' \in Unscheduled .. (UpdateInterval + StartOffset)
        /\ visible' = visible /\ selected' = selected
    BY Intervals DEF Started, sky, Unscheduled
  <2>. QED
    BY <1>2, <1>7, <1>8, <1>9, <2>1, <2>2, <2>3, <2>4, <2>5 DEF TypeOK, SkyTypeOK
<1>12. NoReconnectForgotten'
  BY <1>3, <1>5, <1>8 DEF NoReconnectForgotten
<1>13. ServingSatelliteVisible'
  BY <1>3, <1>5 DEF ServingSatelliteVisible, sky
<1>14. EventLoopInv'
  <2>1. startManagerNode' = Unscheduled /\ updateTimer' # Unscheduled
    BY Intervals DEF Started, Unscheduled
  <2>. QED  BY <1>9, <2>1 DEF EventLoopInv, Started
<1>. QED  BY <1>7, <1>10, <1>11, <1>12, <1>13, <1>14 DEF IInv

LEMMA HandleUpdateTimerIInv == IInv /\ HandleUpdateTimer => IInv'
<1>. SUFFICES ASSUME IInv, HandleUpdateTimer PROVE IInv'
  OBVIOUS
<1>1. Started
  BY DEF IInv, EventLoopInv, HandleUpdateTimer, UpdateDue, Unscheduled
<1>2. updateTimer' \in 0 .. (UpdateInterval + StartOffset) /\ handoverQueuedFirst' \in BOOLEAN
  BY Intervals DEF HandleUpdateTimer
<1>. QED  BY <1>1, <1>2, RefreshIInv DEF HandleUpdateTimer

LEMMA HandleHandoverTimerIInv == IInv /\ HandleHandoverTimer => IInv'
<1>. SUFFICES ASSUME IInv, HandleHandoverTimer PROVE IInv'
  OBVIOUS
<1>1. Started
  BY DEF IInv, EventLoopInv, HandleHandoverTimer, HandoverDue, Unscheduled
<1>2. updateTimer \in 0 .. (UpdateInterval + StartOffset)
  BY <1>1, Intervals DEF IInv, EventLoopInv, TypeOK, Unscheduled
<1>3. updateTimer' = updateTimer /\ handoverQueuedFirst' = FALSE
  BY DEF HandleHandoverTimer
<1>. QED  BY <1>1, <1>2, <1>3, RefreshIInv DEF HandleHandoverTimer

(* Time never passes a reconnect or an update.                             *)
LEMMA AdvanceTimeIInv == IInv /\ AdvanceTime => IInv'
<1>. SUFFICES ASSUME IInv, AdvanceTime PROVE IInv'
  OBVIOUS
<1> DEFINE elapsed  == TimeToNextEvent
           update   == updateTimer - elapsed
           handover == IF userTerminalHandoverTimer = Unscheduled THEN Unscheduled
                       ELSE userTerminalHandoverTimer - elapsed
           slot     == IF SlotInterval > 0 THEN nextUserTerminalUpdate - elapsed ELSE 0
<1>1. Records /\ SkyTypeOK
  BY RecordsOfInv DEF IInv
<1>2. ~EventDue /\ Started
  BY DEF AdvanceTime, IInv, TypeOK, EventDue, Started
<1>3. updateTimer \in 1 .. (UpdateInterval + StartOffset)
  BY <1>2, Intervals DEF IInv, TypeOK, EventLoopInv, EventDue, Unscheduled
<1>4. userTerminalHandoverTimer \in {Unscheduled} \union (1 .. MaxDowntime)
  BY <1>2, Intervals DEF IInv, TypeOK, EventDue, Unscheduled
<1>5. /\ elapsed \in Nat /\ elapsed > 0 /\ elapsed <= updateTimer
      /\ userTerminalHandoverTimer # Unscheduled => elapsed <= userTerminalHandoverTimer
      /\ elapsed = updateTimer \/ elapsed = userTerminalHandoverTimer
      /\ elapsed = userTerminalHandoverTimer => userTerminalHandoverTimer # Unscheduled
  BY <1>3, <1>4, Intervals DEF TimeToNextEvent, Unscheduled
<1>6. /\ updateTimer' = update
      /\ userTerminalHandoverTimer' = handover
      /\ nextUserTerminalUpdate' = slot
      /\ startManagerNode' = startManagerNode
  BY DEF AdvanceTime
<1>7. /\ terminal' = [ut \in UserTerminals |->
           [terminal[ut] EXCEPT
              !.reconnectTime = IF HasPending(terminal[ut]) THEN @ - elapsed ELSE @,
              !.expectedHandoverEnd = Earlier(@, elapsed)]]
      /\ visible' \in [UserTerminals -> SUBSET Satellites]
      /\ selected' \in [UserTerminals -> SatelliteOrNone]
      /\ startManagerNode' = startManagerNode /\ handoverQueuedFirst' = handoverQueuedFirst
      /\ predicted' = predicted /\ endpointSatellite' = endpointSatellite
      /\ nextSelected' = nextSelected
  BY DEF AdvanceTime
<1> HIDE DEF elapsed
<1>8. ASSUME NEW ut \in UserTerminals
      PROVE  /\ RecordOK(terminal'[ut])
             /\ terminal'[ut].link = terminal[ut].link
             /\ terminal'[ut].target = terminal[ut].target
             /\ HasPending(terminal[ut]) =>
                  terminal'[ut].reconnectTime = terminal[ut].reconnectTime - elapsed
  <2> DEFINE t == terminal[ut]
             u == terminal'[ut]
             r == IF HasPending(t) THEN t.reconnectTime - elapsed ELSE t.reconnectTime
             e == Earlier(t.expectedHandoverEnd, elapsed)
  <2>1. u = [t EXCEPT !.reconnectTime = r, !.expectedHandoverEnd = e]
    BY <1>7
  <2>2. RecordOK(t) /\ t \in TerminalState
    BY <1>1 DEF Records, RecordOK
  <2>3. HasPending(t) => elapsed <= t.reconnectTime
    BY <1>4, <1>5, <2>2, Intervals
       DEF IInv, NoReconnectForgotten, RecordOK, Unscheduled
  <2>4. r \in 0 .. MaxDowntime
    BY <1>5, <2>2, <2>3, Intervals DEF RecordOK
  <2>5. /\ e \in Past .. MaxDowntime
        /\ HasPending(t) => e = r
    BY <1>5, <2>2, <2>3, Intervals DEF RecordOK, Earlier, Past
  <2>6. r \in Int /\ e \in Int
    BY <2>4, <2>5, Intervals DEF Past
  <2>7. HasPending(t) => r = t.reconnectTime - elapsed
    OBVIOUS
  <2> HIDE DEF t, u, r, e
  <2>8. u \in TerminalState
    BY ONLY <2>1, <2>2, <2>6 DEF TerminalState
  <2>9. /\ u.link = t.link /\ u.target = t.target
        /\ u.reconnectTime = r /\ u.expectedHandoverEnd = e
        /\ u.hardHandoverActive = t.hardHandoverActive
        /\ u.oldSatellite = t.oldSatellite /\ u.newSatellite = t.newSatellite
    BY ONLY <2>1, <2>2 DEF TerminalState
  <2>10. RecordOK(u)
    BY <2>2, <2>4, <2>5, <2>8, <2>9 DEF RecordOK, HasLink, HasPending
  <2>. QED  BY <2>7, <2>9, <2>10 DEF t, u
<1>9. /\ OracleTracksPending'
      /\ \A ut \in UserTerminals :
           /\ terminal'[ut] \in TerminalState
           /\ terminal'[ut].reconnectTime \in 0 .. MaxDowntime
           /\ terminal'[ut].expectedHandoverEnd \in Past .. MaxDowntime
  BY <1>8 DEF OracleTracksPending, RecordOK
<1>10. /\ update \in 0 .. (UpdateInterval + StartOffset)
       /\ handover \in Unscheduled .. MaxDowntime
       /\ update = 0 \/ handover = 0
       /\ handover = Unscheduled <=> userTerminalHandoverTimer = Unscheduled
       /\ update # Unscheduled
  BY <1>3, <1>4, <1>5, Intervals DEF Unscheduled
<1>11. EventDue'
  <2> HIDE DEF update, handover
  <2>. QED  BY <1>6, <1>10 DEF EventDue
<1>12. /\ slot \in Int /\ slot <= SlotInterval
       /\ slot + UpdateInterval + StartOffset > 0
       /\ SlotInterval = 0 => slot = 0
  <2>1. CASE SlotInterval > 0
    <3>1. nextUserTerminalUpdate \in Int /\ nextUserTerminalUpdate > 0
          /\ nextUserTerminalUpdate <= SlotInterval
      BY <1>2, <2>1 DEF IInv, TypeOK, EventLoopInv
    <3>. QED  BY <1>3, <1>5, <2>1, <3>1, Intervals
  <2>2. CASE SlotInterval = 0
    BY <2>2, Intervals
  <2>. QED  BY <2>1, <2>2, Intervals
<1>13. TypeOK'
  <2>1. terminal' \in [UserTerminals -> TerminalState]
    BY <1>7, <1>9
  <2>2. update \in Unscheduled .. (UpdateInterval + StartOffset)
    BY <1>10, Intervals DEF Unscheduled
  <2> HIDE DEF update, handover, slot
  <2>. QED
    BY <1>6, <1>7, <1>9, <1>10, <1>12, <2>1, <2>2 DEF IInv, TypeOK
<1>14. NoReconnectForgotten'
  <2>1. ASSUME NEW ut \in UserTerminals, HasPending(terminal'[ut])
        PROVE  /\ userTerminalHandoverTimer' # Unscheduled
               /\ userTerminalHandoverTimer' <= terminal'[ut].reconnectTime
    <3>1. HasPending(terminal[ut])
      BY <1>8, <2>1 DEF HasPending
    <3>2. /\ userTerminalHandoverTimer # Unscheduled
          /\ userTerminalHandoverTimer <= terminal[ut].reconnectTime
      BY <3>1 DEF IInv, NoReconnectForgotten
    <3>3. terminal[ut].reconnectTime \in Int
      BY <1>1 DEF Records, RecordOK, TerminalState
    <3> DEFINE reconnect == terminal[ut].reconnectTime - elapsed
    <3>4. handover <= reconnect
      BY <1>4, <1>5, <3>2, <3>3, Intervals
    <3>5. terminal'[ut].reconnectTime = reconnect
      BY <1>8, <3>1
    <3> HIDE DEF update, handover, slot, reconnect
    <3>. QED  BY <1>6, <1>10, <3>2, <3>4, <3>5
  <2>2. ASSUME userTerminalHandoverTimer' # Unscheduled
        PROVE  \E ut \in UserTerminals :
                 /\ HasPending(terminal'[ut])
                 /\ terminal'[ut].reconnectTime = userTerminalHandoverTimer'
    <3>1. userTerminalHandoverTimer # Unscheduled
      <4> HIDE DEF handover
      <4>. QED  BY <1>6, <1>10, <2>2
    <3>2. PICK ut \in UserTerminals : /\ HasPending(terminal[ut])
                                      /\ terminal[ut].reconnectTime = userTerminalHandoverTimer
      BY <3>1 DEF IInv, NoReconnectForgotten
    <3>3. terminal[ut].reconnectTime - elapsed = handover
      BY <3>1, <3>2
    <3>4. terminal'[ut].reconnectTime = handover
      <4> DEFINE reconnect == terminal[ut].reconnectTime - elapsed
      <4>1. terminal'[ut].reconnectTime = reconnect
        BY <1>8, <3>2
      <4> HIDE DEF reconnect, handover
      <4>. QED  BY <3>3, <4>1 DEF reconnect
    <3>5. HasPending(terminal'[ut])
      BY <1>8, <3>2 DEF HasPending
    <3> HIDE DEF handover
    <3>. QED  BY <1>6, <3>4, <3>5
  <2>. QED  BY <1>11, <2>1, <2>2 DEF NoReconnectForgotten
<1>15. ServingSatelliteVisible'
  BY <1>11 DEF ServingSatelliteVisible
<1>16. EndpointTablesFollowLinks'
  BY <1>7, <1>8 DEF IInv, EndpointTablesFollowLinks
<1>17. EventLoopInv'
  <2> HIDE DEF update, handover, slot
  <2>1. Started' /\ updateTimer' # Unscheduled
    BY <1>2, <1>6, <1>10 DEF Started
  <2>. QED  BY <1>6, <1>11, <1>12, <2>1 DEF EventLoopInv
<1>. QED  BY <1>9, <1>13, <1>14, <1>15, <1>16, <1>17 DEF IInv

(* IInv is inductive. *)
LEMMA NextIInv == IInv /\ [Next]_vars => IInv'
<1>. SUFFICES ASSUME IInv, [Next]_vars PROVE IInv'
  OBVIOUS
<1>1. CASE StartSimulation
  BY <1>1, StartSimulationIInv
<1>2. CASE HandleUpdateTimer
  BY <1>2, HandleUpdateTimerIInv
<1>3. CASE HandleHandoverTimer
  BY <1>3, HandleHandoverTimerIInv
<1>4. CASE AdvanceTime
  BY <1>4, AdvanceTimeIInv
<1>5. CASE UNCHANGED vars
  BY <1>5 DEF vars, timers, sky, IInv, TypeOK, OracleTracksPending, NoReconnectForgotten,
              ServingSatelliteVisible, EndpointTablesFollowLinks, EventLoopInv,
              EventDue, Started
<1>. QED  BY <1>1, <1>2, <1>3, <1>4, <1>5 DEF Next

LEMMA Inductive == Spec => []IInv
<1>. QED  BY InitIInv, NextIInv, PTL DEF Spec

-----------------------------------------------------------------------------
(* Theorems.                                                               *)

(* Every variable keeps its range: no timer is ever overdue, and a polling *)
(* slot is taken no later than the first update after its boundary.        *)
THEOREM TypeCorrect == Spec => []TypeOK
<1>1. IInv => TypeOK
  BY DEF IInv
<1>. QED  BY <1>1, Inductive, PTL

(* The oracle tells of each terminal exactly the hard handover that its    *)
(* pending handover performs.                                              *)
THEOREM OracleCorrect == Spec => []OracleTracksPending
<1>1. IInv => OracleTracksPending
  BY DEF IInv
<1>. QED  BY <1>1, Inductive, PTL

(* The single handover timer serves all terminals: it is armed for the     *)
(* earliest reconnect, and no handler leaves a due reconnect behind.       *)
THEOREM TimerCorrect == Spec => []NoReconnectForgotten
<1>1. IInv => NoReconnectForgotten
  BY DEF IInv
<1>. QED  BY <1>1, Inductive, PTL

(* No link outlives the first event after its satellite has set.           *)
THEOREM LinksVisible == Spec => []ServingSatelliteVisible
<1>1. IInv => ServingSatelliteVisible
  BY DEF IInv
<1>. QED  BY <1>1, Inductive, PTL

(* The configurator's endpoint tables agree with the links after every     *)
(* event.                                                                  *)
THEOREM EndpointsCorrect == Spec => []EndpointTablesFollowLinks
<1>1. IInv => EndpointTablesFollowLinks
  BY DEF IInv
<1>. QED  BY <1>1, Inductive, PTL

-----------------------------------------------------------------------------
(* What every terminal can rely on.                                        *)

SkyContract == \A ut \in UserTerminals : SelectionAllowed(visible[ut], selected[ut])

LEMMA SkyContractStep == SkyContract /\ [Next]_vars => SkyContract'
<1>. SUFFICES ASSUME SkyContract, [Next]_vars PROVE SkyContract'
  OBVIOUS
<1>1. CASE UNCHANGED sky
  BY <1>1 DEF SkyContract, sky
<1>2. CASE AdvanceTime
  BY <1>2 DEF AdvanceTime, SkyMayBecome, SkyContract
<1>. QED
  BY <1>1, <1>2 DEF Next, StartSimulation, HandleUpdateTimer, HandleHandoverTimer, vars

LEMMA SkyContractInvariant == Spec => []SkyContract
<1>1. Init => SkyContract
  BY DEF Init, SkyContract
<1>. QED  BY <1>1, SkyContractStep, PTL DEF Spec

-----------------------------------------------------------------------------
(* One terminal.                                                           *)

(* A handover just scheduled, to a satellite in view other than "old".     *)
Fresh(ut, u, old) ==
  /\ ~HasLink(u)
  /\ u.target \in visible[ut] \ {old}
  /\ ~ReconnectDue(u)

NoneInView(ut, u) == visible[ut] = {} /\ ~HasLink(u) /\ ~HasPending(u)

(* What the selection contract says of a terminal whose selected satellite *)
(* is, or is not, reachable now.                                           *)
LEMMA SelectionSplit ==
  ASSUME NEW ut \in UserTerminals, SkyTypeOK, SkyContract
  PROVE  /\ SelectedReachableNow(ut) => /\ selected[ut] \in Satellites
                                        /\ selected[ut] \in visible[ut]
         /\ ~SelectedReachableNow(ut) => visible[ut] = {}
  BY DEF SkyTypeOK, SkyContract, SelectionAllowed, SelectedReachableNow

(* After the first loop. *)
LEMMA DropAndProbeCases ==
  ASSUME NEW ut \in UserTerminals, NEW t, RecordOK(t), NEW downtime \in Downtimes,
         SkyTypeOK, SkyContract
  PROVE  LET d == DropAndProbe(ut, t, downtime) IN
         \/ HasLink(t) /\ t.link \in visible[ut] /\ d = t
         \/ Fresh(ut, d, t.link)
         \/ ~HasLink(t) /\ HasPending(t) /\ d = t
         \/ NoneInView(ut, d)
<1> DEFINE lost == HasLink(t) /\ t.link \notin visible[ut]
           v    == IF lost THEN RemoveActiveLink(t) ELSE t
           old  == IF lost THEN t.link ELSE NoSatellite
           d    == DropAndProbe(ut, t, downtime)
<1>1. RecordOK(v) /\ (lost => ~HasLink(v) /\ ~HasPending(v)) /\ (~lost => v = t)
  BY RemoveActiveLinkOK
<1>2. old \in SatelliteOrNone
  BY DEF RecordOK, TerminalState, SatelliteOrNone
<1>3. CASE ~HasLink(v) /\ ~HasPending(v) /\ SelectedReachableNow(ut)
  <2>1. d = SchedulePending(v, old, selected[ut], downtime)
    BY <1>3 DEF DropAndProbe
  <2>2. selected[ut] \in Satellites /\ selected[ut] \in visible[ut]
    BY <1>3, SelectionSplit
  <2>3. old # selected[ut]
    BY <2>2, ConstantsAssumption
  <2>4. RecordOK(d) /\ ~HasLink(d) /\ d.reconnectTime > 0 /\ d.target = selected[ut]
    BY <1>1, <1>2, <1>3, <2>1, <2>2, <2>3, SchedulePendingOK
  <2>5. ~ReconnectDue(d)
    BY <2>4 DEF ReconnectDue, RecordOK
  <2>6. t.link # selected[ut]
    BY <1>1, <1>3, <2>2, ConstantsAssumption DEF HasLink
  <2>. QED  BY <2>2, <2>4, <2>5, <2>6 DEF Fresh
<1>4. CASE ~(~HasLink(v) /\ ~HasPending(v) /\ SelectedReachableNow(ut))
  <2>1. d = v
    BY <1>4 DEF DropAndProbe
  <2>2. ~HasLink(v) /\ ~HasPending(v) => visible[ut] = {}
    BY <1>4, SelectionSplit
  <2>3. CASE lost
    BY <1>1, <2>1, <2>2, <2>3 DEF NoneInView
  <2>4. CASE ~lost
    BY <1>1, <2>1, <2>2, <2>4 DEF NoneInView
  <2>. QED  BY <2>3, <2>4
<1>. QED  BY <1>3, <1>4

(* After the polling slot. *)
LEMMA PollSlotCases ==
  ASSUME NEW ut \in UserTerminals, NEW t, RecordOK(t), NEW downtime \in Downtimes,
         SkyTypeOK, SkyContract, HasLink(t) => t.link \in visible[ut]
  PROVE  LET u == PollSlot(ut, t, downtime) IN
         \/ HasLink(t) /\ u.link = t.link /\ ~HasPending(u)
         \/ Fresh(ut, u, t.link)
         \/ NoneInView(ut, u)
<1> DEFINE keepLink == \/ ~SelectedReachableNow(ut) /\ t.link \in visible[ut]
                       \/ selected[ut] = t.link
           v == IF HasLink(t) THEN RemoveActiveLink(t) ELSE t
           u == PollSlot(ut, t, downtime)
<1>1. RecordOK(v) /\ ~HasLink(v)
  BY RemoveActiveLinkOK
<1>2. CASE HasLink(t) /\ keepLink
  <2>1. u = CancelPending(t)
    BY <1>2 DEF PollSlot
  <2>2. u.link = t.link /\ ~HasPending(u)
    BY <2>1, CancelPendingOK DEF RecordOK
  <2>. QED  BY <1>2, <2>2
<1>3. CASE ~(HasLink(t) /\ keepLink) /\ SelectedReachableNow(ut)
  <2>1. u = SchedulePending(v, t.link, selected[ut], downtime)
    BY <1>3 DEF PollSlot
  <2>2. selected[ut] \in Satellites /\ selected[ut] \in visible[ut]
    BY <1>3, SelectionSplit
  <2>3. t.link \in SatelliteOrNone /\ t.link # selected[ut]
    BY <1>3, <2>2, ConstantsAssumption DEF HasLink, RecordOK, TerminalState
  <2>4. RecordOK(u) /\ ~HasLink(u) /\ u.reconnectTime > 0 /\ u.target = selected[ut]
    BY <1>1, <2>1, <2>2, <2>3, SchedulePendingOK
  <2>5. ~ReconnectDue(u)
    BY <2>4 DEF ReconnectDue, RecordOK
  <2>. QED  BY <2>2, <2>3, <2>4, <2>5 DEF Fresh
<1>4. CASE ~(HasLink(t) /\ keepLink) /\ ~SelectedReachableNow(ut)
  <2>1. u = CancelPending(v)
    BY <1>4 DEF PollSlot
  <2>2. ~HasLink(u) /\ ~HasPending(u)
    BY <1>1, <2>1, CancelPendingOK DEF RecordOK, HasLink
  <2>3. visible[ut] = {}
    BY <1>4, SelectionSplit
  <2>. QED  BY <2>2, <2>3 DEF NoneInView
<1>. QED  BY <1>2, <1>3, <1>4

(* The five abstract steps of one terminal, from record t to record b.     *)
TerminalStep(ut, t, b) ==
  \/ t.link \in visible[ut] /\ b.link = t.link /\ ~HasPending(b)
  \/ ~HasLink(b) /\ b.target \in visible[ut] \ {t.link}
  \/ HasPending(t) /\ ~HasLink(b) /\ b.target = t.target
  \/ ~HasLink(t) /\ t.target \in visible[ut] /\ b.link = t.target /\ ~HasPending(b)
  \/ /\ visible[ut] = {} \/ t.target \notin visible[ut] \union {NoSatellite}
     /\ ~HasLink(b) /\ ~HasPending(b)

(* Completion leaves alone a record whose handover is not due. *)
LEMMA CompleteCases ==
  ASSUME NEW ut \in UserTerminals, NEW t, NEW a, RecordOK(t), RecordOK(a),
         \/ HasLink(t) /\ t.link \in visible[ut] /\ a.link = t.link /\ ~HasPending(a)
         \/ Fresh(ut, a, t.link)
         \/ ~HasLink(t) /\ HasPending(t) /\ a = t
         \/ NoneInView(ut, a),
         SkyTypeOK
  PROVE  TerminalStep(ut, t, CompletePending(ut, a))
<1> DEFINE b == CompletePending(ut, a)
<1>1. ~ReconnectDue(a) => b = a
  BY DEF CompletePending
<1>2. CASE HasLink(t) /\ t.link \in visible[ut] /\ a.link = t.link /\ ~HasPending(a)
  <2>1. b = a
    BY <1>1, <1>2 DEF ReconnectDue
  <2>. QED  BY <1>2, <2>1 DEF TerminalStep
<1>3. CASE Fresh(ut, a, t.link)
  <2>1. b = a
    BY <1>1, <1>3 DEF Fresh
  <2>. QED  BY <1>3, <2>1 DEF TerminalStep, Fresh
<1>4. CASE ~HasLink(t) /\ HasPending(t) /\ a = t
  <2>1. CASE ~ReconnectDue(a)
    <3>1. b = t
      BY <1>1, <1>4, <2>1
    <3>. QED  BY <1>4, <3>1 DEF TerminalStep
  <2>2. CASE ReconnectDue(a)
    <3> DEFINE w == [t EXCEPT !.link = IF t.target \in visible[ut] THEN t.target ELSE @]
    <3>1. b = CancelPending(w)
      BY <1>4, <2>2 DEF CompletePending
    <3>2. t \in TerminalState
      BY DEF RecordOK
    <3>3. /\ w \in TerminalState /\ w.reconnectTime = t.reconnectTime
          /\ w.expectedHandoverEnd = t.expectedHandoverEnd
          /\ w.hardHandoverActive = t.hardHandoverActive /\ w.target = t.target
          /\ w.link = IF t.target \in visible[ut] THEN t.target ELSE t.link
      BY <3>2 DEF TerminalState
    <3> HIDE DEF w
    <3>4. b.link = w.link /\ ~HasPending(b)
      BY <3>1, <3>3, CancelPendingOK DEF RecordOK, HasPending
    <3>5. CASE t.target \in visible[ut]
      BY <1>4, <3>3, <3>4, <3>5 DEF TerminalStep
    <3>6. CASE t.target \notin visible[ut]
      <4>1. ~HasLink(b)
        BY <1>4, <3>3, <3>4, <3>6 DEF HasLink
      <4>2. t.target # NoSatellite
        BY <1>4 DEF HasPending
      <4>. QED  BY <3>4, <3>6, <4>1, <4>2 DEF TerminalStep
    <3>. QED  BY <3>5, <3>6
  <2>. QED  BY <2>1, <2>2
<1>5. CASE NoneInView(ut, a)
  <2>1. b = a
    BY <1>1, <1>5 DEF NoneInView, ReconnectDue
  <2>. QED  BY <1>5, <2>1 DEF NoneInView, TerminalStep
<1>. QED  BY <1>2, <1>3, <1>4, <1>5

(* refreshUserTerminalLinks takes a terminal through an abstract step.     *)
LEMMA RefreshTerminalStep ==
  ASSUME NEW ut \in UserTerminals, NEW downtime \in Downtimes,
         SkyTypeOK, SkyContract, RecordOK(terminal[ut])
  PROVE  TerminalStep(ut, terminal[ut], CompletePending(ut, Reassigned(ut, downtime)))
<1> DEFINE t == terminal[ut]
           d == DropAndProbe(ut, t, downtime)
           a == Reassigned(ut, downtime)
<1>1. /\ RecordOK(d)
      /\ \/ HasLink(t) /\ t.link \in visible[ut] /\ d = t
         \/ Fresh(ut, d, t.link)
         \/ ~HasLink(t) /\ HasPending(t) /\ d = t
         \/ NoneInView(ut, d)
  BY DropAndProbeOK, DropAndProbeCases
<1>2. SlotDue => a = PollSlot(ut, d, downtime)
  BY DEF Reassigned
<1>3. ~SlotDue => a = d
  BY DEF Reassigned
<1>4. t.link \in SatelliteOrNone /\ visible[ut] \subseteq Satellites
  BY DEF RecordOK, TerminalState, SkyTypeOK
<1> HIDE DEF t, d, a
<1>5. /\ RecordOK(a)
      /\ \/ HasLink(t) /\ t.link \in visible[ut] /\ a.link = t.link /\ ~HasPending(a)
         \/ Fresh(ut, a, t.link)
         \/ ~HasLink(t) /\ HasPending(t) /\ a = t
         \/ NoneInView(ut, a)
  <2>1. CASE SlotDue
    <3>1. HasLink(d) => d.link \in visible[ut]
      BY <1>1 DEF Fresh, NoneInView
    <3>2. /\ RecordOK(a)
          /\ \/ HasLink(d) /\ a.link = d.link /\ ~HasPending(a)
             \/ Fresh(ut, a, d.link)
             \/ NoneInView(ut, a)
      BY <1>1, <1>2, <2>1, <3>1, PollSlotOK, PollSlotCases
    <3>3. CASE HasLink(d) /\ a.link = d.link /\ ~HasPending(a)
      BY <1>1, <3>2, <3>3 DEF Fresh, NoneInView
    <3>4. CASE NoneInView(ut, a)
      BY <3>2, <3>4
    <3>5. CASE Fresh(ut, a, d.link)
      <4>1. CASE d.link = t.link
        BY <3>2, <3>5, <4>1
      <4>2. CASE d.link # t.link
        <5>1. t.link \notin visible[ut]
          <6>1. CASE HasLink(t)
            <7>1. HasLink(t) /\ t.link \in visible[ut] => d = t
              BY <1>1, DropAndProbeOK, RecordOK(terminal[ut]) DEF t, d
            <7>. QED  BY <4>2, <6>1, <7>1
          <6>2. CASE ~HasLink(t)
            BY <1>4, <6>2, ConstantsAssumption DEF HasLink
          <6>. QED  BY <6>1, <6>2
        <5>. QED  BY <3>2, <3>5, <5>1 DEF Fresh
      <4>. QED  BY <4>1, <4>2
    <3>. QED  BY <3>2, <3>3, <3>4, <3>5
  <2>2. CASE ~SlotDue
    <3>1. a = d
      BY <1>3, <2>2
    <3>2. HasLink(t) => ~HasPending(t)
      BY DEF RecordOK, t
    <3>. QED  BY <1>1, <3>1, <3>2
  <2>. QED  BY <2>1, <2>2
<1>6. RecordOK(t)
  BY DEF t
<1>7. TerminalStep(ut, t, CompletePending(ut, a))
  BY <1>5, <1>6, CompleteCases
<1>. QED  BY <1>7 DEF t, a

-----------------------------------------------------------------------------
(* The whole system.                                                       *)

serving == [ut \in UserTerminals |-> terminal[ut].link]
awaited == [ut \in UserTerminals |-> terminal[ut].target]

(* A handler of one of the two timers refreshes all terminals.             *)
LEMMA RefreshSimulated ==
  ASSUME IInv, IInv', SkyContract, Started, Started', RefreshUserTerminalLinks, UNCHANGED sky
  PROVE  Connectivity!Reassign
<1>1. PICK downtime \in [UserTerminals -> Downtimes] :
        LET assigned == [ut \in UserTerminals |-> Reassigned(ut, downtime[ut])]
        IN  terminal' = [ut \in UserTerminals |-> CompletePending(ut, assigned[ut])]
  BY Zenon DEF RefreshUserTerminalLinks
<1>2. Records /\ SkyTypeOK /\ Records'
  <2>1. (TypeOK /\ OracleTracksPending)' => Records'
    BY RecordsOfInv, PTL
  <2>. QED  BY <2>1, RecordsOfInv DEF IInv
<1>3. ASSUME NEW ut \in UserTerminals
      PROVE  TerminalStep(ut, terminal[ut], terminal'[ut])
  <2>1. downtime[ut] \in Downtimes /\ RecordOK(terminal[ut])
    BY <1>2 DEF Records
  <2>2. terminal'[ut] = CompletePending(ut, Reassigned(ut, downtime[ut]))
    BY <1>1
  <2>. QED  BY <1>2, <2>1, <2>2, RefreshTerminalStep
<1>4. /\ serving' \in [UserTerminals -> Satellites \union {NoSatellite}]
      /\ awaited' \in [UserTerminals -> Satellites \union {NoSatellite}]
  BY <1>2 DEF Records, RecordOK, TerminalState, SatelliteOrNone, serving, awaited
<1>5. ASSUME NEW ut \in UserTerminals
      PROVE  \/ Connectivity!StayConnected(ut)
             \/ Connectivity!BeginWait(ut)
             \/ Connectivity!KeepWaiting(ut)
             \/ Connectivity!Connect(ut)
             \/ Connectivity!BecomeIdle(ut)
  BY <1>3 DEF TerminalStep, HasLink, HasPending,
              Connectivity!StayConnected, Connectivity!BeginWait, Connectivity!KeepWaiting,
              Connectivity!Connect, Connectivity!BecomeIdle, Connectivity!Idle
<1>6. UNCHANGED <<visible, Started>>
  BY DEF sky
<1>. QED
  BY <1>4, <1>5, <1>6 DEF Connectivity!Reassign, serving, awaited

LEMMA StartSimulated ==
  ASSUME IInv, IInv', SkyContract, StartSimulation
  PROVE  Connectivity!Start
<1>1. ~Started /\ Started'
  BY DEF StartSimulation, Started, Unscheduled
<1>2. Records'
  <2>1. (TypeOK /\ OracleTracksPending)' => Records'
    BY RecordsOfInv, PTL
  <2>. QED  BY <2>1 DEF IInv
<1>3. ASSUME NEW ut \in UserTerminals
      PROVE  /\ terminal'[ut].target = terminal[ut].target
             /\ IF visible[ut] = {} THEN terminal'[ut].link = NoSatellite
                ELSE terminal'[ut].link \in visible[ut]
  <2>1. ~HasLink(terminal[ut]) /\ ~HasPending(terminal[ut]) /\ terminal[ut] \in TerminalState
    BY <1>1 DEF IInv, EventLoopInv, TypeOK
  <2>2. CancelPending(terminal[ut]) = terminal[ut]
    BY <2>1 DEF CancelPending, MarkHardHandoverEnded
  <2>3. SkyTypeOK
    BY RecordsOfInv DEF IInv
  <2>4. CASE SelectedReachableNow(ut)
    <3>1. terminal'[ut] = [terminal[ut] EXCEPT !.link = selected[ut]]
      BY <2>2, <2>4 DEF StartSimulation
    <3>. QED  BY <2>1, <2>3, <2>4, <3>1, SelectionSplit DEF TerminalState
  <2>5. CASE ~SelectedReachableNow(ut)
    <3>1. terminal'[ut] = terminal[ut]
      BY <2>2, <2>5 DEF StartSimulation
    <3>. QED  BY <2>1, <2>3, <2>5, <3>1, SelectionSplit DEF HasLink
  <2>. QED  BY <2>4, <2>5
<1>4. serving' \in [UserTerminals -> Satellites \union {NoSatellite}]
  BY <1>2 DEF Records, RecordOK, TerminalState, SatelliteOrNone, serving
<1>5. awaited' = awaited /\ visible' = visible
  BY <1>3 DEF awaited, StartSimulation, sky
<1>6. \A ut \in UserTerminals :
        IF visible[ut] = {} THEN serving'[ut] = NoSatellite ELSE serving'[ut] \in visible[ut]
  BY <1>3 DEF serving
<1>. QED
  BY <1>1, <1>4, <1>5, <1>6 DEF Connectivity!Start, serving, awaited

LEMMA AdvanceSimulated ==
  ASSUME IInv, IInv', AdvanceTime
  PROVE  Connectivity!Move
<1>1. Started /\ Started' /\ visible' \in [UserTerminals -> SUBSET Satellites]
  BY DEF AdvanceTime, IInv, TypeOK, EventDue, Started
<1>2. ASSUME NEW ut \in UserTerminals
      PROVE  terminal'[ut].link = terminal[ut].link /\ terminal'[ut].target = terminal[ut].target
  <2>1. terminal[ut] \in TerminalState
    BY DEF IInv, TypeOK
  <2> DEFINE r == IF HasPending(terminal[ut]) THEN terminal[ut].reconnectTime - TimeToNextEvent
                  ELSE terminal[ut].reconnectTime
             e == Earlier(terminal[ut].expectedHandoverEnd, TimeToNextEvent)
  <2>2. terminal'[ut] = [terminal[ut] EXCEPT !.reconnectTime = r, !.expectedHandoverEnd = e]
    BY DEF AdvanceTime
  <2> HIDE DEF r, e
  <2>. QED  BY <2>1, <2>2 DEF TerminalState
<1>3. serving' = serving /\ awaited' = awaited
  BY <1>2 DEF serving, awaited
<1>. QED
  BY <1>1, <1>3 DEF Connectivity!Move, serving, awaited

(* The channel constructor implements TerminalConnectivity: no terminal is *)
(* switched in one step or connected to a satellite out of its sight, and  *)
(* none that sees a satellite is left idle, whatever the timers do.        *)
THEOREM Implements == Spec => HandoverIsHard
<1>1. Init => Connectivity!Init
  BY DEF Init, InitialTerminal, Connectivity!Init, Started, Unscheduled
<1>2. IInv /\ IInv' /\ SkyContract /\ [Next]_vars => [Connectivity!Next]_(Connectivity!vars)
  <2>. SUFFICES ASSUME IInv, IInv', SkyContract, [Next]_vars
                PROVE  [Connectivity!Next]_(Connectivity!vars)
    OBVIOUS
  <2>1. CASE StartSimulation
    BY <2>1, StartSimulated DEF Connectivity!Next
  <2>2. CASE HandleUpdateTimer
    <3>1. Started /\ Started'
      BY <2>2 DEF HandleUpdateTimer, UpdateDue, IInv, EventLoopInv, Started, Unscheduled
    <3>. QED  BY <2>2, <3>1, RefreshSimulated DEF HandleUpdateTimer, Connectivity!Next
  <2>3. CASE HandleHandoverTimer
    <3>1. Started /\ Started'
      BY <2>3 DEF HandleHandoverTimer, HandoverDue, IInv, EventLoopInv, Started, Unscheduled
    <3>. QED  BY <2>3, <3>1, RefreshSimulated DEF HandleHandoverTimer, Connectivity!Next
  <2>4. CASE AdvanceTime
    BY <2>4, AdvanceSimulated DEF Connectivity!Next
  <2>5. CASE UNCHANGED vars
    BY <2>5 DEF vars, timers, sky, Connectivity!vars, Started
  <2>. QED  BY <2>1, <2>2, <2>3, <2>4, <2>5 DEF Next
<1>. QED
  BY <1>1, <1>2, Inductive, SkyContractInvariant, PTL
     DEF Spec, HandoverIsHard, Connectivity!Spec

(* A healthy link is given up only for a pending handover to another       *)
(* satellite in view.                                                      *)
THEOREM HealthyKept == Spec => HealthyLinkKept
<1>1. IInv /\ IInv' /\ SkyContract /\ [Next]_vars =>
        [\A ut \in UserTerminals :
           /\ HasLink(terminal[ut])
           /\ terminal[ut].link \in visible[ut]
           /\ terminal'[ut].link # terminal[ut].link
           => terminal'[ut].target \in visible[ut] \ {terminal[ut].link}]_vars
  <2>. SUFFICES ASSUME IInv, IInv', SkyContract, [Next]_vars,
                       NEW ut \in UserTerminals,
                       HasLink(terminal[ut]), terminal[ut].link \in visible[ut],
                       terminal'[ut].link # terminal[ut].link
                PROVE  terminal'[ut].target \in visible[ut] \ {terminal[ut].link}
    BY Zenon
  <2>1. CASE RefreshUserTerminalLinks
    <3>1. PICK downtime \in [UserTerminals -> Downtimes] :
            LET assigned == [x \in UserTerminals |-> Reassigned(x, downtime[x])]
            IN  terminal' = [x \in UserTerminals |-> CompletePending(x, assigned[x])]
      BY <2>1, Zenon DEF RefreshUserTerminalLinks
    <3>2. /\ downtime[ut] \in Downtimes /\ RecordOK(terminal[ut]) /\ SkyTypeOK
          /\ terminal'[ut] = CompletePending(ut, Reassigned(ut, downtime[ut]))
      BY <3>1, RecordsOfInv DEF Records, IInv
    <3>. QED  BY <3>2, RefreshTerminalOK
  <2>2. CASE StartSimulation
    <3>1. ~Started
      BY <2>2 DEF StartSimulation, Started, Unscheduled
    <3>. QED  BY <3>1 DEF IInv, EventLoopInv
  <2>3. CASE AdvanceTime
    <3>1. Connectivity!Move
      BY <2>3, AdvanceSimulated
    <3>. QED  BY <3>1 DEF Connectivity!Move
  <2>4. CASE UNCHANGED vars
    BY <2>4 DEF vars
  <2>. QED
    BY <2>1, <2>2, <2>3, <2>4 DEF Next, HandleUpdateTimer, HandleHandoverTimer
<1>. QED
  BY <1>1, Inductive, SkyContractInvariant, PTL DEF Spec, HealthyLinkKept

-----------------------------------------------------------------------------
(* What an event does to the terminals.                                    *)

(* A timer's handler takes each terminal through both loops and completion.*)
LEMMA RefreshedTerminal ==
  ASSUME IInv, RefreshUserTerminalLinks
  PROVE  \A ut \in UserTerminals : \E downtime \in Downtimes :
           terminal'[ut] = CompletePending(ut, Reassigned(ut, downtime))
<1>1. PICK downtime \in [UserTerminals -> Downtimes] :
        LET assigned == [x \in UserTerminals |-> Reassigned(x, downtime[x])]
        IN  terminal' = [x \in UserTerminals |-> CompletePending(x, assigned[x])]
  BY Zenon DEF RefreshUserTerminalLinks
<1>2. ASSUME NEW ut \in UserTerminals
      PROVE  /\ downtime[ut] \in Downtimes
             /\ terminal'[ut] = CompletePending(ut, Reassigned(ut, downtime[ut]))
  BY <1>1
<1>. QED  BY <1>2

LEMMA RefreshedStep ==
  ASSUME IInv, SkyContract, RefreshUserTerminalLinks, NEW ut \in UserTerminals
  PROVE  TerminalStep(ut, terminal[ut], terminal'[ut])
<1>1. PICK downtime \in Downtimes :
        terminal'[ut] = CompletePending(ut, Reassigned(ut, downtime))
  BY RefreshedTerminal
<1>2. SkyTypeOK /\ RecordOK(terminal[ut])
  BY RecordsOfInv DEF IInv, Records
<1>. QED  BY <1>1, <1>2, RefreshTerminalStep

(* Every event gives a terminal that sees a satellite a link or a pending  *)
(* handover, unless the handover that just ended, or still runs out, was   *)
(* to a satellite that has set.                                            *)
THEOREM Probed == Spec => DetachedTerminalsProbed
<1>1. IInv /\ IInv' /\ SkyContract /\ [Next]_vars =>
        [EventDue => \A ut \in UserTerminals :
           \/ visible[ut] = {}
           \/ HasLink(terminal'[ut]) \/ HasPending(terminal'[ut])
           \/ HasPending(terminal[ut]) /\ terminal[ut].target \notin visible[ut]]_vars
  <2>. SUFFICES ASSUME IInv, IInv', SkyContract, [Next]_vars, EventDue, ~UNCHANGED vars,
                       NEW ut \in UserTerminals,
                       visible[ut] # {},
                       ~(HasPending(terminal[ut]) /\ terminal[ut].target \notin visible[ut])
                PROVE  HasLink(terminal'[ut]) \/ HasPending(terminal'[ut])
    BY Zenon
  <2>1. visible[ut] \subseteq Satellites /\ NoSatellite \notin visible[ut]
    BY ConstantsAssumption DEF IInv, TypeOK
  <2>2. CASE RefreshUserTerminalLinks
    <3>1. TerminalStep(ut, terminal[ut], terminal'[ut])
      BY <2>2, RefreshedStep
    <3>. QED  BY <2>1, <3>1 DEF TerminalStep, HasLink, HasPending
  <2>3. CASE StartSimulation
    <3>1. Connectivity!Start
      BY <2>3, StartSimulated
    <3>2. terminal'[ut].link \in visible[ut]
      BY <3>1 DEF Connectivity!Start
    <3>. QED  BY <2>1, <3>2 DEF HasLink
  <2>4. ~AdvanceTime
    BY DEF AdvanceTime
  <2>. QED
    BY <2>2, <2>3, <2>4 DEF Next, HandleUpdateTimer, HandleHandoverTimer
<1>. QED
  BY <1>1, Inductive, SkyContractInvariant, PTL DEF Spec, DetachedTerminalsProbed

-----------------------------------------------------------------------------
(* The oracle's prediction.                                                *)

(* What was computed for the next polling slot is what the sky shows.      *)
AsForeseen(ut) ==
  /\ nextSelected[ut] = NoSatellite => visible[ut] = {}
  /\ nextSelected[ut] # NoSatellite => /\ selected[ut] = nextSelected[ut]
                                       /\ selected[ut] \in visible[ut]

(* The announcement is always that of the last event, for the links and    *)
(* the look-ahead of now; and an event that falls on the announced time    *)
(* finds the sky that was looked ahead to, unless the slot has been taken  *)
(* by another event of that time.                                          *)
PredictionInv ==
  \A ut \in UserTerminals :
    /\ predicted[ut] <=> HandoverPredicted(ut, terminal[ut], nextSelected)
    /\ Started /\ SlotInterval > 0 /\ nextUserTerminalUpdate = 0 => AsForeseen(ut)

(* A handled slot lies ahead again. *)
LEMMA SlotTaken ==
  ASSUME IInv, RefreshUserTerminalLinks, SlotInterval > 0
  PROVE  nextUserTerminalUpdate' > 0
<1>1. nextUserTerminalUpdate \in Int
  BY DEF IInv, TypeOK
<1>2. CASE SlotDue
  <2>1. nextUserTerminalUpdate' = NextSlot(nextUserTerminalUpdate)
    BY <1>2 DEF RefreshUserTerminalLinks
  <2>2. NextSlot(nextUserTerminalUpdate) \in 1 .. SlotInterval
    BY <1>1, NextSlotAhead
  <2>. QED  BY <2>1, <2>2, Intervals
<1>3. CASE ~SlotDue
  <2>1. nextUserTerminalUpdate' = nextUserTerminalUpdate
    BY <1>3 DEF RefreshUserTerminalLinks
  <2>. QED  BY <1>1, <1>3, <2>1 DEF SlotDue
<1>. QED  BY <1>2, <1>3

LEMMA PredictionInvariant == Spec => []PredictionInv
<1>1. Init => PredictionInv
  BY DEF Init, PredictionInv, HandoverPredicted, InitialTerminal, HasLink, Started, Unscheduled
<1>2. IInv /\ IInv' /\ PredictionInv /\ [Next]_vars => PredictionInv'
  <2>. SUFFICES ASSUME IInv, IInv', PredictionInv, [Next]_vars,
                       NEW ut \in UserTerminals
                PROVE  /\ predicted'[ut] <=> HandoverPredicted(ut, terminal'[ut], nextSelected')
                       /\ Started' /\ SlotInterval > 0 /\ nextUserTerminalUpdate' = 0
                            => AsForeseen(ut)'
    BY DEF PredictionInv
  <2>1. CASE RefreshUserTerminalLinks
    <3>1. predicted' = [x \in UserTerminals |-> HandoverPredicted(x, terminal'[x], nextSelected')]
      BY <2>1 DEF RefreshUserTerminalLinks
    <3>2. predicted'[ut] <=> HandoverPredicted(ut, terminal'[ut], nextSelected')
      BY <3>1, Zenon
    <3>3. SlotInterval > 0 => nextUserTerminalUpdate' # 0
      BY <2>1, SlotTaken
    <3>. QED  BY <3>2, <3>3
  <2>2. CASE StartSimulation
    <3>1. predicted'[ut] <=> HandoverPredicted(ut, terminal'[ut], nextSelected')
      BY <2>2 DEF StartSimulation
    <3>. QED  BY <2>2, <3>1 DEF StartSimulation
  <2>3. CASE AdvanceTime
    <3>1. terminal'[ut].link = terminal[ut].link
      <4>1. Connectivity!Move
        BY <2>3, AdvanceSimulated
      <4>. QED  BY <4>1 DEF Connectivity!Move
    <3>2. predicted' = predicted /\ nextSelected' = nextSelected
      BY <2>3 DEF AdvanceTime
    <3>3. ASSUME SlotInterval > 0, nextUserTerminalUpdate' = 0
          PROVE  AsForeseen(ut)'
      <4>1. updateTimer \in Int /\ userTerminalHandoverTimer \in Int
            /\ nextUserTerminalUpdate \in Int
        BY DEF IInv, TypeOK
      <4>2. TimeToNextEvent \in Int
        BY <4>1 DEF TimeToNextEvent
      <4>3. nextUserTerminalUpdate = TimeToNextEvent
        <5>1. nextUserTerminalUpdate' = nextUserTerminalUpdate - TimeToNextEvent
          BY <2>3, <3>3, Zenon DEF AdvanceTime
        <5>. QED  BY <3>3, <4>1, <4>2, <5>1
      <4>4. SkyMayBecome(TRUE, visible', selected')
        BY <2>3, <3>3, <4>3 DEF AdvanceTime
      <4>. QED  BY <3>2, <4>4 DEF SkyMayBecome, AsForeseen
    <3>. QED  BY <3>1, <3>2, <3>3 DEF PredictionInv, HandoverPredicted, HasLink
  <2>4. CASE UNCHANGED vars
    BY <2>4 DEF vars, timers, sky, PredictionInv, AsForeseen, Started
  <2>. QED
    BY <2>1, <2>2, <2>3, <2>4 DEF Next, HandleUpdateTimer, HandleHandoverTimer
<1>. QED
  BY <1>1, <1>2, Inductive, PTL DEF Spec

(* A polling slot under the foreseen sky starts a handover of a terminal   *)
(* with a link exactly if another satellite was foreseen.                  *)
LEMMA SlotAsForeseen ==
  ASSUME NEW ut \in UserTerminals, NEW downtime \in Downtimes, SkyTypeOK, SkyContract,
         RecordOK(terminal[ut]), HasLink(terminal[ut]), AsForeseen(ut), SlotDue
  PROVE  HasPending(CompletePending(ut, Reassigned(ut, downtime)))
           <=> nextSelected[ut] \notin {NoSatellite, terminal[ut].link}
<1> DEFINE t == terminal[ut]
           d == DropAndProbe(ut, t, downtime)
           a == PollSlot(ut, d, downtime)
<1>1. Reassigned(ut, downtime) = a
  BY DEF Reassigned
<1>2. NoSatellite \notin visible[ut] /\ t.link # NoSatellite
  BY ConstantsAssumption DEF SkyTypeOK, HasLink
<1>3. /\ RecordOK(d)
      /\ HasLink(d) => d = t /\ d.link \in visible[ut]
      /\ t.link \in visible[ut] => d = t
  BY DropAndProbeOK
<1>4. SelectedReachableNow(ut) <=> nextSelected[ut] # NoSatellite
  BY DEF AsForeseen, SelectedReachableNow
<1> HIDE DEF t, d
<1>5. HasLink(t) /\ t.link # NoSatellite
  BY <1>2 DEF t
<1>6. CASE nextSelected[ut] = NoSatellite
  <2>1. visible[ut] = {} /\ ~SelectedReachableNow(ut)
    BY <1>4, <1>6 DEF AsForeseen
  <2>2. ~HasLink(d)
    BY <1>3, <2>1
  <2>3. a = CancelPending(d)
    BY <2>1, <2>2 DEF PollSlot
  <2>4. ~HasPending(a)
    BY <1>3, <2>3, CancelPendingOK DEF RecordOK
  <2>5. CompletePending(ut, a) = a
    BY <2>4 DEF CompletePending, ReconnectDue
  <2>. QED  BY <1>1, <1>6, <2>4, <2>5
<1>7. CASE nextSelected[ut] # NoSatellite
  <2>1. /\ SelectedReachableNow(ut) /\ selected[ut] = nextSelected[ut]
        /\ selected[ut] \in visible[ut] /\ selected[ut] \in Satellites
    BY <1>4, <1>7, SelectionSplit DEF AsForeseen
  <2>2. CASE selected[ut] = t.link
    <3>1. d = t
      BY <1>3, <2>1, <2>2
    <3>2. a = CancelPending(d)
      BY <1>5, <2>2, <3>1 DEF PollSlot
    <3>3. ~HasPending(a)
      BY <1>3, <3>2, CancelPendingOK DEF RecordOK
    <3>4. CompletePending(ut, a) = a
      BY <3>3 DEF CompletePending, ReconnectDue
    <3>. QED  BY <1>1, <2>1, <2>2, <3>3, <3>4 DEF t
  <2>3. CASE selected[ut] # t.link
    <3> DEFINE v == IF HasLink(d) THEN RemoveActiveLink(d) ELSE d
    <3>1. d.link # selected[ut]
      BY <1>2, <1>3, <2>1, <2>3 DEF HasLink
    <3>2. a = SchedulePending(v, d.link, selected[ut], downtime)
      BY <2>1, <3>1 DEF PollSlot
    <3>3. RecordOK(v) /\ ~HasLink(v)
      BY <1>3, RemoveActiveLinkOK
    <3>4. d.link \in SatelliteOrNone
      BY <1>3 DEF RecordOK, TerminalState
    <3> HIDE DEF v
    <3>5. HasPending(a) /\ a.reconnectTime > 0 /\ RecordOK(a)
      BY <2>1, <3>1, <3>2, <3>3, <3>4, SchedulePendingOK
    <3>6. CompletePending(ut, a) = a
      BY <3>5 DEF CompletePending, ReconnectDue, RecordOK
    <3>. QED  BY <1>1, <1>7, <2>1, <2>3, <3>5, <3>6 DEF t
  <2>. QED  BY <2>2, <2>3
<1>. QED  BY <1>6, <1>7

(* If an event falls on the announced time, a terminal that still has its  *)
(* link starts a hard handover then if and only if one was announced.      *)
THEOREM Predicted == Spec => PredictionHonoured
<1>1. IInv /\ SkyContract /\ PredictionInv /\ [Next]_vars =>
        [(EventDue /\ Started /\ SlotInterval > 0 /\ nextUserTerminalUpdate = 0)
         => \A ut \in UserTerminals :
              HasLink(terminal[ut]) => (predicted[ut] <=> HasPending(terminal'[ut]))]_vars
  <2>. SUFFICES ASSUME IInv, SkyContract, PredictionInv, [Next]_vars,
                       ~UNCHANGED vars, EventDue, Started, SlotInterval > 0,
                       nextUserTerminalUpdate = 0,
                       NEW ut \in UserTerminals, HasLink(terminal[ut])
                PROVE  predicted[ut] <=> HasPending(terminal'[ut])
    BY Zenon
  <2>1. RefreshUserTerminalLinks
    BY DEF Next, HandleUpdateTimer, HandleHandoverTimer, StartSimulation, AdvanceTime,
           Started, Unscheduled, vars
  <2>2. PICK downtime \in Downtimes :
          terminal'[ut] = CompletePending(ut, Reassigned(ut, downtime))
    BY <2>1, RefreshedTerminal
  <2>3. SkyTypeOK /\ RecordOK(terminal[ut])
    BY RecordsOfInv DEF IInv, Records
  <2>4. AsForeseen(ut) /\ SlotDue
    BY DEF PredictionInv, SlotDue
  <2>5. HasPending(terminal'[ut]) <=> nextSelected[ut] \notin {NoSatellite, terminal[ut].link}
    BY <2>2, <2>3, <2>4, SlotAsForeseen
  <2>6. predicted[ut] <=> nextSelected[ut] \notin {NoSatellite, terminal[ut].link}
    BY DEF PredictionInv, HandoverPredicted
  <2>. QED  BY <2>5, <2>6
<1>. QED
  BY <1>1, Inductive, SkyContractInvariant, PredictionInvariant, PTL DEF Spec, PredictionHonoured

-----------------------------------------------------------------------------
(* Outages: the inductive invariant.                                       *)

Bound(slots) == StartOffset + UpdateInterval + (1 + slots) * MaxDowntime

IsIdle(t) == ~HasLink(t) /\ ~HasPending(t)

(* The budget of one terminal. *)
Budget(ut) ==
  /\ outage[ut] \in Nat /\ postponed[ut] \in Nat
  /\ HasLink(terminal[ut]) => outage[ut] = 0 /\ postponed[ut] = 0
  /\ HasPending(terminal[ut]) =>
       outage[ut] + terminal[ut].reconnectTime <= Bound(postponed[ut])
  /\ IsIdle(terminal[ut]) => outage[ut] + updateTimer <= StartOffset + UpdateInterval
  /\ ~Started => outage[ut] = 0

BudgetInv == \A ut \in UserTerminals : Budget(ut)

SomePending == \E ut \in UserTerminals : HasPending(terminal[ut])

(* With a pending handover about, the first update is over, so updates     *)
(* follow one another at the update interval and a slot is handled less    *)
(* than one update interval after its boundary.                            *)
SlotsHandledSoon ==
  SomePending => /\ updateTimer <= UpdateInterval
                 /\ SlotInterval > 0 => nextUserTerminalUpdate > -UpdateInterval

(* A countdown that a slot restarted ends before the next slot.            *)
RestartedEndsFirst ==
  MaxDowntime + UpdateInterval < SlotInterval =>
    \A ut \in UserTerminals :
      \/ postponed[ut] = 0
      \/ /\ postponed[ut] = 1
         /\ HasPending(terminal[ut])
         /\ terminal[ut].reconnectTime < nextUserTerminalUpdate

OutageInv == BudgetInv /\ SlotsHandledSoon /\ RestartedEndsFirst

-----------------------------------------------------------------------------
(* Lemmas.                                                                 *)

(* Every slot that is paid for adds one downtime to the bound. *)
LEMMA BoundGrows ==
  ASSUME NEW slots \in Nat
  PROVE  /\ Bound(slots) \in Nat
         /\ Bound(slots + 1) = Bound(slots) + MaxDowntime
         /\ Bound(slots) >= StartOffset + UpdateInterval + MaxDowntime
<1> DEFINE paid == slots * MaxDowntime
<1>1. paid \in Nat /\ (1 + slots) * MaxDowntime = MaxDowntime + paid
  BY Intervals
<1>2. (1 + (slots + 1)) * MaxDowntime = MaxDowntime + MaxDowntime + paid
  BY Intervals
<1> HIDE DEF paid
<1>. QED  BY <1>1, <1>2, Intervals DEF Bound

(* With its history variables forgotten the system is UserTerminalHandover,*)
(* so the invariants of the latter hold.                                   *)
LEMMA HandoverInvariant == OutageSpec => [](IInv /\ SkyContract)
<1>1. OutageInit => Init
  BY DEF OutageInit
<1>2. [OutageNext]_outageVars => [Next]_vars
  BY DEF OutageNext, OutageAdvance, OutageEvent, Next, outageVars
<1>3. Init => IInv /\ SkyContract
  BY InitIInv DEF Init, SkyContract
<1>4. IInv /\ SkyContract /\ [Next]_vars => (IInv /\ SkyContract)'
  BY NextIInv, SkyContractStep
<1>. QED  BY <1>1, <1>2, <1>3, <1>4, PTL DEF OutageSpec

(* Outside a polling slot a pending handover goes on or completes. *)
LEMMA CountdownGoesOn ==
  ASSUME NEW ut \in UserTerminals, NEW downtime, RecordOK(terminal[ut]),
         HasPending(terminal[ut]), ~SlotDue
  PROVE  CompletePending(ut, Reassigned(ut, downtime)) = CompletePending(ut, terminal[ut])
  BY DEF Reassigned, DropAndProbe, RecordOK

(* What an event after the start does to a terminal whose outage goes on:  *)
(* it has a pending handover then, the old one unless a slot is due or     *)
(* there was none.                                                         *)
LEMMA OutageGoesOn ==
  ASSUME IInv, IInv', SkyContract, RefreshUserTerminalLinks, NEW ut \in UserTerminals,
         ~HasLink(terminal'[ut]), ~Blameless(ut)
  PROVE  /\ HasPending(terminal'[ut])
         /\ terminal'[ut].reconnectTime \in 0 .. MaxDowntime
         /\ HasPending(terminal[ut]) /\ ~SlotDue => terminal'[ut] = terminal[ut]
<1> DEFINE t == terminal[ut]
           b == terminal'[ut]
<1>1. RecordOK(t) /\ SkyTypeOK
  BY RecordsOfInv DEF Records, IInv
<1>2. NoSatellite \notin visible[ut]
  BY ConstantsAssumption DEF IInv, TypeOK
<1>3. TerminalStep(ut, t, b)
  BY RefreshedStep
<1>4. HasPending(b)
  BY <1>2, <1>3 DEF TerminalStep, HasLink, HasPending, Blameless
<1>5. b.reconnectTime \in 0 .. MaxDowntime
  BY DEF IInv, TypeOK
<1>6. ASSUME HasPending(t), ~SlotDue
      PROVE  b = t
  <2>1. PICK downtime \in Downtimes : b = CompletePending(ut, Reassigned(ut, downtime))
    BY RefreshedTerminal
  <2>2. b = CompletePending(ut, t)
    BY <1>1, <1>6, <2>1, CountdownGoesOn
  <2>3. t.target \in visible[ut]
    BY <1>6 DEF Blameless
  <2>4. ~ReconnectDue(t)
    <3>. SUFFICES ASSUME ReconnectDue(t) PROVE FALSE
      OBVIOUS
    <3>1. b.link = t.target
      BY <1>1, <2>2, <2>3, CompletePendingOK
    <3>. QED  BY <1>2, <2>3, <3>1 DEF HasLink
  <2>. QED  BY <2>2, <2>4 DEF CompletePending
<1>. QED  BY <1>4, <1>5, <1>6

-----------------------------------------------------------------------------
(* The budget.                                                             *)

(* What OutageEvent and OutageAdvance do to the two history variables.     *)
Over(ut) == HasLink(terminal'[ut]) \/ Blameless(ut)

LEMMA OutageEventHistory ==
  ASSUME OutageEvent, NEW ut \in UserTerminals
  PROVE  /\ outage'[ut] = IF Over(ut) THEN 0 ELSE outage[ut]
         /\ postponed'[ut] =
              IF Over(ut) THEN 0
              ELSE IF SlotDue /\ ~HasLink(terminal[ut]) /\ HasPending(terminal[ut])
                   THEN postponed[ut] + 1
                   ELSE postponed[ut]
  BY DEF OutageEvent, Over

(* An event keeps the budget.                                              *)
LEMMA EventBudget ==
  ASSUME IInv, IInv', SkyContract, OutageEvent, NEW ut \in UserTerminals, Budget(ut)
  PROVE  Budget(ut)'
<1> DEFINE t == terminal[ut]
           b == terminal'[ut]
<1>1. /\ RecordOK(t)
      /\ b.reconnectTime \in 0 .. MaxDowntime
      /\ ~(HasLink(b) /\ HasPending(b))
      /\ updateTimer' \in Int /\ updateTimer' <= UpdateInterval + StartOffset
      /\ updateTimer \in Int
  BY RecordsOfInv, Intervals DEF Records, IInv, TypeOK, OracleTracksPending, Unscheduled
<1>2. Bound(0) \in Nat /\ Bound(0) >= StartOffset + UpdateInterval + MaxDowntime
  BY BoundGrows
<1>3. Started'
  BY DEF OutageEvent, StartSimulation, HandleUpdateTimer, HandleHandoverTimer, UpdateDue,
         HandoverDue, IInv, EventLoopInv, Started, Unscheduled
<1>4. CASE Over(ut)
  <2>1. outage'[ut] = 0 /\ postponed'[ut] = 0
    BY <1>4, OutageEventHistory
  <2>. QED
    BY <1>1, <1>2, <1>3, <2>1, Intervals DEF Budget, IsIdle
<1>5. CASE ~Over(ut)
  <2>1. ~HasLink(b) /\ ~Blameless(ut)
    BY <1>5 DEF Over
  <2>2. CASE RefreshUserTerminalLinks
    <3>1. /\ HasPending(b)
          /\ HasPending(t) /\ ~SlotDue => b = t
      BY <2>1, <2>2, OutageGoesOn
    <3>2. outage'[ut] = outage[ut] /\ outage[ut] \in Nat /\ postponed[ut] \in Nat
      BY <1>5, OutageEventHistory DEF Budget
    <3>3. /\ postponed'[ut] \in Nat
          /\ outage'[ut] + b.reconnectTime <= Bound(postponed'[ut])
      <4>1. /\ Bound(postponed[ut]) \in Nat
            /\ Bound(postponed[ut] + 1) = Bound(postponed[ut]) + MaxDowntime
            /\ Bound(postponed[ut]) >= StartOffset + UpdateInterval + MaxDowntime
        BY <3>2, BoundGrows
      <4>2. CASE HasPending(t) /\ SlotDue
        <5>1. ~HasLink(t) /\ t.reconnectTime \in 0 .. MaxDowntime
          BY <1>1, <4>2 DEF RecordOK
        <5>2. postponed'[ut] = postponed[ut] + 1
          BY <1>5, <4>2, <5>1, OutageEventHistory
        <5>3. outage[ut] + t.reconnectTime <= Bound(postponed[ut])
          BY <4>2 DEF Budget
        <5>. QED  BY <1>1, <3>2, <4>1, <5>1, <5>2, <5>3, Intervals
      <4>3. CASE HasPending(t) /\ ~SlotDue
        <5>1. postponed'[ut] = postponed[ut]
          BY <1>5, <4>3, OutageEventHistory
        <5>2. b = t
          BY <3>1, <4>3
        <5>. QED  BY <3>2, <4>3, <5>1, <5>2 DEF Budget
      <4>4. CASE ~HasPending(t)
        <5>1. postponed'[ut] = postponed[ut]
          BY <1>5, <4>4, OutageEventHistory
        <5>2. outage[ut] <= StartOffset + UpdateInterval
          <6>1. CASE HasLink(t)
            BY <6>1, Intervals DEF Budget
          <6>2. CASE ~HasLink(t) /\ Started
            <7>1. updateTimer >= 0
              BY <6>2, Intervals DEF IInv, TypeOK, EventLoopInv, Unscheduled
            <7>2. outage[ut] + updateTimer <= StartOffset + UpdateInterval
              BY <4>4, <6>2 DEF Budget, IsIdle
            <7>. QED  BY <1>1, <3>2, <7>1, <7>2, Intervals
          <6>3. CASE ~Started
            BY <6>3, Intervals DEF Budget
          <6>. QED  BY <6>1, <6>2, <6>3
        <5>. QED  BY <1>1, <3>2, <4>1, <5>1, <5>2, Intervals
      <4>. QED  BY <4>2, <4>3, <4>4
    <3>. QED
      BY <1>3, <2>1, <3>1, <3>2, <3>3 DEF Budget, IsIdle
  <2>3. CASE StartSimulation
    <3>1. Connectivity!Start
      BY <2>3, StartSimulated
    <3>2. visible[ut] = {} \/ HasLink(b)
      BY <3>1, ConstantsAssumption DEF Connectivity!Start, IInv, TypeOK, HasLink
    <3>. QED  BY <2>1, <3>2 DEF Blameless
  <2>. QED
    BY <2>2, <2>3 DEF OutageEvent, HandleUpdateTimer, HandleHandoverTimer
<1>. QED  BY <1>4, <1>5

(* What AdvanceTime does to the countdowns: all come closer by the same    *)
(* time, which does not pass the next update.                              *)
LEMMA TimePasses ==
  ASSUME IInv, IInv', AdvanceTime
  PROVE  /\ Started /\ Started'
         /\ TimeToNextEvent \in Nat /\ TimeToNextEvent <= updateTimer
         /\ updateTimer \in Nat
         /\ updateTimer' = updateTimer - TimeToNextEvent
         /\ SlotInterval > 0 => /\ nextUserTerminalUpdate \in Int
                                /\ nextUserTerminalUpdate > 0
                                /\ nextUserTerminalUpdate' = nextUserTerminalUpdate - TimeToNextEvent
         /\ \A ut \in UserTerminals :
              /\ HasLink(terminal'[ut]) <=> HasLink(terminal[ut])
              /\ HasPending(terminal'[ut]) <=> HasPending(terminal[ut])
              /\ terminal[ut].reconnectTime \in Nat
              /\ HasPending(terminal[ut]) =>
                   terminal'[ut].reconnectTime = terminal[ut].reconnectTime - TimeToNextEvent
<1>1. Started /\ Started' /\ ~EventDue
  BY DEF AdvanceTime, IInv, TypeOK, EventDue, Started
<1>2. updateTimer \in Nat /\ userTerminalHandoverTimer \in Nat \union {Unscheduled}
  BY <1>1, Intervals DEF IInv, TypeOK, EventLoopInv, Unscheduled
<1>3. TimeToNextEvent \in Nat /\ TimeToNextEvent <= updateTimer
  BY <1>2 DEF TimeToNextEvent, Unscheduled
<1>4. updateTimer' = updateTimer - TimeToNextEvent
  BY Zenon DEF AdvanceTime
<1>5. ASSUME SlotInterval > 0
      PROVE  /\ nextUserTerminalUpdate \in Int /\ nextUserTerminalUpdate > 0
             /\ nextUserTerminalUpdate' = nextUserTerminalUpdate - TimeToNextEvent
  <2>1. nextUserTerminalUpdate \in Int /\ nextUserTerminalUpdate > 0
    BY <1>1, <1>5 DEF IInv, TypeOK, EventLoopInv
  <2>2. nextUserTerminalUpdate' = nextUserTerminalUpdate - TimeToNextEvent
    BY <1>5, Zenon DEF AdvanceTime
  <2>. QED  BY <2>1, <2>2
<1>6. ASSUME NEW ut \in UserTerminals
      PROVE  /\ terminal'[ut].link = terminal[ut].link
             /\ terminal'[ut].target = terminal[ut].target
             /\ terminal[ut].reconnectTime \in Nat
             /\ HasPending(terminal[ut]) =>
                  terminal'[ut].reconnectTime = terminal[ut].reconnectTime - TimeToNextEvent
  <2>1. terminal[ut] \in TerminalState /\ terminal[ut].reconnectTime \in Nat
    BY Intervals DEF IInv, TypeOK
  <2> DEFINE r == IF HasPending(terminal[ut]) THEN terminal[ut].reconnectTime - TimeToNextEvent
                  ELSE terminal[ut].reconnectTime
             e == Earlier(terminal[ut].expectedHandoverEnd, TimeToNextEvent)
  <2>2. terminal'[ut] = [terminal[ut] EXCEPT !.reconnectTime = r, !.expectedHandoverEnd = e]
    BY DEF AdvanceTime
  <2>3. HasPending(terminal[ut]) => r = terminal[ut].reconnectTime - TimeToNextEvent
    OBVIOUS
  <2> HIDE DEF r, e
  <2>. QED  BY <2>1, <2>2, <2>3 DEF TerminalState
<1>. QED  BY <1>1, <1>2, <1>3, <1>4, <1>5, <1>6 DEF HasLink, HasPending

(* Time that passes moves from what lies ahead to the outage.              *)
LEMMA AdvanceBudget ==
  ASSUME IInv, IInv', OutageAdvance, NEW ut \in UserTerminals, Budget(ut)
  PROVE  Budget(ut)'
<1>1. outage'[ut] = IF HasLink(terminal[ut]) THEN 0 ELSE outage[ut] + TimeToNextEvent
  BY DEF OutageAdvance
<1>2. postponed' = postponed /\ AdvanceTime
  BY DEF OutageAdvance
<1>3. /\ Started /\ Started'
      /\ TimeToNextEvent \in Nat
      /\ updateTimer \in Nat
      /\ updateTimer' = updateTimer - TimeToNextEvent
      /\ HasLink(terminal'[ut]) <=> HasLink(terminal[ut])
      /\ HasPending(terminal'[ut]) <=> HasPending(terminal[ut])
      /\ terminal[ut].reconnectTime \in Nat
      /\ HasPending(terminal[ut]) =>
           terminal'[ut].reconnectTime = terminal[ut].reconnectTime - TimeToNextEvent
  BY <1>2, TimePasses
<1>4. ~(HasLink(terminal[ut]) /\ HasPending(terminal[ut]))
  BY DEF IInv, OracleTracksPending
<1>5. outage[ut] \in Nat /\ postponed[ut] \in Nat /\ Bound(postponed[ut]) \in Nat
  BY BoundGrows DEF Budget
<1>6. CASE HasLink(terminal[ut])
  BY <1>1, <1>2, <1>3, <1>4, <1>6 DEF Budget, IsIdle
<1>7. CASE HasPending(terminal[ut])
  BY <1>1, <1>2, <1>3, <1>4, <1>5, <1>7 DEF Budget, IsIdle
<1>8. CASE IsIdle(terminal[ut])
  BY <1>1, <1>2, <1>3, <1>5, <1>8, Intervals DEF Budget, IsIdle
<1>. QED  BY <1>6, <1>7, <1>8 DEF IsIdle

-----------------------------------------------------------------------------
(* The polling slots.                                                      *)

LEMMA SlotsHandledSoonStep ==
  ASSUME IInv, IInv', SkyContract, SlotsHandledSoon, [Next]_vars
  PROVE  SlotsHandledSoon'
<1>1. CASE RefreshUserTerminalLinks /\ (HandleUpdateTimer \/ HandleHandoverTimer)
  <2>1. SlotInterval > 0 => nextUserTerminalUpdate' > -UpdateInterval
    <3>1. nextUserTerminalUpdate' \in Int
      BY DEF IInv, TypeOK
    <3>. QED  BY <1>1, <3>1, SlotTaken, Intervals
  <2>2. CASE HandleUpdateTimer
    BY <2>1, <2>2, Intervals DEF HandleUpdateTimer, SlotsHandledSoon
  <2>3. CASE HandleHandoverTimer
    <3>1. SomePending /\ updateTimer' = updateTimer
      BY <2>3 DEF HandleHandoverTimer, HandoverDue, IInv, NoReconnectForgotten, Unscheduled,
                  SomePending
    <3>. QED  BY <2>1, <3>1 DEF SlotsHandledSoon
  <2>. QED  BY <1>1, <2>2, <2>3
<1>2. CASE StartSimulation
  <2>1. Connectivity!Start
    BY <1>2, StartSimulated
  <2>2. ASSUME NEW ut \in UserTerminals
        PROVE  ~HasPending(terminal'[ut])
    <3>1. terminal'[ut].target = terminal[ut].target
      BY <2>1 DEF Connectivity!Start
    <3>2. ~HasPending(terminal[ut])
      BY <1>2 DEF StartSimulation, IInv, EventLoopInv, Started, Unscheduled
    <3>. QED  BY <3>1, <3>2 DEF HasPending
  <2>. QED  BY <2>2 DEF SlotsHandledSoon, SomePending
<1>3. CASE AdvanceTime
  <2>. SUFFICES ASSUME SomePending'
                PROVE  /\ updateTimer' <= UpdateInterval
                       /\ SlotInterval > 0 => nextUserTerminalUpdate' > -UpdateInterval
    BY DEF SlotsHandledSoon
  <2>1. SomePending
    BY <1>3, TimePasses DEF SomePending
  <2>2. updateTimer <= UpdateInterval
    BY <2>1 DEF SlotsHandledSoon
  <2>3. /\ TimeToNextEvent \in Nat /\ TimeToNextEvent <= updateTimer /\ updateTimer \in Nat
        /\ updateTimer' = updateTimer - TimeToNextEvent
        /\ SlotInterval > 0 => /\ nextUserTerminalUpdate \in Int
                               /\ nextUserTerminalUpdate > 0
                               /\ nextUserTerminalUpdate' = nextUserTerminalUpdate - TimeToNextEvent
    BY <1>3, TimePasses
  <2>. QED  BY <2>2, <2>3, Intervals
<1>4. CASE UNCHANGED vars
  BY <1>4 DEF vars, timers, SlotsHandledSoon, SomePending
<1>. QED
  BY <1>1, <1>2, <1>3, <1>4 DEF Next, HandleUpdateTimer, HandleHandoverTimer

(* A slot that is handled less than an update interval late leaves almost  *)
(* a whole slot interval to the next.                                      *)
LEMMA NextSlotFar ==
  ASSUME NEW slot \in Int, slot <= 0, slot > -UpdateInterval, UpdateInterval < SlotInterval
  PROVE  NextSlot(slot) > SlotInterval - UpdateInterval
<1>1. -slot \in 0 .. SlotInterval - 1
  BY Intervals
<1>2. (-slot) % SlotInterval = -slot
  BY <1>1, Intervals
<1>. QED  BY <1>2, Intervals DEF NextSlot

LEMMA RestartedEndsFirstStep ==
  ASSUME IInv, IInv', SkyContract, BudgetInv, SlotsHandledSoon, RestartedEndsFirst,
         [OutageNext]_outageVars
  PROVE  RestartedEndsFirst'
<1>. SUFFICES ASSUME MaxDowntime + UpdateInterval < SlotInterval,
                     NEW ut \in UserTerminals
              PROVE  \/ postponed'[ut] = 0
                     \/ /\ postponed'[ut] = 1
                        /\ HasPending(terminal'[ut])
                        /\ terminal'[ut].reconnectTime < nextUserTerminalUpdate'
  BY DEF RestartedEndsFirst
<1>1. \/ postponed[ut] = 0
      \/ /\ postponed[ut] = 1
         /\ HasPending(terminal[ut])
         /\ terminal[ut].reconnectTime < nextUserTerminalUpdate
  BY DEF RestartedEndsFirst
<1>2. SlotInterval > 0 /\ UpdateInterval < SlotInterval
  BY Intervals
<1>3. /\ nextUserTerminalUpdate \in Int /\ nextUserTerminalUpdate' \in Int
      /\ terminal[ut].reconnectTime \in Nat
  BY Intervals DEF IInv, TypeOK
<1>4. CASE OutageEvent
  <2>1. CASE Over(ut)
    BY <1>4, <2>1, OutageEventHistory
  <2>2. CASE ~Over(ut) /\ StartSimulation
    <3>1. Connectivity!Start
      BY <2>2, StartSimulated
    <3>2. visible[ut] = {} \/ HasLink(terminal'[ut])
      BY <3>1, ConstantsAssumption DEF Connectivity!Start, IInv, TypeOK, HasLink
    <3>. QED  BY <2>2, <3>2 DEF Over, Blameless
  <2>3. CASE ~Over(ut) /\ RefreshUserTerminalLinks
    <3>1. /\ HasPending(terminal'[ut])
          /\ terminal'[ut].reconnectTime \in 0 .. MaxDowntime
          /\ HasPending(terminal[ut]) /\ ~SlotDue => terminal'[ut] = terminal[ut]
      BY <2>3, OutageGoesOn DEF Over
    <3>2. CASE SlotDue /\ HasPending(terminal[ut])
      <4>1. postponed[ut] = 0
        BY <1>1, <1>3, <3>2 DEF SlotDue
      <4>2. postponed'[ut] \in {0, 1}
        BY <1>4, <2>3, <4>1, OutageEventHistory
      <4>3. nextUserTerminalUpdate > -UpdateInterval
        BY <1>2, <3>2 DEF SlotsHandledSoon, SomePending
      <4>4. NextSlot(nextUserTerminalUpdate) > SlotInterval - UpdateInterval
        BY <1>2, <1>3, <3>2, <4>3, NextSlotFar DEF SlotDue
      <4>5. nextUserTerminalUpdate' = NextSlot(nextUserTerminalUpdate)
        BY <2>3, <3>2 DEF RefreshUserTerminalLinks
      <4>6. terminal'[ut].reconnectTime < nextUserTerminalUpdate'
        BY <1>3, <3>1, <4>4, <4>5, Intervals
      <4>. QED  BY <3>1, <4>2, <4>6
    <3>3. CASE ~SlotDue /\ HasPending(terminal[ut])
      <4>1. /\ terminal'[ut] = terminal[ut] /\ postponed'[ut] = postponed[ut]
            /\ nextUserTerminalUpdate' = nextUserTerminalUpdate
        BY <1>4, <2>3, <3>1, <3>3, OutageEventHistory DEF RefreshUserTerminalLinks
      <4>. QED  BY <1>1, <4>1
    <3>4. CASE ~HasPending(terminal[ut])
      <4>1. postponed'[ut] = postponed[ut]
        BY <1>4, <2>3, <3>4, OutageEventHistory
      <4>. QED  BY <1>1, <3>4, <4>1
    <3>. QED  BY <3>2, <3>3, <3>4
  <2>. QED
    BY <1>4, <2>1, <2>2, <2>3 DEF OutageEvent, HandleUpdateTimer, HandleHandoverTimer
<1>5. CASE OutageAdvance
  <2>1. postponed' = postponed /\ AdvanceTime
    BY <1>5 DEF OutageAdvance
  <2>2. /\ TimeToNextEvent \in Nat
        /\ nextUserTerminalUpdate' = nextUserTerminalUpdate - TimeToNextEvent
        /\ HasPending(terminal'[ut]) <=> HasPending(terminal[ut])
        /\ HasPending(terminal[ut]) =>
             terminal'[ut].reconnectTime = terminal[ut].reconnectTime - TimeToNextEvent
    BY <1>2, <2>1, TimePasses
  <2>. QED  BY <1>1, <1>3, <2>1, <2>2
<1>6. CASE UNCHANGED outageVars
  BY <1>1, <1>6 DEF outageVars, vars
<1>. QED  BY <1>4, <1>5, <1>6 DEF OutageNext

-----------------------------------------------------------------------------
(* OutageInv is inductive, relative to the invariants of the handover.     *)

LEMMA OutageInductive == OutageSpec => []OutageInv
<1>1. OutageInit => OutageInv
  <2>. SUFFICES ASSUME OutageInit PROVE OutageInv
    OBVIOUS
  <2>1. ASSUME NEW ut \in UserTerminals
        PROVE  /\ outage[ut] = 0 /\ postponed[ut] = 0
               /\ ~HasLink(terminal[ut]) /\ ~HasPending(terminal[ut])
               /\ updateTimer = -1
    BY DEF OutageInit, Init, InitialTerminal, HasLink, HasPending, Unscheduled
  <2>2. BudgetInv
    BY <2>1, Intervals DEF BudgetInv, Budget, IsIdle
  <2>. QED
    BY <2>1, <2>2 DEF OutageInv, SlotsHandledSoon, SomePending, RestartedEndsFirst
<1>2. IInv /\ IInv' /\ SkyContract /\ OutageInv /\ [OutageNext]_outageVars => OutageInv'
  <2>. SUFFICES ASSUME IInv, SkyContract, IInv', OutageInv, [OutageNext]_outageVars
                PROVE  OutageInv'
    OBVIOUS
  <2>1. BudgetInv'
    <3>. SUFFICES ASSUME NEW ut \in UserTerminals PROVE Budget(ut)'
      BY DEF BudgetInv
    <3>1. Budget(ut)
      BY DEF OutageInv, BudgetInv
    <3>2. CASE UNCHANGED outageVars
      BY <3>1, <3>2 DEF outageVars, vars, timers, Budget, Started, IsIdle
    <3>. QED  BY <3>1, <3>2, EventBudget, AdvanceBudget DEF OutageNext
  <2>2. [Next]_vars
    BY DEF OutageNext, OutageAdvance, OutageEvent, Next, outageVars
  <2>3. SlotsHandledSoon'
    BY <2>2, SlotsHandledSoonStep DEF OutageInv
  <2>4. RestartedEndsFirst'
    BY RestartedEndsFirstStep DEF OutageInv
  <2>. QED  BY <2>1, <2>3, <2>4 DEF OutageInv
<1>. QED
  BY <1>1, <1>2, HandoverInvariant, PTL DEF OutageSpec

-----------------------------------------------------------------------------
(* Theorems.                                                               *)

(* No terminal is ever detached for longer than the handover policy        *)
(* accounts for: one update interval with the offset of the first, one     *)
(* downtime, and one more for every slot that restarted the countdown.     *)
THEOREM OutagesBounded == OutageSpec => []OutageBounded
<1>1. IInv /\ OutageInv => OutageBounded
  <2>. SUFFICES ASSUME IInv, OutageInv, NEW ut \in UserTerminals
                PROVE  outage[ut] <= Bound(postponed[ut])
    BY DEF OutageBounded, Bound
  <2>1. Budget(ut) /\ outage[ut] \in Nat /\ postponed[ut] \in Nat
    BY DEF OutageInv, BudgetInv, Budget
  <2>2. /\ Bound(postponed[ut]) \in Nat
        /\ Bound(postponed[ut]) >= StartOffset + UpdateInterval + MaxDowntime
    BY <2>1, BoundGrows
  <2>3. terminal[ut].reconnectTime \in Nat /\ updateTimer \in Int
    BY Intervals DEF IInv, TypeOK
  <2>4. CASE HasLink(terminal[ut]) \/ ~Started
    BY <2>1, <2>2, <2>4 DEF Budget
  <2>5. CASE HasPending(terminal[ut])
    BY <2>1, <2>2, <2>3, <2>5 DEF Budget
  <2>6. CASE IsIdle(terminal[ut]) /\ Started
    <3>1. updateTimer >= 0
      BY <2>6, Intervals DEF IInv, TypeOK, EventLoopInv, Unscheduled
    <3>. QED  BY <2>1, <2>2, <2>3, <2>6, <3>1, Intervals DEF Budget
  <2>. QED  BY <2>4, <2>5, <2>6 DEF IsIdle
<1>. QED  BY <1>1, OutageInductive, HandoverInvariant, PTL

(* With a downtime shorter than the time between two handled slots no more *)
(* than one polling slot falls into an outage.                             *)
THEOREM RestartedOnce == OutageSpec => []PostponedOnce
<1>1. OutageInv => PostponedOnce
  BY DEF OutageInv, RestartedEndsFirst, PostponedOnce
<1>. QED  BY <1>1, OutageInductive, PTL

==============================================================================
