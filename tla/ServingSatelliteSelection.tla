--------------------- MODULE ServingSatelliteSelection ---------------------
(***************************************************************************)
(* selectServingSatelliteForUserTerminalAt of LeoChannelConstructor: of    *)
(* all satellites, the one whose path over the terminal during the coming  *)
(* slot is closest, by dynamic time warping, to the strongest path that    *)
(* any satellites together offer. Two candidates are kept: the best of     *)
(* all, and the best of those that can be reached at the start of the      *)
(* slot, which is preferred.                                               *)
(*                                                                         *)
(* One action is one round of the loop over the satellites. The sky, that  *)
(* is, where each satellite is at each sampling time, is arbitrary. Angles *)
(* are whole degrees; every trajectory has a sample, so that all scores    *)
(* are finite, and an infinite best score is that of no satellite. A       *)
(* missing mobility module, for which the code returns at once, is left    *)
(* out, and a missing propagator is a satellite that is never reachable.   *)
(* An operator whose name has an underscore is a faulty variant of the     *)
(* definition that follows it; only the tests of the properties use it.    *)
(***************************************************************************)
EXTENDS Integers, Sequences, FiniteSets, FiniteSetsExt

CONSTANTS
  numOfSats,
  userTerminalUpdateInterval,   \* length of a slot
  userTerminalSampleInterval,   \* 0: one sample at each end of the slot
  Positions                     \* the places above the elevation mask: [elevation, azimuth]

ASSUME SelectionAssumption ==
  /\ numOfSats \in Nat
  /\ userTerminalUpdateInterval \in Nat
  /\ userTerminalSampleInterval \in Nat
  /\ Positions \subseteq [elevation: 0 .. 90, azimuth: 0 .. 359]

VARIABLES
  sky,            \* position of each satellite at each sampling time
  satNum,         \* the satellite that the loop considers next
  best,           \* bestSatellite, bestScore, bestCurrentElevation
  bestReachable,  \* the same of satellites reachable at the start of the slot
  result          \* what is returned

vars == <<sky, satNum, best, bestReachable, result>>

NoSatellite == -1
Running     == -2   \* the loop has not returned yet
Satellites  == 0 .. numOfSats - 1

Contract == INSTANCE SelectionContract

NoCandidate == [satellite |-> NoSatellite, score |-> 0, elevation |-> 0]

-----------------------------------------------------------------------------
(* Trajectories.                                                           *)

(* "for (t = slotStart; t <= slotEnd; t += step)", where the step is the   *)
(* length of the slot if no sampling interval is given.                    *)
NumOfSamples ==
  LET step == IF userTerminalSampleInterval > 0 THEN userTerminalSampleInterval
              ELSE userTerminalUpdateInterval
  IN  IF step = 0 THEN 1 ELSE userTerminalUpdateInterval \div step + 1

Samples == 1 .. NumOfSamples

OutOfView == [reachable |-> FALSE, elevation |-> 0, azimuth |-> 0]

Sample == {[reachable |-> TRUE, elevation |-> p.elevation, azimuth |-> p.azimuth] : p \in Positions}
            \union {OutOfView}

ReachableAt(i) == {sat \in Satellites : sky[sat][i].reachable}

(* buildReferenceTrajectory: at each time the highest satellite, the first *)
(* of them if several are equally high.                                    *)
ReferenceTrajectory ==
  [i \in Samples |->
     LET highest == {sat \in ReachableAt(i) :
                       \A other \in ReachableAt(i) : sky[other][i].elevation <= sky[sat][i].elevation}
     IN  IF highest = {} THEN OutOfView ELSE sky[Min(highest)][i]]

Seen(trajectory) == \E i \in Samples : trajectory[i].reachable

Difference(a, b) == IF a < b THEN b - a ELSE a - b

unreachablePenalty == 10000

LocalCost_NoWrap(r, c) ==
  IF r.reachable /\ c.reachable
  THEN Difference(r.azimuth, c.azimuth) + Difference(r.elevation, c.elevation)
  ELSE IF r.reachable # c.reachable THEN unreachablePenalty ELSE 0

(* The distance of two samples; azimuths are compared around the circle.   *)
LocalCost(r, c) ==
  LET azimuthDelta == Difference(r.azimuth, c.azimuth)
  IN  IF r.reachable /\ c.reachable
      THEN Min({azimuthDelta, 360 - azimuthDelta}) + Difference(r.elevation, c.elevation)
      ELSE IF r.reachable # c.reachable THEN unreachablePenalty ELSE 0

(* computeDtwDistance. The row and the column of infinities around the     *)
(* code's matrix are the cells that are left out here.                     *)
Cells == Samples \X Samples

CellsBefore(cell) ==
  {<<cell[1] - 1, cell[2]>>, <<cell[1], cell[2] - 1>>, <<cell[1] - 1, cell[2] - 1>>} \intersect Cells

DtwDistance(reference, candidate) ==
  LET dtw[cell \in Cells] ==
        LocalCost(reference[cell[1]], candidate[cell[2]])
          + (IF CellsBefore(cell) = {} THEN 0 ELSE Min({dtw[p] : p \in CellsBefore(cell)}))
  IN  dtw[<<NumOfSamples, NumOfSamples>>]

-----------------------------------------------------------------------------
(* The loop.                                                               *)

Beats_Farther(candidate, other) ==
  other.satellite = NoSatellite \/ candidate.score > other.score

(* A lower score, or the same score and higher at the start of the slot.   *)
Beats(candidate, other) ==
  \/ other.satellite = NoSatellite
  \/ candidate.score < other.score
  \/ candidate.score = other.score /\ candidate.elevation > other.elevation

(* What the loop compares of a satellite. One that cannot be reached at    *)
(* the start of the slot is lower than all that can.                       *)
Candidate(sat) ==
  [satellite |-> sat,
   score     |-> DtwDistance(ReferenceTrajectory, sky[sat]),
   elevation |-> IF sky[sat][1].reachable THEN sky[sat][1].elevation ELSE -1]

Better(candidate, other) == IF Beats(candidate, other) THEN candidate ELSE other

Init ==
  /\ sky \in [Satellites -> [Samples -> Sample]]
  /\ satNum = 0
  /\ best = NoCandidate
  /\ bestReachable = NoCandidate
  /\ result = Running

(* Nothing is in view at any time of the slot.                             *)
NothingInView ==
  /\ result = Running /\ satNum = 0
  /\ ~Seen(ReferenceTrajectory)
  /\ result' = NoSatellite
  /\ UNCHANGED <<sky, satNum, best, bestReachable>>

(* One round of the loop.                                                  *)
ConsiderCandidate ==
  /\ result = Running /\ satNum < numOfSats
  /\ Seen(ReferenceTrajectory)
  /\ IF Seen(sky[satNum])
     THEN /\ best' = Better(Candidate(satNum), best)
          /\ bestReachable' = IF sky[satNum][1].reachable
                              THEN Better(Candidate(satNum), bestReachable) ELSE bestReachable
     ELSE UNCHANGED <<best, bestReachable>>
  /\ satNum' = satNum + 1
  /\ UNCHANGED <<sky, result>>

Preferred_BestOfAll == best.satellite

(* "During handover we need a satellite that can carry traffic now."       *)
Preferred == IF bestReachable.satellite # NoSatellite THEN bestReachable.satellite ELSE best.satellite

ReturnSelection ==
  /\ result = Running /\ satNum = numOfSats
  /\ Seen(ReferenceTrajectory)
  /\ result' = Preferred
  /\ UNCHANGED <<sky, satNum, best, bestReachable>>

Next == NothingInView \/ ConsiderCandidate \/ ReturnSelection

Spec == Init /\ [][Next]_vars

-----------------------------------------------------------------------------
(* Properties.                                                             *)

(* What the loop has found among the satellites before satNum: a candidate *)
(* that is seen during the slot unless none is, and one that is seen at    *)
(* its start unless none is. This is the inductive invariant behind        *)
(* ContractKept.                                                           *)
CandidatesFound ==
  /\ satNum \in 0 .. numOfSats
  /\ best.satellite \in 0 .. satNum - 1 \union {NoSatellite}
  /\ bestReachable.satellite \in 0 .. satNum - 1 \union {NoSatellite}
  /\ IF best.satellite = NoSatellite
     THEN \A sat \in 0 .. satNum - 1 : ~Seen(sky[sat])
     ELSE Seen(sky[best.satellite])
  /\ IF bestReachable.satellite = NoSatellite
     THEN \A sat \in 0 .. satNum - 1 : ~sky[sat][1].reachable
     ELSE sky[bestReachable.satellite][1].reachable

(* The selection keeps the contract that the handover logic relies on      *)
(* (UserTerminalHandover!SkyMayBecome): it finds a satellite that can      *)
(* carry traffic at once if there is one; and it never answers with a      *)
(* satellite that cannot be seen during the whole slot, nor with none when *)
(* one rises in it.                                                        *)
ContractKept ==
  result # Running =>
    /\ Contract!SelectionAllowed(ReachableAt(1), result)
    /\ IF result = NoSatellite
       THEN \A sat \in Satellites : ~Seen(sky[sat])
       ELSE Seen(sky[result])

(* Warpings of two trajectories, by their definition: sequences of pairs   *)
(* of samples that lead from the first pair to the last, never back and    *)
(* never over a sample.                                                    *)
Leads(p, q) == q \in {<<p[1] + 1, p[2]>>, <<p[1], p[2] + 1>>, <<p[1] + 1, p[2] + 1>>}

Warpings ==
  {w \in UNION {[1 .. k -> Cells] : k \in 1 .. 2 * NumOfSamples - 1} :
     /\ w[1] = <<1, 1>> /\ w[Len(w)] = <<NumOfSamples, NumOfSamples>>
     /\ \A i \in 1 .. Len(w) - 1 : Leads(w[i], w[i + 1])}

AngleBetween(a, b) == CHOOSE d \in 0 .. 180 : (a + d) % 360 = b \/ (b + d) % 360 = a

SampleDistance(r, c) ==
  CASE r.reachable /\ c.reachable   -> AngleBetween(r.azimuth, c.azimuth) + Difference(r.elevation, c.elevation)
    [] r.reachable # c.reachable    -> unreachablePenalty
    [] ~r.reachable /\ ~c.reachable -> 0

(* Of satellites that are equally high the first one is meant. *)
Outranks(sat, other, i) ==
  \/ sky[sat][i].elevation > sky[other][i].elevation
  \/ sky[sat][i].elevation = sky[other][i].elevation /\ sat < other

HighestAt(i) ==
  IF ReachableAt(i) = {} THEN OutOfView
  ELSE LET highest == CHOOSE sat \in ReachableAt(i) :
                        \A other \in ReachableAt(i) \ {sat} : Outranks(sat, other, i)
       IN  sky[highest][i]

WarpingCost(sat, w) ==
  LET upTo[i \in 0 .. Len(w)] ==
        IF i = 0 THEN 0 ELSE upTo[i - 1] + SampleDistance(HighestAt(w[i][1]), sky[sat][w[i][2]])
  IN  upTo[Len(w)]

LeastWarping(sat) == Min({WarpingCost(sat, w) : w \in Warpings})

(* No satellite that could have been taken as well, at once if the one     *)
(* taken carries traffic at once, follows the strongest path more closely; *)
(* of two that follow it equally the higher one is taken.                  *)
ClosestSelected ==
  (result # Running /\ result # NoSatellite) =>
    LET rivals == IF sky[result][1].reachable THEN ReachableAt(1)
                  ELSE {sat \in Satellites : Seen(sky[sat])}
        closest == LeastWarping(result)
    IN  \A sat \in rivals \ {result} :
          LET rival == LeastWarping(sat)
          IN  closest < rival \/ (closest = rival /\ sky[sat][1].elevation <= sky[result][1].elevation)

(* If one satellite is the highest throughout the slot, a satellite is     *)
(* taken that starts the slot where that one does: the warping of time and *)
(* the order of satellites never favour another.                           *)
HighestThroughoutSelected ==
  \A sat \in Satellites :
    (result # Running /\ sky[sat] = ReferenceTrajectory /\ sky[sat][1].reachable)
      => sky[result][1] = sky[sat][1]

=============================================================================
