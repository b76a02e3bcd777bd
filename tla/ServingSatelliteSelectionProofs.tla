------------------ MODULE ServingSatelliteSelectionProofs ------------------
(***************************************************************************)
(* The selection of a serving satellite, for every number of satellites,   *)
(* every sampling and every sky: that it keeps its contract, that it takes *)
(* a satellite with the least warping distance of those it may take, which *)
(* is the least cost of any warping, and that no warping makes it pass     *)
(* over a satellite which is the highest throughout. The contract needs no *)
(* word on scores: the first candidate of either kind is taken whatever    *)
(* its score, and replaced by its like only. For the rest, the matrix of   *)
(* the distance is shown to exist, each of its cells to be the least cost  *)
(* of the warpings that end in it, and the loop to have kept the best of   *)
(* the satellites it has considered.                                       *)
(***************************************************************************)
EXTENDS ServingSatelliteSelection, NaturalOrder, TLAPS

SkyOK == sky \in [Satellites -> [Samples -> Sample]]

IInv == SkyOK /\ CandidatesFound /\ ContractKept

-----------------------------------------------------------------------------

(* A trajectory has a sample for the start of the slot. *)
LEMMA StartIsSampled == NumOfSamples \in Nat /\ 1 \in Samples
<1> DEFINE step == IF userTerminalSampleInterval > 0 THEN userTerminalSampleInterval
                   ELSE userTerminalUpdateInterval
<1>1. userTerminalUpdateInterval \in Nat /\ step \in Nat
  BY SelectionAssumption
<1>2. \A n, d \in Nat : d # 0 => n \div d \in Nat
  OBVIOUS
<1>3. NumOfSamples = IF step = 0 THEN 1 ELSE userTerminalUpdateInterval \div step + 1
  BY DEF NumOfSamples
<1>. HIDE DEF step
<1>4. NumOfSamples \in Nat /\ NumOfSamples >= 1
  <2>1. CASE step = 0
    BY <1>3, <2>1
  <2>2. CASE step # 0
    <3>1. userTerminalUpdateInterval \div step \in Nat
      BY <1>1, <1>2, <2>2
    <3>. QED  BY <1>3, <2>2, <3>1
  <2>. QED  BY <2>1, <2>2
<1>. QED  BY <1>4 DEF Samples

(* The reference trajectory is in view whenever some satellite is: there   *)
(* is a highest one of those in view, and a first of those.                *)
LEMMA ReferenceSeen ==
  ASSUME SkyOK, ~Seen(ReferenceTrajectory)
  PROVE  \A sat \in Satellites : ~Seen(sky[sat])
<1>1. SUFFICES ASSUME NEW sat \in Satellites, NEW i \in Samples, sky[sat][i].reachable
               PROVE  FALSE
  BY DEF Seen
<1> DEFINE elevations == {sky[s][i].elevation : s \in ReachableAt(i)}
           highest == {s \in ReachableAt(i) :
                         \A other \in ReachableAt(i) : sky[other][i].elevation <= sky[s][i].elevation}
<1>2. \A s \in Satellites : sky[s][i].elevation \in 0 .. 90
  <2>1. \A sample \in Sample : sample.elevation \in 0 .. 90
    BY SelectionAssumption DEF Sample, OutOfView
  <2>. QED  BY <2>1 DEF SkyOK
<1>3. sat \in ReachableAt(i) /\ ReachableAt(i) \subseteq Satellites
  BY <1>1 DEF ReachableAt
<1>4. elevations \subseteq 0 .. 90 /\ elevations # {}
  BY <1>2, <1>3
<1>5. PICK e \in elevations : \A d \in elevations : d <= e
  BY <1>4, GreatestElement
<1>6. highest # {}
  BY <1>5
<1>7. highest \subseteq Nat
  <2>1. Satellites \subseteq Nat
    BY SelectionAssumption DEF Satellites
  <2>. QED  BY <2>1, <1>3
<1>8. Min(highest) \in highest
  BY <1>6, <1>7, LeastElement DEF Min
<1>9. sky[Min(highest)][i].reachable
  BY <1>8 DEF ReachableAt
<1>10. ReferenceTrajectory[i] = sky[Min(highest)][i]
  BY <1>6 DEF ReferenceTrajectory
<1>. QED  BY <1>1, <1>9, <1>10 DEF Seen

(* A satellite in view at the start of the slot is seen during the slot. *)
LEMMA ReachableIsSeen ==
  ASSUME NEW trajectory, trajectory[1].reachable
  PROVE  Seen(trajectory)
BY StartIsSampled DEF Seen

(* The better of a candidate and what was found before is one of the two. *)
LEMMA BetterIsOne ==
  ASSUME NEW candidate, NEW other
  PROVE  /\ Better(candidate, other) \in {candidate, other}
         /\ other.satellite = NoSatellite => Better(candidate, other) = candidate
BY DEF Better, Beats

-----------------------------------------------------------------------------
(* The steps.                                                              *)

LEMMA InitEstablishes == Init => IInv
<1> SUFFICES ASSUME Init PROVE IInv
  OBVIOUS
<1>1. SkyOK
  BY DEF Init, SkyOK
<1>2. CandidatesFound
  BY SelectionAssumption DEF Init, CandidatesFound, NoCandidate, NoSatellite
<1>3. ContractKept
  BY DEF Init, ContractKept
<1>. QED  BY <1>1, <1>2, <1>3 DEF IInv

LEMMA NothingInViewKeeps == IInv /\ NothingInView => IInv'
<1> SUFFICES ASSUME IInv, NothingInView PROVE IInv'
  OBVIOUS
<1> USE DEF IInv
<1>1. SkyOK' /\ CandidatesFound'
  BY DEF NothingInView, SkyOK, CandidatesFound, Seen
<1>2. \A sat \in Satellites : ~Seen(sky[sat])
  BY ReferenceSeen DEF NothingInView
<1>3. ReachableAt(1) = {}
  BY <1>2, ReachableIsSeen DEF ReachableAt
<1>4. ContractKept'
  BY <1>2, <1>3 DEF NothingInView, ContractKept, ReachableAt, Seen,
       Contract!SelectionAllowed, Contract!SatelliteOrNone
<1>. QED  BY <1>1, <1>4

LEMMA ConsiderCandidateKeeps == IInv /\ ConsiderCandidate => IInv'
<1> SUFFICES ASSUME IInv, ConsiderCandidate PROVE IInv'
  OBVIOUS
<1> USE DEF IInv
<1> DEFINE c == Candidate(satNum)
           earlier == 0 .. satNum - 1
<1>1. /\ satNum \in Satellites /\ satNum \in Nat /\ numOfSats \in Nat
      /\ satNum' = satNum + 1 /\ satNum' \in 0 .. numOfSats
      /\ 0 .. satNum' - 1 = earlier \union {satNum}
      /\ UNCHANGED <<sky, result>>
  BY SelectionAssumption DEF ConsiderCandidate, CandidatesFound, Satellites
<1>2. c.satellite = satNum /\ satNum # NoSatellite
  BY <1>1 DEF Candidate, NoSatellite
<1>3. SkyOK' /\ ContractKept'
  BY <1>1 DEF SkyOK, ContractKept, ConsiderCandidate
<1>4. ~Seen(sky[satNum]) => ~sky[satNum][1].reachable
  BY ReachableIsSeen
<1>5. /\ best'.satellite \in earlier \union {satNum, NoSatellite}
      /\ IF best'.satellite = NoSatellite
         THEN \A sat \in earlier \union {satNum} : ~Seen(sky[sat])
         ELSE Seen(sky[best'.satellite])
  <2>1. CASE Seen(sky[satNum])
    <3>1. best' \in {c, best} /\ (best.satellite = NoSatellite => best' = c)
      BY <2>1, BetterIsOne DEF ConsiderCandidate
    <3>2. CASE best' = c
      BY <3>2, <2>1, <1>2
    <3>3. CASE best' = best /\ best.satellite # NoSatellite
      BY <3>3 DEF CandidatesFound
    <3>. QED  BY <3>1, <3>2, <3>3
  <2>2. CASE ~Seen(sky[satNum])
    <3>1. best' = best
      BY <2>2 DEF ConsiderCandidate
    <3>. QED  BY <3>1, <2>2 DEF CandidatesFound
  <2>. QED  BY <2>1, <2>2
<1>6. /\ bestReachable'.satellite \in earlier \union {satNum, NoSatellite}
      /\ IF bestReachable'.satellite = NoSatellite
         THEN \A sat \in earlier \union {satNum} : ~sky[sat][1].reachable
         ELSE sky[bestReachable'.satellite][1].reachable
  <2>1. CASE sky[satNum][1].reachable
    <3>1. bestReachable' \in {c, bestReachable} /\ (bestReachable.satellite = NoSatellite => bestReachable' = c)
      BY <2>1, <1>4, BetterIsOne DEF ConsiderCandidate
    <3>2. CASE bestReachable' = c
      BY <3>2, <2>1, <1>2
    <3>3. CASE bestReachable' = bestReachable /\ bestReachable.satellite # NoSatellite
      BY <3>3 DEF CandidatesFound
    <3>. QED  BY <3>1, <3>2, <3>3
  <2>2. CASE ~sky[satNum][1].reachable
    <3>1. bestReachable' = bestReachable
      BY <2>2 DEF ConsiderCandidate
    <3>. QED  BY <3>1, <2>2 DEF CandidatesFound
  <2>. QED  BY <2>1, <2>2
<1>7. CandidatesFound'
  BY <1>1, <1>5, <1>6 DEF CandidatesFound, Seen
<1>. QED  BY <1>3, <1>7

LEMMA ReturnSelectionKeeps == IInv /\ ReturnSelection => IInv'
<1> SUFFICES ASSUME IInv, ReturnSelection PROVE IInv'
  OBVIOUS
<1> USE DEF IInv
<1>1. SkyOK' /\ CandidatesFound'
  BY DEF ReturnSelection, SkyOK, CandidatesFound, Seen
<1>2. 0 .. satNum - 1 = Satellites
  BY DEF ReturnSelection, Satellites
<1>3. CASE bestReachable.satellite # NoSatellite
  <2>1. result' = bestReachable.satellite /\ result' \in Satellites /\ sky[result'][1].reachable
    BY <1>2, <1>3 DEF ReturnSelection, Preferred, CandidatesFound
  <2>2. result' # NoSatellite /\ Seen(sky[result'])
    BY <2>1, <1>3, ReachableIsSeen
  <2>. QED  BY <1>1, <2>1, <2>2 DEF ReturnSelection, ContractKept, ReachableAt, Seen,
              Contract!SelectionAllowed, Contract!SatelliteOrNone
<1>4. CASE bestReachable.satellite = NoSatellite
  <2>1. result' = best.satellite /\ result' \in Satellites \union {NoSatellite}
    BY <1>2, <1>4 DEF ReturnSelection, Preferred, CandidatesFound
  <2>2. ReachableAt(1) = {}
    BY <1>2, <1>4 DEF ReachableAt, CandidatesFound
  <2>3. IF result' = NoSatellite THEN \A sat \in Satellites : ~Seen(sky[sat]) ELSE Seen(sky[result'])
    BY <2>1, <1>2 DEF CandidatesFound
  <2>. QED  BY <1>1, <2>1, <2>2, <2>3 DEF ReturnSelection, ContractKept, ReachableAt, Seen,
              Contract!SelectionAllowed, Contract!SatelliteOrNone
<1>. QED  BY <1>3, <1>4

LEMMA StepKeeps == IInv /\ [Next]_vars => IInv'
<1> SUFFICES ASSUME IInv, [Next]_vars PROVE IInv'
  OBVIOUS
<1>1. CASE NothingInView
  BY <1>1, NothingInViewKeeps
<1>2. CASE ConsiderCandidate
  BY <1>2, ConsiderCandidateKeeps
<1>3. CASE ReturnSelection
  BY <1>3, ReturnSelectionKeeps
<1>4. CASE UNCHANGED vars
  BY <1>4 DEF vars, IInv, SkyOK, CandidatesFound, ContractKept, ReachableAt, Seen
<1>. QED  BY <1>1, <1>2, <1>3, <1>4 DEF Next

-----------------------------------------------------------------------------
(* The warping distance.                                                   *)

Trajectories == [Samples -> Sample]

(* What the recursion computes for a cell from a matrix. *)
CellOf(r, c, matrix, cell) ==
  LocalCost(r[cell[1]], c[cell[2]])
    + (IF CellsBefore(cell) = {} THEN 0 ELSE Min({matrix[p] : p \in CellsBefore(cell)}))

IsDtw(r, c, matrix) == matrix = [cell \in Cells |-> CellOf(r, c, matrix, cell)]

LEMMA CellsFacts ==
  /\ Samples \subseteq Nat /\ 1 \in Samples /\ NumOfSamples \in Samples
  /\ \A cell \in Cells : /\ cell[1] \in Samples /\ cell[2] \in Samples
                         /\ cell = <<cell[1], cell[2]>>
                         /\ cell[1] + cell[2] \in Nat /\ cell[1] + cell[2] <= 2 * NumOfSamples
  /\ \A cell \in Cells : \A p \in CellsBefore(cell) : p \in Cells /\ p[1] + p[2] < cell[1] + cell[2]
  /\ \A cell \in Cells : cell # <<1, 1>> => CellsBefore(cell) # {}
<1>1. Samples \subseteq Nat /\ 1 \in Samples /\ NumOfSamples \in Samples /\ NumOfSamples \in Nat
  BY StartIsSampled DEF Samples
<1>2. ASSUME NEW cell \in Cells
      PROVE  /\ cell[1] \in Samples /\ cell[2] \in Samples
             /\ cell = <<cell[1], cell[2]>>
             /\ cell[1] + cell[2] \in Nat /\ cell[1] + cell[2] <= 2 * NumOfSamples
  <2>1. cell[1] \in Samples /\ cell[2] \in Samples /\ cell = <<cell[1], cell[2]>>
    BY DEF Cells
  <2>. QED  BY <1>1, <2>1 DEF Samples
<1>3. ASSUME NEW cell \in Cells, NEW p \in CellsBefore(cell)
      PROVE  p \in Cells /\ p[1] + p[2] < cell[1] + cell[2]
  <2>1. cell[1] \in Nat /\ cell[2] \in Nat
    BY <1>1, <1>2
  <2>2. /\ p \in {<<cell[1] - 1, cell[2]>>, <<cell[1], cell[2] - 1>>, <<cell[1] - 1, cell[2] - 1>>}
        /\ p \in Cells
    BY DEF CellsBefore
  <2>. QED  BY <2>1, <2>2
<1>4. ASSUME NEW cell \in Cells, cell # <<1, 1>>
      PROVE  CellsBefore(cell) # {}
  <2>1. cell[1] \in Samples /\ cell[2] \in Samples /\ (cell[1] # 1 \/ cell[2] # 1)
    BY <1>2, <1>4
  <2>2. CASE cell[1] # 1
    <3>1. cell[1] - 1 \in Samples
      BY <1>1, <2>1, <2>2 DEF Samples
    <3>2. <<cell[1] - 1, cell[2]>> \in Cells
      BY <2>1, <3>1 DEF Cells
    <3>3. <<cell[1] - 1, cell[2]>> \in CellsBefore(cell)
      BY <3>2, Zenon DEF CellsBefore
    <3>. QED  BY <3>3
  <2>3. CASE cell[2] # 1
    <3>1. cell[2] - 1 \in Samples
      BY <1>1, <2>1, <2>3 DEF Samples
    <3>2. <<cell[1], cell[2] - 1>> \in Cells
      BY <2>1, <3>1 DEF Cells
    <3>3. <<cell[1], cell[2] - 1>> \in CellsBefore(cell)
      BY <3>2, Zenon DEF CellsBefore
    <3>. QED  BY <3>3
  <2>. QED  BY <2>1, <2>2, <2>3
<1>. QED  BY <1>1, <1>2, <1>3, <1>4

(* A cell depends on the cells before it only. *)
LEMMA CellDependsOnBefore ==
  ASSUME NEW r, NEW c, NEW f, NEW g, NEW cell, \A p \in CellsBefore(cell) : f[p] = g[p]
  PROVE  CellOf(r, c, f, cell) = CellOf(r, c, g, cell)
<1>1. {f[p] : p \in CellsBefore(cell)} = {g[p] : p \in CellsBefore(cell)}
  OBVIOUS
<1>. QED  BY <1>1 DEF CellOf

(* There is a matrix that satisfies the recursion: the cells of a diagonal *)
(* are given by those of the diagonals before.                             *)
LEMMA DtwExists ==
  ASSUME NEW r, NEW c
  PROVE  \E matrix : IsDtw(r, c, matrix)
<1> DEFINE UpTo(n, f) == /\ f = [cell \in Cells |-> f[cell]]
                         /\ \A cell \in Cells : cell[1] + cell[2] <= n => f[cell] = CellOf(r, c, f, cell)
           without == {n \in Nat : \A f : ~UpTo(n, f)}
<1>1. without = {}
  <2> SUFFICES ASSUME without # {} PROVE FALSE
    OBVIOUS
  <2>1. PICK n \in without : \A m \in without : n <= m
    <3>1. without \subseteq Nat
      OBVIOUS
    <3> HIDE DEF without
    <3>. QED  BY <3>1, LeastElement
  <2>2. n \in Nat /\ \A f : ~UpTo(n, f)
    BY <2>1
  <2>3. CASE n = 0
    <3> DEFINE f == [cell \in Cells |-> 0]
    <3>1. UpTo(0, f)
      <4>1. \A cell \in Cells : ~(cell[1] + cell[2] <= 0)
        BY CellsFacts DEF Samples
      <4>. QED  BY <4>1
    <3>. QED  BY <2>2, <2>3, <3>1
  <2>4. CASE n # 0
    <3>1. n - 1 \in Nat /\ n - 1 \notin without
      BY <2>1, <2>2, <2>4
    <3>2. PICK g : UpTo(n - 1, g)
      BY <3>1
    <3> DEFINE f == [cell \in Cells |-> IF cell[1] + cell[2] <= n - 1 THEN g[cell]
                                        ELSE CellOf(r, c, g, cell)]
    <3>3. ASSUME NEW cell \in Cells, cell[1] + cell[2] <= n
          PROVE  f[cell] = CellOf(r, c, f, cell)
      <4>1. \A p \in CellsBefore(cell) : f[p] = g[p]
        <5>1. ASSUME NEW p \in CellsBefore(cell)
              PROVE  p \in Cells /\ p[1] + p[2] <= n - 1
          <6>1. p \in Cells /\ p[1] + p[2] < cell[1] + cell[2]
            BY CellsFacts
          <6>2. p[1] + p[2] \in Nat /\ cell[1] + cell[2] \in Nat
            BY <6>1, CellsFacts
          <6>. QED  BY <2>2, <3>3, <6>1, <6>2
        <5>. QED  BY <5>1
      <4>2. CellOf(r, c, f, cell) = CellOf(r, c, g, cell)
        <5> HIDE DEF f
        <5>. QED  BY <4>1, CellDependsOnBefore
      <4>3. f[cell] = CellOf(r, c, g, cell)
        BY <3>2
      <4>. QED  BY <4>2, <4>3
    <3>4. f = [cell \in Cells |-> f[cell]]
      OBVIOUS
    <3> HIDE DEF f
    <3>5. UpTo(n, f)
      BY <3>3, <3>4
    <3>. QED  BY <2>2, <3>5
  <2>. QED  BY <2>3, <2>4
<1>2. 2 * NumOfSamples \in Nat
  BY StartIsSampled
<1>3. PICK f : UpTo(2 * NumOfSamples, f)
  BY <1>1, <1>2
<1>4. \A cell \in Cells : f[cell] = CellOf(r, c, f, cell)
  BY <1>3, CellsFacts
<1>5. [cell \in Cells |-> f[cell]] = [cell \in Cells |-> CellOf(r, c, f, cell)]
  BY <1>4
<1>. QED  BY <1>3, <1>5 DEF IsDtw

(* The distance is the last cell of such a matrix. *)
LEMMA DtwUnfolds ==
  ASSUME NEW r, NEW c
  PROVE  \E matrix : IsDtw(r, c, matrix) /\ DtwDistance(r, c) = matrix[<<NumOfSamples, NumOfSamples>>]
<1> DEFINE matrix == CHOOSE m : IsDtw(r, c, m)
<1>1. IsDtw(r, c, matrix)
  BY DtwExists
<1>2. DtwDistance(r, c) = matrix[<<NumOfSamples, NumOfSamples>>]
  BY DEF DtwDistance, IsDtw, CellOf
<1>. QED  BY <1>1, <1>2

LEMMA MinIsLeast ==
  ASSUME NEW S, S \subseteq Nat, S # {}
  PROVE  Min(S) \in S /\ \A x \in S : Min(S) <= x
  BY LeastElement DEF Min

LEMMA SampleType ==
  \A s \in Sample : /\ s.reachable \in BOOLEAN
                    /\ s.elevation \in 0 .. 90 /\ s.azimuth \in 0 .. 359
                    /\ s = [reachable |-> s.reachable, elevation |-> s.elevation, azimuth |-> s.azimuth]
<1> SUFFICES ASSUME NEW s \in Sample
             PROVE  /\ s.reachable \in BOOLEAN
                    /\ s.elevation \in 0 .. 90 /\ s.azimuth \in 0 .. 359
                    /\ s = [reachable |-> s.reachable, elevation |-> s.elevation, azimuth |-> s.azimuth]
  OBVIOUS
<1>1. CASE s = OutOfView
  BY <1>1 DEF OutOfView
<1>2. CASE s # OutOfView
  <2>1. PICK p \in Positions :
          s = [reachable |-> TRUE, elevation |-> p.elevation, azimuth |-> p.azimuth]
    BY <1>2 DEF Sample
  <2>2. p.elevation \in 0 .. 90 /\ p.azimuth \in 0 .. 359
    BY SelectionAssumption
  <2>. QED  BY <2>1, <2>2
<1>. QED  BY <1>1, <1>2

LEMMA DifferenceFacts ==
  ASSUME NEW x \in Nat, NEW y \in Nat
  PROVE  /\ Difference(x, y) \in Nat
         /\ Difference(x, y) <= x \/ Difference(x, y) <= y
         /\ Difference(x, y) = 0 <=> x = y
BY DEF Difference

(* The cost of two samples is zero if they are equal, and if one is in     *)
(* view only then.                                                         *)
LEMMA LocalCostFacts ==
  ASSUME NEW a \in Sample, NEW b \in Sample
  PROVE  /\ LocalCost(a, b) \in Nat
         /\ a = b => LocalCost(a, b) = 0
         /\ LocalCost(a, b) = 0 /\ a.reachable => a = b
<1> DEFINE d == Difference(a.azimuth, b.azimuth)
           e == Difference(a.elevation, b.elevation)
           around == Min({d, 360 - d})
<1>1. /\ a.reachable \in BOOLEAN /\ b.reachable \in BOOLEAN
      /\ a.azimuth \in 0 .. 359 /\ b.azimuth \in 0 .. 359
      /\ a.elevation \in 0 .. 90 /\ b.elevation \in 0 .. 90
  BY SampleType
<1>2. /\ d \in 0 .. 359 /\ (d = 0 <=> a.azimuth = b.azimuth)
      /\ e \in 0 .. 90 /\ (e = 0 <=> a.elevation = b.elevation)
  <2>1. /\ a.azimuth \in Nat /\ b.azimuth \in Nat /\ a.elevation \in Nat /\ b.elevation \in Nat
        /\ a.azimuth <= 359 /\ b.azimuth <= 359 /\ a.elevation <= 90 /\ b.elevation <= 90
    BY <1>1
  <2>2. d \in Nat /\ (d <= a.azimuth \/ d <= b.azimuth) /\ (d = 0 <=> a.azimuth = b.azimuth)
    BY <2>1, DifferenceFacts
  <2>3. e \in Nat /\ (e <= a.elevation \/ e <= b.elevation) /\ (e = 0 <=> a.elevation = b.elevation)
    BY <2>1, DifferenceFacts
  <2> HIDE DEF d, e
  <2>. QED  BY <2>1, <2>2, <2>3
<1>3. around \in {d, 360 - d} /\ around <= d
  <2> HIDE DEF d
  <2>1. {d, 360 - d} \subseteq Nat
    BY <1>2
  <2>. QED  BY <2>1, MinIsLeast
<1>4. /\ a.reachable /\ b.reachable => LocalCost(a, b) = around + e
      /\ a.reachable /\ ~b.reachable => LocalCost(a, b) = unreachablePenalty
      /\ LocalCost(a, b) \in {around + e, unreachablePenalty, 0}
      /\ ~a.reachable /\ ~b.reachable => LocalCost(a, b) = 0
  BY <1>1, Zenon DEF LocalCost
<1> HIDE DEF d, e, around
<1>5. around \in Nat /\ (around = 0 <=> d = 0)
  BY <1>2, <1>3
<1>6. unreachablePenalty = 10000
  BY DEF unreachablePenalty
<1>7. LocalCost(a, b) \in Nat
  BY <1>1, <1>2, <1>4, <1>5, <1>6
<1>8. ASSUME a = b PROVE LocalCost(a, b) = 0
  BY <1>1, <1>2, <1>4, <1>5, <1>8
<1>9. ASSUME LocalCost(a, b) = 0, a.reachable PROVE a = b
  <2>1. b.reachable
    <3>1. unreachablePenalty # 0
      BY <1>6
    <3>. QED  BY <1>4, <1>9, <3>1, Zenon
  <2>2. around + e = 0
    BY <1>4, <1>9, <2>1
  <2>3. a.azimuth = b.azimuth /\ a.elevation = b.elevation
    BY <1>2, <1>5, <2>2
  <2>4. a.reachable = b.reachable
    BY <1>1, <1>9, <2>1
  <2>. QED  BY <2>3, <2>4, SampleType
<1>. QED  BY <1>7, <1>8, <1>9

(* All cells are numbers, and none is less than the first, for every       *)
(* warping begins with the first samples of both trajectories.             *)
LEMMA CellsAtLeastFirst ==
  ASSUME NEW r \in Trajectories, NEW c \in Trajectories, NEW matrix, IsDtw(r, c, matrix)
  PROVE  \A cell \in Cells : matrix[cell] \in Nat /\ LocalCost(r[1], c[1]) <= matrix[cell]
<1> DEFINE first == LocalCost(r[1], c[1])
           Good(cell) == matrix[cell] \in Nat /\ first <= matrix[cell]
           bad == {n \in Nat : \E cell \in Cells : cell[1] + cell[2] = n /\ ~Good(cell)}
<1>1. first \in Nat
  BY CellsFacts, LocalCostFacts DEF Trajectories
<1>2. ASSUME NEW cell \in Cells, \A p \in CellsBefore(cell) : Good(p)
      PROVE  Good(cell)
  <2> DEFINE cost == LocalCost(r[cell[1]], c[cell[2]])
             values == {matrix[p] : p \in CellsBefore(cell)}
  <2>1. cost \in Nat
    BY CellsFacts, LocalCostFacts DEF Trajectories
  <2>2. matrix[cell] = cost + (IF CellsBefore(cell) = {} THEN 0 ELSE Min(values))
    BY DEF IsDtw, CellOf
  <2>3. CASE cell = <<1, 1>>
    <3>1. CellsBefore(cell) = {}
      BY <2>3 DEF CellsBefore, Cells, Samples
    <3>2. cost = first
      BY <2>3
    <3> HIDE DEF cost, first
    <3>. QED  BY <2>1, <2>2, <3>1, <3>2
  <2>4. CASE cell # <<1, 1>>
    <3>1. CellsBefore(cell) # {}
      BY <2>4, CellsFacts
    <3>2. values # {} /\ values \subseteq Nat /\ \A v \in values : first <= v
      BY <1>2, <3>1
    <3>3. Min(values) \in Nat /\ first <= Min(values)
      <4> HIDE DEF values, first
      <4>. QED  BY <3>2, MinIsLeast
    <3> HIDE DEF cost, first, values
    <3>. QED  BY <1>1, <2>1, <2>2, <3>1, <3>3
  <2>. QED  BY <2>3, <2>4
<1> HIDE DEF Good
<1>3. bad = {}
  <2> SUFFICES ASSUME bad # {} PROVE FALSE
    OBVIOUS
  <2>1. PICK n \in bad : \A m \in bad : n <= m
    <3>1. bad \subseteq Nat
      OBVIOUS
    <3> HIDE DEF bad
    <3>. QED  BY <3>1, LeastElement
  <2>2. PICK cell \in Cells : cell[1] + cell[2] = n /\ ~Good(cell)
    BY <2>1
  <2>3. ASSUME NEW p \in CellsBefore(cell)
        PROVE  Good(p)
    <3>1. p \in Cells /\ p[1] + p[2] < n
      BY <2>2, CellsFacts
    <3>2. p[1] + p[2] \in Nat /\ n \in Nat
      BY <2>1, <3>1, CellsFacts
    <3>3. p[1] + p[2] \notin bad
      BY <2>1, <3>1, <3>2
    <3>. QED  BY <3>1, <3>2, <3>3
  <2>. QED  BY <1>2, <2>2, <2>3
<1>4. \A cell \in Cells : Good(cell)
  BY <1>3, CellsFacts
<1>. QED  BY <1>4 DEF Good

(* Equal trajectories are warped along the diagonal, at no cost. *)
LEMMA DiagonalIsZero ==
  ASSUME NEW r \in Trajectories, NEW matrix, IsDtw(r, r, matrix)
  PROVE  \A i \in Samples : matrix[<<i, i>>] = 0
<1> DEFINE bad == {i \in Samples : matrix[<<i, i>>] # 0}
<1>1. bad = {}
  <2> SUFFICES ASSUME bad # {} PROVE FALSE
    OBVIOUS
  <2>1. PICK i \in bad : \A j \in bad : i <= j
    <3>1. bad \subseteq Nat
      BY CellsFacts
    <3> HIDE DEF bad
    <3>. QED  BY <3>1, LeastElement
  <2> DEFINE cell == <<i, i>>
             values == {matrix[p] : p \in CellsBefore(cell)}
  <2>2. i \in Samples /\ matrix[cell] # 0 /\ cell \in Cells /\ cell[1] = i /\ cell[2] = i
    BY <2>1 DEF Cells
  <2>3. LocalCost(r[i], r[i]) = 0
    BY <2>2, LocalCostFacts DEF Trajectories
  <2>4. matrix[cell] = 0 + (IF CellsBefore(cell) = {} THEN 0 ELSE Min(values))
    <3>1. matrix[cell] = LocalCost(r[cell[1]], r[cell[2]])
                           + (IF CellsBefore(cell) = {} THEN 0 ELSE Min(values))
      BY <2>2 DEF IsDtw, CellOf
    <3>. QED  BY <2>2, <2>3, <3>1
  <2>5. CASE i = 1
    <3>1. CellsBefore(cell) = {}
      BY <2>5 DEF CellsBefore, Cells, Samples
    <3>. QED  BY <2>2, <2>4, <3>1
  <2>6. CASE i # 1
    <3>1. i - 1 \in Samples /\ ~(i <= i - 1)
      BY <2>2, <2>6, StartIsSampled DEF Samples
    <3>2. matrix[<<i - 1, i - 1>>] = 0
      BY <2>1, <3>1
    <3>3. <<i - 1, i - 1>> \in CellsBefore(cell)
      <4>1. <<i - 1, i - 1>> \in Cells
        BY <3>1 DEF Cells
      <4>2. <<i - 1, i - 1>> \in {<<cell[1] - 1, cell[2]>>, <<cell[1], cell[2] - 1>>,
                                  <<cell[1] - 1, cell[2] - 1>>}
        BY <2>2
      <4>. QED  BY <4>1, <4>2 DEF CellsBefore
    <3>4. values \subseteq Nat /\ 0 \in values /\ values # {}
      <4>1. \A p \in CellsBefore(cell) : matrix[p] \in Nat
        BY <2>2, CellsFacts, CellsAtLeastFirst
      <4>. QED  BY <3>2, <3>3, <4>1
    <3>5. Min(values) = 0
      <4> HIDE DEF values
      <4>1. Min(values) \in Nat /\ Min(values) <= 0
        BY <3>4, MinIsLeast
      <4>. QED  BY <4>1
    <3> HIDE DEF values, cell
    <3>. QED  BY <2>2, <2>4, <3>5
  <2>. QED  BY <2>5, <2>6
<1>. QED  BY <1>1

(* The distance of a trajectory is zero to itself, and to another one only *)
(* if both start at the same place.                                        *)
LEMMA DtwDistanceFacts ==
  ASSUME NEW r \in Trajectories, NEW c \in Trajectories
  PROVE  /\ DtwDistance(r, c) \in Nat
         /\ r = c => DtwDistance(r, c) = 0
         /\ DtwDistance(r, c) = 0 /\ r[1].reachable => c[1] = r[1]
<1>1. PICK matrix : IsDtw(r, c, matrix) /\ DtwDistance(r, c) = matrix[<<NumOfSamples, NumOfSamples>>]
  BY DtwUnfolds
<1>2. <<NumOfSamples, NumOfSamples>> \in Cells /\ 1 \in Samples /\ NumOfSamples \in Samples
  BY CellsFacts DEF Cells
<1>3. DtwDistance(r, c) \in Nat /\ LocalCost(r[1], c[1]) <= DtwDistance(r, c)
  BY <1>1, <1>2, CellsAtLeastFirst
<1>4. r = c => DtwDistance(r, c) = 0
  BY <1>1, <1>2, DiagonalIsZero
<1>5. r[1] \in Sample /\ c[1] \in Sample
  BY <1>2 DEF Trajectories
<1>6. ASSUME DtwDistance(r, c) = 0, r[1].reachable
      PROVE  c[1] = r[1]
  <2>1. LocalCost(r[1], c[1]) \in Nat
    BY <1>5, LocalCostFacts
  <2>2. LocalCost(r[1], c[1]) = 0
    BY <1>3, <1>6, <2>1
  <2>. QED  BY <1>5, <1>6, <2>2, LocalCostFacts
<1>. QED  BY <1>3, <1>4, <1>6

-----------------------------------------------------------------------------
(* The least score.                                                        *)

(* c is the candidate of a satellite of S, none of which beats it, if S is *)
(* not empty.                                                              *)
BestOf(S, c) ==
  IF S = {} THEN c.satellite = NoSatellite
  ELSE c.satellite \in S /\ c = Candidate(c.satellite) /\ \A sat \in S : ~Beats(Candidate(sat), c)

SeenBefore(n)      == {sat \in 0 .. n - 1 : Seen(sky[sat])}
ReachableBefore(n) == {sat \in 0 .. n - 1 : sky[sat][1].reachable}

(* The loop's invariant, and what is returned after it. *)
ScoresLeast ==
  /\ BestOf(SeenBefore(satNum), best)
  /\ BestOf(ReachableBefore(satNum), bestReachable)

LeastReturned ==
  result \notin {Running, NoSatellite} =>
    /\ Seen(ReferenceTrajectory)
    /\ result \in Satellites
    /\ LET rivals == IF ReachableAt(1) # {} THEN ReachableAt(1) ELSE {sat \in Satellites : Seen(sky[sat])}
       IN  result \in rivals /\ \A sat \in rivals : ~Beats(Candidate(sat), Candidate(result))

LInv == IInv /\ ScoresLeast /\ LeastReturned

LEMMA ReferenceIsTrajectory == SkyOK => ReferenceTrajectory \in Trajectories
<1> SUFFICES ASSUME SkyOK, NEW i \in Samples PROVE ReferenceTrajectory[i] \in Sample
  BY DEF Trajectories, ReferenceTrajectory
<1> DEFINE highest == {s \in ReachableAt(i) :
                         \A other \in ReachableAt(i) : sky[other][i].elevation <= sky[s][i].elevation}
<1>1. ReferenceTrajectory[i] = IF highest = {} THEN OutOfView ELSE sky[Min(highest)][i]
  BY DEF ReferenceTrajectory
<1>2. highest \subseteq Satellites /\ Satellites \subseteq Nat
  BY SelectionAssumption DEF ReachableAt, Satellites
<1> HIDE DEF highest
<1>3. CASE highest = {}
  BY <1>1, <1>3 DEF Sample
<1>4. CASE highest # {}
  <2>1. Min(highest) \in Satellites
    BY <1>2, <1>4, MinIsLeast
  <2>2. sky[Min(highest)][i] \in Sample
    BY <2>1 DEF SkyOK
  <2>. QED  BY <1>1, <1>4, <2>2
<1>. QED  BY <1>3, <1>4

LEMMA CandidateType ==
  ASSUME SkyOK, NEW sat \in Satellites
  PROVE  /\ Candidate(sat).satellite = sat /\ sat # NoSatellite
         /\ Candidate(sat).score \in Nat /\ Candidate(sat).elevation \in Int
<1>1. sky[sat] \in Trajectories /\ sky[sat][1] \in Sample
  BY StartIsSampled DEF SkyOK, Trajectories
<1>2. Candidate(sat).score \in Nat
  BY <1>1, ReferenceIsTrajectory, DtwDistanceFacts DEF Candidate
<1>3. sky[sat][1].elevation \in Int
  BY <1>1, SampleType
<1>4. Candidate(sat).elevation \in Int
  BY <1>3 DEF Candidate
<1>5. Candidate(sat).satellite = sat
  BY DEF Candidate
<1>6. sat # NoSatellite
  BY SelectionAssumption DEF Satellites, NoSatellite
<1>. QED  BY <1>2, <1>4, <1>5, <1>6

(* Once a satellite more is compared, the best of the others is the best   *)
(* of them all: what it beats, and what that beats, does not beat it.      *)
LEMMA BetterIsBest ==
  ASSUME SkyOK, NEW S \in SUBSET Satellites, NEW sat \in Satellites, NEW other, BestOf(S, other)
  PROVE  BestOf(S \union {sat}, Better(Candidate(sat), other))
<1> DEFINE c == Candidate(sat)
<1>1. /\ c.satellite = sat /\ sat # NoSatellite /\ c.score \in Nat /\ c.elevation \in Int
  BY CandidateType
<1>2. ~Beats(c, c)
  BY <1>1 DEF Beats
<1>3. CASE S = {}
  <2>1. Better(c, other) = c
    BY <1>3 DEF BestOf, Better, Beats
  <2>. QED  BY <1>1, <1>2, <1>3, <2>1 DEF BestOf
<1>4. CASE S # {}
  <2>1. /\ other.satellite \in S /\ other = Candidate(other.satellite)
        /\ \A s \in S : ~Beats(Candidate(s), other)
    BY <1>4 DEF BestOf
  <2>2. other.satellite # NoSatellite /\ other.score \in Nat /\ other.elevation \in Int
    BY <2>1, CandidateType
  <2>3. CASE Beats(c, other)
    <3>1. Better(c, other) = c
      BY <2>3 DEF Better
    <3>2. c.score < other.score \/ (c.score = other.score /\ c.elevation > other.elevation)
      BY <2>2, <2>3 DEF Beats
    <3>3. ASSUME NEW s \in S PROVE ~Beats(Candidate(s), c)
      <4> DEFINE d == Candidate(s)
      <4>1. d.score \in Nat /\ d.elevation \in Int
        BY CandidateType
      <4>2. ~Beats(d, other)
        BY <2>1
      <4>3. ~(d.score < other.score \/ (d.score = other.score /\ d.elevation > other.elevation))
        BY <4>2 DEF Beats
      <4> HIDE DEF c, d
      <4>4. ~(d.score < c.score \/ (d.score = c.score /\ d.elevation > c.elevation))
        BY <1>1, <2>2, <3>2, <4>1, <4>3
      <4>5. ~Beats(d, c)
        BY <1>1, <4>4 DEF Beats
      <4>. QED  BY <4>5 DEF d
    <3>. QED  BY <1>1, <1>2, <3>1, <3>3 DEF BestOf
  <2>4. CASE ~Beats(c, other)
    <3>1. Better(c, other) = other
      BY <2>4 DEF Better
    <3>. QED  BY <2>1, <2>4, <3>1 DEF BestOf
  <2>. QED  BY <2>3, <2>4
<1>. QED  BY <1>3, <1>4

LEMMA LeastInit == Init => LInv
<1> SUFFICES ASSUME Init PROVE LInv
  OBVIOUS
<1>1. SeenBefore(satNum) = {} /\ ReachableBefore(satNum) = {}
  BY DEF Init, SeenBefore, ReachableBefore
<1>2. ScoresLeast
  BY <1>1 DEF Init, ScoresLeast, BestOf, NoCandidate
<1>3. LeastReturned
  BY DEF Init, LeastReturned
<1>. QED  BY <1>2, <1>3, InitEstablishes DEF LInv

(* With the sky unchanged, no comparison changes. *)
LEMMA SameSky ==
  ASSUME UNCHANGED sky
  PROVE  /\ \A sat : Candidate(sat)' = Candidate(sat)
         /\ \A n : SeenBefore(n)' = SeenBefore(n) /\ ReachableBefore(n)' = ReachableBefore(n)
         /\ ReferenceTrajectory' = ReferenceTrajectory
         /\ ReachableAt(1)' = ReachableAt(1)
BY DEF Candidate, SeenBefore, ReachableBefore, Seen, ReferenceTrajectory, ReachableAt, DtwDistance

LEMMA LeastConsider == LInv /\ ConsiderCandidate => LInv'
<1> SUFFICES ASSUME LInv, ConsiderCandidate PROVE LInv'
  OBVIOUS
<1> DEFINE c == Candidate(satNum)
<1>1. /\ SkyOK /\ satNum \in Satellites /\ satNum' = satNum + 1
      /\ 0 .. satNum' - 1 = 0 .. satNum - 1 \union {satNum}
      /\ 0 .. satNum - 1 \subseteq Satellites
      /\ UNCHANGED <<sky, result>> /\ result = Running
  BY SelectionAssumption DEF LInv, IInv, ConsiderCandidate, CandidatesFound, Satellites
<1>2. SeenBefore(satNum) \in SUBSET Satellites /\ ReachableBefore(satNum) \in SUBSET Satellites
  BY <1>1 DEF SeenBefore, ReachableBefore
<1>3. BestOf(SeenBefore(satNum'), best')
  <2>1. CASE Seen(sky[satNum])
    <3>1. SeenBefore(satNum') = SeenBefore(satNum) \union {satNum}
      BY <1>1, <2>1 DEF SeenBefore
    <3>2. best' = Better(c, best)
      BY <2>1 DEF ConsiderCandidate
    <3>. QED  BY <1>1, <1>2, <3>1, <3>2, BetterIsBest DEF LInv, ScoresLeast
  <2>2. CASE ~Seen(sky[satNum])
    <3>1. SeenBefore(satNum') = SeenBefore(satNum)
      BY <1>1, <2>2 DEF SeenBefore
    <3>2. best' = best
      BY <2>2 DEF ConsiderCandidate
    <3>. QED  BY <3>1, <3>2 DEF LInv, ScoresLeast
  <2>. QED  BY <2>1, <2>2
<1>4. BestOf(ReachableBefore(satNum'), bestReachable')
  <2>1. CASE sky[satNum][1].reachable
    <3>1. ReachableBefore(satNum') = ReachableBefore(satNum) \union {satNum}
      BY <1>1, <2>1 DEF ReachableBefore
    <3>2. bestReachable' = Better(c, bestReachable)
      BY <2>1, ReachableIsSeen DEF ConsiderCandidate
    <3>. QED  BY <1>1, <1>2, <3>1, <3>2, BetterIsBest DEF LInv, ScoresLeast
  <2>2. CASE ~sky[satNum][1].reachable
    <3>1. ReachableBefore(satNum') = ReachableBefore(satNum)
      BY <1>1, <2>2 DEF ReachableBefore
    <3>2. bestReachable' = bestReachable
      BY <2>2 DEF ConsiderCandidate
    <3>. QED  BY <3>1, <3>2 DEF LInv, ScoresLeast
  <2>. QED  BY <2>1, <2>2
<1>5. ScoresLeast'
  BY <1>1, <1>3, <1>4, SameSky DEF ScoresLeast, BestOf
<1>6. LeastReturned'
  BY <1>1 DEF LeastReturned
<1>. QED  BY <1>5, <1>6, ConsiderCandidateKeeps DEF LInv

LEMMA LeastReturn == LInv /\ ReturnSelection => LInv'
<1> SUFFICES ASSUME LInv, ReturnSelection PROVE LInv'
  OBVIOUS
<1>1. /\ UNCHANGED <<sky, satNum, best, bestReachable>> /\ result' = Preferred
      /\ Seen(ReferenceTrajectory) /\ 0 .. satNum - 1 = Satellites
  BY DEF ReturnSelection, Satellites
<1>2. ScoresLeast'
  BY <1>1, SameSky DEF LInv, ScoresLeast, BestOf
<1>3. /\ SeenBefore(satNum) = {sat \in Satellites : Seen(sky[sat])}
      /\ ReachableBefore(satNum) = ReachableAt(1)
  BY <1>1 DEF SeenBefore, ReachableBefore, ReachableAt
<1> DEFINE rivals == IF ReachableAt(1) # {} THEN ReachableAt(1) ELSE {sat \in Satellites : Seen(sky[sat])}
<1>4. ASSUME result' # NoSatellite
      PROVE  result' \in rivals /\ \A sat \in rivals : ~Beats(Candidate(sat), Candidate(result'))
  <2>1. CASE ReachableAt(1) # {}
    <3>1. /\ bestReachable.satellite \in ReachableAt(1)
          /\ bestReachable = Candidate(bestReachable.satellite)
          /\ \A sat \in ReachableAt(1) : ~Beats(Candidate(sat), bestReachable)
      BY <1>3, <2>1 DEF LInv, ScoresLeast, BestOf
    <3>2. bestReachable.satellite # NoSatellite
      BY <3>1, SelectionAssumption DEF ReachableAt, Satellites, NoSatellite
    <3>3. result' = bestReachable.satellite
      BY <1>1, <3>2 DEF Preferred
    <3>. QED  BY <2>1, <3>1, <3>3
  <2>2. CASE ReachableAt(1) = {}
    <3>1. bestReachable.satellite = NoSatellite
      BY <1>3, <2>2 DEF LInv, ScoresLeast, BestOf
    <3>2. result' = best.satellite
      BY <1>1, <3>1 DEF Preferred
    <3>3. SeenBefore(satNum) # {}
      BY <1>4, <3>2 DEF LInv, ScoresLeast, BestOf
    <3>4. /\ best.satellite \in SeenBefore(satNum)
          /\ best = Candidate(best.satellite)
          /\ \A sat \in SeenBefore(satNum) : ~Beats(Candidate(sat), best)
      BY <3>3 DEF LInv, ScoresLeast, BestOf
    <3>. QED  BY <1>3, <2>2, <3>2, <3>4
  <2>. QED  BY <2>1, <2>2
<1>5. rivals \subseteq Satellites /\ rivals' = rivals
  BY <1>1 DEF ReachableAt, Seen
<1>6. LeastReturned'
  <2>1. Seen(ReferenceTrajectory)'
    BY <1>1, SameSky DEF Seen
  <2> HIDE DEF rivals
  <2>2. result' \notin {Running, NoSatellite} =>
          /\ result' \in rivals' /\ \A sat \in rivals' : ~Beats(Candidate(sat)', Candidate(result)')
    <3>1. Candidate(result)' = Candidate(result')
      BY <1>1 DEF Candidate, ReferenceTrajectory, ReachableAt, DtwDistance
    <3>. QED  BY <1>1, <1>4, <1>5, <3>1, SameSky
  <2>. QED  BY <1>5, <2>1, <2>2 DEF LeastReturned, Beats, rivals
<1>. QED  BY <1>2, <1>6, ReturnSelectionKeeps DEF LInv

LEMMA LeastStep == LInv /\ [Next]_vars => LInv'
<1> SUFFICES ASSUME LInv, [Next]_vars PROVE LInv'
  OBVIOUS
<1>1. CASE NothingInView
  <2>1. UNCHANGED <<sky, satNum, best, bestReachable>> /\ result' = NoSatellite
    BY <1>1 DEF NothingInView
  <2>2. ScoresLeast'
    BY <2>1, SameSky DEF LInv, ScoresLeast, BestOf
  <2>3. LeastReturned'
    BY <2>1 DEF LeastReturned
  <2>. QED  BY <1>1, <2>2, <2>3, NothingInViewKeeps DEF LInv
<1>2. CASE ConsiderCandidate
  BY <1>2, LeastConsider
<1>3. CASE ReturnSelection
  BY <1>3, LeastReturn
<1>4. CASE UNCHANGED vars
  <2>1. UNCHANGED <<sky, satNum, best, bestReachable, result>>
    BY <1>4 DEF vars
  <2>2. ScoresLeast'
    BY <2>1, SameSky DEF LInv, ScoresLeast, BestOf
  <2>3. Candidate(result)' = Candidate(result)
    BY <2>1 DEF Candidate, ReferenceTrajectory, ReachableAt, DtwDistance
  <2>4. LeastReturned'
    BY <2>1, <2>3, SameSky DEF LInv, LeastReturned, Seen, Beats
  <2>. QED  BY <1>4, <2>2, <2>4, StepKeeps DEF LInv
<1>. QED  BY <1>1, <1>2, <1>3, <1>4 DEF Next

-----------------------------------------------------------------------------

(* Warpings, by their definition.                                          *)

(* Two pairs of samples that lead to each other are neighbours in the      *)
(* matrix.                                                                 *)
LEMMA LeadsIsBefore ==
  ASSUME NEW p \in Cells, NEW q \in Cells
  PROVE  Leads(p, q) <=> p \in CellsBefore(q)
<1>1. /\ p = <<p[1], p[2]>> /\ q = <<q[1], q[2]>>
      /\ p[1] \in Nat /\ p[2] \in Nat /\ q[1] \in Nat /\ q[2] \in Nat
  BY CellsFacts
<1>2. Leads(p, q) <=> \/ q[1] = p[1] + 1 /\ q[2] = p[2]
                      \/ q[1] = p[1] /\ q[2] = p[2] + 1
                      \/ q[1] = p[1] + 1 /\ q[2] = p[2] + 1
  BY <1>1 DEF Leads
<1>3. p \in CellsBefore(q) <=> \/ p[1] = q[1] - 1 /\ p[2] = q[2]
                               \/ p[1] = q[1] /\ p[2] = q[2] - 1
                               \/ p[1] = q[1] - 1 /\ p[2] = q[2] - 1
  BY <1>1 DEF CellsBefore
<1>. QED  BY <1>1, <1>2, <1>3

(* The angle between two azimuths is the shorter way around the circle.    *)
ShorterWay(a, b) == Min({Difference(a, b), 360 - Difference(a, b)})

LEMMA AngleIsShorterWay ==
  ASSUME NEW a \in 0 .. 359, NEW b \in 0 .. 359
  PROVE  AngleBetween(a, b) = ShorterWay(a, b)
<1> DEFINE d == Difference(a, b)
           m == Min({d, 360 - d})
           Turns(x) == (a + x) % 360 = b \/ (b + x) % 360 = a
<1>1. ASSUME NEW y \in 0 .. 359, NEW x \in 0 .. 180
      PROVE  (y + x) % 360 = IF y + x < 360 THEN y + x ELSE y + x - 360
  OBVIOUS
<1>2. d = (IF a < b THEN b - a ELSE a - b)
  BY DEF Difference
<1>3. d \in 0 .. 359
  BY <1>2
<1>4. m \in {d, 360 - d} /\ m <= d /\ m <= 360 - d
  <2>1. {d, 360 - d} \subseteq Nat
    BY <1>3
  <2> HIDE DEF d
  <2>. QED  BY <2>1, MinIsLeast
<1> HIDE DEF d, m
<1>5. m \in 0 .. 180
  BY <1>3, <1>4
<1>6. ASSUME NEW x \in 0 .. 180
      PROVE  Turns(x) <=> x = m
  <2> DEFINE u == (a + x) % 360
             v == (b + x) % 360
  <2>1. u = (IF a + x < 360 THEN a + x ELSE a + x - 360)
    BY <1>1
  <2>2. v = (IF b + x < 360 THEN b + x ELSE b + x - 360)
    BY <1>1
  <2>3. Turns(x) <=> u = b \/ v = a
    OBVIOUS
  <2> HIDE DEF Turns, u, v
  <2>. QED  BY <1>2, <1>3, <1>4, <2>1, <2>2, <2>3
<1>7. AngleBetween(a, b) = CHOOSE x \in 0 .. 180 : Turns(x)
  BY DEF AngleBetween
<1> HIDE DEF Turns
<1>. QED  BY <1>5, <1>6, <1>7 DEF d, m, ShorterWay

(* The cost that the code computes is the distance of two samples.         *)
LEMMA DistanceIsCost ==
  ASSUME NEW a \in Sample, NEW b \in Sample
  PROVE  SampleDistance(a, b) = LocalCost(a, b)
<1>1. /\ a.reachable \in BOOLEAN /\ b.reachable \in BOOLEAN
      /\ a.azimuth \in 0 .. 359 /\ b.azimuth \in 0 .. 359
  BY SampleType
<1>2. AngleBetween(a.azimuth, b.azimuth) = ShorterWay(a.azimuth, b.azimuth)
  <2> DEFINE x == a.azimuth
             y == b.azimuth
  <2>1. x \in 0 .. 359 /\ y \in 0 .. 359
    BY <1>1
  <2> HIDE DEF x, y
  <2>2. AngleBetween(x, y) = ShorterWay(x, y)
    BY <2>1, AngleIsShorterWay
  <2>. QED  BY <2>2, Zenon DEF x, y
<1>3. CASE a.reachable /\ b.reachable
  <2>1. SampleDistance(a, b) = AngleBetween(a.azimuth, b.azimuth) + Difference(a.elevation, b.elevation)
    BY <1>3, Zenon DEF SampleDistance
  <2>2. LocalCost(a, b) = ShorterWay(a.azimuth, b.azimuth) + Difference(a.elevation, b.elevation)
    BY <1>3, Zenon DEF LocalCost, ShorterWay
  <2>. QED  BY <1>2, <2>1, <2>2, Zenon
<1>4. CASE a.reachable # b.reachable
  BY <1>1, <1>4 DEF SampleDistance, LocalCost
<1>5. CASE ~a.reachable /\ ~b.reachable
  BY <1>1, <1>5 DEF SampleDistance, LocalCost
<1>. QED  BY <1>1, <1>3, <1>4, <1>5

(* The reference trajectory follows the satellite meant.                   *)
LEMMA ReferenceFollowsHighest ==
  ASSUME SkyOK, NEW i \in Samples
  PROVE  ReferenceTrajectory[i] = HighestAt(i)
<1> DEFINE visible == ReachableAt(i)
           highest == {sat \in visible : \A other \in visible : sky[other][i].elevation <= sky[sat][i].elevation}
           first == Min(highest)
<1>1. ReferenceTrajectory[i] = IF highest = {} THEN OutOfView ELSE sky[first][i]
  BY DEF ReferenceTrajectory
<1>2. visible \subseteq Satellites /\ Satellites \subseteq Nat
  BY SelectionAssumption DEF ReachableAt, Satellites
<1>3. \A sat \in Satellites : sky[sat][i].elevation \in 0 .. 90
  <2> SUFFICES ASSUME NEW sat \in Satellites PROVE sky[sat][i].elevation \in 0 .. 90
    OBVIOUS
  <2>1. sky[sat][i] \in Sample
    BY DEF SkyOK
  <2>. QED  BY <2>1, SampleType
<1>4. \A sat \in visible : sat \in Nat /\ sky[sat][i].elevation \in Nat
  <2>1. \A x \in 0 .. 90 : x \in Nat
    OBVIOUS
  <2>. QED  BY <1>2, <1>3, <2>1, Zenon
<1>5. CASE visible = {}
  BY <1>1, <1>5 DEF HighestAt
<1>6. CASE visible # {}
  <2> DEFINE elevations == {sky[sat][i].elevation : sat \in visible}
             Greatest(sat) == \A other \in visible \ {sat} : Outranks(sat, other, i)
  <2>1. highest # {}
    <3>1. elevations # {} /\ elevations \subseteq 0 .. 90
      BY <1>2, <1>3, <1>6
    <3>2. PICK x \in elevations : \A y \in elevations : y <= x
      <4> HIDE DEF elevations
      <4>. QED  BY <3>1, GreatestElement
    <3>. QED  BY <3>2
  <2>2. first \in highest /\ \A sat \in highest : first <= sat
    <3>1. highest \subseteq Nat
      BY <1>2
    <3> HIDE DEF highest
    <3>. QED  BY <2>1, <3>1, MinIsLeast
  <2> HIDE DEF first
  <2>3. first \in visible /\ \A sat \in visible : sky[sat][i].elevation <= sky[first][i].elevation
    BY <2>2
  <2>4. ASSUME NEW other \in visible, other # first PROVE Outranks(first, other, i)
    <3>1. /\ sky[other][i].elevation \in Nat /\ sky[first][i].elevation \in Nat
          /\ other \in Nat /\ first \in Nat
      BY <1>4, <2>3, Zenon
    <3>2. CASE sky[other][i].elevation = sky[first][i].elevation
      <4>1. other \in highest
        BY <2>3, <3>2
      <4>2. first < other
        BY <2>2, <2>4, <3>1, <4>1
      <4>. QED  BY <3>2, <4>2 DEF Outranks
    <3>3. CASE sky[other][i].elevation # sky[first][i].elevation
      <4>1. sky[first][i].elevation > sky[other][i].elevation
        BY <2>3, <3>1, <3>3
      <4>. QED  BY <4>1 DEF Outranks
    <3>. QED  BY <3>2, <3>3
  <2>5. Greatest(first)
    BY <2>4
  <2>6. ASSUME NEW sat \in visible, Greatest(sat) PROVE sat = first
    <3> SUFFICES ASSUME sat # first PROVE FALSE
      OBVIOUS
    <3>1. Outranks(sat, first, i) /\ Outranks(first, sat, i)
      BY <2>3, <2>4, <2>6
    <3>2. /\ sky[sat][i].elevation \in Nat /\ sky[first][i].elevation \in Nat
          /\ sat \in Nat /\ first \in Nat
      BY <1>4, <2>3, Zenon
    <3>. QED  BY <3>1, <3>2 DEF Outranks
  <2>7. (CHOOSE sat \in visible : Greatest(sat)) = first
    <3> HIDE DEF visible, Greatest
    <3>. QED  BY <2>3, <2>5, <2>6
  <2>8. HighestAt(i) = sky[CHOOSE sat \in visible : Greatest(sat)][i]
    BY <1>6, Zenon DEF HighestAt
  <2>9. ReferenceTrajectory[i] = sky[first][i]
    BY <1>1, <2>1 DEF first
  <2> HIDE DEF visible, Greatest
  <2>. QED  BY <2>7, <2>8, <2>9
<1>. QED  BY <1>5, <1>6

(* A warping up to its k-th pair, its cost L[p] at each pair p, and the    *)
(* sums of these costs.                                                    *)
Distances(r, c) == [p \in Cells |-> LocalCost(r[p[1]], c[p[2]])]

Way(w, k) ==
  /\ w \in [1 .. k -> Cells] /\ w[1] = <<1, 1>>
  /\ \A i \in 1 .. k - 1 : Leads(w[i], w[i + 1])

Costs(h, w, k, L) == h = [i \in 0 .. k |-> IF i = 0 THEN 0 ELSE h[i - 1] + L[w[i]]]

AddUp(h, w, k, L) ==
  /\ h[0] = 0 /\ \A i \in 0 .. k : h[i] \in Nat
  /\ \A i \in 1 .. k : h[i] = h[i - 1] + L[w[i]]

LEMMA CostsUnfold ==
  ASSUME NEW k \in Nat, NEW w \in [1 .. k -> Cells], NEW L \in [Cells -> Nat], NEW h, Costs(h, w, k, L)
  PROVE  AddUp(h, w, k, L)
<1>1. h[0] = 0
  BY DEF Costs
<1>2. \A i \in 1 .. k : h[i] = h[i - 1] + L[w[i]]
  <2> SUFFICES ASSUME NEW i \in 1 .. k PROVE h[i] = h[i - 1] + L[w[i]]
    OBVIOUS
  <2>1. i \in 0 .. k /\ i # 0
    OBVIOUS
  <2>. QED  BY <2>1 DEF Costs
<1> DEFINE numbers == {i \in 0 .. k : h[i] \in Nat}
<1>3. \A i \in 0 .. k : i \in numbers
  <2>1. 0 \in numbers
    BY <1>1
  <2>2. ASSUME NEW i \in 1 .. k, i - 1 \in numbers PROVE i \in numbers
    <3>1. L[w[i]] \in Nat
      OBVIOUS
    <3>2. h[i - 1] \in Nat
      BY <2>2
    <3>. QED  BY <1>2, <3>1, <3>2
  <2> HIDE DEF numbers
  <2>. QED  BY <2>1, <2>2, Upwards
<1>. QED  BY <1>1, <1>2, <1>3 DEF AddUp

LEMMA CostsExist ==
  ASSUME NEW k \in Nat, NEW w \in [1 .. k -> Cells], NEW L \in [Cells -> Nat]
  PROVE  \E h : Costs(h, w, k, L)
<1> DEFINE G == [x \in (0 .. k) \X Nat |-> IF x[1] = 0 THEN 0 ELSE x[2] + L[w[x[1]]]]
<1>1. G \in [(0 .. k) \X Nat -> Nat]
  <2> SUFFICES ASSUME NEW x \in (0 .. k) \X Nat
               PROVE  (IF x[1] = 0 THEN 0 ELSE x[2] + L[w[x[1]]]) \in Nat
    OBVIOUS
  <2>1. PICK y \in 0 .. k, z \in Nat : x = <<y, z>>
    OBVIOUS
  <2>2. y # 0 => y \in 1 .. k
    OBVIOUS
  <2>3. y # 0 => L[w[y]] \in Nat
    BY <2>2
  <2>. QED  BY <2>1, <2>3
<1>2. PICK g \in [0 .. k -> Nat] : Recursion(g, 0, k, 0, G)
  <2>1. 0 \in Nat /\ 0 <= k
    OBVIOUS
  <2> HIDE DEF G
  <2>. QED  BY <1>1, <2>1, RecursionExists, Zenon
<1>3. \A i \in 0 .. k : g[i] = IF i = 0 THEN 0 ELSE G[<<i, g[i - 1]>>]
  <2> HIDE DEF G
  <2>. QED  BY <1>2 DEF Recursion
<1>4. ASSUME NEW i \in 0 .. k PROVE g[i] = IF i = 0 THEN 0 ELSE g[i - 1] + L[w[i]]
  <2>1. i # 0 => i - 1 \in 0 .. k
    OBVIOUS
  <2>2. i # 0 => g[i - 1] \in Nat
    BY <2>1
  <2>3. ASSUME i # 0 PROVE G[<<i, g[i - 1]>>] = g[i - 1] + L[w[i]]
    BY <2>2, <2>3
  <2> HIDE DEF G
  <2>. QED  BY <1>3, <2>3
<1>5. g = [i \in 0 .. k |-> IF i = 0 THEN 0 ELSE g[i - 1] + L[w[i]]]
  <2> HIDE DEF G
  <2>. QED  BY <1>2, <1>4
<1>. QED  BY <1>5 DEF Costs

(* The sums are determined by the warping. *)
LEMMA CostsAreEqual ==
  ASSUME NEW k \in Nat, NEW w \in [1 .. k -> Cells], NEW L \in [Cells -> Nat],
         NEW g, Costs(g, w, k, L), NEW h, Costs(h, w, k, L)
  PROVE  g[k] = h[k]
<1> DEFINE equal == {i \in 0 .. k : g[i] = h[i]}
<1>1. 0 \in equal
  BY CostsUnfold DEF AddUp
<1>2. ASSUME NEW i \in 1 .. k, i - 1 \in equal PROVE i \in equal
  <2>1. g[i] = g[i - 1] + L[w[i]] /\ h[i] = h[i - 1] + L[w[i]]
    BY CostsUnfold DEF AddUp
  <2>. QED  BY <1>2, <2>1
<1>3. \A i \in 0 .. k : i \in equal
  <2> HIDE DEF equal
  <2>. QED  BY <1>1, <1>2, Upwards
<1>. QED  BY <1>3

LEMMA DistancesType ==
  ASSUME NEW r \in Trajectories, NEW c \in Trajectories
  PROVE  Distances(r, c) \in [Cells -> Nat]
<1> SUFFICES ASSUME NEW p \in Cells PROVE LocalCost(r[p[1]], c[p[2]]) \in Nat
  BY DEF Distances
<1>1. r[p[1]] \in Sample /\ c[p[2]] \in Sample
  BY CellsFacts DEF Trajectories
<1>. QED  BY <1>1, LocalCostFacts

(* No warping costs less than the matrix says of where it has come to.     *)
LEMMA NotBelowMatrix ==
  ASSUME NEW r \in Trajectories, NEW c \in Trajectories, NEW matrix, IsDtw(r, c, matrix),
         NEW k \in Nat, NEW w, Way(w, k), NEW h, Costs(h, w, k, Distances(r, c))
  PROVE  \A i \in 1 .. k : matrix[w[i]] <= h[i]
<1> DEFINE L == Distances(r, c)
           good == {i \in 0 .. k : i # 0 => matrix[w[i]] <= h[i]}
<1>1. L \in [Cells -> Nat]
  BY DistancesType
<1>2. w \in [1 .. k -> Cells]
  BY DEF Way
<1>3. /\ h[0] = 0 /\ \A i \in 0 .. k : h[i] \in Nat
      /\ \A i \in 1 .. k : h[i] = h[i - 1] + L[w[i]]
  <2> HIDE DEF L
  <2>1. Costs(h, w, k, L)
    BY DEF L
  <2>. QED  BY <1>1, <1>2, <2>1, CostsUnfold DEF AddUp
<1>4. \A cell \in Cells : matrix[cell] \in Nat
  BY CellsAtLeastFirst
<1>5. ASSUME NEW i \in 1 .. k, i - 1 \in good PROVE i \in good
  <2> DEFINE cell == w[i]
             values == {matrix[p] : p \in CellsBefore(cell)}
  <2>1. cell \in Cells /\ L[cell] \in Nat
    BY <1>1, <1>2
  <2>2. matrix[cell] = L[cell] + (IF CellsBefore(cell) = {} THEN 0 ELSE Min(values))
    BY <2>1 DEF IsDtw, CellOf, Distances
  <2>3. h[i] = h[i - 1] + L[cell] /\ h[i - 1] \in Nat
    BY <1>3
  <2>4. CASE CellsBefore(cell) = {}
    <3>1. matrix[cell] = L[cell] + 0
      BY <2>2, <2>4
    <3> HIDE DEF L
    <3>2. matrix[cell] <= h[i]
      BY <2>1, <2>3, <3>1
    <3>. QED  BY <3>2
  <2>5. CASE CellsBefore(cell) # {}
    <3>1. matrix[cell] = L[cell] + Min(values)
      BY <2>2, <2>5
    <3>2. i # 1
      <4>1. ASSUME i = 1 PROVE FALSE
        <5>1. cell = <<1, 1>>
          BY <4>1 DEF Way
        <5>. QED  BY <2>5, <5>1 DEF CellsBefore, Cells, Samples
      <4>. QED  BY <4>1
    <3>3. i - 1 \in 1 .. k - 1 /\ i - 1 \in 1 .. k /\ (i - 1) + 1 = i
      BY <3>2
    <3>4. w[i - 1] \in CellsBefore(cell)
      <4>1. Leads(w[i - 1], w[i]) /\ w[i - 1] \in Cells
        BY <1>2, <3>3 DEF Way
      <4>. QED  BY <2>1, <4>1, LeadsIsBefore
    <3>5. values \subseteq Nat /\ matrix[w[i - 1]] \in values
      BY <1>4, <3>4, CellsFacts, <2>1
    <3>6. Min(values) \in Nat /\ Min(values) <= matrix[w[i - 1]] /\ matrix[w[i - 1]] \in Nat
      <4> HIDE DEF values
      <4>. QED  BY <3>5, MinIsLeast
    <3>7. matrix[w[i - 1]] <= h[i - 1]
      BY <1>5, <3>3
    <3> HIDE DEF L, values, cell
    <3>8. matrix[cell] <= h[i]
      BY <2>1, <2>3, <3>1, <3>6, <3>7
    <3>. QED  BY <3>8 DEF cell
  <2>. QED  BY <2>4, <2>5
<1>6. \A i \in 0 .. k : i \in good
  <2>1. 0 \in good
    OBVIOUS
  <2> HIDE DEF good
  <2>. QED  BY <1>5, <2>1, Upwards
<1>. QED  BY <1>6

(* A warping that comes to a cell at the cost that the matrix says.        *)
Reaches(matrix, L, cell, k, w, h) ==
  /\ k \in 1 .. (cell[1] + cell[2]) - 1
  /\ Way(w, k) /\ Costs(h, w, k, L) /\ w[k] = cell /\ h[k] = matrix[cell]

LEMMA OneStepFurther ==
  ASSUME NEW L \in [Cells -> Nat], NEW matrix, NEW p \in Cells, NEW cell \in Cells, Leads(p, cell),
         p[1] + p[2] < cell[1] + cell[2], matrix[cell] = matrix[p] + L[cell],
         NEW k, NEW w, NEW h, Reaches(matrix, L, p, k, w, h)
  PROVE  \E g, v : Reaches(matrix, L, cell, k + 1, v, g)
<1> DEFINE v == [i \in 1 .. k + 1 |-> IF i = k + 1 THEN cell ELSE w[i]]
           g == [i \in 0 .. k + 1 |-> IF i = k + 1 THEN matrix[cell] ELSE h[i]]
<1>1. /\ p[1] + p[2] \in Nat /\ cell[1] + cell[2] \in Nat
  BY CellsFacts
<1>2. k \in Nat /\ k >= 1 /\ k + 1 \in 1 .. (cell[1] + cell[2]) - 1
  <2> DEFINE m == p[1] + p[2]
             n == cell[1] + cell[2]
  <2>1. k \in 1 .. m - 1
    BY Zenon DEF Reaches
  <2>2. m \in Nat /\ n \in Nat /\ m < n
    BY <1>1
  <2>3. k \in Nat /\ k >= 1 /\ k + 1 \in 1 .. n - 1
    <3> HIDE DEF m, n
    <3>. QED  BY <2>1, <2>2
  <2>. QED  BY <2>3
<1>3. /\ w \in [1 .. k -> Cells] /\ w[1] = <<1, 1>> /\ w[k] = p /\ h[k] = matrix[p]
      /\ \A i \in 1 .. k - 1 : Leads(w[i], w[i + 1])
  BY DEF Reaches, Way
<1>4. /\ h[0] = 0
      /\ \A i \in 1 .. k : h[i] = h[i - 1] + L[w[i]]
  BY <1>2, <1>3, CostsUnfold DEF Reaches, AddUp
<1>5. /\ v[k + 1] = cell /\ \A i \in 1 .. k : v[i] = w[i]
      /\ g[k + 1] = matrix[cell] /\ \A i \in 0 .. k : g[i] = h[i]
  BY <1>2
<1>6. v \in [1 .. k + 1 -> Cells]
  <2>1. \A i \in 1 .. k + 1 : i # k + 1 => i \in 1 .. k
    BY <1>2
  <2>. QED  BY <1>3, <2>1
<1>7. g = [i \in 0 .. k + 1 |-> g[i]]
  OBVIOUS
<1> HIDE DEF v, g
<1>8. Way(v, k + 1)
  <2>1. v[1] = <<1, 1>>
    BY <1>2, <1>3, <1>5
  <2>2. ASSUME NEW i \in 1 .. (k + 1) - 1 PROVE Leads(v[i], v[i + 1])
    <3>1. i \in 1 .. k /\ v[i] = w[i]
      BY <1>2, <1>5
    <3>2. CASE i = k
      BY <1>3, <1>5, <3>1, <3>2
    <3>3. CASE i # k
      <4>1. i \in 1 .. k - 1 /\ i + 1 \in 1 .. k
        BY <1>2, <3>1, <3>3
      <4>. QED  BY <1>3, <1>5, <3>1, <4>1
    <3>. QED  BY <3>2, <3>3
  <2>. QED  BY <1>6, <2>1, <2>2, Zenon DEF Way
<1>9. ASSUME NEW i \in 0 .. k + 1 PROVE g[i] = IF i = 0 THEN 0 ELSE g[i - 1] + L[v[i]]
  <2>1. CASE i = 0
    BY <1>2, <1>4, <1>5, <2>1
  <2>2. CASE i = k + 1
    <3>1. i - 1 = k /\ k \in 0 .. k /\ i # 0
      BY <1>2, <2>2
    <3>2. g[i] = matrix[cell] /\ g[i - 1] = matrix[p] /\ v[i] = cell
      BY <1>3, <1>5, <2>2, <3>1
    <3>. QED  BY <3>1, <3>2
  <2>3. CASE i # 0 /\ i # k + 1
    <3>1. i \in 1 .. k /\ i \in 0 .. k /\ i - 1 \in 0 .. k
      BY <1>2, <2>3
    <3>2. g[i] = h[i] /\ g[i - 1] = h[i - 1] /\ v[i] = w[i]
      BY <1>5, <3>1
    <3>. QED  BY <1>4, <2>3, <3>1, <3>2
  <2>. QED  BY <2>1, <2>2, <2>3
<1>10. Costs(g, v, k + 1, L)
  <2>1. [i \in 0 .. k + 1 |-> g[i]] = [i \in 0 .. k + 1 |-> IF i = 0 THEN 0 ELSE g[i - 1] + L[v[i]]]
    BY <1>9
  <2>. QED  BY <1>7, <2>1, Zenon DEF Costs
<1>11. Reaches(matrix, L, cell, k + 1, v, g)
  BY <1>2, <1>5, <1>8, <1>10, Zenon DEF Reaches
<1>. QED  BY <1>11

LEMMA CellsAreReached ==
  ASSUME NEW r \in Trajectories, NEW c \in Trajectories, NEW matrix, IsDtw(r, c, matrix)
  PROVE  \A cell \in Cells : \E k, w, h : Reaches(matrix, Distances(r, c), cell, k, w, h)
<1> DEFINE L == Distances(r, c)
           Good(cell) == \E k, w, h : Reaches(matrix, L, cell, k, w, h)
           bad == {n \in Nat : \E cell \in Cells : cell[1] + cell[2] = n /\ ~Good(cell)}
<1>1. L \in [Cells -> Nat]
  BY DistancesType
<1>2. \A cell \in Cells : matrix[cell] \in Nat
  BY CellsAtLeastFirst
<1>3. ASSUME NEW cell \in Cells, \A p \in CellsBefore(cell) : Good(p)
      PROVE  Good(cell)
  <2> DEFINE values == {matrix[p] : p \in CellsBefore(cell)}
  <2>1. L[cell] \in Nat
    BY <1>1
  <2>2. matrix[cell] = L[cell] + (IF CellsBefore(cell) = {} THEN 0 ELSE Min(values))
    BY DEF IsDtw, CellOf, Distances
  <2>3. CASE CellsBefore(cell) = {}
    <3>1. cell = <<1, 1>>
      BY <2>3, CellsFacts
    <3>2. matrix[cell] = L[cell] + 0
      BY <2>2, <2>3
    <3> DEFINE w == [i \in 1 .. 1 |-> cell]
    <3> HIDE DEF L
    <3>3. PICK h : Costs(h, w, 1, L)
      <4>1. w \in [1 .. 1 -> Cells]
        OBVIOUS
      <4> HIDE DEF w
      <4>. QED  BY <1>1, <4>1, CostsExist
    <3>4. h[0] = 0 /\ h[1] = h[0] + L[w[1]]
      <4>1. w \in [1 .. 1 -> Cells]
        OBVIOUS
      <4>2. 1 \in 1 .. 1 /\ 1 - 1 = 0
        OBVIOUS
      <4> HIDE DEF w
      <4>3. h[0] = 0 /\ \A i \in 1 .. 1 : h[i] = h[i - 1] + L[w[i]]
        <5>1. 1 \in Nat
          OBVIOUS
        <5>2. AddUp(h, w, 1, L)
          BY <1>1, <3>3, <4>1, <5>1, CostsUnfold, Zenon
        <5>. QED  BY <5>2 DEF AddUp
      <4>. QED  BY <4>2, <4>3
    <3>5. w[1] = cell
      OBVIOUS
    <3>6. h[1] = matrix[cell]
      BY <2>1, <3>2, <3>4, <3>5
    <3>7. Way(w, 1)
      BY <3>1 DEF Way
    <3>8. 1 \in 1 .. (cell[1] + cell[2]) - 1
      BY <3>1
    <3> HIDE DEF w
    <3>9. Reaches(matrix, L, cell, 1, w, h)
      BY <3>3, <3>5, <3>6, <3>7, <3>8, Zenon DEF Reaches
    <3>. QED  BY <3>9
  <2>4. CASE CellsBefore(cell) # {}
    <3>1. values \subseteq Nat /\ values # {}
      BY <1>2, <2>4, CellsFacts
    <3>2. Min(values) \in values
      <4> HIDE DEF values
      <4>. QED  BY <3>1, MinIsLeast
    <3>3. PICK p \in CellsBefore(cell) : Min(values) = matrix[p]
      BY <3>2
    <3>4. p \in Cells /\ p[1] + p[2] < cell[1] + cell[2] /\ Leads(p, cell)
      BY CellsFacts, LeadsIsBefore
    <3>5. matrix[cell] = matrix[p] + L[cell]
      <4>1. matrix[cell] = L[cell] + Min(values)
        BY <2>2, <2>4
      <4>2. matrix[p] \in Nat
        BY <1>2, <3>4
      <4> HIDE DEF L, values
      <4>. QED  BY <2>1, <3>3, <4>1, <4>2
    <3>6. PICK k, w, h : Reaches(matrix, L, p, k, w, h)
      BY <1>3
    <3> HIDE DEF L
    <3>7. \E g, v : Reaches(matrix, L, cell, k + 1, v, g)
      BY <1>1, <3>4, <3>5, <3>6, OneStepFurther
    <3>. QED  BY <3>7, Zenon
  <2>. QED  BY <2>3, <2>4
<1> HIDE DEF Good
<1>4. bad = {}
  <2> SUFFICES ASSUME bad # {} PROVE FALSE
    OBVIOUS
  <2>1. PICK n \in bad : \A m \in bad : n <= m
    <3>1. bad \subseteq Nat
      OBVIOUS
    <3> HIDE DEF bad
    <3>. QED  BY <3>1, LeastElement
  <2>2. PICK cell \in Cells : cell[1] + cell[2] = n /\ ~Good(cell)
    BY <2>1
  <2>3. ASSUME NEW p \in CellsBefore(cell)
        PROVE  Good(p)
    <3>1. p \in Cells /\ p[1] + p[2] < n
      BY <2>2, CellsFacts
    <3>2. p[1] + p[2] \in Nat /\ n \in Nat
      BY <2>1, <3>1, CellsFacts
    <3>3. p[1] + p[2] \notin bad
      BY <2>1, <3>1, <3>2
    <3>. QED  BY <3>1, <3>2, <3>3
  <2>. QED  BY <1>3, <2>2, <2>3
<1>5. \A cell \in Cells : Good(cell)
  BY <1>4, CellsFacts
<1>. QED  BY <1>5 DEF Good

(* The cost of a warping, by the property's definition, is the last sum.   *)
LEMMA WarpingCostIs ==
  ASSUME SkyOK, NEW sat \in Satellites, NEW k \in Nat, NEW w \in [1 .. k -> Cells], NEW h,
         Costs(h, w, k, Distances(ReferenceTrajectory, sky[sat]))
  PROVE  WarpingCost(sat, w) = h[k]
<1> DEFINE L == Distances(ReferenceTrajectory, sky[sat])
           D(i) == SampleDistance(HighestAt(w[i][1]), sky[sat][w[i][2]])
           g == CHOOSE g : g = [i \in 0 .. k |-> IF i = 0 THEN 0 ELSE g[i - 1] + D(i)]
<1>1. Len(w) = k
  OBVIOUS
<1>2. WarpingCost(sat, w) = g[k]
  BY <1>1, Zenon DEF WarpingCost
<1>3. ReferenceTrajectory \in Trajectories /\ sky[sat] \in Trajectories
  BY ReferenceIsTrajectory DEF SkyOK, Trajectories
<1>4. L \in [Cells -> Nat]
  BY <1>3, DistancesType
<1>5. ASSUME NEW i \in 1 .. k PROVE D(i) = L[w[i]]
  <2>1. w[i] \in Cells
    OBVIOUS
  <2>2. w[i][1] \in Samples /\ w[i][2] \in Samples
    BY <2>1, CellsFacts
  <2>3. ReferenceTrajectory[w[i][1]] \in Sample /\ sky[sat][w[i][2]] \in Sample
    BY <1>3, <2>2 DEF Trajectories
  <2>4. HighestAt(w[i][1]) = ReferenceTrajectory[w[i][1]]
    BY <2>2, ReferenceFollowsHighest
  <2>5. L[w[i]] = LocalCost(ReferenceTrajectory[w[i][1]], sky[sat][w[i][2]])
    BY <2>1 DEF Distances
  <2>6. D(i) = LocalCost(ReferenceTrajectory[w[i][1]], sky[sat][w[i][2]])
    BY <2>3, <2>4, DistanceIsCost
  <2>. QED  BY <2>5, <2>6, Zenon
<1> HIDE DEF L, D
<1>6. \A f : [i \in 0 .. k |-> IF i = 0 THEN 0 ELSE f[i - 1] + D(i)]
               = [i \in 0 .. k |-> IF i = 0 THEN 0 ELSE f[i - 1] + L[w[i]]]
  <2> SUFFICES ASSUME NEW f, NEW i \in 0 .. k
               PROVE  (IF i = 0 THEN 0 ELSE f[i - 1] + D(i)) = (IF i = 0 THEN 0 ELSE f[i - 1] + L[w[i]])
    OBVIOUS
  <2>1. i # 0 => i \in 1 .. k
    OBVIOUS
  <2>. QED  BY <1>5, <2>1, Zenon
<1>7. Costs(h, w, k, L)
  BY DEF L
<1>8. h = [i \in 0 .. k |-> IF i = 0 THEN 0 ELSE h[i - 1] + D(i)]
  BY <1>6, <1>7, Zenon DEF Costs
<1>9. g = [i \in 0 .. k |-> IF i = 0 THEN 0 ELSE g[i - 1] + D(i)]
  BY <1>8, Zenon
<1> HIDE DEF g
<1>10. Costs(g, w, k, L)
  BY <1>6, <1>9, Zenon DEF Costs
<1>11. g[k] = h[k]
  BY <1>4, <1>7, <1>10, CostsAreEqual
<1>. QED  BY <1>2, <1>11

(* The last pair of a warping.                                             *)
Corner == <<NumOfSamples, NumOfSamples>>

LEMMA WarpingsAre ==
  ASSUME NEW w
  PROVE  w \in Warpings <=> \E k \in 1 .. 2 * NumOfSamples - 1 : Way(w, k) /\ w[k] = Corner
<1> DEFINE m == 2 * NumOfSamples - 1
<1>1. ASSUME NEW k \in 1 .. m, w \in [1 .. k -> Cells]
      PROVE  Len(w) = k
  BY <1>1
<1>2. ASSUME w \in Warpings PROVE \E k \in 1 .. m : Way(w, k) /\ w[k] = Corner
  <2>1. /\ w \in UNION {[1 .. k -> Cells] : k \in 1 .. m}
        /\ w[1] = <<1, 1>> /\ w[Len(w)] = <<NumOfSamples, NumOfSamples>>
        /\ \A i \in 1 .. Len(w) - 1 : Leads(w[i], w[i + 1])
    BY <1>2, Zenon DEF Warpings
  <2> HIDE DEF m
  <2>2. PICK k \in 1 .. m : w \in [1 .. k -> Cells]
    BY <2>1
  <2>3. Len(w) = k
    BY <1>1, <2>2
  <2>4. Way(w, k) /\ w[k] = Corner
    BY <2>1, <2>2, <2>3, Zenon DEF Way, Corner
  <2>. QED  BY <2>4
<1>3. ASSUME NEW k \in 1 .. m, Way(w, k), w[k] = Corner PROVE w \in Warpings
  <2>1. w \in [1 .. k -> Cells]
    BY <1>3 DEF Way
  <2>2. Len(w) = k
    BY <1>1, <2>1
  <2>3. w \in UNION {[1 .. j -> Cells] : j \in 1 .. m}
    BY <2>1
  <2>. QED  BY <1>3, <2>2, <2>3, Zenon DEF Warpings, Way, Corner
<1>. QED  BY <1>2, <1>3

(* The last cell of the matrix is the least cost of any warping.           *)
LEMMA LeastWarpingIsDistance ==
  ASSUME SkyOK, NEW sat \in Satellites
  PROVE  LeastWarping(sat) = DtwDistance(ReferenceTrajectory, sky[sat])
<1> DEFINE r == ReferenceTrajectory
           c == sky[sat]
           L == Distances(r, c)
           d == DtwDistance(r, c)
           costs == {WarpingCost(sat, w) : w \in Warpings}
<1>1. r \in Trajectories /\ c \in Trajectories
  BY ReferenceIsTrajectory DEF SkyOK, Trajectories
<1>2. PICK matrix : IsDtw(r, c, matrix) /\ d = matrix[Corner]
  <2> HIDE DEF r, c
  <2>. QED  BY DtwUnfolds DEF Corner
<1>3. /\ Corner \in Cells /\ (Corner[1] + Corner[2]) - 1 = 2 * NumOfSamples - 1
      /\ 1 .. (Corner[1] + Corner[2]) - 1 \subseteq Nat
  BY StartIsSampled, CellsFacts DEF Corner, Cells
<1>4. L \in [Cells -> Nat]
  BY <1>1, DistancesType
<1>5. d \in Nat
  BY <1>1, DtwDistanceFacts
<1>6. ASSUME NEW k \in Nat, NEW w, Way(w, k), NEW h, Costs(h, w, k, L)
      PROVE  WarpingCost(sat, w) = h[k]
  <2>1. w \in [1 .. k -> Cells]
    BY <1>6 DEF Way
  <2>. QED  BY <1>6, <2>1, WarpingCostIs
<1>7. ASSUME NEW w \in Warpings PROVE WarpingCost(sat, w) \in Nat /\ d <= WarpingCost(sat, w)
  <2>1. PICK k \in 1 .. 2 * NumOfSamples - 1 : Way(w, k) /\ w[k] = Corner
    BY WarpingsAre
  <2>2. k \in Nat /\ k \in 1 .. k /\ k \in 0 .. k
    BY <1>3
  <2>3. w \in [1 .. k -> Cells]
    BY <2>1 DEF Way
  <2> HIDE DEF r, c, L, d
  <2>4. PICK h : Costs(h, w, k, L)
    BY <1>4, <2>2, <2>3, CostsExist
  <2>5. \A i \in 1 .. k : matrix[w[i]] <= h[i]
    <3>1. Costs(h, w, k, Distances(r, c))
      BY <2>4 DEF L
    <3>. QED  BY <1>1, <1>2, <2>1, <2>2, <3>1, NotBelowMatrix
  <2>6. h[k] \in Nat
    BY <1>4, <2>2, <2>3, <2>4, CostsUnfold DEF AddUp
  <2>7. WarpingCost(sat, w) = h[k]
    BY <1>6, <2>1, <2>2, <2>4
  <2>. QED  BY <1>2, <2>1, <2>2, <2>5, <2>6, <2>7
<1>8. d \in costs
  <2>1. PICK k, w, h : Reaches(matrix, L, Corner, k, w, h)
    BY <1>1, <1>2, <1>3, CellsAreReached
  <2> HIDE DEF r, c, L, d
  <2>2. /\ k \in 1 .. (Corner[1] + Corner[2]) - 1
        /\ Way(w, k) /\ Costs(h, w, k, L) /\ w[k] = Corner /\ h[k] = matrix[Corner]
    BY <2>1, Zenon DEF Reaches
  <2>3. k \in Nat /\ k \in 1 .. 2 * NumOfSamples - 1
    BY <1>3, <2>2
  <2>4. w \in Warpings
    BY <2>2, <2>3, WarpingsAre
  <2>5. WarpingCost(sat, w) = h[k]
    BY <1>6, <2>2, <2>3
  <2>. QED  BY <1>2, <2>2, <2>4, <2>5
<1>9. Min(costs) = d
  <2>1. costs \subseteq Nat /\ costs # {} /\ \A x \in costs : d <= x
    BY <1>7, <1>8
  <2> HIDE DEF costs, d
  <2>2. Min(costs) \in costs /\ Min(costs) <= d
    BY <1>8, <2>1, MinIsLeast
  <2>3. Min(costs) \in Nat /\ d <= Min(costs) /\ d \in Nat
    BY <1>5, <2>1, <2>2, Zenon
  <2> DEFINE m == Min(costs)
  <2> HIDE DEF m
  <2>4. m \in Nat /\ d <= m /\ d \in Nat /\ m <= d => m = d
    OBVIOUS
  <2>. QED  BY <2>2, <2>3, <2>4 DEF m
<1>. QED  BY <1>9, Zenon DEF LeastWarping

-----------------------------------------------------------------------------

(* The selection keeps the contract by which UserTerminalHandover uses it, *)
(* whatever the sky: a satellite that can carry traffic at once if there   *)
(* is one, one that is seen during the slot otherwise, and none only if    *)
(* none is.                                                                *)
THEOREM SelectionKeepsContract == Spec => []ContractKept
<1>1. IInv => ContractKept
  BY DEF IInv
<1>. QED  BY InitEstablishes, StepKeeps, <1>1, PTL DEF Spec

(* The loop has always found a candidate among the satellites considered   *)
(* so far unless there is none, of both kinds.                             *)
THEOREM LoopFindsCandidates == Spec => []CandidatesFound
<1>1. IInv => CandidatesFound
  BY DEF IInv
<1>. QED  BY InitEstablishes, StepKeeps, <1>1, PTL DEF Spec

(* The satellite that is returned has the least warping distance of those  *)
(* that could have been returned, of those in view at the start of the     *)
(* slot if there are any; and of two with the same distance the higher.    *)
LeastScoreSelected ==
  result \notin {Running, NoSatellite} =>
    LET rivals == IF ReachableAt(1) # {} THEN ReachableAt(1) ELSE {sat \in Satellites : Seen(sky[sat])}
        Score(sat) == DtwDistance(ReferenceTrajectory, sky[sat])
    IN  /\ result \in rivals
        /\ \A sat \in rivals :
             /\ Score(result) <= Score(sat)
             /\ sky[result][1].reachable /\ Score(result) = Score(sat)
                  => sky[sat][1].elevation <= sky[result][1].elevation

THEOREM LeastSelected == Spec => []LeastScoreSelected
<1>1. LInv => LeastScoreSelected
  <2> SUFFICES ASSUME LInv, result \notin {Running, NoSatellite}
               PROVE  LeastScoreSelected
    BY DEF LeastScoreSelected
  <2> DEFINE rivals == IF ReachableAt(1) # {} THEN ReachableAt(1) ELSE {sat \in Satellites : Seen(sky[sat])}
             Score(sat) == DtwDistance(ReferenceTrajectory, sky[sat])
  <2>1. /\ SkyOK /\ result \in Satellites /\ result \in rivals
        /\ \A sat \in rivals : ~Beats(Candidate(sat), Candidate(result))
    BY DEF LInv, IInv, LeastReturned
  <2>2. ASSUME NEW sat \in rivals
        PROVE  /\ Score(result) <= Score(sat)
               /\ sky[result][1].reachable /\ Score(result) = Score(sat)
                    => sky[sat][1].elevation <= sky[result][1].elevation
    <3>1. sat \in Satellites /\ (sky[result][1].reachable => sky[sat][1].reachable)
      BY <2>1, StartIsSampled DEF ReachableAt
    <3>2. /\ Candidate(sat).score \in Nat /\ Candidate(result).score \in Nat
          /\ Candidate(sat).elevation \in Int /\ Candidate(result).elevation \in Int
          /\ Candidate(result).satellite = result /\ result # NoSatellite
      BY <2>1, <3>1, CandidateType
    <3>3. /\ ~(Candidate(sat).score < Candidate(result).score)
          /\ ~(/\ Candidate(sat).score = Candidate(result).score
               /\ Candidate(sat).elevation > Candidate(result).elevation)
      BY <2>1, <3>2 DEF Beats
    <3>4. /\ Candidate(sat).score = Score(sat) /\ Candidate(result).score = Score(result)
          /\ sky[sat][1].reachable => Candidate(sat).elevation = sky[sat][1].elevation
          /\ sky[result][1].reachable => Candidate(result).elevation = sky[result][1].elevation
      BY DEF Candidate
    <3> HIDE DEF Score
    <3>5. Score(result) <= Score(sat)
      BY <3>2, <3>3, <3>4
    <3>6. ASSUME sky[result][1].reachable, Score(result) = Score(sat)
          PROVE  sky[sat][1].elevation <= sky[result][1].elevation
      <4>1. ~(Candidate(sat).elevation > Candidate(result).elevation)
        BY <3>3, <3>4, <3>6
      <4>. QED  BY <3>1, <3>2, <3>4, <3>6, <4>1
    <3>. QED  BY <3>5, <3>6
  <2>. QED  BY <2>1, <2>2 DEF LeastScoreSelected
<1>. QED  BY LeastInit, LeastStep, <1>1, PTL DEF Spec

(* The satellite that is taken is closest to the strongest path by the     *)
(* definition of warpings, without the code's matrix: of no other that     *)
(* could have been taken does a cheaper warping exist, and none of those   *)
(* that are as close is higher.                                            *)
THEOREM ClosestIsSelected == Spec => []ClosestSelected
<1>1. LInv => ClosestSelected
  <2> SUFFICES ASSUME LInv, result # Running, result # NoSatellite
               PROVE  ClosestSelected
    BY DEF ClosestSelected
  <2> DEFINE rivals == IF sky[result][1].reachable THEN ReachableAt(1)
                       ELSE {sat \in Satellites : Seen(sky[sat])}
             allowed == IF ReachableAt(1) # {} THEN ReachableAt(1)
                        ELSE {sat \in Satellites : Seen(sky[sat])}
  <2>1. /\ SkyOK /\ result \in Satellites /\ result \in allowed
        /\ \A sat \in allowed : ~Beats(Candidate(sat), Candidate(result))
    BY DEF LInv, IInv, LeastReturned
  <2>2. /\ rivals = allowed /\ rivals \subseteq Satellites
        /\ ~sky[result][1].reachable => ReachableAt(1) = {}
    BY <2>1 DEF ReachableAt
  <2> HIDE DEF rivals, allowed
  <2>3. ASSUME NEW sat \in rivals
        PROVE  \/ LeastWarping(result) < LeastWarping(sat)
               \/ /\ LeastWarping(result) = LeastWarping(sat)
                  /\ sky[sat][1].elevation <= sky[result][1].elevation
    <3>1. sat \in Satellites
      BY <2>2
    <3>2. /\ Candidate(sat).score \in Nat /\ Candidate(result).score \in Nat
          /\ Candidate(result).satellite = result /\ result # NoSatellite
      BY <2>1, <3>1, CandidateType
    <3>3. /\ ~(Candidate(sat).score < Candidate(result).score)
          /\ ~(/\ Candidate(sat).score = Candidate(result).score
               /\ Candidate(sat).elevation > Candidate(result).elevation)
      BY <2>1, <2>2, <3>2 DEF Beats
    <3>4. LeastWarping(sat) = Candidate(sat).score /\ LeastWarping(result) = Candidate(result).score
      BY <2>1, <3>1, LeastWarpingIsDistance DEF Candidate
    <3>5. ASSUME Candidate(sat).score = Candidate(result).score
          PROVE  sky[sat][1].elevation <= sky[result][1].elevation
      <4> DEFINE s == sky[sat][1]
                 t == sky[result][1]
      <4>1. s \in Sample /\ t \in Sample
        BY <2>1, <3>1, StartIsSampled DEF SkyOK
      <4>2. s.elevation \in Nat /\ t.elevation \in Nat
        <5>1. s.elevation \in 0 .. 90 /\ t.elevation \in 0 .. 90
          BY <4>1, SampleType
        <5> HIDE DEF s, t
        <5>. QED  BY <5>1
      <4>3. CASE t.reachable
        <5>1. s.reachable
          BY <4>3 DEF rivals, ReachableAt
        <5>2. Candidate(sat).elevation = s.elevation /\ Candidate(result).elevation = t.elevation
          BY <4>3, <5>1 DEF Candidate
        <5> HIDE DEF s, t
        <5>3. s.elevation <= t.elevation
          BY <3>3, <3>5, <4>2, <5>2
        <5>. QED  BY <5>3 DEF s, t
      <4>4. CASE ~t.reachable
        <5>1. ~s.reachable
          BY <2>2, <3>1, <4>4 DEF ReachableAt
        <5>2. \A x \in Sample : ~x.reachable => x = OutOfView
          BY DEF Sample
        <5>3. s = OutOfView /\ t = OutOfView
          BY <4>1, <4>4, <5>1, <5>2
        <5>. QED  BY <4>2, <5>3
      <4>. QED  BY <4>3, <4>4
    <3>. QED  BY <3>2, <3>3, <3>4, <3>5
  <2>. QED  BY <2>3 DEF ClosestSelected, rivals
<1>. QED  BY LeastInit, LeastStep, <1>1, PTL DEF Spec

(* If one satellite is the highest throughout the slot, the satellite that *)
(* is taken starts the slot where that one does. The distance of the one   *)
(* is zero, so that of the other is, and it is at least that of the first  *)
(* samples.                                                                *)
THEOREM HighestSelected == Spec => []HighestThroughoutSelected
<1>1. LInv => HighestThroughoutSelected
  <2> SUFFICES ASSUME LInv, NEW sat \in Satellites, result # Running,
                      sky[sat] = ReferenceTrajectory, sky[sat][1].reachable
               PROVE  sky[result][1] = sky[sat][1]
    BY DEF HighestThroughoutSelected
  <2>1. SkyOK /\ sat \in ReachableAt(1) /\ Seen(sky[sat])
    BY ReachableIsSeen DEF LInv, IInv, ReachableAt
  <2>2. result # NoSatellite
    BY <2>1 DEF LInv, IInv, ContractKept
  <2>3. result \in Satellites /\ ~Beats(Candidate(sat), Candidate(result))
    BY <2>1, <2>2 DEF LInv, LeastReturned
  <2>4. /\ sky[sat] \in Trajectories /\ sky[result] \in Trajectories
        /\ ReferenceTrajectory \in Trajectories
    BY <2>1, <2>3, ReferenceIsTrajectory DEF SkyOK, Trajectories
  <2>5. Candidate(sat).score = 0
    BY <2>4, DtwDistanceFacts DEF Candidate
  <2>6. Candidate(result).score \in Nat
    BY <2>1, <2>3, CandidateType
  <2>7. Candidate(result).score = 0
    BY <2>3, <2>5, <2>6 DEF Beats
  <2>8. DtwDistance(ReferenceTrajectory, sky[result]) = 0
    BY <2>7 DEF Candidate
  <2>9. ReferenceTrajectory[1].reachable
    OBVIOUS
  <2>. QED  BY <2>4, <2>8, <2>9, DtwDistanceFacts
<1>. QED  BY LeastInit, LeastStep, <1>1, PTL DEF Spec

=============================================================================
