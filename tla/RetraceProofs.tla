--------------------------- MODULE RetraceProofs ---------------------------
(***************************************************************************)
(* Theorems about Retrace and Simulation for every value of the constants: *)
(* any spacing, look-ahead, radius, stride, budget, field and number of    *)
(* losses.  The invariant comes first, with what it gives; then the        *)
(* look-ahead point and the scan, by induction along the path; last, that  *)
(* run_simulation runs down.                                               *)
(***************************************************************************)
EXTENDS Simulation, SequenceTheorems, WellFoundedInduction, TLAPS

USE TrailAssumption, RetraceAssumption, SimulationAssumption
    DEF TrailAssumption, RetraceAssumption, SimulationAssumption

-----------------------------------------------------------------------------
(* The inductive invariant.                                                *)

(* The trail starts at home, and is neither torn nor too long. *)
TrailInv ==
  /\ pose \in Place /\ heading \in Headings
  /\ total \in Nat
  /\ sinceCrumb \in 0 .. Spacing - 1
  /\ trail \in Seq(Place) /\ trail # <<>>
  /\ trail[1] = Home
  /\ TrailIsDense
  /\ TrailIsSparse

(* A path is a trail of two points or more that leads home. *)
PathInv ==
  /\ path \in Seq(Place) /\ Len(path) <= Len(trail)
  /\ idx \in 1 .. (IF path = <<>> THEN 1 ELSE Len(path))
  /\ path # <<>> => Len(path) >= 2 /\ path[Len(path)] = Home
  /\ state = "backtrack" \/ phase = "backtrack" => path # <<>>

(* The vehicle is off its estimate by the drive that the estimator missed, *)
(* and by twice the drive that it took to go a wrong way.                  *)
LagInv ==
  /\ hull \in Headings /\ lag \in Place
  /\ missed \in Nat /\ askew \in Nat
  /\ Dist(Still, lag) <= missed + 2 * askew

DriveInv ==
  /\ state \in {"manual", "backtrack", "arrived"}
  /\ losses \in 0 .. MaxLosses
  /\ command \in Twists

(* A vehicle that arrived stands where it arrived. *)
ArrivedInv ==
  state = "arrived" =>
    /\ command = Still
    /\ Dist(pose, Home) <= IF Len(trail) < 2 THEN Spacing - 1 ELSE Arrival

SimInv ==
  /\ phase \in {"off", "calibrating", "recording", "backtrack", "ended", "refused"}
  /\ phase # "off" => state = "manual"
  /\ phase \in {"calibrating", "recording"} => command = Still
  /\ phase = "backtrack" /\ command # Still => steps < MaxSteps /\ Abs(command[1]) = 1
  /\ zupt \in BOOLEAN
  /\ toGo \in 0 .. CalibSteps + StopSteps
  /\ steps \in 0 .. MaxSteps
  /\ nextStop \in Nat
  /\ completed \in BOOLEAN
  /\ SummaryIsTrue

(* A step that is still to be carried out does not reach past the mark. *)
MarkInv ==
  /\ HaltsKeepPace
  /\ phase = "backtrack" /\ zupt /\ StopInterval > 0 /\ command # Still =>
       total < nextStop

IInv ==
  /\ TrailInv /\ PathInv /\ LagInv /\ DriveInv /\ ArrivedInv /\ SimInv /\ MarkInv

-----------------------------------------------------------------------------
(* Distances on the grid.                                                  *)

LEMMA AbsFacts ==
  ASSUME NEW n \in Int, NEW k \in Int
  PROVE  /\ Abs(n) \in Nat /\ Abs(-n) = Abs(n) /\ Abs(n + k) <= Abs(n) + Abs(k)
         /\ Abs(n - k) = Abs(k - n)
         /\ (n < 0 => Abs(n) = 0 - n) /\ (n >= 0 => Abs(n) = n)
BY DEF Abs

LEMMA PlaceParts ==
  ASSUME NEW p \in Place
  PROVE  p[1] \in Int /\ p[2] \in Int /\ p = <<p[1], p[2]>>
BY DEF Place

LEMMA TwistParts ==
  ASSUME NEW m \in Twists
  PROVE  /\ m[1] \in Int /\ -Stride <= m[1] /\ m[1] <= Stride /\ Abs(m[1]) \in 0 .. Stride
         /\ m[2] \in {-1, 0, 1} /\ m = <<m[1], m[2]>>
         /\ Abs(m[1]) \in Nat
<1>1. /\ m[1] \in -Stride .. Stride /\ m[2] \in {-1, 0, 1} /\ m = <<m[1], m[2]>>
  BY DEF Twists
<1>2. m[1] \in Int /\ -Stride <= m[1] /\ m[1] <= Stride /\ Stride \in Nat
  BY <1>1
<1>3. Abs(m[1]) \in 0 .. Stride
  BY <1>2 DEF Abs
<1> QED
  BY <1>1, <1>2, <1>3

LEMMA StillIsTwist ==
  /\ Still \in Twists /\ Still \in Place /\ Still[1] = 0 /\ Still[2] = 0 /\ Abs(Still[1]) = 0
BY DEF Still, Twists, Place, Abs

(* Nothing can be heard of a twist that was none. *)
LEMMA StillHasNoParts == ASSUME NEW t \in Parts(Still) PROVE t = Still
<1>1. t \in Twists /\ Abs(t[1]) + Abs(0 - t[1]) = 0 /\ t[2] = 0
  BY StillIsTwist DEF Parts
<1>2. t[1] = 0
  BY <1>1, TwistParts DEF Abs
<1> QED
  BY <1>1, <1>2, TwistParts DEF Still

LEMMA HeadingParts ==
  ASSUME NEW h \in Headings
  PROVE  \/ h[1] = 1 /\ h[2] = 0
         \/ h[1] = -1 /\ h[2] = 0
         \/ h[1] = 0 /\ h[2] = 1
         \/ h[1] = 0 /\ h[2] = -1
BY DEF Headings

LEMMA TurnedIsHeading ==
  ASSUME NEW h \in Headings, NEW w \in {-1, 0, 1}
  PROVE  Turned(h, w) \in Headings
<1>1. CASE w = 0
  BY <1>1 DEF Turned
<1>2. CASE w = 1
  <2>1. Turned(h, w) = <<-h[2], h[1]>>
    <3>1. h[1] \in Int /\ h[2] \in Int
      BY HeadingParts
    <3> QED
      BY <1>2, <3>1 DEF Turned
  <2> QED
    BY <2>1, HeadingParts DEF Headings
<1>3. CASE w = -1
  <2>1. Turned(h, w) = <<h[2], -h[1]>>
    <3>1. h[1] \in Int /\ h[2] \in Int
      BY HeadingParts
    <3> QED
      BY <1>3, <3>1 DEF Turned
  <2> QED
    BY <2>1, HeadingParts DEF Headings
<1> QED
  BY <1>1, <1>2, <1>3

(* Driving v units along a heading. *)
LEMMA AdvancedIs ==
  ASSUME NEW p \in Place, NEW h \in Headings, NEW v \in Int
  PROVE  /\ Advanced(p, h, v) \in Place
         /\ h[1] = 1 /\ h[2] = 0 =>
              Advanced(p, h, v)[1] = p[1] + v /\ Advanced(p, h, v)[2] = p[2]
         /\ h[1] = -1 /\ h[2] = 0 =>
              Advanced(p, h, v)[1] = p[1] - v /\ Advanced(p, h, v)[2] = p[2]
         /\ h[1] = 0 /\ h[2] = 1 =>
              Advanced(p, h, v)[1] = p[1] /\ Advanced(p, h, v)[2] = p[2] + v
         /\ h[1] = 0 /\ h[2] = -1 =>
              Advanced(p, h, v)[1] = p[1] /\ Advanced(p, h, v)[2] = p[2] - v
<1>1. p[1] \in Int /\ p[2] \in Int
  BY PlaceParts
<1>2. /\ v * 0 = 0 /\ v * 1 = v /\ v * (-1) = -v
  OBVIOUS
<1>3. Advanced(p, h, v) = <<p[1] + v * h[1], p[2] + v * h[2]>>
  BY DEF Advanced
<1>4. v * h[1] \in Int /\ v * h[2] \in Int
  BY <1>2, HeadingParts
<1> QED
  BY <1>1, <1>2, <1>3, <1>4 DEF Place

(* A drive changes a distance by its length at most. *)
LEMMA DriveIsShort ==
  ASSUME NEW p \in Place, NEW q \in Place, NEW h \in Headings, NEW v \in Int
  PROVE  Dist(Advanced(p, h, v), q) <= Dist(p, q) + Abs(v)
<1>1. p[1] \in Int /\ p[2] \in Int /\ q[1] \in Int /\ q[2] \in Int
  BY PlaceParts
<1> DEFINE a == Advanced(p, h, v)
<1>2. \/ a[1] = p[1] + v /\ a[2] = p[2]
      \/ a[1] = p[1] - v /\ a[2] = p[2]
      \/ a[1] = p[1] /\ a[2] = p[2] + v
      \/ a[1] = p[1] /\ a[2] = p[2] - v
  BY AdvancedIs, HeadingParts
<1> HIDE DEF a
<1>3. Dist(a, q) <= Dist(p, q) + Abs(v)
  BY <1>1, <1>2 DEF Dist, Abs
<1> QED
  BY <1>3 DEF a

LEMMA DrivesAdd ==
  ASSUME NEW p \in Place, NEW h \in Headings, NEW v \in Int, NEW u \in Int
  PROVE  /\ Advanced(Advanced(p, h, v), h, u) = Advanced(p, h, v + u)
         /\ Advanced(p, h, 0) = p
<1>1. p[1] \in Int /\ p[2] \in Int /\ p = <<p[1], p[2]>>
  BY PlaceParts
<1>2. /\ Advanced(p, h, v) = <<p[1] + v * h[1], p[2] + v * h[2]>>
      /\ Advanced(p, h, v + u) = <<p[1] + (v + u) * h[1], p[2] + (v + u) * h[2]>>
      /\ Advanced(Advanced(p, h, v), h, u)
           = <<p[1] + v * h[1] + u * h[1], p[2] + v * h[2] + u * h[2]>>
      /\ Advanced(p, h, 0) = <<p[1] + 0 * h[1], p[2] + 0 * h[2]>>
  BY DEF Advanced
<1>3. ASSUME NEW x \in {-1, 0, 1}, NEW q \in Int
      PROVE  q + v * x + u * x = q + (v + u) * x /\ q + 0 * x = q
  <2>1. CASE x = 0
    BY <2>1
  <2>2. CASE x = 1
    BY <2>2
  <2>3. CASE x = -1
    BY <2>3
  <2> QED
    BY <2>1, <2>2, <2>3
<1>4. h[1] \in {-1, 0, 1} /\ h[2] \in {-1, 0, 1}
  BY HeadingParts
<1>5. /\ p[1] + v * h[1] + u * h[1] = p[1] + (v + u) * h[1] /\ p[1] + 0 * h[1] = p[1]
      /\ p[2] + v * h[2] + u * h[2] = p[2] + (v + u) * h[2] /\ p[2] + 0 * h[2] = p[2]
  BY <1>1, <1>3, <1>4
<1> QED
  BY <1>1, <1>2, <1>5

LEMMA MovedIsPlace ==
  ASSUME NEW p \in Place, NEW m \in Place
  PROVE  /\ Moved(p, m) \in Place
         /\ Moved(p, m)[1] = p[1] + m[1] /\ Moved(p, m)[2] = p[2] + m[2]
BY PlaceParts DEF Moved, Place

LEMMA DistIsNat ==
  ASSUME NEW p \in Place, NEW q \in Place
  PROVE  Dist(p, q) \in Nat /\ Dist(p, p) = 0 /\ Dist(p, q) = Dist(q, p)
BY PlaceParts DEF Dist, Abs

(* A move changes a distance by its length at most. *)
LEMMA Triangle ==
  ASSUME NEW p \in Place, NEW q \in Place, NEW m \in Place
  PROVE  Dist(Moved(p, m), q) <= Dist(p, q) + Dist(Still, m)
<1>1. /\ p[1] \in Int /\ p[2] \in Int /\ q[1] \in Int /\ q[2] \in Int
      /\ m[1] \in Int /\ m[2] \in Int
  BY PlaceParts
<1> QED
  BY <1>1, MovedIsPlace DEF Dist, Abs, Still

LEMMA ByAnyPoint ==
  ASSUME NEW p \in Place, NEW q \in Place, NEW r \in Place
  PROVE  Dist(p, r) <= Dist(p, q) + Dist(q, r)
<1>1. /\ p[1] \in Int /\ p[2] \in Int /\ q[1] \in Int /\ q[2] \in Int
      /\ r[1] \in Int /\ r[2] \in Int
  BY PlaceParts
<1> QED
  BY <1>1 DEF Dist, Abs

-----------------------------------------------------------------------------
(* DeadReckoning::update (estimator.cpp:53-66).                            *)

LEMMA OneMoreStretch ==
  ASSUME NEW n \in Nat, NEW k \in Nat, NEW d \in Nat, (n - 1) * k <= d
  PROVE  n * k <= d + k
BY SMT

LEMMA Appended ==
  ASSUME NEW s \in Seq(Place), s # <<>>, NEW p \in Place
  PROVE  /\ Append(s, p) \in Seq(Place) /\ Append(s, p) # <<>>
         /\ Len(Append(s, p)) = Len(s) + 1
         /\ Append(s, p)[Len(s) + 1] = p
         /\ \A i \in 1 .. Len(s) : Append(s, p)[i] = s[i]
         /\ Len(s) \in Nat /\ Len(s) >= 1
         /\ \A i \in 1 .. Len(s) : s[i] \in Place
<1>1. Len(s) \in Nat /\ Len(s) # 0
  BY EmptySeq, LenProperties
<1> QED
  BY <1>1, AppendProperties, ElementOfSeq

LEMMA UpdateKeeps ==
  ASSUME TrailInv, NEW t \in Twists, Update(t)
  PROVE  /\ TrailInv'
         /\ Len(trail') >= Len(trail)
         /\ heading' = Turned(heading, t[2])
         /\ pose' = Advanced(pose, heading', t[1])
         /\ total' = total + Abs(t[1])
         /\ t = Still => pose' = pose /\ trail' = trail
<1> DEFINE step == Abs(t[1])
<1>1. /\ t[1] \in Int /\ t[2] \in {-1, 0, 1} /\ step \in Nat /\ step <= Stride
      /\ t = Still => step = 0 /\ t[1] = 0
  BY TwistParts, StillIsTwist
<1>2. /\ pose \in Place /\ heading \in Headings /\ total \in Nat
      /\ sinceCrumb \in 0 .. Spacing - 1
  BY DEF TrailInv
<1>3. /\ heading' = Turned(heading, t[2]) /\ pose' = Advanced(pose, heading', t[1])
      /\ total' = total + step
  BY DEF Update
<1>4. pose' \in Place /\ heading' \in Headings /\ total' \in Nat
  <2>1. heading' \in Headings
    BY <1>1, <1>2, <1>3, TurnedIsHeading
  <2>2. \A h \in Headings : Advanced(pose, h, t[1]) \in Place
    BY <1>1, <1>2, AdvancedIs
  <2>3. total + step \in Nat
    <3> HIDE DEF step
    <3> QED
      BY <1>1, <1>2
  <2> QED
    BY <1>3, <2>1, <2>2, <2>3
<1>5. /\ trail \in Seq(Place) /\ trail # <<>> /\ trail[1] = Home
      /\ Len(trail) \in Nat /\ Len(trail) >= 1
      /\ \A i \in 1 .. Len(trail) : trail[i] \in Place
  BY <1>4, Appended DEF TrailInv
<1>6. Dist(pose', trail[Len(trail)]) <= sinceCrumb + step
  <2>1. Dist(pose', trail[Len(trail)]) <= Dist(pose, trail[Len(trail)]) + step
    BY <1>1, <1>2, <1>3, <1>4, <1>5, DriveIsShort
  <2>2. Dist(pose, trail[Len(trail)]) <= sinceCrumb
    BY DEF TrailInv, TrailIsDense
  <2>3. /\ Dist(pose', trail[Len(trail)]) \in Nat
        /\ Dist(pose, trail[Len(trail)]) \in Nat
    BY <1>2, <1>4, <1>5, DistIsNat
  <2> HIDE DEF step
  <2> QED
    BY <1>1, <1>2, <2>1, <2>2, <2>3
<1>7. t = Still => pose' = pose
  BY <1>1, <1>2, <1>3, <1>4, DrivesAdd
<1> HIDE DEF step
<1>8. CASE sinceCrumb + step < Spacing /\ sinceCrumb' = sinceCrumb + step /\ UNCHANGED trail
  <2>1. sinceCrumb' \in 0 .. Spacing - 1
    BY <1>1, <1>2, <1>8
  <2>2. TrailIsDense'
    BY <1>6, <1>8 DEF TrailInv, TrailIsDense
  <2>3. TrailIsSparse'
    BY <1>1, <1>2, <1>3, <1>8 DEF TrailInv, TrailIsSparse
  <2> QED
    BY <1>3, <1>4, <1>5, <1>7, <1>8, <2>1, <2>2, <2>3 DEF TrailInv, step
<1>9. CASE sinceCrumb + step >= Spacing /\ sinceCrumb' = 0 /\ trail' = Append(trail, pose')
  <2>1. t # Still /\ sinceCrumb + step <= Spacing - 1 + Stride
    BY <1>1, <1>2, <1>9
  <2>2. /\ trail' \in Seq(Place) /\ trail' # <<>> /\ Len(trail') = Len(trail) + 1
        /\ trail'[Len(trail) + 1] = pose'
        /\ \A i \in 1 .. Len(trail) : trail'[i] = trail[i]
    BY <1>4, <1>5, <1>9, Appended
  <2>3. TrailIsDense'
    <3>1. Dist(pose', trail'[Len(trail')]) <= sinceCrumb'
      BY <1>4, <1>5, <1>9, <2>2, DistIsNat
    <3>2. ASSUME NEW i \in 1 .. Len(trail') - 1
          PROVE  Dist(trail'[i], trail'[i + 1]) <= Spacing - 1 + Stride
      <4>1. CASE i = Len(trail)
        <5>1. trail'[i] = trail[Len(trail)] /\ trail'[i + 1] = pose'
          BY <1>5, <2>2, <4>1
        <5>2. /\ Dist(trail[Len(trail)], pose') = Dist(pose', trail[Len(trail)])
              /\ Dist(pose', trail[Len(trail)]) \in Nat
          BY <1>4, <1>5, DistIsNat
        <5> QED
          BY <1>1, <1>2, <1>6, <2>1, <5>1, <5>2
      <4>2. CASE i < Len(trail)
        <5>1. i \in 1 .. Len(trail) - 1 /\ i \in 1 .. Len(trail) /\ i + 1 \in 1 .. Len(trail)
          BY <1>5, <4>2
        <5>2. Dist(trail[i], trail[i + 1]) <= Spacing - 1 + Stride
          BY <5>1 DEF TrailInv, TrailIsDense
        <5> QED
          BY <2>2, <5>1, <5>2
      <4> QED
        BY <1>5, <2>2, <4>1, <4>2
    <3> QED
      BY <3>1, <3>2 DEF TrailIsDense
  <2>4. TrailIsSparse'
    <3>1. (Len(trail) - 1) * Spacing <= total - sinceCrumb
      BY DEF TrailInv, TrailIsSparse
    <3>2. total - sinceCrumb \in Nat
      BY <1>2, <1>5, <3>1
    <3>3. Len(trail) * Spacing <= total - sinceCrumb + Spacing
      BY <1>5, <3>1, <3>2, OneMoreStretch
    <3>4. total - sinceCrumb + Spacing <= total' - sinceCrumb'
      BY <1>1, <1>2, <1>3, <1>9 DEF step
    <3>5. Len(trail) * Spacing \in Int /\ total' - sinceCrumb' \in Int
      BY <1>4, <1>5, <1>9
    <3>6. Len(trail) * Spacing <= total' - sinceCrumb'
      BY <3>2, <3>3, <3>4, <3>5
    <3> QED
      BY <1>5, <2>2, <3>6 DEF TrailIsSparse
  <2>5. sinceCrumb' \in 0 .. Spacing - 1
    BY <1>9
  <2> QED
    BY <1>3, <1>4, <1>5, <2>1, <2>2, <2>3, <2>4, <2>5 DEF TrailInv, step
<1> QED
  BY <1>8, <1>9 DEF Update, step

-----------------------------------------------------------------------------
(* What a tick of either program does to the estimate.                     *)

LEMMA OffByMissed ==
  ASSUME LagInv, NEW p \in Place
  PROVE  Dist(Moved(p, lag), Home) <= Dist(p, Home) + missed + 2 * askew
<1>1. /\ Home \in Place /\ lag \in Place /\ missed \in Int /\ askew \in Int
      /\ Dist(Still, lag) <= missed + 2 * askew
  BY DEF LagInv, Home, Place
<1>2. Dist(Moved(p, lag), Home) <= Dist(p, Home) + Dist(Still, lag)
  BY <1>1, Triangle
<1>3. /\ Dist(Moved(p, lag), Home) \in Int /\ Dist(p, Home) \in Int
      /\ Dist(Still, lag) \in Int
  <2>1. Still \in Place /\ Moved(p, lag) \in Place
    BY <1>1, MovedIsPlace DEF Still, Place
  <2> QED
    BY <1>1, <2>1, DistIsNat
<1> QED
  BY <1>1, <1>2, <1>3

(* The hull goes v units along h, the estimate u units along k.            *)
LEMMA LagGrows ==
  ASSUME NEW l \in Place, NEW h \in Headings, NEW k \in Headings,
         NEW v \in Int, NEW u \in Int
  PROVE  /\ Advanced(Advanced(l, h, v), k, -u) \in Place
         /\ Dist(Still, Advanced(Advanced(l, h, v), k, -u))
              <= Dist(Still, l) + Abs(v - u) + (IF h = k THEN 0 ELSE 2 * Abs(u))
<1> DEFINE x == Advanced(l, h, v)
           y == Advanced(x, h, -u)
           z == Advanced(x, k, -u)
<1>1. x \in Place /\ y \in Place /\ z \in Place /\ -u \in Int /\ v - u \in Int
  BY AdvancedIs
<1>2. y = Advanced(l, h, v - u) /\ x = Advanced(y, h, u)
  <2>1. v + (-u) = v - u /\ (v - u) + u = v
    OBVIOUS
  <2> QED
    BY <1>1, <2>1, DrivesAdd
<1>3. Still \in Place
  BY StillIsTwist
<1>4. Dist(y, Still) <= Dist(l, Still) + Abs(v - u)
  BY <1>1, <1>2, <1>3, DriveIsShort
<1>5. Dist(x, Still) <= Dist(y, Still) + Abs(u)
  BY <1>1, <1>2, <1>3, DriveIsShort
<1>6. Dist(z, Still) <= Dist(x, Still) + Abs(-u)
  BY <1>1, <1>3, DriveIsShort
<1>7. /\ Abs(-u) = Abs(u) /\ Abs(u) \in Nat /\ Abs(v - u) \in Nat
  BY <1>1, AbsFacts
<1>8. /\ Dist(x, Still) \in Nat /\ Dist(y, Still) \in Nat /\ Dist(z, Still) \in Nat
      /\ Dist(l, Still) \in Nat
      /\ Dist(Still, z) = Dist(z, Still) /\ Dist(Still, l) = Dist(l, Still)
  BY <1>1, <1>3, DistIsNat
<1>9. h = k => z = y
  OBVIOUS
<1> HIDE DEF x, y, z
<1>10. Dist(Still, z) <= Dist(Still, l) + Abs(v - u) + (IF h = k THEN 0 ELSE 2 * Abs(u))
  <2>1. CASE h = k
    BY <1>4, <1>7, <1>8, <1>9, <2>1
  <2>2. CASE h # k
    BY <1>4, <1>5, <1>6, <1>7, <1>8, <2>2
  <2> QED
    BY <2>1, <2>2
<1> QED
  BY <1>1, <1>10 DEF x, z

(* What the estimator is told and what the tracks do may differ.           *)
LEMMA TravelsKeeps ==
  ASSUME TrailInv, LagInv, NEW t \in Twists, NEW m \in Twists, Travels(t, m)
  PROVE  /\ TrailInv' /\ LagInv'
         /\ Len(trail') >= Len(trail)
         /\ total' = total + Abs(t[1])
         /\ t = Still => pose' = pose /\ trail' = trail
<1>1. /\ TrailInv' /\ Len(trail') >= Len(trail) /\ total' = total + Abs(t[1])
      /\ t = Still => pose' = pose /\ trail' = trail
  BY UpdateKeeps DEF Travels
<1>2. /\ t[1] \in Int /\ m[1] \in Int /\ m[2] \in {-1, 0, 1} /\ m[1] - t[1] \in Int
  BY TwistParts
<1>3. heading' \in Headings /\ hull' \in Headings
  BY <1>1, <1>2, TurnedIsHeading DEF Travels, TrailInv, LagInv
<1>4. /\ lag \in Place /\ missed \in Nat /\ askew \in Nat
      /\ Dist(Still, lag) <= missed + 2 * askew
  BY DEF LagInv
<1>5. lag' = Advanced(Advanced(lag, hull', m[1]), heading', -t[1])
  BY DEF Travels
<1>6. /\ lag' \in Place
      /\ Dist(Still, lag') <= Dist(Still, lag) + Abs(m[1] - t[1])
                                + (IF hull' = heading' THEN 0 ELSE 2 * Abs(t[1]))
  <2>1. \A h \in Headings, k \in Headings :
          /\ Advanced(Advanced(lag, h, m[1]), k, -t[1]) \in Place
          /\ Dist(Still, Advanced(Advanced(lag, h, m[1]), k, -t[1]))
               <= Dist(Still, lag) + Abs(m[1] - t[1]) + (IF h = k THEN 0 ELSE 2 * Abs(t[1]))
    BY <1>2, <1>4, LagGrows
  <2> QED
    BY <1>3, <1>5, <2>1
<1>7. Abs(m[1] - t[1]) \in Nat /\ Abs(t[1]) \in Nat
  BY <1>2, AbsFacts
<1>8. Dist(Still, lag) \in Nat /\ Dist(Still, lag') \in Nat
  BY <1>4, <1>6, StillIsTwist, DistIsNat
<1>9. /\ missed' = missed + Abs(m[1] - t[1])
      /\ askew' = IF hull' = heading' THEN askew ELSE askew + Abs(t[1])
  BY DEF Travels
<1>10. missed' \in Nat /\ askew' \in Nat
  BY <1>4, <1>7, <1>9
<1>11. Dist(Still, lag') <= missed' + 2 * askew'
  <2>1. CASE hull' = heading'
    BY <1>4, <1>6, <1>7, <1>8, <1>9, <2>1
  <2>2. CASE hull' # heading'
    BY <1>4, <1>6, <1>7, <1>8, <1>9, <2>2
  <2> QED
    BY <2>1, <2>2
<1> QED
  BY <1>1, <1>3, <1>6, <1>10, <1>11 DEF LagInv

LEMMA SenseKeeps ==
  ASSUME TrailInv, LagInv, DriveInv, Sense
  PROVE  /\ TrailInv' /\ LagInv'
         /\ Len(trail') >= Len(trail)
         /\ command = Still => pose' = pose /\ trail' = trail
<1>1. PICK t \in Parts(command) : Travels(t, command)
  BY DEF Sense
<1>2. t \in Twists /\ command \in Twists
  BY DEF Parts, DriveInv
<1>3. command = Still => t = Still
  BY <1>1, StillHasNoParts
<1> QED
  BY <1>1, <1>2, <1>3, TravelsKeeps

LEMMA DriveKeeps ==
  ASSUME TrailInv, LagInv, NEW m \in Twists, Drive(m)
  PROVE  /\ TrailInv' /\ LagInv'
         /\ Len(trail') >= Len(trail)
         /\ total' = total + Abs(m[1])
<1>1. PICK r \in Parts(m), g \in {-1, 0, 1} : Travels(<<m[1], g>>, r)
  BY DEF Drive
<1>2. r \in Twists /\ <<m[1], g>> \in Twists /\ <<m[1], g>>[1] = m[1]
  BY TwistParts DEF Parts, Twists
<1> QED
  BY <1>1, <1>2, TravelsKeeps

LEMMA RestKeeps ==
  ASSUME TrailInv, LagInv, Rest
  PROVE  /\ TrailInv' /\ LagInv'
         /\ Len(trail') >= Len(trail)
         /\ zupt => total' = total
<1>0. total \in Nat
  BY DEF TrailInv
<1>1. CASE Drive(Still)
  BY <1>0, <1>1, StillIsTwist, DriveKeeps
<1>2. CASE Jitter
  <2>1. PICK v \in {-1, 1} : Travels(<<v, 0>>, Still)
    BY <1>2 DEF Jitter
  <2>2. <<v, 0>> \in Twists
    BY DEF Twists
  <2> QED
    BY <1>2, <2>1, <2>2, StillIsTwist, TravelsKeeps DEF Jitter
<1> QED
  BY <1>1, <1>2 DEF Rest

(* The controller's answer is a unit onwards, straight on if nothing else. *)
LEMMA PursuitIsTwist ==
  ASSUME NEW p, NEW h, NEW look, NEW m \in Pursuit(p, h, look)
  PROVE  m \in Twists /\ Abs(m[1]) = 1 /\ m # Still
<1>1. m[1] \in {-1, 1} /\ m[2] \in {-1, 0, 1} /\ m = <<m[1], m[2]>>
  BY DEF Pursuit, Turns
<1>2. m[1] \in -Stride .. Stride
  BY <1>1
<1>3. Abs(m[1]) = 1
  BY <1>1 DEF Abs
<1> QED
  BY <1>1, <1>2, <1>3, StillIsTwist DEF Twists

LEMMA StraightOn ==
  ASSUME NEW p, NEW h, NEW look
  PROVE  Pursuit(p, h, look) # {}
<1>1. 0 \in Turns(Leading(h), Bearing(p, look))
  BY DEF Turns
<1>2. <<IF Reverse THEN -1 ELSE 1, 0>> \in Pursuit(p, h, look)
  BY <1>1 DEF Pursuit
<1> QED
  BY <1>2

(* The reversed trail leads home (estimator.cpp:69-76 and its callers).    *)
LEMMA ReversedIsAsLong ==
  ASSUME NEW s \in Seq(Place)
  PROVE  Reversed(s) \in Seq(Place) /\ Len(Reversed(s)) = Len(s)
<1>1. Len(s) \in Nat
  BY LenProperties
<1>2. \A i \in 1 .. Len(s) : Len(s) + 1 - i \in 1 .. Len(s)
  BY <1>1
<1>3. \A i \in 1 .. Len(s) : s[Len(s) + 1 - i] \in Place
  BY <1>1, <1>2, ElementOfSeq
<1>4. Reversed(s) \in [1 .. Len(s) -> Place]
  BY <1>3 DEF Reversed
<1> QED
  BY <1>1, <1>4, SeqDef, LenProperties

LEMMA ReversedLeadsHome ==
  ASSUME NEW s \in Seq(Place), Len(s) >= 2, s[1] = Home
  PROVE  /\ Reversed(s) \in Seq(Place) /\ Len(Reversed(s)) = Len(s)
         /\ Reversed(s) # <<>>
         /\ Reversed(s)[Len(s)] = Home
<1>1. Len(s) \in Nat
  BY LenProperties
<1>2. Reversed(s)[Len(s)] = s[1]
  BY <1>1 DEF Reversed
<1> QED
  BY <1>1, <1>2, ReversedIsAsLong, EmptySeq

-----------------------------------------------------------------------------
(* An iteration of run_vehicle (run_vehicle.cpp:457-625).                  *)

LEMMA TickKeeps ==
  ASSUME IInv, phase = "off", Tick, UNCHANGED simVars
  PROVE  IInv'
<1>1. /\ TrailInv' /\ LagInv' /\ Len(trail') >= Len(trail)
      /\ command = Still => pose' = pose /\ trail' = trail
  BY SenseKeeps DEF IInv, Tick
<1>2. /\ Len(trail) \in Nat /\ Len(trail') \in Nat
      /\ trail' \in Seq(Place) /\ trail'[1] = Home
  BY <1>1, LenProperties DEF IInv, TrailInv
<1>3. SimInv' /\ MarkInv'
  <2>1. /\ phase' = "off" /\ zupt' = zupt /\ toGo' = toGo /\ steps' = steps
        /\ nextStop' = nextStop /\ completed' = completed
    BY DEF simVars
  <2>2. zupt' \in BOOLEAN /\ completed' \in BOOLEAN
    BY <2>1 DEF IInv, SimInv
  <2> QED
    BY <2>1, <2>2 DEF IInv, SimInv, MarkInv, SummaryIsTrue, HaltsKeepPace
<1>4. PathInv /\ DriveInv /\ ArrivedInv /\ phase' = "off"
  BY DEF IInv, simVars
<1>5. Still \in Twists
  BY StillIsTwist
<1>6. UNCHANGED controllerVars /\ state' # "backtrack" => PathInv'
  BY <1>1, <1>2, <1>4 DEF PathInv, controllerVars
<1>7. Unfollow /\ state' # "backtrack" => PathInv'
  <2>1. <<>> \in Seq(Place) /\ Len(<<>>) = 0
    BY EmptySeq
  <2> QED
    BY <1>2, <1>4, <2>1 DEF PathInv, Unfollow
<1>8. CASE Relay
  <2>1. state' = "manual" /\ command' \in Twists
    BY <1>5, <1>8 DEF Relay, Outings
  <2>2. PathInv'
    BY <1>6, <1>8, <2>1 DEF Relay
  <2>3. DriveInv' /\ ArrivedInv'
    BY <1>4, <1>8, <2>1 DEF Relay, DriveInv, ArrivedInv
  <2> QED
    BY <1>1, <1>3, <2>2, <2>3 DEF IInv
<1>9. CASE LoseLink
  <2>1. command' = Still /\ losses' \in 0 .. MaxLosses
    BY <1>4, <1>9 DEF LoseLink, DriveInv
  <2>2. CASE Follow(Reversed(trail')) /\ state' = "backtrack"
    <3>1. /\ Len(Reversed(trail')) >= 2 /\ path' = Reversed(trail') /\ idx' = 1
      BY <2>2 DEF Follow
    <3>2. Len(Reversed(trail')) = Len(trail')
      BY <1>2, ReversedIsAsLong
    <3>3. /\ path' \in Seq(Place) /\ Len(path') = Len(trail') /\ path' # <<>>
          /\ path'[Len(path')] = Home
      BY <1>2, <3>1, <3>2, ReversedLeadsHome
    <3>4. PathInv'
      BY <1>2, <3>1, <3>2, <3>3 DEF PathInv
    <3>5. DriveInv' /\ ArrivedInv'
      BY <1>5, <2>1, <2>2 DEF DriveInv, ArrivedInv
    <3> QED
      BY <1>1, <1>3, <3>4, <3>5 DEF IInv
  <2>3. CASE Len(trail') < 2 /\ state' = "arrived" /\ UNCHANGED controllerVars
    <3>1. PathInv'
      BY <1>6, <2>3
    <3>2. Dist(pose', Home) <= Spacing - 1
      <4>1. Len(trail') = 1 /\ pose' \in Place /\ sinceCrumb' \in 0 .. Spacing - 1
        <5>1. /\ trail' # <<>> /\ pose' \in Place /\ sinceCrumb' \in 0 .. Spacing - 1
          BY <1>1 DEF TrailInv
        <5>2. Len(trail') # 0
          BY <1>2, <5>1, EmptySeq
        <5>3. Len(trail') < 2
          BY <2>3
        <5>4. \A n \in Nat : n < 2 /\ n # 0 => n = 1
          OBVIOUS
        <5>5. Len(trail') = 1
          BY <1>2, <5>2, <5>3, <5>4
        <5> QED
          BY <5>1, <5>5
      <4>2. Dist(pose', trail'[1]) <= sinceCrumb'
        BY <1>1, <4>1 DEF TrailInv, TrailIsDense
      <4>3. Dist(pose', Home) \in Nat
        BY <4>1, DistIsNat DEF Home, Place
      <4> QED
        BY <1>2, <4>1, <4>2, <4>3
    <3>3. DriveInv' /\ ArrivedInv'
      BY <1>5, <2>1, <2>3, <3>2 DEF DriveInv, ArrivedInv
    <3> QED
      BY <1>1, <1>3, <3>1, <3>3 DEF IInv
  <2> QED
    BY <1>9, <2>2, <2>3 DEF LoseLink
<1>10. CASE Regain
  <2>1. state' = "manual" /\ command' = Still /\ PathInv'
    BY <1>7, <1>10 DEF Regain
  <2>2. DriveInv' /\ ArrivedInv'
    BY <1>4, <1>5, <1>10, <2>1 DEF Regain, DriveInv, ArrivedInv
  <2> QED
    BY <1>1, <1>3, <2>1, <2>2 DEF IInv
<1>11. CASE Hold
  <2>1. /\ state = "backtrack" /\ state' = "backtrack" /\ command' = Still
        /\ path' = path /\ idx' \in idx .. Len(path)
    BY <1>4, <1>11, LenProperties DEF Hold, controllerVars, AdvanceClosest, Scanned, PathInv
  <2>2. PathInv'
    BY <1>1, <1>2, <1>4, <2>1, LenProperties DEF PathInv
  <2>3. DriveInv' /\ ArrivedInv'
    BY <1>4, <1>5, <1>11, <2>1 DEF Hold, DriveInv, ArrivedInv
  <2> QED
    BY <1>1, <1>3, <2>2, <2>3 DEF IInv
<1>12. CASE Pursue
  <2>1. state = "backtrack" /\ losses' = losses
    BY <1>12 DEF Pursue
  <2>2. /\ path # <<>> /\ Len(path) >= 2 /\ path[Len(path)] = Home
        /\ Len(path) <= Len(trail)
    BY <1>4, <2>1 DEF PathInv
  <2>3. CASE Done(pose') /\ state' = "arrived" /\ Unfollow /\ command' = Still
    <3>1. Dist(pose', Home) <= Arrival
      BY <2>2, <2>3 DEF Done
    <3>2. Len(trail') >= 2
      BY <1>1, <1>2, <1>4, <2>2, LenProperties DEF PathInv
    <3>3. PathInv'
      BY <1>7, <2>3
    <3>4. DriveInv' /\ ArrivedInv'
      BY <1>2, <1>4, <1>5, <2>1, <2>3, <3>1, <3>2 DEF DriveInv, ArrivedInv
    <3> QED
      BY <1>1, <1>3, <3>3, <3>4 DEF IInv
  <2>4. CASE /\ AdvanceClosest(pose') /\ UNCHANGED state
             /\ command' \in Pursuit(pose', heading', path[Ahead(idx')])
    <3>1. path' = path /\ idx' \in idx .. Len(path)
      BY <2>4 DEF AdvanceClosest, Scanned
    <3>2. command' \in Twists
      BY <2>4, PursuitIsTwist
    <3>3. PathInv'
      BY <1>1, <1>2, <1>4, <2>1, <2>2, <2>4, <3>1, LenProperties DEF PathInv
    <3>4. DriveInv' /\ ArrivedInv'
      BY <1>4, <2>1, <2>4, <3>2 DEF DriveInv, ArrivedInv
    <3> QED
      BY <1>1, <1>3, <3>3, <3>4 DEF IInv
  <2> QED
    BY <1>12, <2>3, <2>4 DEF Pursue
<1>13. CASE Wait
  <2>1. /\ state = "arrived" /\ state' = "arrived" /\ command' = command
        /\ losses' = losses /\ UNCHANGED controllerVars
    BY <1>13 DEF Wait
  <2>2. PathInv'
    BY <1>6, <2>1
  <2>3. pose' = pose /\ trail' = trail
    BY <1>1, <1>4, <2>1 DEF ArrivedInv
  <2>4. DriveInv' /\ ArrivedInv'
    BY <1>4, <2>1, <2>3 DEF DriveInv, ArrivedInv
  <2> QED
    BY <1>1, <1>3, <2>2, <2>4 DEF IInv
<1> QED
  BY <1>8, <1>9, <1>10, <1>11, <1>12, <1>13 DEF Tick

-----------------------------------------------------------------------------
(* run_simulation (simulation.cpp:77-134).                                 *)

LEMMA InitIInv == SimInit => IInv
<1> SUFFICES ASSUME SimInit PROVE IInv
  OBVIOUS
<1>1. Home \in Place /\ Still \in Place
  BY DEF Home, Still, Place
<1>2. /\ pose = Home /\ total = 0 /\ sinceCrumb = 0 /\ trail = <<Home>>
      /\ path = <<>> /\ idx = 1 /\ state = "manual" /\ command = Still
      /\ lag = Still /\ missed = 0 /\ askew = 0 /\ losses = 0
      /\ heading = <<1, 0>> /\ hull = <<1, 0>>
  BY DEF SimInit, Init, TrailInit, Still
<1>3. trail \in Seq(Place) /\ Len(trail) = 1 /\ trail[1] = Home /\ trail # <<>>
  BY <1>1, <1>2
<1>4. TrailInv
  <2>1. Dist(pose, trail[Len(trail)]) = 0
    BY <1>1, <1>2, <1>3, DistIsNat
  <2>2. heading \in Headings
    BY <1>2 DEF Headings
  <2> QED
    BY <1>1, <1>2, <1>3, <2>1, <2>2 DEF TrailInv, TrailIsDense, TrailIsSparse
<1>5. PathInv
  <2>1. <<>> \in Seq(Place) /\ Len(<<>>) = 0
    BY EmptySeq
  <2> QED
    BY <1>2, <1>3, <2>1 DEF PathInv, SimInit
<1>6. LagInv
  <2>1. hull \in Headings /\ Dist(Still, lag) = 0
    BY <1>1, <1>2, DistIsNat DEF Headings
  <2> QED
    BY <1>1, <1>2, <2>1 DEF LagInv
<1>7. DriveInv /\ ArrivedInv
  BY <1>2, StillIsTwist DEF DriveInv, ArrivedInv
<1>8. SimInv /\ MarkInv
  <2>1. zupt \in BOOLEAN /\ completed \in BOOLEAN
    BY Zenon DEF SimInit
  <2> QED
    BY <1>2, <2>1 DEF SimInit, SimInv, MarkInv, SummaryIsTrue, HaltsKeepPace
<1> QED
  BY <1>4, <1>5, <1>6, <1>7, <1>8 DEF IInv

(* What the simulation's steps have in common: its state is "manual".      *)
LEMMA SimulateKeeps ==
  ASSUME IInv, Simulate
  PROVE  IInv'
<1>1. TrailInv /\ PathInv /\ LagInv /\ DriveInv /\ SimInv /\ MarkInv
  BY DEF IInv
<1>2. phase \in {"calibrating", "recording", "backtrack"}
  BY DEF Simulate, Calibrate, Outbound, TurnBack, Compute, Halt, Carry, End
<1>3. state = "manual" /\ state' = "manual" /\ losses' = losses
  BY <1>1, <1>2 DEF Simulate, SimInv
<1>4. ArrivedInv'
  BY <1>3 DEF ArrivedInv
<1>5. /\ zupt \in BOOLEAN /\ zupt' \in BOOLEAN
      /\ completed \in BOOLEAN /\ completed' \in BOOLEAN
  <2>1. zupt \in BOOLEAN /\ completed \in BOOLEAN
    BY <1>1 DEF SimInv
  <2>2. zupt' = zupt
    BY DEF Simulate, Calibrate, Outbound, TurnBack, Compute, Halt, Carry, End
  <2>3. completed' = completed \/ completed' \in {TRUE, FALSE}
    BY Zenon DEF Simulate, Calibrate, Outbound, TurnBack, Compute, Halt, Carry, End
  <2> QED
    BY <2>1, <2>2, <2>3, Zenon
<1>6. Still \in Twists
  BY StillIsTwist
<1>7. /\ Len(trail) \in Nat /\ trail \in Seq(Place) /\ trail[1] = Home
      /\ total \in Nat /\ pose \in Place
  BY <1>1, LenProperties DEF TrailInv
(* Only the estimate and the histories change: all but the phase's part.   *)
<1>8. ASSUME TrailInv', LagInv', Len(trail') >= Len(trail),
             UNCHANGED controllerVars, phase' = "backtrack" => phase = "backtrack",
             command' \in Twists, SimInv', MarkInv'
      PROVE  IInv'
  <2>1. Len(trail') \in Nat
    BY <1>8, LenProperties DEF TrailInv
  <2>2. PathInv'
    BY <1>1, <1>3, <1>7, <1>8, <2>1, LenProperties DEF PathInv, controllerVars
  <2>3. DriveInv'
    BY <1>1, <1>3, <1>8 DEF DriveInv
  <2> QED
    BY <1>4, <1>8, <2>2, <2>3 DEF IInv
<1>9. UNCHANGED <<groundVars, estimatorVars>> =>
        /\ TrailInv' /\ LagInv' /\ trail' = trail /\ total' = total /\ pose' = pose
        /\ lag' = lag /\ missed' = missed /\ askew' = askew
  BY <1>1 DEF TrailInv, LagInv, TrailIsDense, TrailIsSparse, estimatorVars, groundVars
<1>10. CASE Calibrate
  <2>1. phase = "calibrating" /\ phase' \in {"calibrating", "recording"}
        /\ command' = command /\ steps' = steps /\ nextStop' = nextStop /\ UNCHANGED controllerVars
    BY <1>10 DEF Calibrate
  <2>2. toGo' \in 0 .. CalibSteps + StopSteps
    BY <1>1, <1>10 DEF Calibrate, SimInv
  <2>3. TrailInv' /\ LagInv' /\ Len(trail') >= Len(trail)
    BY <1>1, <1>7, <1>9, <1>10, RestKeeps DEF Calibrate
  <2>4. SimInv' /\ MarkInv'
    BY <1>1, <1>3, <1>5, <2>1, <2>2
       DEF SimInv, MarkInv, SummaryIsTrue, HaltsKeepPace
  <2> QED
    BY <1>1, <1>8, <2>1, <2>3, <2>4 DEF DriveInv
<1>11. CASE Outbound
  <2>1. phase = "recording" /\ phase' = "recording" /\ command' = command /\ toGo' = toGo
        /\ steps' = steps /\ nextStop' = nextStop /\ UNCHANGED controllerVars
    BY <1>11 DEF Outbound
  <2>2. PICK m \in Outings(pose, heading) : Drive(m)
    BY <1>11 DEF Outbound
  <2>3. TrailInv' /\ LagInv' /\ Len(trail') >= Len(trail)
    BY <1>1, <2>2, DriveKeeps DEF Outings
  <2>4. SimInv' /\ MarkInv'
    BY <1>1, <1>3, <1>5, <2>1 DEF SimInv, MarkInv, SummaryIsTrue, HaltsKeepPace
  <2> QED
    BY <1>1, <1>8, <2>1, <2>3, <2>4 DEF DriveInv
<1>12. CASE TurnBack
  <2>1. /\ nextStop' = total + StopInterval /\ nextStop' \in Nat
        /\ total' = total /\ trail' = trail /\ TrailInv' /\ LagInv'
        /\ toGo' = toGo /\ steps' = steps /\ command' = command /\ zupt' = zupt
        /\ phase = "recording"
    BY <1>7, <1>9, <1>12 DEF TurnBack
  <2>2. CASE Follow(Reversed(trail)) /\ phase' = "backtrack"
    <3>1. Len(Reversed(trail)) >= 2 /\ path' = Reversed(trail) /\ idx' = 1
      BY <2>2 DEF Follow
    <3>2. PathInv'
      BY <1>3, <1>7, <2>1, <3>1, ReversedIsAsLong, ReversedLeadsHome DEF PathInv
    <3>3. SimInv' /\ MarkInv'
      BY <1>1, <1>3, <1>5, <1>7, <2>1, <2>2
         DEF SimInv, MarkInv, SummaryIsTrue, HaltsKeepPace
    <3> QED
      BY <1>1, <1>3, <1>4, <2>1, <3>2, <3>3 DEF IInv, DriveInv
  <2>3. CASE phase' = "refused" /\ UNCHANGED controllerVars
    <3>1. SimInv' /\ MarkInv'
      BY <1>1, <1>3, <1>5, <2>1, <2>3
         DEF SimInv, MarkInv, SummaryIsTrue, HaltsKeepPace
    <3> QED
      BY <1>1, <1>7, <1>8, <2>1, <2>3, <3>1 DEF DriveInv
  <2> QED
    BY <1>12, <2>2, <2>3 DEF TurnBack
<1>13. CASE Compute
  <2>1. /\ phase = "backtrack" /\ phase' = "backtrack" /\ zupt' = zupt
        /\ steps' = steps /\ total' = total /\ trail' = trail
        /\ TrailInv' /\ LagInv' /\ steps < MaxSteps
    BY <1>9, <1>13 DEF Compute
  <2>2. path' = path /\ idx' \in idx .. Len(path)
    BY <1>13 DEF Compute, AdvanceClosest, Scanned
  <2>3. PathInv'
    BY <1>1, <1>3, <1>7, <2>1, <2>2, LenProperties DEF PathInv
  <2>4. command' \in Twists /\ Abs(command'[1]) = 1
    BY <1>13, PursuitIsTwist DEF Compute
  <2>5. /\ nextStop \in Nat
        /\ zupt /\ StopInterval > 0 =>
             total <= nextStop /\ nextStop - StopInterval <= total
    BY <1>1, <2>1 DEF SimInv, MarkInv, HaltsKeepPace
  <2>6. CASE StopDue /\ toGo' = StopSteps /\ nextStop' = nextStop + StopInterval
    <3>1. nextStop' \in Nat /\ toGo' \in 0 .. CalibSteps + StopSteps
      BY <2>5, <2>6
    <3>2. MarkInv'
      BY <1>7, <2>1, <2>5, <2>6 DEF MarkInv, HaltsKeepPace, StopDue
    <3>3. SimInv'
      BY <1>1, <1>3, <1>5, <2>1, <2>4, <3>1 DEF SimInv, SummaryIsTrue
    <3> QED
      BY <1>1, <1>3, <1>4, <2>1, <2>3, <2>4, <3>2, <3>3 DEF IInv, DriveInv
  <2>7. CASE ~StopDue /\ UNCHANGED <<toGo, nextStop>>
    <3>1. MarkInv'
      BY <1>7, <2>1, <2>5, <2>7 DEF MarkInv, HaltsKeepPace, StopDue
    <3>2. SimInv'
      BY <1>1, <1>3, <1>5, <2>1, <2>4, <2>7 DEF SimInv, SummaryIsTrue
    <3> QED
      BY <1>1, <1>3, <1>4, <2>1, <2>3, <2>4, <3>1, <3>2 DEF IInv, DriveInv
  <2> QED
    BY <1>13, <2>6, <2>7 DEF Compute
<1>14. CASE Halt
  <2>1. /\ phase = "backtrack" /\ phase' = "backtrack" /\ zupt' = zupt
        /\ steps' = steps /\ nextStop' = nextStop /\ command' = command
        /\ UNCHANGED controllerVars
    BY <1>14 DEF Halt
  <2>2. /\ TrailInv' /\ LagInv' /\ Len(trail') >= Len(trail)
        /\ zupt => total' = total
    BY <1>1, <1>14, RestKeeps DEF Halt
  <2>3. toGo' \in 0 .. CalibSteps + StopSteps
    BY <1>1, <1>14 DEF Halt, SimInv
  <2>4. MarkInv'
    BY <1>1, <2>1, <2>2 DEF MarkInv, HaltsKeepPace
  <2>5. SimInv'
    BY <1>1, <1>3, <1>5, <2>1, <2>3 DEF SimInv, SummaryIsTrue
  <2> QED
    BY <1>1, <1>8, <2>1, <2>2, <2>4, <2>5 DEF DriveInv
<1>15. CASE Carry
  <2>1. /\ phase = "backtrack" /\ phase' = "backtrack" /\ zupt' = zupt
        /\ nextStop' = nextStop /\ toGo' = toGo /\ command # Still
        /\ command' = Still /\ UNCHANGED controllerVars
    BY <1>15 DEF Carry
  <2>2. /\ TrailInv' /\ LagInv' /\ Len(trail') >= Len(trail)
        /\ total' = total + 1
    BY <1>1, <1>15, DriveKeeps DEF Carry, DriveInv, SimInv
  <2>3. steps' \in 0 .. MaxSteps
    BY <1>1, <1>15, <2>1 DEF Carry, SimInv
  <2>4. MarkInv'
    BY <1>1, <1>7, <2>1, <2>2 DEF MarkInv, HaltsKeepPace, SimInv
  <2>5. SimInv'
    BY <1>1, <1>3, <1>5, <2>1, <2>3 DEF SimInv, SummaryIsTrue
  <2> QED
    BY <1>6, <1>8, <2>1, <2>2, <2>4, <2>5
<1>16. CASE End
  <2>1. /\ phase = "backtrack" /\ phase' = "ended" /\ toGo' = toGo /\ steps' = steps
        /\ nextStop' = nextStop /\ command' = command /\ missed' = missed
        /\ askew' = askew /\ lag' = lag /\ pose' = pose /\ TrailInv' /\ LagInv' /\ trail' = trail
        /\ UNCHANGED controllerVars
    BY <1>9, <1>16 DEF End
  <2>2. SummaryIsTrue'
    <3>1. CASE steps = MaxSteps /\ completed' = FALSE
      BY <2>1, <3>1 DEF SummaryIsTrue
    <3>2. CASE Done(pose)
      <4>1. Dist(pose, Home) <= Arrival
        BY <1>1, <2>1, <3>2 DEF Done, PathInv
      <4>2. Dist(Moved(pose, lag), Home) <= Dist(pose, Home) + missed + 2 * askew
        BY <1>1, <1>7, OffByMissed
      <4>3. /\ Dist(Moved(pose, lag), Home) \in Int /\ Dist(pose, Home) \in Int
            /\ missed \in Int /\ askew \in Int
        <5>1. Home \in Place /\ Moved(pose, lag) \in Place
          BY <1>1, <1>7, MovedIsPlace DEF LagInv, Home, Place
        <5> QED
          BY <1>1, <1>7, <5>1, DistIsNat DEF LagInv
      <4>4. completed' = TRUE \/ steps = MaxSteps
        BY <1>16, Zenon DEF End
      <4> QED
        BY <2>1, <4>1, <4>2, <4>3, <4>4 DEF SummaryIsTrue
    <3> QED
      BY <1>16, <3>1, <3>2 DEF End
  <2>3. SimInv' /\ MarkInv'
    BY <1>1, <1>3, <1>5, <2>1, <2>2 DEF SimInv, MarkInv, HaltsKeepPace
  <2> QED
    BY <1>1, <1>7, <1>8, <2>1, <2>3 DEF DriveInv
<1> QED
  BY <1>10, <1>11, <1>12, <1>13, <1>14, <1>15, <1>16 DEF Simulate

LEMMA StepKeeps == IInv /\ [Next]_allVars => IInv'
<1> SUFFICES ASSUME IInv, [Next]_allVars PROVE IInv'
  OBVIOUS
<1>1. CASE Drives
  BY <1>1, TickKeeps DEF Drives
<1>2. CASE Simulate
  BY <1>2, SimulateKeeps
<1>3. CASE UNCHANGED allVars
  <2>1. TrailInv' /\ PathInv' /\ LagInv'
    BY <1>3 DEF allVars, vars, trailVars, estimatorVars, groundVars, controllerVars, driveVars,
       simVars, IInv,
       TrailInv, PathInv, LagInv, TrailIsDense, TrailIsSparse
  <2>2. DriveInv' /\ ArrivedInv' /\ MarkInv'
    BY <1>3 DEF allVars, vars, trailVars, estimatorVars, groundVars, controllerVars, driveVars,
       simVars, IInv,
       DriveInv, ArrivedInv, MarkInv, HaltsKeepPace
  <2>3. SimInv'
    BY <1>3 DEF allVars, vars, trailVars, estimatorVars, groundVars, controllerVars, driveVars,
       simVars, IInv,
       SimInv, SummaryIsTrue
  <2> QED
    BY <2>1, <2>2, <2>3 DEF IInv
<1> QED
  BY <1>1, <1>2, <1>3 DEF Next, Over

-----------------------------------------------------------------------------
(* The theorems.                                                           *)

THEOREM Invariance == SimSpec => []IInv
<1>1. SimInit => IInv
  BY InitIInv
<1>2. IInv /\ [Next]_allVars => IInv'
  BY StepKeeps
<1> QED
  BY <1>1, <1>2, PTL DEF SimSpec

(* Every variable of the two programs has its type                         *)
(* (run_vehicle.cpp:345-382, simulation.cpp:25-33).                        *)
THEOREM TypeCorrect == SimSpec => []SimTypeOK
<1>1. IInv => SimTypeOK
  BY DEF IInv, TrailInv, PathInv, LagInv, DriveInv, SimInv, SimTypeOK, TypeOK, TrailTypeOK
<1> QED
  BY Invariance, <1>1, PTL

(* For all turns, slips and losses of the link, the trail that run_vehicle *)
(* follows home has no gap, and its length is bounded by the distance      *)
(* driven and not by time (DeadReckoning::update).                         *)
THEOREM TrailIsEvenlyLaid == SimSpec => []TrailIsEven
<1>1. IInv => TrailIsEven
  BY DEF IInv, TrailInv, TrailIsEven
<1> QED
  BY <1>1, Invariance, PTL

(* However far the vehicle was driven, wherever the trail crosses itself   *)
(* and however often the link was lost, a backtrack that arrives is at the *)
(* start of the recording, off by the arrival radius, what the estimator   *)
(* missed, and twice what it took to go a wrong way                        *)
(* (run_vehicle.cpp:524-587, controller.cpp:47-55).                        *)
THEOREM BacktrackArrivesHome == SimSpec => []ArrivesNearHome
<1>1. IInv => ArrivesNearHome
  <2> SUFFICES ASSUME IInv, state = "arrived" PROVE ArrivesNearHome
    BY DEF ArrivesNearHome
  <2>1. LagInv /\ pose \in Place /\ Home \in Place
    BY DEF IInv, TrailInv, Home, Place
  <2>2. Dist(pose, Home) <= IF Len(trail) < 2 THEN Spacing - 1 ELSE Arrival
    BY DEF IInv, ArrivedInv
  <2>3. Dist(Moved(pose, lag), Home) <= Dist(pose, Home) + missed + 2 * askew
    BY <2>1, OffByMissed
  <2>4. /\ Dist(Moved(pose, lag), Home) \in Int /\ Dist(pose, Home) \in Int
        /\ missed \in Int /\ askew \in Int
    <3>1. Moved(pose, lag) \in Place
      BY <2>1, MovedIsPlace DEF LagInv
    <3> QED
      BY <2>1, <3>1, DistIsNat DEF LagInv
  <2> QED
    BY <2>2, <2>3, <2>4 DEF ArrivesNearHome
<1> QED
  BY Invariance, <1>1, PTL

(* What run_simulation reports of the end is so, for every budget          *)
(* (simulation.cpp:114-116, 177).                                          *)
THEOREM ReportIsTrue == SimSpec => []SummaryIsTrue
<1>1. IInv => SummaryIsTrue
  BY DEF IInv, SimInv
<1> QED
  BY Invariance, <1>1, PTL

(* With ZUPT, for every interval and every length of a halt, no mark is    *)
(* passed without a halt and none is halted at twice                       *)
(* (simulation.cpp:121-129).                                               *)
THEOREM HaltsAreOnTheMark == SimSpec => []HaltsKeepPace
<1>1. IInv => HaltsKeepPace
  BY DEF IInv, MarkInv
<1> QED
  BY Invariance, <1>1, PTL

-----------------------------------------------------------------------------
(* Induction, as a fact about a set of numbers.                            *)

(* The order of the numbers, as a relation. *)
Below == {ss \in Nat \X Nat : ss[1] < ss[2]}

(* No sequence of numbers descends for ever. *)
LEMMA BelowIsWellFounded == IsWellFoundedOn(Below, Nat)
BY NatLessThanWellFounded DEF OpToRel, Below

(* Some numbers have a least one, which is what Min chooses. *)
LEMMA Least ==
  ASSUME NEW S \in SUBSET Nat, S # {}
  PROVE  Min(S) \in S /\ \A m \in S : Min(S) <= m
<1>1. PICK n \in S : \A y \in S : ~(<<y, n>> \in Below)
  BY BelowIsWellFounded, WFMin
<1>2. ASSUME NEW m \in S
      PROVE  n <= m
  <2>1. m \in Nat /\ n \in Nat
    OBVIOUS
  <2>2. m < n => <<m, n>> \in Below
    BY <2>1 DEF Below
  <2> QED
    BY <1>1, <2>1, <2>2
<1>3. \E x \in S : \A y \in S : x <= y
  BY <1>2
<1> QED
  BY <1>3 DEF Min

(* What holds of 0, and of n + 1 where of n, holds of every number. *)
LEMMA SetInduction ==
  ASSUME NEW S, 0 \in S, \A n \in Nat : n \in S => n + 1 \in S
  PROVE  Nat \subseteq S
<1> SUFFICES ASSUME Nat \ S # {} PROVE FALSE
  OBVIOUS
<1> DEFINE n == Min(Nat \ S)
<1>1. n \in Nat \ S /\ \A m \in Nat \ S : n <= m
  BY Least
<1> HIDE DEF n
<1>2. n \in Nat /\ n # 0
  BY <1>1
<1>3. n - 1 \in Nat /\ ~(n <= n - 1)
  BY <1>2
<1>4. n - 1 \in S
  BY <1>1, <1>3
<1>5. (n - 1) + 1 \in S /\ (n - 1) + 1 = n
  BY <1>2, <1>3, <1>4
<1> QED
  BY <1>1, <1>5

-----------------------------------------------------------------------------
(* The look-ahead point (controller.cpp:31-42).                            *)

(* The way from point i of the path on, by the point. *)
IsWay(f, i, j) ==
  f = [k \in i .. j |-> IF k = i THEN 0 ELSE f[k - 1] + Dist(path[k - 1], path[k])]

(* There is such a way to every point. *)
LEMMA WayExists ==
  ASSUME NEW i \in Nat
  PROVE  \A n \in Nat : \E f : IsWay(f, i, i + n)
<1> DEFINE S == {n \in Nat : \E f : IsWay(f, i, i + n)}
<1>1. 0 \in S
  <2> DEFINE f == [k \in i .. i + 0 |-> 0]
  <2>1. \A k \in i .. i + 0 : k = i
    OBVIOUS
  <2>2. IsWay(f, i, i + 0)
    BY <2>1 DEF IsWay
  <2> QED
    BY <2>2
<1>2. ASSUME NEW n \in Nat, n \in S
      PROVE  n + 1 \in S
  <2>1. PICK f : IsWay(f, i, i + n)
    BY <1>2
  <2> DEFINE g == [k \in i .. i + (n + 1) |->
                     IF k \in i .. i + n THEN f[k]
                     ELSE f[i + n] + Dist(path[k - 1], path[k])]
  <2>2. ASSUME NEW k \in i .. i + (n + 1)
        PROVE  g[k] = IF k = i THEN 0 ELSE g[k - 1] + Dist(path[k - 1], path[k])
    <3>1. CASE k = i
      <4>1. i \in i .. i + n
        OBVIOUS
      <4>2. f[i] = 0
        BY <2>1, <4>1 DEF IsWay
      <4> QED
        BY <3>1, <4>1, <4>2
    <3>2. CASE k \in i .. i + n /\ k # i
      <4>1. k - 1 \in i .. i + n /\ k - 1 \in i .. i + (n + 1)
        BY <3>2
      <4>2. f[k] = f[k - 1] + Dist(path[k - 1], path[k])
        BY <2>1, <3>2 DEF IsWay
      <4> QED
        BY <3>2, <4>1, <4>2
    <3>3. CASE ~(k \in i .. i + n)
      <4>1. k - 1 = i + n /\ k - 1 \in i .. i + n /\ k - 1 \in i .. i + (n + 1) /\ k # i
        BY <3>3
      <4>2. g[k - 1] = f[i + n]
        BY <4>1
      <4> QED
        BY <3>3, <4>1, <4>2
    <3> QED
      BY <3>1, <3>2, <3>3
  <2>3. IsWay(g, i, i + (n + 1))
    BY <2>2, Zenon DEF IsWay
  <2> QED
    BY <2>3
<1> HIDE DEF S
<1>3. Nat \subseteq S
  BY <1>1, <1>2, SetInduction
<1> QED
  BY <1>3 DEF S

(* The way that Along adds up is such a way. *)
LEMMA AlongIsWay ==
  ASSUME NEW i \in Nat, NEW j \in Nat, i <= j
  PROVE  \E f : IsWay(f, i, j) /\ Along(i, j) = f[j]
<1> DEFINE f == CHOOSE g : IsWay(g, i, j)
<1>1. j - i \in Nat /\ i + (j - i) = j
  OBVIOUS
<1>2. \E g : IsWay(g, i, j)
  BY <1>1, WayExists
<1>3. IsWay(f, i, j)
  BY <1>2
<1>4. Along(i, j) = f[j]
  BY Zenon DEF Along, IsWay
<1> QED
  BY <1>3, <1>4

(* The same way from a later start is no longer. *)
LEMMA LaterIsShorter ==
  ASSUME path \in Seq(Place), NEW i \in 1 .. Len(path), NEW h \in i .. Len(path),
         NEW j \in h .. Len(path)
  PROVE  Along(i, j) \in Nat /\ Along(h, j) \in Nat /\ Along(h, j) <= Along(i, j)
<1> DEFINE D(k) == Dist(path[k - 1], path[k])
<1>1. Len(path) \in Nat
  BY LenProperties
<1>2. /\ i \in Nat /\ j \in Nat /\ h \in Nat /\ 1 <= i /\ i <= h /\ h <= j /\ i <= j
      /\ j <= Len(path)
  BY <1>1
<1>3. ASSUME NEW k \in i + 1 .. j
      PROVE  D(k) \in Nat
  <2>1. k \in 1 .. Len(path) /\ k - 1 \in 1 .. Len(path)
    BY <1>1, <1>2
  <2>2. path[k - 1] \in Place /\ path[k] \in Place
    BY <2>1, ElementOfSeq
  <2> QED
    BY <2>2, DistIsNat
<1>4. PICK f : IsWay(f, i, j) /\ Along(i, j) = f[j]
  BY <1>2, AlongIsWay
<1>5. PICK g : IsWay(g, h, j) /\ Along(h, j) = g[j]
  BY <1>2, AlongIsWay
<1>6. \A k \in i .. j : f[k] = IF k = i THEN 0 ELSE f[k - 1] + D(k)
  BY <1>4 DEF IsWay
<1>7. \A k \in h .. j : g[k] = IF k = h THEN 0 ELSE g[k - 1] + D(k)
  BY <1>5 DEF IsWay
<1> HIDE DEF D
<1>8. \A k \in i .. j : f[k] \in Nat
  <2> DEFINE S == {n \in Nat : i + n <= j => f[i + n] \in Nat}
  <2>1. 0 \in S
    BY <1>2, <1>6
  <2>2. ASSUME NEW n \in Nat, n \in S
        PROVE  n + 1 \in S
    <3> SUFFICES ASSUME i + (n + 1) <= j PROVE f[i + (n + 1)] \in Nat
      OBVIOUS
    <3>1. /\ i + (n + 1) \in i .. j /\ i + (n + 1) \in i + 1 .. j /\ i + (n + 1) # i
          /\ i + (n + 1) - 1 = i + n /\ i + n <= j
      BY <1>2
    <3>2. f[i + (n + 1)] = f[i + n] + D(i + (n + 1))
      BY <1>6, <3>1
    <3> QED
      BY <1>3, <2>2, <3>1, <3>2
  <2> HIDE DEF S
  <2>3. Nat \subseteq S
    BY <2>1, <2>2, SetInduction
  <2>4. ASSUME NEW k \in i .. j
        PROVE  f[k] \in Nat
    <3>1. k - i \in Nat /\ i + (k - i) = k /\ k <= j
      BY <1>2
    <3> QED
      BY <2>3, <3>1 DEF S
  <2> QED
    BY <2>4
<1>9. \A k \in h .. j : g[k] \in Nat /\ g[k] <= f[k]
  <2> DEFINE S == {n \in Nat : h + n <= j => g[h + n] \in Nat /\ g[h + n] <= f[h + n]}
  <2>1. 0 \in S
    <3>1. h \in h .. j /\ h \in i .. j /\ h + 0 = h
      BY <1>2
    <3>2. g[h] = 0 /\ f[h] \in Nat
      BY <1>7, <1>8, <3>1
    <3> QED
      BY <3>1, <3>2
  <2>2. ASSUME NEW n \in Nat, n \in S
        PROVE  n + 1 \in S
    <3> SUFFICES ASSUME h + (n + 1) <= j
                 PROVE  g[h + (n + 1)] \in Nat /\ g[h + (n + 1)] <= f[h + (n + 1)]
      OBVIOUS
    <3> DEFINE k == h + (n + 1)
    <3>1. /\ k \in h .. j /\ k \in i .. j /\ k \in i + 1 .. j /\ k # h /\ k # i
          /\ k - 1 = h + n /\ h + n <= j /\ h + n \in i .. j
      BY <1>2
    <3> HIDE DEF k
    <3>2. g[k] = g[h + n] + D(k) /\ f[k] = f[h + n] + D(k)
      BY <1>6, <1>7, <3>1
    <3>3. g[h + n] \in Nat /\ g[h + n] <= f[h + n] /\ f[h + n] \in Nat /\ D(k) \in Nat
      BY <1>3, <1>8, <2>2, <3>1
    <3>4. g[k] \in Nat /\ g[k] <= f[k]
      BY <3>2, <3>3
    <3> QED
      BY <3>4 DEF k
  <2> HIDE DEF S
  <2>3. Nat \subseteq S
    BY <2>1, <2>2, SetInduction
  <2>4. ASSUME NEW k \in h .. j
        PROVE  g[k] \in Nat /\ g[k] <= f[k]
    <3>1. k - h \in Nat /\ h + (k - h) = k /\ k <= j
      BY <1>2
    <3> QED
      BY <2>3, <3>1 DEF S
  <2> QED
    BY <2>4
<1>10. j \in i .. j /\ j \in h .. j
  BY <1>2
<1> QED
  BY <1>4, <1>5, <1>8, <1>9, <1>10

(* lookahead_point finds a point of the path, and from a later point no    *)
(* earlier one.                                                            *)
LEMMA AheadMonotone ==
  ASSUME path \in Seq(Place), NEW i \in 1 .. Len(path), NEW h \in i .. Len(path)
  PROVE  Ahead(i) \in i .. Len(path) /\ Ahead(h) \in h .. Len(path) /\ Ahead(i) <= Ahead(h)
<1> DEFINE n == Len(path)
           A(k) == {j \in k + 1 .. n : Along(k, j) >= Lookahead} \cup {n}
<1>1. n \in Nat /\ i \in Nat /\ h \in Nat /\ 1 <= i /\ i <= h /\ h <= n
  BY LenProperties
<1>2. Ahead(i) = Min(A(i)) /\ Ahead(h) = Min(A(h))
  BY DEF Ahead
<1>3. A(h) \subseteq A(i)
  <2> SUFFICES ASSUME NEW j \in h + 1 .. n, Along(h, j) >= Lookahead
               PROVE  j \in i + 1 .. n /\ Along(i, j) >= Lookahead
    OBVIOUS
  <2>1. j \in i + 1 .. n /\ j \in h .. n
    BY <1>1
  <2>2. Along(i, j) \in Nat /\ Along(h, j) \in Nat /\ Along(h, j) <= Along(i, j)
    BY <2>1, LaterIsShorter
  <2> QED
    BY <2>1, <2>2
<1>4. A(i) \in SUBSET Nat /\ A(h) \in SUBSET Nat /\ n \in A(i) /\ n \in A(h)
      /\ A(i) \subseteq i .. n /\ A(h) \subseteq h .. n
  BY <1>1
<1> HIDE DEF A
<1>5. /\ Min(A(i)) \in A(i) /\ \A m \in A(i) : Min(A(i)) <= m
      /\ Min(A(h)) \in A(h)
  BY <1>4, Least
<1> QED
  BY <1>2, <1>3, <1>4, <1>5

(* There is a path exactly while a backtrack follows it, and after the     *)
(* simulation has ended.                                                   *)
FollowInv == path # <<>> => state = "backtrack" \/ phase \in {"backtrack", "ended"}

(* Only compute moves the index, and only forward; a new path is followed  *)
(* only where there is none.                                               *)
LEMMA IndexKeeps ==
  ASSUME IInv, FollowInv, [Next]_allVars
  PROVE  FollowInv' /\ (path # <<>> /\ path' = path => idx' \in idx .. Len(path))
<1>1. /\ path \in Seq(Place) /\ Len(path) \in Nat
      /\ path # <<>> => idx \in idx .. Len(path)
  BY LenProperties DEF IInv, PathInv
<1>2. CASE UNCHANGED <<path, idx, state, phase>>
  BY <1>1, <1>2 DEF FollowInv
<1>3. CASE Drives
  <2>1. phase = "off" /\ phase' = "off"
    BY <1>3 DEF Drives, simVars
  <2>2. CASE Relay \/ LoseLink
    <3>1. path = <<>>
      BY <2>1, <2>2 DEF Relay, LoseLink, FollowInv
    <3>2. path' = path \/ state' = "backtrack"
      BY <2>2 DEF Relay, LoseLink, controllerVars
    <3> QED
      BY <3>1, <3>2 DEF FollowInv
  <2>3. CASE Regain
    BY <2>3 DEF Regain, Unfollow, FollowInv
  <2>4. CASE Hold
    <3>1. UNCHANGED <<path, idx>> \/ AdvanceClosest(pose')
      BY <2>4 DEF Hold, controllerVars
    <3>2. state' = state /\ phase' = phase
      BY <2>1, <2>4 DEF Hold
    <3>3. AdvanceClosest(pose') => path' = path /\ idx' \in idx .. Len(path)
      BY DEF AdvanceClosest, Scanned
    <3> QED
      BY <1>1, <1>2, <3>1, <3>2, <3>3 DEF FollowInv
  <2>6. CASE Wait
    BY <1>2, <2>1, <2>6 DEF Wait, controllerVars
  <2>5. CASE Pursue
    <3>1. Unfollow \/ (AdvanceClosest(pose') /\ state' = state)
      BY <2>5 DEF Pursue
    <3>2. AdvanceClosest(pose') => path' = path /\ idx' \in idx .. Len(path)
      BY DEF AdvanceClosest, Scanned
    <3> QED
      BY <2>1, <2>5, <3>1, <3>2 DEF Pursue, Unfollow, FollowInv
  <2> QED
    BY <1>3, <2>2, <2>3, <2>4, <2>5, <2>6 DEF Drives, Tick
<1>4. CASE Simulate
  <2>1. state' = state
    BY <1>4 DEF Simulate
  <2>2. CASE Calibrate \/ Outbound
    <3>1. path = <<>> /\ path' = path
      BY <2>2 DEF Calibrate, Outbound, controllerVars, FollowInv, IInv, SimInv
    <3> QED
      BY <3>1 DEF FollowInv
  <2>3. CASE TurnBack
    <3>1. path = <<>> /\ (path' = path \/ phase' = "backtrack")
      BY <2>3 DEF TurnBack, controllerVars, FollowInv, IInv, SimInv
    <3> QED
      BY <3>1 DEF FollowInv
  <2>4. CASE Compute
    <3>1. phase' = "backtrack" /\ path' = path /\ idx' \in idx .. Len(path)
      BY <2>4 DEF Compute, AdvanceClosest, Scanned
    <3> QED
      BY <3>1 DEF FollowInv
  <2>5. CASE Halt \/ Carry \/ End
    <3>1. phase' \in {"backtrack", "ended"} /\ path' = path /\ idx' = idx
      BY <2>5 DEF Halt, Carry, End, controllerVars
    <3> QED
      BY <1>1, <3>1 DEF FollowInv
  <2> QED
    BY <1>4, <2>2, <2>3, <2>4, <2>5 DEF Simulate
<1>5. CASE UNCHANGED allVars
  BY <1>2, <1>5 DEF allVars, vars, trailVars, controllerVars, driveVars, simVars
<1> QED
  BY <1>3, <1>4, <1>5 DEF Next, Over

(* Within a backtrack of either program the look-ahead point never goes    *)
(* back along the path (controller.cpp:19-42), on every path and for every *)
(* look-ahead, also where the path crosses itself and whatever the         *)
(* estimator makes of the pose.                                            *)
THEOREM AimGoesForward == SimSpec => AimNeverRegresses
<1>1. ASSUME IInv, FollowInv, [Next]_allVars
      PROVE  [path # <<>> /\ path' = path => Ahead(idx)' >= Ahead(idx)]_vars
  <2> SUFFICES ASSUME path # <<>>, path' = path
               PROVE  Ahead(idx)' >= Ahead(idx)
    OBVIOUS
  <2>1. path \in Seq(Place) /\ idx \in 1 .. Len(path) /\ idx' \in idx .. Len(path)
    BY <1>1, IndexKeeps DEF IInv, PathInv
  <2>2. Ahead(idx)' = Ahead(idx')
    BY DEF Ahead, Along
  <2>3. /\ Ahead(idx) \in idx .. Len(path) /\ Ahead(idx') \in idx' .. Len(path)
        /\ Ahead(idx) <= Ahead(idx')
    BY <2>1, AheadMonotone
  <2>4. Ahead(idx) \in Int /\ Ahead(idx') \in Int
    BY <2>3
  <2> QED
    BY <2>2, <2>3, <2>4
<1>2. IInv /\ FollowInv /\ [Next]_allVars => FollowInv'
  BY IndexKeeps
<1>3. SimInit => FollowInv
  BY DEF SimInit, Init, TrailInit, FollowInv
<1>4. IInv /\ FollowInv /\ [Next]_allVars =>
        [path # <<>> /\ path' = path => Ahead(idx)' >= Ahead(idx)]_vars
  BY <1>1
<1> QED
  BY <1>2, <1>3, <1>4, Invariance, PTL DEF SimSpec, AimNeverRegresses

-----------------------------------------------------------------------------
(* compute() has an answer (controller.cpp:19-84).                         *)

(* The point that the index moves to. *)
Closest(p, i) ==
  /\ i \in Scanned(p)
  /\ \A k \in Scanned(p) :
       /\ Dist(p, path[i]) <= Dist(p, path[k])
       /\ Dist(p, path[i]) = Dist(p, path[k]) => i <= k

(* While it follows a path, compute finds a closest point and a look-ahead *)
(* point on it, not before where it is, and a step towards it.             *)
ComputeAnswers ==
  path # <<>> =>
    \E i \in idx .. Len(path) :
      /\ Closest(pose, i)
      /\ Ahead(i) \in i .. Len(path)
      /\ Pursuit(pose, heading, path[Ahead(i)]) # {}

LEMMA ClosestExists ==
  ASSUME path \in Seq(Place), NEW p \in Place, idx \in 1 .. Len(path)
  PROVE  \E i \in idx .. Len(path) : Closest(p, i)
<1> DEFINE S == Scanned(p)
           d(k) == Dist(p, path[k])
           R == {d(k) : k \in S}
           C == {k \in S : d(k) = Min(R)}
<1>1. Len(path) \in Nat /\ idx \in Nat /\ S \subseteq idx .. Len(path)
  BY LenProperties DEF Scanned
<1>2. S \subseteq Nat /\ \A k \in S : k \in 1 .. Len(path)
  BY <1>1
<1>3. \A k \in S : d(k) \in Nat
  BY <1>2, ElementOfSeq, DistIsNat
<1>4. idx \in S
  <2>1. idx .. idx - 1 = {}
    BY <1>1
  <2> QED
    BY <1>1, <2>1 DEF Scanned
<1> HIDE DEF S, d
<1>5. R \in SUBSET Nat /\ R # {}
  BY <1>3, <1>4
<1>6. Min(R) \in R /\ \A m \in R : Min(R) <= m
  BY <1>5, Least
<1> HIDE DEF R
<1>7. C \in SUBSET Nat /\ C # {}
  BY <1>2, <1>6 DEF R
<1>8. Min(C) \in C /\ \A m \in C : Min(C) <= m
  BY <1>7, Least
<1>9. \A k \in S : d(Min(C)) <= d(k) /\ (d(Min(C)) = d(k) => Min(C) <= k)
  <2>1. Min(C) \in S /\ d(Min(C)) = Min(R)
    BY <1>8
  <2>2. \A k \in S : d(k) \in R
    BY DEF R
  <2>3. \A k \in S : d(k) = Min(R) => k \in C
    OBVIOUS
  <2> QED
    BY <1>6, <1>8, <2>1, <2>2, <2>3
<1>10. Closest(p, Min(C))
  BY <1>8, <1>9 DEF Closest, S, d
<1> QED
  BY <1>1, <1>8, <1>10

(* Wherever the estimator takes the vehicle to be, compute has an answer:  *)
(* it reads no point beyond its path and never stands without a command.   *)
THEOREM ComputeAlwaysAnswers == SimSpec => []ComputeAnswers
<1>1. ASSUME IInv, path # <<>>
      PROVE  \E i \in idx .. Len(path) :
               /\ Closest(pose, i)
               /\ Ahead(i) \in i .. Len(path)
               /\ Pursuit(pose, heading, path[Ahead(i)]) # {}
  <2>1. path \in Seq(Place) /\ idx \in 1 .. Len(path) /\ Len(path) \in Nat /\ pose \in Place
    BY <1>1, LenProperties DEF IInv, PathInv, TrailInv
  <2>2. PICK i \in idx .. Len(path) : Closest(pose, i)
    BY <2>1, ClosestExists
  <2>3. i \in 1 .. Len(path) /\ i \in i .. Len(path)
    BY <2>1
  <2>4. Ahead(i) \in i .. Len(path)
    BY <2>1, <2>3, AheadMonotone
  <2>5. Pursuit(pose, heading, path[Ahead(i)]) # {}
    BY StraightOn
  <2> QED
    BY <2>2, <2>4, <2>5
<1>2. IInv => ComputeAnswers
  BY <1>1 DEF ComputeAnswers
<1> QED
  BY <1>2, Invariance, PTL

(* The way along the path is no shorter than the straight line.            *)
LEMMA AlongIsLonger ==
  ASSUME path \in Seq(Place), NEW i \in 1 .. Len(path), NEW j \in i .. Len(path)
  PROVE  Dist(path[i], path[j]) <= Along(i, j)
<1>1. /\ Len(path) \in Nat /\ i \in Nat /\ j \in Nat /\ 1 <= i /\ i <= j /\ j <= Len(path)
      /\ path[i] \in Place
  BY LenProperties, ElementOfSeq
<1>2. PICK f : IsWay(f, i, j) /\ Along(i, j) = f[j]
  BY <1>1, AlongIsWay
<1>3. \A k \in i .. j : f[k] = IF k = i THEN 0 ELSE f[k - 1] + Dist(path[k - 1], path[k])
  BY <1>2 DEF IsWay
<1> DEFINE d(n) == Dist(path[i], path[i + n])
           S == {n \in Nat : i + n <= j => f[i + n] \in Nat /\ d(n) <= f[i + n]}
<1>4. 0 \in S
  <2>1. d(0) = 0 /\ f[i + 0] = 0
    BY <1>1, <1>3, DistIsNat
  <2> QED
    BY <2>1
<1>5. ASSUME NEW n \in Nat, n \in S
      PROVE  n + 1 \in S
  <2> SUFFICES ASSUME i + (n + 1) <= j
               PROVE  f[i + (n + 1)] \in Nat /\ d(n + 1) <= f[i + (n + 1)]
    OBVIOUS
  <2>1. /\ i + n \in 1 .. Len(path) /\ i + (n + 1) \in 1 .. Len(path)
        /\ i + (n + 1) \in i .. j /\ (i + (n + 1)) - 1 = i + n /\ i + (n + 1) # i /\ i + n <= j
    BY <1>1
  <2>2. path[i + n] \in Place /\ path[i + (n + 1)] \in Place
    BY <2>1, ElementOfSeq
  <2> DEFINE e == Dist(path[i + n], path[i + (n + 1)])
  <2>3. f[i + (n + 1)] = f[i + n] + e
    BY <1>3, <2>1
  <2>4. d(n + 1) <= d(n) + e
    BY <1>1, <2>2, ByAnyPoint
  <2>5. d(n) \in Nat /\ d(n + 1) \in Nat /\ e \in Nat
    BY <1>1, <2>2, DistIsNat
  <2>6. f[i + n] \in Nat /\ d(n) <= f[i + n]
    BY <1>5, <2>1
  <2>7. \A x, y, z, t \in Nat : y <= x + z /\ x <= t => y <= t + z
    OBVIOUS
  <2> HIDE DEF d, e
  <2> QED
    BY <2>3, <2>4, <2>5, <2>6, <2>7
<1> HIDE DEF S
<1>6. Nat \subseteq S
  BY <1>4, <1>5, SetInduction
<1>7. PICK n \in Nat : i + n = j
  <2>1. j - i \in Nat /\ i + (j - i) = j
    BY <1>1
  <2> QED
    BY <2>1
<1>8. d(n) <= f[i + n]
  <2>1. n \in S /\ i + n <= j
    BY <1>1, <1>6, <1>7
  <2> QED
    BY <2>1 DEF S
<1> QED
  BY <1>2, <1>7, <1>8

(* Up to the look-ahead point every point is short of the look-ahead.      *)
LEMMA ScanReaches ==
  ASSUME path \in Seq(Place), idx \in 1 .. Len(path), NEW p \in Place
  PROVE  Ahead(idx) \in Scanned(p)
<1>1. /\ Len(path) \in Nat /\ idx \in Nat /\ idx \in idx .. Len(path)
      /\ 1 <= idx /\ idx <= Len(path)
  BY LenProperties
<1> DEFINE A == {j \in idx + 1 .. Len(path) : Along(idx, j) >= Lookahead} \cup {Len(path)}
           a == Ahead(idx)
<1>2. a \in idx .. Len(path)
  BY <1>1, AheadMonotone
<1>3. \A j \in A : a <= j
  <2>1. A \in SUBSET Nat /\ A # {} /\ a = Min(A)
    BY <1>1 DEF Ahead
  <2> HIDE DEF A, a
  <2> QED
    BY <2>1, Least
<1> HIDE DEF a
<1>4. ASSUME NEW k \in idx .. a - 1, NEW c \in idx .. k
      PROVE  Dist(p, path[k]) <= Dist(p, path[c]) + 2 * Lookahead
  <2>1. /\ k \in 1 .. Len(path) /\ c \in 1 .. Len(path) /\ k \in c .. Len(path)
        /\ k \in idx .. Len(path) /\ c \in idx .. Len(path) /\ k < a
        /\ k \in Int /\ a \in Int /\ k # Len(path)
    BY <1>1, <1>2
  <2>2. path[k] \in Place /\ path[c] \in Place
    BY <2>1, ElementOfSeq
  <2>3. /\ Dist(path[c], path[k]) <= Along(c, k) /\ Along(c, k) <= Along(idx, k)
        /\ Along(c, k) \in Nat /\ Along(idx, k) \in Nat
    BY <2>1, AlongIsLonger, LaterIsShorter
  <2>4. Along(idx, k) < Lookahead
    <3>1. CASE k = idx
      <4>1. PICK f : IsWay(f, idx, idx) /\ Along(idx, idx) = f[idx]
        BY <1>1, AlongIsWay
      <4>2. f[idx] = 0
        BY <1>1, <4>1 DEF IsWay
      <4> QED
        BY <3>1, <4>1, <4>2
    <3>2. CASE k # idx
      <4>1. k \in idx + 1 .. Len(path) /\ ~(a <= k)
        BY <1>1, <1>2, <2>1, <3>2
      <4>2. ~(Along(idx, k) >= Lookahead)
        BY <1>3, <4>1
      <4> QED
        BY <2>3, <4>2
    <3> QED
      BY <3>1, <3>2
  <2>5. Dist(p, path[k]) <= Dist(p, path[c]) + Dist(path[c], path[k])
    BY <2>2, ByAnyPoint
  <2>6. /\ Dist(p, path[k]) \in Nat /\ Dist(p, path[c]) \in Nat
        /\ Dist(path[c], path[k]) \in Nat
    BY <2>2, DistIsNat
  <2>7. \A x, y, z, l, m \in Nat : x <= y + z /\ z <= l /\ l <= m /\ m < Lookahead
                                    => x <= y + 2 * Lookahead
    OBVIOUS
  <2> QED
    BY <2>3, <2>4, <2>5, <2>6, <2>7
<1> QED
  BY <1>2, <1>4 DEF Scanned, a

(* On every path and for every look-ahead the scan reaches the look-ahead  *)
(* point (controller.cpp:19-42).                                           *)
THEOREM ScanIsLongEnough == SimSpec => []ScanReachesAim
<1>1. ASSUME IInv, path # <<>>, NEW p \in {f[1] : f \in Field} \cup {pose}
      PROVE  /\ Ahead(idx) \in Scanned(p)
             /\ \E i \in Scanned(p) : Dist(p, path[i]) <= Dist(p, path[Ahead(idx)])
  <2>1. p \in Place
    BY <1>1 DEF IInv, TrailInv
  <2>2. path \in Seq(Place) /\ idx \in 1 .. Len(path)
    BY <1>1 DEF IInv, PathInv
  <2>3. Ahead(idx) \in Scanned(p)
    BY <2>1, <2>2, ScanReaches
  <2>4. PICK i \in idx .. Len(path) : Closest(p, i)
    BY <2>1, <2>2, ClosestExists
  <2> QED
    BY <2>3, <2>4 DEF Closest
<1>2. IInv => ScanReachesAim
  BY <1>1 DEF ScanReachesAim
<1> QED
  BY <1>2, Invariance, PTL

-----------------------------------------------------------------------------
(* run_simulation runs down (simulation.cpp:77-134).                       *)

(* A backtrack takes at most so many steps of the program. *)
Budget == (MaxSteps + 1) * (StopSteps + 2)

(* What is left to do, at most. *)
Remaining ==
  CASE phase = "calibrating" -> Budget + MaxOut + toGo + 2
    [] phase = "recording" -> Budget + 1 + (IF total < MaxOut THEN MaxOut - total ELSE 0)
    [] phase = "backtrack" -> 1 + (MaxSteps - steps) * (StopSteps + 2)
                                + (IF command = Still THEN StopSteps + 1 ELSE toGo)
    [] OTHER -> 0

(* A halt is for a command that was computed. *)
HaltInv ==
  /\ phase = "recording" => toGo = 0
  /\ phase = "backtrack" => toGo <= StopSteps /\ (command = Still => toGo = 0)

LEMMA HaltKeeps ==
  ASSUME IInv, HaltInv, [Next]_allVars
  PROVE  HaltInv'
<1>1. toGo \in Nat
  BY DEF IInv, SimInv
<1>2. CASE Drives
  BY <1>2 DEF Drives, simVars, HaltInv
<1>3. CASE Calibrate \/ Outbound \/ TurnBack
  <2>1. phase' \in {"calibrating", "recording", "backtrack", "refused"}
        /\ phase' \in {"recording", "backtrack"} => toGo' = 0
    BY <1>3 DEF Calibrate, Outbound, TurnBack, HaltInv
  <2> QED
    BY <2>1 DEF HaltInv
<1>4. CASE Compute
  <2>1. phase' = "backtrack" /\ toGo' \in {0, StopSteps}
    BY <1>1, <1>4 DEF Compute, HaltInv
  <2>2. command' # Still
    BY <1>4, PursuitIsTwist DEF Compute
  <2> QED
    BY <2>1, <2>2 DEF HaltInv
<1>5. CASE Halt \/ Carry \/ End
  BY <1>1, <1>5 DEF Halt, Carry, End, HaltInv
<1>6. CASE UNCHANGED allVars
  BY <1>6 DEF allVars, vars, driveVars, simVars, HaltInv
<1> QED
  BY <1>2, <1>3, <1>4, <1>5, <1>6 DEF Next, Over, Simulate

(* The product of the steps left with what each takes. *)
LEMMA StepsLeft ==
  ASSUME NEW n \in 0 .. MaxSteps
  PROVE  /\ (MaxSteps - n) * (StopSteps + 2) \in Nat
         /\ (MaxSteps - n) * (StopSteps + 2) + (StopSteps + 2) <= Budget
         /\ n < MaxSteps => (MaxSteps - n) * (StopSteps + 2)
                              = (MaxSteps - (n + 1)) * (StopSteps + 2) + (StopSteps + 2)
<1> DEFINE q == StopSteps + 2
<1>1. q \in Nat /\ MaxSteps \in Nat /\ n \in Nat /\ n <= MaxSteps
  OBVIOUS
<1>2. Budget = (MaxSteps + 1) * q
  BY DEF Budget
<1> HIDE DEF q
<1>3. (MaxSteps - n) * q \in Nat /\ n * q \in Nat
  BY <1>1
<1>4. (MaxSteps + 1) * q = (MaxSteps - n) * q + n * q + q
  BY <1>1
<1>5. (MaxSteps - n) * q + q <= Budget
  BY <1>1, <1>2, <1>3, <1>4
<1>6. (MaxSteps - n) * q = (MaxSteps - (n + 1)) * q + q
  BY <1>1
<1> QED
  BY <1>3, <1>5, <1>6 DEF q

(* Every step of run_simulation leaves less to do: whatever the route, the *)
(* slips, the trail and the halts, it takes no more steps than Remaining   *)
(* said at the start. That it takes them is SimulationEnds.                *)
THEOREM SimulationRunsDown ==
  SimSpec => [][Simulate => Remaining \in Nat /\ Remaining' \in Nat /\ Remaining' < Remaining]_allVars
<1>1. ASSUME IInv, IInv', HaltInv, HaltInv', Simulate
      PROVE  Remaining \in Nat /\ Remaining' \in Nat /\ Remaining' < Remaining
  <2>1. /\ toGo \in Nat /\ toGo' \in Nat /\ total \in Nat /\ total' \in Nat
        /\ steps \in 0 .. MaxSteps /\ steps' \in 0 .. MaxSteps
        /\ zupt \in BOOLEAN
    BY <1>1 DEF IInv, SimInv, TrailInv
  <2> DEFINE left(n) == (MaxSteps - n) * (StopSteps + 2)
  <2>2. /\ left(steps) \in Nat /\ left(steps) + (StopSteps + 2) <= Budget
        /\ left(steps') \in Nat /\ Budget \in Nat
        /\ steps < MaxSteps => left(steps) = left(steps + 1) + (StopSteps + 2)
    <3>1. Budget \in Nat
      BY DEF Budget
    <3> QED
      BY <2>1, <3>1, StepsLeft
  <2> DEFINE out(t) == IF t < MaxOut THEN MaxOut - t ELSE 0
  <2>3. /\ phase = "calibrating" => Remaining = Budget + MaxOut + toGo + 2
        /\ phase = "recording" => Remaining = Budget + 1 + out(total)
        /\ phase = "backtrack" => Remaining = 1 + left(steps)
                                    + (IF command = Still THEN StopSteps + 1 ELSE toGo)
    BY DEF Remaining
  <2>4. /\ phase' = "calibrating" => Remaining' = Budget + MaxOut + toGo' + 2
        /\ phase' = "recording" => Remaining' = Budget + 1 + out(total')
        /\ phase' = "backtrack" => Remaining' = 1 + left(steps')
                                    + (IF command' = Still THEN StopSteps + 1 ELSE toGo')
        /\ phase' \in {"ended", "refused"} => Remaining' = 0
    BY DEF Remaining, Budget
  <2>5. /\ out(total) \in Nat /\ out(total) <= MaxOut
        /\ out(total') \in Nat /\ out(total') <= MaxOut
        /\ total < MaxOut /\ total < total' => out(total') < out(total)
    <3>1. \A t, u \in Nat :
            out(t) \in Nat /\ out(t) <= MaxOut /\ (t < MaxOut /\ t < u => out(u) < out(t))
      OBVIOUS
    <3> HIDE DEF out
    <3> QED
      BY <2>1, <3>1
  <2>6. phase = "backtrack" => toGo <= StopSteps /\ (command = Still => toGo = 0)
    BY <1>1 DEF HaltInv
  <2>7. phase' = "backtrack" => toGo' <= StopSteps
    BY <1>1 DEF HaltInv
  <2> HIDE DEF left, out
  <2>8. CASE Calibrate
    BY <2>1, <2>2, <2>3, <2>4, <2>5, <2>8 DEF Calibrate
  <2>9. CASE Outbound
    <3>1. PICK m \in Outings(pose, heading) : m[1] # 0 /\ Drive(m)
      BY <2>9 DEF Outbound
    <3>2. m \in Twists /\ Abs(m[1]) \in Nat /\ Abs(m[1]) # 0
      <4>1. m \in Twists
        BY DEF Outings
      <4>2. m[1] \in Int /\ m[1] # 0
        BY <3>1, <4>1, TwistParts
      <4> QED
        BY <4>1, <4>2 DEF Abs
    <3>3. total' = total + Abs(m[1])
      BY <1>1, <3>1, <3>2, DriveKeeps DEF IInv
    <3>4. total < total'
      BY <2>1, <3>2, <3>3
    <3> QED
      BY <2>1, <2>2, <2>3, <2>4, <2>5, <2>9, <3>4 DEF Outbound
  <2>10. CASE TurnBack
    <3>1. phase = "recording" /\ phase' \in {"backtrack", "refused"}
          /\ steps' = steps /\ toGo' = toGo
      BY <2>10 DEF TurnBack
    <3> QED
      BY <2>1, <2>2, <2>3, <2>4, <2>5, <2>7, <3>1
  <2>11. CASE Compute
    <3>1. phase = "backtrack" /\ phase' = "backtrack" /\ steps' = steps /\ command = Still
      BY <2>11 DEF Compute
    <3>2. command' # Still
      BY <2>11, PursuitIsTwist DEF Compute
    <3> QED
      BY <2>1, <2>2, <2>3, <2>4, <2>7, <3>1, <3>2
  <2>12. CASE Halt
    <3>1. phase = "backtrack" /\ phase' = "backtrack" /\ steps' = steps /\ command' = command
          /\ toGo > 0 /\ toGo' = toGo - 1
      BY <2>12 DEF Halt
    <3> QED
      BY <2>1, <2>2, <2>3, <2>4, <2>6, <3>1
  <2>13. CASE Carry
    <3>1. phase = "backtrack" /\ phase' = "backtrack" /\ steps' = steps + 1 /\ command' = Still
          /\ command # Still /\ toGo = 0
      BY <2>13 DEF Carry
    <3>2. steps < MaxSteps
      BY <2>1, <3>1
    <3> QED
      BY <2>1, <2>2, <2>3, <2>4, <3>1, <3>2
  <2>14. CASE End
    <3>1. phase = "backtrack" /\ phase' = "ended"
      BY <2>14 DEF End
    <3> QED
      BY <2>1, <2>2, <2>3, <2>4, <2>6, <3>1
  <2> QED
    BY <1>1, <2>8, <2>9, <2>10, <2>11, <2>12, <2>13, <2>14 DEF Simulate
<1>2. IInv /\ HaltInv /\ [Next]_allVars => HaltInv'
  BY HaltKeeps
<1>3. SimInit => HaltInv
  BY DEF SimInit, HaltInv
<1>4. IInv /\ IInv' /\ HaltInv /\ HaltInv' /\ [Next]_allVars =>
        [Simulate => Remaining \in Nat /\ Remaining' \in Nat /\ Remaining' < Remaining]_allVars
  BY <1>1
<1> QED
  BY <1>2, <1>3, <1>4, Invariance, PTL DEF SimSpec
=============================================================================
