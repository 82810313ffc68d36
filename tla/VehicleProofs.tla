--------------------------- MODULE VehicleProofs ---------------------------
(***************************************************************************)
(* Theorems about Vehicle for every value of its constants: it implements  *)
(* both VehicleLoop and Retrace, so that what is proved of either holds of *)
(* the daemon on its vehicle; and what its trust in the pose is worth.     *)
(***************************************************************************)
EXTENDS Vehicle, VehicleLoopProofs

USE TrailAssumption, VehicleAssumption, ThresholdAssumption, OutageAssumption,
    StepAssumption, MoveAssumption, StopAssumption
    DEF TrailAssumption, VehicleAssumption, ThresholdAssumption, OutageAssumption,
    StepAssumption, MoveAssumption, StopAssumption

-----------------------------------------------------------------------------
(* The inductive invariant, on top of that of VehicleLoop.                 *)

(* The loop knows of a trail whether it has two points. *)
CrumbsInv ==
  /\ trail \in Seq(Place) /\ trail # <<>>
  /\ crumbs = IF Len(trail) < 2 THEN 1 ELSE 2

EstimateInv ==
  /\ pose \in Place /\ heading \in Headings
  /\ total \in Nat
  /\ sinceCrumb \in 0 .. Spacing - 1

HistoryInv ==
  /\ hull \in Headings /\ lag \in Place
  /\ missed \in Nat /\ askew \in Nat
  /\ losses \in 0 .. MaxLosses
  /\ deaf \in Nat

(* The tracks move only in MANUAL and on the way back, and there by a unit *)
(* at most and not in a halt; outside the way back there is no path.       *)
CommandInv ==
  /\ command \in Twists
  /\ state \in {"calibrating", "idle", "arrived"} => command = Still
  /\ state = "backtrack" => Abs(command[1]) <= 1
  /\ state = "backtrack" /\ haltLeft > 0 => command = Still
  /\ state # "backtrack" => path = <<>> /\ idx = 1

(* The next halt is never passed.                                          *)
HaltInv == state = "backtrack" /\ StopInterval > 0 => toStop > 0

CourseInv == CrumbsInv /\ EstimateInv /\ HistoryInv /\ CommandInv /\ HaltInv

-----------------------------------------------------------------------------
(* A twist on the grid.                                                    *)
LEMMA TwistParts ==
  ASSUME NEW m \in Twists
  PROVE  /\ m[1] \in Int /\ m[2] \in {-1, 0, 1} /\ m = <<m[1], m[2]>>
         /\ Abs(m[1]) \in Nat /\ (Abs(m[1]) = 0 => m[1] = 0)
<1>1. m[1] \in Int /\ m[2] \in {-1, 0, 1} /\ m = <<m[1], m[2]>>
  BY DEF Twists
<1> QED
  BY <1>1 DEF Abs

LEMMA StillIsTwist ==
  Still \in Twists /\ Still \in Place /\ Still[1] = 0 /\ Still[2] = 0 /\ Abs(0) = 0
BY DEF Still, Twists, Place, Abs

(* The grid has all turns and drives.                                      *)
LEMMA PlaneIsClosed ==
  ASSUME NEW p \in Place, NEW h \in Headings, NEW w \in {-1, 0, 1}, NEW v \in Int
  PROVE  Turned(h, w) \in Headings /\ Advanced(p, h, v) \in Place
<1>1. h[1] \in Int /\ h[2] \in Int /\ p[1] \in Int /\ p[2] \in Int
  BY DEF Headings, Place
<1>2. Turned(h, w) \in Headings
  <2>1. \/ h[1] = 1 /\ h[2] = 0
        \/ h[1] = -1 /\ h[2] = 0
        \/ h[1] = 0 /\ h[2] = 1
        \/ h[1] = 0 /\ h[2] = -1
    BY DEF Headings
  <2>2. CASE w = 0
    BY <2>2 DEF Turned
  <2>3. CASE w = 1
    <3>1. Turned(h, w) = <<-h[2], h[1]>>
      BY <1>1, <2>3 DEF Turned
    <3> QED
      BY <2>1, <3>1 DEF Headings
  <2>4. CASE w = -1
    <3>1. Turned(h, w) = <<h[2], -h[1]>>
      BY <1>1, <2>4 DEF Turned
    <3> QED
      BY <2>1, <3>1 DEF Headings
  <2> QED
    BY <2>2, <2>3, <2>4
<1>3. v * h[1] \in Int /\ v * h[2] \in Int
  BY <1>1
<1> QED
  BY <1>1, <1>2, <1>3 DEF Advanced, Place

(* What is heard of a command is no longer than it, and of none is none.   *)
LEMMA PartIsShorter ==
  ASSUME NEW m \in Twists, NEW t \in Parts(m)
  PROVE  /\ t \in Twists /\ Abs(t[1]) <= Abs(m[1])
         /\ Abs(m[1] - t[1]) \in Nat
         /\ m = Still => t = Still
<1>1. t \in Twists /\ Abs(t[1]) + Abs(m[1] - t[1]) = Abs(m[1]) /\ t[2] \in {0, m[2]}
  BY DEF Parts
<1>2. /\ m[1] \in Int /\ t[1] \in Int /\ t = <<t[1], t[2]>>
      /\ Abs(m[1]) \in Nat /\ Abs(t[1]) \in Nat /\ (Abs(t[1]) = 0 => t[1] = 0)
  BY <1>1, TwistParts
<1>3. Abs(m[1] - t[1]) \in Nat
  BY <1>2 DEF Abs
<1>4. Abs(t[1]) <= Abs(m[1])
  BY <1>1, <1>2, <1>3
<1>5. ASSUME m = Still PROVE t = Still
  <2>1. Abs(t[1]) = 0 /\ t[2] = 0
    BY <1>1, <1>2, <1>4, <1>5, StillIsTwist
  <2> QED
    BY <1>2, <2>1 DEF Still
<1> QED
  BY <1>1, <1>3, <1>4, <1>5

(* DeadReckoning::update keeps the types of the estimator, appends to the  *)
(* trail at most, and of a twist that is none makes no breadcrumb.         *)
LEMMA UpdateMakes ==
  ASSUME EstimateInv, trail \in Seq(Place), trail # <<>>, NEW t \in Twists, Update(t)
  PROVE  /\ EstimateInv'
         /\ trail' \in Seq(Place) /\ trail' # <<>>
         /\ Len(trail') \in Nat /\ Len(trail) \in Nat /\ Len(trail') >= Len(trail)
         /\ total' = total + Abs(t[1])
         /\ t[1] = 0 => trail' = trail
<1> DEFINE step == Abs(t[1])
<1>1. t[1] \in Int /\ t[2] \in {-1, 0, 1} /\ step \in Nat
  BY TwistParts
<1>2. /\ pose \in Place /\ heading \in Headings /\ total \in Nat
      /\ sinceCrumb \in 0 .. Spacing - 1
  BY DEF EstimateInv
<1>3. heading' \in Headings /\ pose' \in Place
  <2>1. heading' = Turned(heading, t[2]) /\ pose' = Advanced(pose, heading', t[1])
    BY DEF Update
  <2>2. heading' \in Headings
    BY <1>1, <1>2, <2>1, PlaneIsClosed
  <2>3. \A h \in Headings : Advanced(pose, h, t[1]) \in Place
    BY <1>1, <1>2, PlaneIsClosed
  <2> QED
    BY <2>1, <2>2, <2>3
<1>4. t[1] = 0 => step = 0
  BY StillIsTwist
<1>5. /\ total' = total + step
      /\ \/ sinceCrumb + step < Spacing /\ sinceCrumb' = sinceCrumb + step /\ trail' = trail
         \/ sinceCrumb + step >= Spacing /\ sinceCrumb' = 0 /\ trail' = Append(trail, pose')
  BY DEF Update
<1> HIDE DEF step
<1>6. total' \in Nat /\ sinceCrumb' \in 0 .. Spacing - 1
  BY <1>1, <1>2, <1>5
<1>7. t[1] = 0 => trail' = trail
  BY <1>2, <1>4, <1>5
<1>8. /\ trail' \in Seq(Place) /\ trail' # <<>>
      /\ Len(trail') \in Nat /\ Len(trail) \in Nat /\ Len(trail') >= Len(trail)
  <2>1. \A q \in Place : /\ Append(trail, q) \in Seq(Place) /\ Append(trail, q) # <<>>
                         /\ Len(Append(trail, q)) = Len(trail) + 1
    OBVIOUS
  <2>2. Len(trail) \in Nat
    OBVIOUS
  <2>3. trail' = trail \/ trail' = Append(trail, pose')
    BY <1>5
  <2> QED
    BY <1>3, <2>1, <2>2, <2>3
<1> QED
  BY <1>3, <1>5, <1>6, <1>7, <1>8 DEF EstimateInv, step

(* The estimator's part of an iteration (run_vehicle.cpp:457-463): of the  *)
(* drive no more than the tracks went, none of it without fresh odometry   *)
(* and an IMU read, and the loop's view of the trail moves as VehicleLoop  *)
(* says.                                                                   *)
LEMMA TravelKeeps ==
  ASSUME CourseInv, NEW step \in 1 .. MaxStep, Travel(step),
         crumbs' = IF Len(trail') < 2 THEN 1 ELSE 2
  PROVE  /\ EstimateInv' /\ CrumbsInv'
         /\ hull' \in Headings /\ lag' \in Place
         /\ missed' \in Nat /\ askew' \in Nat /\ deaf' \in Nat
         /\ Trail
         /\ total' - total \in Nat
         /\ state = "backtrack" => total' - total \in {0, 1}
         /\ total' # total => Updated' /\ driveOk' /\ command # Still
<1>1. /\ EstimateInv /\ CrumbsInv
      /\ hull \in Headings /\ lag \in Place
      /\ missed \in Nat /\ askew \in Nat /\ deaf \in Nat
      /\ command \in Twists /\ trail \in Seq(Place) /\ trail # <<>>
      /\ state = "backtrack" => Abs(command[1]) <= 1
  BY DEF CourseInv, CrumbsInv, HistoryInv, CommandInv
<1>2. PICK t \in Heard(step) : Travels(t, command)
  BY DEF Travel
<1>3. /\ t \in Parts(command)
      /\ ~Updated' => t = Still
      /\ ~driveOk' => t[1] = 0
  BY StillIsTwist DEF Heard
<1>4. /\ t \in Twists /\ Abs(t[1]) <= Abs(command[1])
      /\ Abs(command[1] - t[1]) \in Nat
      /\ command = Still => t = Still
  BY <1>1, <1>3, PartIsShorter
<1>5. /\ t[1] \in Int /\ Abs(t[1]) \in Nat /\ (Abs(t[1]) = 0 => t[1] = 0)
      /\ t[1] = 0 => Abs(t[1]) = 0
      /\ command[1] \in Int /\ command[2] \in {-1, 0, 1} /\ Abs(command[1]) \in Nat
  BY <1>1, <1>4, TwistParts, StillIsTwist
<1>6. /\ EstimateInv' /\ trail' \in Seq(Place) /\ trail' # <<>>
      /\ Len(trail') \in Nat /\ Len(trail) \in Nat /\ Len(trail') >= Len(trail)
      /\ total' = total + Abs(t[1])
      /\ t[1] = 0 => trail' = trail
  BY <1>1, <1>2, <1>4, UpdateMakes DEF Travels
<1>7. CrumbsInv' /\ crumbs' \in {crumbs, 2} /\ (t[1] = 0 => crumbs' = crumbs)
  BY <1>1, <1>6 DEF CrumbsInv
<1>8. hull' \in Headings /\ lag' \in Place
  <2>1. /\ hull' = Turned(hull, command[2])
        /\ lag' = Advanced(Advanced(lag, hull', command[1]), heading', -t[1])
    BY <1>2 DEF Travels
  <2>2. hull' \in Headings
    BY <1>1, <1>5, <2>1, PlaneIsClosed
  <2>3. \A h \in Headings : Advanced(lag, h, command[1]) \in Place
    BY <1>1, <1>5, PlaneIsClosed
  <2>4. ASSUME NEW p \in Place, NEW h \in Headings
        PROVE  Advanced(p, h, -t[1]) \in Place
    <3>1. -t[1] \in Int /\ 0 \in {-1, 0, 1}
      BY <1>5
    <3> QED
      BY <3>1, PlaneIsClosed
  <2>5. heading' \in Headings
    BY <1>6 DEF EstimateInv
  <2> QED
    BY <2>1, <2>2, <2>3, <2>4, <2>5
<1>9. missed' \in Nat /\ askew' \in Nat
  <2>1. /\ missed' = missed + Abs(command[1] - t[1])
        /\ askew' = askew \/ askew' = askew + Abs(t[1])
    BY <1>2 DEF Travels
  <2>2. \A m, n \in Nat : m + n \in Nat
    OBVIOUS
  <2>3. missed + Abs(command[1] - t[1]) \in Nat
    BY <1>1, <1>4, <2>2
  <2>4. askew \in Nat /\ askew + Abs(t[1]) \in Nat
    BY <1>1, <1>5, <2>2
  <2> QED
    BY <2>1, <2>3, <2>4
<1>10. deaf' \in Nat
  <2>1. DeafLimit + 1 \in Nat
    BY DEF DeafLimit
  <2> QED
    BY <1>1, <2>1 DEF Travel, Aged
<1>11. Trail
  BY <1>3, <1>7, StillIsTwist DEF Trail
<1>12. /\ total' - total = Abs(t[1]) /\ total \in Nat
       /\ total' # total => t[1] # 0
  BY <1>1, <1>5, <1>6 DEF EstimateInv
<1>13. state = "backtrack" => Abs(t[1]) \in {0, 1}
  BY <1>1, <1>4, <1>5
<1> QED
  BY <1>3, <1>4, <1>5, <1>6, <1>7, <1>8, <1>9, <1>10, <1>11, <1>12, <1>13, StillIsTwist

-----------------------------------------------------------------------------
(* The composite takes no step that the loop does not have.                *)

(* Where the controller is gone when the branch does not go on with it. *)
Dropped == state' # "backtrack" => path' = <<>> /\ idx' = 1

(* What the estimator's part leaves to the branches.                       *)
Drove ==
  /\ total \in Nat /\ total' - total \in Nat
  /\ state = "backtrack" => total' - total \in {0, 1}
  /\ total' # total => Updated' /\ driveOk' /\ command # Still

(* In CALIBRATING, IDLE, ARRIVED and MANUAL the controller is only set to  *)
(* start a backtrack.                                                      *)
LEMMA OutwardKeeps ==
  ASSUME IInv, CourseInv, NEW step \in 1 .. MaxStep,
         \/ Calibrate(step) /\ UNCHANGED controllerVars
         \/ Await /\ UNCHANGED controllerVars
         \/ Leave
  PROVE  Dropped /\ HaltInv' /\ (Leave => Manual)
<1>1. StopInterval \in Nat
  OBVIOUS
<1>2. Leave => Manual
  BY DEF Leave, Manual
<1>3. state # "backtrack" /\ path = <<>> /\ idx = 1
  BY DEF CourseInv, CommandInv, Calibrate, Await, Leave
<1>4. CASE StartBacktrack
  BY <1>2, <1>4 DEF Dropped, HaltInv, StartBacktrack
<1>5. CASE ~StartBacktrack
  <2>1. UNCHANGED controllerVars
    BY <1>5 DEF Leave
  <2>2. state' # "backtrack"
    BY <1>3, <1>5 DEF Calibrate, Await, Leave, HoldInManual, Relay, NothingToBacktrack
  <2> QED
    BY <1>2, <1>3, <2>1, <2>2 DEF Dropped, HaltInv, controllerVars
<1> QED
  BY <1>4, <1>5

(* In BACKTRACK the distance that the estimator made is one the loop       *)
(* allows, and none of it passes the next halt.                            *)
LEMMA ReturnKeeps ==
  ASSUME IInv, CourseInv, Drove, NEW step \in 1 .. MaxStep, Return(step)
  PROVE  Dropped /\ HaltInv' /\ Backtrack(step)
<1> DEFINE d == IF StopInterval > 0 THEN total' - total ELSE 0
<1>1. /\ StopInterval \in Nat /\ StopPeriods \in Nat /\ MaxMove \in Nat /\ MaxMove > 0
      /\ state = "backtrack"
      /\ toStop \in -StopInterval .. StopInterval /\ haltLeft \in 0 .. StopPeriods
      /\ StopInterval > 0 => toStop > 0
      /\ haltLeft > 0 => command = Still
  BY DEF Return, IInv, TypeOK, CourseInv, CommandInv, HaltInv
<1>2. /\ d \in {0, 1} /\ d \in 0 .. (IF Updated' /\ StopInterval > 0 THEN MaxMove ELSE 0)
      /\ d # 0 => StopInterval > 0 /\ driveOk' /\ command # Still
  BY <1>1 DEF Drove
<1>3. Travelled(d) \in Int /\ Travelled(d) >= 0 /\ Travelled(d) = toStop - d
  BY <1>1, <1>2 DEF Travelled
<1> HIDE DEF d
<1>4. CASE Regained /\ Unfollow
  BY <1>1, <1>4 DEF Dropped, HaltInv, Backtrack, Regained, Unfollow
<1>5. ASSUME HoldForOdometry(step, d) \/ HoldHalt(step, d) \/ BeginHalt(step, d)
      PROVE  Dropped /\ HaltInv' /\ Backtrack(step)
  <2>1. state' = "backtrack"
    BY <1>1, <1>5 DEF HoldForOdometry, HoldHalt, BeginHalt
  <2>2. Backtrack(step)
    BY <1>1, <1>2, <1>3, <1>5 DEF Backtrack
  <2>3. CASE HoldForOdometry(step, d) \/ HoldHalt(step, d)
    <3>1. d = 0
      BY <1>1, <1>2, <2>3 DEF HoldForOdometry, HoldHalt, Remaining
    <3> QED
      BY <1>1, <1>3, <2>1, <2>2, <2>3, <3>1 DEF Dropped, HaltInv, HoldForOdometry, HoldHalt
  <2>4. CASE BeginHalt(step, d)
    BY <1>1, <1>3, <2>1, <2>2, <2>4 DEF Dropped, HaltInv, BeginHalt
  <2> QED
    BY <1>5, <2>3, <2>4
<1>6. ASSUME NEW answer \in Answers, Pursue(step, d, answer),
             answer = "done" => Unfollow
      PROVE  Dropped /\ HaltInv' /\ Backtrack(step)
  <2>1. Backtrack(step)
    BY <1>1, <1>2, <1>3, <1>6 DEF Backtrack
  <2>2. StopInterval > 0 => toStop' > 0
    BY <1>1, <1>3, <1>6 DEF Pursue, HaltDue
  <2>3. answer # "done" => state' = "backtrack"
    BY <1>1, <1>6 DEF Pursue
  <2> QED
    BY <1>6, <2>1, <2>2, <2>3 DEF Dropped, HaltInv, Unfollow
<1>7. CASE Compute(step, d)
  <2>1. "done" \in Answers
    BY DEF Answers
  <2> QED
    BY <1>6, <1>7, <2>1 DEF Compute
<1> QED
  BY <1>4, <1>5, <1>7 DEF Return, d

(* Everything that an iteration tells the tracks is a twist, of a unit in  *)
(* a pursuit; a loop that sends zero stops them.                           *)
LEMMA TwistIsCommand ==
  ASSUME command' \in Twist
  PROVE  /\ command' \in Twists
         /\ cmd' = "pursuit" => Abs(command'[1]) <= 1
         /\ cmd' \notin {"operator", "pursuit"} => command' = Still
<1>1. ASSUME NEW p, NEW h, NEW look, NEW m \in Pursuit(p, h, look)
      PROVE  m \in Twists /\ Abs(m[1]) <= 1
  <2>1. m[1] \in {-1, 1} /\ m[2] \in {-1, 0, 1} /\ m = <<m[1], m[2]>>
    BY DEF Pursuit, Turns
  <2>2. m[1] \in -Stride .. Stride /\ Abs(m[1]) <= 1
    BY <2>1 DEF Abs
  <2> QED
    BY <2>1, <2>2 DEF Twists
<1>2. Outings \subseteq Twists
  BY DEF Outings
<1>3. CASE cmd' = "operator"
  BY <1>2, <1>3, StillIsTwist DEF Twist
<1>4. CASE cmd' = "pursuit"
  <2>1. command' \in Pursuit(pose', heading', path[Ahead(idx')])
    BY <1>4 DEF Twist
  <2> QED
    BY <1>1, <1>4, <2>1
<1>5. CASE cmd' \notin {"operator", "pursuit"}
  BY <1>5, StillIsTwist DEF Twist
<1> QED
  BY <1>3, <1>4, <1>5

(* An iteration of the composite is one of the loop, and keeps what the    *)
(* composite knows of its pose, its trail and its path.                    *)
LEMMA DriveKeeps ==
  ASSUME IInv, CourseInv, running, UNCHANGED running,
         NEW step \in 1 .. MaxStep, NEW read \in BOOLEAN, NEW drive \in BOOLEAN,
         NEW f \in Frame \cup {NoFrame}, Drive(step, read, drive, f)
  PROVE  Tick /\ IInv' /\ CourseInv'
<1>1. /\ EstimateInv' /\ CrumbsInv'
      /\ hull' \in Headings /\ lag' \in Place
      /\ missed' \in Nat /\ askew' \in Nat /\ deaf' \in Nat
      /\ Trail /\ Drove
  <2>1. Travel(step) /\ crumbs' = IF Len(trail') < 2 THEN 1 ELSE 2
    BY DEF Drive
  <2>2. total \in Nat
    BY DEF CourseInv, EstimateInv
  <2> QED
    BY <2>1, <2>2, TravelKeeps DEF Drove
<1>2. Dropped /\ HaltInv' /\ Iterate(step, read, drive, f)
  <2>1. CASE Return(step) /\ UNCHANGED calibVars
    <3>1. Dropped /\ HaltInv' /\ Backtrack(step)
      BY <1>1, <2>1, ReturnKeeps
    <3> QED
      BY <1>1, <2>1, <3>1 DEF Drive, Iterate
  <2>2. CASE \/ Calibrate(step) /\ UNCHANGED controllerVars
             \/ UNCHANGED calibVars /\ ((Await /\ UNCHANGED controllerVars) \/ Leave)
    <3>1. Dropped /\ HaltInv' /\ (Leave => Manual)
      BY <2>2, OutwardKeeps
    <3> QED
      BY <1>1, <2>2, <3>1 DEF Drive, Iterate
  <2> QED
    BY <2>1, <2>2 DEF Drive
<1>3. Tick /\ IInv'
  <2>1. Tick
    BY <1>2 DEF Tick
  <2> QED
    BY <2>1, TickKeeps
<1>4. HistoryInv'
  <2>1. /\ losses \in 0 .. MaxLosses /\ losses' <= MaxLosses
        /\ losses' = losses \/ losses' = losses + 1
    BY DEF Drive, CourseInv, HistoryInv
  <2> QED
    BY <1>1, <2>1 DEF HistoryInv
<1>5. CommandInv'
  <2>1. /\ command' \in Twists
        /\ cmd' = "pursuit" => Abs(command'[1]) <= 1
        /\ cmd' \notin {"operator", "pursuit"} => command' = Still
    BY TwistIsCommand DEF Drive
  <2>2. /\ cmd' = "operator" => state' = "manual"
        /\ cmd' = "pursuit" => state' = "backtrack" /\ haltLeft' = 0
    BY <1>3 DEF IInv, RelayNeedsOperator, PursuitNeedsSensors
  <2>3. state' = "backtrack" => Abs(command'[1]) <= 1
    BY <2>1, <2>2, StillIsTwist
  <2> QED
    BY <1>2, <2>1, <2>2, <2>3 DEF CommandInv, Dropped
<1> QED
  BY <1>1, <1>2, <1>3, <1>4, <1>5 DEF CourseInv

(* The composite starts as both of its parts do. *)
LEMMA VehicleInitKeeps == VehicleInit => IInv /\ CourseInv
<1> SUFFICES ASSUME VehicleInit PROVE IInv /\ CourseInv
  OBVIOUS
<1>1. IInv
  BY InitIInv DEF VehicleInit
<1>2. Home \in Place
  BY DEF Home, Place
<1>3. trail = <<Home>> /\ crumbs = 1 /\ state = "calibrating"
  BY DEF VehicleInit, Init, TrailInit
<1>4. trail \in Seq(Place) /\ Len(trail) = 1 /\ trail # <<>>
  BY <1>2, <1>3
<1>5. CrumbsInv
  BY <1>3, <1>4 DEF CrumbsInv
<1>6. EstimateInv /\ HistoryInv
  <2>1. heading \in Headings /\ hull \in Headings /\ lag \in Place
    BY DEF VehicleInit, TrailInit, Headings, Place
  <2> QED
    BY <1>2, <2>1 DEF VehicleInit, TrailInit, EstimateInv, HistoryInv
<1>7. CommandInv /\ HaltInv
  BY <1>3, StillIsTwist DEF VehicleInit, TrailInit, CommandInv, HaltInv
<1> QED
  BY <1>1, <1>5, <1>6, <1>7 DEF CourseInv

(* A stop, and a process that is gone, leave all of it as it is. *)
LEMMA StandingStillKeeps ==
  ASSUME IInv, CourseInv, Stop \/ UNCHANGED vehicleVars
  PROVE  IInv' /\ CourseInv'
<1>1. IInv'
  BY LifeCycleKeeps, StutterKeeps DEF Stop, vehicleVars
<1>2. UNCHANGED <<courseVars, state, crumbs, toStop, haltLeft>>
  BY DEF Stop, Exit, Crash, vehicleVars, vars, loopVars
<1>3. UNCHANGED <<pose, heading, total, sinceCrumb, trail, path, idx, hull, lag, missed,
                  askew, command, deaf, losses, state, crumbs, toStop, haltLeft>>
  BY <1>2 DEF courseVars, trailVars, estimatorVars, controllerVars, groundVars
<1> QED
  BY <1>1, <1>3 DEF CourseInv, CrumbsInv, EstimateInv, HistoryInv, CommandInv, HaltInv

(* Both invariants hold in every reachable state of the composite. *)
LEMMA VehicleStepKeeps ==
  ASSUME IInv, CourseInv, [VehicleNext]_vehicleVars
  PROVE  IInv' /\ CourseInv' /\ [Next]_vars
<1>1. CASE VehicleTick
  BY <1>1, DriveKeeps DEF VehicleTick, Next
<1>2. CASE Stop
  BY <1>2, StandingStillKeeps DEF Stop, Next
<1>3. CASE Over \/ UNCHANGED vehicleVars
  <2>1. UNCHANGED vehicleVars
    BY <1>3 DEF Over
  <2> QED
    BY <2>1, StandingStillKeeps DEF vehicleVars
<1> QED
  BY <1>1, <1>2, <1>3 DEF VehicleNext

(* Both invariants hold in every reachable state of the composite. *)
THEOREM VehicleInvariance == VehicleSpec => [](IInv /\ CourseInv)
<1>1. IInv /\ CourseInv /\ [VehicleNext]_vehicleVars => (IInv /\ CourseInv)'
  BY VehicleStepKeeps
<1> QED
  BY <1>1, VehicleInitKeeps, PTL DEF VehicleSpec

(* The daemon on its vehicle takes no step that the loop of VehicleLoop    *)
(* does not have: the distances, the trail and the controller's answers    *)
(* that are free there are those that the estimator and the controller     *)
(* come to (run_vehicle.cpp:384-640).                                      *)
THEOREM VehicleIsLoop == VehicleSpec => ImplementsLoop
<1>1. VehicleInit => Init
  BY DEF VehicleInit
<1>2. IInv /\ CourseInv /\ [VehicleNext]_vehicleVars => [Next]_vars
  BY VehicleStepKeeps
<1> QED
  BY <1>1, <1>2, VehicleInvariance, PTL DEF VehicleSpec, ImplementsLoop, Spec

-----------------------------------------------------------------------------
(* What trust in the pose is worth.                                        *)

(* Since the last good read the vehicle has driven no longer than the      *)
(* reads of the streak took, and after that no longer than the outage      *)
(* timer has run; a pose trusted in an outage is one whose timer has not   *)
(* run out.                                                                *)
DeafInv ==
  estimateValid =>
    /\ deaf <= imuBad * MaxStep + (IF ImuFailing THEN unhealthyFor ELSE 0)
    /\ ImuFailing => unhealthyFor \in 0 .. ImuOutage

(* A read that fails adds no less to the streak or to the timer than the   *)
(* drive that it hides is long; a read that succeeds ends both.            *)
LEMMA DeafKeeps ==
  ASSUME ImuTypeOK, deaf \in Nat, DeafInv,
         NEW step \in 1 .. MaxStep, NEW read \in BOOLEAN,
         ReadImu(step, read), Travel(step)
  PROVE  DeafInv'
<1> SUFFICES ASSUME estimateValid'
             PROVE  /\ deaf' <= imuBad' * MaxStep + (IF ImuFailing' THEN unhealthyFor' ELSE 0)
                    /\ ImuFailing' => unhealthyFor' \in 0 .. ImuOutage
  BY DEF DeafInv
<1>1. /\ ImuTypeOK' /\ estimateValid
  BY ReadKeeps
<1>2. /\ imuBad \in 0 .. ImuThreshold /\ imuBad' \in 0 .. ImuThreshold
      /\ unhealthyFor \in {Healthy} \cup 0 .. ImuOutage + 1
      /\ unhealthyFor' \in {Healthy} \cup 0 .. ImuOutage + 1
  BY <1>1 DEF ImuTypeOK
<1>3. /\ deaf <= imuBad * MaxStep + (IF ImuFailing THEN unhealthyFor ELSE 0)
      /\ ImuFailing => unhealthyFor \in 0 .. ImuOutage
  BY <1>1 DEF DeafInv
<1>4. \A n \in 0 .. ImuThreshold : n * MaxStep \in Nat /\ (n + 1) * MaxStep = n * MaxStep + MaxStep
  OBVIOUS
<1>5. CASE read
  <2>1. imuBad' = 0 /\ ~ImuFailing'
    BY <1>5 DEF ReadImu, Streaks, ImuFailing
  <2>2. deaf' = 0
    BY <2>1 DEF Travel, Updated
  <2> QED
    BY <2>1, <2>2
<1>6. CASE ~read
  <2>1. /\ imuBad' = Counted(imuBad) /\ imuBad' > 0
    BY <1>2, <1>6 DEF ReadImu, Streaks, Counted
  <2>2. deaf' \in Int /\ deaf' <= deaf + step
    <3>1. deaf' \in {deaf, Aged(deaf, step, DeafLimit + 1)}
      BY <2>1 DEF Travel, Updated
    <3>2. PICK top \in Nat : top = DeafLimit + 1
      BY DEF DeafLimit
    <3>3. Aged(deaf, step, top) \in Int /\ Aged(deaf, step, top) <= deaf + step
      BY DEF Aged
    <3> QED
      BY <3>1, <3>2, <3>3
  <2>3. CASE ~ImuFailing'
    <3>1. imuBad < ImuThreshold /\ imuBad' = imuBad + 1 /\ ~ImuFailing
      BY <1>2, <2>1, <2>3 DEF Counted, ImuFailing
    <3>2. imuBad' * MaxStep = imuBad * MaxStep + MaxStep /\ imuBad * MaxStep \in Nat
      BY <1>2, <1>4, <3>1
    <3>3. deaf <= imuBad * MaxStep
      BY <1>3, <3>1, <3>2
    <3> HIDE DEF ImuFailing
    <3> QED
      BY <2>2, <2>3, <3>2, <3>3
  <2>4. CASE ImuFailing'
    <3>1. Failing(step)
      BY <2>4 DEF ReadImu, Recovered, InBetween, ImuOk
    <3>2. unhealthyFor' <= ImuOutage
      BY <3>1, Zenon DEF Failing
    <3>3. unhealthyFor' \in 0 .. ImuOutage
      BY <1>2, <3>1, <3>2 DEF Failing, OutageAfter, Healthy
    <3>4. imuBad' = ImuThreshold
      BY <2>4 DEF ImuFailing
    <3>5. deaf' <= ImuThreshold * MaxStep + unhealthyFor'
      <4>0. PICK limit \in Nat : limit = ImuThreshold * MaxStep
        BY <1>4
      <4>1. CASE ImuFailing
        <5>1. unhealthyFor \in Nat /\ unhealthyFor' \in Nat /\ unhealthyFor' >= unhealthyFor + step
          BY <1>3, <3>1, <3>2, <4>1 DEF Failing, OutageAfter, Healthy
        <5>2. deaf <= limit + unhealthyFor
          BY <1>3, <4>0, <4>1 DEF ImuFailing
        <5>3. /\ deaf \in Int /\ deaf' \in Int /\ step \in Int /\ limit \in Int
              /\ unhealthyFor \in Int /\ unhealthyFor' \in Int
          BY <2>2, <4>0, <5>1
        <5>4. ASSUME NEW a \in Int, NEW b \in Int, NEW k \in Int, NEW l \in Int,
                     NEW u \in Int, NEW v \in Int,
                     b <= a + k, a <= l + u, v >= u + k
              PROVE  b <= l + v
          BY <5>4
        <5>5. deaf' <= limit + unhealthyFor'
          BY <2>2, <5>1, <5>2, <5>3, <5>4
        <5> QED
          BY <4>0, <5>5
      <4>2. CASE ~ImuFailing
        <5>1. imuBad \in Nat /\ imuBad + 1 = ImuThreshold
          BY <1>2, <2>1, <2>4, <4>2 DEF ImuFailing, Counted
        <5>2. limit = imuBad * MaxStep + MaxStep /\ imuBad * MaxStep \in Nat
          BY <1>2, <1>4, <4>0, <5>1
        <5>3. deaf <= imuBad * MaxStep
          BY <1>3, <4>2, <5>2
        <5>4. deaf' <= limit + unhealthyFor'
          BY <2>2, <3>3, <5>2, <5>3
        <5> QED
          BY <4>0, <5>4
      <4> QED
        BY <4>1, <4>2
    <3> QED
      BY <2>4, <3>3, <3>4, <3>5
  <2> QED
    BY <2>3, <2>4
<1> QED
  BY <1>5, <1>6

(* However the drive went before, however many short failures there were   *)
(* and whoever drives: while the pose is trusted, the vehicle has driven   *)
(* without an IMU read no longer than the streak to failing, each read of  *)
(* it as late as can be, and the outage limit (run_vehicle.cpp:394-420).   *)
THEOREM TrustIsLimited == VehicleSpec => []TrustHasLimit
<1>1. VehicleInit => DeafInv
  BY DEF VehicleInit, Init, ImuInit, DeafInv, ImuFailing
<1>2. ASSUME IInv, CourseInv, DeafInv, [VehicleNext]_vehicleVars
      PROVE  DeafInv'
  <2>1. CASE VehicleTick
    <3>1. PICK step \in 1 .. MaxStep, read \in BOOLEAN, drive \in BOOLEAN,
               f \in Frame \cup {NoFrame} : Drive(step, read, drive, f)
      BY <2>1 DEF VehicleTick
    <3>2. ReadImu(step, read) /\ Travel(step)
      BY <3>1 DEF Drive, Sense
    <3>3. ImuTypeOK /\ deaf \in Nat
      BY <1>2 DEF IInv, TypeOK, CourseInv, HistoryInv
    <3> QED
      BY <1>2, <3>2, <3>3, DeafKeeps
  <2>2. CASE Stop \/ Over \/ UNCHANGED vehicleVars
    <3>1. UNCHANGED <<imuVars, deaf>>
      BY <2>2 DEF Stop, Over, Exit, Crash, vehicleVars, vars, courseVars
    <3> QED
      BY <1>2, <3>1 DEF DeafInv, imuVars, ImuFailing
  <2> QED
    BY <1>2, <2>1, <2>2 DEF VehicleNext
<1>3. IInv /\ CourseInv /\ DeafInv => TrustHasLimit
  <2> SUFFICES ASSUME IInv, CourseInv, DeafInv, estimateValid
               PROVE  deaf <= ImuThreshold * MaxStep + ImuOutage
    BY DEF TrustHasLimit, DeafLimit
  <2>1. imuBad \in 0 .. ImuThreshold /\ deaf \in Nat
    BY DEF IInv, TypeOK, ImuTypeOK, CourseInv, HistoryInv
  <2> QED
    BY <2>1 DEF DeafInv
<1> QED
  BY <1>1, <1>2, <1>3, VehicleInvariance, PTL DEF VehicleSpec

-----------------------------------------------------------------------------
(* The composite drives as Retrace does.                                   *)

(* Retrace has the estimator and the controller of Trail, as Vehicle has.  *)
LEMMA SamePlane ==
  /\ Course!Still = Still /\ Course!Home = Home /\ Course!Twists = Twists
  /\ \A p, q : Course!Dist(p, q) = Dist(p, q)
  /\ \A h, w : Course!Turned(h, w) = Turned(h, w)
  /\ \A p, h, v : Course!Advanced(p, h, v) = Advanced(p, h, v)
  /\ \A n : Course!Abs(n) = Abs(n)
BY DEF Still, Home, Twists, Dist, Abs, Turned, Advanced, Course!Still, Course!Home,
   Course!Twists, Course!Dist, Course!Abs, Course!Turned, Course!Advanced

LEMMA SameEstimator == ASSUME NEW t, NEW m PROVE Travels(t, m) => Course!Travels(t, m)
<1>1. Update(t) => Course!Update(t)
  BY SamePlane DEF Update, Course!Update
<1> QED
  BY <1>1, SamePlane DEF Travels, Course!Travels

LEMMA SameController ==
  /\ \A p : Course!Done(p) <=> Done(p)
  /\ Unfollow <=> Course!Unfollow
  /\ \A s : Course!Reversed(s) = Reversed(s) /\ (Follow(s) <=> Course!Follow(s))
BY SamePlane DEF Done, Unfollow, Reversed, Follow, Course!Done, Course!Unfollow,
   Course!Reversed, Course!Follow

LEMMA SameScan == ASSUME NEW p PROVE AdvanceClosest(p) => Course!AdvanceClosest(p)
<1>1. Course!Scanned(p) = Scanned(p)
  BY SamePlane DEF Scanned, Course!Scanned
<1> QED
  BY <1>1, SamePlane DEF AdvanceClosest, Course!AdvanceClosest

LEMMA SameAim ==
  /\ \A i : Course!Ahead(i) = Ahead(i)
  /\ \A p, h, look : Course!Pursuit(p, h, look) = Pursuit(p, h, look)
<1>1. \A i, j : Course!Along(i, j) = Along(i, j)
  BY SamePlane DEF Along, Course!Along
<1>2. \A S : Course!Min(S) = Min(S)
  BY DEF Min, Course!Min
<1>3. \A i : Course!Ahead(i) = Ahead(i)
  BY <1>1, <1>2 DEF Ahead, Course!Ahead
<1>4. \A lead, to : Course!Turns(lead, to) = Turns(lead, to)
  BY DEF Turns, Course!Turns
<1>5. /\ \A h : Course!Leading(h) = Leading(h)
      /\ \A p, look : Course!Bearing(p, look) = Bearing(p, look)
  BY DEF Leading, Course!Leading, Opposite, Course!Opposite, Bearing, Course!Bearing
<1>6. \A p, h, look : Course!Pursuit(p, h, look) = Pursuit(p, h, look)
  BY <1>4, <1>5 DEF Pursuit, Course!Pursuit
<1> QED
  BY <1>3, <1>6

(* The estimator's part of an iteration is the one of Retrace, which lets  *)
(* it hear of any part of the twist.                                       *)
LEMMA TravelIsSense ==
  ASSUME NEW step \in 1 .. MaxStep, Travel(step)
  PROVE  Course!Sense
<1>1. PICK t \in Heard(step) :
        (t # command => missed + askew < MaxMissed) /\ Travels(t, command)
  BY DEF Travel
<1>2. t \in Course!Parts(command)
  BY SamePlane DEF Heard, Parts, Course!Parts
<1>3. Course!Travels(t, command)
  BY <1>1, SameEstimator
<1> QED
  BY <1>1, <1>2, <1>3 DEF Course!Sense

(* What an iteration does to the tracks and to the count of the losses.    *)
Steered ==
  /\ command' \in Twist
  /\ losses' = IF state = "manual" /\ state' # "manual" THEN losses + 1 ELSE losses
  /\ losses' <= MaxLosses /\ losses \in Nat

(* Up to ARRIVED and from MANUAL on: to Retrace, CALIBRATING and IDLE are  *)
(* a MANUAL in which the operator does nothing.                            *)
LEMMA OutwardIsCourse ==
  ASSUME CourseInv, Steered, crumbs' = IF Len(trail') < 2 THEN 1 ELSE 2,
         NEW step \in 1 .. MaxStep,
         \/ Calibrate(step) /\ UNCHANGED controllerVars
         \/ Await /\ UNCHANGED controllerVars
         \/ Leave
  PROVE  Course!Relay \/ Course!LoseLink \/ Course!Regain \/ Course!Wait
<1>1. /\ state # "backtrack" => path = <<>> /\ idx = 1
      /\ state = "arrived" => command = Still
  BY DEF CourseInv, CommandInv
<1>2. cmd' = "zero" => command' = Still
  BY DEF Steered, Twist
<1>3. CASE Calibrate(step) /\ UNCHANGED controllerVars
  <2>1. cmd' = "zero" /\ state = "calibrating" /\ state' \in {"calibrating", "idle"}
    BY <1>3, SendsZero DEF Calibrate
  <2>2. Mode = "manual" /\ Mode' = "manual" /\ losses' = losses
    BY <2>1 DEF Mode, Steered
  <2> QED
    BY <1>2, <1>3, <2>1, <2>2, SamePlane
    DEF Course!Relay, controllerVars, Course!controllerVars
<1>4. CASE Await /\ UNCHANGED controllerVars
  <2>1. /\ cmd' = "zero" /\ state \in {"idle", "arrived"}
        /\ state' = state \/ state' = "manual"
    BY <1>4, SendsZero DEF Await
  <2>2. losses' = losses /\ command' = Still
    BY <1>2, <2>1 DEF Steered
  <2>3. CASE state = "idle"
    <3>1. Mode = "manual" /\ Mode' = "manual"
      BY <2>1, <2>3 DEF Mode
    <3> QED
      BY <1>4, <2>2, <3>1, SamePlane DEF Course!Relay, controllerVars, Course!controllerVars
  <2>4. CASE state = "arrived" /\ state' = "arrived"
    <3>1. Mode = "arrived" /\ Mode' = "arrived" /\ command' = command
      BY <1>1, <2>2, <2>4 DEF Mode
    <3> QED
      BY <1>4, <2>2, <3>1 DEF Course!Wait, controllerVars, Course!controllerVars
  <2>5. CASE state = "arrived" /\ state' = "manual"
    <3>1. Mode = "arrived" /\ Mode' = "manual"
      BY <2>5 DEF Mode
    <3>2. Unfollow
      BY <1>1, <1>4, <2>5 DEF Unfollow, controllerVars
    <3> QED
      BY <2>2, <3>1, <3>2, SameController, SamePlane DEF Course!Regain
  <2> QED
    BY <2>1, <2>3, <2>4, <2>5
<1>5. CASE state = "manual" /\ UNCHANGED controllerVars /\ HoldInManual
  <2>1. cmd' = "zero" /\ state' = "manual" /\ losses' = losses
    BY <1>5, SendsZero DEF HoldInManual, Steered
  <2>2. Mode = "manual" /\ Mode' = "manual"
    BY <1>5, <2>1 DEF Mode
  <2> QED
    BY <1>2, <1>5, <2>1, <2>2, SamePlane
    DEF Course!Relay, controllerVars, Course!controllerVars
<1>6. CASE state = "manual" /\ UNCHANGED controllerVars /\ Relay
  <2>1. cmd' \in {"zero", "operator"} /\ state' = "manual" /\ losses' = losses
    BY <1>6 DEF Relay, Send, Steered
  <2>2. Mode = "manual" /\ Mode' = "manual"
    BY <1>6, <2>1 DEF Mode
  <2>3. command' = Still \/ (total' < MaxOut /\ command' \in Course!Outings(pose', heading'))
    <3>1. Course!Outings(pose', heading')
            = {m \in Twists : LET d == Turned(heading', m[2])
                              IN  <<Advanced(pose', d, m[1]), d>> \in Field}
      BY SamePlane DEF Course!Outings
    <3> QED
      BY <1>2, <2>1, <3>1 DEF Steered, Twist, Outings
  <2> QED
    BY <1>6, <2>1, <2>2, <2>3, SamePlane
    DEF Course!Relay, controllerVars, Course!controllerVars
<1>7. CASE state = "manual" /\ UNCHANGED controllerVars /\ NothingToBacktrack
  <2>1. cmd' = "zero" /\ state' = "arrived" /\ Len(trail') < 2
    BY <1>7, SendsZero DEF NothingToBacktrack
  <2>2. Mode = "manual" /\ Mode' = "arrived" /\ losses' = losses + 1 /\ losses < MaxLosses
    BY <1>7, <2>1 DEF Mode, Steered
  <2> QED
    BY <1>2, <1>7, <2>1, <2>2, SamePlane
    DEF Course!LoseLink, controllerVars, Course!controllerVars
<1>8. CASE state = "manual" /\ StartBacktrack /\ Follow(Reversed(trail'))
  <2>1. cmd' = "zero" /\ state' = "backtrack"
    BY <1>8, SendsZero DEF StartBacktrack
  <2>2. Mode = "manual" /\ Mode' = "backtrack" /\ losses' = losses + 1 /\ losses < MaxLosses
    BY <1>8, <2>1 DEF Mode, Steered
  <2>3. Course!Follow(Course!Reversed(trail'))
    BY <1>8, SameController
  <2> QED
    BY <1>2, <2>1, <2>2, <2>3, SamePlane DEF Course!LoseLink
<1> QED
  BY <1>3, <1>4, <1>5, <1>6, <1>7, <1>8 DEF Leave

(* In BACKTRACK; what the gates make zero of is a halt to Retrace.         *)
LEMMA ReturnIsCourse ==
  ASSUME CourseInv, Steered, NEW step \in 1 .. MaxStep, Return(step)
  PROVE  Course!Regain \/ Course!Hold \/ Course!Pursue
<1> DEFINE d == IF StopInterval > 0 THEN total' - total ELSE 0
<1>1. state = "backtrack" /\ Mode = "backtrack" /\ losses' = losses
  BY DEF Return, Mode, Steered
<1>2. cmd' = "zero" => command' = Still
  BY DEF Steered, Twist
<1>3. state' = "backtrack" => Mode' = "backtrack"
  BY DEF Mode
<1> HIDE DEF d
<1>4. CASE Regained /\ Unfollow
  <2>1. cmd' = "zero" /\ state' = "manual"
    BY <1>4, SendsZero DEF Regained
  <2>2. Mode' = "manual"
    BY <2>1 DEF Mode
  <2> QED
    BY <1>1, <1>2, <1>4, <2>1, <2>2, SameController, SamePlane DEF Course!Regain
<1>5. CASE /\ HoldForOdometry(step, d) \/ HoldHalt(step, d) \/ BeginHalt(step, d)
           /\ UNCHANGED controllerVars
  <2>1. cmd' = "zero" /\ state' = "backtrack"
    BY <1>1, <1>5, SendsZero DEF HoldForOdometry, HoldHalt, BeginHalt
  <2> QED
    BY <1>1, <1>2, <1>3, <1>5, <2>1, SamePlane
    DEF Course!Hold, controllerVars, Course!controllerVars
<1>6. CASE Done(pose') /\ Pursue(step, d, "done") /\ Unfollow
  <2>1. cmd' = "zero" /\ state' = "arrived"
    BY <1>6, SendsZero DEF Pursue
  <2>2. Mode' = "arrived"
    BY <2>1 DEF Mode
  <2> QED
    BY <1>1, <1>2, <1>6, <2>1, <2>2, SameController, SamePlane DEF Course!Pursue
<1>7. ASSUME ~Done(pose'), AdvanceClosest(pose'),
             NEW answer \in Answers \ {"done"}, Pursue(step, d, answer)
      PROVE  Course!Hold \/ Course!Pursue
  <2>1. state' = "backtrack" /\ cmd' \in {"zero", "pursuit"}
    BY <1>1, <1>7 DEF Pursue, Send
  <2>2. ~Course!Done(pose') /\ Course!AdvanceClosest(pose')
    BY <1>7, SameController, SameScan
  <2>3. CASE cmd' = "zero"
    BY <1>1, <1>2, <1>3, <2>1, <2>2, <2>3, SamePlane DEF Course!Hold
  <2>4. CASE cmd' = "pursuit"
    <3>1. total' < MaxTotal /\ command' \in Pursuit(pose', heading', path[Ahead(idx')])
      BY <2>4 DEF Steered, Twist
    <3>2. command' \in Course!Pursuit(pose', heading', path[Course!Ahead(idx')])
      BY <3>1, SameAim
    <3> QED
      BY <1>1, <1>3, <2>1, <2>2, <3>1, <3>2 DEF Course!Pursue
  <2> QED
    BY <2>1, <2>3, <2>4
<1>8. CASE Compute(step, d)
  BY <1>6, <1>7, <1>8 DEF Compute
<1> QED
  BY <1>4, <1>5, <1>8 DEF Return, d

(* Every step of the composite is one of Retrace, or one that it does not  *)
(* see.                                                                    *)
LEMMA VehicleStepIsCourse ==
  ASSUME IInv, CourseInv, [VehicleNext]_vehicleVars
  PROVE  [Course!Tick]_(Course!vars)
<1>1. CASE VehicleTick
  <2>1. PICK step \in 1 .. MaxStep, read \in BOOLEAN, drive \in BOOLEAN,
             f \in Frame \cup {NoFrame} : Drive(step, read, drive, f)
    BY <1>1 DEF VehicleTick
  <2>2. Course!Sense
    BY <2>1, TravelIsSense DEF Drive
  <2>3. Steered /\ crumbs' = IF Len(trail') < 2 THEN 1 ELSE 2
    BY <2>1 DEF Drive, Steered, CourseInv, HistoryInv
  <2>4. CASE Return(step)
    BY <2>2, <2>3, <2>4, ReturnIsCourse DEF Course!Tick
  <2>5. CASE \/ Calibrate(step) /\ UNCHANGED controllerVars
             \/ Await /\ UNCHANGED controllerVars
             \/ Leave
    BY <2>2, <2>3, <2>5, OutwardIsCourse DEF Course!Tick
  <2> QED
    BY <2>1, <2>4, <2>5 DEF Drive
<1>2. CASE Stop \/ Over \/ UNCHANGED vehicleVars
  <2>1. UNCHANGED <<state, courseVars>>
    BY <1>2 DEF Stop, Over, Exit, Crash, vehicleVars, vars, loopVars
  <2> QED
    BY <2>1 DEF courseVars, trailVars, estimatorVars, controllerVars, groundVars, Mode,
       Course!vars, Course!driveVars, Course!trailVars, Course!estimatorVars,
       Course!controllerVars, Course!groundVars
<1> QED
  BY <1>1, <1>2 DEF VehicleNext

(* The daemon on its vehicle drives as Retrace has it, through every gate, *)
(* halt, stale reading and late iteration of the loop                      *)
(* (run_vehicle.cpp:384-640).                                              *)
THEOREM VehicleIsCourse == VehicleSpec => ImplementsRetrace
<1>1. VehicleInit => Course!Init
  <2> SUFFICES ASSUME VehicleInit PROVE Course!Init
    OBVIOUS
  <2>1. Mode = "manual"
    BY DEF VehicleInit, Init, Mode
  <2> QED
    BY <2>1, SamePlane DEF VehicleInit, TrailInit, Course!Init, Course!TrailInit
<1>2. IInv /\ CourseInv /\ [VehicleNext]_vehicleVars => [Course!Tick]_(Course!vars)
  BY VehicleStepIsCourse
<1> QED
  BY <1>1, <1>2, VehicleInvariance, PTL DEF VehicleSpec, ImplementsRetrace, Course!Spec

-----------------------------------------------------------------------------
(* What is proved of the parts, of the daemon on its vehicle.              *)

Daemon == INSTANCE RetraceProofs WITH
  state <- Mode, phase <- "off", zupt <- TRUE, toGo <- 0, steps <- 0,
  nextStop <- 0, completed <- FALSE, CalibSteps <- 0, MaxSteps <- 0,
  StopInterval <- 0, StopSteps <- 0

(* RetraceProofs has the module Retrace that Course is an instance of.     *)
LEMMA SameTick ==
  /\ Course!Init <=> Daemon!Init
  /\ Course!vars = Daemon!vars /\ Course!vars' = Daemon!vars'
  /\ Course!Tick <=> Daemon!Tick
<1>1. /\ Course!Still = Daemon!Still /\ Course!Home = Daemon!Home
      /\ Course!Twists = Daemon!Twists
      /\ \A p, q : Course!Dist(p, q) = Daemon!Dist(p, q)
      /\ \A h, w : Course!Turned(h, w) = Daemon!Turned(h, w)
      /\ \A p, h, v : Course!Advanced(p, h, v) = Daemon!Advanced(p, h, v)
      /\ \A n : Course!Abs(n) = Daemon!Abs(n)
  BY DEF Course!Still, Course!Home, Course!Twists, Course!Dist, Course!Abs,
     Course!Turned, Course!Advanced, Daemon!Still, Daemon!Home, Daemon!Twists,
     Daemon!Dist, Daemon!Abs, Daemon!Turned, Daemon!Advanced
<1>2. /\ \A t : Course!Update(t) <=> Daemon!Update(t)
      /\ \A m : Course!Parts(m) = Daemon!Parts(m)
  BY <1>1 DEF Course!Update, Daemon!Update, Course!Parts, Daemon!Parts
<1>3. Course!Sense <=> Daemon!Sense
  <2>1. \A t, m : Course!Travels(t, m) <=> Daemon!Travels(t, m)
    BY <1>1, <1>2 DEF Course!Travels, Daemon!Travels
  <2> QED
    BY <1>2, <2>1 DEF Course!Sense, Daemon!Sense
<1>4. /\ \A p : Course!Done(p) <=> Daemon!Done(p)
      /\ \A p : Course!Scanned(p) = Daemon!Scanned(p)
      /\ Course!Unfollow <=> Daemon!Unfollow
      /\ \A s : Course!Follow(s) <=> Daemon!Follow(s)
      /\ \A s : Course!Reversed(s) = Daemon!Reversed(s)
      /\ \A p, h : Course!Outings(p, h) = Daemon!Outings(p, h)
  BY <1>1 DEF Course!Done, Course!Scanned, Course!Unfollow, Course!Follow,
     Course!Reversed, Course!Outings, Daemon!Done, Daemon!Scanned, Daemon!Unfollow,
     Daemon!Follow, Daemon!Reversed, Daemon!Outings
<1>5. \A p : Course!AdvanceClosest(p) <=> Daemon!AdvanceClosest(p)
  BY <1>1, <1>4 DEF Course!AdvanceClosest, Daemon!AdvanceClosest
<1>6. \A i, j : Course!Along(i, j) = Daemon!Along(i, j)
  BY <1>1 DEF Course!Along, Daemon!Along
<1>7. \A i : Course!Ahead(i) = Daemon!Ahead(i)
  BY <1>6 DEF Course!Ahead, Daemon!Ahead, Course!Min, Daemon!Min
<1>8. /\ \A lead, to : Course!Turns(lead, to) = Daemon!Turns(lead, to)
      /\ \A h : Course!Leading(h) = Daemon!Leading(h)
      /\ \A p, look : Course!Bearing(p, look) = Daemon!Bearing(p, look)
  BY DEF Course!Turns, Daemon!Turns, Course!Leading, Daemon!Leading, Course!Opposite,
     Daemon!Opposite, Course!Bearing, Daemon!Bearing
<1>9. \A p, h, look : Course!Pursuit(p, h, look) = Daemon!Pursuit(p, h, look)
  BY <1>8 DEF Course!Pursuit, Daemon!Pursuit
<1>10. /\ Course!Relay <=> Daemon!Relay
       /\ Course!LoseLink <=> Daemon!LoseLink
       /\ Course!Regain <=> Daemon!Regain
  BY <1>1, <1>4 DEF Course!Relay, Course!LoseLink, Course!Regain, Daemon!Relay,
     Daemon!LoseLink, Daemon!Regain, Course!controllerVars, Daemon!controllerVars
<1>11. /\ Course!Hold <=> Daemon!Hold
       /\ Course!Pursue <=> Daemon!Pursue
       /\ Course!Wait <=> Daemon!Wait
  BY <1>1, <1>4, <1>5, <1>7, <1>9 DEF Course!Hold, Course!Pursue, Course!Wait,
     Daemon!Hold, Daemon!Pursue, Daemon!Wait, Course!controllerVars, Daemon!controllerVars
<1>12. Course!Tick <=> Daemon!Tick
  BY <1>3, <1>10, <1>11 DEF Course!Tick, Daemon!Tick
<1>13. Course!Init <=> Daemon!Init
  BY <1>1 DEF Course!Init, Daemon!Init, Course!TrailInit, Daemon!TrailInit
<1>14. Course!vars = Daemon!vars /\ Course!vars' = Daemon!vars'
  BY DEF Course!vars, Daemon!vars, Course!driveVars, Daemon!driveVars,
     Course!trailVars, Daemon!trailVars, Course!estimatorVars, Daemon!estimatorVars,
     Course!controllerVars, Daemon!controllerVars, Course!groundVars, Daemon!groundVars
<1> QED
  BY <1>12, <1>13, <1>14

(* The vehicle is where its simulation is off. *)
LEMMA VehicleIsDaemon == VehicleSpec => Daemon!SimSpec
<1>1. Course!Init => Daemon!SimInit
  BY SameTick DEF Daemon!SimInit
<1>2. [Course!Tick]_(Course!vars) => [Daemon!Next]_(Daemon!allVars)
  BY SameTick DEF Daemon!Next, Daemon!Drives, Daemon!allVars, Daemon!simVars
<1> QED
  BY <1>1, <1>2, VehicleIsCourse, PTL DEF ImplementsRetrace, Course!Spec, Daemon!SimSpec

(* The constants of the vehicle are constants of RetraceProofs. *)
LEMMA DaemonAssumptions ==
  Daemon!TrailAssumption /\ Daemon!RetraceAssumption /\ Daemon!SimulationAssumption
<1>1. Daemon!Place = Place /\ Daemon!Headings = Headings
  BY DEF Daemon!Place, Place, Daemon!Headings, Headings
<1> QED
  BY <1>1

(* The daemon, with all its gates, halts and failures, and whatever the    *)
(* operator and the sensors do: it lays an even trail; its scan for the    *)
(* closest point reaches the one that it was sent towards; and when it     *)
(* says that it has arrived it is home, but for what the estimator was not *)
(* told of (run_vehicle.cpp:505-588, controller.cpp:22-38).                *)
THEOREM VehicleComesHome ==
  VehicleSpec =>
    [](Course!TrailIsEven /\ Course!ScanReachesAim /\ Course!ArrivesNearHome)
<1>1. Daemon!SimSpec => []Daemon!TrailIsEven
  BY DaemonAssumptions, Daemon!TrailIsEvenlyLaid
<1>2. Daemon!SimSpec => []Daemon!ScanReachesAim
  BY DaemonAssumptions, Daemon!ScanIsLongEnough
<1>3. Daemon!SimSpec => []Daemon!ArrivesNearHome
  BY DaemonAssumptions, Daemon!BacktrackArrivesHome
<1>4. /\ Daemon!TrailIsEven => Course!TrailIsEven
      /\ Daemon!ScanReachesAim => Course!ScanReachesAim
      /\ Daemon!ArrivesNearHome => Course!ArrivesNearHome
  <2>1. /\ Course!Home = Daemon!Home
        /\ \A p, q : Course!Dist(p, q) = Daemon!Dist(p, q)
        /\ \A p, m : Course!Moved(p, m) = Daemon!Moved(p, m)
    BY DEF Course!Home, Daemon!Home, Course!Dist, Daemon!Dist, Course!Abs, Daemon!Abs,
       Course!Moved, Daemon!Moved
  <2>2. \A p : Course!Scanned(p) = Daemon!Scanned(p)
    BY <2>1 DEF Course!Scanned, Daemon!Scanned
  <2>3. \A i, j : Course!Along(i, j) = Daemon!Along(i, j)
    BY <2>1 DEF Course!Along, Daemon!Along
  <2>4. \A i : Course!Ahead(i) = Daemon!Ahead(i)
    BY <2>3 DEF Course!Ahead, Daemon!Ahead, Course!Min, Daemon!Min
  <2>5. Daemon!ScanReachesAim => Course!ScanReachesAim
    BY <2>1, <2>2, <2>4 DEF Course!ScanReachesAim, Daemon!ScanReachesAim
  <2> QED
    BY <2>1, <2>5 DEF Course!TrailIsEven, Course!TrailIsDense, Course!TrailIsSparse,
       Course!ArrivesNearHome, Daemon!TrailIsEven, Daemon!TrailIsDense,
       Daemon!TrailIsSparse, Daemon!ArrivesNearHome
<1> QED
  BY <1>1, <1>2, <1>3, <1>4, VehicleIsDaemon, PTL
=============================================================================
