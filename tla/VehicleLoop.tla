---------------------------- MODULE VehicleLoop ----------------------------
(***************************************************************************)
(* The 50 Hz control loop of apps/run_vehicle.cpp.  One step is one whole  *)
(* iteration: read the IMU, the VESC status and the operator link, update  *)
(* the dead reckoning, take one branch of the state machine, pass the      *)
(* safety gates and send SET_RPM.  Around the loop, the process may be     *)
(* told to stop, be killed, and is restarted by its service manager.       *)
(*                                                                         *)
(* An iteration begins some periods after the previous one (an overrun     *)
(* makes it more than one).  Deadlines are kept as the periods left.  The  *)
(* pose is abstracted to what the loop decides from: whether the trail has *)
(* two points, how far the next halt is, and what the controller answers.  *)
(***************************************************************************)
EXTENDS OperatorInput, ImuHealth

CONSTANTS
  MaxStep,       \* bound: periods between two iterations
  MaxMove,       \* bound: distance units travelled in one iteration
  CalibWindow,   \* --calib-seconds, in periods
  CalibExtend,   \* the 5 s extension, in periods
  StopInterval,  \* --stop-interval, in distance units; 0 disables the halts
  StopPeriods    \* --stop-seconds, in periods

ASSUME StepAssumption == MaxStep \in Nat \ {0}
ASSUME MoveAssumption == MaxMove \in Nat
ASSUME CalibAssumption == CalibWindow \in Nat \ {0} /\ CalibExtend \in Nat \ {0}
ASSUME StopAssumption == StopInterval \in Nat /\ StopPeriods \in Nat

VARIABLES
  running,      \* the process is alive
  state,        \* VehicleState
  cmd,          \* where the twist of the last SET_RPM came from
  driveOk,      \* drive_ok of the last iteration
  stationary,   \* estimator.last_stationary()
  crumbs,       \* breadcrumbs, counted up to the two a path needs
  following,    \* controller holds a BacktrackController
  toStop,       \* bt_start_dist + next_stop_at - total_distance
  haltLeft,     \* halt_until_s - now, 0 once past
  calibLeft,    \* calib_end_s - now, 0 once past
  calibTicks,   \* calib_ticks
  calibStill,   \* calib_still_ticks
  accepted      \* history: iterations of this calibration window in which the
                \* stationarity detector accepted a sample

loopVars == <<state, cmd, driveOk, crumbs, following, toStop, haltLeft>>
calibVars == <<stationary, calibLeft, calibTicks, calibStill, accepted>>
vars == <<running, loopVars, calibVars, inputVars, imuVars>>

States == {"calibrating", "idle", "manual", "backtrack", "arrived"}
Commands == {"none", "zero", "operator", "pursuit"}   \* "none": nothing sent yet
Answers == {"done", "move", "nonfinite"}              \* of the controller

CalibMax == IF CalibWindow < CalibExtend THEN CalibExtend ELSE CalibWindow

TypeOK ==
  /\ InputTypeOK
  /\ ImuTypeOK
  /\ running \in BOOLEAN
  /\ state \in States
  /\ cmd \in Commands
  /\ driveOk \in BOOLEAN
  /\ stationary \in BOOLEAN
  /\ crumbs \in 1 .. 2
  /\ following \in BOOLEAN
  /\ toStop \in -StopInterval .. StopInterval
  /\ haltLeft \in 0 .. StopPeriods
  /\ calibLeft \in 0 .. CalibMax
  /\ calibTicks \in 0 .. CalibMax
  /\ calibStill \in 0 .. calibTicks
  /\ accepted \in 0 .. calibTicks

-----------------------------------------------------------------------------
(* A deadline that was left periods away, step periods later. *)
Remaining(left, step) == IF left > step THEN left - step ELSE 0

Init ==
  /\ running = TRUE
  /\ InputInit
  /\ ImuInit
  /\ state = "calibrating"
  /\ cmd = "none"
  /\ driveOk = FALSE
  /\ stationary = FALSE
  /\ crumbs = 1
  /\ following = FALSE
  /\ toStop = 0
  /\ haltLeft = 0
  /\ calibLeft = CalibWindow
  /\ calibTicks = 0
  /\ calibStill = 0
  /\ accepted = 0

-----------------------------------------------------------------------------
(* The inputs of an iteration.  The estimator is updated only when this    *)
(* iteration's IMU read succeeded, in every state.                         *)
Sense(step, read, drive, f) ==
  /\ ReadImu(step, read)
  /\ driveOk' = drive
  /\ PollOperator(step, f)

Updated == imuBad = 0

(* DeadReckoning::update may drop a breadcrumb. *)
Trail == crumbs' \in IF Updated' THEN {crumbs, 2} ELSE {crumbs}

(* The safety gates, in front of set_erpm. *)
Gated_EstopOnly == latched
Gated == latched \/ (ImuFailing /\ state # "manual")
Send(c) == cmd' = IF Gated' THEN "zero" ELSE c

-----------------------------------------------------------------------------
(* CALIBRATING: count the window's iterations and those whose last         *)
(* stationarity verdict is "still"; at its end go on to IDLE or extend.    *)
WindowOver(step) == Remaining(calibLeft, step) = 0

CountStill ==
  /\ calibTicks' = calibTicks + 1
  /\ calibStill' = calibStill + (IF stationary' THEN 1 ELSE 0)
  /\ accepted' = accepted + (IF Updated' /\ stationary' THEN 1 ELSE 0)

CalibrationOk_Swapped(ticks, still) == ticks * 2 <= still
CalibrationOk(ticks, still) == still * 2 >= ticks

Calibrate(step) ==
  LET ticks == calibTicks + 1
      still == calibStill + (IF stationary' THEN 1 ELSE 0)
  IN /\ state = "calibrating"
     /\ stationary' \in IF Updated' THEN BOOLEAN ELSE {stationary}
     /\ \/ /\ ~WindowOver(step)
           /\ CountStill
           /\ calibLeft' = Remaining(calibLeft, step)
           /\ UNCHANGED state
        \/ /\ WindowOver(step)
           /\ CalibrationOk(ticks, still)
           /\ CountStill
           /\ calibLeft' = 0
           /\ state' = "idle"
        \/ /\ WindowOver(step)
           /\ ~CalibrationOk(ticks, still)
           /\ calibLeft' = CalibExtend
           /\ calibTicks' = 0 /\ calibStill' = 0 /\ accepted' = 0
           /\ UNCHANGED state
     /\ UNCHANGED <<following, toStop, haltLeft>>
     /\ Send("zero")

Await_OnlyIdle ==
  /\ state \in {"idle", "arrived"}
  /\ state' = IF LinkOk' /\ state = "idle" THEN "manual" ELSE state
  /\ UNCHANGED <<following, toStop, haltLeft>>
  /\ Send("zero")

(* IDLE and ARRIVED: stand until the operator link is up. *)
Await ==
  /\ state \in {"idle", "arrived"}
  /\ state' = IF LinkOk' THEN "manual" ELSE state
  /\ UNCHANGED <<following, toStop, haltLeft>>
  /\ Send("zero")

-----------------------------------------------------------------------------
(* MANUAL: hold under a latched E-STOP; relay while the link is up; on     *)
(* link loss hold without a trusted pose, give up without a trail, or      *)
(* build the controller and backtrack.                                     *)
HoldInManual ==
  /\ latched' \/ (~LinkOk' /\ ~estimateValid')
  /\ UNCHANGED <<state, following, toStop, haltLeft>>
  /\ Send("zero")

Relay_Stale ==
  /\ ~latched'
  /\ UNCHANGED <<state, following, toStop, haltLeft>>
  /\ Send("operator")

Relay ==
  /\ ~latched' /\ LinkOk'
  /\ UNCHANGED <<state, following, toStop, haltLeft>>
  /\ Send("operator")

NothingToBacktrack ==
  /\ ~latched' /\ ~LinkOk' /\ estimateValid'
  /\ crumbs' < 2
  /\ state' = "arrived"
  /\ UNCHANGED <<following, toStop, haltLeft>>
  /\ Send("zero")

StartBacktrack_AnyLatch ==
  /\ ~LinkOk' /\ estimateValid'
  /\ crumbs' >= 2
  /\ following' = TRUE
  /\ toStop' = StopInterval
  /\ haltLeft' = 0
  /\ state' = "backtrack"
  /\ Send("zero")

StartBacktrack ==
  /\ ~latched' /\ ~LinkOk' /\ estimateValid'
  /\ crumbs' >= 2
  /\ following' = TRUE
  /\ toStop' = StopInterval
  /\ haltLeft' = 0
  /\ state' = "backtrack"
  /\ Send("zero")

Manual ==
  /\ state = "manual"
  /\ HoldInManual \/ Relay \/ NothingToBacktrack \/ StartBacktrack

-----------------------------------------------------------------------------
(* FAILSAFE_BACKTRACK.  The estimator has moved on by d before the branch; *)
(* toStop is followed down to one interval past the halt (a bound: the     *)
(* next iteration with fresh odometry halts).                              *)
Travelled(d) == toStop - d

Regained_KeepsController ==
  /\ LinkOk'
  /\ state' = "manual"
  /\ UNCHANGED <<following, toStop, haltLeft>>
  /\ Send("zero")

Regained_RelaysAtOnce ==
  /\ LinkOk'
  /\ following' = FALSE
  /\ state' = "manual"
  /\ UNCHANGED <<toStop, haltLeft>>
  /\ Send("operator")

Regained ==
  /\ LinkOk'
  /\ following' = FALSE
  /\ state' = "manual"
  /\ UNCHANGED <<toStop, haltLeft>>
  /\ Send("zero")

HoldForOdometry(step, d) ==
  /\ ~LinkOk' /\ ~driveOk'
  /\ toStop' = Travelled(d)
  /\ haltLeft' = Remaining(haltLeft, step)
  /\ UNCHANGED <<state, following>>
  /\ Send("zero")

HoldHalt(step, d) ==
  /\ ~LinkOk' /\ driveOk'
  /\ Remaining(haltLeft, step) > 0
  /\ toStop' = Travelled(d)
  /\ haltLeft' = Remaining(haltLeft, step)
  /\ UNCHANGED <<state, following>>
  /\ Send("zero")

HaltDue(d) == StopInterval > 0 /\ Travelled(d) <= 0

BeginHalt_SameMark(step, d) ==
  /\ ~LinkOk' /\ driveOk'
  /\ Remaining(haltLeft, step) = 0
  /\ HaltDue(d)
  /\ haltLeft' = StopPeriods
  /\ toStop' = Travelled(d)
  /\ UNCHANGED <<state, following>>
  /\ Send("zero")

BeginHalt(step, d) ==
  /\ ~LinkOk' /\ driveOk'
  /\ Remaining(haltLeft, step) = 0
  /\ HaltDue(d)
  /\ haltLeft' = StopPeriods
  /\ toStop' = Travelled(d) + StopInterval
  /\ UNCHANGED <<state, following>>
  /\ Send("zero")

Pursue(step, d, answer) ==
  /\ ~LinkOk' /\ driveOk'
  /\ Remaining(haltLeft, step) = 0
  /\ ~HaltDue(d)
  /\ haltLeft' = 0
  /\ toStop' = Travelled(d)
  /\ \/ /\ answer = "done"
        /\ following' = FALSE
        /\ state' = "arrived"
        /\ Send("zero")
     \/ /\ answer # "done"
        /\ UNCHANGED <<state, following>>
        /\ Send(IF answer = "move" THEN "pursuit" ELSE "zero")

Backtrack(step) ==
  /\ state = "backtrack"
  /\ \/ Regained
     \/ \E d \in 0 .. (IF Updated' /\ StopInterval > 0 THEN MaxMove ELSE 0) :
          /\ Travelled(d) >= -StopInterval
          /\ \/ HoldForOdometry(step, d)
             \/ HoldHalt(step, d)
             \/ BeginHalt(step, d)
             \/ \E answer \in Answers : Pursue(step, d, answer)

-----------------------------------------------------------------------------
(* One iteration of the loop. *)
Iterate(step, read, drive, f) ==
  /\ Sense(step, read, drive, f)
  /\ Trail
  /\ \/ Calibrate(step)
     \/ /\ Await \/ Manual \/ Backtrack(step)
        /\ UNCHANGED calibVars

Tick ==
  /\ running
  /\ UNCHANGED running
  /\ \E step \in 1 .. MaxStep, read \in BOOLEAN, drive \in BOOLEAN,
        f \in Frame \cup {NoFrame} : Iterate(step, read, drive, f)

(* A signal or an exception leaves through MotorStopGuard, which sends     *)
(* zero; a kill or a fault does not.                                       *)
Exit ==
  /\ running
  /\ running' = FALSE
  /\ cmd' = "zero"
  /\ UNCHANGED <<state, driveOk, crumbs, following, toStop, haltLeft,
                 calibVars, inputVars, imuVars>>

Crash ==
  /\ running
  /\ running' = FALSE
  /\ UNCHANGED <<loopVars, calibVars, inputVars, imuVars>>

(* Restart=always of vehicle.service: nothing survives. *)
Restart ==
  /\ ~running
  /\ running' = TRUE
  /\ InputReset
  /\ ImuReset
  /\ state' = "calibrating"
  /\ cmd' = "none"
  /\ driveOk' = FALSE
  /\ stationary' = FALSE
  /\ crumbs' = 1
  /\ following' = FALSE
  /\ toStop' = 0
  /\ haltLeft' = 0
  /\ calibLeft' = CalibWindow
  /\ calibTicks' = 0
  /\ calibStill' = 0
  /\ accepted' = 0

Next == Tick \/ Exit \/ Crash \/ Restart

Spec == Init /\ [][Next]_vars

(* The loop paces itself to the next period, and the service manager       *)
(* restarts a dead process.                                                *)
FairSpec == Spec /\ WF_vars(Tick) /\ WF_vars(Restart)
-----------------------------------------------------------------------------
(* Safety.                                                                 *)

(* The failsafe never drives while an E-STOP is latched: an E-STOP frame   *)
(* that arrives during BACKTRACK ends it in the same iteration, and a link *)
(* lost under a latched E-STOP never starts it.                            *)
NoBacktrackWhileLatched == state = "backtrack" => ~latched

(* The operator's twist reaches the tracks only in MANUAL, over a live     *)
(* link, without a latched E-STOP, and from a drive frame: never the last  *)
(* command of a link that went silent, never an E-STOP frame's payload.    *)
RelayNeedsOperator ==
  cmd = "operator" =>
    state = "manual" /\ LinkOk /\ ~latched /\ lastMode = "drive"

(* The controller's twist reaches the tracks only in BACKTRACK, with the   *)
(* link down, fresh odometry, a working IMU and no halt in progress.       *)
PursuitNeedsSensors ==
  cmd = "pursuit" =>
    state = "backtrack" /\ ~LinkOk /\ driveOk /\ ~ImuFailing /\ haltLeft = 0

(* There is a controller exactly in BACKTRACK, and it has a path of at     *)
(* least two points: compute() is never called on a null pointer, a second *)
(* link loss never follows the old path, and the constructor never throws. *)
ControllerInBacktrack ==
  /\ following <=> state = "backtrack"
  /\ following => crumbs = 2

(* Trust in the pose, once withdrawn, only comes back with a new process.  *)
TrustIsOneWay == [][~estimateValid /\ estimateValid' => ~running]_vars

(* The tracks change hands only as Authority allows.                       *)
Holder ==
  CASE cmd = "operator" -> "operator"
    [] cmd = "pursuit" -> "pursuit"
    [] OTHER -> "nobody"

Abstract == INSTANCE Authority WITH holder <- Holder, link <- LinkOk, estop <- latched
ImplementsAuthority == Abstract!Spec

(* What run_vehicle.cpp:22-23 says of a stale pose: it disables backtrack  *)
(* until restart.                                                          *)
AutonomyOnlyOnValidPose == cmd = "pursuit" => estimateValid

(* What run_vehicle.cpp:9-10 says of CALIBRATING: it does not finish until *)
(* the stationarity detector accepted samples.                             *)
CalibrationSawSamples == state # "calibrating" => accepted > 0

-----------------------------------------------------------------------------
(* Liveness.                                                               *)

(* A link that stays up ends in MANUAL, whatever the loop was doing.       *)
PersistentLinkGivesManual ==
  <>[](running /\ LinkOk /\ state # "calibrating") => <>[](state = "manual")

(* A BACKTRACK_PARTIAL halt ends, also when odometry comes and goes and    *)
(* the vehicle rolls on from one mark past the next, as long as it rolls   *)
(* less than an interval per halt.                                         *)
HaltsEnd ==
  StopPeriods * MaxMove < StopInterval =>
    (state = "backtrack" /\ haltLeft > 0
       ~> haltLeft = 0 \/ state # "backtrack" \/ ~running)

(* A vehicle at rest with a working IMU gets out of CALIBRATING, however   *)
(* many windows failed before.                                             *)
CalibrationFinishes ==
  <>[](running /\ Updated /\ stationary) => <>[](state # "calibrating")

(* New drive frames, and no E-STOP any more, clear the latch, also when    *)
(* the link drops between them.                                            *)
LatchClears ==
  <>[](running /\ lastMode = "drive") /\ []<>(linkAge = 0) => <>[]~latched

(* An IMU that keeps failing and never recovers costs the pose its trust:  *)
(* a few good reads in between do not restart the outage timer.            *)
FlappingImuLosesTrust ==
  <>[](running /\ ~ImuOk) /\ []<>ImuFailing => <>~estimateValid
=============================================================================
