-------------------------- MODULE VehicleLoopProofs --------------------------
(***************************************************************************)
(* Theorems about VehicleLoop for every value of its constants.            *)
(***************************************************************************)
EXTENDS VehicleLoop, TLAPS

USE SeqAssumption, LinkAssumption, ClearAssumption, ThresholdAssumption,
    OutageAssumption, StepAssumption, MoveAssumption, CalibAssumption,
    StopAssumption
    DEF SeqAssumption, LinkAssumption, ClearAssumption, ThresholdAssumption,
    OutageAssumption, StepAssumption, MoveAssumption, CalibAssumption,
    StopAssumption

-----------------------------------------------------------------------------
(* The inductive invariant.                                                *)

(* A latch that holds has not yet counted its drive frames, and the last   *)
(* accepted frame is an E-STOP only under the latch.                       *)
LatchInv ==
  /\ latched => clearCount < ClearFrames
  /\ lastMode = "estop" => latched

(* A window still open has room for the iterations that are left of it.    *)
WindowInv ==
  state = "calibrating" => calibLeft > 0 /\ calibTicks + calibLeft <= CalibMax

IInv ==
  /\ TypeOK
  /\ LatchInv
  /\ WindowInv
  /\ NoBacktrackWhileLatched
  /\ RelayNeedsOperator
  /\ PursuitNeedsSensors
  /\ ControllerInBacktrack

-----------------------------------------------------------------------------
(* The operator input keeps its types and the latch its meaning; only a    *)
(* frame that also refreshes the link can latch (run_vehicle.cpp:433-455). *)
LEMMA PollKeeps ==
  ASSUME InputTypeOK, LatchInv,
         NEW step \in 1 .. MaxStep, NEW f \in Frame \cup {NoFrame},
         PollOperator(step, f)
  PROVE  InputTypeOK' /\ LatchInv' /\ (latched' => latched \/ LinkOk')
<1>1. CASE IsNew(f)
  <2>1. f \in Frame /\ Accepted(f)
    BY <1>1 DEF PollOperator, IsNew
  <2>2. f.seq \in Seqs /\ f.mode \in Modes
    BY <2>1 DEF Frame
  <2>3. linkAge' = 0 /\ LinkOk'
    BY <2>1 DEF Accepted, LinkOk
  <2>4. CASE f.mode = "estop"
    BY <2>1, <2>2, <2>3, <2>4 DEF Accepted, Latch, CountDrive, InputTypeOK, LatchInv, Modes
  <2>5. CASE f.mode = "drive" /\ ~latched
    BY <2>1, <2>2, <2>3, <2>5 DEF Accepted, Latch, CountDrive, InputTypeOK, LatchInv, Modes
  <2>6. CASE f.mode = "drive" /\ latched
    <3>1. /\ lastSeq' = f.seq /\ lastMode' = "drive"
          /\ clearCount' = clearCount + 1
          /\ clearCount' \in 0 .. ClearFrames
      BY <2>1, <2>6 DEF Accepted, Latch, CountDrive, InputTypeOK, LatchInv
    <3>2. CASE clearCount' < ClearFrames /\ UNCHANGED latched
      BY <2>2, <2>3, <2>6, <3>1, <3>2 DEF InputTypeOK, LatchInv, Modes
    <3>3. CASE clearCount' >= ClearFrames /\ latched' = FALSE
      <4>1. latched' \in BOOLEAN /\ ~latched'
        BY <3>3, Zenon
      <4> QED
        BY <2>2, <2>3, <3>1, <4>1 DEF InputTypeOK, LatchInv, Modes
    <3> QED
      BY <2>1, <2>6, <3>2, <3>3 DEF Accepted, CountDrive
  <2> QED
    BY <2>2, <2>4, <2>5, <2>6 DEF Modes, InputTypeOK
<1>2. CASE ~IsNew(f)
  <2>1. Ignored(step)
    BY <1>2 DEF PollOperator
  <2>2. linkAge' \in 0 .. LinkTimeout + 1
    BY <2>1 DEF Ignored, Aged, InputTypeOK
  <2> QED
    BY <2>1, <2>2 DEF Ignored, InputTypeOK, LatchInv
<1> QED
  BY <1>1, <1>2

(* The IMU health keeps its types, and trust is never given back by a read *)
(* (run_vehicle.cpp:394-420).                                              *)
LEMMA ReadKeeps ==
  ASSUME ImuTypeOK, NEW step \in 1 .. MaxStep, NEW read \in BOOLEAN,
         ReadImu(step, read)
  PROVE  ImuTypeOK' /\ (estimateValid' => estimateValid)
<1>1. imuGood' \in 0 .. ImuThreshold /\ imuBad' \in 0 .. ImuThreshold
  BY DEF ReadImu, Streaks, Counted, ImuTypeOK
<1>2. OutageAfter(step) \in {Healthy} \cup 0 .. ImuOutage + 1
  BY DEF OutageAfter, Healthy, ImuTypeOK
<1>3. unhealthyFor' \in {Healthy} \cup 0 .. ImuOutage + 1
  <2>1. /\ unhealthyFor' \in {0, OutageAfter(step), Healthy}
    BY DEF ReadImu, Failing, Recovered, InBetween
  <2> QED
    BY <1>2, <2>1 DEF Healthy
<1>4. estimateValid' = estimateValid \/ estimateValid' = FALSE
  BY Zenon DEF ReadImu, Failing, Recovered, InBetween
<1>5. estimateValid' \in BOOLEAN /\ (estimateValid' => estimateValid)
  <2>1. estimateValid \in BOOLEAN
    BY DEF ImuTypeOK
  <2>2. CASE estimateValid' = estimateValid
    BY <2>1, <2>2
  <2>3. CASE estimateValid' = FALSE
    BY <2>3, Zenon
  <2> QED
    BY <1>4, <2>2, <2>3
<1> QED
  BY <1>1, <1>3, <1>5 DEF ImuTypeOK

-----------------------------------------------------------------------------
(* A process that starts satisfies the invariant (run_vehicle.cpp:345-382). *)
LEMMA InitIInv == Init => IInv
<1> SUFFICES ASSUME Init PROVE IInv
  OBVIOUS
<1>1. InputTypeOK
  <2>1. latched \in BOOLEAN
    BY Zenon DEF Init, InputInit
  <2> QED
    BY <2>1 DEF Init, InputInit, InputTypeOK, Modes
<1>2. ImuTypeOK
  <2>1. estimateValid \in BOOLEAN
    BY Zenon DEF Init, ImuInit
  <2> QED
    BY <2>1 DEF Init, ImuInit, ImuTypeOK, Healthy
<1>3. TypeOK
  <2>1. /\ running \in BOOLEAN /\ driveOk \in BOOLEAN
        /\ stationary \in BOOLEAN /\ following \in BOOLEAN
    BY Zenon DEF Init
  <2> QED
    BY <1>1, <1>2, <2>1 DEF Init, TypeOK, States, Commands, CalibMax
<1>4. LatchInv
  BY DEF Init, InputInit, LatchInv
<1>5. WindowInv
  BY DEF Init, WindowInv, CalibMax
<1> QED
  BY <1>3, <1>4, <1>5 DEF Init, IInv, NoBacktrackWhileLatched, RelayNeedsOperator,
     PursuitNeedsSensors, ControllerInBacktrack

(* Exit, Crash and Restart keep the invariant. *)
LEMMA LifeCycleKeeps == ASSUME IInv, Exit \/ Crash \/ Restart PROVE IInv'
<1>1. CASE Exit
  BY <1>1 DEF Exit, IInv, TypeOK, InputTypeOK, ImuTypeOK, LatchInv, WindowInv,
     NoBacktrackWhileLatched, RelayNeedsOperator, PursuitNeedsSensors,
     ControllerInBacktrack, Commands, calibVars, inputVars, imuVars, LinkOk,
     ImuFailing
<1>2. CASE Crash
  BY <1>2 DEF Crash, IInv, TypeOK, InputTypeOK, ImuTypeOK, LatchInv, WindowInv,
     NoBacktrackWhileLatched, RelayNeedsOperator, PursuitNeedsSensors,
     ControllerInBacktrack, loopVars, calibVars, inputVars, imuVars, LinkOk,
     ImuFailing
<1>3. CASE Restart
  <2>1. /\ running' \in BOOLEAN /\ driveOk' \in BOOLEAN
        /\ stationary' \in BOOLEAN /\ following' \in BOOLEAN
        /\ latched' \in BOOLEAN /\ estimateValid' \in BOOLEAN
        /\ ~latched' /\ ~following'
    BY <1>3, Zenon DEF Restart, InputReset, ImuReset
  <2>2. TypeOK'
    BY <1>3, <2>1 DEF Restart, InputReset, ImuReset, TypeOK, InputTypeOK,
       ImuTypeOK, States, Commands, Modes, Healthy, CalibMax
  <2> QED
    BY <1>3, <2>1, <2>2 DEF Restart, InputReset, IInv, LatchInv, WindowInv,
       NoBacktrackWhileLatched, RelayNeedsOperator, PursuitNeedsSensors,
       ControllerInBacktrack, CalibMax
<1> QED
  BY <1>1, <1>2, <1>3

(* The calibration counters keep their types and their room.               *)
LEMMA CalibrateKeeps ==
  ASSUME IInv, NEW step \in 1 .. MaxStep, Calibrate(step)
  PROVE  /\ stationary' \in BOOLEAN
         /\ calibLeft' \in 0 .. CalibMax
         /\ calibTicks' \in 0 .. CalibMax
         /\ calibStill' \in 0 .. calibTicks'
         /\ accepted' \in 0 .. calibTicks'
         /\ WindowInv'
         /\ state' \in {"calibrating", "idle"}
<1> DEFINE ticks == calibTicks + 1
           still == calibStill + (IF stationary' THEN 1 ELSE 0)
<1>0. /\ state = "calibrating"
      /\ calibLeft \in 0 .. CalibMax /\ calibTicks \in 0 .. CalibMax
      /\ calibStill \in 0 .. calibTicks /\ accepted \in 0 .. calibTicks
      /\ calibLeft > 0 /\ calibTicks + calibLeft <= CalibMax
      /\ CalibMax \in Nat /\ CalibExtend <= CalibMax
  BY DEF Calibrate, IInv, TypeOK, WindowInv, CalibMax
<1>1. stationary' \in BOOLEAN
  BY DEF Calibrate, IInv, TypeOK
<1>2. CASE /\ ~WindowOver(step) /\ CountStill
           /\ calibLeft' = Remaining(calibLeft, step) /\ UNCHANGED state
  BY <1>0, <1>1, <1>2 DEF WindowOver, Remaining, CountStill, WindowInv
<1>3. CASE /\ WindowOver(step) /\ CalibrationOk(ticks, still) /\ CountStill
           /\ calibLeft' = 0 /\ state' = "idle"
  BY <1>0, <1>1, <1>3 DEF CountStill, WindowInv
<1>4. CASE /\ WindowOver(step) /\ ~CalibrationOk(ticks, still)
           /\ calibLeft' = CalibExtend
           /\ calibTicks' = 0 /\ calibStill' = 0 /\ accepted' = 0
           /\ UNCHANGED state
  BY <1>0, <1>1, <1>4 DEF WindowInv, CalibMax
<1> QED
  BY <1>2, <1>3, <1>4 DEF Calibrate

-----------------------------------------------------------------------------
(* What an iteration leaves when it sends zero: only the state, the        *)
(* controller and the halt bookkeeping have to be looked at.               *)
LEMMA ZeroSuffices ==
  ASSUME cmd' = "zero"
  PROVE  RelayNeedsOperator' /\ PursuitNeedsSensors'
  BY DEF RelayNeedsOperator, PursuitNeedsSensors

(* A branch that sends zero commands zero, gated or not.                   *)
LEMMA SendsZero == ASSUME Send("zero") PROVE cmd' = "zero"
  BY DEF Send

(* The part of the invariant a branch of the state machine is responsible  *)
(* for, the inputs of the iteration having been sensed.                    *)
Branch ==
  /\ state \in States
  /\ cmd \in Commands
  /\ following \in BOOLEAN
  /\ toStop \in -StopInterval .. StopInterval
  /\ haltLeft \in 0 .. StopPeriods
  /\ NoBacktrackWhileLatched
  /\ RelayNeedsOperator
  /\ PursuitNeedsSensors
  /\ ControllerInBacktrack

(* What Sense and Trail establish before the state machine runs.           *)
Sensed ==
  /\ driveOk' \in BOOLEAN
  /\ crumbs' \in 1 .. 2 /\ crumbs' >= crumbs
  /\ latched' => latched \/ LinkOk'
  /\ ~latched' => lastMode' = "drive"
  /\ ImuTypeOK'

(* CALIBRATING, IDLE and ARRIVED command zero and never have a controller. *)
LEMMA StandingKeeps ==
  ASSUME IInv, Sensed, NEW step \in 1 .. MaxStep, Calibrate(step) \/ Await
  PROVE  Branch'
<1>1. /\ cmd' = "zero"
      /\ UNCHANGED <<following, toStop, haltLeft>>
      /\ state # "backtrack"
  BY SendsZero DEF Calibrate, Await
<1>2. state' \in {"calibrating", "idle", "manual", "arrived"}
  BY DEF Calibrate, Await
<1>3. following' = FALSE
  BY <1>1, Zenon DEF IInv, TypeOK, ControllerInBacktrack
<1> QED
  BY <1>1, <1>2, <1>3, ZeroSuffices
  DEF Branch, IInv, TypeOK, States, Commands, NoBacktrackWhileLatched,
      ControllerInBacktrack

(* MANUAL relays, holds, gives up or starts the failsafe.                  *)
LEMMA ManualKeeps ==
  ASSUME IInv, Sensed, Manual
  PROVE  Branch' /\ state' # "calibrating"
<1>0. state = "manual" /\ ~following
  BY DEF Manual, IInv, ControllerInBacktrack
<1>1. CASE HoldInManual \/ NothingToBacktrack
  BY <1>0, <1>1, SendsZero, ZeroSuffices
  DEF HoldInManual, NothingToBacktrack, Branch, IInv, TypeOK, States, Commands,
      NoBacktrackWhileLatched, ControllerInBacktrack
<1>2. CASE Relay
  <2>1. /\ ~latched' /\ LinkOk' /\ lastMode' = "drive"
        /\ state' = "manual" /\ UNCHANGED <<following, toStop, haltLeft>>
        /\ cmd' \in {"operator", "zero"}
    BY <1>0, <1>2 DEF Relay, Sensed, Send
  <2> QED
    BY <1>0, <2>1
    DEF Branch, IInv, TypeOK, States, Commands, NoBacktrackWhileLatched,
        RelayNeedsOperator, PursuitNeedsSensors, ControllerInBacktrack
<1>3. CASE StartBacktrack
  <2>1. /\ ~latched' /\ crumbs' = 2
        /\ state' = "backtrack" /\ toStop' = StopInterval /\ haltLeft' = 0
        /\ cmd' = "zero"
    BY <1>3, SendsZero DEF StartBacktrack, Sensed
  <2>2. following' = TRUE
    BY <1>3 DEF StartBacktrack
  <2>3. following' \in BOOLEAN /\ following'
    BY <2>2, Zenon
  <2> QED
    BY <2>1, <2>3, ZeroSuffices
    DEF Branch, States, Commands, NoBacktrackWhileLatched, ControllerInBacktrack
<1> QED
  BY <1>1, <1>2, <1>3 DEF Manual

(* BACKTRACK stays with the link down, so it cannot have been latched now. *)
LEMMA BacktrackKeeps ==
  ASSUME IInv, Sensed, NEW step \in 1 .. MaxStep, Backtrack(step)
  PROVE  Branch' /\ state' # "calibrating"
<1>0. /\ state = "backtrack" /\ following /\ crumbs = 2 /\ crumbs' = 2
      /\ ~latched
      /\ toStop \in -StopInterval .. StopInterval
      /\ haltLeft \in 0 .. StopPeriods
  BY DEF Backtrack, IInv, TypeOK, NoBacktrackWhileLatched, ControllerInBacktrack,
         Sensed
<1>1. CASE Regained
  <2>1. following' = FALSE
    BY <1>1 DEF Regained
  <2>2. following' \in BOOLEAN /\ ~following'
    BY <2>1, Zenon
  <2> QED
    BY <1>0, <1>1, <2>2, SendsZero, ZeroSuffices
    DEF Regained, Branch, States, Commands, NoBacktrackWhileLatched,
        ControllerInBacktrack
<1>2. ASSUME NEW d \in Nat, Travelled(d) >= -StopInterval,
             \/ HoldForOdometry(step, d) \/ HoldHalt(step, d)
             \/ BeginHalt(step, d)
             \/ \E answer \in Answers : Pursue(step, d, answer)
      PROVE  Branch' /\ state' # "calibrating"
  <2>1. Travelled(d) \in -StopInterval .. StopInterval
    BY <1>0, <1>2 DEF Travelled
  <2>2. Remaining(haltLeft, step) \in 0 .. StopPeriods
    BY <1>0 DEF Remaining
  <2>3. ~LinkOk' => ~latched'
    BY <1>0 DEF Sensed
  <2>4. CASE HoldForOdometry(step, d) \/ HoldHalt(step, d)
    BY <1>0, <2>1, <2>2, <2>3, <2>4, SendsZero, ZeroSuffices
    DEF HoldForOdometry, HoldHalt, Branch, IInv, TypeOK, States, Commands,
        NoBacktrackWhileLatched, ControllerInBacktrack
  <2>5. CASE BeginHalt(step, d)
    <3>1. toStop' \in -StopInterval .. StopInterval
      BY <2>1, <2>5 DEF BeginHalt, HaltDue
    <3> QED
      BY <1>0, <2>3, <2>5, <3>1, SendsZero, ZeroSuffices
      DEF BeginHalt, Branch, IInv, TypeOK, States, Commands,
          NoBacktrackWhileLatched, ControllerInBacktrack
  <2>6. ASSUME NEW answer \in Answers, Pursue(step, d, answer)
        PROVE  Branch' /\ state' # "calibrating"
    <3>0. /\ ~LinkOk' /\ driveOk' /\ haltLeft' = 0
          /\ toStop' \in -StopInterval .. StopInterval
      BY <2>1, <2>6 DEF Pursue
    <3>1. CASE answer = "done"
      <4>1. following' = FALSE /\ state' = "arrived" /\ cmd' = "zero"
        BY <2>6, <3>1, SendsZero DEF Pursue
      <4>2. following' \in BOOLEAN /\ ~following'
        BY <4>1, Zenon
      <4> QED
        BY <3>0, <4>1, <4>2, ZeroSuffices
        DEF Branch, States, Commands, NoBacktrackWhileLatched,
            ControllerInBacktrack
    <3>2. CASE answer # "done"
      <4>1. /\ UNCHANGED <<state, following>>
            /\ cmd' \in {"zero", "pursuit"}
            /\ cmd' = "pursuit" => ~Gated'
        BY <2>6, <3>2 DEF Pursue, Send
      <4>2. cmd' = "pursuit" => ~ImuFailing'
        BY <1>0, <4>1 DEF Gated
      <4> QED
        BY <1>0, <2>3, <3>0, <4>1, <4>2
        DEF Branch, IInv, TypeOK, States, Commands, NoBacktrackWhileLatched,
            RelayNeedsOperator, PursuitNeedsSensors, ControllerInBacktrack
    <3> QED
      BY <3>1, <3>2
  <2> QED
    BY <1>2, <2>4, <2>5, <2>6
<1> QED
  BY <1>1, <1>2 DEF Backtrack

(* One whole iteration.                                                    *)
LEMMA TickKeeps == ASSUME IInv, Tick PROVE IInv'
<1>1. PICK step \in 1 .. MaxStep, read \in BOOLEAN, drive \in BOOLEAN,
           f \in Frame \cup {NoFrame} : Iterate(step, read, drive, f)
  BY DEF Tick
<1>2. InputTypeOK' /\ LatchInv' /\ (latched' => latched \/ LinkOk')
  BY <1>1, PollKeeps DEF Iterate, Sense, IInv, TypeOK
<1>3. ImuTypeOK'
  BY <1>1, ReadKeeps DEF Iterate, Sense, IInv, TypeOK
<1>4. Sensed
  BY <1>1, <1>2, <1>3
  DEF Iterate, Sense, Trail, Sensed, IInv, TypeOK, InputTypeOK, LatchInv, Modes
<1>5. running' \in BOOLEAN
  BY DEF Tick, IInv, TypeOK
<1>6. CASE Calibrate(step)
  BY <1>2, <1>3, <1>4, <1>5, <1>6, CalibrateKeeps, StandingKeeps
  DEF Sensed, Branch, IInv, TypeOK
<1>7. CASE (Await \/ Manual \/ Backtrack(step)) /\ UNCHANGED calibVars
  <2>1. Branch' /\ state' # "calibrating"
    <3>1. CASE Await
      BY <1>4, <3>1, StandingKeeps DEF Await
    <3>2. CASE Manual
      BY <1>4, <3>2, ManualKeeps
    <3>3. CASE Backtrack(step)
      BY <1>4, <3>3, BacktrackKeeps
    <3> QED
      BY <1>7, <3>1, <3>2, <3>3
  <2>2. WindowInv'
    BY <2>1 DEF WindowInv
  <2> QED
    BY <1>2, <1>3, <1>4, <1>5, <1>7, <2>1, <2>2
    DEF calibVars, Sensed, Branch, IInv, TypeOK
<1> QED
  BY <1>1, <1>6, <1>7 DEF Iterate

(* The invariant speaks of no variable outside vars.                       *)
LEMMA StutterKeeps == ASSUME IInv, UNCHANGED vars PROVE IInv'
  BY DEF vars, loopVars, calibVars, inputVars, imuVars, IInv, TypeOK, InputTypeOK,
         ImuTypeOK, LatchInv, WindowInv, NoBacktrackWhileLatched,
         RelayNeedsOperator, PursuitNeedsSensors, ControllerInBacktrack, LinkOk,
         ImuFailing

(* The invariant holds in every reachable state.                           *)
THEOREM Invariance == Spec => []IInv
<1>1. IInv /\ [Next]_vars => IInv'
  BY TickKeeps, LifeCycleKeeps, StutterKeeps DEF Next
<1> QED
  BY InitIInv, <1>1, PTL DEF Spec

-----------------------------------------------------------------------------
(* Every variable has its type.                                            *)
THEOREM TypeCorrect == Spec => []TypeOK
<1>1. IInv => TypeOK
  BY DEF IInv
<1> QED
  BY Invariance, <1>1, PTL

(* An E-STOP that is latched excludes autonomous motion: the failsafe      *)
(* neither runs nor starts (run_vehicle.cpp:505-555).                      *)
THEOREM EstopExcludesBacktrack == Spec => []NoBacktrackWhileLatched
<1>1. IInv => NoBacktrackWhileLatched
  BY DEF IInv
<1> QED
  BY Invariance, <1>1, PTL

(* The tracks move for the operator only over a live link with an unlatched *)
(* drive command (run_vehicle.cpp:549-553, 597-607).                        *)
THEOREM RelayIsAuthorised == Spec => []RelayNeedsOperator
<1>1. IInv => RelayNeedsOperator
  BY DEF IInv
<1> QED
  BY Invariance, <1>1, PTL

(* The tracks move for the controller only on fresh sensors                 *)
(* (run_vehicle.cpp:577-607).                                               *)
THEOREM PursuitIsSensed == Spec => []PursuitNeedsSensors
<1>1. IInv => PursuitNeedsSensors
  BY DEF IInv
<1> QED
  BY Invariance, <1>1, PTL

(* The controller pointer is set exactly in BACKTRACK.                     *)
THEOREM ControllerIsLive == Spec => []ControllerInBacktrack
<1>1. IInv => ControllerInBacktrack
  BY DEF IInv
<1> QED
  BY Invariance, <1>1, PTL

(* Trust in the pose only returns with a new process.                      *)
THEOREM TrustLost == Spec => TrustIsOneWay
<1>1. ASSUME IInv, [Next]_vars
      PROVE  [~estimateValid /\ estimateValid' => ~running]_vars
  <2>1. CASE Tick
    <3>1. PICK step \in 1 .. MaxStep, read \in BOOLEAN, drive \in BOOLEAN,
               f \in Frame \cup {NoFrame} : Iterate(step, read, drive, f)
      BY <2>1 DEF Tick
    <3>2. ReadImu(step, read) /\ ImuTypeOK
      BY <1>1, <3>1 DEF Iterate, Sense, IInv, TypeOK
    <3>3. estimateValid' => estimateValid
      BY <3>2, ReadKeeps
    <3> QED
      BY <3>3
  <2>2. CASE Exit \/ Crash \/ Restart
    BY <2>2 DEF Exit, Crash, Restart, imuVars
  <2>3. CASE UNCHANGED vars
    BY <2>3
  <2> QED
    BY <1>1, <2>1, <2>2, <2>3 DEF Next
<1> QED
  BY Invariance, <1>1, PTL DEF Spec, TrustIsOneWay

-----------------------------------------------------------------------------
(* Refinement.  In every state the holder of the tracks is permitted, and  *)
(* a step that ends with a holder started with none or with the same one.  *)

(* Who holds the tracks, read off the last command.                        *)
LEMMA HolderIs ==
  /\ Holder \in {"nobody", "operator", "pursuit"}
  /\ Holder = "operator" <=> cmd = "operator"
  /\ Holder = "pursuit" <=> cmd = "pursuit"
  BY DEF Holder

(* An iteration that relays or pursues began in the state that does so, so *)
(* it did not begin with another holder.                                   *)
LEMMA NoHandover ==
  ASSUME IInv, Tick
  PROVE  /\ cmd' = "operator" => cmd # "pursuit"
         /\ cmd' = "pursuit" => cmd # "operator"
<1>1. PICK step \in 1 .. MaxStep, read \in BOOLEAN, drive \in BOOLEAN,
           f \in Frame \cup {NoFrame} : Iterate(step, read, drive, f)
  BY DEF Tick
<1>2. /\ cmd = "operator" => state = "manual"
      /\ cmd = "pursuit" => state = "backtrack"
  BY DEF IInv, RelayNeedsOperator, PursuitNeedsSensors
<1>3. CASE Calibrate(step) \/ Await
  BY <1>3, SendsZero DEF Calibrate, Await
<1>4. CASE Manual
  BY <1>2, <1>4, SendsZero
  DEF Manual, HoldInManual, Relay, NothingToBacktrack, StartBacktrack, Send
<1>5. CASE Backtrack(step)
  <2>1. state = "backtrack" /\ cmd' # "operator"
    BY <1>5, SendsZero
    DEF Backtrack, Regained, HoldForOdometry, HoldHalt, BeginHalt, Pursue, Send
  <2> QED
    BY <1>2, <2>1
<1> QED
  BY <1>1, <1>3, <1>4, <1>5 DEF Iterate

(* Every step is a step of Authority, or leaves its variables alone.       *)
LEMMA StepImplements ==
  ASSUME IInv, IInv', [Next]_vars
  PROVE  [Abstract!Next]_<<Holder, LinkOk, latched>>
<1>1. /\ Holder' \in {"nobody", "operator", "pursuit"}
      /\ Holder' = "operator" <=> cmd' = "operator"
      /\ Holder' = "pursuit" <=> cmd' = "pursuit"
  BY DEF Holder
<1>2. /\ LinkOk' \in BOOLEAN /\ latched' \in BOOLEAN
  BY DEF IInv, TypeOK, InputTypeOK, LinkOk
<1>3. CASE Tick
  <2>1. CASE Holder' = "operator"
    <3>1. LinkOk' /\ ~latched' /\ Holder \in {"nobody", "operator"}
      BY <1>1, <1>3, <2>1, NoHandover, HolderIs DEF IInv, RelayNeedsOperator
    <3> QED
      BY <2>1, <3>1 DEF Abstract!Next, Abstract!Relay
  <2>2. CASE Holder' = "pursuit"
    <3>1. ~LinkOk' /\ ~latched' /\ Holder \in {"nobody", "pursuit"}
      BY <1>1, <1>3, <2>2, NoHandover, HolderIs
      DEF IInv, PursuitNeedsSensors, NoBacktrackWhileLatched
    <3> QED
      BY <2>2, <3>1 DEF Abstract!Next, Abstract!Return
  <2>3. CASE Holder' = "nobody"
    BY <1>2, <2>3 DEF Abstract!Next, Abstract!Stand
  <2> QED
    BY <1>1, <2>1, <2>2, <2>3
<1>4. CASE Exit \/ Restart
  <2>1. Holder' = "nobody"
    BY <1>4 DEF Exit, Restart, Holder
  <2> QED
    BY <1>2, <2>1 DEF Abstract!Next, Abstract!Stand
<1>5. CASE Crash \/ UNCHANGED vars
  BY <1>5 DEF Crash, vars, loopVars, inputVars, Holder, LinkOk
<1> QED
  BY <1>3, <1>4, <1>5 DEF Next

(* The control loop keeps the promise of Authority.                        *)
THEOREM LoopImplementsAuthority == Spec => ImplementsAuthority
<1>1. Init => Abstract!Init
  <2> SUFFICES ASSUME Init PROVE Abstract!Init
    OBVIOUS
  <2>1. Holder = "nobody" /\ latched = FALSE
    BY Zenon DEF Init, InputInit, Holder
  <2>2. ~LinkOk /\ LinkOk \in BOOLEAN
    BY DEF Init, InputInit, LinkOk
  <2> QED
    BY <2>1, <2>2 DEF Abstract!Init
<1>2. IInv /\ IInv' /\ [Next]_vars => [Abstract!Next]_<<Holder, LinkOk, latched>>
  BY StepImplements
<1> QED
  BY Invariance, <1>1, <1>2, PTL
  DEF Spec, ImplementsAuthority, Abstract!Spec, Abstract!authorityVars

-----------------------------------------------------------------------------
(* What one iteration gets done: the steps that the liveness properties    *)
(* are made of, for every value of the constants.                          *)

(* Only an iteration runs from a live process to a live process.           *)
LEMMA AliveSteps ==
  ASSUME [Next]_vars, running, running'
  PROVE  UNCHANGED vars \/ Tick
BY DEF Next, Exit, Crash, Restart

(* The operator who is heard has the vehicle in MANUAL in the same         *)
(* iteration, from wherever the loop was once it had calibrated.           *)
LinkGivesManual ==
  [][running /\ running' /\ LinkOk' /\ state # "calibrating" => state' = "manual"]_vars

(* From IDLE, ARRIVED, MANUAL and in the middle of a backtrack             *)
(* (run_vehicle.cpp:498-593): no gate, halt, stale sensor or latch keeps   *)
(* the loop from handing over. PersistentLinkGivesManual rests on it.      *)
THEOREM OperatorGetsManual == Spec => LinkGivesManual
<1>1. ASSUME Tick, LinkOk', state # "calibrating"
      PROVE  state' = "manual"
  <2>1. PICK step \in 1 .. MaxStep, read \in BOOLEAN, drive \in BOOLEAN,
             f \in Frame \cup {NoFrame} : Iterate(step, read, drive, f)
    BY <1>1 DEF Tick
  <2>2. CASE Await
    BY <1>1, <2>2 DEF Await
  <2>3. CASE Manual
    BY <1>1, <2>3 DEF Manual, HoldInManual, Relay, NothingToBacktrack, StartBacktrack
  <2>4. CASE Backtrack(step)
    BY <1>1, <2>4 DEF Backtrack, Regained, HoldForOdometry, HoldHalt, BeginHalt, Pursue
  <2>5. ~Calibrate(step)
    BY <1>1 DEF Calibrate
  <2> QED
    BY <2>1, <2>2, <2>3, <2>4, <2>5 DEF Iterate
<1>2. [Next]_vars =>
        [running /\ running' /\ LinkOk' /\ state # "calibrating" => state' = "manual"]_vars
  BY <1>1, AliveSteps
<1> QED
  BY <1>2, PTL DEF Spec, LinkGivesManual

(* New drive frames that the latch still asks for. *)
ToClear == IF latched THEN ClearFrames - clearCount ELSE 0

LatchIsOwed == latched <=> ToClear > 0

(* A new frame (linkAge' = 0) counts down by one or, an E-STOP, starts the *)
(* count again; repeats, silence and a lost link do neither.               *)
LatchCountsDown ==
  [][running /\ running' =>
       IF linkAge' # 0 THEN ToClear' = ToClear
       ELSE IF lastMode' = "estop" THEN ToClear' = ClearFrames
       ELSE ToClear' = IF ToClear > 0 THEN ToClear - 1 ELSE 0]_vars

(* The E-STOP latch opens with exactly the ClearFrames-th new drive frame  *)
(* after the last E-STOP, neither sooner nor later                         *)
(* (run_vehicle.cpp:433-455). LatchClears rests on it.                     *)
THEOREM LatchOpensByTheCount == Spec => []LatchIsOwed /\ LatchCountsDown
<1>1. IInv => LatchIsOwed
  <2> SUFFICES ASSUME IInv PROVE LatchIsOwed
    OBVIOUS
  <2>1. clearCount \in 0 .. ClearFrames /\ (latched => clearCount < ClearFrames)
    BY DEF IInv, TypeOK, InputTypeOK, LatchInv
  <2> QED
    BY <2>1 DEF LatchIsOwed, ToClear
<1>2. ASSUME IInv, Tick
      PROVE  IF linkAge' # 0 THEN ToClear' = ToClear
             ELSE IF lastMode' = "estop" THEN ToClear' = ClearFrames
             ELSE ToClear' = IF ToClear > 0 THEN ToClear - 1 ELSE 0
  <2>1. PICK step \in 1 .. MaxStep, read \in BOOLEAN, drive \in BOOLEAN,
             f \in Frame \cup {NoFrame} : Iterate(step, read, drive, f)
    BY <1>2 DEF Tick
  <2>2. /\ PollOperator(step, f)
        /\ linkAge \in 0 .. LinkTimeout + 1 /\ clearCount \in 0 .. ClearFrames
        /\ latched => clearCount < ClearFrames
    BY <1>2, <2>1 DEF Iterate, Sense, IInv, TypeOK, InputTypeOK, LatchInv
  <2>3. CASE ~IsNew(f)
    <3>1. linkAge' # 0 /\ latched' = latched /\ clearCount' = clearCount
      BY <2>2, <2>3 DEF PollOperator, Ignored, Aged
    <3> QED
      BY <3>1 DEF ToClear
  <2>4. CASE IsNew(f)
    <3>1. /\ linkAge' = 0 /\ lastMode' = f.mode
          /\ \/ f.mode = "estop" /\ Latch
             \/ f.mode = "drive" /\ latched /\ CountDrive
             \/ f.mode = "drive" /\ ~latched /\ UNCHANGED <<latched, clearCount>>
      BY <2>2, <2>4 DEF PollOperator, Accepted
    <3>2. CASE f.mode = "estop" /\ Latch
      <4>1. latched' /\ clearCount' = 0
        BY <3>2 DEF Latch
      <4> QED
        BY <3>1, <3>2, <4>1 DEF ToClear
    <3>3. CASE f.mode = "drive" /\ latched /\ CountDrive
      <4>1. ToClear = ClearFrames - clearCount /\ ToClear > 0 /\ clearCount' = clearCount + 1
        BY <2>2, <3>3 DEF ToClear, CountDrive
      <4>2. CASE clearCount' < ClearFrames /\ latched' = latched
        <5>1. ToClear' = ClearFrames - clearCount'
          BY <3>3, <4>2 DEF ToClear
        <5> QED
          BY <2>2, <3>1, <3>3, <4>1, <5>1
      <4>3. CASE clearCount' >= ClearFrames /\ latched' = FALSE
        <5>1. ~latched'
          BY <4>3, Zenon
        <5>2. ToClear' = 0
          BY <5>1 DEF ToClear
        <5> QED
          BY <2>2, <3>1, <3>3, <4>1, <4>3, <5>2
      <4> QED
        BY <3>3, <4>2, <4>3 DEF CountDrive
    <3>4. CASE f.mode = "drive" /\ ~latched /\ UNCHANGED <<latched, clearCount>>
      BY <3>1, <3>4 DEF ToClear
    <3> QED
      BY <3>1, <3>2, <3>3, <3>4
  <2> QED
    BY <2>3, <2>4
<1>3. IInv /\ [Next]_vars =>
        [running /\ running' =>
           IF linkAge' # 0 THEN ToClear' = ToClear
           ELSE IF lastMode' = "estop" THEN ToClear' = ClearFrames
           ELSE ToClear' = IF ToClear > 0 THEN ToClear - 1 ELSE 0]_vars
  BY <1>2, AliveSteps
<1> QED
  BY <1>1, <1>3, Invariance, PTL DEF Spec, LatchCountsDown

(* While the IMU has not fully recovered the outage timer runs on, also    *)
(* through good reads, and a failing IMU past the limit leaves no trust.   *)
OutageRunsOn ==
  [][running /\ running' /\ ~ImuOk' =>
       /\ unhealthyFor # Healthy =>
            unhealthyFor' > unhealthyFor \/ unhealthyFor' = ImuOutage + 1
       /\ ImuFailing' =>
            unhealthyFor' >= 0 /\ (unhealthyFor' = ImuOutage + 1 => ~estimateValid')]_vars

(* An IMU that flaps gains nothing by it: for every length of the streaks, *)
(* of the outage and of an overrun (run_vehicle.cpp:394-420).              *)
(* FlappingImuLosesTrust rests on it.                                      *)
THEOREM OutageIsNotForgiven == Spec => OutageRunsOn
<1>1. ASSUME IInv, Tick, ~ImuOk'
      PROVE  /\ unhealthyFor # Healthy =>
                  unhealthyFor' > unhealthyFor \/ unhealthyFor' = ImuOutage + 1
             /\ ImuFailing' =>
                  unhealthyFor' >= 0 /\ (unhealthyFor' = ImuOutage + 1 => ~estimateValid')
  <2>1. PICK step \in 1 .. MaxStep, read \in BOOLEAN, drive \in BOOLEAN,
             f \in Frame \cup {NoFrame} : Iterate(step, read, drive, f)
    BY <1>1 DEF Tick
  <2>2. Failing(step) \/ InBetween(step)
    BY <1>1, <2>1 DEF Iterate, Sense, ReadImu, Recovered
  <2>3. unhealthyFor \in {Healthy} \cup 0 .. ImuOutage + 1
    BY <1>1 DEF IInv, TypeOK, ImuTypeOK
  <2>4. unhealthyFor # Healthy =>
          /\ OutageAfter(step) \in 0 .. ImuOutage + 1
          /\ OutageAfter(step) > unhealthyFor \/ OutageAfter(step) = ImuOutage + 1
    BY <2>3 DEF OutageAfter, Healthy
  <2>5. CASE Failing(step)
    <3>1. unhealthyFor' = IF unhealthyFor = Healthy THEN 0 ELSE OutageAfter(step)
      BY <2>5 DEF Failing
    <3>2. unhealthyFor' \in 0 .. ImuOutage + 1
      BY <2>4, <3>1
    <3>3. unhealthyFor' = ImuOutage + 1 => ~estimateValid'
      <4>1. unhealthyFor' <= ImuOutage \/ estimateValid' = FALSE
        BY <2>5 DEF Failing
      <4>2. unhealthyFor' = ImuOutage + 1 => ~(unhealthyFor' <= ImuOutage)
        OBVIOUS
      <4> QED
        BY <4>1, <4>2, Zenon
    <3> QED
      BY <2>4, <3>1, <3>2, <3>3
  <2>6. CASE InBetween(step)
    <3>1. ~ImuFailing' /\ unhealthyFor' = OutageAfter(step)
      BY <2>6 DEF InBetween
    <3> QED
      BY <2>4, <3>1
  <2> QED
    BY <2>2, <2>5, <2>6
<1>2. IInv /\ [Next]_vars =>
        [running /\ running' /\ ~ImuOk' =>
           /\ unhealthyFor # Healthy =>
                unhealthyFor' > unhealthyFor \/ unhealthyFor' = ImuOutage + 1
           /\ ImuFailing' =>
                unhealthyFor' >= 0 /\ (unhealthyFor' = ImuOutage + 1 => ~estimateValid')]_vars
  BY <1>1, AliveSteps
<1> QED
  BY <1>2, Invariance, PTL DEF Spec, OutageRunsOn

(* A halt of a backtrack gets shorter, unless in its last iteration the    *)
(* vehicle, with fresh odometry, is past the next mark already.            *)
HaltsRunDown ==
  [][running /\ running' /\ state = "backtrack" /\ state' = "backtrack" /\ haltLeft > 0 =>
       \/ haltLeft' < haltLeft
       \/ haltLeft <= MaxStep /\ toStop <= MaxMove /\ driveOk']_vars

(* Also while odometry comes and goes (run_vehicle.cpp:557-580). HaltsEnd  *)
(* rests on it, and shows why that needs a vehicle that rolls less than an *)
(* interval.                                                               *)
THEOREM HaltsGetShorter == Spec => HaltsRunDown
<1>1. ASSUME IInv, Tick, state = "backtrack", state' = "backtrack", haltLeft > 0
      PROVE  \/ haltLeft' < haltLeft
             \/ haltLeft <= MaxStep /\ toStop <= MaxMove /\ driveOk'
  <2>1. PICK step \in 1 .. MaxStep, read \in BOOLEAN, drive \in BOOLEAN,
             f \in Frame \cup {NoFrame} : Iterate(step, read, drive, f)
    BY <1>1 DEF Tick
  <2>2. Backtrack(step) /\ ~Regained
    BY <1>1, <2>1 DEF Iterate, Calibrate, Await, Manual, Backtrack, Regained
  <2>3. PICK d \in 0 .. (IF Updated' /\ StopInterval > 0 THEN MaxMove ELSE 0) :
          \/ HoldForOdometry(step, d)
          \/ HoldHalt(step, d)
          \/ BeginHalt(step, d)
          \/ \E answer \in Answers : Pursue(step, d, answer)
    BY <2>2 DEF Backtrack
  <2>4. /\ d \in Nat /\ d <= MaxMove /\ step \in Nat /\ step >= 1 /\ step <= MaxStep
        /\ haltLeft \in Nat /\ toStop \in Int
    BY <1>1 DEF IInv, TypeOK
  <2>5. CASE HoldForOdometry(step, d) \/ HoldHalt(step, d)
    <3>1. haltLeft' = Remaining(haltLeft, step)
      BY <2>5 DEF HoldForOdometry, HoldHalt
    <3> QED
      BY <1>1, <2>4, <3>1 DEF Remaining
  <2>6. CASE BeginHalt(step, d)
    <3>1. driveOk' /\ Remaining(haltLeft, step) = 0 /\ Travelled(d) <= 0
      BY <2>6 DEF BeginHalt, HaltDue
    <3> QED
      BY <2>4, <3>1 DEF Remaining, Travelled
  <2>7. CASE \E answer \in Answers : Pursue(step, d, answer)
    <3>1. haltLeft' = 0
      BY <2>7 DEF Pursue
    <3> QED
      BY <1>1, <3>1
  <2> QED
    BY <2>3, <2>5, <2>6, <2>7
<1>2. IInv /\ [Next]_vars =>
        [running /\ running' /\ state = "backtrack" /\ state' = "backtrack" /\ haltLeft > 0 =>
           \/ haltLeft' < haltLeft
           \/ haltLeft <= MaxStep /\ toStop <= MaxMove /\ driveOk']_vars
  BY <1>1, AliveSteps
<1> QED
  BY <1>2, Invariance, PTL DEF Spec, HaltsRunDown

(* Iterations of the running calibration window that were not still.       *)
Unrest == calibTicks - calibStill

(* An iteration that finds the vehicle at rest ends the calibration, or    *)
(* brings the end of the window nearer without counting against it; only a *)
(* window with unrest in it is extended, and the next one begins with none. *)
CalibrationRunsDown ==
  [][running /\ running' /\ state = "calibrating" /\ stationary' =>
       \/ state' = "idle"
       \/ state' = "calibrating" /\ calibLeft' < calibLeft /\ Unrest' = Unrest
       \/ state' = "calibrating" /\ calibLeft <= MaxStep /\ Unrest > 0 /\ Unrest' = 0]_vars

(* However the windows before went (run_vehicle.cpp:470-499): at rest one  *)
(* window more is enough. CalibrationFinishes rests on it.                 *)
THEOREM RestEndsCalibration == Spec => CalibrationRunsDown
<1>1. ASSUME IInv, Tick, state = "calibrating", stationary'
      PROVE  \/ state' = "idle"
             \/ state' = "calibrating" /\ calibLeft' < calibLeft /\ Unrest' = Unrest
             \/ state' = "calibrating" /\ calibLeft <= MaxStep /\ Unrest > 0 /\ Unrest' = 0
  <2>1. PICK step \in 1 .. MaxStep, read \in BOOLEAN, drive \in BOOLEAN,
             f \in Frame \cup {NoFrame} : Iterate(step, read, drive, f)
    BY <1>1 DEF Tick
  <2>2. Calibrate(step)
    BY <1>1, <2>1 DEF Iterate, Await, Manual, Backtrack
  <2>3. /\ step \in Nat /\ step >= 1 /\ step <= MaxStep
        /\ calibLeft \in Nat /\ calibTicks \in Nat /\ calibStill \in Nat
    BY <1>1 DEF IInv, TypeOK
  <2>4. CASE WindowOver(step)
    <3>1. calibLeft <= MaxStep
      BY <2>3, <2>4 DEF WindowOver, Remaining
    <3>2. CASE CalibrationOk(calibTicks + 1, calibStill + 1)
      BY <1>1, <2>2, <2>4, <3>2 DEF Calibrate
    <3>3. CASE ~CalibrationOk(calibTicks + 1, calibStill + 1)
      <4>1. state' = "calibrating" /\ calibTicks' = 0 /\ calibStill' = 0
        BY <1>1, <2>2, <2>4, <3>3 DEF Calibrate
      <4>2. Unrest > 0
        BY <2>3, <3>3 DEF CalibrationOk, Unrest
      <4> QED
        BY <3>1, <4>1, <4>2 DEF Unrest
    <3> QED
      BY <3>2, <3>3
  <2>5. CASE ~WindowOver(step)
    <3>1. /\ state' = "calibrating" /\ calibLeft' = Remaining(calibLeft, step)
          /\ calibTicks' = calibTicks + 1 /\ calibStill' = calibStill + 1
      BY <1>1, <2>2, <2>5 DEF Calibrate, CountStill
    <3>2. calibLeft' < calibLeft
      BY <2>3, <2>5, <3>1 DEF WindowOver, Remaining
    <3> QED
      BY <2>3, <3>1, <3>2 DEF Unrest
  <2> QED
    BY <2>4, <2>5
<1>2. IInv /\ [Next]_vars =>
        [running /\ running' /\ state = "calibrating" /\ stationary' =>
           \/ state' = "idle"
           \/ state' = "calibrating" /\ calibLeft' < calibLeft /\ Unrest' = Unrest
           \/ state' = "calibrating" /\ calibLeft <= MaxStep /\ Unrest > 0 /\ Unrest' = 0]_vars
  BY <1>1, AliveSteps
<1> QED
  BY <1>2, Invariance, PTL DEF Spec, CalibrationRunsDown
=============================================================================
