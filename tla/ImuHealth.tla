----------------------------- MODULE ImuHealth -----------------------------
(***************************************************************************)
(* What one control tick of run_vehicle does with the result of the IMU    *)
(* read: the two streaks, the health hysteresis, the outage timer and the  *)
(* one-way loss of trust in the pose estimate.                             *)
(*                                                                         *)
(* The streaks saturate at ImuThreshold and the outage timer one period    *)
(* past ImuOutage, the only values the code compares them with.            *)
(***************************************************************************)
EXTENDS Integers

CONSTANTS
  ImuThreshold,  \* consecutive failures (reads) to become (un)healthy: 5
  ImuOutage      \* outage that invalidates the pose: 1 s, in control periods

ASSUME ThresholdAssumption == ImuThreshold \in Nat \ {0}
ASSUME OutageAssumption == ImuOutage \in Nat

VARIABLES
  imuGood,        \* imu_good_streak
  imuBad,         \* imu_bad_streak
  unhealthyFor,   \* now - imu_unhealthy_since; Healthy when that is -1.0
  estimateValid   \* estimate_valid

imuVars == <<imuGood, imuBad, unhealthyFor, estimateValid>>

Healthy == -1

ImuTypeOK ==
  /\ imuGood \in 0 .. ImuThreshold
  /\ imuBad \in 0 .. ImuThreshold
  /\ unhealthyFor \in {Healthy} \cup 0 .. ImuOutage + 1
  /\ estimateValid \in BOOLEAN

-----------------------------------------------------------------------------
ImuFailing == imuBad = ImuThreshold
ImuOk == ~ImuFailing /\ imuGood = ImuThreshold

Counted(n) == IF n < ImuThreshold THEN n + 1 ELSE n

ImuInit ==
  /\ imuGood = 0
  /\ imuBad = 0
  /\ unhealthyFor = Healthy
  /\ estimateValid = TRUE

(* A new process trusts its pose. *)
ImuReset ==
  /\ imuGood' = 0
  /\ imuBad' = 0
  /\ unhealthyFor' = Healthy
  /\ estimateValid' = TRUE

(* The outage timer after step more periods, when it is running. *)
OutageAfter(step) ==
  IF unhealthyFor = Healthy THEN Healthy
  ELSE IF unhealthyFor + step < ImuOutage + 1 THEN unhealthyFor + step
  ELSE ImuOutage + 1

Streaks(read) ==
  /\ imuGood' = IF read THEN Counted(imuGood) ELSE 0
  /\ imuBad' = IF read THEN 0 ELSE Counted(imuBad)

Failing_RestartsTimer(step) ==
  /\ ImuFailing'
  /\ unhealthyFor' = 0
  /\ \/ unhealthyFor' <= ImuOutage /\ UNCHANGED estimateValid
     \/ unhealthyFor' > ImuOutage /\ estimateValid' = FALSE

(* Unhealthy: the timer starts or runs, and past ImuOutage trust is gone.  *)
Failing(step) ==
  /\ ImuFailing'
  /\ unhealthyFor' = IF unhealthyFor = Healthy THEN 0 ELSE OutageAfter(step)
  /\ \/ unhealthyFor' <= ImuOutage /\ UNCHANGED estimateValid
     \/ unhealthyFor' > ImuOutage /\ estimateValid' = FALSE

Recovered ==
  /\ ImuOk'
  /\ unhealthyFor' = Healthy
  /\ UNCHANGED estimateValid

InBetween_TimerReset(step) ==
  /\ ~ImuFailing' /\ ~ImuOk'
  /\ unhealthyFor' = Healthy
  /\ UNCHANGED estimateValid

(* Neither streak is long enough: the timer runs on, unexamined.           *)
InBetween(step) ==
  /\ ~ImuFailing' /\ ~ImuOk'
  /\ unhealthyFor' = OutageAfter(step)
  /\ UNCHANGED estimateValid

(* One call of imu.read(), read saying whether it succeeded.               *)
ReadImu(step, read) ==
  /\ Streaks(read)
  /\ Failing(step) \/ Recovered \/ InBetween(step)
=============================================================================
