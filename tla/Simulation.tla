----------------------------- MODULE Simulation -----------------------------
(***************************************************************************)
(* run_simulation: calibrate, drive a route, lose the link, follow the     *)
(* trail back with a halt every StopInterval and a budget of steps.  The   *)
(* simulated chassis slips, which odometry does not see.                   *)
(*                                                                         *)
(* The module runs either program on the shared estimator and controller:  *)
(* phase is "off" where run_vehicle has them.                              *)
(***************************************************************************)
EXTENDS Retrace

CONSTANTS
  CalibSteps,     \* calib_steps
  MaxSteps,       \* max_backtrack_steps
  StopInterval,   \* backtrack_stop_interval_m; 0 disables the halts
  StopSteps       \* stop_steps

ASSUME SimulationAssumption ==
  /\ CalibSteps \in Nat /\ MaxSteps \in Nat
  /\ StopInterval \in Nat /\ StopSteps \in Nat

VARIABLES
  phase,      \* where run_simulation is
  zupt,       \* EstimatorConfig::zupt, off with --no-zupt
  toGo,       \* drive calls left of the calibration or the halt
  steps,      \* steps
  nextStop,   \* bt_start_dist + next_stop_at
  completed   \* summary.backtrack_completed

simVars == <<phase, zupt, toGo, steps, nextStop, completed>>
allVars == <<vars, simVars>>

SimTypeOK ==
  /\ TypeOK
  /\ phase \in {"off", "calibrating", "recording", "backtrack", "ended", "refused"}
  /\ zupt \in BOOLEAN
  /\ toGo \in 0 .. CalibSteps + StopSteps
  /\ steps \in 0 .. MaxSteps
  /\ nextStop \in Nat
  /\ completed \in BOOLEAN

SimInit ==
  /\ Init
  /\ phase \in {"off", "calibrating"}
  /\ zupt \in BOOLEAN
  /\ toGo = CalibSteps
  /\ steps = 0
  /\ nextStop = 0
  /\ completed = FALSE

-----------------------------------------------------------------------------
(* drive: the tracks are told m.  The chassis may slip, in its drive,      *)
(* which odometry does not see, and in its turn, which the gyro does; and  *)
(* the gyro drifts.                                                        *)
Drive(m) ==
  \E r \in Parts(m), g \in {-1, 0, 1} :
    /\ r[1] # m[1] \/ g # r[2] => missed + askew < MaxMissed
    /\ Travels(<<m[1], g>>, r)

(* At rest the odometry is noise, which only ZUPT keeps out of the place.  *)
Jitter ==
  /\ ~zupt /\ missed + askew < MaxMissed
  /\ \E v \in {-1, 1} : Travels(<<v, 0>>, Still)

Rest == Drive(Still) \/ Jitter

Calibrate ==
  /\ phase = "calibrating"
  /\ \/ /\ toGo > 0
        /\ Rest
        /\ toGo' = toGo - 1
        /\ UNCHANGED phase
     \/ /\ toGo = 0
        /\ phase' = "recording"
        /\ UNCHANGED <<toGo, groundVars, estimatorVars>>
  /\ UNCHANGED <<zupt, steps, nextStop, completed, command, controllerVars>>

(* The route is any way out; a turn on the spot counts to the drive after. *)
Outbound ==
  /\ phase = "recording"
  /\ total < MaxOut
  /\ \E m \in Outings(pose, heading) : m[1] # 0 /\ Drive(m)
  /\ UNCHANGED <<phase, zupt, toGo, steps, nextStop, completed, command, controllerVars>>

(* The end of the route is the loss of the link. *)
TurnBack ==
  /\ phase = "recording"
  /\ \/ Follow(Reversed(trail)) /\ phase' = "backtrack"
     \/ Len(trail) < 2 /\ phase' = "refused" /\ UNCHANGED controllerVars
  /\ nextStop' = total + StopInterval
  /\ UNCHANGED <<zupt, toGo, steps, completed, command, groundVars, estimatorVars>>

StopDue == StopInterval > 0 /\ total >= nextStop

Compute_SameMark ==
  /\ phase = "backtrack" /\ command = Still /\ toGo = 0
  /\ steps < MaxSteps /\ ~Done(pose)
  /\ AdvanceClosest(pose)
  /\ command' \in Pursuit(pose, heading, path[Ahead(idx')])
  /\ toGo' = IF StopDue THEN StopSteps ELSE 0
  /\ UNCHANGED <<phase, zupt, steps, nextStop, completed, groundVars, estimatorVars>>

(* compute, and then either drive at once or halt first. *)
Compute ==
  /\ phase = "backtrack" /\ command = Still /\ toGo = 0
  /\ steps < MaxSteps /\ ~Done(pose)
  /\ AdvanceClosest(pose)
  /\ command' \in Pursuit(pose, heading, path[Ahead(idx')])
  /\ \/ StopDue /\ toGo' = StopSteps /\ nextStop' = nextStop + StopInterval
     \/ ~StopDue /\ UNCHANGED <<toGo, nextStop>>
  /\ UNCHANGED <<phase, zupt, steps, completed, groundVars, estimatorVars>>

Halt_NoCount ==
  /\ phase = "backtrack" /\ toGo > 0
  /\ Rest
  /\ UNCHANGED <<phase, zupt, toGo, steps, nextStop, completed, command, controllerVars>>

Halt ==
  /\ phase = "backtrack" /\ toGo > 0
  /\ Rest
  /\ toGo' = toGo - 1
  /\ UNCHANGED <<phase, zupt, steps, nextStop, completed, command, controllerVars>>

(* The command computed before the halt is the one driven after it. *)
Carry ==
  /\ phase = "backtrack" /\ command # Still /\ toGo = 0
  /\ Drive(command)
  /\ command' = Still
  /\ steps' = steps + 1
  /\ UNCHANGED <<phase, zupt, toGo, nextStop, completed, controllerVars>>

End_Completed ==
  /\ phase = "backtrack" /\ command = Still
  /\ steps = MaxSteps \/ Done(pose)
  /\ completed' = TRUE
  /\ phase' = "ended"
  /\ UNCHANGED <<zupt, toGo, steps, nextStop, command, groundVars, estimatorVars,
                 controllerVars>>

(* compute is done, or the budget is spent. *)
End ==
  /\ phase = "backtrack" /\ command = Still
  /\ \/ steps = MaxSteps /\ completed' = FALSE
     \/ steps < MaxSteps /\ Done(pose) /\ completed' = TRUE
  /\ phase' = "ended"
  /\ UNCHANGED <<zupt, toGo, steps, nextStop, command, groundVars, estimatorVars,
                 controllerVars>>

Over ==
  /\ phase \in {"ended", "refused"}
  /\ UNCHANGED allVars

Simulate ==
  /\ Calibrate \/ Outbound \/ TurnBack \/ Compute \/ Halt \/ Carry \/ End
  /\ UNCHANGED <<state, losses>>

Drives == phase = "off" /\ Tick /\ UNCHANGED simVars

Next == Drives \/ Simulate \/ Over

SimSpec == SimInit /\ [][Next]_allVars

(* A program that nothing holds up. *)
FairSpec == SimSpec /\ WF_allVars(Simulate)

-----------------------------------------------------------------------------
(* run_simulation returns: halts and steps are bounded, with ZUPT and      *)
(* without.                                                                *)
SimulationEnds == phase = "calibrating" ~> phase \in {"ended", "refused"}

(* The summary tells the truth: a completed backtrack is at the start, one *)
(* that is not has used up its steps.                                      *)
SummaryIsTrue ==
  phase = "ended" =>
    IF completed THEN Dist(Moved(pose, lag), Home) <= Arrival + missed + 2 * askew
    ELSE steps = MaxSteps

(* With ZUPT the halts keep pace with the distance: no mark is passed by a *)
(* step without a halt, and none is halted at twice.                       *)
HaltsKeepPace ==
  phase = "backtrack" /\ zupt /\ StopInterval > 0 =>
    total <= nextStop /\ nextStop - StopInterval <= total
=============================================================================
