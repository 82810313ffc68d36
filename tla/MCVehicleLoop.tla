--------------------------- MODULE MCVehicleLoop ---------------------------
(* VehicleLoop for TLC: the sequence numbers are interchangeable.  Live    *)
(* tells states apart by what can still be read: the halt only in          *)
(* BACKTRACK, whose start sets it, and a calibration's counts only until   *)
(* it is over.                                                             *)
EXTENDS VehicleLoop, TLC

Symmetry == Permutations(Seqs)

Live ==
  <<running, state, cmd, driveOk, stationary, crumbs, following,
    IF state = "backtrack" THEN <<toStop, haltLeft>> ELSE <<>>,
    IF state = "calibrating" THEN <<calibLeft, calibTicks, calibStill, accepted>> ELSE <<>>,
    inputVars, imuVars>>
=============================================================================
