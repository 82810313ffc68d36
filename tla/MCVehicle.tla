----------------------------- MODULE MCVehicle -----------------------------
(* Vehicle for TLC: turns on the spot and a unit out; the sequence numbers *)
(* are interchangeable.                                                    *)
EXTENDS Vehicle, TLC

East == <<1, 0>>
North == <<0, 1>>
MCField == {<<<<0, 0>>, East>>, <<<<0, 0>>, North>>, <<<<1, 0>>, East>>}
Symmetry == Permutations(Seqs)

(* Live tells states apart by what can still be read: the halt only in     *)
(* BACKTRACK, whose start sets it, and a calibration's counts only until   *)
(* it is over.                                                             *)
Live ==
  <<running, state, cmd, driveOk, crumbs, following,
    IF state = "backtrack" THEN <<toStop, haltLeft>> ELSE <<>>,
    IF state = "calibrating" THEN calibVars ELSE <<>>,
    inputVars, imuVars, courseVars>>
=============================================================================
