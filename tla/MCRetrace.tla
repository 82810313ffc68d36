----------------------------- MODULE MCRetrace -----------------------------
(* Retrace and Simulation for TLC: a corner, which the operator rounds     *)
(* forwards and backwards; a backtrack leaves it.                          *)
EXTENDS Simulation

MCField == {<<0, 0>>, <<1, 0>>, <<1, 1>>} \X Headings
=============================================================================
