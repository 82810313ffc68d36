----------------------------- MODULE MCDriveBus -----------------------------
(* DriveBus with Startup, for TLC. *)
EXTENDS Startup
=============================================================================
