--------------------------- MODULE MCOperatorLink ---------------------------
(* OperatorLink for TLC. *)
EXTENDS OperatorLink
=============================================================================
