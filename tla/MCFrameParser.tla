--------------------------- MODULE MCFrameParser ---------------------------
(* FrameParser for TLC. *)
EXTENDS FrameParser
=============================================================================
