--------------------------- MODULE OperatorInput ---------------------------
(***************************************************************************)
(* What one control tick of run_vehicle does with the newest operator      *)
(* frame of the RS485 link: duplicate rejection, the link-loss timer of    *)
(* LinkSupervisor, and the E-STOP latch.                                   *)
(*                                                                         *)
(* Time is counted in nominal control periods (20 ms).  An age saturates   *)
(* one period past its timeout: the code only compares it with <=.         *)
(* Op_Fault names a faulty variant of Op, here and in every other module.  *)
(***************************************************************************)
EXTENDS Integers

CONSTANTS
  Seqs,          \* values of the frame's 8-bit sequence number, compared for
                 \* equality only
  NoSeq,         \* "no frame seen yet": have_seq = false
  LinkTimeout,   \* --link-timeout, in control periods
  ClearFrames    \* drive frames that clear the latch (10 in the code)

ASSUME SeqAssumption == NoSeq \notin Seqs
ASSUME LinkAssumption == LinkTimeout \in Nat
ASSUME ClearAssumption == ClearFrames \in Nat \ {0}

VARIABLES
  linkAge,     \* periods since LinkSupervisor::frame_received; a link never
               \* heard is as down as one that timed out
  lastSeq,     \* have_seq and last_seq
  lastMode,    \* last_cmd.mode
  latched,     \* estop_latched
  clearCount   \* drive_frames_since_estop

inputVars == <<linkAge, lastSeq, lastMode, latched, clearCount>>

Modes == {"drive", "estop"}
Frame == [seq : Seqs, mode : Modes]
NoFrame == [seq |-> NoSeq, mode |-> "drive"]   \* Rs485Link::poll returned false

InputTypeOK ==
  /\ linkAge \in 0 .. LinkTimeout + 1
  /\ lastSeq \in Seqs \cup {NoSeq}
  /\ lastMode \in Modes
  /\ latched \in BOOLEAN
  /\ clearCount \in 0 .. ClearFrames

-----------------------------------------------------------------------------
(* a, moved step periods into the future, saturating at top *)
Aged(a, step, top) == IF a + step < top THEN a + step ELSE top

LinkOk == linkAge <= LinkTimeout

InputInit ==
  /\ linkAge = LinkTimeout + 1
  /\ lastSeq = NoSeq
  /\ lastMode = "drive"
  /\ latched = FALSE
  /\ clearCount = 0

(* A new process has heard nothing. *)
InputReset ==
  /\ linkAge' = LinkTimeout + 1
  /\ lastSeq' = NoSeq
  /\ lastMode' = "drive"
  /\ latched' = FALSE
  /\ clearCount' = 0

IsNew_AnyFrame(f) == f # NoFrame

IsNew_Higher(f) == f # NoFrame /\ (lastSeq = NoSeq \/ f.seq > lastSeq)

(* A frame is new unless its number repeats the last accepted one. *)
IsNew(f) == f # NoFrame /\ f.seq # lastSeq

Ignored_BreaksCount(step) ==
  /\ linkAge' = Aged(linkAge, step, LinkTimeout + 1)
  /\ clearCount' = 0
  /\ UNCHANGED <<lastSeq, lastMode, latched>>

Ignored(step) ==
  /\ linkAge' = Aged(linkAge, step, LinkTimeout + 1)
  /\ UNCHANGED <<lastSeq, lastMode, latched, clearCount>>

Latch == latched' = TRUE /\ clearCount' = 0

CountDrive ==
  /\ clearCount' = clearCount + 1
  /\ \/ clearCount' < ClearFrames /\ UNCHANGED latched
     \/ clearCount' >= ClearFrames /\ latched' = FALSE

Accepted(f) ==
  /\ linkAge' = 0
  /\ lastSeq' = f.seq
  /\ lastMode' = f.mode
  /\ \/ f.mode = "estop" /\ Latch
     \/ f.mode = "drive" /\ latched /\ CountDrive
     \/ f.mode = "drive" /\ ~latched /\ UNCHANGED <<latched, clearCount>>

PollOperator_RefreshFirst(step, f) ==
  \/ IsNew(f) /\ Accepted(f)
  \/ ~IsNew(f) /\ f # NoFrame /\ linkAge' = 0
     /\ UNCHANGED <<lastSeq, lastMode, latched, clearCount>>
  \/ f = NoFrame /\ Ignored(step)

(* The tick's use of the link: f is what Rs485Link::poll handed over. *)
PollOperator(step, f) == IF IsNew(f) THEN Accepted(f) ELSE Ignored(step)
=============================================================================
