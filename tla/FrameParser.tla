---------------------------- MODULE FrameParser ----------------------------
(***************************************************************************)
(* The byte parser of the operator link, OperatorFrameParser::push: header *)
(* hunt, collection of a whole frame, check, and resynchronisation inside  *)
(* the buffer.                                                             *)
(*                                                                         *)
(* The line carries intact frames, byte after byte, and between them noise *)
(* of any kind: garbage and what is left of damaged frames.  A byte is its *)
(* value, as far as the parser compares it with the header, and its place  *)
(* in an intact frame; the checksum is taken to be perfect, so a buffer    *)
(* passes the check exactly when it holds an intact frame.  Op_Fault names *)
(* a faulty variant of Op.                                                 *)
(***************************************************************************)
EXTENDS Integers, Sequences

CONSTANT FrameSize   \* kOpFrameSize: 12

ASSUME SizeAssumption == FrameSize \in Nat \ 0 .. 2

Values == {"sync0", "sync1", "other"}   \* 0xA5, 0x5A, any other byte
Noise == 0                              \* the place of a byte of no frame
Byte == [val : Values, at : Noise .. FrameSize]

VARIABLES
  at,      \* place of the byte the line carried last; Noise outside a frame
  buf,     \* buf_[0 .. have_ - 1]
  found    \* the last push returned true

vars == <<at, buf, found>>

TypeOK ==
  /\ at \in Noise .. FrameSize
  /\ buf \in Seq(Byte) /\ Len(buf) < FrameSize
  /\ found \in BOOLEAN

Init == at = Noise /\ buf = <<>> /\ found = FALSE

-----------------------------------------------------------------------------
IsHeader(b, i) == b[i].val = "sync0" /\ b[i + 1].val = "sync1"

(* decode_operator_frame, with a perfect checksum. *)
Valid(b) == \A i \in 1 .. FrameSize : b[i].at = i

(* Where a header may start behind the first byte of a full buffer: at the *)
(* first pair, else at a lone first half at the very end.                  *)
Candidates(b) ==
  LET pairs == {i \in 2 .. FrameSize - 1 : IsHeader(b, i)}
  IN IF pairs # {} THEN pairs
     ELSE {i \in {FrameSize} : b[i].val = "sync0"}

First(places, i) == i \in places /\ \A j \in places : i <= j

Resync_StartOver(b) == buf' = <<>>

Resync_PairsOnly(b) ==
  LET pairs == {i \in 2 .. FrameSize - 1 : IsHeader(b, i)}
  IN \/ pairs = {} /\ buf' = <<>>
     \/ \E i \in pairs : First(pairs, i) /\ buf' = SubSeq(b, i, FrameSize)

(* The buffer keeps its end from the first candidate on. *)
Resync(b) ==
  \/ Candidates(b) = {} /\ buf' = <<>>
  \/ \E i \in Candidates(b) :
       First(Candidates(b), i) /\ buf' = SubSeq(b, i, FrameSize)

HuntFirst(b) ==
  /\ buf = <<>>
  /\ buf' = IF b.val = "sync0" THEN <<b>> ELSE <<>>
  /\ found' = FALSE

HuntSecond(b) ==
  /\ Len(buf) = 1
  /\ \/ b.val = "sync1" /\ buf' = Append(buf, b)
     \/ b.val = "sync0" /\ buf' = <<b>>
     \/ b.val = "other" /\ buf' = <<>>
  /\ found' = FALSE

Collect(b) ==
  /\ Len(buf) \in 2 .. FrameSize - 2
  /\ buf' = Append(buf, b)
  /\ found' = FALSE

Complete(b) ==
  LET full == Append(buf, b)
  IN /\ Len(buf) >= 2 /\ Len(buf) = FrameSize - 1
     /\ \/ Valid(full) /\ found' = TRUE /\ buf' = <<>>
        \/ ~Valid(full) /\ found' = FALSE /\ Resync(full)

Push(b) == HuntFirst(b) \/ HuntSecond(b) \/ Collect(b) \/ Complete(b)

-----------------------------------------------------------------------------
(* The value of the byte at place i of an intact frame; header values may  *)
(* also occur in its payload and checksum.                                 *)
ValuesAt(i) == CASE i = 1 -> {"sync0"} [] i = 2 -> {"sync1"} [] OTHER -> Values

InFrame == at \notin {Noise, FrameSize}

CarryNoise ==
  /\ ~InFrame
  /\ at' = Noise
  /\ \E v \in Values : Push([val |-> v, at |-> Noise])

CarryFrame ==
  LET i == IF InFrame THEN at + 1 ELSE 1
  IN /\ at' = i
     /\ \E v \in ValuesAt(i) : Push([val |-> v, at |-> i])

Next == CarryNoise \/ CarryFrame

Spec == Init /\ [][Next]_vars

-----------------------------------------------------------------------------
(* The parser never misses an intact frame, whatever noise came before it  *)
(* and however much of it looked like a header: with the frame's last byte *)
(* push returns true.                                                      *)
IntactFrameIsFound == at = FrameSize => found

(* From its first byte on, an intact frame is at the end of the buffer: a  *)
(* failed check on an earlier candidate never throws it away.              *)
FrameIsKept ==
  InFrame =>
    /\ Len(buf) >= at
    /\ \A i \in 1 .. at : buf[Len(buf) - at + i].at = i
=============================================================================
