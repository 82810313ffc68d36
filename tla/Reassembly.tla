----------------------------- MODULE Reassembly -----------------------------
(***************************************************************************)
(* DroneCAN v0 transfer reassembly: feed_frame of the sniffer on its       *)
(* struct Transfer, and the same steps inside DroneCanEsc::poll.           *)
(*                                                                         *)
(* A frame is [stream, serial, index]: of which (type, node), which        *)
(* transfer of it and which frame of that.  A reader knows the stream from *)
(* the CAN id, and from the tail byte start and end of transfer, toggle    *)
(* and the 5-bit transfer id.  Op_Fault names a faulty variant of Op.      *)
(***************************************************************************)
EXTENDS Integers, Sequences

CONSTANTS
  Streams,    \* the (type, node) pairs on the bus
  Length,     \* CAN frames of a transfer of each stream
  TidMod,     \* the transfer id wraps at TidMod: 32
  Capacity    \* frames whose payload fits the buffer

ASSUME TransferAssumption ==
  /\ Length \in [Streams -> Nat \ {0}]
  /\ TidMod \in Nat \ {0} /\ Capacity \in Nat \ {0}

Serials == 0 .. 2 * TidMod - 1   \* tells a transfer from the next of its id
Frame == [stream : Streams, serial : Serials, index : Nat \ {0}]
Transfer ==
  [active : BOOLEAN, id : 0 .. TidMod - 1, toggle : {0, 1}, buf : Seq(Frame)]

Idle == [active |-> FALSE, id |-> 0, toggle |-> 0, buf |-> <<>>]

(* The tail byte. *)
Sot(f) == f.index = 1
Eot(f) == f.index = Length[f.stream]
Toggle(f) == (f.index - 1) % 2
Tid(f) == f.serial % TidMod

Kept(b, f) == IF Len(b) < Capacity THEN Append(b, f) ELSE b

Started_ToggleStays(t, f) ==
  [t EXCEPT !.active = ~Eot(f), !.id = Tid(f), !.buf = Kept(<<>>, f)]

(* The start of a transfer ends the one in progress.                       *)
Started(t, f) ==
  [active |-> ~Eot(f), id |-> Tid(f), toggle |-> 1, buf |-> Kept(<<>>, f)]

Fits_AnyToggle(t, f) == t.active /\ Tid(f) = t.id

(* A continuation must match the transfer in progress. *)
Fits(t, f) == t.active /\ Tid(f) = t.id /\ Toggle(f) = t.toggle

Fed(t, f) ==
  IF Sot(f) THEN Started(t, f)
  ELSE IF Fits(t, f)
       THEN [t EXCEPT !.active = ~Eot(f), !.toggle = 1 - @, !.buf = Kept(@, f)]
       ELSE [t EXCEPT !.active = FALSE]

(* The payload of the transfer f completes; <<>> when it completes none.   *)
Completed(t, f) ==
  IF Eot(f) /\ (Sot(f) \/ Fits(t, f)) THEN Fed(t, f).buf ELSE <<>>
=============================================================================
