--------------------------- MODULE OperatorLink ---------------------------
(***************************************************************************)
(* The operator's command path end to end: the console program, the radio  *)
(* modem with its queue, the UART buffer of the vehicle, the drain of      *)
(* Rs485Link::poll and the loop's handling of the frame it returns.        *)
(*                                                                         *)
(* The console sends at its own rate.  The modem may lose a frame, deliver *)
(* several in one burst, send its last frame again and again, and flush    *)
(* what it still has of its queue once more, in order.  Op_Fault names a   *)
(* faulty variant of Op.                                                   *)
(***************************************************************************)
EXTENDS OperatorInput, Sequences

CONSTANTS
  SeqMod,      \* bound: the 8-bit number wraps at SeqMod instead of 256
  MaxQueue,    \* bound: frames between console and loop
  MaxLosses,   \* bound: frames the radio loses
  MaxSwitches, \* bound: times the operator restarts the console
  MaxKept,     \* bound: frames the modem remembers having sent
  MaxFlushed,  \* bound: frames the modem sends out of their turn
  MaxStep      \* bound: periods between two iterations

ASSUME WireAssumption == /\ SeqMod \in Nat \ {0, 1} /\ Seqs = 0 .. SeqMod - 1
                         /\ MaxQueue \in Nat /\ MaxLosses \in Nat
                         /\ MaxSwitches \in Nat /\ MaxStep \in Nat \ {0}
                         /\ MaxKept \in Nat \ {0} /\ MaxFlushed \in Nat

VARIABLES
  mode,      \* what the running console sends, fixed by its arguments
  nextSeq,   \* frame.seq of the console
  air,       \* frames queued in the radio modem, oldest first
  kept,      \* frames the modem sent last, oldest first
  rx,        \* frames in the UART buffer
  losses,    \* frames lost so far
  switches,  \* console restarts so far
  flushed,   \* history: frames the modem sent out of their turn
  credit     \* history: frames transmitted, counted up to MaxQueue, less the
             \* refreshes of the link timer

wireVars == <<mode, nextSeq, air, kept, rx, losses, switches, flushed, credit>>
linkVars == <<wireVars, inputVars>>

TypeOK ==
  /\ InputTypeOK
  /\ mode \in Modes
  /\ nextSeq \in Seqs
  /\ air \in Seq(Frame) /\ rx \in Seq(Frame) /\ kept \in Seq(Frame)
  /\ Len(kept) <= MaxKept
  /\ Len(air) + Len(rx) <= MaxQueue
  /\ losses \in 0 .. MaxLosses
  /\ switches \in 0 .. MaxSwitches
  /\ flushed \in 0 .. MaxFlushed
  /\ credit \in Int

Init ==
  /\ InputInit
  /\ mode \in Modes
  /\ nextSeq = 0
  /\ air = <<>> /\ rx = <<>> /\ kept = <<>>
  /\ losses = 0
  /\ switches = 0
  /\ flushed = 0
  /\ credit = 0

-----------------------------------------------------------------------------
Room == Len(air) + Len(rx) < MaxQueue

(* The console writes one frame and counts on. *)
Transmit ==
  /\ Room
  /\ air' = Append(air, [seq |-> nextSeq, mode |-> mode])
  /\ nextSeq' = (nextSeq + 1) % SeqMod
  /\ credit' = IF credit < MaxQueue THEN credit + 1 ELSE credit
  /\ UNCHANGED <<mode, kept, rx, losses, switches, flushed, inputVars>>

(* The operator stops the console and starts it again, to drive or to stop *)
(* the vehicle: each process begins with sequence number 0.                *)
Switch(m) ==
  /\ switches < MaxSwitches
  /\ switches' = switches + 1
  /\ mode' = m
  /\ nextSeq' = 0
  /\ UNCHANGED <<air, kept, rx, losses, flushed, credit, inputVars>>

Lose ==
  /\ air # <<>>
  /\ losses < MaxLosses
  /\ losses' = losses + 1
  /\ air' = Tail(air)
  /\ UNCHANGED <<mode, nextSeq, kept, rx, switches, flushed, credit, inputVars>>

Remembered(q) == IF Len(q) <= MaxKept THEN q ELSE Tail(q)

(* The modem puts its oldest frame on the wire. *)
Deliver ==
  /\ air # <<>>
  /\ rx' = Append(rx, Head(air))
  /\ air' = Tail(air)
  /\ kept' = Remembered(Append(kept, Head(air)))
  /\ UNCHANGED <<mode, nextSeq, losses, switches, flushed, credit, inputVars>>

(* It sends its last frame once more ... *)
Repeat ==
  /\ kept # <<>> /\ Room
  /\ rx' = Append(rx, kept[Len(kept)])
  /\ UNCHANGED <<mode, nextSeq, air, kept, losses, switches, flushed, credit, inputVars>>

(* ... or flushes its queue again: A B A B. *)
Flush ==
  /\ kept # <<>>
  /\ Len(kept) + Len(air) + Len(rx) <= MaxQueue
  /\ air' = kept \o air
  /\ flushed' = flushed + Len(kept) /\ flushed' <= MaxFlushed
  /\ UNCHANGED <<mode, nextSeq, kept, rx, losses, switches, credit, inputVars>>

(* Rs485Link::poll empties the buffer and keeps the newest frame. *)
Drained == IF rx = <<>> THEN NoFrame ELSE rx[Len(rx)]

Iterate(step) ==
  /\ PollOperator(step, Drained)
  /\ rx' = <<>>
  /\ credit' = IF IsNew(Drained) THEN credit - 1 ELSE credit
  /\ UNCHANGED <<mode, nextSeq, air, kept, losses, switches, flushed>>

Tick == \E step \in 1 .. MaxStep : Iterate(step)

Next ==
  \/ Transmit \/ Lose \/ Deliver \/ Repeat \/ Flush \/ Tick
  \/ \E m \in Modes : Switch(m)

Spec == Init /\ [][Next]_linkVars

(* The loop paces itself and the modem does not keep a frame for ever. *)
FairSpec == Spec /\ WF_linkVars(Tick) /\ WF_linkVars(Deliver)

-----------------------------------------------------------------------------
(* The link timer is refreshed at most once for each frame transmitted and *)
(* each frame flushed out of its turn: a frame the modem sends again behind *)
(* itself, however often, never counts as a sign of life.  This is what    *)
(* run_vehicle.cpp:437 gives, which compares with the last number only; of *)
(* a flush (A B A B) lines 435-436 promise more: credit >= 0, which fails. *)
RefreshIsEarned == credit + flushed >= 0

(* What run_vehicle.cpp:19-20 says of the E-STOP: it latches.  A batch     *)
(* that holds an E-STOP frame leaves the loop latched.                     *)
EstopInBatchLatches ==
  [][rx # <<>> /\ rx' = <<>> /\ (\E i \in 1 .. Len(rx) : rx[i].mode = "estop")
       => latched']_linkVars

(* A console that keeps sending E-STOP frames gets the latch in the end,   *)
(* whatever single frames were lost, repeated or overlooked.               *)
Sending == nextSeq = 0
InsistingLatches ==
  <>[](mode = "estop") /\ []<>Sending /\ []<>~Sending => <>[]latched

(* A console gone silent is noticed: neither the frames still queued nor a *)
(* modem that sends its last frame for ever keeps the link up.             *)
Silent(n) == <>[](nextSeq = n)
SilenceIsNoticed == (\E n \in Seqs : Silent(n)) => <>[]~LinkOk
=============================================================================
