----------------------------- MODULE Telemetry -----------------------------
(***************************************************************************)
(* The DroneCAN bus and its two listeners: can_sniff, which reassembles    *)
(* every stream on its own, and DroneCanEsc, which takes the esc.Status of *)
(* one node for the odometry of run_observe.                               *)
(*                                                                         *)
(* The frames of the streams interleave as arbitration has it; they are    *)
(* lost in the controller or the socket buffer, or received twice.  Either *)
(* listener reads them later, but in this order.                           *)
(***************************************************************************)
EXTENDS Reassembly

CONSTANTS
  Node,       \* the stream of esc.Status that is the odometry
  MaxLost     \* bound: frames of each stream lost in a row

ASSUME NodeAssumption == Node \in Streams /\ MaxLost \in [Streams -> Nat]

Sides == {"left", "right"}

VARIABLES
  program,   \* the listener that runs
  next,      \* the frame each stream sends next
  lost,      \* frames of each stream lost in a row
  reasm,     \* can_sniff: reasm
  decoded,   \* can_sniff: the last transfer decoded of each stream
  esc,       \* DroneCanEsc: reasm_
  reading,   \* DroneCanEsc: latest_.erpm_left, latest_.erpm_right
  clean,     \* history: frames of the current transfer that arrived in order
  whole,     \* history: the last transfer that arrived unharmed
  newest     \* history: what the last such status of each side said

busVars == <<next, lost, clean, whole, newest>>
readerVars == <<reasm, decoded, esc, reading>>
telemetryVars == <<program, busVars, readerVars>>

TelemetryTypeOK ==
  /\ program \in {"can_sniff", "run_observe"}
  /\ next \in [Streams -> Frame]
  /\ \A s \in Streams : lost[s] \in 0 .. MaxLost[s] /\ clean[s] \in 0 .. Length[s]
  /\ reasm \in [Streams -> Transfer] /\ esc \in Transfer
  /\ \A s \in Streams : Len(reasm[s].buf) <= Capacity /\ Len(decoded[s]) <= Capacity
  /\ reading \in [Sides -> {0, 1}] /\ newest \in [Sides -> {0, 1}]

(* The listener starts anywhere in a transfer. *)
TelemetryInit ==
  /\ program \in {"can_sniff", "run_observe"}
  /\ next \in [Streams -> [stream : Streams, serial : {0}, index : 1 .. 5]]
  /\ \A s \in Streams : next[s].stream = s /\ next[s].index <= Length[s]
  /\ lost = [s \in Streams |-> 0]
  /\ reasm = [s \in Streams |-> Idle]
  /\ decoded = [s \in Streams |-> <<>>]
  /\ esc = Idle
  /\ reading = [side \in Sides |-> 0]
  /\ clean = [s \in Streams |-> 0]
  /\ whole = [s \in Streams |-> <<>>]
  /\ newest = [side \in Sides |-> 0]

-----------------------------------------------------------------------------
(* can_sniff: one Transfer per stream, found by type and node.             *)

Key(s) == s

Sniff(f) ==
  LET k == Key(f.stream)
      payload == Completed(reasm[k], f)
  IN /\ reasm' = [reasm EXCEPT ![k] = Fed(@, f)]
     /\ decoded' = IF payload = <<>> THEN decoded
                   ELSE [decoded EXCEPT ![f.stream] = payload]
     /\ UNCHANGED <<esc, reading>>

(* DroneCanEsc::poll: the frames of one type of one node, and of those the *)
(* transfers that are long enough; esc_index tells the side.               *)
Ours_AnyNode(s) == s[1] = Node[1]

Ours(s) == s = Node

Side(f) == IF f.serial % 2 = 0 THEN "left" ELSE "right"

(* Our vehicle stands and drives by turns, another one drives. *)
Erpm(f) == IF f.stream = Node /\ f.serial < TidMod THEN 0 ELSE 1

TakeStatus(f) ==
  LET payload == Completed(esc, f)
  IN /\ \/ ~Ours(f.stream) /\ UNCHANGED <<esc, reading>>
        \/ /\ Ours(f.stream)
           /\ esc' = Fed(esc, f)
           /\ reading' = IF Len(payload) < Length[Node] THEN reading
                         ELSE [reading EXCEPT ![Side(payload[1])] = Erpm(payload[1])]
     /\ UNCHANGED <<reasm, decoded>>

Read(f) ==
  \/ program = "can_sniff" /\ Sniff(f)
  \/ program = "run_observe" /\ TakeStatus(f)

-----------------------------------------------------------------------------
(* The nodes and the bus. *)
After(f) ==
  IF Eot(f)
  THEN [f EXCEPT !.serial = (@ + 1) % (2 * TidMod), !.index = 1]
  ELSE [f EXCEPT !.index = @ + 1]

Before(f) == [f EXCEPT !.index = @ - 1]

Send(s) == next' = [next EXCEPT ![s] = After(@)]

(* A transfer arrived, all of it: each history for the program it is about.*)
Unharmed(f) ==
  /\ whole' = IF program = "can_sniff"
              THEN [whole EXCEPT ![f.stream] =
                      [i \in 1 .. Length[f.stream] |-> [f EXCEPT !.index = i]]]
              ELSE whole
  /\ newest' = IF program = "run_observe" /\ f.stream = Node
               THEN [newest EXCEPT ![Side(f)] = Erpm(f)] ELSE newest

Arrive(s) ==
  LET f == next[s]
      inOrder == IF Sot(f) THEN 1 ELSE IF clean[s] = f.index - 1 /\ clean[s] > 0
                                       THEN f.index ELSE 0
  IN /\ Read(f)
     /\ Send(s)
     /\ lost' = [lost EXCEPT ![s] = 0]
     /\ clean' = [clean EXCEPT ![s] = inOrder]
     /\ IF inOrder < Length[s] THEN UNCHANGED <<whole, newest>> ELSE Unharmed(f)
     /\ UNCHANGED program

Lose(s) ==
  /\ lost[s] < MaxLost[s]
  /\ lost' = [lost EXCEPT ![s] = @ + 1]
  /\ Send(s)
  /\ clean' = [clean EXCEPT ![s] = 0]
  /\ UNCHANGED <<program, whole, newest, readerVars>>

(* An acknowledge error makes the sender repeat a frame that did arrive;   *)
(* only a repeated first frame does the transfer no harm.                  *)
Repeat(s) ==
  /\ lost[s] = 0 /\ MaxLost[s] > 0
  /\ next[s].index > 1
  /\ Read(Before(next[s]))
  /\ clean' = [clean EXCEPT ![s] = IF next[s].index = 2 THEN 1 ELSE 0]
  /\ UNCHANGED <<program, next, lost, whole, newest>>

Bus == \E s \in Streams : Arrive(s) \/ Lose(s) \/ Repeat(s)

-----------------------------------------------------------------------------
Whole(b) ==
  b = [i \in 1 .. Length[b[1].stream] |-> [b[1] EXCEPT !.index = i]]

(* What the sniffer decodes is one transfer of one stream, all of it and   *)
(* in order, whatever was lost or repeated, as long as not a whole round   *)
(* of ids is lost.  It holds for transfers of up to three frames, as       *)
(* esc.Status: see LostFramesAreDropped.                                   *)
WholeTransfers == \A s \in Streams : decoded[s] # <<>> => Whole(decoded[s])

(* The sniffer recovers at once and keeps the streams apart: of each it    *)
(* has decoded the last transfer that arrived unharmed, whatever came      *)
(* before and between its frames.                                          *)
CleanTransferArrives == program = "can_sniff" => decoded = whole

(* The odometry is each track's own: the reading of a side is what the     *)
(* last status that arrived unharmed said of it, through losses, repeats   *)
(* and the statuses of other nodes.                                        *)
ReadingsAreTheirs == program = "run_observe" => reading = newest

(* What can_sniff.cpp:136-138 says: a transfer with lost frames is dropped *)
(* rather than spliced into garbage.                                       *)
LostFramesAreDropped ==
  \A s \in Streams : decoded[s] # <<>> => Len(decoded[s]) = Length[s]
=============================================================================
