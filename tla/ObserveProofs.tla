--------------------------- MODULE ObserveProofs ---------------------------
(***************************************************************************)
(* The dry run's state machine for every length of the trail, every bus    *)
(* and every telemetry: its two steps and the two signal handlers are      *)
(* proved about, whatever the estimator makes of the readings. Then the    *)
(* types of everything, the buffers of both readers included. Last, that   *)
(* both readers hear of every stream what the bus carried unharmed.        *)
(***************************************************************************)
EXTENDS Observe, SequenceTheorems, TLAPS

(* Every step, as far as the loop's own variables can tell. *)
LEMMA Steps ==
  ASSUME [Next]_vars
  PROVE  \/ UNCHANGED loopVars
         \/ Sense
         \/ pc = "decide" /\ Record /\ pc' = "sense" /\ signals' = 0
              /\ UNCHANGED <<crumbs, regain, latest>>
         \/ pc = "decide" /\ Follow /\ pc' = "sense" /\ signals' = 0
              /\ UNCHANGED <<crumbs, regain, latest>>
         \/ pc = "decide" /\ Arrived /\ pc' = "sense" /\ signals' = 0
              /\ UNCHANGED <<crumbs, regain, latest>>
         \/ Usr1 \/ Usr2
BY DEF Next, Listen, Loop, Decide, vars

-----------------------------------------------------------------------------
(* The controller exists while it follows the trail; the trail has a       *)
(* length, which is what makes its path long enough.                       *)
PathInv == crumbs \in Nat /\ state \in States /\ path \in Nat /\ ControllerInBacktrack

LEMMA PathInit ==
  ASSUME Init
  PROVE  PathInv
BY DEF Init, PathInv, ControllerInBacktrack, States

LEMMA PathKept ==
  ASSUME PathInv, [Next]_vars
  PROVE  PathInv'
<1>1. CASE UNCHANGED loopVars
  BY <1>1 DEF PathInv, ControllerInBacktrack, loopVars
<1>2. CASE Sense
  <2>1. crumbs' \in Nat
    BY <1>2, ObserveAssumption DEF Sense, PathInv
  <2>2. \/ state' = "record" /\ path' = 0
        \/ UNCHANGED <<state, path>>
    BY <1>2 DEF Sense
  <2> QED
    BY <2>1, <2>2 DEF PathInv, ControllerInBacktrack, States
<1>3. CASE Record /\ UNCHANGED crumbs
  BY <1>3 DEF Record, PathInv, ControllerInBacktrack, States
<1>4. CASE Follow /\ UNCHANGED crumbs
  BY <1>4 DEF Follow, PathInv, ControllerInBacktrack, States
<1>5. CASE Arrived /\ UNCHANGED crumbs
  BY <1>5 DEF Arrived, PathInv, ControllerInBacktrack
<1>6. CASE Usr1 \/ Usr2
  BY <1>6 DEF Usr1, Usr2, Signal, PathInv, ControllerInBacktrack
<1> QED
  BY <1>1, <1>2, <1>3, <1>4, <1>5, <1>6, Steps

(* compute() is called on a controller that exists, with two points or     *)
(* more, for every trail and every order of signals: run_observe.cpp's     *)
(* controller is there exactly in BACKTRACK.                               *)
THEOREM ComputeHasController == Spec => []ControllerInBacktrack
<1>1. PathInv => ControllerInBacktrack
  BY DEF PathInv
<1> QED
  BY <1>1, PathInit, PathKept, PTL DEF Spec

-----------------------------------------------------------------------------
(* A regain that came after Sense waits for the next iteration, where it   *)
(* is looked at before the trigger; a trigger never waits.                 *)
SignalInv ==
  /\ signals \in Nat
  /\ signals = 0 => ~trigger
  /\ pc = "decide" /\ regain => signals # 0
  /\ pc = "decide" /\ regain => latest # "lost"
  /\ latest = "lost" => trigger \/ (state # "record" /\ ~regain)
  /\ latest = "regained" => ~trigger /\ (regain \/ state = "record")

LEMMA SignalInit ==
  ASSUME Init
  PROVE  SignalInv
<1>1. ~trigger /\ latest = "none" /\ signals = 0 /\ pc = "sense"
  BY DEF Init
<1> QED
  BY <1>1 DEF SignalInv

LEMMA SignalKept ==
  ASSUME SignalInv, [Next]_vars
  PROVE  SignalInv'
<1>1. CASE UNCHANGED loopVars
  BY <1>1 DEF SignalInv, loopVars
<1>2. CASE Sense
  <2>1. ~regain' /\ pc' = "decide" /\ UNCHANGED <<trigger, latest, signals>>
    BY <1>2 DEF Sense, signalVars
  <2>2. regain => state' = "record"
    BY <1>2 DEF Sense
  <2>3. ~regain => state' = state
    BY <1>2 DEF Sense
  <2> QED
    BY <2>1, <2>2, <2>3 DEF SignalInv
<1>3. CASE /\ pc = "decide" /\ Record /\ pc' = "sense" /\ signals' = 0
           /\ UNCHANGED <<crumbs, regain, latest>>
  <2>1. ~trigger' /\ (trigger => state' # "record") /\ (~trigger => state' = state)
    BY <1>3 DEF Record
  <2> QED
    BY <1>3, <2>1 DEF SignalInv
<1>4. CASE /\ pc = "decide" /\ Follow /\ pc' = "sense" /\ signals' = 0
           /\ UNCHANGED <<crumbs, regain, latest>>
  <2>1. ~trigger' /\ state # "record" /\ state' # "record"
    BY <1>4 DEF Follow
  <2> QED
    BY <1>4, <2>1 DEF SignalInv
<1>5. CASE /\ pc = "decide" /\ Arrived /\ pc' = "sense" /\ signals' = 0
           /\ UNCHANGED <<crumbs, regain, latest>>
  <2>1. ~trigger' /\ state # "record" /\ state' # "record"
    BY <1>5 DEF Arrived
  <2> QED
    BY <1>5, <2>1 DEF SignalInv
<1>6. CASE Usr1
  <2>1. signals' \in Nat /\ signals' # 0
    BY <1>6 DEF Usr1, Signal, SignalInv
  <2>2. /\ latest' = IF signals = 0 THEN "lost" ELSE "none"
        /\ trigger' /\ UNCHANGED <<regain, pc>>
    BY <1>6 DEF Usr1, Signal
  <2> QED
    BY <2>1, <2>2 DEF SignalInv
<1>7. CASE Usr2
  <2>1. signals' \in Nat /\ signals' # 0
    BY <1>7 DEF Usr2, Signal, SignalInv
  <2>2. /\ latest' = IF signals = 0 THEN "regained" ELSE "none"
        /\ regain' /\ UNCHANGED <<trigger, pc>>
    BY <1>7 DEF Usr2, Signal
  <2> QED
    BY <2>1, <2>2 DEF SignalInv
<1> QED
  BY <1>1, <1>2, <1>3, <1>4, <1>5, <1>6, <1>7, Steps

(* The loop of run_observe.cpp obeys a signal that comes alone in its      *)
(* iteration, wherever in it, and however many came at once before.        *)
THEOREM LastSignalCounts == Spec => []FollowsSignals
<1>1. SignalInv => FollowsSignals
  BY DEF SignalInv, FollowsSignals, Settled
<1>2. SignalInv /\ [Next]_vars => SignalInv'
  BY SignalKept
<1> QED
  BY <1>1, <1>2, SignalInit, PTL DEF Spec

-----------------------------------------------------------------------------
(* A partial transfer never outgrows its buffer.                           *)
Fitting == {t \in Transfer : Len(t.buf) <= Capacity}

(* What the two readers hold: partial transfers and payloads that fit.     *)
ReaderInv ==
  /\ reasm \in [Streams -> Fitting] /\ esc \in Fitting
  /\ decoded \in [Streams -> Seq(Frame)]
  /\ \A s \in Streams : Len(decoded[s]) <= Capacity
  /\ reading \in [Sides -> {0, 1}]

(* What the nodes are about to send, and what the bus did to it so far.    *)
BusInv ==
  /\ program \in {"can_sniff", "run_observe"}
  /\ next \in [Streams -> Frame]
  /\ \A s \in Streams : next[s].stream = s /\ next[s].index <= Length[s]
  /\ lost \in [Streams -> Nat] /\ clean \in [Streams -> Nat]
  /\ \A s \in Streams : lost[s] <= MaxLost[s] /\ clean[s] <= Length[s]
  /\ newest \in [Sides -> {0, 1}]

(* A frame is kept only while the buffer has room.                         *)
LEMMA KeptFits ==
  ASSUME NEW b \in Seq(Frame), Len(b) <= Capacity, NEW f \in Frame
  PROVE  Kept(b, f) \in Seq(Frame) /\ Len(Kept(b, f)) <= Capacity
<1>1. Len(b) \in Nat
  BY LenProperties
<1> QED
  BY <1>1, AppendProperties, TransferAssumption DEF Kept

(* An empty payload fits.                                                  *)
LEMMA EmptyFits == <<>> \in Seq(Frame) /\ Len(<<>>) <= Capacity
BY EmptySeq, TransferAssumption

(* The id on the wire is a number of its width.                            *)
LEMMA TidInRange ==
  ASSUME NEW f \in Frame
  PROVE  Tid(f) \in 0 .. TidMod - 1
BY TransferAssumption DEF Tid, Frame, Serials

(* No transfer under way is a transfer.                                    *)
LEMMA IdleFits == Idle \in Fitting
<1>1. 0 \in 0 .. TidMod - 1
  BY TransferAssumption
<1> QED
  BY <1>1, EmptyFits DEF Fitting, Transfer, Idle

(* Whichever way a frame takes through feed_frame, the buffer fits.        *)
LEMMA FedFits ==
  ASSUME NEW t \in Fitting, NEW f \in Frame
  PROVE  Fed(t, f) \in Fitting
<1>1. /\ t \in Transfer /\ t.active \in BOOLEAN /\ t.id \in 0 .. TidMod - 1
      /\ t.toggle \in {0, 1} /\ t.buf \in Seq(Frame) /\ Len(t.buf) <= Capacity
      /\ t = [active |-> t.active, id |-> t.id, toggle |-> t.toggle, buf |-> t.buf]
  BY DEF Fitting, Transfer
<1>2. (~Eot(f)) \in BOOLEAN /\ FALSE \in BOOLEAN
  BY Zenon DEF Eot
<1>3. CASE Sot(f)
  <2>1. Fed(t, f) = [active |-> ~Eot(f), id |-> Tid(f), toggle |-> 1, buf |-> Kept(<<>>, f)]
    BY <1>3 DEF Fed, Started
  <2> DEFINE a == ~Eot(f)
             i == Tid(f)
             b == Kept(<<>>, f)
  <2>2. a \in BOOLEAN /\ i \in 0 .. TidMod - 1 /\ b \in Seq(Frame) /\ Len(b) <= Capacity
    BY <1>2, TidInRange, EmptyFits, KeptFits
  <2>3. Fed(t, f) = [active |-> a, id |-> i, toggle |-> 1, buf |-> b]
    BY <2>1
  <2> HIDE DEF a, i, b
  <2> QED
    BY <2>2, <2>3 DEF Fitting, Transfer
<1>4. CASE ~Sot(f) /\ Fits(t, f)
  <2> DEFINE a == ~Eot(f)
             g == 1 - t.toggle
             b == Kept(t.buf, f)
  <2>1. Fed(t, f) = [t EXCEPT !.active = a, !.toggle = g, !.buf = b]
    BY <1>4 DEF Fed
  <2>2. a \in BOOLEAN /\ g \in {0, 1} /\ b \in Seq(Frame) /\ Len(b) <= Capacity
    BY <1>1, <1>2, KeptFits
  <2> HIDE DEF a, g, b
  <2> QED
    BY <1>1, <2>1, <2>2 DEF Fitting, Transfer
<1>5. CASE ~Sot(f) /\ ~Fits(t, f)
  <2>1. Fed(t, f) = [t EXCEPT !.active = FALSE]
    BY <1>5 DEF Fed
  <2> QED
    BY <1>1, <1>2, <2>1 DEF Fitting, Transfer
<1> QED
  BY <1>3, <1>4, <1>5

(* What is handed over fits.                                               *)
LEMMA CompletedFits ==
  ASSUME NEW t \in Fitting, NEW f \in Frame
  PROVE  Completed(t, f) \in Seq(Frame) /\ Len(Completed(t, f)) <= Capacity
<1>1. Fed(t, f).buf \in Seq(Frame) /\ Len(Fed(t, f).buf) <= Capacity
  BY FedFits DEF Fitting, Transfer
<1> QED
  BY <1>1, EmptyFits DEF Completed

(* What a status says has its type.                                        *)
LEMMA SideAndErpm ==
  ASSUME NEW f \in Frame
  PROVE  Side(f) \in Sides /\ Erpm(f) \in {0, 1}
BY DEF Side, Sides, Erpm

(* can_sniff takes a frame.                                                *)
LEMMA SniffKeeps ==
  ASSUME ReaderInv, NEW f \in Frame, Sniff(f)
  PROVE  ReaderInv'
<1> DEFINE k == Key(f.stream)
           payload == Completed(reasm[k], f)
<1>1. f.stream \in Streams /\ k \in Streams
  BY DEF Frame, Key
<1>2. reasm[k] \in Fitting
  BY <1>1 DEF ReaderInv
<1>3. payload \in Seq(Frame) /\ Len(payload) <= Capacity /\ Fed(reasm[k], f) \in Fitting
  BY <1>2, CompletedFits, FedFits
<1>4. /\ reasm' = [reasm EXCEPT ![k] = Fed(reasm[k], f)]
      /\ decoded' = decoded \/ decoded' = [decoded EXCEPT ![f.stream] = payload]
      /\ esc' = esc /\ reading' = reading
  BY <1>1 DEF Sniff, ReaderInv
<1> HIDE DEF k, payload
<1>5. reasm' \in [Streams -> Fitting]
  BY <1>1, <1>3, <1>4 DEF ReaderInv
<1>6. decoded' \in [Streams -> Seq(Frame)] /\ \A s \in Streams : Len(decoded'[s]) <= Capacity
  BY <1>1, <1>3, <1>4 DEF ReaderInv
<1> QED
  BY <1>4, <1>5, <1>6 DEF ReaderInv

(* DroneCanEsc takes a frame.                                              *)
LEMMA TakeStatusKeeps ==
  ASSUME ReaderInv, NEW f \in Frame, TakeStatus(f)
  PROVE  ReaderInv'
<1> DEFINE payload == Completed(esc, f)
<1>1. payload \in Seq(Frame) /\ Fed(esc, f) \in Fitting
  BY CompletedFits, FedFits DEF ReaderInv
<1>2. /\ reasm' = reasm /\ decoded' = decoded
      /\ esc' = esc \/ esc' = Fed(esc, f)
      /\ \/ reading' = reading
         \/ /\ Len(payload) >= Length[Node]
            /\ reading' = [reading EXCEPT ![Side(payload[1])] = Erpm(payload[1])]
  <2>1. Len(payload) \in Nat /\ Length[Node] \in Nat
    BY <1>1, LenProperties, TransferAssumption, NodeAssumption
  <2> QED
    BY <2>1 DEF TakeStatus
<1> HIDE DEF payload
<1>3. reading' \in [Sides -> {0, 1}]
  <2>1. CASE reading' = reading
    BY <2>1 DEF ReaderInv
  <2>2. CASE Len(payload) >= Length[Node]
               /\ reading' = [reading EXCEPT ![Side(payload[1])] = Erpm(payload[1])]
    <3>1. Len(payload) \in Nat /\ Length[Node] \in Nat \ {0}
      BY <1>1, LenProperties, TransferAssumption, NodeAssumption
    <3>2. 1 \in 1 .. Len(payload)
      BY <2>2, <3>1
    <3>3. payload[1] \in Frame
      BY <1>1, <3>2, ElementOfSeq
    <3>4. Erpm(payload[1]) \in {0, 1}
      BY <3>3, SideAndErpm
    <3> QED
      BY <2>2, <3>4 DEF ReaderInv
  <2> QED
    BY <1>2, <2>1, <2>2
<1>4. esc' \in Fitting
  BY <1>1, <1>2 DEF ReaderInv
<1> QED
  BY <1>2, <1>3, <1>4 DEF ReaderInv

(* The frame a node sends next is of the same stream.                      *)
LEMMA AfterIsFrame ==
  ASSUME NEW f \in Frame, f.index <= Length[f.stream]
  PROVE  /\ After(f) \in Frame /\ After(f).stream = f.stream
         /\ After(f).index <= Length[f.stream]
<1>1. /\ f.stream \in Streams /\ f.serial \in Int /\ f.index \in Nat \ {0}
      /\ f = [stream |-> f.stream, serial |-> f.serial, index |-> f.index]
      /\ f.serial \in Serials /\ Length[f.stream] \in Nat \ {0}
  BY TransferAssumption DEF Frame, Serials
<1>2. CASE Eot(f)
  <2> DEFINE n == (f.serial + 1) % (2 * TidMod)
  <2>1. n \in Serials
    BY <1>1, TransferAssumption DEF Serials
  <2>2. After(f) = [f EXCEPT !.serial = n, !.index = 1]
    BY <1>2 DEF After
  <2> HIDE DEF n
  <2>3. After(f) = [stream |-> f.stream, serial |-> n, index |-> 1]
    BY <1>1, <2>2
  <2> QED
    BY <1>1, <2>1, <2>3 DEF Frame
<1>3. CASE ~Eot(f)
  <2> DEFINE n == f.index + 1
  <2>1. n \in Nat \ {0} /\ n <= Length[f.stream]
    BY <1>1, <1>3 DEF Eot
  <2>2. After(f) = [f EXCEPT !.index = n]
    BY <1>3 DEF After
  <2> HIDE DEF n
  <2>3. After(f) = [stream |-> f.stream, serial |-> f.serial, index |-> n]
    BY <1>1, <2>2
  <2> QED
    BY <1>1, <2>1, <2>3 DEF Frame
<1> QED
  BY <1>2, <1>3

(* The frame it may repeat is a frame.                                     *)
LEMMA BeforeIsFrame ==
  ASSUME NEW f \in Frame, f.index > 1
  PROVE  Before(f) \in Frame
<1>1. f.index \in Nat \ {0}
  BY DEF Frame
<1> DEFINE n == f.index - 1
<1>2. n \in Nat \ {0}
  BY <1>1
<1>3. Before(f) = [f EXCEPT !.index = n]
  BY DEF Before
<1> HIDE DEF n
<1> QED
  BY <1>2, <1>3 DEF Frame

(* A node goes on to its next frame.                                       *)
LEMMA SendKeeps ==
  ASSUME BusInv, NEW s \in Streams, Send(s)
  PROVE  /\ next' \in [Streams -> Frame]
         /\ \A r \in Streams : next'[r].stream = r /\ next'[r].index <= Length[r]
<1>1. next[s] \in Frame /\ next[s].stream = s /\ next[s].index <= Length[s]
  BY DEF BusInv
<1>2. After(next[s]) \in Frame /\ After(next[s]).stream = s /\ After(next[s]).index <= Length[s]
  BY <1>1, AfterIsFrame
<1>3. next' = [next EXCEPT ![s] = After(next[s])]
  BY DEF Send, BusInv
<1> QED
  BY <1>2, <1>3 DEF BusInv

(* Either program listens.                                                 *)
LEMMA ReadKeeps ==
  ASSUME ReaderInv, NEW f \in Frame, Read(f)
  PROVE  ReaderInv'
BY SniffKeeps, TakeStatusKeeps DEF Read

(* A frame arrives, in order or not.                                       *)
LEMMA ArriveKeeps ==
  ASSUME BusInv, ReaderInv, NEW s \in Streams, Arrive(s)
  PROVE  BusInv' /\ ReaderInv'
<1> DEFINE f == next[s]
           inOrder == IF Sot(f) THEN 1
                      ELSE IF clean[s] = f.index - 1 /\ clean[s] > 0 THEN f.index ELSE 0
<1>1. f \in Frame /\ f.index <= Length[s] /\ f.index \in Nat \ {0} /\ Length[s] \in Nat \ {0}
  BY TransferAssumption DEF BusInv, Frame
<1>2. inOrder \in Nat /\ inOrder <= Length[s]
  BY <1>1
<1>3. /\ Read(f) /\ Send(s) /\ lost' = [lost EXCEPT ![s] = 0]
      /\ clean' = [clean EXCEPT ![s] = inOrder] /\ program' = program
      /\ newest' = newest \/ newest' = [newest EXCEPT ![Side(f)] = Erpm(f)]
  BY DEF Arrive, Unharmed
<1>4. MaxLost[s] \in Nat
  BY NodeAssumption
<1> HIDE DEF f, inOrder
<1>5. lost' \in [Streams -> Nat] /\ \A r \in Streams : lost'[r] <= MaxLost[r]
  BY <1>3, <1>4 DEF BusInv
<1>6. clean' \in [Streams -> Nat] /\ \A r \in Streams : clean'[r] <= Length[r]
  BY <1>2, <1>3 DEF BusInv
<1>7. newest' \in [Sides -> {0, 1}]
  BY <1>1, <1>3, SideAndErpm DEF BusInv
<1> QED
  BY <1>1, <1>3, <1>5, <1>6, <1>7, SendKeeps, ReadKeeps DEF BusInv

(* A frame is lost; only so many in a row.                                 *)
LEMMA LoseKeeps ==
  ASSUME BusInv, ReaderInv, NEW s \in Streams, Lose(s)
  PROVE  BusInv' /\ ReaderInv'
<1>1. Send(s) /\ UNCHANGED <<program, newest, reasm, decoded, esc, reading>>
  BY DEF Lose, readerVars
<1>2. lost' \in [Streams -> Nat] /\ \A r \in Streams : lost'[r] <= MaxLost[r]
  <2>1. lost[s] \in Nat /\ lost[s] < MaxLost[s] /\ MaxLost[s] \in Nat
        /\ lost' = [lost EXCEPT ![s] = lost[s] + 1]
    BY NodeAssumption DEF Lose, BusInv
  <2>2. lost[s] + 1 \in Nat /\ lost[s] + 1 <= MaxLost[s]
    BY <2>1
  <2> QED
    BY <2>1, <2>2 DEF BusInv
<1>3. clean' \in [Streams -> Nat] /\ \A r \in Streams : clean'[r] <= Length[r]
  <2>1. Length[s] \in Nat /\ 0 \in Nat /\ 0 <= Length[s]
    BY TransferAssumption
  <2>2. clean' = [clean EXCEPT ![s] = 0]
    BY DEF Lose
  <2> QED
    BY <2>1, <2>2 DEF BusInv
<1> QED
  BY <1>1, <1>2, <1>3, SendKeeps DEF BusInv, ReaderInv

(* The frame before is sent again.                                         *)
LEMMA RepeatKeeps ==
  ASSUME BusInv, ReaderInv, NEW s \in Streams, Repeat(s)
  PROVE  BusInv' /\ ReaderInv'
<1>1. Before(next[s]) \in Frame
  BY BeforeIsFrame DEF Repeat, BusInv
<1>2. ReaderInv'
  BY <1>1, ReadKeeps DEF Repeat
<1> DEFINE c == IF next[s].index = 2 THEN 1 ELSE 0
<1>3. c \in Nat /\ c <= Length[s]
  BY TransferAssumption
<1>4. clean' = [clean EXCEPT ![s] = c] /\ UNCHANGED <<program, next, lost, newest>>
  BY DEF Repeat
<1> HIDE DEF c
<1>5. clean' \in [Streams -> Nat] /\ \A r \in Streams : clean'[r] <= Length[r]
  BY <1>3, <1>4 DEF BusInv
<1> QED
  BY <1>2, <1>4, <1>5 DEF BusInv

(* The loop's own variables. *)
LoopInv ==
  /\ pc \in {"sense", "decide"} /\ state \in States
  /\ path \in (0 .. MaxCrumbs) \ {1} /\ crumbs \in 1 .. MaxCrumbs
  /\ trigger \in BOOLEAN /\ regain \in BOOLEAN
  /\ latest \in {"none", "lost", "regained"} /\ signals \in 0 .. MaxSignals

(* All of them together.                                                   *)
TypeInv == BusInv /\ ReaderInv /\ LoopInv

(* An iteration of the loop leaves the bus alone.                          *)
LEMMA BusStays ==
  ASSUME BusInv, ReaderInv, UNCHANGED telemetryVars
  PROVE  BusInv' /\ ReaderInv'
BY DEF BusInv, ReaderInv, telemetryVars, busVars, readerVars

(* The bus leaves the loop alone.                                          *)
LEMMA LoopStays ==
  ASSUME LoopInv, UNCHANGED loopVars
  PROVE  LoopInv'
<1>1. UNCHANGED <<pc, state, path, crumbs, trigger, regain, latest, signals>>
  BY DEF loopVars
<1>2. trigger' \in BOOLEAN /\ regain' \in BOOLEAN
  BY <1>1 DEF LoopInv
<1> QED
  BY <1>1, <1>2 DEF LoopInv

(* The steps of an iteration and the signals, on the loop's variables.     *)
LEMMA LoopKeeps ==
  ASSUME LoopInv, Sense \/ Decide \/ Usr1 \/ Usr2
  PROVE  LoopInv'
<1>1. MaxCrumbs \in Nat \ {0, 1} /\ MaxSignals \in Nat /\ "record" \in States
      /\ "backtrack" \in States /\ "arrived" \in States
  BY ObserveAssumption DEF States
<1>2. ASSUME Sense
      PROVE  LoopInv'
  <2>1. trigger' \in BOOLEAN /\ regain' \in BOOLEAN
    BY <1>2 DEF Sense, LoopInv
  <2>2. crumbs' \in 1 .. MaxCrumbs
    BY <1>1, <1>2 DEF Sense, LoopInv
  <2>3. state' \in States /\ path' \in (0 .. MaxCrumbs) \ {1}
    BY <1>1, <1>2 DEF Sense, LoopInv
  <2>4. pc' = "decide" /\ latest' = latest /\ signals' = signals
    BY <1>2 DEF Sense, signalVars
  <2> QED
    BY <2>1, <2>2, <2>3, <2>4 DEF LoopInv
<1>3. ASSUME Decide
      PROVE  LoopInv'
  <2>1. trigger' \in BOOLEAN /\ regain' \in BOOLEAN
    BY <1>3 DEF Decide, Record, Follow, Arrived, LoopInv
  <2>2. pc' = "sense" /\ signals' = 0 /\ crumbs' = crumbs /\ latest' = latest
    BY <1>3 DEF Decide
  <2>3. state' \in States /\ path' \in (0 .. MaxCrumbs) \ {1}
    BY <1>1, <1>3 DEF Decide, Record, Follow, Arrived, LoopInv
  <2>4. signals' \in 0 .. MaxSignals
    BY <1>1, <2>2
  <2> QED
    BY <2>1, <2>2, <2>3, <2>4 DEF LoopInv
<1>4. ASSUME Usr1 \/ Usr2
      PROVE  LoopInv'
  <2>1. trigger' \in BOOLEAN /\ regain' \in BOOLEAN
    BY <1>4 DEF Usr1, Usr2, LoopInv
  <2>2. signals' \in 0 .. MaxSignals /\ latest' \in {"none", "lost", "regained"}
        /\ UNCHANGED <<pc, state, path, crumbs>>
    BY <1>1, <1>4 DEF Usr1, Usr2, Signal, LoopInv
  <2> QED
    BY <2>1, <2>2 DEF LoopInv
<1> QED
  BY <1>2, <1>3, <1>4

(* Nothing has arrived and the program records.                            *)
LEMMA Initially ==
  ASSUME Init
  PROVE  TypeInv
<1>1. ReaderInv
  <2>1. reasm = [s \in Streams |-> Idle] /\ esc = Idle /\ decoded = [s \in Streams |-> <<>>]
        /\ reading = [side \in Sides |-> 0]
    BY DEF Init, TelemetryInit
  <2> QED
    BY <2>1, IdleFits, EmptyFits DEF ReaderInv
<1>2. BusInv
  <2>1. next \in [Streams -> Frame] /\ \A s \in Streams : next[s].stream = s /\ next[s].index <= Length[s]
    <3>1. \A s \in Streams : next[s] \in [stream : Streams, serial : {0}, index : 1 .. 5]
      BY DEF Init, TelemetryInit
    <3>2. 0 \in Serials
      BY TransferAssumption DEF Serials
    <3>3. [stream : Streams, serial : {0}, index : 1 .. 5] \subseteq Frame
      BY <3>2 DEF Frame
    <3> QED
      BY <3>1, <3>3 DEF Init, TelemetryInit
  <2>2. lost = [s \in Streams |-> 0] /\ clean = [s \in Streams |-> 0]
        /\ newest = [side \in Sides |-> 0] /\ program \in {"can_sniff", "run_observe"}
    BY DEF Init, TelemetryInit
  <2>3. \A s \in Streams : MaxLost[s] \in Nat /\ Length[s] \in Nat
    BY NodeAssumption, TransferAssumption
  <2> QED
    BY <2>1, <2>2, <2>3 DEF BusInv
<1>3. LoopInv
  <2>1. trigger \in BOOLEAN /\ regain \in BOOLEAN
    BY DEF Init
  <2> QED
    BY <2>1, ObserveAssumption DEF Init, LoopInv, States
<1> QED
  BY <1>1, <1>2, <1>3 DEF TypeInv

(* Every step keeps the types.                                             *)
LEMMA TypesKept ==
  ASSUME TypeInv, [Next]_vars
  PROVE  TypeInv'
<1>1. BusInv /\ ReaderInv /\ LoopInv
  BY DEF TypeInv
<1>2. CASE Listen
  <2>1. PICK s \in Streams : Arrive(s) \/ Lose(s) \/ Repeat(s)
    BY <1>2 DEF Listen, Bus
  <2>2. BusInv' /\ ReaderInv'
    BY <1>1, <2>1, ArriveKeeps, LoseKeeps, RepeatKeeps
  <2>3. LoopInv'
    BY <1>1, <1>2, LoopStays DEF Listen
  <2> QED
    BY <2>2, <2>3 DEF TypeInv
<1>3. CASE Loop
  BY <1>1, <1>3, BusStays, LoopKeeps DEF Loop, TypeInv
<1>4. CASE UNCHANGED vars
  BY <1>1, <1>4, BusStays, LoopStays DEF vars, TypeInv
<1> QED
  BY <1>2, <1>3, <1>4 DEF Next

(* Every variable of the telemetry and of the observer has its type; no    *)
(* reassembly buffer and no payload of can_sniff or DroneCanEsc outgrows   *)
(* its Capacity, for any nodes, transfer lengths and losses.               *)
THEOREM TypeCorrect == Spec => []TypeOK
<1>1. ASSUME TypeInv
      PROVE  TypeOK
  <2>1. BusInv /\ ReaderInv /\ LoopInv
    BY <1>1 DEF TypeInv
  <2>2. reasm \in [Streams -> Transfer] /\ esc \in Transfer
        /\ \A s \in Streams : Len(reasm[s].buf) <= Capacity
    BY <2>1 DEF ReaderInv, Fitting
  <2>3. \A s \in Streams : lost[s] \in 0 .. MaxLost[s] /\ clean[s] \in 0 .. Length[s]
    <3>1. ASSUME NEW s \in Streams
          PROVE  lost[s] \in 0 .. MaxLost[s] /\ clean[s] \in 0 .. Length[s]
      <4>1. /\ lost[s] \in Nat /\ lost[s] <= MaxLost[s]
            /\ clean[s] \in Nat /\ clean[s] <= Length[s]
        BY <2>1 DEF BusInv
      <4>2. MaxLost[s] \in Nat /\ Length[s] \in Nat
        BY NodeAssumption, TransferAssumption
      <4> QED
        BY <4>1, <4>2
    <3> QED
      BY <3>1
  <2>4. TelemetryTypeOK
    BY <2>1, <2>2, <2>3 DEF ReaderInv, BusInv, TelemetryTypeOK
  <2>5. trigger \in BOOLEAN /\ regain \in BOOLEAN
    BY <2>1 DEF LoopInv
  <2> QED
    BY <2>1, <2>4, <2>5 DEF LoopInv, TypeOK
<1>2. TypeInv => TypeOK
  BY <1>1
<1>3. TypeInv /\ [Next]_vars => TypeInv'
  BY TypesKept
<1> QED
  BY <1>2, <1>3, Initially, PTL DEF Spec

-----------------------------------------------------------------------------
(* The losses of a stream that cannot splice two transfers: not a whole    *)
(* round of ids, and an even gap only where the transfer is too short for  *)
(* one. Five frames with two lost in a row do splice, as the violation of  *)
(* LostFramesAreDropped shows; esc.Status has three.                       *)
Harmless(s) ==
  /\ Length[s] <= Capacity
  /\ MaxLost[s] < Length[s] * TidMod
  /\ Length[s] <= 3 \/ MaxLost[s] <= 1

(* The serial d transfers later, for up to a round of ids.                 *)
Turned(a, d) == IF a + d < 2 * TidMod THEN a + d ELSE a + d - 2 * TidMod

(* The first n frames of the transfer of f.                                *)
Parts(f, n) == [i \in 1 .. n |-> [stream |-> f.stream, serial |-> f.serial, index |-> i]]

(* Where a listener is in stream s, whose next frame is n after l lost in  *)
(* a row and c that arrived in order: what it holds is the beginning of    *)
(* one transfer, the frame it waits for is l before n, and one that        *)
(* arrived in order so far is held.                                        *)
Tracked(s, n, l, c, t) ==
  /\ t.active =>
       /\ Len(t.buf) \in 1 .. Length[s] - 1
       /\ t.buf[1] \in Frame /\ t.buf[1].stream = s /\ t.buf[1].index = 1
       /\ t.buf = Parts(t.buf[1], Len(t.buf))
       /\ t.id = Tid(t.buf[1]) /\ t.toggle = Len(t.buf) % 2
       /\ \E d \in 0 .. TidMod :
            /\ l + 1 = Length[s] * d + n.index - Len(t.buf)
            /\ n.serial = Turned(t.buf[1].serial, d)
       /\ l = 0 => c = Len(t.buf)
  /\ c > 0 /\ n.index > 1 => t.active /\ l = 0

(* A number below twice the modulus is reduced by one subtraction.         *)
LEMMA SmallMod ==
  ASSUME NEW m \in Nat \ {0}, NEW x \in 0 .. 2 * m - 1
  PROVE  x % m = IF x < m THEN x ELSE x - m
OBVIOUS

(* The serials go round by one.                                            *)
LEMMA FullTurn ==
  ASSUME NEW x \in Serials
  PROVE  (x + 1) % (2 * TidMod) = Turned(x, 1)
<1>1. 2 * TidMod \in Nat \ {0} /\ x + 1 \in 0 .. 2 * (2 * TidMod) - 1
  BY TransferAssumption DEF Serials
<1> DEFINE m == 2 * TidMod
           y == x + 1
<1>2. y % m = IF y < m THEN y ELSE y - m
  <2> HIDE DEF m, y
  <2> QED
    BY <1>1, SmallMod DEF m, y
<1> QED
  BY <1>1, <1>2, TransferAssumption DEF Turned, Serials

(* Of the next round of ids only the same one and the one after a whole    *)
(* round look alike on the wire.                                           *)
LEMMA SameId ==
  ASSUME NEW a \in Serials, NEW d \in 0 .. TidMod, Turned(a, d) % TidMod = a % TidMod
  PROVE  d \in {0, TidMod}
<1>1. TidMod \in Nat \ {0} /\ Turned(a, d) \in 0 .. 2 * TidMod - 1
  BY TransferAssumption DEF Serials, Turned
<1>2. a % TidMod = IF a < TidMod THEN a ELSE a - TidMod
  BY <1>1, SmallMod DEF Serials
<1>3. Turned(a, d) % TidMod = IF Turned(a, d) < TidMod THEN Turned(a, d) ELSE Turned(a, d) - TidMod
  BY <1>1, SmallMod
<1> QED
  BY <1>1, <1>2, <1>3 DEF Serials, Turned

(* So many frames lost in a row that a listener hears nothing of d whole   *)
(* transfers: no more than a round of them.                                *)
LEMMA Turns ==
  ASSUME NEW l \in Nat, NEW q \in Nat \ {0}, NEW m \in Nat \ {0}, NEW d \in Nat, NEW i \in 1 .. q,
         NEW k \in 1 .. q - 1, l < q * m, l + 1 = q * d + i - k
  PROVE  d <= m
<1> SUFFICES ASSUME d >= m + 1 PROVE FALSE
  OBVIOUS
<1>1. q * (d - (m + 1)) >= 0
  OBVIOUS
<1>2. q * d >= q * m + q
  BY <1>1
<1> QED
  BY <1>2

(* What a frame's stream, serial and place make of it. *)
LEMMA FrameFields ==
  ASSUME NEW f \in Frame
  PROVE  /\ f.stream \in Streams /\ f.serial \in Serials /\ f.index \in Nat \ {0}
         /\ f = [stream |-> f.stream, serial |-> f.serial, index |-> f.index]
         /\ \A i : [f EXCEPT !.index = i] = [stream |-> f.stream, serial |-> f.serial, index |-> i]
BY DEF Frame

(* A frame that fits the transfer in progress is its next one. *)
LEMMA FitsInOrder ==
  ASSUME NEW s \in Streams, Harmless(s), NEW n \in Frame, n.stream = s, n.index \in 2 .. Length[s],
         NEW l \in 0 .. MaxLost[s], NEW c, NEW t \in Fitting, Tracked(s, n, l, c, t), Fits(t, n)
  PROVE  l = 0 /\ n.index = Len(t.buf) + 1 /\ n.serial = t.buf[1].serial
<1> DEFINE k == Len(t.buf)
           a == t.buf[1].serial
           q == Length[s]
           i == n.index
<1>1. /\ k \in 1 .. q - 1 /\ t.buf[1] \in Frame /\ t.id = Tid(t.buf[1]) /\ t.toggle = k % 2
      /\ Tid(n) = t.id /\ Toggle(n) = t.toggle
  BY DEF Fits, Tracked
<1>2. PICK d \in 0 .. TidMod : l + 1 = q * d + i - k /\ n.serial = Turned(a, d)
  BY DEF Fits, Tracked
<1>3. a \in Serials
  BY <1>1, FrameFields
<1>4. Turned(a, d) % TidMod = a % TidMod
  BY <1>1, <1>2 DEF Tid
<1>5. d \in {0, TidMod}
  BY <1>3, <1>4, SameId
<1>6. /\ q \in Nat \ {0} /\ TidMod \in Nat \ {0} /\ MaxLost[s] \in Nat /\ i \in 2 .. q
      /\ l \in Nat /\ l <= MaxLost[s] /\ MaxLost[s] < q * TidMod /\ (q <= 3 \/ l <= 1)
  BY TransferAssumption, NodeAssumption DEF Harmless
<1>7. (i - 1) % 2 = k % 2
  BY <1>1 DEF Toggle
<1> HIDE DEF k, a, q, i
<1>8. CASE d = 0
  <2>1. l + 1 = i - k
    <3>1. q * d = 0
      BY <1>6, <1>8
    <3> QED
      BY <1>1, <1>2, <1>6, <3>1
  <2>2. l = 0
    BY <1>1, <1>6, <1>7, <2>1
  <2>3. n.serial = a
    BY <1>2, <1>3, <1>8, TransferAssumption DEF Turned, Serials
  <2> QED
    BY <1>1, <1>6, <2>1, <2>2, <2>3 DEF k, a, i
<1>9. CASE d = TidMod
  <2> DEFINE p == q * TidMod
  <2>1. l + 1 = p + i - k /\ p \in Nat /\ l < p
    BY <1>1, <1>2, <1>6, <1>9
  <2>2. p >= q
    BY <1>6
  <2> HIDE DEF p
  <2>3. CASE q <= 3
    BY <1>1, <1>6, <1>7, <2>1, <2>3
  <2>4. CASE l <= 1
    BY <1>1, <1>6, <2>1, <2>2, <2>4
  <2> QED
    BY <1>6, <2>3, <2>4
<1> QED
  BY <1>5, <1>8, <1>9

(* The frames of the transfer in order, once n has arrived after c.        *)
InOrder(n, c) ==
  IF Sot(n) THEN 1 ELSE IF c = n.index - 1 /\ c > 0 THEN n.index ELSE 0

(* A transfer written out is a sequence of its frames.                     *)
LEMMA PartsAre ==
  ASSUME NEW f \in Frame, NEW m \in Nat
  PROVE  /\ [i \in 1 .. m |-> [f EXCEPT !.index = i]] = Parts(f, m)
         /\ Parts(f, m) \in Seq(Frame) /\ Len(Parts(f, m)) = m
         /\ \A i \in 1 .. m : Parts(f, m)[i] = [stream |-> f.stream, serial |-> f.serial, index |-> i]
<1>1. [i \in 1 .. m |-> [f EXCEPT !.index = i]] = Parts(f, m)
  BY FrameFields, Zenon DEF Parts
<1>2. \A i \in 1 .. m : Parts(f, m)[i] = [stream |-> f.stream, serial |-> f.serial, index |-> i]
  BY DEF Parts
<1>3. Parts(f, m) \in [1 .. m -> Frame]
  <2>1. \A i \in 1 .. m : [stream |-> f.stream, serial |-> f.serial, index |-> i] \in Frame
    BY FrameFields DEF Frame
  <2> QED
    BY <2>1 DEF Parts
<1>4. Parts(f, m) \in Seq(Frame) /\ Len(Parts(f, m)) = m
  BY <1>3, IsASeq, LenProperties
<1> QED
  BY <1>1, <1>2, <1>4

(* The next frame of a transfer makes it longer by one.                    *)
LEMMA PartsGrow ==
  ASSUME NEW f \in Frame, NEW m \in Nat, NEW g \in Frame,
         g.stream = f.stream, g.serial = f.serial, g.index = m + 1
  PROVE  Append(Parts(f, m), g) = Parts(f, m + 1)
<1>1. Parts(f, m) \in Seq(Frame) /\ Len(Parts(f, m)) = m /\ Parts(f, m + 1) \in Seq(Frame)
      /\ Len(Parts(f, m + 1)) = m + 1
  BY PartsAre
<1>2. g = [stream |-> f.stream, serial |-> f.serial, index |-> m + 1]
  BY FrameFields
<1>3. /\ Append(Parts(f, m), g) \in Seq(Frame) /\ Len(Append(Parts(f, m), g)) = m + 1
      /\ Append(Parts(f, m), g)[m + 1] = g
      /\ \A i \in 1 .. m : Append(Parts(f, m), g)[i] = Parts(f, m)[i]
  BY <1>1, AppendProperties
<1>4. ASSUME NEW i \in 1 .. m + 1
      PROVE  Append(Parts(f, m), g)[i] = Parts(f, m + 1)[i]
  <2>1. Parts(f, m + 1)[i] = [stream |-> f.stream, serial |-> f.serial, index |-> i]
    BY PartsAre
  <2>2. CASE i = m + 1
    BY <1>2, <1>3, <2>1, <2>2
  <2>3. CASE i # m + 1
    <3>1. i \in 1 .. m
      BY <2>3
    <3>2. Parts(f, m)[i] = [stream |-> f.stream, serial |-> f.serial, index |-> i]
      BY <3>1, PartsAre
    <3> QED
      BY <1>3, <2>1, <3>1, <3>2
  <2> QED
    BY <2>2, <2>3
<1> QED
  BY <1>1, <1>3, <1>4, SeqEqual

(* After the last frame of a transfer comes the first of the next.         *)
LEMMA NextFrame ==
  ASSUME NEW n \in Frame, n.index <= Length[n.stream]
  PROVE  /\ After(n).stream = n.stream
         /\ Eot(n) => After(n).index = 1 /\ After(n).serial = Turned(n.serial, 1)
         /\ ~Eot(n) => After(n).index = n.index + 1 /\ After(n).serial = n.serial
<1>1. n.serial \in Serials /\ n = [stream |-> n.stream, serial |-> n.serial, index |-> n.index]
  BY FrameFields
<1>2. (n.serial + 1) % (2 * TidMod) = Turned(n.serial, 1)
  BY <1>1, FullTurn
<1> DEFINE w == (n.serial + 1) % (2 * TidMod)
<1>3. CASE Eot(n)
  <2>1. After(n) = [n EXCEPT !.serial = w, !.index = 1]
    BY <1>3 DEF After
  <2> HIDE DEF w
  <2>2. After(n) = [stream |-> n.stream, serial |-> w, index |-> 1]
    BY <1>1, <2>1
  <2> QED
    BY <1>2, <1>3, <2>2 DEF w
<1>4. CASE ~Eot(n)
  <2>1. After(n) = [n EXCEPT !.index = n.index + 1]
    BY <1>4 DEF After
  <2>2. After(n) = [stream |-> n.stream, serial |-> n.serial, index |-> n.index + 1]
    BY <1>1, <2>1
  <2> QED
    BY <1>4, <2>2
<1> QED
  BY <1>3, <1>4

(* A frame is lost: the distance to the bus grows by one.                  *)
LEMMA LoseTracks ==
  ASSUME NEW s \in Streams, Harmless(s), NEW n \in Frame, n.stream = s, n.index <= Length[s],
         NEW l \in Nat, l < MaxLost[s], NEW c, NEW t, Tracked(s, n, l, c, t)
  PROVE  Tracked(s, After(n), l + 1, 0, t)
<1>1. ASSUME t.active
      PROVE  \E d \in 0 .. TidMod :
               /\ l + 2 = Length[s] * d + After(n).index - Len(t.buf)
               /\ After(n).serial = Turned(t.buf[1].serial, d)
  <2> DEFINE q == Length[s]
             k == Len(t.buf)
             a == t.buf[1].serial
             i == n.index
  <2>1. /\ k \in 1 .. q - 1 /\ a \in Serials
        /\ \E d \in 0 .. TidMod : l + 1 = q * d + i - k /\ n.serial = Turned(a, d)
    BY <1>1, FrameFields DEF Tracked
  <2>2. PICK d \in 0 .. TidMod : l + 1 = q * d + i - k /\ n.serial = Turned(a, d)
    BY <2>1
  <2>3. /\ q \in Nat \ {0} /\ TidMod \in Nat \ {0} /\ MaxLost[s] \in Nat /\ i \in 1 .. q
        /\ l + 1 < q * TidMod
    BY TransferAssumption, NodeAssumption, FrameFields DEF Harmless
  <2> HIDE DEF q, k, a, i
  <2>4. CASE Eot(n)
    <3>1. After(n).index = 1 /\ After(n).serial = Turned(n.serial, 1) /\ i = q
      BY <2>4, NextFrame DEF Eot, i, q
    <3>2. l + 2 = q * (d + 1) + 1 - k
      <4>1. q * d \in Int /\ q * (d + 1) = q * d + q
        BY <2>3
      <4> QED
        BY <2>1, <2>2, <2>3, <3>1, <4>1
    <3>3. d + 1 <= TidMod
      <4>1. l + 1 \in Nat /\ d + 1 \in Nat /\ 1 \in 1 .. q /\ (l + 1) + 1 = q * (d + 1) + 1 - k
        BY <2>3, <3>2
      <4> QED
        BY <2>1, <2>3, <4>1, Turns
    <3>4. Turned(Turned(a, d), 1) = Turned(a, d + 1)
      BY <2>1, <2>3, <3>3 DEF Turned, Serials
    <3>5. d + 1 \in 0 .. TidMod
      BY <2>3, <3>3
    <3> QED
      BY <2>2, <3>1, <3>2, <3>4, <3>5 DEF q, k, a, i
  <2>5. CASE ~Eot(n)
    <3>1. After(n).index = i + 1 /\ After(n).serial = n.serial
      BY <2>5, NextFrame DEF i
    <3>2. l + 2 = q * d + After(n).index - k
      <4>1. q * d \in Int
        BY <2>3
      <4> QED
        BY <2>1, <2>2, <2>3, <3>1, <4>1
    <3> QED
      BY <2>2, <3>1, <3>2 DEF q, k, a
  <2> QED
    BY <2>4, <2>5
<1>2. l + 1 # 0 /\ (l + 1) + 1 = l + 2 /\ ~(0 > 0)
  OBVIOUS
<1>3. ASSUME t.active
      PROVE  /\ Len(t.buf) \in 1 .. Length[s] - 1
             /\ t.buf[1] \in Frame /\ t.buf[1].stream = s /\ t.buf[1].index = 1
             /\ t.buf = Parts(t.buf[1], Len(t.buf))
             /\ t.id = Tid(t.buf[1]) /\ t.toggle = Len(t.buf) % 2
  BY <1>3, Zenon DEF Tracked
<1> QED
  BY <1>1, <1>2, <1>3, Zenon DEF Tracked

(* In a transfer that is in order the next frame is its next one. *)
LEMMA InOrderFollows ==
  ASSUME NEW s \in Streams, NEW n \in Frame, n.index \in 1 .. Length[s], NEW c, NEW t,
         t.active, Tracked(s, n, 0, c, t)
  PROVE  /\ n.index = Len(t.buf) + 1 /\ c = Len(t.buf)
         /\ n.serial = t.buf[1].serial
<1> DEFINE q == Length[s]
           k == Len(t.buf)
           a == t.buf[1].serial
<1>1. /\ k \in 1 .. q - 1 /\ a \in Serials /\ c = k
      /\ \E d \in 0 .. TidMod : 1 = q * d + n.index - k /\ n.serial = Turned(a, d)
  BY FrameFields DEF Tracked
<1>2. PICK d \in 0 .. TidMod : 1 = q * d + n.index - k /\ n.serial = Turned(a, d)
  BY <1>1
<1>3. q \in Nat \ {0} /\ TidMod \in Nat \ {0}
  BY TransferAssumption
<1> HIDE DEF q, k, a
<1>4. d = 0
  <2> SUFFICES ASSUME d >= 1 PROVE FALSE
    BY <1>3
  <2>1. q * (d - 1) >= 0 /\ q * d = q * (d - 1) + q
    BY <1>3
  <2>2. q * d >= q /\ q * d \in Int /\ n.index >= 1 /\ n.index \in Int
    BY <1>3, <2>1
  <2> QED
    BY <1>1, <1>2, <1>3, <2>2
<1>5. q * d = 0
  BY <1>3, <1>4
<1>6. n.index = k + 1
  BY <1>1, <1>2, <1>3, <1>5
<1>7. n.serial = a
  BY <1>1, <1>2, <1>3, <1>4 DEF Turned, Serials
<1> QED
  BY <1>1, <1>6, <1>7 DEF k, a

(* A first frame starts a transfer that is in order.                       *)
LEMMA StartTracks ==
  ASSUME NEW s \in Streams, Harmless(s), NEW f \in Frame, f.stream = s, f.index = 1,
         NEW n \in Frame, n = After(f), NEW t \in Fitting
  PROVE  /\ Fed(t, f).buf = Parts(f, 1)
         /\ Length[s] # 1 => Tracked(s, n, 0, 1, Fed(t, f))
         /\ Length[s] = 1 => \A c : n.index = 1 /\ Tracked(s, n, 0, c, Fed(t, f))
<1>1. /\ Sot(f) /\ Length[s] \in Nat \ {0} /\ Capacity \in Nat \ {0} /\ TidMod \in Nat \ {0}
      /\ f.serial \in Serials
  BY TransferAssumption, FrameFields DEF Sot
<1>2. Len(<<>>) = 0 /\ Append(<<>>, f) = <<f>> /\ <<f>>[1] = f /\ Len(<<f>>) = 1
  OBVIOUS
<1>3. Kept(<<>>, f) = <<f>>
  BY <1>1, <1>2 DEF Kept
<1>4. Fed(t, f) = [active |-> ~Eot(f), id |-> Tid(f), toggle |-> 1, buf |-> <<f>>]
  BY <1>1, <1>3 DEF Fed, Started
<1> DEFINE u == Fed(t, f)
<1>5. (u.active <=> ~Eot(f)) /\ u.id = Tid(f) /\ u.toggle = 1 /\ u.buf = <<f>>
  <2> DEFINE a == ~Eot(f)
             i == Tid(f)
             b == <<f>>
  <2>1. u = [active |-> a, id |-> i, toggle |-> 1, buf |-> b]
    BY <1>4
  <2> HIDE DEF u, a, i, b
  <2>2. u.active = a /\ u.id = i /\ u.toggle = 1 /\ u.buf = b
    BY <2>1
  <2> QED
    BY <2>2, Zenon DEF a, i, b
<1> HIDE DEF u
<1>6. <<f>> = Parts(f, 1)
  <2>1. f = [stream |-> f.stream, serial |-> f.serial, index |-> 1]
    BY FrameFields
  <2>2. <<f>> \in Seq(Frame) /\ Parts(f, 1) \in Seq(Frame) /\ Len(Parts(f, 1)) = 1
        /\ Parts(f, 1)[1] = [stream |-> f.stream, serial |-> f.serial, index |-> 1]
    <3>1. 1 \in Nat /\ 1 \in 1 .. 1
      OBVIOUS
    <3>2. <<f>> \in Seq(Frame)
      OBVIOUS
    <3> QED
      BY <3>1, <3>2, PartsAre
  <2> QED
    BY <1>2, <2>1, <2>2, SeqEqual
<1>7. CASE Length[s] # 1
  <2>1. ~Eot(f) /\ n.index = 2 /\ n.serial = f.serial
    BY <1>1, <1>7, NextFrame DEF Eot
  <2>2. 0 + 1 = Length[s] * 0 + n.index - 1 /\ n.serial = Turned(f.serial, 0) /\ 0 \in 0 .. TidMod
    BY <1>1, <2>1 DEF Turned, Serials
  <2>3. 1 \in 1 .. Length[s] - 1 /\ 1 % 2 = 1
    BY <1>1, <1>7
  <2>4. /\ Len(u.buf) = 1 /\ u.buf[1] = f /\ u.buf = Parts(u.buf[1], Len(u.buf)) /\ u.active
    BY <1>2, <1>5, <1>6, <2>1
  <2>5. Tracked(s, n, 0, 1, u)
    BY <1>5, <2>2, <2>3, <2>4 DEF Tracked
  <2> QED
    BY <1>5, <1>6, <1>7, <2>5 DEF u
<1>8. CASE Length[s] = 1
  <2>1. Eot(f) /\ n.index = 1
    BY <1>1, <1>8, NextFrame DEF Eot
  <2>2. ASSUME NEW c
        PROVE  Tracked(s, n, 0, c, u)
    <3>1. ~u.active /\ ~(n.index > 1)
      BY <1>5, <2>1
    <3> QED
      BY <3>1 DEF Tracked
  <2> QED
    BY <1>5, <1>6, <1>8, <2>1, <2>2 DEF u
<1> QED
  BY <1>7, <1>8

(* A frame arrives: the reader stays on track, and what it completes is    *)
(* the whole of a transfer that arrived unharmed, or nothing.              *)
LEMMA ArriveTracks ==
  ASSUME NEW s \in Streams, Harmless(s), NEW n \in Frame, n.stream = s, n.index <= Length[s],
         NEW l \in 0 .. MaxLost[s], NEW c \in Nat, NEW t \in Fitting, Tracked(s, n, l, c, t)
  PROVE  /\ Tracked(s, After(n), 0, InOrder(n, c), Fed(t, n))
         /\ Completed(t, n) =
              IF InOrder(n, c) < Length[s] THEN <<>> ELSE Parts(n, Length[s])
<1>1. /\ n.index \in 1 .. Length[s] /\ Length[s] \in Nat \ {0} /\ After(n) \in Frame
      /\ n.serial \in Serials /\ TidMod \in Nat \ {0}
  BY TransferAssumption, FrameFields, AfterIsFrame
<1>2. CASE Sot(n)
  <2>1. InOrder(n, c) = 1 /\ n.index = 1
    BY <1>2 DEF InOrder, Sot
  <2>2. /\ Fed(t, n).buf = Parts(n, 1)
        /\ Length[s] # 1 => Tracked(s, After(n), 0, 1, Fed(t, n))
        /\ Length[s] = 1 => Tracked(s, After(n), 0, 1, Fed(t, n))
    BY <1>1, <2>1, StartTracks
  <2>3. Completed(t, n) = IF Length[s] = 1 THEN Parts(n, 1) ELSE <<>>
    BY <1>2, <2>1, <2>2 DEF Completed, Eot
  <2>4. 1 < Length[s] <=> Length[s] # 1
    BY <1>1
  <2> QED
    BY <2>1, <2>2, <2>3, <2>4
<1>3. CASE ~Sot(n) /\ Fits(t, n)
  <2> DEFINE k == Len(t.buf)
             f == t.buf[1]
             u == Fed(t, n)
  <2>1. n.index \in 2 .. Length[s]
    BY <1>1, <1>3 DEF Sot
  <2>2. l = 0 /\ n.index = k + 1 /\ n.serial = f.serial
    BY <1>3, <2>1, FitsInOrder
  <2>3. /\ k \in 1 .. Length[s] - 1 /\ f \in Frame /\ f.stream = s /\ f.index = 1
        /\ t.buf = Parts(f, k) /\ t.id = Tid(f) /\ t.toggle = k % 2 /\ c = k /\ t.active
    BY <1>3, <2>2 DEF Fits, Tracked
  <2>4. k < Capacity
    BY <1>1, <2>3, TransferAssumption DEF Harmless
  <2>5. Kept(t.buf, n) = Parts(f, k + 1)
    BY <2>2, <2>3, <2>4, PartsGrow DEF Kept
  <2>6. u = [t EXCEPT !.active = ~Eot(n), !.toggle = 1 - t.toggle, !.buf = Parts(f, k + 1)]
    BY <1>3, <2>5 DEF Fed
  <2>7. (u.active <=> ~Eot(n)) /\ u.id = t.id /\ u.toggle = 1 - t.toggle /\ u.buf = Parts(f, k + 1)
    BY <2>6 DEF Fitting, Transfer
  <2>8. InOrder(n, c) = k + 1
    BY <1>3, <2>2, <2>3 DEF InOrder
  <2>9. k + 1 \in Nat \ {0} /\ Len(Parts(f, k + 1)) = k + 1
        /\ Parts(f, k + 1)[1] = [stream |-> f.stream, serial |-> f.serial, index |-> 1]
    <3>1. k + 1 \in Nat /\ 1 \in 1 .. k + 1 /\ k + 1 \in Nat \ {0} /\ f \in Frame
      BY <1>1, <2>3
    <3> HIDE DEF k, f
    <3> QED
      BY <3>1, PartsAre
  <2>10. Parts(f, k + 1)[1] = f
    BY <2>3, <2>9, FrameFields
  <2> HIDE DEF k, f, u
  <2>11. CASE Eot(n)
    <3>1. k + 1 = Length[s] /\ After(n).index = 1
      BY <1>1, <2>2, <2>11, NextFrame DEF Eot
    <3>2. Completed(t, n) = Parts(f, k + 1)
      BY <1>3, <2>7, <2>11 DEF Completed, u
    <3>3. Parts(f, k + 1) = Parts(n, Length[s])
      BY <2>2, <2>3, <3>1 DEF Parts
    <3>4. ~u.active /\ ~(After(n).index > 1)
      BY <2>7, <2>11, <3>1
    <3>5. Tracked(s, After(n), 0, InOrder(n, c), u)
      BY <3>4 DEF Tracked
    <3> QED
      BY <1>1, <2>8, <3>1, <3>2, <3>3, <3>5 DEF u
  <2>12. CASE ~Eot(n)
    <3>1. k + 1 # Length[s] /\ After(n).index = k + 2 /\ After(n).serial = f.serial
      BY <1>1, <2>2, <2>3, <2>12, NextFrame DEF Eot
    <3>2. k + 1 \in 1 .. Length[s] - 1 /\ k + 1 < Length[s]
      BY <1>1, <2>3, <3>1
    <3>3. Completed(t, n) = <<>>
      BY <2>12 DEF Completed
    <3>4. /\ 0 + 1 = Length[s] * 0 + After(n).index - (k + 1)
          /\ After(n).serial = Turned(f.serial, 0) /\ 0 \in 0 .. TidMod
      <4>1. f.serial \in Serials
        BY <2>3, FrameFields
      <4> QED
        BY <1>1, <2>3, <3>1, <4>1 DEF Turned, Serials
    <3>5. u.active /\ Len(u.buf) = k + 1 /\ u.buf[1] = f /\ u.id = Tid(f)
          /\ u.toggle = (k + 1) % 2 /\ u.buf = Parts(f, k + 1)
      BY <2>3, <2>7, <2>9, <2>10, <2>12
    <3>6. Tracked(s, After(n), 0, k + 1, u)
      BY <2>3, <3>2, <3>4, <3>5 DEF Tracked
    <3> QED
      BY <2>8, <3>2, <3>3, <3>6 DEF u
  <2> QED
    BY <2>11, <2>12
<1>4. CASE ~Sot(n) /\ ~Fits(t, n)
  <2> DEFINE u == Fed(t, n)
  <2>1. Completed(t, n) = <<>>
    BY <1>4 DEF Completed
  <2>2. u = [t EXCEPT !.active = FALSE]
    BY <1>4 DEF Fed
  <2>3. u.active = FALSE
    BY <2>2 DEF Fitting, Transfer
  <2> HIDE DEF u
  <2>4. ~(c = n.index - 1 /\ c > 0)
    <3> SUFFICES ASSUME c = n.index - 1, c > 0 PROVE FALSE
      OBVIOUS
    <3>1. n.index > 1
      BY <1>1
    <3>2. t.active /\ l = 0
      BY <3>1 DEF Tracked
    <3>3. Tracked(s, n, 0, c, t)
      BY <3>2
    <3>4. n.index = Len(t.buf) + 1 /\ n.serial = t.buf[1].serial
      BY <1>1, <3>2, <3>3, InOrderFollows
    <3>5. t.id = Tid(t.buf[1]) /\ t.toggle = Len(t.buf) % 2 /\ Len(t.buf) \in 1 .. Length[s] - 1
      BY <3>2 DEF Tracked
    <3>6. Tid(n) = t.id /\ Toggle(n) = t.toggle
      BY <3>4, <3>5 DEF Tid, Toggle
    <3> QED
      BY <1>4, <3>2, <3>6 DEF Fits
  <2>5. InOrder(n, c) = 0
    BY <1>4, <2>4 DEF InOrder
  <2>6. ~(0 > 0) /\ 0 < Length[s]
    BY <1>1
  <2>7. Tracked(s, After(n), 0, 0, u)
    BY <2>3, <2>6 DEF Tracked
  <2> QED
    BY <2>1, <2>5, <2>6, <2>7 DEF u
<1> QED
  BY <1>2, <1>3, <1>4

(* A frame is repeated: it completes nothing, and only a first frame is    *)
(* taken.                                                                  *)
LEMMA RepeatTracks ==
  ASSUME NEW s \in Streams, Harmless(s), NEW n \in Frame, n.stream = s, n.index \in 2 .. Length[s],
         NEW c, NEW t \in Fitting, Tracked(s, n, 0, c, t)
  PROVE  /\ Tracked(s, n, 0, IF n.index = 2 THEN 1 ELSE 0, Fed(t, Before(n)))
         /\ Completed(t, Before(n)) = <<>>
<1> DEFINE f == Before(n)
           u == Fed(t, f)
<1>1. Length[s] \in Nat \ {0} /\ n = [stream |-> s, serial |-> n.serial, index |-> n.index]
  BY TransferAssumption, FrameFields
<1>2. f = [n EXCEPT !.index = n.index - 1]
  BY DEF Before
<1>3. f.stream = s /\ f.serial = n.serial /\ f.index = n.index - 1
  BY <1>1, <1>2
<1>4. f \in Frame
  <2>1. n.index > 1
    BY <1>1
  <2> QED
    BY <2>1, BeforeIsFrame
<1> HIDE DEF f
<1>5. ~Eot(f)
  BY <1>1, <1>3 DEF Eot
<1>6. Completed(t, f) = <<>>
  BY <1>5 DEF Completed
<1>7. CASE n.index = 2
  <2>1. f.index = 1 /\ Length[s] # 1
    BY <1>1, <1>3, <1>7
  <2>2. n = After(f)
    <3>1. After(f) \in Frame /\ After(f).stream = s /\ After(f).index = 2 /\ After(f).serial = n.serial
      <4>1. f.index <= Length[f.stream]
        BY <1>1, <1>3, <2>1
      <4> QED
        BY <1>3, <1>4, <1>5, <2>1, <4>1, NextFrame, AfterIsFrame
    <3> QED
      BY <1>1, <1>7, <3>1, FrameFields
  <2>3. Tracked(s, n, 0, 1, u)
    BY <1>3, <1>4, <2>1, <2>2, StartTracks
  <2> QED
    BY <1>6, <1>7, <2>3 DEF f
<1>8. CASE n.index # 2
  <2>1. ~Sot(f)
    BY <1>1, <1>3, <1>8 DEF Sot
  <2>2. ~Fits(t, f)
    <3> SUFFICES ASSUME Fits(t, f) PROVE FALSE
      OBVIOUS
    <3>1. t.active /\ Toggle(f) = t.toggle
      BY DEF Fits
    <3>2. n.index = Len(t.buf) + 1
      BY <1>1, <3>1, InOrderFollows
    <3>3. t.toggle = Len(t.buf) % 2 /\ Len(t.buf) \in 1 .. Length[s] - 1
      BY <3>1 DEF Tracked
    <3> DEFINE k == Len(t.buf)
    <3>4. k \in Nat \ {0} /\ t.toggle = k % 2 /\ Toggle(f) = (k - 1) % 2
      BY <1>1, <1>3, <3>2, <3>3 DEF Toggle
    <3> HIDE DEF k
    <3>5. (k - 1) % 2 # k % 2
      BY <3>4
    <3> QED
      BY <3>1, <3>4, <3>5
  <2>3. u = [t EXCEPT !.active = FALSE]
    BY <2>1, <2>2 DEF Fed
  <2>4. u.active = FALSE
    BY <2>3 DEF Fitting, Transfer
  <2> HIDE DEF u
  <2>5. Tracked(s, n, 0, 0, u)
    <3>1. ~(0 > 0)
      OBVIOUS
    <3> QED
      BY <2>4, <3>1, Zenon DEF Tracked
  <2> QED
    BY <1>6, <1>8, <2>5 DEF f, u
<1> QED
  BY <1>7, <1>8

-----------------------------------------------------------------------------
(* Of each stream the sniffer holds the last transfer that arrived         *)
(* unharmed, whole, and is where the bus is in the current one.            *)
SniffInv ==
  /\ whole \in [Streams -> Seq(Frame)]
  /\ \A s \in Streams :
       decoded[s] = <<>> \/ \E f \in Frame : f.stream = s /\ decoded[s] = Parts(f, Length[s])
  /\ program = "can_sniff" =>
       /\ decoded = whole
       /\ \A s \in Streams : Tracked(s, next[s], lost[s], clean[s], reasm[s])

(* The odometry is where the bus is in its own stream.                     *)
OdometryInv ==
  program = "run_observe" =>
    reading = newest /\ Tracked(Node, next[Node], lost[Node], clean[Node], esc)

(* What a step of the bus does, whoever listens.                           *)
LEMMA BusTypes ==
  ASSUME BusInv, ReaderInv, NEW s \in Streams
  PROVE  /\ next[s] \in Frame /\ next[s].stream = s /\ next[s].index <= Length[s]
         /\ next[s].index \in Nat \ {0} /\ Length[s] \in Nat \ {0} /\ MaxLost[s] \in Nat
         /\ lost[s] \in 0 .. MaxLost[s] /\ clean[s] \in Nat
         /\ reasm[s] \in Fitting /\ esc \in Fitting
<1>1. lost[s] \in Nat /\ lost[s] <= MaxLost[s] /\ MaxLost[s] \in Nat
  BY NodeAssumption DEF BusInv
<1> QED
  BY <1>1, TransferAssumption DEF BusInv, ReaderInv, Frame

(* What arriving does to the bus, in the words of the invariants.          *)
LEMMA ArriveMoves ==
  ASSUME BusInv, ReaderInv, NEW s \in Streams, Arrive(s)
  PROVE  /\ program' = program /\ Read(next[s])
         /\ next' = [next EXCEPT ![s] = After(next[s])]
         /\ lost' = [lost EXCEPT ![s] = 0]
         /\ clean' = [clean EXCEPT ![s] = InOrder(next[s], clean[s])]
         /\ IF InOrder(next[s], clean[s]) < Length[s]
            THEN UNCHANGED <<whole, newest>> ELSE Unharmed(next[s])
BY DEF Arrive, InOrder, Send, BusInv

(* can_sniff takes a frame that arrives.                                   *)
LEMMA SniffArrives ==
  ASSUME \A s \in Streams : Harmless(s), BusInv, ReaderInv, SniffInv, program = "can_sniff",
         NEW s \in Streams, Arrive(s)
  PROVE  SniffInv'
<1> DEFINE n == next[s]
           o == InOrder(n, clean[s])
           payload == Completed(reasm[s], n)
           all == Parts(n, Length[s])
<1>1. /\ n \in Frame /\ n.stream = s /\ Length[s] \in Nat \ {0} /\ reasm[s] \in Fitting
  BY BusTypes
<1>2. /\ Tracked(s, After(n), 0, o, Fed(reasm[s], n))
      /\ payload = IF o < Length[s] THEN <<>> ELSE all
  <2>1. Tracked(s, n, lost[s], clean[s], reasm[s])
    BY DEF SniffInv
  <2> QED
    BY <2>1, BusTypes, ArriveTracks
<1>3. all \in Seq(Frame) /\ all # <<>>
      /\ [i \in 1 .. Length[s] |-> [n EXCEPT !.index = i]] = all
  <2>1. Len(all) # 0 /\ Len(<<>>) = 0
    BY <1>1, PartsAre
  <2> QED
    BY <1>1, <2>1, PartsAre
<1>4. /\ program' = program /\ Sniff(n)
      /\ next' = [next EXCEPT ![s] = After(n)] /\ lost' = [lost EXCEPT ![s] = 0]
      /\ clean' = [clean EXCEPT ![s] = o]
      /\ IF o < Length[s] THEN whole' = whole ELSE Unharmed(n)
  BY ArriveMoves DEF Read
<1>5. /\ reasm' = [reasm EXCEPT ![s] = Fed(reasm[s], n)]
      /\ decoded' = IF payload = <<>> THEN decoded ELSE [decoded EXCEPT ![s] = payload]
  BY <1>1, <1>4 DEF Sniff, Key, ReaderInv
<1>6. Unharmed(n) => whole' = [whole EXCEPT ![s] = all]
  <2>1. Unharmed(n) => whole' = [whole EXCEPT ![s] = [i \in 1 .. Length[s] |-> [n EXCEPT !.index = i]]]
    BY <1>1, Zenon DEF Unharmed
  <2> QED
    BY <1>3, <2>1
<1>7. \/ decoded' = decoded /\ whole' = whole
      \/ decoded' = [decoded EXCEPT ![s] = all] /\ whole' = [whole EXCEPT ![s] = all]
  BY <1>2, <1>3, <1>4, <1>5, <1>6
<1> HIDE DEF n, o, payload, all
<1>8. decoded' = whole' /\ whole' \in [Streams -> Seq(Frame)]
  <2>1. decoded = whole /\ whole \in [Streams -> Seq(Frame)]
    BY DEF SniffInv
  <2>2. all \in Seq(Frame)
    BY <1>3
  <2>3. CASE whole' = whole /\ decoded' = decoded
    BY <2>1, <2>3
  <2>4. CASE decoded' = [decoded EXCEPT ![s] = all] /\ whole' = [whole EXCEPT ![s] = all]
    BY <2>1, <2>2, <2>4
  <2> QED
    BY <1>7, <2>3, <2>4
<1>9. \A r \in Streams :
       decoded'[r] = <<>> \/ \E f \in Frame : f.stream = r /\ decoded'[r] = Parts(f, Length[r])
  <2>1. ASSUME NEW r \in Streams
        PROVE  decoded'[r] = <<>> \/ \E f \in Frame : f.stream = r /\ decoded'[r] = Parts(f, Length[r])
    <3>1. CASE decoded'[r] = decoded[r]
      BY <3>1 DEF SniffInv
    <3>2. CASE r = s /\ decoded'[r] = all
      BY <1>1, <3>2 DEF all
    <3> QED
      BY <1>7, <3>1, <3>2 DEF ReaderInv
  <2> QED
    BY <2>1
<1>10. \A r \in Streams : Tracked(r, next'[r], lost'[r], clean'[r], reasm'[r])
  <2>1. ASSUME NEW r \in Streams
        PROVE  Tracked(r, next'[r], lost'[r], clean'[r], reasm'[r])
    <3>1. CASE r = s
      <4>1. next'[s] = After(n) /\ lost'[s] = 0 /\ clean'[s] = o /\ reasm'[s] = Fed(reasm[s], n)
        BY <1>4, <1>5 DEF BusInv, ReaderInv
      <4> QED
        BY <1>2, <3>1, <4>1
    <3>2. CASE r # s
      <4>1. next'[r] = next[r] /\ lost'[r] = lost[r] /\ clean'[r] = clean[r] /\ reasm'[r] = reasm[r]
        BY <1>4, <1>5, <3>2 DEF BusInv, ReaderInv
      <4>2. Tracked(r, next[r], lost[r], clean[r], reasm[r])
        BY DEF SniffInv
      <4> QED
        BY <4>1, <4>2
    <3> QED
      BY <3>1, <3>2
  <2> QED
    BY <2>1
<1> QED
  BY <1>8, <1>9, <1>10 DEF SniffInv

(* A frame of a stream is lost.                                            *)
LEMMA LoseMoves ==
  ASSUME BusInv, ReaderInv, NEW s \in Streams, Lose(s)
  PROVE  /\ lost[s] < MaxLost[s]
         /\ UNCHANGED <<program, whole, newest, reasm, decoded, esc, reading>>
         /\ \A r \in Streams \ {s} : next'[r] = next[r] /\ lost'[r] = lost[r] /\ clean'[r] = clean[r]
         /\ next'[s] = After(next[s]) /\ lost'[s] = lost[s] + 1 /\ clean'[s] = 0
<1>1. lost[s] < MaxLost[s]
      /\ UNCHANGED <<program, whole, newest, reasm, decoded, esc, reading>>
  BY DEF Lose, readerVars
<1>2. next' = [next EXCEPT ![s] = After(next[s])] /\ lost' = [lost EXCEPT ![s] = lost[s] + 1]
      /\ clean' = [clean EXCEPT ![s] = 0]
  BY DEF Lose, Send, BusInv
<1> QED
  BY <1>1, <1>2 DEF BusInv

(* A transfer stays on track through losses of any stream.                 *)
LEMMA LoseFollows ==
  ASSUME BusInv, ReaderInv, NEW s \in Streams, Lose(s), NEW r \in Streams, Harmless(r), NEW t,
         Tracked(r, next[r], lost[r], clean[r], t)
  PROVE  Tracked(r, next'[r], lost'[r], clean'[r], t)
<1>1. CASE r = s
  <2>1. Tracked(s, After(next[s]), lost[s] + 1, 0, t)
    <3>1. lost[s] \in Nat /\ lost[s] < MaxLost[s]
      BY BusTypes, LoseMoves
    <3> QED
      BY <1>1, <3>1, BusTypes, LoseTracks
  <2> QED
    BY <1>1, <2>1, LoseMoves
<1>2. CASE r # s
  <2>1. next'[r] = next[r] /\ lost'[r] = lost[r] /\ clean'[r] = clean[r]
    BY <1>2, LoseMoves
  <2> QED
    BY <2>1
<1> QED
  BY <1>1, <1>2

(* can_sniff stays on track while frames are lost.                         *)
LEMMA SniffLoses ==
  ASSUME \A s \in Streams : Harmless(s), BusInv, ReaderInv, SniffInv,
         NEW s \in Streams, Lose(s)
  PROVE  SniffInv'
<1>1. UNCHANGED <<program, whole, reasm, decoded>>
  BY LoseMoves
<1>2. ASSUME program = "can_sniff", NEW r \in Streams
      PROVE  Tracked(r, next'[r], lost'[r], clean'[r], reasm'[r])
  <2>1. Tracked(r, next[r], lost[r], clean[r], reasm[r])
    BY <1>2 DEF SniffInv
  <2> QED
    BY <1>1, <2>1, LoseFollows
<1> QED
  BY <1>1, <1>2 DEF SniffInv

(* A frame of a stream is repeated: nothing is completed by it.            *)
LEMMA RepeatMoves ==
  ASSUME BusInv, ReaderInv, NEW s \in Streams, Repeat(s)
  PROVE  /\ UNCHANGED <<program, next, lost, whole, newest>> /\ lost[s] = 0
         /\ next[s].index \in 2 .. Length[s] /\ Read(Before(next[s]))
         /\ \A r \in Streams \ {s} : clean'[r] = clean[r]
         /\ clean'[s] = IF next[s].index = 2 THEN 1 ELSE 0
         /\ Before(next[s]) \in Frame /\ Before(next[s]).stream = s
<1>1. next[s] \in Frame /\ next[s].stream = s /\ next[s].index > 1
      /\ next[s].index \in 2 .. Length[s]
  BY BusTypes DEF Repeat
<1>2. Before(next[s]) \in Frame
  BY <1>1, BeforeIsFrame
<1>3. Before(next[s]).stream = s
  BY <1>1, FrameFields DEF Before
<1> QED
  BY <1>1, <1>2, <1>3 DEF Repeat, BusInv

LEMMA SniffRepeats ==
  ASSUME \A s \in Streams : Harmless(s), BusInv, ReaderInv, SniffInv, program = "can_sniff",
         NEW s \in Streams, Repeat(s)
  PROVE  SniffInv'
<1> DEFINE f == Before(next[s])
           c == IF next[s].index = 2 THEN 1 ELSE 0
<1>1. /\ Tracked(s, next[s], 0, c, Fed(reasm[s], f))
      /\ Completed(reasm[s], f) = <<>>
  <2>1. Tracked(s, next[s], 0, clean[s], reasm[s])
    BY RepeatMoves DEF SniffInv
  <2> QED
    BY <2>1, BusTypes, RepeatMoves, RepeatTracks
<1>2. /\ UNCHANGED <<program, next, lost, whole, newest>> /\ lost[s] = 0 /\ Sniff(f)
      /\ clean'[s] = c /\ f.stream = s
      /\ \A r \in Streams \ {s} : clean'[r] = clean[r]
  BY RepeatMoves DEF Read
<1> HIDE DEF f, c
<1>3. decoded' = decoded /\ reasm' = [reasm EXCEPT ![s] = Fed(reasm[s], f)]
  BY <1>1, <1>2 DEF Sniff, Key, ReaderInv
<1>4. ASSUME NEW r \in Streams
      PROVE  Tracked(r, next'[r], lost'[r], clean'[r], reasm'[r])
  <2>1. CASE r = s
    <3>1. next'[s] = next[s] /\ lost'[s] = 0 /\ clean'[s] = c /\ reasm'[s] = Fed(reasm[s], f)
      BY <1>2, <1>3 DEF ReaderInv
    <3> QED
      BY <1>1, <2>1, <3>1
  <2>2. CASE r # s
    <3>1. next'[r] = next[r] /\ lost'[r] = lost[r] /\ clean'[r] = clean[r] /\ reasm'[r] = reasm[r]
      BY <1>2, <1>3, <2>2 DEF ReaderInv
    <3>2. Tracked(r, next[r], lost[r], clean[r], reasm[r])
      BY DEF SniffInv
    <3> QED
      BY <3>1, <3>2
  <2> QED
    BY <2>1, <2>2
<1> QED
  BY <1>2, <1>3, <1>4 DEF SniffInv

(* What the sniffer holds while the other program runs stays as it was.    *)
LEMMA SniffRests ==
  ASSUME BusInv, ReaderInv, SniffInv, program = "run_observe",
         NEW s \in Streams, Arrive(s) \/ Repeat(s)
  PROVE  SniffInv'
<1>1. program' = program /\ decoded' = decoded
  BY DEF Arrive, Repeat, Read, TakeStatus
<1>2. whole' = whole
  BY DEF Arrive, Repeat, Unharmed
<1> QED
  BY <1>1, <1>2 DEF SniffInv

(* Every step keeps the sniffer on the track of the bus.                   *)
LEMMA SniffKept ==
  ASSUME \A s \in Streams : Harmless(s), TypeInv, SniffInv, [Next]_vars
  PROVE  SniffInv'
<1>1. BusInv /\ ReaderInv /\ program \in {"can_sniff", "run_observe"}
  BY DEF TypeInv, BusInv
<1>2. CASE Listen
  <2>1. PICK s \in Streams : Arrive(s) \/ Lose(s) \/ Repeat(s)
    BY <1>2 DEF Listen, Bus
  <2> QED
    BY <1>1, <2>1, SniffArrives, SniffLoses, SniffRepeats, SniffRests
<1>3. CASE UNCHANGED telemetryVars
  BY <1>3 DEF SniffInv, telemetryVars, busVars, readerVars
<1> QED
  BY <1>2, <1>3 DEF Next, Loop, vars

(* Nothing has arrived.                                                    *)
LEMMA Untracked ==
  ASSUME Init
  PROVE  SniffInv /\ OdometryInv
<1>1. /\ clean = [s \in Streams |-> 0] /\ reasm = [s \in Streams |-> Idle]
      /\ decoded = [s \in Streams |-> <<>>] /\ whole = [s \in Streams |-> <<>>]
      /\ esc = Idle /\ reading = [side \in Sides |-> 0] /\ newest = [side \in Sides |-> 0]
  BY DEF Init, TelemetryInit
<1>2. ~Idle.active /\ ~(0 > 0)
  BY DEF Idle
<1>3. ASSUME NEW s, NEW n, NEW l
      PROVE  Tracked(s, n, l, 0, Idle)
  BY <1>2, Zenon DEF Tracked
<1>4. SniffInv
  BY <1>1, <1>3, EmptyFits DEF SniffInv
<1> QED
  BY <1>1, <1>3, <1>4, NodeAssumption DEF OdometryInv

(* The payload of a status is taken when it is complete, as in the         *)
(* odometry's own history.                                                 *)
LEMMA OdometryArrives ==
  ASSUME Harmless(Node), BusInv, ReaderInv, OdometryInv, program = "run_observe", Arrive(Node)
  PROVE  OdometryInv'
<1> DEFINE n == next[Node]
           o == InOrder(n, clean[Node])
           payload == Completed(esc, n)
           all == Parts(n, Length[Node])
<1>1. Node \in Streams /\ n \in Frame /\ n.stream = Node /\ Length[Node] \in Nat \ {0} /\ esc \in Fitting
  BY BusTypes, NodeAssumption
<1>2. /\ Tracked(Node, After(n), 0, o, Fed(esc, n))
      /\ payload = IF o < Length[Node] THEN <<>> ELSE all
  <2>1. Tracked(Node, n, lost[Node], clean[Node], esc)
    BY DEF OdometryInv
  <2> QED
    BY <1>1, <2>1, BusTypes, ArriveTracks
<1>3. /\ program' = program /\ TakeStatus(n)
      /\ next' = [next EXCEPT ![Node] = After(n)] /\ lost' = [lost EXCEPT ![Node] = 0]
      /\ clean' = [clean EXCEPT ![Node] = o]
      /\ IF o < Length[Node] THEN newest' = newest ELSE Unharmed(n)
  BY <1>1, ArriveMoves DEF Read
<1>4. /\ esc' = Fed(esc, n)
      /\ reading' = IF Len(payload) < Length[Node] THEN reading
                    ELSE [reading EXCEPT ![Side(payload[1])] = Erpm(payload[1])]
  BY <1>1, <1>3 DEF TakeStatus, Ours
<1>5. Unharmed(n) => newest' = [newest EXCEPT ![Side(n)] = Erpm(n)]
  BY <1>1 DEF Unharmed
<1>6. Len(all) = Length[Node] /\ Len(<<>>) = 0 /\ Side(all[1]) = Side(n) /\ Erpm(all[1]) = Erpm(n)
  <2>1. Length[Node] \in Nat /\ 1 \in 1 .. Length[Node]
    BY <1>1
  <2>2. Len(all) = Length[Node] /\ all[1] = [stream |-> n.stream, serial |-> n.serial, index |-> 1]
    BY <1>1, <2>1, PartsAre
  <2>3. all[1].stream = n.stream /\ all[1].serial = n.serial
    BY <2>2
  <2> QED
    BY <2>2, <2>3 DEF Side, Erpm
<1> HIDE DEF n, o, payload, all
<1>7. reading' = newest'
  <2>1. CASE o < Length[Node]
    <3>1. payload = <<>> /\ newest' = newest /\ Len(payload) < Length[Node]
      BY <1>1, <1>2, <1>3, <1>6, <2>1
    <3> QED
      BY <1>4, <3>1 DEF OdometryInv
  <2>2. CASE ~(o < Length[Node])
    <3>1. payload = all /\ newest' = [newest EXCEPT ![Side(n)] = Erpm(n)]
          /\ ~(Len(payload) < Length[Node])
      BY <1>1, <1>2, <1>3, <1>5, <1>6, <2>2
    <3>2. reading' = [reading EXCEPT ![Side(n)] = Erpm(n)]
      BY <1>4, <1>6, <3>1
    <3> QED
      BY <3>1, <3>2 DEF OdometryInv
  <2> QED
    BY <2>1, <2>2
<1>8. next'[Node] = After(n) /\ lost'[Node] = 0 /\ clean'[Node] = o
  BY <1>1, <1>3 DEF BusInv
<1>9. Tracked(Node, next'[Node], lost'[Node], clean'[Node], esc')
  BY <1>2, <1>4, <1>8
<1> QED
  BY <1>7, <1>9 DEF OdometryInv

(* What another node sends leaves the odometry alone.                      *)
LEMMA OdometryIgnores ==
  ASSUME BusInv, ReaderInv, OdometryInv, program = "run_observe",
         NEW s \in Streams \ {Node}, Arrive(s) \/ Repeat(s)
  PROVE  OdometryInv'
<1>1. s \in Streams /\ s # Node /\ Node \in Streams /\ next[s].stream = s
  BY BusTypes, NodeAssumption
<1>2. PICK f : f.stream = s /\ TakeStatus(f)
  <2>1. CASE Arrive(s)
    BY <1>1, <2>1, ArriveMoves DEF Read
  <2>2. CASE Repeat(s)
    BY <1>1, <2>2, RepeatMoves DEF Read
  <2> QED
    BY <2>1, <2>2
<1>3. esc' = esc /\ reading' = reading
  BY <1>1, <1>2 DEF TakeStatus, Ours
<1>4. program' = program /\ newest' = newest
      /\ next'[Node] = next[Node] /\ lost'[Node] = lost[Node] /\ clean'[Node] = clean[Node]
  <2>1. CASE Arrive(s)
    <3>1. Unharmed(next[s]) => newest' = newest
      BY <1>1 DEF Unharmed
    <3>2. /\ program' = program /\ newest' = newest
          /\ next' = [next EXCEPT ![s] = After(next[s])]
          /\ lost' = [lost EXCEPT ![s] = 0]
          /\ clean' = [clean EXCEPT ![s] = InOrder(next[s], clean[s])]
      BY <1>1, <2>1, <3>1, ArriveMoves
    <3> QED
      BY <1>1, <3>2 DEF BusInv
  <2>2. CASE Repeat(s)
    BY <1>1, <2>2, RepeatMoves
  <2> QED
    BY <2>1, <2>2
<1> QED
  BY <1>3, <1>4 DEF OdometryInv

(* A repeated frame of the node changes no reading.                        *)
LEMMA OdometryRepeats ==
  ASSUME Harmless(Node), BusInv, ReaderInv, OdometryInv, program = "run_observe", Repeat(Node)
  PROVE  OdometryInv'
<1> DEFINE f == Before(next[Node])
           c == IF next[Node].index = 2 THEN 1 ELSE 0
<1>1. Node \in Streams
  BY NodeAssumption
<1>2. Tracked(Node, next[Node], 0, c, Fed(esc, f)) /\ Completed(esc, f) = <<>>
  <2>1. Tracked(Node, next[Node], 0, clean[Node], esc)
    BY <1>1, RepeatMoves DEF OdometryInv
  <2> QED
    BY <1>1, <2>1, BusTypes, RepeatMoves, RepeatTracks
<1>3. /\ UNCHANGED <<program, next, lost, newest>> /\ lost[Node] = 0 /\ TakeStatus(f)
      /\ clean'[Node] = c /\ f.stream = Node
  BY <1>1, RepeatMoves DEF Read
<1> HIDE DEF f, c
<1>4. Len(<<>>) < Length[Node]
  BY <1>1, BusTypes
<1>5. esc' = Fed(esc, f) /\ reading' = reading
  BY <1>2, <1>3, <1>4 DEF TakeStatus, Ours
<1>6. Tracked(Node, next'[Node], lost'[Node], clean'[Node], esc')
  BY <1>2, <1>3, <1>5
<1> QED
  BY <1>3, <1>5, <1>6 DEF OdometryInv

(* The odometry stays on track while frames are lost.                      *)
LEMMA OdometryLoses ==
  ASSUME Harmless(Node), BusInv, ReaderInv, OdometryInv, NEW s \in Streams, Lose(s)
  PROVE  OdometryInv'
<1>1. UNCHANGED <<program, newest, esc, reading>>
  BY LoseMoves
<1>2. ASSUME program = "run_observe"
      PROVE  Tracked(Node, next'[Node], lost'[Node], clean'[Node], esc')
  <2>1. Tracked(Node, next[Node], lost[Node], clean[Node], esc)
    BY <1>2 DEF OdometryInv
  <2> QED
    BY <1>1, <2>1, NodeAssumption, LoseFollows
<1> QED
  BY <1>1, <1>2 DEF OdometryInv

(* Every step keeps the odometry on the track of its stream.               *)
LEMMA OdometryKept ==
  ASSUME Harmless(Node), TypeInv, OdometryInv, [Next]_vars
  PROVE  OdometryInv'
<1>1. BusInv /\ ReaderInv
  BY DEF TypeInv
<1>2. CASE Listen
  <2>1. PICK s \in Streams : Arrive(s) \/ Lose(s) \/ Repeat(s)
    BY <1>2 DEF Listen, Bus
  <2>2. CASE Lose(s)
    BY <1>1, <2>2, OdometryLoses
  <2>3. CASE (Arrive(s) \/ Repeat(s)) /\ program = "run_observe"
    BY <1>1, <2>3, OdometryArrives, OdometryIgnores, OdometryRepeats
  <2>4. CASE (Arrive(s) \/ Repeat(s)) /\ program # "run_observe"
    <3>1. program' = program
      BY <2>4 DEF Arrive, Repeat
    <3> QED
      BY <2>4, <3>1 DEF OdometryInv
  <2> QED
    BY <2>1, <2>2, <2>3, <2>4
<1>3. CASE UNCHANGED telemetryVars
  BY <1>3 DEF OdometryInv, telemetryVars, busVars, readerVars
<1> QED
  BY <1>2, <1>3 DEF Next, Loop, vars

(* A transfer that is whole in parts is whole. *)
LEMMA PartsAreWhole ==
  ASSUME NEW f \in Frame
  PROVE  Whole(Parts(f, Length[f.stream]))
<1> DEFINE m == Length[f.stream]
           b == Parts(f, m)
<1>1. m \in Nat \ {0} /\ m \in Nat /\ 1 \in 1 .. m
  BY TransferAssumption, FrameFields
<1>2. b[1] = [stream |-> f.stream, serial |-> f.serial, index |-> 1]
  <2> HIDE DEF m
  <2> QED
    BY <1>1, PartsAre
<1>3. b[1] \in Frame /\ b[1].stream = f.stream /\ b[1].serial = f.serial
  BY <1>2, FrameFields DEF Frame
<1>4. [i \in 1 .. m |-> [b[1] EXCEPT !.index = i]] = Parts(b[1], m)
  BY <1>1, <1>3, PartsAre
<1>5. Parts(b[1], m) = b
  BY <1>3 DEF Parts
<1> QED
  BY <1>3, <1>4, <1>5 DEF Whole

(* The two invariants, from the harmless streams. *)
LEMMA SniffInvariant ==
  ASSUME \A s \in Streams : Harmless(s)
  PROVE  Spec => []SniffInv
<1>1. TypeInv /\ [Next]_vars => TypeInv'
  BY TypesKept
<1>2. TypeInv /\ SniffInv /\ [Next]_vars => SniffInv'
  BY SniffKept
<1>3. Init => SniffInv
  BY Untracked
<1> QED
  BY <1>1, <1>2, <1>3, Initially, PTL DEF Spec

(* Whatever can_sniff decodes is one transfer, all of it and in order, for *)
(* any number of nodes, lengths and ids, through every loss and repeat     *)
(* that is harmless.                                                       *)
THEOREM TransfersAreWhole ==
  ASSUME \A s \in Streams : Harmless(s)
  PROVE  Spec => []WholeTransfers
<1>1. SniffInv => WholeTransfers
  BY PartsAreWhole DEF SniffInv, WholeTransfers
<1>2. Spec => []SniffInv
  BY SniffInvariant
<1> QED
  BY <1>1, <1>2, PTL

(* What can_sniff has of a stream is the last transfer of it that arrived  *)
(* unharmed, at once and whatever came before and between its frames.      *)
THEOREM TransfersArrive ==
  ASSUME \A s \in Streams : Harmless(s)
  PROVE  Spec => []CleanTransferArrives
<1>1. SniffInv => CleanTransferArrives
  BY DEF SniffInv, CleanTransferArrives
<1>2. Spec => []SniffInv
  BY SniffInvariant
<1> QED
  BY <1>1, <1>2, PTL

(* The reading of each side in run_observe is the last that arrived        *)
(* unharmed from its own node; the losses of the others, harmless or not,  *)
(* are nothing to it.                                                      *)
THEOREM OdometryIsOurs ==
  ASSUME Harmless(Node)
  PROVE  Spec => []ReadingsAreTheirs
<1>1. OdometryInv => ReadingsAreTheirs
  BY DEF OdometryInv, ReadingsAreTheirs
<1>2. TypeInv /\ [Next]_vars => TypeInv'
  BY TypesKept
<1>3. TypeInv /\ OdometryInv /\ [Next]_vars => OdometryInv'
  BY OdometryKept
<1>4. Init => OdometryInv
  BY Untracked
<1> QED
  BY <1>1, <1>2, <1>3, <1>4, Initially, PTL DEF Spec
=============================================================================
