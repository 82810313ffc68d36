--------------------------- MODULE DriveBusProofs ---------------------------
(***************************************************************************)
(* Theorems about DriveBus and Startup for every queue, timeout, window,   *)
(* delay and bound that the assumptions allow.                             *)
(***************************************************************************)
EXTENDS Startup, SequenceTheorems, TLAPS

USE BusAssumption, DeploymentAssumption, StartupAssumption
    DEF BusAssumption, DeploymentAssumption, StartupAssumption

-----------------------------------------------------------------------------
(* The inductive invariant.                                                *)

(* Periods since the daemon last polled, the running one included. *)
Unpolled == IF phase = "cpu" THEN stall + 1 ELSE stall

(* A status that says "moving" is as old as the time since its track moved:*)
(* unread it came since the last poll, read it has its age.                *)
MotionInv ==
  /\ daemon = "up" =>
       \A s \in Sides :
         /\ socket[s] = 1 => restFor[s] < Unpolled
         /\ latest[s] = 1 /\ age[s] <= StatusStale =>
              restFor[s] <= age[s] + Unpolled + MaxStall
  /\ daemon = "down" => \A s \in Sides : socket[s] = Quiet

Pair(q) ==
  \E e \in Speeds :
    q = <<[side |-> "left", erpm |-> e], [side |-> "right", erpm |-> e]>>

(* After an undisturbed period the queue is empty, and the next command    *)
(* finds room for both sides.                                              *)
RejoinInv ==
  /\ TracksRejoin
  /\ calmFor > 0 /\ phase = "cpu" => txq = <<>>
  /\ calmFor > 0 /\ phase = "bus" /\ daemon = "up" /\ stall = 0 => Pair(txq)

(* What a dead daemon left in the queue waits for the end of a jam, and    *)
(* drives a track until the timeout.                                       *)
WaitInv ==
  /\ \A s \in Sides : motor[s] # 0 => silence[s] <= VescTimeout
  /\ phase = "cpu" /\ txq # <<>> => jam >= 1
  /\ daemon = "down" /\ phase = "cpu" =>
       /\ txq # <<>> => jam > downFor
       /\ \A s \in Sides : motor[s] # 0 => downFor <= silence[s] + MaxJam
  /\ daemon = "down" /\ phase = "bus" =>
       /\ txq # <<>> => jam >= downFor
       /\ \A s \in Sides : motor[s] # 0 => downFor <= silence[s] + 1 + MaxJam

HeardIn(q, s) == \E i \in 1 .. Len(q) : q[i].side = s
LastIn(q, s, e) ==
  \E i \in 1 .. Len(q) :
    /\ q[i] = [side |-> s, erpm |-> e]
    /\ \A k \in i + 1 .. Len(q) : q[k].side # s

(* The track stands, or its last command is to stand. *)
Stops(q, s, m) == IF HeardIn(q, s) THEN LastIn(q, s, 0) ELSE m = 0

(* The guard has done its work, or the queue is empty and it has a try     *)
(* left, or it has spent its tries on a jam that is about to end.          *)
GuardInv ==
  daemon = "stopping" =>
    \/ \A s \in Sides : Stops(txq, s, motor[s])
    \/ phase = "cpu" /\ txq = <<>> /\ tries >= 1
    \/ phase = "cpu" /\ txq # <<>> /\ jam + tries > GuardTries
    \/ phase = "bus" /\ txq # <<>> /\ jam + tries >= GuardTries

BusInv == TypeOK /\ MotionInv /\ RejoinInv /\ WaitInv /\ GuardInv

(* The calls done have had their effect, and nothing undid it. *)
SetUpInv ==
  /\ ~strays
  /\ noise => at < 18
  /\ \A i \in 4 .. 10 : i <= at /\ Opening[i] \in Registers => Opening[i] \in chip
  /\ daemon # "down" => at = 0 /\ chip = Registers /\ ~noise

IInv == BusInv /\ StartTypeOK /\ SetUpInv

-----------------------------------------------------------------------------
(* Commands and the transmit queue (vesc_socketcan.cpp:94-110).            *)

LEMMA QueuedKeeps ==
  ASSUME NEW q \in Seq(Frame), Len(q) <= TxCapacity, NEW f \in Frame
  PROVE  /\ Queued(q, f) \in Seq(Frame) /\ Len(Queued(q, f)) <= TxCapacity
         /\ q # <<>> => Queued(q, f) # <<>>
<1>1. Len(q) \in Nat
  BY LenProperties
<1> QED
  BY <1>1, AppendProperties DEF Queued

LEMMA JustBelow ==
  \A n \in Nat, i \in Int : \A k \in i + 1 .. n + 1 : k # n + 1 => k \in i + 1 .. n
OBVIOUS

LEMMA TwoFrames ==
  ASSUME NEW f \in Frame, NEW g \in Frame
  PROVE  Len(<<f>>) = 1 /\ Append(<<f>>, g) = <<f, g>>
<1>1. <<f>> \in Seq(Frame) /\ Len(<<f>>) = 1 /\ <<f>>[1] = f
  OBVIOUS
<1>2. <<f, g>> \in Seq(Frame) /\ Len(<<f, g>>) = 2 /\ <<f, g>>[1] = f /\ <<f, g>>[2] = g
  OBVIOUS
<1>3. /\ Append(<<f>>, g) \in Seq(Frame) /\ Len(Append(<<f>>, g)) = 2
      /\ Append(<<f>>, g)[1] = f /\ Append(<<f>>, g)[2] = g
  BY <1>1, AppendProperties
<1>4. \A s, t \in Seq(Frame) :
        Len(s) = 2 /\ Len(t) = 2 /\ s[1] = t[1] /\ s[2] = t[2] => s = t
  <2> SUFFICES ASSUME NEW s \in Seq(Frame), NEW t \in Seq(Frame),
                      Len(s) = 2, Len(t) = 2, s[1] = t[1], s[2] = t[2]
               PROVE  s = t
    OBVIOUS
  <2>1. \A i \in 1 .. Len(s) : s[i] = t[i]
    OBVIOUS
  <2> QED
    BY <2>1, SeqEqual
<1> QED
  BY <1>1, <1>2, <1>3, <1>4, Zenon

LEMMA ErpmKeeps ==
  ASSUME txq \in Seq(Frame), Len(txq) <= TxCapacity, NEW e \in Speeds, SetErpm(e)
  PROVE  /\ txq' \in Seq(Frame) /\ Len(txq') <= TxCapacity
         /\ txq # <<>> => txq' # <<>>
         /\ txq = <<>> => txq' = <<[side |-> "left", erpm |-> e], [side |-> "right", erpm |-> e]>>
<1> DEFINE left == [side |-> "left", erpm |-> e]
           right == [side |-> "right", erpm |-> e]
           q == Queued(txq, left)
<1>1. left \in Frame /\ right \in Frame
  BY DEF Frame, Sides
<1>2. txq' = Queued(q, right)
  BY DEF SetErpm
<1> HIDE DEF left, right
<1>3. q \in Seq(Frame) /\ Len(q) <= TxCapacity /\ (txq # <<>> => q # <<>>)
  BY <1>1, QueuedKeeps
<1>4. txq = <<>> => txq' = <<left, right>>
  <2> SUFFICES ASSUME txq = <<>> PROVE txq' = <<left, right>>
    OBVIOUS
  <2>1. q = <<left>>
    BY <1>1 DEF Queued
  <2>2. Len(<<left>>) = 1 /\ Append(<<left>>, right) = <<left, right>>
    BY <1>1, TwoFrames
  <2> QED
    BY <1>2, <2>1, <2>2 DEF Queued
<1> HIDE DEF q
<1>5. txq' \in Seq(Frame) /\ Len(txq') <= TxCapacity /\ (txq # <<>> => txq' # <<>>)
  BY <1>1, <1>2, <1>3, QueuedKeeps
<1> QED
  BY <1>4, <1>5 DEF left, right

LEMMA LastIsOne ==
  ASSUME NEW q \in Seq(Frame), NEW s, NEW d, NEW e, LastIn(q, s, d), LastIn(q, s, e)
  PROVE  d = e
<1>1. PICK i \in 1 .. Len(q) : q[i] = [side |-> s, erpm |-> d]
                               /\ \A k \in i + 1 .. Len(q) : q[k].side # s
  BY DEF LastIn
<1>2. PICK j \in 1 .. Len(q) : q[j] = [side |-> s, erpm |-> e]
                               /\ \A k \in j + 1 .. Len(q) : q[k].side # s
  BY DEF LastIn
<1>3. Len(q) \in Nat /\ q[i].side = s /\ q[j].side = s
  BY <1>1, <1>2, LenProperties
<1>4. ~(i < j) /\ ~(j < i)
  BY <1>1, <1>2, <1>3
<1>5. i = j
  BY <1>3, <1>4
<1>6. [side |-> s, erpm |-> d].erpm = [side |-> s, erpm |-> e].erpm
  BY <1>1, <1>2, <1>5
<1> QED
  BY <1>6

(* A command to stand leaves a track that stops in the end one that does.  *)
LEMMA StopsStays ==
  ASSUME NEW q \in Seq(Frame), NEW s \in Sides, NEW m, Stops(q, s, m), NEW t \in Sides
  PROVE  Stops(Queued(q, [side |-> t, erpm |-> 0]), s, m)
<1> DEFINE f == [side |-> t, erpm |-> 0]
           r == Append(q, f)
<1>1. Len(q) \in Nat /\ f \in Frame
  BY LenProperties DEF Frame, Speeds
<1>2. /\ r \in Seq(Frame) /\ Len(r) = Len(q) + 1 /\ r[Len(q) + 1] = f
      /\ \A i \in 1 .. Len(q) : r[i] = q[i]
  BY <1>1, AppendProperties
<1> HIDE DEF r
<1>3. CASE t = s
  <2>1. LastIn(r, s, 0)
    <3>1. Len(q) + 1 \in 1 .. Len(r) /\ r[Len(q) + 1] = [side |-> s, erpm |-> 0]
      BY <1>1, <1>2, <1>3
    <3>2. \A k \in Len(q) + 1 + 1 .. Len(r) : r[k].side # s
      BY <1>1, <1>2
    <3> QED
      BY <3>1, <3>2 DEF LastIn
  <2>2. HeardIn(r, s)
    BY <1>1, <1>2, <1>3 DEF HeardIn
  <2>3. Stops(r, s, m)
    BY <2>1, <2>2 DEF Stops
  <2> QED
    BY <2>3 DEF Queued, r
<1>4. CASE t # s
  <2>1. HeardIn(r, s) => HeardIn(q, s)
    <3> SUFFICES ASSUME NEW i \in 1 .. Len(r), r[i].side = s PROVE HeardIn(q, s)
      BY DEF HeardIn
    <3>1. i # Len(q) + 1
      BY <1>2, <1>4
    <3>2. i \in 1 .. Len(q) /\ q[i].side = s
      BY <1>1, <1>2, <3>1
    <3> QED
      BY <3>2 DEF HeardIn
  <2>2. LastIn(q, s, 0) => LastIn(r, s, 0)
    <3> SUFFICES ASSUME NEW i \in 1 .. Len(q), q[i] = [side |-> s, erpm |-> 0],
                        \A k \in i + 1 .. Len(q) : q[k].side # s
                 PROVE  LastIn(r, s, 0)
      BY DEF LastIn
    <3>1. i \in 1 .. Len(r) /\ r[i] = [side |-> s, erpm |-> 0]
      BY <1>1, <1>2
    <3>2. ASSUME NEW k \in i + 1 .. Len(r) PROVE r[k].side # s
      <4>1. CASE k = Len(q) + 1
        BY <1>2, <1>4, <4>1
      <4>2. CASE k # Len(q) + 1
        <5>0. Len(r) = Len(q) + 1 /\ Len(q) \in Nat /\ i \in Int
          BY <1>1, <1>2
        <5>1. k \in i + 1 .. Len(q) + 1
          BY <5>0, Zenon
        <5>2. k \in i + 1 .. Len(q)
          BY <4>2, <5>0, <5>1, JustBelow, Zenon
        <5>3. k \in 1 .. Len(q)
          BY <1>1, <5>2
        <5> QED
          BY <1>2, <5>2, <5>3
      <4> QED
        BY <4>1, <4>2
    <3> QED
      BY <3>1, <3>2 DEF LastIn
  <2>3. HeardIn(q, s) => HeardIn(r, s)
    BY <1>1, <1>2 DEF HeardIn
  <2>4. Stops(r, s, m)
    BY <2>1, <2>2, <2>3 DEF Stops
  <2> QED
    BY <2>4 DEF Queued, r
<1> QED
  BY <1>3, <1>4

-----------------------------------------------------------------------------
(* The daemon's half of a period (run_vehicle.cpp:422-625, 91-105).        *)

LEMMA Bounds ==
  ASSUME TypeOK
  PROVE  /\ tries \in Nat /\ downFor \in Nat /\ stall \in Nat /\ jam \in Nat
         /\ jam <= MaxJam /\ stall <= MaxStall /\ tries <= GuardTries
         /\ txq \in Seq(Frame) /\ Len(txq) \in Nat
         /\ \A s \in Sides :
              /\ motor[s] \in {0, 1} /\ latest[s] \in {0, 1}
              /\ silence[s] \in Nat /\ age[s] \in Nat /\ restFor[s] \in Nat
              /\ silence[s] <= VescTimeout + 1 /\ age[s] <= StatusStale + 1
<1>1. /\ tries \in Nat /\ downFor \in Nat /\ stall \in Nat /\ jam \in Nat
      /\ jam <= MaxJam /\ stall <= MaxStall /\ tries <= GuardTries
  BY DEF TypeOK
<1>2. txq \in Seq(Frame) /\ Len(txq) \in Nat
  BY LenProperties DEF TypeOK
<1>3. ASSUME NEW s \in Sides
      PROVE  /\ motor[s] \in {0, 1} /\ latest[s] \in {0, 1}
             /\ silence[s] \in 0 .. VescTimeout + 1 /\ age[s] \in 0 .. StatusStale + 1
             /\ restFor[s] \in 0 .. RestMax
  BY DEF TypeOK, Speeds
<1> QED
  BY <1>1, <1>2, <1>3

LEMMA IterateKeeps == ASSUME BusInv, Iterate PROVE BusInv'
<1>1. PICK e \in Speeds : SetErpm(e)
  BY DEF Iterate
<1>2. /\ daemon = "up" /\ daemon' = "up" /\ phase = "cpu" /\ phase' = "bus"
      /\ stall' = 0 /\ tries' = tries /\ downFor' = downFor /\ jam' = jam
      /\ motor' = motor /\ silence' = silence /\ restFor' = restFor
      /\ calmFor' = calmFor /\ Poll(stall + 1)
  BY DEF Iterate, EndCpu, vescVars
<1>3. TypeOK
  BY DEF BusInv
<1>4. /\ txq' \in Seq(Frame) /\ Len(txq') <= TxCapacity
      /\ txq = <<>> => txq' = <<[side |-> "left", erpm |-> e], [side |-> "right", erpm |-> e]>>
  BY <1>1, <1>3, ErpmKeeps DEF TypeOK
<1>5. /\ socket' = [s \in Sides |-> Quiet]
      /\ latest' = [s \in Sides |-> IF socket[s] = Quiet THEN latest[s] ELSE socket[s]]
      /\ age' = [s \in Sides |->
           IF socket[s] = Quiet THEN Capped(age[s] + (stall + 1), StatusStale + 1) ELSE 0]
  BY <1>2 DEF Poll, Each
<1>6. TypeOK'
  <2>1. /\ socket' \in [Sides -> Speeds \cup {Quiet}] /\ latest' \in [Sides -> Speeds]
        /\ age' \in [Sides -> 0 .. StatusStale + 1]
    <3>1. \A s \in Sides :
            /\ socket[s] \in {0, 1, Quiet} /\ latest[s] \in {0, 1}
            /\ age[s] \in Nat /\ stall \in Nat
      BY <1>3, Bounds DEF TypeOK, Speeds
    <3>2. socket' \in [Sides -> Speeds \cup {Quiet}]
      BY <1>5
    <3>3. latest' \in [Sides -> Speeds]
      BY <1>5, <3>1 DEF Speeds
    <3>4. \A s \in Sides : age'[s] \in 0 .. StatusStale + 1
      BY <1>5, <3>1 DEF Capped
    <3>5. age' = [s \in Sides |-> age'[s]]
      BY <1>5
    <3> QED
      BY <3>2, <3>3, <3>4, <3>5
  <2>2. 0 \in 0 .. MaxStall
    OBVIOUS
  <2> QED
    BY <1>2, <1>3, <1>4, <2>1, <2>2 DEF TypeOK
<1>7. MotionInv'
  <2> SUFFICES ASSUME NEW s \in Sides
               PROVE  /\ socket'[s] # 1
                      /\ latest'[s] = 1 /\ age'[s] <= StatusStale =>
                           restFor[s] <= age'[s] + 0 + MaxStall
    <3>1. Unpolled' = 0
      BY <1>2 DEF Unpolled
    <3> QED
      BY <1>2, <3>1 DEF MotionInv
  <2>1. socket'[s] = Quiet
    BY <1>5
  <2>2. /\ socket[s] = 1 => restFor[s] < stall + 1
        /\ latest[s] = 1 /\ age[s] <= StatusStale =>
             restFor[s] <= age[s] + (stall + 1) + MaxStall
    BY <1>2 DEF BusInv, MotionInv, Unpolled
  <2>3. /\ age[s] \in Nat /\ restFor[s] \in Nat /\ stall \in Nat /\ stall <= MaxStall
        /\ latest[s] \in {0, 1} /\ socket'[s] # 1
    BY <1>3, <2>1, Bounds DEF Quiet
  <2>4. CASE socket[s] = Quiet
    <3>1. latest'[s] = latest[s] /\ age'[s] = Capped(age[s] + (stall + 1), StatusStale + 1)
      BY <1>5, <2>4
    <3>2. age'[s] <= StatusStale => age'[s] = age[s] + (stall + 1)
      BY <2>3, <3>1 DEF Capped
    <3> QED
      BY <2>2, <2>3, <3>1, <3>2
  <2>5. CASE socket[s] # Quiet
    <3>1. latest'[s] = socket[s] /\ age'[s] = 0
      BY <1>5, <2>5
    <3> QED
      BY <2>2, <2>3, <3>1
  <2> QED
    BY <2>4, <2>5
<1>8. RejoinInv'
  <2>1. calmFor > 0 => txq = <<>>
    BY <1>2 DEF BusInv, RejoinInv
  <2>2. calmFor' > 0 => Pair(txq')
    BY <1>2, <1>4, <2>1 DEF Pair
  <2>3. TracksRejoin'
    BY <1>2 DEF BusInv, RejoinInv, TracksRejoin
  <2> QED
    BY <1>2, <2>2, <2>3 DEF RejoinInv, Pair
<1>9. WaitInv'
  BY <1>2 DEF BusInv, WaitInv
<1>10. GuardInv'
  BY <1>2 DEF GuardInv
<1> QED
  BY <1>6, <1>7, <1>8, <1>9, <1>10 DEF BusInv

LEMMA OverrunKeeps == ASSUME BusInv, Overrun PROVE BusInv'
<1>1. /\ daemon = "up" /\ daemon' = "up" /\ phase = "cpu" /\ phase' = "bus"
      /\ stall < MaxStall /\ stall' = stall + 1 /\ tries' = tries
      /\ downFor' = downFor /\ txq' = txq /\ jam' = jam
      /\ motor' = motor /\ silence' = silence /\ restFor' = restFor
      /\ calmFor' = calmFor /\ socket' = socket /\ latest' = latest /\ age' = age
  BY DEF Overrun, EndCpu, vescVars, statusVars
<1>2. TypeOK'
  BY SMTT(30), <1>1 DEF BusInv, TypeOK
<1>3. MotionInv'
  BY <1>1 DEF BusInv, MotionInv, Unpolled
<1>4. RejoinInv'
  <2>1. stall' # 0
    BY <1>1, Bounds DEF BusInv
  <2> QED
    BY <1>1, <2>1 DEF BusInv, RejoinInv, TracksRejoin
<1>5. WaitInv'
  BY <1>1 DEF BusInv, WaitInv
<1>6. GuardInv'
  BY <1>1 DEF GuardInv
<1> QED
  BY <1>2, <1>3, <1>4, <1>5, <1>6 DEF BusInv

(* The guard begins, after a stop or a start that failed late.             *)
LEMMA GuardBegins ==
  ASSUME BusInv, phase = "cpu", daemon' = "stopping", tries' = GuardTries,
         stall' \in {0, stall},
         UNCHANGED <<phase, downFor, txq, jam, vescVars, socket, statusVars,
                     restFor, calmFor>>
  PROVE  BusInv'
<1>1. /\ phase' = "cpu" /\ downFor' = downFor /\ txq' = txq /\ jam' = jam
      /\ motor' = motor /\ silence' = silence /\ restFor' = restFor
      /\ calmFor' = calmFor /\ socket' = socket /\ latest' = latest /\ age' = age
  BY DEF vescVars, statusVars
<1>2. TypeOK'
  BY <1>1 DEF BusInv, TypeOK
<1>3. MotionInv'
  BY <1>1 DEF MotionInv
<1>4. RejoinInv'
  BY <1>1 DEF BusInv, RejoinInv, TracksRejoin
<1>5. WaitInv'
  BY <1>1 DEF BusInv, WaitInv
<1>6. GuardInv'
  <2>1. txq # <<>> => jam >= 1
    BY DEF BusInv, WaitInv
  <2>2. jam \in Nat
    BY Bounds DEF BusInv
  <2> QED
    BY <1>1, <2>1, <2>2 DEF GuardInv
<1> QED
  BY <1>2, <1>3, <1>4, <1>5, <1>6 DEF BusInv

LEMMA GuardKeeps == ASSUME BusInv, Guard PROVE BusInv'
<1>1. /\ daemon = "stopping" /\ daemon' = "stopping"
      /\ phase = "cpu" /\ phase' = "bus" /\ tries > 0 /\ tries' = tries - 1
      /\ stall' = stall /\ downFor' = downFor /\ jam' = jam
      /\ motor' = motor /\ silence' = silence /\ restFor' = restFor
      /\ calmFor' = calmFor /\ socket' = socket /\ latest' = latest /\ age' = age
      /\ SetErpm(0)
  BY DEF Guard, EndCpu, vescVars, statusVars
<1>2. /\ txq' \in Seq(Frame) /\ Len(txq') <= TxCapacity
      /\ txq # <<>> => txq' # <<>>
      /\ txq = <<>> => txq' = <<[side |-> "left", erpm |-> 0], [side |-> "right", erpm |-> 0]>>
  BY <1>1, ErpmKeeps DEF BusInv, TypeOK, Speeds
<1>3. TypeOK'
  <2>1. tries' \in 0 .. GuardTries
    <3>1. tries \in 0 .. GuardTries /\ GuardTries \in Nat
      BY BusAssumption DEF BusInv, TypeOK
    <3>2. tries > 0 /\ tries' = tries - 1
      BY <1>1
    <3> HIDE DEF BusInv
    <3> QED
      BY ONLY <3>1, <3>2
  <2> QED
    BY <1>1, <1>2, <2>1 DEF BusInv, TypeOK
<1>4. MotionInv'
  BY <1>1 DEF MotionInv
<1>5. RejoinInv'
  BY <1>1 DEF BusInv, RejoinInv, TracksRejoin
<1>6. WaitInv'
  BY <1>1 DEF BusInv, WaitInv
<1>7. GuardInv'
  <2>1. CASE \A s \in Sides : Stops(txq, s, motor[s])
    <3>1. ASSUME NEW s \in Sides PROVE Stops(txq', s, motor[s])
      <4> DEFINE q == Queued(txq, [side |-> "left", erpm |-> 0])
      <4>1. q \in Seq(Frame)
        BY QueuedKeeps DEF BusInv, TypeOK, Frame, Sides, Speeds
      <4>2. Stops(q, s, motor[s])
        BY <2>1, StopsStays DEF BusInv, TypeOK, Sides
      <4>3. txq' = Queued(q, [side |-> "right", erpm |-> 0])
        BY <1>1 DEF SetErpm
      <4> HIDE DEF q
      <4> QED
        BY <4>1, <4>2, <4>3, StopsStays DEF Sides
    <3> QED
      BY <1>1, <3>1 DEF GuardInv
  <2>2. CASE txq = <<>>
    <3>1. ASSUME NEW s \in Sides PROVE Stops(txq', s, motor[s])
      <4>1. /\ Len(txq') = 2 /\ txq'[1] = [side |-> "left", erpm |-> 0]
            /\ txq'[2] = [side |-> "right", erpm |-> 0]
        BY <1>2, <2>2
      <4>2. CASE s = "left"
        <5>1. LastIn(txq', s, 0) /\ HeardIn(txq', s)
          BY <4>1, <4>2 DEF LastIn, HeardIn
        <5> QED
          BY <5>1 DEF Stops
      <4>3. CASE s = "right"
        <5>1. LastIn(txq', s, 0) /\ HeardIn(txq', s)
          BY <4>1, <4>3 DEF LastIn, HeardIn
        <5> QED
          BY <5>1 DEF Stops
      <4> QED
        BY <4>2, <4>3 DEF Sides
    <3> QED
      BY <1>1, <3>1 DEF GuardInv
  <2>3. CASE txq # <<>> /\ jam + tries > GuardTries
    <3>1. txq' # <<>> /\ jam' + tries' >= GuardTries
      <4>1. jam \in Nat /\ tries \in Nat
        BY Bounds DEF BusInv
      <4> QED
        BY <1>1, <1>2, <2>3, <4>1
    <3> QED
      BY <1>1, <3>1 DEF GuardInv
  <2> QED
    BY <1>1, <2>1, <2>2, <2>3 DEF BusInv, GuardInv
<1> QED
  BY <1>3, <1>4, <1>5, <1>6, <1>7 DEF BusInv

-----------------------------------------------------------------------------
(* A process that is gone, and the next (vehicle.service).                 *)

LEMMA DieKeeps == ASSUME BusInv, Die PROVE BusInv'
<1>1. /\ daemon' = "down" /\ phase = "cpu" /\ phase' = "cpu"
      /\ stall' = 0 /\ tries' = 0 /\ downFor' = 0 /\ txq' = txq /\ jam' = jam
      /\ motor' = motor /\ silence' = silence /\ restFor' = restFor
      /\ calmFor' = calmFor /\ socket' = [s \in Sides |-> Quiet]
      /\ latest' = latest /\ age' = age
  BY DEF Die, vescVars, statusVars, Each
<1>2. TypeOK'
  <2>1. 0 \in 0 .. GuardTries /\ 0 \in 0 .. RestartDelay /\ 0 \in 0 .. MaxStall
    OBVIOUS
  <2>2. socket' \in [Sides -> Speeds \cup {Quiet}]
    BY <1>1
  <2> QED
    BY <1>1, <2>1, <2>2 DEF BusInv, TypeOK
<1>3. MotionInv'
  BY <1>1 DEF MotionInv
<1>4. RejoinInv'
  BY <1>1 DEF BusInv, RejoinInv, TracksRejoin
<1>5. WaitInv'
  <2>1. jam \in Nat /\ \A s \in Sides : silence[s] \in Nat
    BY Bounds DEF BusInv
  <2>2. /\ txq # <<>> => jam > 0
        /\ \A s \in Sides : motor[s] # 0 => silence[s] <= VescTimeout
    BY <1>1, <2>1 DEF BusInv, WaitInv
  <2> QED
    BY <1>1, <2>1, <2>2 DEF WaitInv
<1>6. GuardInv'
  BY <1>1 DEF GuardInv
<1> QED
  BY <1>2, <1>3, <1>4, <1>5, <1>6 DEF BusInv

(* A start that is given up: the delay begins again.                       *)
LEMMA GivenUp ==
  ASSUME BusInv, daemon = "down", phase = "cpu", downFor' = 0,
         UNCHANGED <<phase, daemon, tries, stall, txq, jam, vescVars, socket,
                     statusVars, restFor, calmFor>>
  PROVE  BusInv'
<1>1. /\ daemon' = "down" /\ phase' = "cpu"
      /\ stall' = stall /\ tries' = tries /\ txq' = txq /\ jam' = jam
      /\ motor' = motor /\ silence' = silence /\ restFor' = restFor
      /\ calmFor' = calmFor /\ socket' = socket /\ latest' = latest /\ age' = age
  BY DEF vescVars, statusVars
<1>2. TypeOK'
  <2>1. 0 \in 0 .. RestartDelay
    OBVIOUS
  <2> QED
    BY <1>1, <2>1 DEF BusInv, TypeOK
<1>3. MotionInv'
  BY <1>1 DEF BusInv, MotionInv
<1>4. RejoinInv'
  BY <1>1 DEF BusInv, RejoinInv, TracksRejoin
<1>5. WaitInv'
  <2>1. jam \in Nat /\ \A s \in Sides : silence[s] \in Nat
    BY Bounds DEF BusInv
  <2>2. /\ txq # <<>> => jam > 0
        /\ \A s \in Sides : motor[s] # 0 => silence[s] <= VescTimeout
    BY <1>1, <2>1 DEF BusInv, WaitInv
  <2> QED
    BY <1>1, <2>1, <2>2 DEF WaitInv
<1>6. GuardInv'
  BY <1>1 DEF GuardInv
<1> QED
  BY <1>2, <1>3, <1>4, <1>5, <1>6 DEF BusInv

LEMMA WaitKeeps == ASSUME BusInv, Wait PROVE BusInv'
<1>1. /\ daemon = "down" /\ daemon' = "down" /\ phase = "cpu" /\ phase' = "bus"
      /\ downFor' = Capped(downFor + 1, RestartDelay)
      /\ stall' = stall /\ tries' = tries /\ txq' = txq /\ jam' = jam
      /\ motor' = motor /\ silence' = silence /\ restFor' = restFor
      /\ calmFor' = calmFor /\ socket' = socket /\ latest' = latest /\ age' = age
  BY DEF Wait, EndCpu, vescVars, statusVars
<1>2. downFor' \in 0 .. RestartDelay /\ downFor' <= downFor + 1
  BY <1>1 DEF Capped, BusInv, TypeOK
<1>3. TypeOK'
  BY <1>1, <1>2 DEF BusInv, TypeOK
<1>4. MotionInv'
  BY <1>1 DEF BusInv, MotionInv
<1>5. RejoinInv'
  BY <1>1 DEF BusInv, RejoinInv, TracksRejoin
<1>6. WaitInv'
  <2>1. /\ downFor \in Nat /\ jam \in Nat /\ \A s \in Sides : silence[s] \in Nat
        /\ downFor' \in Nat /\ MaxJam \in Nat
    BY <1>2, Bounds DEF BusInv
  <2>2. /\ txq # <<>> => jam > downFor
        /\ \A s \in Sides : motor[s] # 0 =>
             silence[s] <= VescTimeout /\ downFor <= silence[s] + MaxJam
    BY <1>1 DEF BusInv, WaitInv
  <2>3. txq' # <<>> => jam' >= downFor'
    BY <1>1, <1>2, <2>1, <2>2
  <2>4. \A s \in Sides : motor'[s] # 0 =>
          silence'[s] <= VescTimeout /\ downFor' <= silence'[s] + 1 + MaxJam
    BY SMTT(30), <1>1, <1>2, <2>1, <2>2
  <2> QED
    BY <1>1, <2>3, <2>4 DEF WaitInv
<1>7. GuardInv'
  BY <1>1 DEF GuardInv
<1> QED
  BY <1>3, <1>4, <1>5, <1>6, <1>7 DEF BusInv

(* By the time of a restart the queue is empty and both tracks stand.      *)
LEMMA RestartFindsRest ==
  ASSUME BusInv, daemon = "down", phase = "cpu", MayStart
  PROVE  txq = <<>> /\ motor = Each(0)
<1>1. /\ downFor = RestartDelay /\ jam \in Nat /\ jam <= MaxJam
      /\ \A s \in Sides : motor[s] \in {0, 1} /\ silence[s] \in Nat
      /\ motor \in [Sides -> Speeds]
  BY Bounds DEF MayStart, BusInv, TypeOK
<1>2. /\ txq # <<>> => jam > downFor
      /\ \A s \in Sides : motor[s] # 0 =>
           silence[s] <= VescTimeout /\ downFor <= silence[s] + MaxJam
  BY DEF BusInv, WaitInv
<1>3. txq = <<>>
  BY <1>1, <1>2
<1>4. \A s \in Sides : motor[s] = 0
  BY <1>1, <1>2
<1> QED
  BY <1>1, <1>3, <1>4 DEF Each

LEMMA RestartKeeps == ASSUME BusInv, Restart PROVE BusInv'
<1>1. /\ daemon = "down" /\ daemon' = "up" /\ phase = "cpu" /\ phase' = "cpu"
      /\ downFor' = 0
      /\ latest' = [s \in Sides |-> 0] /\ age' = [s \in Sides |-> StatusStale + 1]
      /\ stall' = stall /\ tries' = tries /\ txq' = txq /\ jam' = jam
      /\ motor' = motor /\ silence' = silence /\ restFor' = restFor
      /\ calmFor' = calmFor /\ socket' = socket
  BY DEF Restart, vescVars, Each
<1>2. TypeOK'
  <2>1. 0 \in 0 .. RestartDelay
    OBVIOUS
  <2>2. latest' \in [Sides -> Speeds] /\ age' \in [Sides -> 0 .. StatusStale + 1]
    BY <1>1 DEF Speeds
  <2> QED
    BY <1>1, <2>1, <2>2 DEF BusInv, TypeOK
<1>3. MotionInv'
  BY <1>1 DEF BusInv, MotionInv, Quiet
<1>4. RejoinInv'
  BY <1>1 DEF BusInv, RejoinInv, TracksRejoin
<1>5. WaitInv'
  BY <1>1 DEF BusInv, WaitInv
<1>6. GuardInv'
  BY <1>1 DEF GuardInv
<1> QED
  BY <1>2, <1>3, <1>4, <1>5, <1>6 DEF BusInv

-----------------------------------------------------------------------------
(* The bus' half of a period.                                              *)

LEMMA EndBusKeepsMotion ==
  ASSUME BusInv, phase = "bus", EndBus, motor' \in [Sides -> Speeds],
         socket' \in [Sides -> Speeds \cup {Quiet}],
         \A s \in Sides :
           socket'[s] = socket[s] \/ (daemon = "up" /\ socket'[s] = motor'[s])
  PROVE  MotionInv' /\ restFor' \in [Sides -> 0 .. RestMax]
<1>1. /\ phase' = "cpu" /\ daemon' = daemon /\ stall' = stall
      /\ latest' = latest /\ age' = age
      /\ restFor' = [s \in Sides |->
           IF motor'[s] # 0 THEN 0 ELSE Capped(restFor[s] + 1, RestMax)]
  BY DEF EndBus, daemonVars, statusVars
<1>2. \A s \in Sides : restFor[s] \in Nat /\ age[s] \in Nat
  BY Bounds DEF BusInv
<1>3. stall \in Nat /\ RestMax \in Nat
  BY SMTT(30), Bounds DEF BusInv, RestMax
<1>4. ASSUME NEW s \in Sides
      PROVE  /\ restFor'[s] \in 0 .. RestMax
             /\ restFor'[s] <= restFor[s] + 1
             /\ motor'[s] # 0 => restFor'[s] = 0
  BY <1>1, <1>2, <1>3 DEF Capped
<1>5. restFor' \in [Sides -> 0 .. RestMax]
  BY <1>1, <1>4
<1>6. Unpolled = stall /\ Unpolled' = stall + 1
  BY <1>1 DEF Unpolled
<1>7. daemon' = "up" =>
        \A s \in Sides :
          /\ socket'[s] = 1 => restFor'[s] < Unpolled'
          /\ latest'[s] = 1 /\ age'[s] <= StatusStale =>
               restFor'[s] <= age'[s] + Unpolled' + MaxStall
  <2> SUFFICES ASSUME daemon = "up", NEW s \in Sides
               PROVE  /\ socket'[s] = 1 => restFor'[s] < stall + 1
                      /\ latest[s] = 1 /\ age[s] <= StatusStale =>
                           restFor'[s] <= age[s] + (stall + 1) + MaxStall
    BY <1>1, <1>6
  <2>1. /\ socket[s] = 1 => restFor[s] < stall
        /\ latest[s] = 1 /\ age[s] <= StatusStale =>
             restFor[s] <= age[s] + stall + MaxStall
    BY <1>6 DEF BusInv, MotionInv
  <2>2. restFor'[s] \in Nat /\ restFor[s] \in Nat /\ age[s] \in Nat
    BY <1>2, <1>3, <1>4
  <2>3. socket'[s] = 1 => restFor'[s] < stall + 1
    <3>1. CASE socket'[s] = socket[s]
      BY <1>3, <1>4, <2>1, <2>2, <3>1
    <3>2. CASE socket'[s] = motor'[s]
      <4>1. socket'[s] = 1 => restFor'[s] = 0
        <5> SUFFICES ASSUME socket'[s] = 1 PROVE restFor'[s] = 0
          OBVIOUS
        <5>1. motor'[s] = 1
          BY <3>2
        <5>2. motor'[s] # 0
          BY <5>1
        <5> QED
          BY <1>4, <5>2
      <4> QED
        BY <1>3, <4>1
    <3> QED
      BY <3>1, <3>2
  <2>4. latest[s] = 1 /\ age[s] <= StatusStale =>
          restFor'[s] <= age[s] + (stall + 1) + MaxStall
    BY <1>3, <1>4, <2>1, <2>2
  <2> QED
    BY <2>3, <2>4
<1>8. daemon' = "down" => \A s \in Sides : socket'[s] = Quiet
  BY <1>1 DEF BusInv, MotionInv
<1> QED
  BY <1>5, <1>7, <1>8 DEF MotionInv

(* A clear bus empties the queue into the VESCs. *)
LEMMA ClearKeeps == ASSUME BusInv, Clear PROVE BusInv'
<1>1. /\ phase = "bus" /\ phase' = "cpu" /\ daemon' = daemon /\ stall' = stall
      /\ tries' = tries /\ downFor' = downFor /\ txq' = <<>> /\ jam' = 0
      /\ latest' = latest /\ age' = age
      /\ calmFor' = IF daemon = "up" /\ stall = 0 THEN Capped(calmFor + 1, 2) ELSE 0
      /\ Obeyed /\ Report /\ EndBus
  BY DEF Clear, EndBus, daemonVars, statusVars
<1>2. TypeOK
  BY DEF BusInv
<1>3. /\ silence' = [s \in Sides |-> IF Heard(s) THEN 0 ELSE Silent(s)]
      /\ motor' \in [Sides -> Speeds]
      /\ \A s \in Sides :
           IF Heard(s) THEN LastTo(s, motor'[s]) ELSE motor'[s] = TimedOut(s)
  BY <1>1 DEF Obeyed
<1>4. PICK heard \in SUBSET Sides :
        /\ daemon # "up" => heard = {}
        /\ socket' = [s \in Sides |-> IF s \in heard THEN motor'[s] ELSE socket[s]]
  BY <1>1 DEF Report
<1>5. MotionInv' /\ restFor' \in [Sides -> 0 .. RestMax]
      /\ socket' \in [Sides -> Speeds \cup {Quiet}]
  <2>1. socket' \in [Sides -> Speeds \cup {Quiet}]
    BY <1>2, <1>3, <1>4 DEF TypeOK
  <2>2. \A s \in Sides :
          socket'[s] = socket[s] \/ (daemon = "up" /\ socket'[s] = motor'[s])
    BY <1>4
  <2> QED
    BY <1>1, <1>3, <2>1, <2>2, EndBusKeepsMotion
<1>6. \A s \in Sides :
        /\ silence[s] \in Nat /\ Silent(s) \in 0 .. VescTimeout + 1
        /\ Silent(s) <= VescTimeout => Silent(s) = silence[s] + 1
  <2>1. \A s \in Sides : silence[s] \in Nat
    BY <1>2, Bounds
  <2> QED
    BY <2>1 DEF Silent, Capped
<1>7. TypeOK'
  <2>1. silence' \in [Sides -> 0 .. VescTimeout + 1]
    BY <1>3, <1>6
  <2>2. calmFor' \in 0 .. 2
    BY <1>1, <1>2 DEF TypeOK, Capped
  <2>3. <<>> \in Seq(Frame) /\ Len(<<>>) <= TxCapacity /\ 0 \in 0 .. MaxJam
    BY EmptySeq
  <2> QED
    BY <1>1, <1>2, <1>3, <1>5, <2>1, <2>2, <2>3 DEF TypeOK
<1>8. RejoinInv'
  <2>1. ASSUME calmFor' = 2 PROVE motor'["left"] = motor'["right"]
    <3>1. daemon = "up" /\ stall = 0 /\ calmFor > 0
      BY <1>1, <1>2, <2>1 DEF TypeOK, Capped
    <3>2. PICK e \in Speeds :
            txq = <<[side |-> "left", erpm |-> e], [side |-> "right", erpm |-> e]>>
      BY <1>1, <3>1 DEF BusInv, RejoinInv, Pair
    <3>3. /\ Len(txq) = 2 /\ txq[1] = [side |-> "left", erpm |-> e]
          /\ txq[2] = [side |-> "right", erpm |-> e]
      BY <3>2
    <3>4. Heard("left") /\ Heard("right")
      BY <3>3 DEF Heard
    <3>5. LastTo("left", e) /\ LastTo("right", e)
      BY <3>3 DEF LastTo
    <3>6. LastTo("left", motor'["left"]) /\ LastTo("right", motor'["right"])
      BY <1>3, <3>4 DEF Sides
    <3>7. txq \in Seq(Frame)
      BY <1>2 DEF TypeOK
    <3>8. \A s, d : LastTo(s, d) <=> LastIn(txq, s, d)
      BY DEF LastTo, LastIn
    <3> QED
      BY <3>5, <3>6, <3>7, <3>8, LastIsOne
  <2> QED
    BY <1>1, <2>1 DEF RejoinInv, TracksRejoin
<1>9. WaitInv'
  <2>1. ASSUME NEW s \in Sides, motor'[s] # 0
        PROVE  /\ silence'[s] <= VescTimeout
               /\ daemon = "down" => downFor <= silence'[s] + MaxJam
    <3>1. downFor \in Nat /\ jam \in Nat /\ jam <= MaxJam
      BY <1>2, Bounds
    <3>2. CASE Heard(s)
      <4>1. silence'[s] = 0
        BY <1>3, <3>2
      <4>2. txq # <<>>
        BY <3>2, EmptySeq DEF Heard
      <4>3. daemon = "down" => jam >= downFor
        BY <1>1, <4>2 DEF BusInv, WaitInv
      <4> QED
        BY <3>1, <4>1, <4>3
    <3>3. CASE ~Heard(s)
      <4>1. silence'[s] = Silent(s) /\ motor'[s] = TimedOut(s)
        BY <1>3, <3>3
      <4>2. ~(Silent(s) > VescTimeout) /\ motor[s] # 0
        BY <2>1, <4>1 DEF TimedOut
      <4>3. silence'[s] = silence[s] + 1 /\ silence'[s] <= VescTimeout
        BY <1>6, <4>1, <4>2
      <4>4. daemon = "down" => downFor <= silence[s] + 1 + MaxJam
        BY <1>1, <4>2 DEF BusInv, WaitInv
      <4> QED
        BY <1>6, <3>1, <4>3, <4>4
    <3> QED
      BY <3>2, <3>3
  <2> QED
    BY <1>1, <2>1 DEF WaitInv
<1>10. GuardInv'
  <2> SUFFICES ASSUME daemon = "stopping" PROVE GuardInv'
    BY <1>1 DEF GuardInv
  <2>1. CASE \A s \in Sides : Stops(txq, s, motor[s])
    <3>1. ASSUME NEW s \in Sides PROVE motor'[s] = 0
      <4>1. CASE Heard(s)
        <5>1. LastIn(txq, s, 0) /\ LastIn(txq, s, motor'[s])
          BY <1>3, <2>1, <4>1 DEF Stops, Heard, HeardIn, LastTo, LastIn
        <5>2. txq \in Seq(Frame)
          BY <1>2 DEF TypeOK
        <5> QED
          BY <5>1, <5>2, LastIsOne
      <4>2. CASE ~Heard(s)
        <5>1. motor[s] = 0
          BY <2>1, <4>2 DEF Stops, Heard, HeardIn
        <5> QED
          BY <1>3, <4>2, <5>1 DEF TimedOut
      <4> QED
        BY <4>1, <4>2
    <3>2. \A s \in Sides : Stops(txq', s, motor'[s])
      BY <1>1, <3>1, EmptySeq DEF Stops, HeardIn
    <3> QED
      BY <3>2 DEF GuardInv
  <2>2. CASE txq # <<>> /\ jam + tries >= GuardTries
    <3>1. tries >= 1
      BY <1>2, <2>2, Bounds
    <3> QED
      BY <1>1, <3>1 DEF GuardInv
  <2> QED
    BY <1>1, <2>1, <2>2 DEF BusInv, GuardInv
<1> QED
  BY <1>5, <1>7, <1>8, <1>9, <1>10 DEF BusInv

(* On a jammed one nothing arrives, and timeouts run. *)
LEMMA JammedKeeps == ASSUME BusInv, Jammed PROVE BusInv'
<1>1. /\ phase = "bus" /\ phase' = "cpu" /\ daemon' = daemon /\ stall' = stall
      /\ tries' = tries /\ downFor' = downFor /\ txq' = txq
      /\ jam < MaxJam /\ jam' = jam + 1 /\ calmFor' = 0
      /\ latest' = latest /\ age' = age /\ socket' = socket
      /\ silence' = [s \in Sides |-> Silent(s)]
      /\ motor' = [s \in Sides |-> TimedOut(s)]
      /\ EndBus
  BY DEF Jammed, NobodyHeard, EndBus, daemonVars, statusVars
<1>2. TypeOK
  BY DEF BusInv
<1>3. \A s \in Sides :
        /\ silence[s] \in Nat /\ Silent(s) \in 0 .. VescTimeout + 1
        /\ Silent(s) <= VescTimeout => Silent(s) = silence[s] + 1
        /\ motor[s] \in Speeds /\ TimedOut(s) \in Speeds
        /\ TimedOut(s) # 0 => Silent(s) <= VescTimeout /\ motor[s] # 0
  <2>1. \A s \in Sides : silence[s] \in Nat /\ motor[s] \in Speeds
    BY <1>2, Bounds DEF Speeds
  <2>2. \A s \in Sides :
          /\ Silent(s) \in 0 .. VescTimeout + 1
          /\ Silent(s) <= VescTimeout => Silent(s) = silence[s] + 1
    BY <2>1 DEF Silent, Capped
  <2>3. \A s \in Sides :
          /\ TimedOut(s) \in Speeds
          /\ TimedOut(s) # 0 => Silent(s) <= VescTimeout /\ motor[s] # 0
    BY <2>1, <2>2 DEF TimedOut, Speeds
  <2> QED
    BY <2>1, <2>2, <2>3
<1>4. motor' \in [Sides -> Speeds] /\ silence' \in [Sides -> 0 .. VescTimeout + 1]
  BY <1>1, <1>3
<1>5. MotionInv' /\ restFor' \in [Sides -> 0 .. RestMax]
  <2>1. socket' \in [Sides -> Speeds \cup {Quiet}]
    BY <1>1, <1>2 DEF TypeOK
  <2> QED
    BY <1>1, <1>4, <2>1, EndBusKeepsMotion
<1>6. TypeOK'
  <2>1. jam' \in 0 .. MaxJam /\ calmFor' \in 0 .. 2
    BY <1>1, <1>2, Bounds
  <2> QED
    BY <1>1, <1>2, <1>4, <1>5, <2>1 DEF TypeOK
<1>7. RejoinInv'
  BY <1>1 DEF RejoinInv, TracksRejoin
<1>8. WaitInv'
  <2>1. jam \in Nat /\ downFor \in Nat
    BY <1>2, Bounds
  <2>2. ASSUME NEW s \in Sides, motor'[s] # 0
        PROVE  /\ silence'[s] = silence[s] + 1 /\ silence'[s] <= VescTimeout
               /\ motor[s] # 0
    BY <1>1, <1>3, <2>2
  <2>3. daemon = "down" =>
          /\ txq # <<>> => jam >= downFor
          /\ \A s \in Sides : motor[s] # 0 => downFor <= silence[s] + 1 + MaxJam
    BY <1>1 DEF BusInv, WaitInv
  <2>4. txq' # <<>> => jam' >= 1
    BY <1>1, <2>1
  <2>5. daemon' = "down" =>
          /\ txq' # <<>> => jam' > downFor'
          /\ \A s \in Sides : motor'[s] # 0 => downFor' <= silence'[s] + MaxJam
    BY <1>1, <2>1, <2>2, <2>3
  <2> QED
    BY <1>1, <2>2, <2>4, <2>5 DEF WaitInv
<1>9. GuardInv'
  <2> SUFFICES ASSUME daemon = "stopping" PROVE GuardInv'
    BY <1>1 DEF GuardInv
  <2>1. CASE \A s \in Sides : Stops(txq, s, motor[s])
    <3>1. \A s \in Sides : motor[s] = 0 => motor'[s] = 0
      BY <1>1 DEF TimedOut
    <3>2. \A s \in Sides : Stops(txq', s, motor'[s])
      BY <1>1, <2>1, <3>1 DEF Stops
    <3> QED
      BY <3>2 DEF GuardInv
  <2>2. CASE txq # <<>> /\ jam + tries >= GuardTries
    <3>1. jam' + tries' > GuardTries
      <4>1. jam \in Nat /\ tries \in Nat
        BY <1>2, Bounds
      <4> QED
        BY <1>1, <2>2, <4>1
    <3> QED
      BY <1>1, <2>2, <3>1 DEF GuardInv
  <2> QED
    BY <1>1, <2>1, <2>2 DEF BusInv, GuardInv
<1> QED
  BY <1>5, <1>6, <1>7, <1>8, <1>9 DEF BusInv

-----------------------------------------------------------------------------
(* The start (run_vehicle.cpp:330-345) around it.                          *)

LEMMA BusInvStutters == ASSUME BusInv, UNCHANGED vars PROVE BusInv'
<1>1. /\ phase' = phase /\ daemon' = daemon /\ tries' = tries /\ downFor' = downFor
      /\ stall' = stall /\ txq' = txq /\ jam' = jam /\ motor' = motor
      /\ silence' = silence /\ socket' = socket /\ latest' = latest /\ age' = age
      /\ restFor' = restFor /\ calmFor' = calmFor
  BY DEF vars
<1>2. TypeOK'
  BY <1>1 DEF BusInv, TypeOK
<1>3. MotionInv' /\ RejoinInv'
  BY <1>1 DEF BusInv, MotionInv, Unpolled, RejoinInv, TracksRejoin
<1>4. WaitInv' /\ GuardInv'
  BY <1>1 DEF BusInv, WaitInv, GuardInv
<1> QED
  BY <1>2, <1>3, <1>4 DEF BusInv

LEMMA NextKeepsBus == ASSUME BusInv, Next PROVE BusInv'
<1>1. CASE Stop
  BY <1>1, GuardBegins DEF Stop
<1> QED
  BY <1>1, IterateKeeps, OverrunKeeps, GuardKeeps, DieKeeps, WaitKeeps, RestartKeeps,
     ClearKeeps, JammedKeeps DEF Next

LEMMA TheCalls ==
  /\ Len(Opening) = 19 /\ Opening[1] = "open imu" /\ Opening[2] = "address"
  /\ Opening[3] = "reset" /\ Opening[4] = "clock" /\ Opening[5] = "who"
  /\ Opening[6] = "rate" /\ Opening[7] = "gyro filter"
  /\ Opening[8] = "gyro range" /\ Opening[9] = "accel range"
  /\ Opening[10] = "accel filter" /\ Opening[11] = "socket"
  /\ Opening[12] = "interface" /\ Opening[13] = "filter"
  /\ Opening[14] = "bind" /\ Opening[15] = "nonblock"
  /\ Opening[16] = "open uart" /\ Opening[17] = "raw"
  /\ Opening[18] = "flush" /\ Opening[19] = "blackbox"
BY DEF Opening

LEMMA Nineteen ==
  \A i \in 1 .. 19 :
    \/ i = 1 \/ i = 2 \/ i = 3 \/ i = 4 \/ i = 5 \/ i = 6 \/ i = 7 \/ i = 8 \/ i = 9
    \/ i = 10 \/ i = 11 \/ i = 12 \/ i = 13 \/ i = 14 \/ i = 15 \/ i = 16
    \/ i = 17 \/ i = 18 \/ i = 19
OBVIOUS

(* Each call is made once. *)
LEMMA OnlyOnce ==
  ASSUME NEW i \in 1 .. 19
  PROVE  /\ Opening[i] = "reset" => i = 3
         /\ Opening[i] = "bind" => i = 14
         /\ Opening[i] = "blackbox" => i = 19
<1>1. Opening[i] = "reset" => i = 3
  BY TheCalls, Nineteen
<1>2. Opening[i] = "bind" => i = 14
  BY TheCalls, Nineteen
<1>3. Opening[i] = "blackbox" => i = 19
  BY TheCalls, Nineteen
<1> QED
  BY <1>1, <1>2, <1>3

(* Before its first call the daemon is at a place of the list. *)
LEMMA FromTheTop == 0 \in 0 .. Len(Opening)
<1>1. Len(Opening) = 19
  BY TheCalls
<1> QED
  BY <1>1

(* Ten calls on, all registers are written. *)
LEMMA AllWritten ==
  ASSUME chip \in SUBSET Registers, at \in Nat, at >= 10, SetUpInv
  PROVE  chip = Registers
<1>1. \A i \in 4 .. 10 : Opening[i] \in Registers => Opening[i] \in chip
  BY DEF SetUpInv
<1>2. \A i \in {4, 6, 7, 8, 9, 10} : i \in 4 .. 10
  OBVIOUS
<1>3. /\ Opening[4] \in Registers /\ Opening[6] \in Registers /\ Opening[7] \in Registers
      /\ Opening[8] \in Registers /\ Opening[9] \in Registers /\ Opening[10] \in Registers
  BY TheCalls DEF Registers
<1>4. /\ Opening[4] \in chip /\ Opening[6] \in chip /\ Opening[7] \in chip
      /\ Opening[8] \in chip /\ Opening[9] \in chip /\ Opening[10] \in chip
  BY <1>1, <1>2, <1>3
<1>5. Registers = {Opening[4], Opening[6], Opening[7], Opening[8], Opening[9], Opening[10]}
  BY TheCalls DEF Registers
<1> QED
  BY <1>4, <1>5

(* A call adds to what is written, but for the reset, which comes before   *)
(* all of it.                                                              *)
LEMMA CallKeeps ==
  ASSUME chip \in SUBSET Registers, at \in 0 .. 18, SetUpInv
  PROVE  /\ Written(Opening[at + 1]) \in SUBSET Registers
         /\ \A i \in 4 .. 10 : i <= at /\ Opening[i] \in Registers =>
               Opening[i] \in Written(Opening[at + 1])
         /\ at + 1 \in 4 .. 10 /\ Opening[at + 1] \in Registers =>
               Opening[at + 1] \in Written(Opening[at + 1])
<1> DEFINE call == Opening[at + 1]
<1>1. at + 1 \in 1 .. 19
  OBVIOUS
<1>2. CASE call = "reset"
  <2>1. at + 1 = 3
    BY <1>1, <1>2, OnlyOnce
  <2>2. Written(call) = {}
    BY <1>2 DEF Written
  <2> QED
    BY <2>1, <2>2
<1>3. CASE call # "reset"
  <2>1. (Written(call) = chip \cup {call} /\ call \in Registers) \/ Written(call) = chip
    BY <1>3 DEF Written
  <2>2. call \in Registers => Written(call) = chip \cup {call}
    BY <1>3 DEF Written
  <2> QED
    BY <2>1, <2>2 DEF SetUpInv
<1> QED
  BY <1>2, <1>3

LEMMA StartKeeps ==
  ASSUME IInv, Succeed \/ Arrive \/ Retry
  PROVE  IInv'
<1>1. /\ daemon = "down" /\ UNCHANGED vars /\ at \in 0 .. 19
      /\ chip \in SUBSET Registers /\ noise \in BOOLEAN /\ strays \in BOOLEAN
      /\ SetUpInv /\ faults \in 0 .. MaxFaults
  BY TheCalls DEF Succeed, Arrive, Retry, Starting, Fails, IInv, StartTypeOK
<1>2. BusInv' /\ TypeOK' /\ daemon' = "down"
  BY <1>1, BusInvStutters DEF IInv, BusInv, vars
<1>3. faults' = faults
  BY DEF Succeed, Arrive, Retry
<1>4. CASE Succeed
  <2>1. /\ at < 19 /\ at' = at + 1 /\ chip' = Written(Opening[at + 1]) /\ strays' = strays
        /\ again' = FALSE
    BY <1>4, TheCalls DEF Succeed
  <2>2. noise' \in BOOLEAN /\ (noise' => noise) /\ (at = 17 => ~noise')
    <3>1. noise' = (noise /\ Opening[at + 1] # "flush")
      BY <1>4, Zenon DEF Succeed
    <3>2. at = 17 => Opening[at + 1] = "flush"
      <4>1. at = 17 => at + 1 = 18
        OBVIOUS
      <4> QED
        BY <4>1, TheCalls
    <3> QED
      BY <3>1, <3>2, Zenon
  <2>3. again' \in BOOLEAN /\ strays' \in BOOLEAN
    BY <1>1, <2>1, Zenon
  <2>4. StartTypeOK'
    <3>1. at \in 0 .. 18
      BY <1>1, <2>1
    <3>2. chip' \in SUBSET Registers
      BY <1>1, <2>1, <3>1, CallKeeps
    <3>3. Len(Opening) = 19
      BY TheCalls
    <3>4. at' \in 0 .. Len(Opening)
      BY <2>1, <3>1, <3>3
    <3> QED
      BY <1>1, <1>2, <1>3, <2>2, <2>3, <3>2, <3>4 DEF StartTypeOK
  <2>5. SetUpInv'
    <3>1. at \in 0 .. 18
      BY <1>1, <2>1
    <3>2. \A i \in 4 .. 10 : i <= at' /\ Opening[i] \in Registers => Opening[i] \in chip'
      BY <1>1, <2>1, <3>1, CallKeeps
    <3>3. noise' => at' < 18
      BY <1>1, <2>1, <2>2 DEF SetUpInv
    <3> QED
      BY <1>1, <1>2, <2>1, <3>2, <3>3 DEF SetUpInv
  <2> QED
    BY <1>2, <2>4, <2>5 DEF IInv
<1>5. CASE Arrive
  <2>1. at' = at /\ again' = again /\ chip' = chip
    BY <1>5 DEF Arrive
  <2>2. noise' = (noise \/ (Past("open uart") /\ ~Past("raw")))
    BY <1>5, Zenon DEF Arrive
  <2>3. strays' = (strays \/ (Past("bind") /\ ~Past("filter")))
    BY <1>5, Zenon DEF Arrive
  <2>4. Past("open uart") /\ ~Past("raw") => at < 18
    <3> SUFFICES ASSUME ~(at < 18) PROVE Past("raw")
      OBVIOUS
    <3>1. 17 \in 1 .. at
      BY <1>1
    <3>2. Opening[17] = "raw"
      BY TheCalls
    <3> QED
      BY <3>1, <3>2 DEF Past
  <2>5. ~(Past("bind") /\ ~Past("filter"))
    <3> SUFFICES ASSUME Past("bind") PROVE Past("filter")
      OBVIOUS
    <3>1. PICK i \in 1 .. at : Opening[i] = "bind"
      BY DEF Past
    <3>2. i \in 1 .. 19
      BY <1>1, <3>1
    <3>3. i = 14
      BY <3>1, <3>2, OnlyOnce
    <3>4. 13 \in 1 .. at
      BY <1>1, <3>3
    <3>5. Opening[13] = "filter"
      BY TheCalls
    <3> QED
      BY <3>4, <3>5 DEF Past
  <2>6. noise' \in BOOLEAN /\ (noise' => at < 18)
    <3>1. noise => at < 18
      BY <1>1 DEF SetUpInv
    <3> QED
      BY <2>2, <2>4, <3>1, Zenon
  <2>7. strays' \in BOOLEAN /\ ~strays'
    <3>1. ~strays
      BY <1>1 DEF SetUpInv
    <3> QED
      BY <2>3, <2>5, <3>1, Zenon
  <2>8. StartTypeOK'
    BY <1>1, <1>2, <1>3, <2>1, <2>6, <2>7 DEF IInv, StartTypeOK
  <2>9. SetUpInv'
    BY <1>1, <1>2, <2>1, <2>6, <2>7 DEF SetUpInv
  <2> QED
    BY <1>2, <2>8, <2>9 DEF IInv
<1>6. CASE Retry
  <2>1. PICK call \in Transfers : Fails(call) /\ chip' \in {chip, Written(call)}
    BY <1>6 DEF Retry
  <2>2. /\ at \in 0 .. 18 /\ call = Opening[at + 1] /\ at' = at /\ again' = TRUE
        /\ noise' = noise /\ strays' = strays
    <3>1. at < Len(Opening) /\ call = Opening[at + 1]
      BY <2>1 DEF Fails
    <3>2. at \in 0 .. 18
      <4>1. Len(Opening) = 19
        BY TheCalls
      <4> QED
        BY <1>1, <3>1, <4>1
    <3> QED
      BY <1>6, <3>1, <3>2 DEF Retry
  <2>3. /\ chip' \in SUBSET Registers
        /\ \A i \in 4 .. 10 : i <= at /\ Opening[i] \in Registers => Opening[i] \in chip'
    BY <1>1, <2>1, <2>2, CallKeeps DEF SetUpInv
  <2>4. again' \in BOOLEAN
    BY <2>2, Zenon
  <2>5. StartTypeOK'
    BY <1>1, <1>2, <1>3, <2>2, <2>3, <2>4 DEF IInv, StartTypeOK
  <2>6. SetUpInv'
    BY <1>1, <1>2, <2>2, <2>3 DEF SetUpInv
  <2> QED
    BY <1>2, <2>5, <2>6 DEF IInv
<1> QED
  BY <1>4, <1>5, <1>6

(* A start given up at whatever point leaves the next one a chip it sets   *)
(* up anew.                                                                *)
LEMMA ClosedKeeps ==
  ASSUME IInv, daemon = "down", phase = "cpu", Closed, daemon' = "down", downFor' = 0,
         chip' \in SUBSET Registers,
         UNCHANGED <<phase, tries, stall, txq, jam, vescVars, socket, statusVars,
                     restFor, calmFor>>
  PROVE  IInv'
<1>1. BusInv'
  BY GivenUp DEF IInv
<1>2. /\ at' = 0 /\ again' = FALSE /\ noise' = FALSE /\ strays' = FALSE
      /\ faults' \in 0 .. MaxFaults
  BY DEF Closed, IInv, StartTypeOK
<1>3. again' \in BOOLEAN /\ noise' \in BOOLEAN /\ strays' \in BOOLEAN /\ ~noise' /\ ~strays'
  BY <1>2, Zenon
<1>4. 0 \in 0 .. Len(Opening)
  BY FromTheTop
<1>5. StartTypeOK'
  BY <1>1, <1>2, <1>3, <1>4 DEF BusInv, StartTypeOK
<1>6. SetUpInv'
  BY <1>2, <1>3 DEF SetUpInv
<1> QED
  BY <1>1, <1>5, <1>6 DEF IInv

LEMMA EndsKeep ==
  ASSUME IInv, Refuse \/ RefuseGuarded \/ Killed
  PROVE  IInv'
<1>1. /\ BusInv /\ at \in 0 .. 19 /\ chip \in SUBSET Registers /\ SetUpInv
  BY TheCalls DEF IInv, StartTypeOK
<1>2. CASE Refuse
  <2>1. PICK call \in Calls : Fails(call) /\ chip' \in {chip, Written(call)}
    BY <1>2 DEF Refuse
  <2>2. daemon = "down" /\ phase = "cpu" /\ at < Len(Opening) /\ call = Opening[at + 1]
    BY <2>1 DEF Fails, Starting
  <2>3. at \in 0 .. 18
    <3>1. Len(Opening) = 19
      BY TheCalls
    <3> QED
      BY <1>1, <2>2, <3>1
  <2>4. chip' \in SUBSET Registers
    BY <1>1, <2>1, <2>2, <2>3, CallKeeps
  <2> QED
    BY <1>2, <2>2, <2>4, ClosedKeeps DEF Refuse
<1>3. CASE RefuseGuarded
  <2>1. /\ daemon = "down" /\ phase = "cpu" /\ Opening[at + 1] = "blackbox"
        /\ at < Len(Opening) /\ daemon' = "stopping" /\ tries' = GuardTries
        /\ stall' = stall /\ chip' = chip /\ Closed
        /\ UNCHANGED <<phase, downFor, txq, jam, vescVars, socket, statusVars,
                       restFor, calmFor>>
    BY <1>3 DEF RefuseGuarded, Fails, Starting
  <2>2. BusInv'
    BY <1>1, <2>1, GuardBegins
  <2>3. at = 18
    <3>1. Len(Opening) = 19
      BY TheCalls
    <3>2. at + 1 \in 1 .. 19
      BY <1>1, <2>1, <3>1
    <3>3. at + 1 = 19
      BY <2>1, <3>2, OnlyOnce
    <3> QED
      BY <1>1, <3>3
  <2>4. chip = Registers
    BY <1>1, <2>3, AllWritten
  <2>5. /\ at' = 0 /\ again' = FALSE /\ noise' = FALSE /\ strays' = FALSE
        /\ faults' \in 0 .. MaxFaults
    BY <2>1 DEF Closed, IInv, StartTypeOK
  <2>6. again' \in BOOLEAN /\ noise' \in BOOLEAN /\ strays' \in BOOLEAN /\ ~noise' /\ ~strays'
    BY <2>5, Zenon
  <2>7. 0 \in 0 .. Len(Opening)
    BY FromTheTop
  <2>8. StartTypeOK'
    BY <1>1, <2>1, <2>2, <2>5, <2>6, <2>7 DEF BusInv, StartTypeOK
  <2>9. SetUpInv'
    BY <2>1, <2>4, <2>5, <2>6 DEF SetUpInv
  <2> QED
    BY <2>2, <2>8, <2>9 DEF IInv
<1>4. CASE Killed
  <2>1. daemon = "down" /\ phase = "cpu" /\ chip' = chip
    BY <1>4 DEF Killed, Starting
  <2> QED
    BY <1>1, <1>4, <2>1, ClosedKeeps DEF Killed
<1> QED
  BY <1>2, <1>3, <1>4

LEMMA ArmKeeps == ASSUME IInv, Arm PROVE IInv'
<1>1. BusInv'
  BY RestartKeeps DEF IInv, Arm
<1>2. /\ at = 19 /\ at' = 0 /\ faults' = 0 /\ again' = again /\ chip' = chip
      /\ noise' = noise /\ strays' = strays
  BY TheCalls DEF Arm
<1>3. chip = Registers
  BY <1>2, AllWritten DEF IInv, StartTypeOK
<1>4. again' \in BOOLEAN /\ noise' \in BOOLEAN /\ strays' \in BOOLEAN
  BY <1>2 DEF IInv, StartTypeOK
<1>5. ~noise' /\ ~strays'
  <2>1. ~noise
    BY <1>2 DEF IInv, SetUpInv
  <2>2. ~strays
    BY DEF IInv, SetUpInv
  <2> QED
    BY <1>2, <2>1, <2>2
<1>6. StartTypeOK'
  <2>1. 0 \in 0 .. Len(Opening) /\ 0 \in 0 .. MaxFaults
    BY FromTheTop, StartupAssumption
  <2> QED
    BY <1>1, <1>2, <1>4, <2>1 DEF IInv, BusInv, StartTypeOK
<1>7. SetUpInv'
  BY <1>2, <1>3, <1>5 DEF SetUpInv
<1> QED
  BY <1>1, <1>6, <1>7 DEF IInv

LEMMA StepKeeps == IInv /\ [StartNext]_allVars => IInv'
<1> SUFFICES ASSUME IInv, [StartNext]_allVars PROVE IInv'
  OBVIOUS
<1>1. ASSUME BusInv', UNCHANGED startVars, daemon' # "down" => daemon # "down"
      PROVE  IInv'
  <2>1. /\ at' = at /\ again' = again /\ chip' = chip /\ noise' = noise
        /\ strays' = strays /\ faults' = faults
    BY <1>1 DEF startVars
  <2>2. StartTypeOK'
    BY <1>1, <2>1 DEF IInv, BusInv, StartTypeOK
  <2>3. SetUpInv'
    BY <1>1, <2>1 DEF IInv, SetUpInv
  <2> QED
    BY <1>1, <2>2, <2>3 DEF IInv
<1>2. CASE Runs
  <2>1. BusInv'
    BY <1>2, NextKeepsBus DEF IInv, Runs, Next
  <2>2. daemon' # "down" => daemon # "down"
    BY <1>2 DEF Runs, Iterate, Overrun, Stop, Guard, Die, Wait, Clear, Jammed,
       EndBus, daemonVars
  <2> QED
    BY <1>1, <1>2, <2>1, <2>2 DEF Runs
<1>3. CASE UNCHANGED allVars
  BY <1>1, <1>3, BusInvStutters DEF allVars, vars, IInv
<1> QED
  BY <1>2, <1>3, StartKeeps, EndsKeep, ArmKeeps DEF StartNext

LEMMA InitIInv == StartInit => IInv
<1> SUFFICES ASSUME StartInit PROVE IInv
  OBVIOUS
<1>1. /\ phase = "cpu" /\ daemon = "down" /\ tries = 0 /\ downFor = RestartDelay
      /\ stall = 0 /\ txq = <<>> /\ jam = 0 /\ motor = [s \in Sides |-> 0]
      /\ silence = [s \in Sides |-> VescTimeout + 1]
      /\ socket = [s \in Sides |-> Quiet] /\ latest = [s \in Sides |-> 0]
      /\ age = [s \in Sides |-> StatusStale + 1]
      /\ restFor = [s \in Sides |-> RestMax] /\ calmFor = 0
  BY DEF StartInit, Init, Each
<1>2. TypeOK
  <2>1. /\ motor \in [Sides -> Speeds] /\ latest \in [Sides -> Speeds]
        /\ socket \in [Sides -> Speeds \cup {Quiet}]
    BY <1>1 DEF Speeds
  <2>2. /\ silence \in [Sides -> 0 .. VescTimeout + 1]
        /\ age \in [Sides -> 0 .. StatusStale + 1]
        /\ restFor \in [Sides -> 0 .. RestMax]
    BY <1>1 DEF RestMax
  <2>3. txq \in Seq(Frame) /\ Len(txq) <= TxCapacity
    BY <1>1, EmptySeq
  <2> QED
    BY <1>1, <2>1, <2>2, <2>3 DEF TypeOK
<1>3. BusInv
  BY <1>1, <1>2 DEF BusInv, MotionInv, RejoinInv, TracksRejoin, WaitInv, GuardInv
<1>4. /\ at = 0 /\ chip \in SUBSET Registers /\ faults = 0
  BY DEF StartInit
<1>5. again \in BOOLEAN /\ noise \in BOOLEAN /\ strays \in BOOLEAN /\ ~noise /\ ~strays
  BY Zenon DEF StartInit
<1>6. StartTypeOK
  <2>1. 0 \in 0 .. Len(Opening)
    BY FromTheTop
  <2> QED
    BY <1>2, <1>4, <1>5, <2>1 DEF StartTypeOK
<1>7. SetUpInv
  BY <1>1, <1>4, <1>5 DEF SetUpInv
<1> QED
  BY <1>3, <1>6, <1>7 DEF IInv

-----------------------------------------------------------------------------
(* The theorems.                                                           *)

THEOREM Invariance == StartSpec => []IInv
<1>1. StartInit => IInv
  BY InitIInv
<1>2. IInv /\ [StartNext]_allVars => IInv'
  BY StepKeeps
<1> QED
  BY <1>1, <1>2, PTL DEF StartSpec

(* Every variable of the start and of the bus has its type; the transmit   *)
(* queue in particular never grows past its capacity.                      *)
THEOREM TypeCorrect == StartSpec => []StartTypeOK
<1>1. IInv => StartTypeOK
  BY DEF IInv
<1> QED
  BY Invariance, <1>1, PTL

(* Whatever starts failed or were killed before, and at which call, a      *)
(* daemon that commands the tracks has all its registers, filters and      *)
(* lines set up (run_vehicle.cpp:330-345, mpu9250_i2c.cpp:67-135).         *)
THEOREM ArmedIsReady == StartSpec => []ArmsReady
<1>1. IInv => ArmsReady
  BY DEF IInv, SetUpInv, ArmsReady
<1> QED
  BY Invariance, <1>1, PTL

(* For every staleness window and overrun, an iteration is handed motion   *)
(* no older than the two together (vesc_socketcan.cpp:112-148).            *)
THEOREM NoMotionOutOfThinAir == StartSpec => []NoPhantomMotion
<1>1. IInv => NoPhantomMotion
  <2> SUFFICES ASSUME IInv, daemon = "up", phase = "bus", stall = 0,
                      NEW s \in Sides, Reported(s) # 0
               PROVE  restFor[s] <= StatusStale + MaxStall
    BY DEF NoPhantomMotion
  <2>1. /\ latest[s] \in {0, 1} /\ age[s] \in Nat /\ restFor[s] \in Nat
    BY Bounds DEF IInv, BusInv
  <2>2. latest[s] = 1 /\ age[s] <= StatusStale
    BY <2>1 DEF Reported
  <2>3. restFor[s] <= age[s] + 0 + MaxStall
    BY <2>2 DEF IInv, BusInv, MotionInv, Unpolled
  <2> QED
    BY <2>1, <2>2, <2>3
<1> QED
  BY Invariance, <1>1, PTL

(* A guard with more tries than a jam has periods stops both tracks, with  *)
(* whatever the queue was full of (run_vehicle.cpp:88-99).                 *)
THEOREM GuardIsEnough == StartSpec => []GuardStopsTracks
<1>1. IInv => GuardStopsTracks
  <2> SUFFICES ASSUME IInv, daemon = "stopping", tries = 0, phase = "cpu", NEW s \in Sides
               PROVE  IF Heard(s) THEN LastTo(s, 0) ELSE motor[s] = 0
    BY DEF GuardStopsTracks
  <2>1. jam \in Nat /\ jam <= MaxJam
    BY Bounds DEF IInv, BusInv
  <2>2. Stops(txq, s, motor[s])
    BY <2>1 DEF IInv, BusInv, GuardInv
  <2> QED
    BY <2>2 DEF Stops, Heard, HeardIn, LastTo, LastIn
<1> QED
  BY Invariance, <1>1, PTL

(* Two undisturbed periods bring the tracks together, whatever was dropped *)
(* before (vesc_socketcan.cpp:94-110).                                     *)
THEOREM TracksComeTogether == StartSpec => []TracksRejoin
<1>1. IInv => TracksRejoin
  BY DEF IInv, BusInv, RejoinInv
<1> QED
  BY Invariance, <1>1, PTL

(* A delay longer than a jam and the VESCs' timeout together is enough for *)
(* every restart to find the queue empty and the tracks at rest            *)
(* (vehicle.service:28-29).                                                *)
THEOREM RestartAtRest == StartSpec => StillAtRestart
<1>1. IInv /\ [StartNext]_allVars =>
        [daemon = "down" /\ daemon' = "up" => motor = Each(0) /\ txq = <<>>]_vars
  <2> SUFFICES ASSUME IInv, [StartNext]_allVars, daemon = "down", daemon' = "up"
               PROVE  motor = Each(0) /\ txq = <<>>
    OBVIOUS
  <2>1. Arm
    BY DEF StartNext, Runs, Succeed, Arrive, Retry, Refuse, RefuseGuarded, Killed,
       Iterate, Overrun, Stop, Guard, Die, Wait, Clear, Jammed, EndBus, daemonVars,
       allVars, vars
  <2>2. phase = "cpu" /\ MayStart
    BY <2>1 DEF Arm, Restart
  <2> QED
    BY <2>2, RestartFindsRest DEF IInv
<1> QED
  BY Invariance, <1>1, PTL DEF StartSpec, StillAtRestart
=============================================================================
