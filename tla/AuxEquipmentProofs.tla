-------------------------- MODULE AuxEquipmentProofs --------------------------
(* Proofs about AuxEquipment, for any drives, queue and timeout. *)
EXTENDS AuxEquipment, TLAPS

(* The two records of what is pressed do not drift apart.                  *)
ButtonsInv ==
  /\ on \subseteq held
  /\ held \subseteq last
  /\ Buttons \ last \subseteq released
  /\ held \cap DriveButtons \subseteq released

(* A message that waits at place i has at most Depth - i updates behind    *)
(* it, and so has the operator's silence.                                  *)
QueueInv ==
  \A i \in 1 .. Len(inbox) : inbox[i] # HeartbeatMsg => silence + i <= Depth

(* The timer runs behind the silence by a queue at most, unless it is up.  *)
TimerInv ==
  /\ age <= Timeout => silence <= age + Depth
  /\ age > Timeout => Stopped

IInv == TypeOK /\ ButtonsInv /\ QueueInv /\ TimerInv /\ EngineServesDrives

-----------------------------------------------------------------------------
(* The constants: the mode button is no drive button, and the times are    *)
(* natural numbers.                                                        *)
LEMMA Constants ==
  /\ ModeButton \notin DriveButtons
  /\ DriveButtons \subseteq Buttons
  /\ Timeout \in Nat /\ Depth \in Nat \ {0}
  /\ HeartbeatMsg \in Messages
  /\ \A msg \in Messages : msg # HeartbeatMsg => msg.pressed \subseteq Buttons
<1>1. ModeButton \notin DriveButtons
  BY DrivesAssumption DEF ModeButton, DriveButtons
<1>2. DriveButtons \subseteq Buttons
  BY DEF Buttons
<1>3. Timeout \in Nat /\ Depth \in Nat \ {0}
  BY TimesAssumption
<1>4. \A msg \in Messages : msg # HeartbeatMsg => msg.pressed \subseteq Buttons
  BY PressesAssumption DEF Messages
<1> QED
  BY <1>1, <1>2, <1>3, <1>4 DEF Messages

(* What is tracked is part of what is pressed, and is either an old press  *)
(* or one that the last message did not hold.                              *)
LEMMA TrackedPresses ==
  ASSUME NEW p \in SUBSET Buttons, held \subseteq last
  PROVE  /\ Tracked(p) \subseteq p
         /\ \A b \in Tracked(p) : b \in held \/ b \notin last
  BY DEF Tracked, Changed

(* A choice of outputs is among the buttons held, and opposite outputs are *)
(* never chosen together.                                                  *)
LEMMA ChosenOutputs ==
  ASSUME NEW h
  PROVE  /\ Chosen(h) \subseteq h \cap DriveButtons
         /\ \A d \in Drives : ~({<<d, "pos">>, <<d, "neg">>} \subseteq Chosen(h))
<1>1. \A d \in Drives : <<d, "neg">> \in Chosen(h) => <<d, "pos">> \notin h
  BY DEF Chosen
<1> QED
  BY <1>1 DEF Chosen

-----------------------------------------------------------------------------
LEMMA ControlKeeps ==
  ASSUME TypeOK, ButtonsInv, NEW p \in SUBSET Buttons, Control(p)
  PROVE  /\ mode' \in {"manual", "other"}
         /\ last' \subseteq Buttons /\ held' \subseteq Buttons
         /\ age' = 0
         /\ on' \subseteq DriveButtons
         /\ enable' \in BOOLEAN
         /\ released' \subseteq Buttons
         /\ ButtonsInv'
         /\ EngineServesDrives'
<1>1. /\ held' \subseteq Tracked(p)
      /\ ~armed => held' \cap DriveButtons = {}
  BY Constants DEF Control, Kept
<1>2. last' = p /\ held' \subseteq p
  BY <1>1, TrackedPresses DEF Control, ButtonsInv
<1>3. on' = Chosen(held') /\ on' \subseteq held' \cap DriveButtons
  BY ChosenOutputs DEF Control, Switched
<1>4. released' \subseteq Buttons /\ Buttons \ p \subseteq released'
  BY DEF Control, TypeOK
<1>5. held' \cap DriveButtons \subseteq released'
  <2>1. CASE armed
    <3>1. released \subseteq released'
      BY <2>1 DEF Control
    <3>2. \A b \in held' \cap DriveButtons : b \in released
      BY <1>1, TrackedPresses, Constants DEF ButtonsInv
    <3> QED
      BY <3>1, <3>2
  <2>2. CASE ~armed
    BY <2>2, <1>1
  <2> QED
    BY <2>1, <2>2
<1>6. ButtonsInv'
  BY <1>2, <1>3, <1>4, <1>5 DEF ButtonsInv
<1>7. enable' = (\E b \in on' : b[1] \in EngineDrives)
  BY <1>3 DEF Control, Switched
<1>8. enable' \in BOOLEAN
  BY <1>7
<1>9. EngineServesDrives'
  BY <1>3, <1>7, ChosenOutputs DEF EngineServesDrives
<1>10. mode' \in {"manual", "other"}
  BY DEF Control, TypeOK
<1>11. age' = 0
  BY DEF Control
<1> QED
  BY <1>2, <1>3, <1>4, <1>6, <1>8, <1>9, <1>10, <1>11

LEMMA QuietKeeps ==
  ASSUME TypeOK, ButtonsInv, EngineServesDrives, age > Timeout => Stopped, Quiet
  PROVE  /\ UNCHANGED <<mode, last, held, released>>
         /\ age' \in 0 .. Timeout + 1
         /\ age' = (IF age < Timeout + 1 THEN age + 1 ELSE Timeout + 1)
         /\ on' \subseteq on
         /\ enable' \in BOOLEAN
         /\ ButtonsInv'
         /\ EngineServesDrives'
         /\ age' > Timeout => Stopped'
<1>1. UNCHANGED <<mode, last, held, released>>
  BY DEF Quiet
<1>2. /\ age' \in 0 .. Timeout + 1
      /\ age' = (IF age < Timeout + 1 THEN age + 1 ELSE Timeout + 1)
  BY Constants DEF Quiet, Later, TypeOK
<1>3. CASE TimedOut
  <2>1. on' = {} /\ enable' = FALSE
    BY <1>3 DEF Quiet
  <2> QED
    BY <1>1, <1>2, <2>1 DEF ButtonsInv, EngineServesDrives, Stopped
<1>4. CASE ~TimedOut
  <2>1. on' = on /\ (enable' <=> enable) /\ enable' \in BOOLEAN
    BY <1>4, Zenon DEF Quiet, TypeOK
  <2>2. ButtonsInv' /\ EngineServesDrives'
    BY <1>1, <2>1 DEF ButtonsInv, EngineServesDrives
  <2> QED
    BY <1>1, <1>2, <1>4, <2>1, <2>2 DEF TimedOut
<1> QED
  BY <1>3, <1>4

(* A place up in the queue pays for an update more of silence.             *)
LEMMA OnePlaceUp ==
  ASSUME NEW s \in Int, NEW t \in Int, NEW i \in Int, NEW d \in Int,
         s + (i + 1) <= d, t <= s + 1
  PROVE  t + i <= d
OBVIOUS

LEMMA SamePlace ==
  ASSUME NEW s \in Int, NEW t \in Int, NEW i \in Int, NEW d \in Int,
         s + i <= d, t <= s
  PROVE  t + i <= d
OBVIOUS

(* A message handled, or none: the buttons and outputs stay consistent.    *)
LEMMA UpdateKeeps ==
  ASSUME IInv, Update
  PROVE  IInv'
<1> USE DEF IInv
<1>1. /\ inbox' \in Seq(Messages) /\ Len(inbox') <= Depth
      /\ Len(inbox') = (IF inbox = <<>> THEN 0 ELSE Len(inbox) - 1)
      /\ \A i \in 1 .. Len(inbox') : i + 1 \in 1 .. Len(inbox) /\ inbox'[i] = inbox[i + 1]
  <2>1. CASE inbox = <<>>
    BY <2>1, Constants DEF Update, TypeOK
  <2>2. CASE inbox # <<>>
    BY <2>2, Constants DEF Update, TypeOK
  <2> QED
    BY <2>1, <2>2
<1>2. /\ silence' \in 0 .. Timeout + Depth + 1
      /\ silence' <= silence + 1
      /\ silence \in 0 .. Timeout + Depth + 1
  BY Constants DEF Update, Later, TypeOK
<1>3. armed' \in BOOLEAN
  BY Zenon DEF Update, TypeOK
<1>4. QueueInv'
  <2> SUFFICES ASSUME NEW i \in 1 .. Len(inbox'), inbox'[i] # HeartbeatMsg
               PROVE  silence' + i <= Depth
    BY DEF QueueInv, HeartbeatMsg
  <2>1. i + 1 \in 1 .. Len(inbox) /\ inbox[i + 1] # HeartbeatMsg
    BY <1>1
  <2>2. silence + (i + 1) <= Depth
    BY <2>1 DEF QueueInv
  <2>3. silence \in Int /\ silence' \in Int /\ silence' <= silence + 1 /\ i \in Int
    BY <1>2
  <2>4. Depth \in Int
    BY Constants
  <2> QED
    BY <2>2, <2>3, <2>4, OnePlaceUp
<1>5. CASE Quiet
  <2>1. /\ UNCHANGED <<mode, last, held, released>>
        /\ age' \in 0 .. Timeout + 1
        /\ age' = (IF age < Timeout + 1 THEN age + 1 ELSE Timeout + 1)
        /\ on' \subseteq on
        /\ enable' \in BOOLEAN
        /\ ButtonsInv'
        /\ EngineServesDrives'
        /\ age' > Timeout => Stopped'
    BY <1>5, QuietKeeps DEF TimerInv
  <2>2. TypeOK'
    BY <1>1, <1>2, <1>3, <2>1 DEF TypeOK
  <2>3. age' <= Timeout => silence' <= age' + Depth
    BY <1>2, <2>1, Constants DEF TimerInv, TypeOK
  <2> QED
    BY <1>4, <2>1, <2>2, <2>3 DEF TimerInv
<1>6. ASSUME inbox # <<>>, Head(inbox) # HeartbeatMsg, Control(Head(inbox).pressed)
      PROVE  IInv'
  <2>1. Head(inbox) \in Messages /\ 1 \in 1 .. Len(inbox) /\ Head(inbox) = inbox[1]
    BY <1>6 DEF TypeOK
  <2>2. Head(inbox).pressed \in SUBSET Buttons
    BY <1>6, <2>1, Constants
  <2>3. silence + 1 <= Depth
    BY <1>6, <2>1 DEF QueueInv
  <2>4. /\ mode' \in {"manual", "other"}
        /\ last' \subseteq Buttons /\ held' \subseteq Buttons
        /\ age' = 0
        /\ on' \subseteq DriveButtons
        /\ enable' \in BOOLEAN
        /\ released' \subseteq Buttons
        /\ ButtonsInv'
        /\ EngineServesDrives'
    BY <1>6, <2>2, ControlKeeps
  <2>5. TypeOK'
    BY <1>1, <1>2, <1>3, <2>4, Constants DEF TypeOK
  <2>6. TimerInv'
    BY <1>2, <2>3, <2>4, Constants DEF TimerInv
  <2> QED
    BY <1>4, <2>4, <2>5, <2>6
<1> QED
  BY <1>5, <1>6 DEF Update, Heartbeat

(* A message that comes in waits behind the others, and ends the silence.  *)
LEMMA ReceiveKeeps ==
  ASSUME IInv, NEW msg \in Messages, Receive(msg)
  PROVE  IInv'
<1> USE DEF IInv
<1>1. UNCHANGED <<armed, mode, last, held, age, on, enable, released>>
  BY DEF Receive, equipment
<1>2. /\ silence' \in 0 .. Timeout + Depth + 1
      /\ silence' <= silence
      /\ msg # HeartbeatMsg => silence' = 0
      /\ silence \in 0 .. Timeout + Depth + 1
  BY Constants DEF Receive, TypeOK
<1>3. /\ inbox' \in Seq(Messages) /\ Len(inbox') <= Depth
      /\ \A i \in 1 .. Len(inbox') :
           \/ i \in 1 .. Len(inbox) /\ inbox'[i] = inbox[i]
           \/ inbox'[i] = msg
  <2>1. CASE Len(inbox) < Depth
    BY <2>1, Constants DEF Receive, TypeOK
  <2>2. CASE ~(Len(inbox) < Depth)
    BY <2>2, Constants DEF Receive, TypeOK
  <2> QED
    BY <2>1, <2>2
<1>4. QueueInv'
  <2> SUFFICES ASSUME NEW i \in 1 .. Len(inbox'), inbox'[i] # HeartbeatMsg
               PROVE  silence' + i <= Depth
    BY DEF QueueInv, HeartbeatMsg
  <2>1. CASE i \in 1 .. Len(inbox) /\ inbox'[i] = inbox[i]
    <3>1. silence + i <= Depth
      BY <2>1 DEF QueueInv
    <3>2. silence \in Int /\ silence' \in Int /\ silence' <= silence /\ i \in Int
      BY <1>2
    <3>3. Depth \in Int
      BY Constants
    <3> QED
      BY <3>1, <3>2, <3>3, SamePlace
  <2>2. CASE inbox'[i] = msg
    BY <2>2, <1>2, <1>3, Constants
  <2> QED
    BY <1>3, <2>1, <2>2
<1>5. TypeOK'
  BY <1>1, <1>2, <1>3 DEF TypeOK
<1>6. ButtonsInv' /\ EngineServesDrives'
  BY <1>1 DEF ButtonsInv, EngineServesDrives
<1>7. TimerInv'
  BY <1>1, <1>2, Constants DEF TimerInv, Stopped, TypeOK
<1> QED
  BY <1>4, <1>5, <1>6, <1>7

LEMMA InitIInv == Init => IInv
<1> SUFFICES ASSUME Init PROVE IInv
  OBVIOUS
<1>1. TypeOK
  <2>1. armed \in BOOLEAN /\ enable \in BOOLEAN
    BY Zenon DEF Init
  <2>2. inbox \in Seq(Messages) /\ Len(inbox) <= Depth
    BY Constants DEF Init
  <2>3. age \in 0 .. Timeout + 1 /\ silence \in 0 .. Timeout + Depth + 1
    BY Constants DEF Init
  <2> QED
    BY <2>1, <2>2, <2>3 DEF Init, TypeOK
<1>2. ButtonsInv
  BY DEF Init, ButtonsInv
<1>3. QueueInv
  BY DEF Init, QueueInv
<1>4. TimerInv
  BY Constants DEF Init, TimerInv
<1>5. EngineServesDrives
  BY DEF Init, EngineServesDrives
<1> QED
  BY <1>1, <1>2, <1>3, <1>4, <1>5 DEF IInv

LEMMA NextKeepsIInv == IInv /\ [Next]_vars => IInv'
<1> SUFFICES ASSUME IInv, [Next]_vars PROVE IInv'
  OBVIOUS
<1>1. CASE Update
  BY <1>1, UpdateKeeps
<1>2. ASSUME NEW msg \in Messages, Receive(msg)
      PROVE  IInv'
  BY <1>2, ReceiveKeeps
<1>3. CASE Arming
  <2>1. UNCHANGED <<inbox, mode, last, held, age, on, enable, silence, released>>
    BY <1>3 DEF Arming, equipment
  <2>2. armed' \in BOOLEAN
    BY <1>3, Zenon DEF Arming
  <2> QED
    BY <2>1, <2>2 DEF IInv, TypeOK, ButtonsInv, QueueInv, TimerInv, EngineServesDrives, Stopped
<1>4. CASE ChangeMode
  BY <1>4 DEF ChangeMode, IInv, TypeOK, ButtonsInv, QueueInv, TimerInv, EngineServesDrives,
              Stopped
<1>5. CASE UNCHANGED vars
  BY <1>5 DEF vars, equipment, IInv, TypeOK, ButtonsInv, QueueInv, TimerInv,
              EngineServesDrives, Stopped
<1> QED
  BY <1>1, <1>2, <1>3, <1>4, <1>5 DEF Next

-----------------------------------------------------------------------------
(* The invariant holds in every reachable state of the script.             *)
THEOREM Invariance == Spec => []IInv
BY InitIInv, NextKeepsIInv, PTL DEF Spec

(* Every variable of the script has its type.                              *)
THEOREM TypeCorrect == Spec => []TypeOK
<1>1. IInv => TypeOK
  BY DEF IInv
<1> QED
  BY <1>1, Invariance, PTL

(* No output sticks: what is on, the latest message handled asks for.      *)
THEOREM NoOutputSticks == Spec => []OutputMeansPressed
<1>1. IInv => OutputMeansPressed
  BY DEF IInv, ButtonsInv, OutputMeansPressed
<1> QED
  BY <1>1, Invariance, PTL

(* After a disarm that was noticed nothing moves without a fresh press.    *)
THEOREM DisarmNeedsFreshPress == Spec => []FreshPressAfterDisarm
<1>1. IInv => FreshPressAfterDisarm
  BY DEF IInv, TypeOK, ButtonsInv, FreshPressAfterDisarm
<1> QED
  BY <1>1, Invariance, PTL

(* The engine runs for a hydraulic drive only, and none is driven both     *)
(* ways.                                                                   *)
THEOREM EngineCorrect == Spec => []EngineServesDrives
<1>1. IInv => EngineServesDrives
  BY DEF IInv
<1> QED
  BY <1>1, Invariance, PTL

(* A silence longer than the timeout and the queue turns all outputs off.  *)
THEOREM SilenceIsSafe == Spec => []SilenceStops
<1>1. ASSUME IInv PROVE SilenceStops
  <2>1. age \in 0 .. Timeout + 1 /\ silence \in Nat
    BY <1>1, Constants DEF IInv, TypeOK
  <2>2. CASE age <= Timeout
    BY <1>1, <2>1, <2>2, Constants DEF IInv, TimerInv, SilenceStops
  <2>3. CASE age > Timeout
    BY <1>1, <2>3 DEF IInv, TimerInv, SilenceStops
  <2> QED
    BY <2>1, <2>2, <2>3, Constants
<1> QED
  BY <1>1, Invariance, PTL
=============================================================================
