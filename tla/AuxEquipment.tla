---------------------------- MODULE AuxEquipment ----------------------------
(***************************************************************************)
(* The autopilot script tst.lua: buttons of MANUAL_CONTROL messages switch *)
(* the outputs of hydraulic drives and a winch, two outputs for each, and  *)
(* the enable output of the engine.                                        *)
(*                                                                         *)
(* update() runs every 20 ms and takes one message from the queue.  A      *)
(* message is a heartbeat or carries the set of buttons pressed; what a    *)
(* button does is decided by the changes between messages.                 *)
(* Op_Fault names a faulty variant of Op.                                  *)
(***************************************************************************)
EXTENDS Integers, Sequences

CONSTANTS
  EngineDrives,   \* drives that need the engine: VRT, HOR, HNG, HOK
  Winches,        \* drives of their own: WIN
  Timeout,        \* timeout_ms in updates: 100
  Depth,          \* depth of the receive queue: 10
  Presses         \* bound: sets of buttons pressed together

Drives == EngineDrives \cup Winches
DriveButtons == Drives \X {"pos", "neg"}
ModeButton == <<"mode", "pos">>   \* buttons_state[0]
Buttons == DriveButtons \cup {ModeButton}

HeartbeatMsg == [kind |-> "heartbeat", pressed |-> {}]
Messages == {HeartbeatMsg} \cup [kind : {"control"}, pressed : Presses]

ASSUME DrivesAssumption == EngineDrives \cap Winches = {} /\ "mode" \notin Drives
ASSUME TimesAssumption == Timeout \in Nat /\ Depth \in Nat \ {0}
ASSUME PressesAssumption == Presses \subseteq SUBSET Buttons

VARIABLES
  inbox,      \* received messages, oldest first
  armed,      \* arming:is_armed()
  mode,       \* "manual" or "other"
  last,       \* last_r_axis, last_buttons
  held,       \* buttons_state
  age,        \* updates since last_hb_time
  on,         \* drive outputs at 2000
  enable,     \* EN output at 2000
  silence,    \* history: updates since a MANUAL_CONTROL came in
  released    \* history: buttons seen released since the last message that
              \* was handled disarmed

equipment == <<mode, last, held, age, on, enable, released>>
vars == <<inbox, armed, equipment, silence>>

TypeOK ==
  /\ inbox \in Seq(Messages) /\ Len(inbox) <= Depth
  /\ armed \in BOOLEAN
  /\ mode \in {"manual", "other"}
  /\ last \subseteq Buttons /\ held \subseteq Buttons
  /\ age \in 0 .. Timeout + 1
  /\ on \subseteq DriveButtons
  /\ enable \in BOOLEAN
  /\ silence \in 0 .. Timeout + Depth + 1
  /\ released \subseteq Buttons

Init ==
  /\ inbox = <<>>
  /\ armed \in BOOLEAN
  /\ mode \in {"manual", "other"}
  /\ last = {} /\ held = {}
  /\ age = 0
  /\ on = {} /\ enable = FALSE
  /\ silence = 0
  /\ released = Buttons

-----------------------------------------------------------------------------
Later(n, most) == IF n < most THEN n + 1 ELSE most

(* Buttons whose bit changed take its new value. *)
Changed(p) == (p \ last) \cup (last \ p)
Tracked(p) == (held \ Changed(p)) \cup (p \cap Changed(p))

(* A message handled while disarmed clears every button but the first:     *)
(* ipairs starts at 1.                                                     *)
Kept(h) == IF armed THEN h ELSE h \cap {ModeButton}

(* The positive output wins over the negative one. *)
Chosen(h) ==
  {b \in h \cap DriveButtons : b[2] = "pos" \/ <<b[1], "pos">> \notin h}

Switched(h) ==
  /\ on' = Chosen(h)
  /\ enable' = (\E b \in Chosen(h) : b[1] \in EngineDrives)

Control_LastStays(p) ==
  /\ held' = Kept(Tracked(p))
  /\ mode' = IF ModeButton \in Tracked(p) THEN "manual" ELSE mode
  /\ age' = 0
  /\ Switched(held')
  /\ released' = (IF armed THEN released ELSE {}) \cup (Buttons \ p)
  /\ UNCHANGED last

Control_ForgetsLast(p) ==
  /\ held' = Kept(Tracked(p))
  /\ last' = IF armed THEN p ELSE {}
  /\ mode' = IF ModeButton \in Tracked(p) THEN "manual" ELSE mode
  /\ age' = 0
  /\ Switched(held')
  /\ released' = (IF armed THEN released ELSE {}) \cup (Buttons \ p)

(* A MANUAL_CONTROL message. *)
Control(p) ==
  /\ held' = Kept(Tracked(p))
  /\ last' = p
  /\ mode' = IF ModeButton \in Tracked(p) THEN "manual" ELSE mode
  /\ age' = 0
  /\ Switched(held')
  /\ released' = (IF armed THEN released ELSE {}) \cup (Buttons \ p)

TimedOut == age' > Timeout

Quiet_EngineStays ==
  /\ age' = Later(age, Timeout + 1)
  /\ on' = IF TimedOut THEN {} ELSE on
  /\ UNCHANGED <<mode, last, held, enable, released>>

(* No MANUAL_CONTROL in this update: after a while the outputs go off, and *)
(* the buttons stay as they are.                                           *)
Quiet ==
  /\ age' = Later(age, Timeout + 1)
  /\ on' = IF TimedOut THEN {} ELSE on
  /\ enable' = (enable /\ ~TimedOut)
  /\ UNCHANGED <<mode, last, held, released>>

Heartbeat_Refreshes == age' = 0 /\ UNCHANGED <<mode, last, held, on, enable, released>>

Heartbeat == Quiet

Update ==
  /\ \/ inbox = <<>> /\ Quiet
     \/ inbox # <<>> /\ Head(inbox) = HeartbeatMsg /\ Heartbeat
     \/ inbox # <<>> /\ Head(inbox) # HeartbeatMsg /\ Control(Head(inbox).pressed)
  /\ inbox' = IF inbox = <<>> THEN inbox ELSE Tail(inbox)
  /\ silence' = Later(silence, Timeout + Depth + 1)
  /\ UNCHANGED armed

-----------------------------------------------------------------------------
(* The operator and the autopilot; a full queue drops the newest message.  *)
Receive(msg) ==
  /\ inbox' = IF Len(inbox) < Depth THEN Append(inbox, msg) ELSE inbox
  /\ silence' = IF msg = HeartbeatMsg THEN silence ELSE 0
  /\ UNCHANGED <<armed, equipment>>

Arming == armed' = ~armed /\ UNCHANGED <<inbox, equipment, silence>>

ChangeMode ==
  /\ mode' \in {"manual", "other"} \ {mode}
  /\ UNCHANGED <<inbox, armed, last, held, age, on, enable, silence, released>>

Next ==
  \/ Update
  \/ \E msg \in Messages : Receive(msg)
  \/ Arming
  \/ ChangeMode

Spec == Init /\ [][Next]_vars

-----------------------------------------------------------------------------
(* update() never leaves an output on that the latest message it handled   *)
(* does not ask for, although it only looks at changes and forgets buttons *)
(* while disarmed: no output sticks.                                       *)
OutputMeansPressed == on \subseteq last

(* update() demands a fresh press after a disarm it has noticed: a button  *)
(* held across it must be seen released before it moves anything again.    *)
FreshPressAfterDisarm == on \subseteq released

(* update() runs the engine for a hydraulic drive and for nothing else,    *)
(* also after a timeout, and drives no actuator both ways.                 *)
EngineServesDrives ==
  /\ enable <=> \E b \in on : b[1] \in EngineDrives
  /\ \A d \in Drives : ~({<<d, "pos">>, <<d, "neg">>} \subseteq on)

(* update()'s timeout: silence turns all outputs off, whatever was waiting *)
(* in the queue and however many heartbeats still come.                    *)
Stopped == on = {} /\ ~enable
SilenceStops == silence > Timeout + Depth => Stopped
=============================================================================
