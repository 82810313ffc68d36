------------------------------ MODULE DriveBus ------------------------------
(***************************************************************************)
(* The two track drives on the CAN bus: the SET_RPM commands of the daemon *)
(* (VescSocketCan::set_erpm, one frame per side into a bounded transmit    *)
(* queue), the VESC controllers with their application timeout, the STATUS *)
(* stream back and VescSocketCan::poll, the MotorStopGuard of a clean exit *)
(* and the service manager's restart.                                      *)
(*                                                                         *)
(* Time runs in control periods of two phases: the daemon runs, then the   *)
(* bus does.  A bus period is clear (the queue is emptied) or jammed.  The *)
(* VESC firmware and the bus are external, modelled from how the code and  *)
(* its deployment files use them.  Op_Fault names a faulty variant of Op.  *)
(***************************************************************************)
EXTENDS Integers, Sequences

CONSTANTS
  TxCapacity,     \* frames the transmit queue of can0 holds
  VescTimeout,    \* app timeout of the VESCs, in periods
  StatusStale,    \* kStatusStaleS, in periods
  GuardTries,     \* zero commands sent by MotorStopGuard: 10
  RestartDelay,   \* RestartSec of vehicle.service, in periods
  MaxJam,         \* bound: consecutive jammed periods
  MaxStall        \* bound: consecutive periods the daemon overruns

ASSUME BusAssumption ==
  /\ TxCapacity \in Nat \ {0, 1}
  /\ {VescTimeout, StatusStale, MaxJam, MaxStall} \subseteq Nat
  /\ GuardTries \in Nat \ {0} /\ RestartDelay \in Nat \ {0}

(* What the deployment sees to: can0.service ends a bus-off after 100 ms,  *)
(* less than the guard's ten tries of 20 ms; RestartSec is longer than     *)
(* that and the VESCs' timeout together.                                   *)
ASSUME DeploymentAssumption ==
  /\ MaxJam < GuardTries
  /\ MaxJam + VescTimeout < RestartDelay

Sides == {"left", "right"}
Speeds == {0, 1}            \* standing, moving
Frame == [side : Sides, erpm : Speeds]
Quiet == -1                 \* no status frame waits in the socket

VARIABLES
  phase,      \* whose half of the period it is: "cpu" or "bus"
  daemon,     \* "up", "stopping" (in MotorStopGuard) or "down"
  tries,      \* zero commands MotorStopGuard has left
  downFor,    \* periods since the daemon died
  stall,      \* consecutive periods without an iteration
  txq,        \* the transmit queue
  jam,        \* consecutive jammed periods
  motor,      \* what each VESC drives its track with
  silence,    \* periods since each VESC had a command
  socket,     \* newest unread status of each side, or Quiet
  latest,     \* latest_.erpm_left, latest_.erpm_right
  age,        \* latest_.age_left_s, latest_.age_right_s
  restFor,    \* history: periods since each track last moved
  calmFor     \* history: undisturbed periods in a row (an iteration and a
              \* clear bus), counted up to two

vars == <<phase, daemon, tries, downFor, stall, txq, jam, motor, silence, socket,
          latest, age, restFor, calmFor>>
daemonVars == <<daemon, tries, downFor, stall>>
vescVars == <<motor, silence>>
statusVars == <<latest, age>>

RestMax == StatusStale + MaxStall + 2

TypeOK ==
  /\ phase \in {"cpu", "bus"}
  /\ daemon \in {"up", "stopping", "down"}
  /\ tries \in 0 .. GuardTries
  /\ downFor \in 0 .. RestartDelay
  /\ stall \in 0 .. MaxStall
  /\ txq \in Seq(Frame) /\ Len(txq) <= TxCapacity
  /\ jam \in 0 .. MaxJam
  /\ motor \in [Sides -> Speeds]
  /\ silence \in [Sides -> 0 .. VescTimeout + 1]
  /\ socket \in [Sides -> Speeds \cup {Quiet}]
  /\ latest \in [Sides -> Speeds]
  /\ age \in [Sides -> 0 .. StatusStale + 1]
  /\ restFor \in [Sides -> 0 .. RestMax]
  /\ calmFor \in 0 .. 2

Each(v) == [s \in Sides |-> v]
Capped(n, top) == IF n < top THEN n ELSE top

Init ==
  /\ phase = "cpu"
  /\ daemon = "down"
  /\ tries = 0 /\ downFor = RestartDelay /\ stall = 0
  /\ txq = <<>>
  /\ jam = 0
  /\ motor = Each(0)
  /\ silence = Each(VescTimeout + 1)
  /\ socket = Each(Quiet)
  /\ latest = Each(0)
  /\ age = Each(StatusStale + 1)
  /\ restFor = Each(RestMax)
  /\ calmFor = 0

-----------------------------------------------------------------------------
(* The daemon's half of a period.                                          *)

(* send_set_rpm: a frame that finds the queue full is dropped. *)
Queued(q, f) == IF Len(q) < TxCapacity THEN Append(q, f) ELSE q

SetErpm_LeftOnly(erpm) == txq' = Queued(txq, [side |-> "left", erpm |-> erpm])

(* set_erpm: left, then right, each dropped or queued on its own.  One     *)
(* value stands for the twist that both sides' speeds were computed from.  *)
SetErpm(erpm) ==
  txq' = Queued(Queued(txq, [side |-> "left", erpm |-> erpm]),
                [side |-> "right", erpm |-> erpm])

(* poll: the newest status of a side sets its reading and its age. *)
Poll(periods) ==
  /\ latest' = [s \in Sides |-> IF socket[s] = Quiet THEN latest[s] ELSE socket[s]]
  /\ age' = [s \in Sides |->
       IF socket[s] = Quiet THEN Capped(age[s] + periods, StatusStale + 1) ELSE 0]
  /\ socket' = Each(Quiet)

Reported_Raw(s) == latest[s]

(* The ERPM poll hands out: a side gone quiet reports zero. *)
Reported(s) == IF age[s] > StatusStale THEN 0 ELSE latest[s]

EndCpu ==
  /\ phase' = "bus"
  /\ UNCHANGED <<jam, vescVars, restFor, calmFor>>

Iterate ==
  /\ daemon = "up" /\ phase = "cpu"
  /\ Poll(stall + 1)
  /\ \E erpm \in Speeds : SetErpm(erpm)
  /\ stall' = 0
  /\ EndCpu
  /\ UNCHANGED <<daemon, tries, downFor>>

Overrun ==
  /\ daemon = "up" /\ phase = "cpu"
  /\ stall < MaxStall
  /\ stall' = stall + 1
  /\ EndCpu
  /\ UNCHANGED <<daemon, tries, downFor, txq, socket, statusVars>>

(* A signal or an exception: the guard sends zero once a period. *)
Stop ==
  /\ daemon = "up" /\ phase = "cpu"
  /\ daemon' = "stopping"
  /\ tries' = GuardTries
  /\ stall' = 0
  /\ UNCHANGED <<phase, downFor, txq, jam, vescVars, socket, statusVars,
                 restFor, calmFor>>

Guard_Once ==
  /\ daemon = "stopping" /\ phase = "cpu" /\ tries > 0
  /\ tries' = 0
  /\ SetErpm(0)
  /\ EndCpu
  /\ UNCHANGED <<daemon, downFor, stall, socket, statusVars>>

Guard_NoCount ==
  /\ daemon = "stopping" /\ phase = "cpu" /\ tries > 0
  /\ SetErpm(0)
  /\ EndCpu
  /\ UNCHANGED <<daemonVars, socket, statusVars>>

Guard ==
  /\ daemon = "stopping" /\ phase = "cpu" /\ tries > 0
  /\ tries' = tries - 1
  /\ SetErpm(0)
  /\ EndCpu
  /\ UNCHANGED <<daemon, downFor, stall, socket, statusVars>>

(* The process ends, after its guard or by a kill; its socket closes, but  *)
(* what it queued stays queued.                                            *)
Die ==
  /\ daemon # "down" /\ phase = "cpu"
  /\ daemon' = "down"
  /\ tries' = 0 /\ downFor' = 0 /\ stall' = 0
  /\ socket' = Each(Quiet)
  /\ UNCHANGED <<phase, txq, jam, vescVars, statusVars, restFor, calmFor>>

Wait ==
  /\ daemon = "down" /\ phase = "cpu"
  /\ downFor' = Capped(downFor + 1, RestartDelay)
  /\ EndCpu
  /\ UNCHANGED <<daemon, tries, stall, txq, socket, statusVars>>

MayStart_AtOnce == TRUE

(* RestartSec=2 of vehicle.service is over. *)
MayStart == downFor = RestartDelay

(* Restart=always: a new process, with fresh drivers. *)
Restart ==
  /\ daemon = "down" /\ phase = "cpu"
  /\ MayStart
  /\ daemon' = "up"
  /\ downFor' = 0
  /\ latest' = Each(0)
  /\ age' = Each(StatusStale + 1)
  /\ UNCHANGED <<phase, tries, stall, txq, jam, vescVars, socket, restFor, calmFor>>

-----------------------------------------------------------------------------
(* The bus' half of a period.                                              *)

Heard(s) == \E i \in 1 .. Len(txq) : txq[i].side = s

(* The last command sent to side s in this period. *)
LastTo(s, erpm) ==
  \E i \in 1 .. Len(txq) :
    /\ txq[i] = [side |-> s, erpm |-> erpm]
    /\ \A k \in i + 1 .. Len(txq) : txq[k].side # s

(* A silence longer than the timeout stops the track. *)
Silent(s) == Capped(silence[s] + 1, VescTimeout + 1)
TimedOut(s) == IF Silent(s) > VescTimeout THEN 0 ELSE motor[s]

(* The VESCs take the last command of the period, or time out. *)
Obeyed ==
  /\ silence' = [s \in Sides |-> IF Heard(s) THEN 0 ELSE Silent(s)]
  /\ motor' \in [Sides -> Speeds]
  /\ \A s \in Sides :
       IF Heard(s) THEN LastTo(s, motor'[s]) ELSE motor'[s] = TimedOut(s)

NobodyHeard ==
  /\ silence' = [s \in Sides |-> Silent(s)]
  /\ motor' = [s \in Sides |-> TimedOut(s)]

(* Each VESC may get a status through to a listening daemon. *)
Report ==
  \E heard \in SUBSET Sides :
    /\ daemon # "up" => heard = {}
    /\ socket' = [s \in Sides |-> IF s \in heard THEN motor'[s] ELSE socket[s]]

EndBus ==
  /\ phase' = "cpu"
  /\ restFor' = [s \in Sides |->
       IF motor'[s] # 0 THEN 0 ELSE Capped(restFor[s] + 1, RestMax)]
  /\ UNCHANGED <<daemonVars, statusVars>>

Clear ==
  /\ phase = "bus"
  /\ Obeyed
  /\ txq' = <<>>
  /\ jam' = 0
  /\ calmFor' = IF daemon = "up" /\ stall = 0 THEN Capped(calmFor + 1, 2) ELSE 0
  /\ Report
  /\ EndBus

Jammed ==
  /\ phase = "bus"
  /\ jam < MaxJam
  /\ jam' = jam + 1
  /\ NobodyHeard
  /\ calmFor' = 0
  /\ UNCHANGED <<txq, socket>>
  /\ EndBus

Next ==
  \/ Iterate \/ Overrun \/ Stop \/ Guard \/ Die \/ Wait \/ Restart
  \/ Clear \/ Jammed

Spec == Init /\ [][Next]_vars

-----------------------------------------------------------------------------
(* Dead reckoning is never fed motion that is over: an iteration is handed *)
(* an ERPM other than zero only for a track that moved within the          *)
(* staleness window and the longest overrun, however statuses were lost.   *)
NoPhantomMotion ==
  daemon = "up" /\ phase = "bus" /\ stall = 0 =>
    \A s \in Sides : Reported(s) # 0 => restFor[s] <= StatusStale + MaxStall

(* A restarted daemon finds the tracks at rest, as its calibration needs.  *)
StillAtRestart ==
  [][daemon = "down" /\ daemon' = "up" => motor = Each(0) /\ txq = <<>>]_vars

(* A clean exit stops both tracks without the help of the VESCs' timeout:  *)
(* when the guard is through, a track stands or the last command queued    *)
(* for it is zero.                                                         *)
GuardStopsTracks ==
  daemon = "stopping" /\ tries = 0 /\ phase = "cpu" =>
    \A s \in Sides : IF Heard(s) THEN LastTo(s, 0) ELSE motor[s] = 0

(* A command dropped for one side only is made good by the next one: two   *)
(* undisturbed periods bring the tracks together.                          *)
TracksRejoin == calmFor = 2 => motor["left"] = motor["right"]
=============================================================================
