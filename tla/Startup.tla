------------------------------ MODULE Startup ------------------------------
(***************************************************************************)
(* How run_vehicle comes up: it opens the IMU, the CAN socket, the serial  *)
(* line and the blackbox, each in several calls that can fail, and exits   *)
(* at the first failure; the service manager starts it again.  The IMU     *)
(* keeps its registers from one process to the next.  DriveBus runs on     *)
(* meanwhile, and its Restart is the arming at the end of a good start.    *)
(***************************************************************************)
EXTENDS DriveBus

CONSTANT MaxFaults     \* bound: failed starts between two good ones

ASSUME StartupAssumption == MaxFaults \in Nat

(* The calls of a start, in their order. *)
Opening_FlushFirst ==
  <<"open imu", "address", "reset", "clock", "who", "rate", "gyro filter",
    "gyro range", "accel range", "accel filter", "socket", "interface",
    "filter", "bind", "nonblock", "open uart", "flush", "raw", "blackbox">>

Opening ==
  <<"open imu", "address", "reset", "clock", "who", "rate", "gyro filter",
    "gyro range", "accel range", "accel filter", "socket", "interface",
    "filter", "bind", "nonblock", "open uart", "raw", "flush", "blackbox">>

Calls == {Opening[i] : i \in 1 .. Len(Opening)}
Registers ==
  {"clock", "rate", "gyro filter", "gyro range", "accel range", "accel filter"}
Transfers == Registers \cup {"reset", "who"}      \* on the I2C bus, tried twice

VARIABLES
  at,        \* calls done of the start under way
  again,     \* the next call failed once and is tried again
  chip,      \* registers of the IMU that hold what init writes
  noise,     \* bytes received at another baud rate wait in the UART
  strays,    \* frames of other streams wait in the CAN socket
  faults     \* history: failed starts since the last good one

startVars == <<at, again, chip, noise, strays, faults>>
allVars == <<vars, startVars>>

StartTypeOK ==
  /\ TypeOK
  /\ at \in 0 .. Len(Opening)
  /\ again \in BOOLEAN
  /\ chip \in SUBSET Registers
  /\ noise \in BOOLEAN /\ strays \in BOOLEAN
  /\ faults \in 0 .. MaxFaults

StartInit ==
  /\ Init
  /\ at = 0
  /\ again = FALSE
  /\ chip \in {{}, Registers}      \* powered up, or left by an earlier process
  /\ noise = FALSE /\ strays = FALSE
  /\ faults = 0

-----------------------------------------------------------------------------
Starting == daemon = "down" /\ phase = "cpu" /\ MayStart

Past(call) == \E i \in 1 .. at : Opening[i] = call

Written(call) ==
  IF call = "reset" THEN {}
  ELSE IF call \in Registers THEN chip \cup {call}
  ELSE chip

Succeed ==
  /\ Starting /\ at < Len(Opening)
  /\ at' = at + 1
  /\ again' = FALSE
  /\ chip' = Written(Opening[at + 1])
  /\ noise' = (noise /\ Opening[at + 1] # "flush")
  /\ UNCHANGED <<vars, strays, faults>>

(* What arrives while the devices are half open. *)
Arrive ==
  /\ Starting
  /\ noise' = (noise \/ (Past("open uart") /\ ~Past("raw")))
  /\ strays' = (strays \/ (Past("bind") /\ ~Past("filter")))
  /\ UNCHANGED <<vars, at, again, chip, faults>>

Fails(call) ==
  Starting /\ at < Len(Opening) /\ Opening[at + 1] = call

(* with_retry: a transfer that failed, perhaps after it took effect. *)
Retry ==
  /\ ~again
  /\ \E call \in Transfers : Fails(call) /\ chip' \in {chip, Written(call)}
  /\ again' = TRUE
  /\ UNCHANGED <<vars, at, noise, strays, faults>>

(* The start is over; the process closes what it opened. *)
Closed ==
  /\ at' = 0 /\ again' = FALSE /\ noise' = FALSE /\ strays' = FALSE
  /\ faults < MaxFaults
  /\ faults' = faults + 1

(* A call failed: the start returns 1 without a command to the tracks.     *)
Refuse ==
  /\ \E call \in Calls \ {"flush", "blackbox"} :
       /\ Fails(call)
       /\ call \in Transfers => again
       /\ chip' \in {chip, Written(call)}
  /\ Closed
  /\ downFor' = 0
  /\ UNCHANGED <<phase, daemon, tries, stall, txq, jam, vescVars, socket,
                 statusVars, restFor, calmFor>>

(* The blackbox does not open: MotorStopGuard exists by then.              *)
RefuseGuarded ==
  /\ Fails("blackbox")
  /\ Closed
  /\ daemon' = "stopping"
  /\ tries' = GuardTries
  /\ UNCHANGED <<phase, downFor, stall, txq, jam, vescVars, socket, statusVars,
                 restFor, calmFor, chip>>

Arm ==
  /\ at = Len(Opening)
  /\ Restart
  /\ at' = 0
  /\ faults' = 0
  /\ UNCHANGED <<again, chip, noise, strays>>

(* A process killed in the middle of its start. *)
Killed ==
  /\ Starting /\ at > 0
  /\ Closed
  /\ downFor' = 0
  /\ UNCHANGED <<phase, daemon, tries, stall, txq, jam, vescVars, socket,
                 statusVars, restFor, calmFor, chip>>

Runs ==
  /\ Iterate \/ Overrun \/ Stop \/ Guard \/ Die \/ Wait \/ Clear \/ Jammed
  /\ UNCHANGED startVars

Begin == Succeed \/ Arm

StartNext ==
  \/ Succeed \/ Arrive \/ Retry \/ Refuse \/ RefuseGuarded \/ Arm \/ Killed
  \/ Runs

(* Time passes; a start is scheduled and does not fail for ever (SF: each *)
(* period of the bus interrupts it).                                      *)
StartSpec ==
  /\ StartInit
  /\ [][StartNext]_allVars
  /\ SF_allVars(Begin)
  /\ WF_allVars((Wait \/ Clear \/ Jammed \/ Guard) /\ UNCHANGED startVars)
  /\ WF_allVars(daemon = "stopping" /\ tries = 0 /\ Die /\ UNCHANGED startVars)

-----------------------------------------------------------------------------
(* A process that commands the tracks has its sensors set up: every        *)
(* register of the IMU written since its last reset, no bytes of a wrong   *)
(* baud rate and no foreign frames in the buffers, whatever half-done      *)
(* starts came before.                                                     *)
ArmsReady ==
  daemon # "down" => chip = Registers /\ ~noise /\ ~strays

(* Restart=always: a daemon that is down comes up again, through starts    *)
(* that failed or were killed anywhere, and through the guard of one that  *)
(* failed late.                                                            *)
ComesUp == daemon = "down" ~> daemon = "up"
=============================================================================
