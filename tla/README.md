# TLA+ model of the link-loss backtrack vehicle

The repository holds the software of a tracked vehicle that is driven over a
radio link. While the link is up it relays the operator's commands and records
a breadcrumb trail; when the link is lost it drives back along the trail. This
directory models the parts of it that decide *whether, for whom and where to
the tracks move*, checks them with TLC and proves the central results with
TLAPS.

`PROJECT.json` maps every definition to the lines it stands for.

## 1. Inventory

Paths are under `src/backtrack_cpp/`.

| Part | State | Operations | Talks to | What is hard about it | What makes it correct |
|---|---|---|---|---|---|
| Vehicle loop, `apps/run_vehicle.cpp` | `VehicleState`, controller pointer, halt and calibration bookkeeping | one 50 Hz iteration; exit through `MotorStopGuard` | polls the three drivers below, commands the drive | five inputs fail independently and in any order; early returns; overruns; crash and restart | tracks move only for the operator over a live link or for the controller on fresh sensors; never under E-STOP; every state finds its way back to MANUAL |
| Operator input, `run_vehicle.cpp:433-455`, `hal/link_supervisor.hpp` | link timer, last number, E-STOP latch | one use of the newest frame per iteration | fed by `Rs485Link::poll` | duplicates, bursts, wrap of an 8-bit number, latch across link loss | only new frames count as life; E-STOP latches and clears on ten drive frames |
| IMU health, `run_vehicle.cpp:394-420` | streaks, outage timer, `estimate_valid` | one per IMU read | fed by `Mpu9250` | flapping, hysteresis, one-way loss of trust | a long outage costs the pose its trust for good |
| Command path, `apps/op_console.cpp`, `hal/rs485_link.cpp` | console number; radio and UART queues | send loop; drain of the buffer | console to loop, by frames | loss, repeats, queues sent twice, bursts, console restarts | silence is noticed, an E-STOP gets through, the frame sent last never counts as life again |
| Start of the daemon, `run_vehicle.cpp:280-345`, `hal/mpu9250_i2c.cpp`, `hal/*.cpp`, `deploy/vehicle.service` | registers of the IMU, buffers of UART and socket, calls done | 19 calls in order, each of which may fail | service manager, I2C chip, kernel | half-done starts leave their marks; frames arrive between two calls; failed transfers that took effect | whoever arms has all set up; a start that fails is followed by another |
| Drive bus, `hal/vesc_socketcan.cpp`, `deploy/*.service` | transmit queue, newest status, its age | `set_erpm`, `poll`, `MotorStopGuard`, restart | SET_RPM to the VESCs, STATUS back | queue full, jam, stale status, process death | clean exit stops both tracks, a restart finds them at rest |
| Frame codec, `hal/frame_codec.cpp` | 12-byte parse buffer | `push` per byte; encoders and decoders | used by `Rs485Link`, `VescSocketCan` | resynchronisation after corruption; widths and signs | a good frame after garbage is found, a bad one never; what is written is read |
| Dead reckoning, `src/estimator.cpp` | pose, distance, trail | `update` per good IMU read | trail and pose to the loop | skipped updates (drive, turn or both), growing trail | a trail without gaps that grows with the distance; an error no larger than what was missed |
| Pure pursuit, `src/controller.cpp` | path, index | `compute` | path from the trail | forward-only scan that gives up early, a look-ahead point behind the vehicle, trails that cross themselves or double back | never loses its aim nor takes it back, arrives where the trail began |
| Simulation, `src/simulation.cpp` | phase, halts, budget, summary | one drive step | shared estimator and controller | halts by distance, a budget, two ways to end | ends, and reports the end truly |
| DroneCAN odometry, `hal/dronecan_esc.cpp`; sniffer, `apps/can_sniff.cpp` | one partial transfer (per node and type), readings | feed one CAN frame | listen only | lost, repeated and interleaved frames of several nodes | what is handed over is one whole transfer of the right node |
| Observer, `apps/run_observe.cpp` | RECORD / BACKTRACK / ARRIVED, two signal flags, trail | one iteration; two signals | odometry | signals at any point of an iteration | obeys a signal, whenever in an iteration it comes; its readings are its own node's |
| Auxiliary equipment, `pixhawk-6c-pro/.../tst.lua` | last buttons, buttons in effect, outputs | one update every 20 ms | MAVLink in, servos out; a program of its own on the autopilot | disarm, silence, queued messages, held buttons | no output sticks or resumes without a fresh press, silence turns all off |
| Sensor model, routes, demo front end, Python demo | numeric | batch | - | nothing concurrent | real-valued results |
| Kinematics, geometry, logging, record files, deployment scripts, RC mode script, MAVLink codec | - | - | - | - | - |

The loop is one thread. What interleaves is its environment: frames and
statuses arrive between any two iterations, reads fail, the process dies, the
bus jams. There are no locks and no callbacks in the control path; the signal
handlers set atomic flags, which the vehicle loop reads once per iteration and
the observer in two places of it.

## 2. Modules

| Module | Models | Role |
|---|---|---|
| `OperatorInput` | duplicate rejection, `LinkSupervisor`, E-STOP latch | component, no `Next` of its own |
| `ImuHealth` | streaks, hysteresis, outage, trust | component, no `Next` of its own |
| `VehicleLoop` | the whole of `run_vehicle`'s loop, exit, crash, restart | composes the two above |
| `Authority` | abstract promise: who holds the tracks | implemented by `VehicleLoop` |
| `OperatorLink` | console, modem, UART, drain, loop's input | composes `OperatorInput` with its environment |
| `DriveBus` | SET_RPM and STATUS, queue, VESC timeout, guard, restart | component with its environment |
| `Startup` | the calls of a start, the IMU's registers, retries, failed starts | composes the start with `DriveBus` |
| `FrameParser` | `OperatorFrameParser::push`, byte by byte | component with the line that feeds it |
| `Codec` | every encoder and decoder of `frame_codec.cpp`, the signed DroneCAN fields | pure operators |
| `Trail` | `DeadReckoning` and `BacktrackController` on a grid with headings | two components, no `Next` of their own |
| `Retrace` | where `run_vehicle` drives: out, back along the trail, out again | composes `Trail` with the loop's decisions |
| `Vehicle` | the loop of `VehicleLoop` with the estimator and controller of `Trail` in it | composes the two with the tracks; implements `VehicleLoop` and `Retrace` |
| `Simulation` | `run_simulation`, with slip and noise | composes `Trail` with the simulation; runs either program |
| `Reassembly` | `feed_frame` and the same steps in `DroneCanEsc::poll` | pure operators on a transfer |
| `Telemetry` | several nodes on one bus, the sniffer, the DroneCAN odometry | composes `Reassembly` with its environment |
| `Observe` | the state machine of `run_observe`, its signals, its trail's growth | composes the observer with `Telemetry` |
| `AuxEquipment` | `update()` of `tst.lua` | component with queue, operator and autopilot |
| `...Proofs` (eight modules) | theorems on these modules | TLAPS |
| `MC...` | the instance TLC checks (sets of values) | |

An operator named `Op_Fault` (`Relay_Stale`, `Guard_Once`, ...) is a faulty
variant of `Op` with a bug the code could plausibly have. No specification uses
it; putting it in the place of `Op` must break the property it is listed with
in `PROJECT.json`, which shows that the property depends on that code.

### State and actions of `VehicleLoop`

One action, `Tick`, is one iteration: `Iterate` is `Sense` (IMU read, drive
poll, operator poll in the order of the code), then the estimator's effect
(`Trail`), then one branch of the `switch`: `Calibrate`, `Await` (IDLE and
ARRIVED, which differ only in their log line), `Manual` with one disjunct per
exit of its `if` chain, `Backtrack` likewise. Each branch ends in `Send`, the
gates of `run_vehicle.cpp:597-625` in front of `set_erpm`.

* Time is counted in periods of 20 ms. Ages and deadlines are kept as periods
  elapsed or left and saturate where the code stops telling them apart. `step`
  is the number of periods since the last iteration, more than one when the
  loop overran.
* The drive poll is abstracted to `drive_ok`, nondeterministic; `DriveBus` has
  the details.
* The pose is abstracted to what the loop decides from: two or more trail
  points (`crumbs`), distance to the next halt (`toStop`), and the controller's
  answer (`done`, `move`, or `nonfinite`, which the third gate turns to zero);
  `Retrace` has the places, and `Vehicle` puts them into the loop.
* `cmd` records where the twist of the last SET_RPM came from. The clamps of
  lines 615-623 change its size, not its origin.
* `accepted` is a history variable: samples the stationarity detector accepted
  in the current calibration window.
* `Exit` is any way out through `MotorStopGuard`, `Crash` any way out without
  it, `Restart` the service manager's.

### `OperatorLink`

The console's number starts at 0 in each process and wraps at `SeqMod` (256 in
the code, 4 in the run). `air` is the modem's queue, `rx` the UART's, `kept`
what the modem sent last. `Deliver` moves a frame from one to the other, so the
loop may find none, one or a burst. `Repeat` sends the last frame once more
(A A B B), `Flush` the whole of `kept`, in order and ahead of what waits
(A B A B). The drain keeps the newest frame, then
`OperatorInput!PollOperator` is the loop's part, so the runs exercise the very
definitions that `VehicleLoop` uses.

### `DriveBus` and `Startup`

A period has two halves: the daemon runs (or overruns), then the bus moves.
A bus period is clear, and the transmit queue is emptied, or jammed. One value
stands for a whole command, so that the two tracks' values differ exactly when
they follow different commands.
`TxCapacity` is odd in the run: other senders and a partly drained queue leave
room for one frame of the two, the case `set_erpm` does not handle as a pair.

`Startup` replaces the atomic restart by what a process does first: `Opening`
lists the calls of `Mpu9250::init`, `VescSocketCan::init`, `Rs485Link::open`
and the blackbox in their order. `Succeed` makes the next one, `Retry` is the
first failure of an I2C transfer (which may have taken effect all the same),
`Refuse` the exit at a failure, `RefuseGuarded` the one failure behind the
construction of `MotorStopGuard`, `Killed` a kill. `Arrive` lets bytes and
frames come in between two calls. `Arm`, the end of a good start, is
`DriveBus!Restart`. A reset clears the chip's registers; they outlive the
process.

### `Trail`, `Retrace`, `Simulation`

The plane is a grid with the taxicab distance, a heading is one of its four
directions, and a twist `<<v, w>>` is `w` quarter turns and then `v` units along
the new heading. `Update` is told a twist, which stands for what odometry and
gyro make of a tick, and lays a breadcrumb when `Spacing` is reached or passed;
an operator's tick of `Stride` units passes it. `AdvanceClosest` is the forward
scan with its early end, and `Ahead` the look-ahead point.

`Pursuit` is what `compute` commands: one unit onwards by the end that leads (the
stern with `--reverse-backtrack`), with no turn or a quarter turn to the side of
the look-ahead point. How far a tick's arc turns the hull is decided by
curvature, clamp and speed, so both are possible; it never turns to the other
side, and it always drives. With the point straight behind, the start of every
default backtrack, the vehicle drives away from it first, and either side is
possible. Nothing makes a step come closer to the path, and no property says
that it does.

`hull`, `lag`, `missed` and `askew` are history variables: where the hull really
heads, how far the pose is from the vehicle, how much of the drive the estimator
was not told, and how far it then believed to drive on a wrong heading. A unit
that is missed costs a unit of `lag`; a turn that is missed costs up to two units
for each unit driven behind it.

`Retrace!Tick` is an iteration: the last command has been carried out, the
estimator hears of all of it or of a part (`Sense`), then `Relay`, `LoseLink`,
`Regain`, `Hold`, `Pursue` or `Wait`.

`Simulation` has the phases of `run_simulation`. `Drive` is one simulated step,
on which the chassis may slip in its drive or in its turn and the gyro may
drift; at rest and without ZUPT, noise may count as motion (`Jitter`). `Compute` is one turn of the loop up to the halt, `Halt` a still step,
`Carry` the step driven after it, `End` the two ways out. `phase = "off"` runs
`Retrace` instead, so that the two programs share one instance of the estimator
and the controller.

### `Vehicle`

`VehicleLoop` chooses the controller's answers and the distance driven freely,
`Retrace` chooses freely what the loop decides. `Vehicle` has neither choice:
`Drive` is `VehicleLoop!Iterate` with `Trail!Update` where the estimator is
called, `Follow` where the controller is made, and `Compute` where it is asked.
`Compute` answers from the pose that the same iteration's update has left. It has
moved its closest point on also when one of the gates behind it then makes zero
of the answer. `Heard` is what reaches the estimator of a twist: nothing when the
IMU read failed, drive and turn together (line 459); the turn alone when the
odometry is stale; a part when the iteration came later than the time credited
to it. `Twist` is what may be sent. `deaf` is a history variable, the time the
vehicle has been driving since the last good read of the IMU.

It is one life of the process: after `Exit` or `Crash` nothing moves. A restart
begins a new trail and is left to `VehicleLoop` and `DriveBus`.

### `FrameParser` and `Codec`

The line carries intact frames and, between them, noise of any kind. A byte is
its value as far as the parser compares it (first or second half of the header,
or other) and its place in an intact frame. The checksum is taken to be
perfect: a buffer passes exactly when it holds an intact frame. `Push` has one
disjunct per exit of the function. `OperatorLink` uses whole frames; this run
is what allows it to.

`Codec` has the bytes. A quantity is an integer in the units of the wire (mm/s,
mrad/s, ERPM) or not finite; `PutBe16`, `Be32`, `ClampI16`, `Encoded`,
`Decoded` and so on are the functions of `frame_codec.cpp` with their widths,
and the checksum is any function from byte sequences to 16 bits.

### `Reassembly`, `Telemetry`, `Observe`

A frame is its stream (type and node), its transfer and its place in it; `Sot`,
`Eot`, `Toggle` and `Tid` are what the tail byte says. `Fed` has the three ways
through `feed_frame`: start, continue, abandon. In `Telemetry` each node sends
one transfer after the other; frames of different nodes interleave, are lost
or, after an acknowledge error, sent again. Either `can_sniff` listens, with one
`Transfer` per stream (`Sniff`), or `run_observe`, whose `DroneCanEsc` takes the
status of one node (`TakeStatus`).

In `Observe` the signal handlers run between any two instructions, and an
iteration looks at the flags in two places, so it is two steps: `Sense`
(estimator, regain flag) and `Decide` (the `switch`), with `Usr1` and `Usr2`
anywhere between. The estimator lays a breadcrumb only while a reading moves.

### `AuxEquipment`

`Update` is one call of `update()`: no message, a heartbeat, or `Control`, the
whole handler of MANUAL_CONTROL with the outputs it sets, and then the timeout.
Disarming clears every button but the first because `ipairs` starts at 1.
`Receive`, `Arming` and `ChangeMode` are the operator and the autopilot.

## 3. Runs

| Run | States | Asks | Bounds |
|---|---|---|---|
| `VehicleLoop` | 27 535 | Who may move the tracks? Implements `Authority`. Does every state have its way out? Do BACKTRACK_PARTIAL halts end? | timeouts 1 period, overrun to 2, IMU threshold and latch 2, calibration window 2 and then 1, halts of 3 periods every 4 units, one unit per iteration |
| `OperatorLink` | 542 775 | What may pass for a sign of life? Does a repeated E-STOP latch? Is silence noticed? | 3 frames under way, number wraps at 4, 2 losses, 1 console restart, the last 2 frames flushed once, the last one repeated at will |
| `DriveBus` | 476 000 | Does only a complete start arm? Do the tracks stop, rejoin, stand at restart? Is stale ERPM ever integrated? Does the daemon come up again? | queue of 3, VESC timeout 4, staleness 2, jam to 2, overrun 1, guard 3 tries, restart after 7 periods, 2 failed starts in a row |
| `Vehicle` | 91 859 | Does the loop, with all its gates and failures, drive as `Retrace` says? How long may the vehicle drive unseen on a trusted pose? | a turn on the spot and 1 unit out, spacing and look-ahead 1, driven backwards, one loss of the link, 1 unit missed or driven askew, overrun to 2 of which 1 is credited, IMU threshold 2, outage limit 0, one halt of 2 periods |
| `Retrace` | 396 265 | Is the trail even? Does a backtrack keep its aim, wherever its steering takes it, and is its end home? Are halts kept, is the summary true, does the simulation return? | a corner, driven in any heading by up to 2 units a tick, spacing 1, look-ahead 2, arrival 0, 3 units out and 5 in all, 2 link losses, 1 unit missed or driven askew; simulation of 1 calibration step, 4 backtrack steps, halts of 2 every 2 units |
| `Observe` | 3 098 184 | Is every transfer handed over whole, and an unharmed one always? Do readings come from the own node? Are signals obeyed? | two nodes, transfers of 3 frames, ids wrap at 2, 5 frames of the own node lost in a row, trail of 2, up to two signals in an iteration |
| `FrameParser` | 320 | Is an intact frame ever missed? | frames of 7 bytes, 5 of which may look like a header |
| `AuxEquipment` | 7 492 | Can an output stick or resume? Does silence stop all? | one drive, winch, queue of 2, timeout of 2 updates, 4 sets of buttons |
| `StalePose` | stops at the counterexample | finding 1 | |
| `EstopBatch` | likewise | finding 2 | |
| `Calibration` | likewise | finding 3 | |
| `LostFrames` | likewise | finding 4 | transfers of 5 frames, 2 lost in a row |

Why the bounds are enough. The code compares ages and counts with one threshold
each, so a threshold of 1 or 2 has a value below, at and above it; an overrun of
2 jumps over one of them in one iteration. Two sequence numbers tell "same" from
"different", the only comparison made (the command path has its own run, with a
real counter that wraps). In `Retrace` the operator rounds a corner forwards and
backwards, so that a trail turns and doubles back; a backtrack starts with its aim
behind it, leaves the corner and may cross the trail anywhere, and the second
loss of the link follows a trail that holds the first way back. A tick of two
units passes the spacing. `Vehicle` is there for how loop, estimator and
controller fit together: one way back with a halt on it, and every failure and
gate in each state; its link and latch counts are at their smallest, since
`VehicleLoop` has them larger. A halt of 3 periods is held through at least one
iteration of its own, whatever overruns, so every failure can fall into one. Every
safety property of `VehicleLoop`, `Vehicle` and `Retrace` is also a theorem for
all values. Where a bound carries the result it is a condition of the real
system and is named here:

* `OperatorLink` (its liveness) needs `MaxQueue < SeqMod`: a drain that takes a whole
  multiple of 256 frames at once would end on the number it began with. The
  4 KiB cap allows 341 frames; at 20 Hz that is a 12 s burst. The safety
  property does not need it (theorem `NoRepeatRefreshes`). `MaxFlushed` bounds
  what a modem flushes out of turn: one that flushes an old queue for ever keeps
  the link up for ever, by line 437, and `SilenceIsNoticed` would fail.
* `HaltsEnd` says itself that the vehicle rolls less than one interval during one
  halt (`StopPeriods * MaxMove < StopInterval`): the next mark is one interval
  after the last *mark* (line 574), and a larger roll-out chains one halt into
  the next.
* `DriveBus` and `Startup` assume `DeploymentAssumption`: `MaxJam < GuardTries`
  (a bus-off recovery of 100 ms in `can0.service` against 10 tries, 200 ms) and
  `MaxJam + VescTimeout < RestartDelay` (0.1 s and 0.5 s against `RestartSec`,
  2 s). A longer jam voids `GuardStopsTracks` and leaves the stop to the VESCs'
  own timeout.
* `Retrace` and `Vehicle` say how far a pose is off by what was missed, not how
  much is missed; `MaxMissed` bounds it in the runs only. Once it is used up the
  estimator misses nothing more, which narrows what fails, never what drives.
  `HaltsKeepPace` is stated for ZUPT; with `--no-zupt` noise counts as distance
  during a halt.
* `Observe`: transfers of three frames, the length of esc.Status, and less
  than a whole round of transfer ids lost in a row (32 in the code, some 96
  frames). With five frames two lost neighbours suffice: finding 4.
* `Observe`: two signals within an iteration of 20 ms, of either kind and at any
  point, are the smallest number at which their order is lost: `run_observe` looks
  at the regain flag before the trigger (line 196), so SIGUSR1 and SIGUSR2 within
  one iteration end in the backtrack, against line 16 of the file, or in RECORD,
  depending on the point at which they come. `FollowsSignals` says what is true
  all the same: a signal alone in its iteration is obeyed, whatever came together
  before it.
* `FrameParser`: a checksum that does not fail to see damage; a 16-bit CRC
  misses one random damage in 65 536. The parser does not depend on the frame's
  length other than by its size, and 7 bytes hold two nested look-alikes of the
  header with bytes to spare.
* `AuxEquipment`: the queue holds `Depth` messages, so old presses are handled
  for `Depth` updates into a silence, and the bound of `SilenceStops` is the
  timeout and these.

Two runs have a `VIEW`. `Live` leaves out a variable where its value cannot be
read any more before it is assigned again: the halt outside BACKTRACK, whose
start sets it, and the calibration's counts once it is over. States that agree in
it have the same behaviours in all that the properties speak of. `Vehicle` also
takes the sequence numbers for interchangeable, which `ImplementsRetrace` and
`TrustHasLimit` cannot tell apart.

Deadlock is checked in every run; no specification can stop (`Over` stands for
a simulation that has returned, in `Vehicle` for a process that has ended).

### What the properties say

`VehicleLoop`: an E-STOP that arrives in FAILSAFE_BACKTRACK ends it in the same
iteration, only because the frame that latches also counts as a sign of life
(`NoBacktrackWhileLatched`). The operator's twist is relayed only over a live
link from a drive frame (`RelayNeedsOperator`); the controller's only with the
link down, fresh odometry, a working IMU and no halt (`PursuitNeedsSensors`).
The controller pointer is set exactly in BACKTRACK with a path its constructor
accepts (`ControllerInBacktrack`). Trust in the pose never returns without a
restart (`TrustIsOneWay`, proved, not part of the run). Between operator and
controller there is always an iteration of zero (`ImplementsAuthority`).
Liveness: `PersistentLinkGivesManual`, `CalibrationFinishes`, `LatchClears`
(also when the link drops between the drive frames), `FlappingImuLosesTrust`,
`HaltsEnd`.

`OperatorLink`: the link timer is refreshed at most once per frame transmitted or
flushed out of its turn (`RefreshIsEarned`). The frame sent last, sent again,
never counts; a flushed queue does, once per frame, since line 437 compares with
the last number only. Lines 435-436 name a modem that flushes its FIFO as the case
a repeated number must not refresh the timer in; of a queue of two frames or more
(A B A B) this is not so, and `credit >= 0`, refreshes per transmitted frame
alone, is false after ten steps of this run. `InsistingLatches`,
`SilenceIsNoticed`.

`DriveBus`: a process that commands the tracks has every register of the IMU
written since its last reset and no stale bytes or frames waiting (`ArmsReady`);
no motion is reported for a track that stood longer than the staleness window
and an overrun (`NoPhantomMotion`); a clean exit needs no timeout
(`GuardStopsTracks`); a half-dropped command is repaired (`TracksRejoin`);
`StillAtRestart`; `ComesUp`.

`Vehicle`: while the pose is trusted, the vehicle has driven no longer without a
good IMU read than the reads that make an outage and the limit behind them take
(`TrustHasLimit`). That is the promise of the outage timer, and no more: it is
about the IMU only. Odometry that is stale in MANUAL misleads the pose without
costing it its trust, and so do short outages one after the other. And every
step of the daemon on its vehicle is one that `Retrace` has
(`ImplementsRetrace`), so that what the run `Retrace` shows of a backtrack
holds with the gates, halts and failures of the loop in place.

`Retrace`: consecutive breadcrumbs are at most `Spacing` and what one tick drives
past it apart, and no more than the distance allows (`TrailIsEven`); a vehicle
that arrived is off home by the arrival radius, what its estimator missed, and
twice what it drove on a heading the estimator did not know (`ArrivesNearHome`);
the scan for the closest point, which gives up early, always reaches the
look-ahead point, wherever the steering has taken the vehicle (`ScanReachesAim`),
and the look-ahead point never goes back (`AimNeverRegresses`). That a backtrack
ends is not said: see section 5. The simulation's summary is true
(`SummaryIsTrue`), its halts are neither skipped nor doubled (`HaltsKeepPace`),
and it returns (`SimulationEnds`).

`Observe`: `WholeTransfers` and `CleanTransferArrives` for the sniffer on two
interleaved streams; for the odometry `ReadingsAreTheirs`: what it hands out was
told by its own node, whatever else is on the bus; for the state machine
`FollowsSignals` and `ControllerInBacktrack`.

`FrameParser`: from its first byte on an intact frame is at the end of the
buffer (`FrameIsKept`), so its last byte completes it (`IntactFrameIsFound`).
`AuxEquipment`: no output is on that the latest message does not ask for
(`OutputMeansPressed`), none after a noticed disarm without a release in between
(`FreshPressAfterDisarm`), the engine runs exactly for a hydraulic drive
(`EngineServesDrives`), and `SilenceStops`, heartbeats or not.

### Fairness

* `VehicleLoop!FairSpec`: weak fairness of `Tick` (the loop sleeps to an
  absolute deadline and never blocks: all its reads are non-blocking or bounded)
  and of `Restart` (`Restart=always`). Nothing is assumed of the operator, the
  sensors or the path: the liveness properties state what they need of these as
  hypotheses.
* `OperatorLink`: weak fairness of `Tick` and `Deliver` (a modem does not hold a
  frame for ever), none of the console.
* `Startup!StartSpec`: time passes (weak fairness of `Wait`, `Clear`, `Jammed`
  and `Guard` together), a guard that is through ends its process, and a start
  goes on (strong fairness of `Begin`, since each period of the bus interrupts
  it) after at most `MaxFaults` failures in a row. systemd's default start limit,
  5 starts in 10 s, is out of reach with a restart every 2 s.
* `Simulation!FairSpec`: the simulation runs on, a plain loop.

### Findings

1. `AutonomyOnlyOnValidPose` is violated: `estimate_valid` is consulted only
   when a backtrack starts (line 516). When the pose becomes invalid *during*
   one, the vehicle stands while the IMU fails and goes on after its first good
   read, against the header's "permanently disables backtrack until restart".
2. `EstopInBatchLatches` is violated: `Rs485Link::poll` keeps the newest frame
   of a drain (line 94), so an E-STOP followed by a drive frame within one
   period is never seen by the latch. `InsistingLatches` shows what remains
   true: an E-STOP that is repeated gets through.
3. `CalibrationSawSamples` is violated: line 472 counts the last verdict again
   for iterations without a sample. After one failed window that ended still, a
   window of failed reads only passes. (In the first window a single accepted
   sample is enough for all failed reads behind it, for the same reason.)
4. `LostFramesAreDropped` is violated: the toggle is one bit (line 179), so a
   transfer of five frames without its second and third is handed over as one of
   three; the transfer CRC is stripped and not checked. The comment of
   `can_sniff.cpp:137-138` says that lost frames are dropped. esc.Status, three
   frames long, is safe (`WholeTransfers`, theorem `TransfersAreWhole`).

The comment of `tst.lua:39` calls the 2000 ms timeout "1 seconds", and the first
line of `tst_rc_ctrl.lua` names a threshold of 1900 where the code has 1600; the
models follow the code.

## 4. Proofs

Every theorem holds for all values of the constants that meet the named
assumptions of the modules: positive thresholds and periods, natural numbers
elsewhere, `NoSeq` no sequence number, and `DeploymentAssumption`. Each proof
goes by an inductive invariant `IInv`, treats each action once and ends in a
temporal step.

`VehicleLoopProofs`: `TypeCorrect`, `EstopExcludesBacktrack`,
`RelayIsAuthorised`, `PursuitIsSensed`, `ControllerIsLive` (all but the first of
them invariants of the run `VehicleLoop`), `TrustLost` (lost for good) and
`LoopImplementsAuthority` (the refinement). `IInv` adds `LatchInv`: while
latched, fewer than `ClearFrames` drive frames have been counted, and the last
accepted frame is an E-STOP only under the latch, which is what
`RelayNeedsOperator` needs of the frames before this iteration. `WindowInv`: the
calibration ticks counted and the time left do not exceed the window, which is
why `calib_ticks` stays in its type although the code never bounds it.
`NoBacktrackWhileLatched` needs the order of the code: a branch that stays in
BACKTRACK has the link down, so this iteration accepted no frame, so the latch
is as it was. The refinement needs `NoHandover`: a step that ends with a holder
of the tracks began in the state that serves this holder.

Five more theorems say what one iteration gets done; each is the part of a
liveness property that needs no fairness. `OperatorGetsManual`: with the link up
an iteration ends in MANUAL (for `PersistentLinkGivesManual`).
`LatchOpensByTheCount`: the latch opens with exactly the `ClearFrames`-th new
drive frame since the last E-STOP (for `LatchClears`). `OutageIsNotForgiven`:
good reads that are no recovery neither stop nor restart the outage timer (for
`FlappingImuLosesTrust`). `HaltsGetShorter`: an iteration in a halt shortens it,
unless the vehicle has rolled past the next mark when it ends (for `HaltsEnd`).
`RestEndsCalibration`: at rest an iteration ends the calibration or brings the
end of its window nearer, and only a window with unrest in it is extended (for
`CalibrationFinishes`).

`OperatorLinkProofs`: `NoRepeatRefreshes`, `QueueCannotFakeLife`, `TypeCorrect`.
How many refreshes the queue may still cause is the number of changes of the
sequence number along it. `Budget` is the credit with the flushed frames added.
`CreditInv` avoids counting: there is a labelling of
the places of the queue that starts at 0, never falls, and gives one label to
two places only if their numbers are equal; its last label is covered by the
budget. Losing, delivering and draining keep the places in their order, so the
old labels serve (`Relabelled`); a drain that refreshes has passed a label of 1
at least. A repeat goes behind a place with its own number (`KeptInv`) and takes
that label; a flush gives each of its frames a label of its own and pays for it.
`QueueCannotFakeLife` puts this to use: every refresh costs of the budget, only
`Transmit` and `Flush` add to it, and between two refreshes the link only ages,
which is what `SilenceIsNoticed` comes down to.

`DriveBusProofs`, about `StartSpec`: `ArmedIsReady`, `NoMotionOutOfThinAir`,
`GuardIsEnough`, `TracksComeTogether`, `RestartAtRest`, `TypeCorrect`.
`MotionInv` bounds the time since a track moved by the age of its status;
`RejoinInv` says that an undisturbed period leaves an empty queue and the next
command is queued as a pair; `GuardInv` that the guard has done its work, or has
a try left and room for it, or has spent its tries on a jam, which then ends
before it does; `WaitInv` relates what a dead daemon left in the queue to the
jam and to the time it is down; `SetUpInv` says that the calls done have had
their effect and that nothing undid it.

`RetraceProofs`, about `SimSpec`: `BacktrackArrivesHome`, `TrailIsEvenlyLaid`,
`ReportIsTrue`, `HaltsAreOnTheMark`, `TypeCorrect`, on
any field, with any spacing, look-ahead, arrival radius and stride. `PathInv` says
that a path ends at home because a trail begins there; `LagInv` bounds the
distance between estimate and vehicle by `missed + 2 * askew`, since a unit driven
on a wrong heading takes the two apart by two units at most (`LagGrows`); `ArrivedInv` keeps an arrived vehicle where it is;
`MarkInv` says that a step computed but not yet carried out does not reach past
the mark.

What is proved of a backtrack holds wherever its steering takes it, so that
nothing rests on how the twist is chosen. `AimGoesForward` (`AimNeverRegresses`):
the look-ahead point never goes back. `ComputeAlwaysAnswers`: the scan finds a
closest point, an aim on the path and a twist, whatever the pose.
`ScanIsLongEnough` (`ScanReachesAim`): the bounded scan never gives up short of
the look-ahead point, because the points before it are within the look-ahead of
each other along the path, less than the margin of the scan; so the closest point
found is no farther than that one.
`SimulationRunsDown` gives the measure of `SimulationEnds`. Sums along a path
need induction; it is done by asking for the least element of the set of the
numbers for which a statement fails (`Least`, `SetInduction`), since a set,
unlike an operator, can be handed to the theorems of the library.

`ObserveProofs`: `LastSignalCounts` (`FollowsSignals`), for any number of signals
per iteration, with `SignalInv`: a trigger never waits for the next iteration; a
regain may, is then looked at before the trigger, and is not followed by a lone
trigger meanwhile; `ComputeHasController`; and
`TypeCorrect`, which includes that no reassembly buffer outgrows its capacity
(`FedFits`).

The same module proves what the telemetry promises: `TransfersAreWhole`
(`WholeTransfers`), `TransfersArrive` (`CleanTransferArrives`) and
`OdometryIsOurs` (`ReadingsAreTheirs`). `Tracked` is the invariant: what a
listener has buffered is the beginning of one transfer, some number of transfers
ago, and the toggle it waits for is that of the frame behind this beginning. A
frame that fits the toggle and the transfer-ID is then the next one of the same
transfer, unless so many frames were lost that both came round again. `Harmless`
excludes that, and is the hypothesis of these three theorems: the message fits
the buffer, fewer frames in a row are lost than it takes for the transfer-ID to
come round, and the message has at most three frames or no two frames in a row
are lost. It cannot be weakened to the second part alone: run `LostFrames`, with
five frames and two lost, is the nearest case beyond it (finding 4).
`OdometryIsOurs` needs it of the listener's own node only.

`WireProofs`, about `Codec`: `FramesRoundTrip`, `Be16Inverts`, `Be32Inverts`,
`RpmKeepsItsSense`, `CanIdsDiffer`, `FieldsKeepTheirSign`: theorems about the
operators of `Codec`, for every value and every checksum function. No run checks
them; the sets are too large to enumerate.

And about `FrameParser`, for every frame length from 3 bytes on: `NoFrameIsMissed`,
`NoByteIsLost`, `TypeCorrect`. `Marked` says that the header bytes of an intact
frame look like a header wherever they lie in the buffer; so when a full buffer
fails its check, the beginning of a frame in it is a candidate
(`FrameIsCandidate`), and the first candidate, where the buffer is cut, is not
behind it (`ResyncKeepsTheEnd`).

`AuxEquipmentProofs`, for any drives, sets of buttons, timeout and queue:
`SilenceIsSafe`, `NoOutputSticks`, `DisarmNeedsFreshPress`, `EngineCorrect`,
`TypeCorrect`. `ButtonsInv` relates the two records of what is pressed; every
button not pressed in the last message counts as released, which is why a change
to pressed is always a fresh press. `QueueInv` bounds the silence behind a
message that waits at place i by the places in front of it, and `TimerInv` adds
the timer: the silence is at most the timer and a queue's length.

`VehicleProofs`, about `VehicleSpec`, for every field, spacing, look-ahead and
threshold. `VehicleIsLoop`: the daemon on its vehicle implements `VehicleLoop`,
so that the free choices made there (answers of the controller, distance driven,
points of the trail) cover what the estimator and the controller do.
`VehicleIsCourse` (`ImplementsRetrace`): it implements `Retrace`, with `Mode`
for the state; every iteration is one of Retrace's, whichever gate, halt or
failure ends it. Both need `CourseInv`: what the loop knows of the trail is so
(`CrumbsInv`); the tracks were told to move in MANUAL and on the way back only,
and there not in a halt and by one unit at most (`CommandInv`), so that nothing
moves an arrived or a halted vehicle on; and the next halt is still ahead
(`HaltInv`), since a pursuit drives one unit at most in an iteration.
`VehicleComesHome` is what the refinement is for: `TrailIsEven`, `ScanReachesAim`
and `ArrivesNearHome` hold of the vehicle under the whole loop. It takes the theorems of `RetraceProofs` over by an
instance of that module (`Daemon`), whose assumptions are proved
(`DaemonAssumptions`). `TrustIsLimited` (`TrustHasLimit`) goes by `DeafInv`:
while the pose is trusted, the drive since the last good read is covered by the
reads of the streak and, once the IMU counts as failing, the outage timer; the
timer is already running when an outage begins in the middle of a recovery,
never restarted by it.

Only model-checked: the liveness properties (the prover has no rule for fairness
and `ENABLED` here), though what a single step contributes to several of them is
proved, as said above. All safety properties of the passing runs are theorems.

No module uses a `RECURSIVE` operator. The type invariants are proved (the
theorems `TypeCorrect`, and `VehicleInvariance`) and not part of a run.

## 5. Not modelled, and what is left

Left out for good: floating-point kinematics and geometry, bias of the
estimator, headings finer than a quarter turn, curvature and speed of the controller, sensor noise, argument
parsing (mount signs included), logging and record files, deployment scripts,
the MAVLink byte codec, the RC mode script (one comparison a second), the Python
demo (an earlier version of the simulation).

Hazards of the code that no property covers, with the reasons:

* A restart forgets the E-STOP latch and the trail. Nothing is persisted, and
  the header promises the latch across a link loss only.
* That a backtrack converges, stays within some distance of its trail, or ends.
  `compute` drives on at all times, away from a point behind it, and whether the
  arcs close depends on speed, clamp and look-ahead in real numbers. In the model,
  which leaves the arc's turn open, a vehicle may circle for ever; `run_vehicle`
  has no budget of its own that would stop it.
* `tcflush`'s return value is ignored (`rs485_link.cpp:76`). `Startup` lets the
  flush take effect: it could fail for a descriptor only that `tcgetattr` or
  `tcsetattr`, whose results are tested, had refused before.
* `DroneCanEsc` hands out the last ERPM of a side that went quiet, unlike
  `VescSocketCan`; no text of the repository promises otherwise, and
  `ReadingsAreTheirs` counts it as told.
* After a silence the script of the auxiliary equipment turns on again what is
  still pressed; only a disarm asks for a fresh press.

What could be added: finer headings and arcs, on which a bound on how far a
backtrack strays could be stated for given speed, clamp and look-ahead; an
abstract specification of the command path as a module that `OperatorLink`
implements.
