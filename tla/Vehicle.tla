------------------------------ MODULE Vehicle ------------------------------
(***************************************************************************)
(* The daemon on its vehicle: the loop of VehicleLoop with the estimator   *)
(* and the controller of Trail in it, in place of the free choices made    *)
(* there, and the tracks under both.  One life of the process.             *)
(*                                                                         *)
(* In an iteration the tracks have carried out the last command, a twist   *)
(* on the grid.  The estimator hears nothing of it if the iteration's IMU  *)
(* read failed, of the turn only if the odometry is stale (and reads as    *)
(* zero), and of a part if the iteration came later than the time that is  *)
(* credited to it.                                                         *)
(***************************************************************************)
EXTENDS VehicleLoop, Trail

CONSTANTS
  DtClamp,     \* upper clamp of dt, in periods: 3
  Field,       \* bound: the places, with headings, the operator drives to
  MaxOut,      \* bound: distance at which the operator stops driving
  MaxTotal,    \* bound: distance at which a backtrack stops driving
  MaxLosses,   \* bound: losses of the link
  MaxMissed    \* bound: once the estimator is misled that far, it misses
               \* nothing more

ASSUME VehicleAssumption ==
  /\ DtClamp \in Nat /\ Field \subseteq Place \X Headings
  /\ MaxOut \in Nat /\ MaxTotal \in Nat /\ MaxLosses \in Nat /\ MaxMissed \in Nat
  /\ MaxMove > 0   \* a unit is not beyond the bound of the loop

VARIABLES
  command,  \* the twist the tracks were last told to take
  deaf,     \* history: periods driven since the last good IMU read, counted
            \* up to one past the limit
  losses    \* history: losses of the link

courseVars == <<trailVars, command, deaf, losses>>
vehicleVars == <<vars, courseVars>>

VehicleInit ==
  /\ Init
  /\ TrailInit
  /\ command = Still
  /\ deaf = 0 /\ losses = 0

-----------------------------------------------------------------------------
(* What the estimator may hear of the command that was carried out. *)
Heard(step) ==
  {t \in Parts(command) :
     IF ~Updated' THEN t = Still
     ELSE /\ ~driveOk' => t[1] = 0
          /\ step <= DtClamp => /\ driveOk' => t[1] = command[1]
                               /\ t[2] = command[2]}

(* The reads that make an outage, and the second after them. *)
DeafLimit == ImuThreshold * MaxStep + ImuOutage

Travel(step) ==
  /\ deaf' = IF Updated' THEN 0
             ELSE IF command = Still THEN deaf ELSE Aged(deaf, step, DeafLimit + 1)
  /\ \E t \in Heard(step) :
       /\ t # command => missed + askew < MaxMissed
       /\ Travels(t, command)

(* MANUAL: the whole trail, reversed, when the link is lost. *)
Leave ==
  /\ state = "manual"
  /\ \/ /\ HoldInManual \/ Relay \/ NothingToBacktrack
        /\ UNCHANGED controllerVars
     \/ StartBacktrack /\ Follow(Reversed(trail'))

Compute_StalePose(step, d) ==
  \/ Done(pose) /\ Pursue(step, d, "done") /\ Unfollow
  \/ /\ ~Done(pose) /\ AdvanceClosest(pose)
     /\ \E answer \in Answers \ {"done"} : Pursue(step, d, answer)

(* compute answers from the pose that this iteration's update left.        *)
Compute(step, d) ==
  \/ Done(pose') /\ Pursue(step, d, "done") /\ Unfollow
  \/ /\ ~Done(pose') /\ AdvanceClosest(pose')
     /\ \E answer \in Answers \ {"done"} : Pursue(step, d, answer)

(* BACKTRACK: the halts are measured by the estimator's distance. *)
Return(step) ==
  LET d == IF StopInterval > 0 THEN total' - total ELSE 0
  IN /\ state = "backtrack"
     /\ \/ Regained /\ Unfollow
        \/ /\ HoldForOdometry(step, d) \/ HoldHalt(step, d) \/ BeginHalt(step, d)
           /\ UNCHANGED controllerVars
        \/ Compute(step, d)

(* The twist that is sent in this iteration. *)
Outings ==
  {m \in Twists :
     LET d == Turned(heading', m[2])
     IN  total' < MaxOut /\ <<Advanced(pose', d, m[1]), d>> \in Field}

Twist ==
  CASE cmd' = "operator" -> {Still} \cup Outings
    [] cmd' = "pursuit"  ->
         {m \in Pursuit(pose', heading', path[Ahead(idx')]) : total' < MaxTotal}
    [] OTHER             -> {Still}

Drive(step, read, drive, f) ==
  /\ Sense(step, read, drive, f)
  /\ Travel(step)
  /\ crumbs' = IF Len(trail') < 2 THEN 1 ELSE 2
  /\ \/ Calibrate(step) /\ UNCHANGED controllerVars
     \/ /\ UNCHANGED calibVars
        /\ (Await /\ UNCHANGED controllerVars) \/ Leave \/ Return(step)
  /\ command' \in Twist
  /\ losses' = IF state = "manual" /\ state' # "manual" THEN losses + 1 ELSE losses
  /\ losses' <= MaxLosses

VehicleTick ==
  /\ running
  /\ UNCHANGED running
  /\ \E step \in 1 .. MaxStep, read \in BOOLEAN, drive \in BOOLEAN,
        f \in Frame \cup {NoFrame} : Drive(step, read, drive, f)

Stop == (Exit \/ Crash) /\ UNCHANGED courseVars

Over == ~running /\ UNCHANGED vehicleVars

VehicleNext == VehicleTick \/ Stop \/ Over

VehicleSpec == VehicleInit /\ [][VehicleNext]_vehicleVars

-----------------------------------------------------------------------------
(* The loop drives as Retrace says that it does: what is shown there of    *)
(* the way home holds with every gate, halt and failure of the loop.       *)
Mode == IF state \in {"calibrating", "idle"} THEN "manual" ELSE state

Course == INSTANCE Retrace WITH state <- Mode
ImplementsRetrace == Course!Spec

(* The loop takes no step that VehicleLoop does not have. *)
ImplementsLoop == Spec

(* A pose is trusted only while the outage in progress hides no more of    *)
(* the drive from it than the reads that make an outage and the second     *)
(* after them, whoever drives and whatever failed before.                  *)
TrustHasLimit == estimateValid => deaf <= DeafLimit
=============================================================================
