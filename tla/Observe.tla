------------------------------ MODULE Observe ------------------------------
(***************************************************************************)
(* The state machine of the listen-only dry run, apps/run_observe.cpp: it  *)
(* records the trail, and on SIGUSR1 (link lost) follows it back on paper  *)
(* until SIGUSR2 (link regained).                                          *)
(*                                                                         *)
(* The handlers run between any two instructions of the loop and only set  *)
(* a flag.  An iteration looks at the flags in two places, so it is two    *)
(* steps: Sense, up to the regain flag, and Decide.  The estimator moves   *)
(* by the readings of DroneCanEsc, however old they are.                   *)
(***************************************************************************)
EXTENDS Telemetry

CONSTANTS
  MaxCrumbs,   \* bound: breadcrumbs counted
  MaxSignals   \* bound: signals that may come within one iteration

ASSUME ObserveAssumption == MaxCrumbs \in Nat \ {0, 1} /\ MaxSignals \in Nat

VARIABLES
  pc,          \* the step the loop takes next
  state,       \* State
  path,        \* points of the controller's path; 0 without a controller
  crumbs,      \* breadcrumbs of the estimator
  trigger,     \* g_trigger
  regain,      \* g_regain
  latest,      \* history: the last signal, unless another came before it in
               \* the same iteration
  signals      \* history: signals since the last iteration ended

loopVars == <<pc, state, path, crumbs, trigger, regain, latest, signals>>
vars == <<telemetryVars, loopVars>>
signalVars == <<latest, signals>>

States == {"record", "backtrack", "arrived"}

TypeOK ==
  /\ TelemetryTypeOK
  /\ pc \in {"sense", "decide"}
  /\ state \in States
  /\ path \in (0 .. MaxCrumbs) \ {1}
  /\ crumbs \in 1 .. MaxCrumbs
  /\ trigger \in BOOLEAN /\ regain \in BOOLEAN
  /\ latest \in {"none", "lost", "regained"}
  /\ signals \in 0 .. MaxSignals

Init ==
  /\ TelemetryInit
  /\ pc = "sense"
  /\ state = "record"
  /\ path = 0
  /\ crumbs = 1
  /\ trigger = FALSE /\ regain = FALSE
  /\ latest = "none"
  /\ signals = 0

-----------------------------------------------------------------------------
Signal(what) ==
  /\ signals < MaxSignals
  /\ signals' = signals + 1
  /\ latest' = IF signals = 0 THEN what ELSE "none"
  /\ UNCHANGED <<pc, state, path, crumbs>>

Usr1 == Signal("lost") /\ trigger' = TRUE /\ UNCHANGED regain
Usr2 == Signal("regained") /\ regain' = TRUE /\ UNCHANGED trigger

Moving == \E side \in Sides : reading[side] # 0

(* The estimator may drop a breadcrumb in every state, when the odometry   *)
(* moves; then the regain flag ends a backtrack, or a wait at its end.     *)
Sense ==
  /\ pc = "sense"
  /\ \/ UNCHANGED crumbs
     \/ Moving /\ crumbs < MaxCrumbs /\ crumbs' = crumbs + 1
  /\ regain' = FALSE
  /\ \/ regain /\ state # "record" /\ state' = "record" /\ path' = 0
     \/ (~regain \/ state = "record") /\ UNCHANGED <<state, path>>
  /\ pc' = "decide"
  /\ UNCHANGED <<trigger, signalVars>>

Record_AnyTrail ==
  /\ state = "record"
  /\ \/ ~trigger /\ UNCHANGED <<state, path>>
     \/ trigger /\ state' = "backtrack" /\ path' = crumbs
  /\ trigger' = FALSE

(* The trail is the path when it has two points, which is what the         *)
(* controller's constructor asks for.                                      *)
Record ==
  /\ state = "record"
  /\ \/ ~trigger /\ UNCHANGED <<state, path>>
     \/ trigger /\ crumbs < 2 /\ state' = "arrived" /\ UNCHANGED path
     \/ trigger /\ crumbs >= 2 /\ state' = "backtrack" /\ path' = crumbs
  /\ trigger' = FALSE

Follow_TriggerStays ==
  /\ state = "backtrack"
  /\ \/ state' = "arrived" /\ path' = 0
     \/ UNCHANGED <<state, path>>
  /\ UNCHANGED trigger

(* compute() may be done, which ends the backtrack. *)
Follow ==
  /\ state = "backtrack"
  /\ \/ state' = "arrived" /\ path' = 0
     \/ UNCHANGED <<state, path>>
  /\ trigger' = FALSE

Arrived ==
  /\ state = "arrived"
  /\ trigger' = FALSE
  /\ UNCHANGED <<state, path>>

Decide ==
  /\ pc = "decide"
  /\ Record \/ Follow \/ Arrived
  /\ pc' = "sense"
  /\ signals' = 0
  /\ UNCHANGED <<crumbs, regain, latest>>

Listen == Bus /\ (program = "run_observe" => pc = "sense") /\ UNCHANGED loopVars

Loop ==
  /\ program = "run_observe"
  /\ Sense \/ Decide \/ Usr1 \/ Usr2
  /\ UNCHANGED telemetryVars

Next == Listen \/ Loop

Spec == Init /\ [][Next]_vars

-----------------------------------------------------------------------------
Settled == pc = "sense" /\ ~trigger /\ ~regain

(* run_observe's loop obeys a signal that comes alone in its iteration, at *)
(* any point of it: once taken up, it says whether the loop records.  Of   *)
(* several in one iteration the loop cannot tell the order, and looks at   *)
(* the regain flag first; but they leave no flag behind that could speak   *)
(* against a later signal.                                                 *)
FollowsSignals ==
  Settled =>
    /\ latest = "lost" => state # "record"
    /\ latest = "regained" => state = "record"

(* compute() is called on a controller that exists, also after the link    *)
(* was lost and regained several times: there is one, with a path of two   *)
(* points or more, exactly in BACKTRACK.                                   *)
ControllerInBacktrack == IF state = "backtrack" THEN path >= 2 ELSE path = 0
=============================================================================
