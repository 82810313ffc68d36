------------------------------ MODULE Retrace ------------------------------
(***************************************************************************)
(* Where run_vehicle drives: the operator takes the vehicle out, the link  *)
(* is lost and comes back, and every backtrack follows the trail recorded  *)
(* so far, which goes on growing meanwhile.                                *)
(*                                                                         *)
(* A Tick is one iteration.  The tracks have carried out the last command; *)
(* the estimator hears of it unless the IMU read failed, or the iteration  *)
(* came so late that the time credited to it is clamped.  VehicleLoop has  *)
(* the conditions in full; here they are chosen freely.                    *)
(***************************************************************************)
EXTENDS Trail

CONSTANTS
  Field,       \* bound: the places, with headings, the operator drives to
  MaxOut,      \* bound: distance at which the operator stops driving
  MaxTotal,    \* bound: distance at which a backtrack stops driving
  MaxLosses,   \* bound: losses of the link
  MaxMissed    \* bound: once the estimator is misled that far, it misses
               \* nothing more

ASSUME RetraceAssumption ==
  /\ Field \subseteq Place \X Headings
  /\ MaxOut \in Nat /\ MaxTotal \in Nat
  /\ MaxLosses \in Nat /\ MaxMissed \in Nat

VARIABLES
  state,    \* VehicleState, from MANUAL on
  command,  \* the twist the tracks were last told to take
  losses    \* history: losses of the link

driveVars == <<state, command, losses>>

TypeOK ==
  /\ TrailTypeOK
  /\ state \in {"manual", "backtrack", "arrived"}
  /\ command \in Twists
  /\ losses \in 0 .. MaxLosses

Init ==
  /\ TrailInit
  /\ state = "manual"
  /\ command = Still
  /\ losses = 0

-----------------------------------------------------------------------------
(* The tracks carried out the command; the estimator may not have heard of *)
(* all of it.                                                              *)
Sense ==
  \E t \in Parts(command) :
    /\ t # command => missed + askew < MaxMissed
    /\ Travels(t, command)

Outings(p, h) ==
  {m \in Twists : LET d == Turned(h, m[2]) IN <<Advanced(p, d, m[1]), d>> \in Field}

Relay ==
  /\ state = "manual"
  /\ command' = Still \/ (total' < MaxOut /\ command' \in Outings(pose', heading'))
  /\ UNCHANGED <<state, losses, controllerVars>>

LoseLink_Unreversed ==
  /\ state = "manual"
  /\ losses < MaxLosses
  /\ losses' = losses + 1
  /\ command' = Still
  /\ \/ Follow(trail') /\ state' = "backtrack"
     \/ Len(trail') < 2 /\ state' = "arrived" /\ UNCHANGED controllerVars

(* The link is lost: follow the whole trail back, if it has two points.    *)
LoseLink ==
  /\ state = "manual"
  /\ losses < MaxLosses
  /\ losses' = losses + 1
  /\ command' = Still
  /\ \/ Follow(Reversed(trail')) /\ state' = "backtrack"
     \/ Len(trail') < 2 /\ state' = "arrived" /\ UNCHANGED controllerVars

Regain ==
  /\ state # "manual"
  /\ state' = "manual"
  /\ Unfollow
  /\ command' = Still
  /\ UNCHANGED losses

(* Stale odometry, or a halt; or the gates make zero of what compute said. *)
Hold ==
  /\ state = "backtrack"
  /\ command' = Still
  /\ UNCHANGED controllerVars \/ (~Done(pose') /\ AdvanceClosest(pose'))
  /\ UNCHANGED <<state, losses>>

Pursue ==
  /\ state = "backtrack"
  /\ UNCHANGED losses
  /\ \/ /\ Done(pose')
        /\ state' = "arrived"
        /\ Unfollow
        /\ command' = Still
     \/ /\ ~Done(pose')
        /\ AdvanceClosest(pose')
        /\ total' < MaxTotal
        /\ command' \in Pursuit(pose', heading', path[Ahead(idx')])
        /\ UNCHANGED state

Wait ==
  /\ state = "arrived"
  /\ UNCHANGED <<state, command, losses, controllerVars>>

Tick == Sense /\ (Relay \/ LoseLink \/ Regain \/ Hold \/ Pursue \/ Wait)

vars == <<trailVars, driveVars>>

Spec == Init /\ [][Tick]_vars

-----------------------------------------------------------------------------
(* The trail has no gap, whatever turns were driven and however often the  *)
(* link was lost: the next breadcrumb is within Spacing and what one tick  *)
(* may drive past it, and the vehicle is within Spacing of the last one.   *)
TrailIsDense ==
  /\ Dist(pose, trail[Len(trail)]) <= sinceCrumb
  /\ \A i \in 1 .. Len(trail) - 1 :
       Dist(trail[i], trail[i + 1]) <= Spacing - 1 + Stride

(* The trail, never trimmed, grows with the distance driven and not with   *)
(* time.                                                                   *)
TrailIsSparse == (Len(trail) - 1) * Spacing <= total - sinceCrumb

(* Breadcrumbs are laid evenly: never farther apart than Spacing and the   *)
(* last tick's drive, never more of them than the distance calls for.      *)
TrailIsEven == TrailIsDense /\ TrailIsSparse

(* A backtrack ends where the recording began, also the second one, which  *)
(* follows a trail that holds the first: the vehicle is off by the arrival *)
(* radius, what the estimator missed of its drive, and, for a turn that it *)
(* missed, at most twice the distance driven on the wrong heading.         *)
ArrivesNearHome ==
  state = "arrived" =>
    Dist(Moved(pose, lag), Home) <=
      missed + 2 * askew + (IF Len(trail) < 2 THEN Spacing - 1 ELSE Arrival)

(* The scan of advance_closest gives up at a point clearly farther away    *)
(* than one before it (controller.cpp:30), but never short of the point    *)
(* that the vehicle was sent towards: wherever it has got to meanwhile,    *)
(* the closest point found is no farther off than that one.                *)
ScanReachesAim ==
  path # <<>> =>
    \A p \in {f[1] : f \in Field} \cup {pose} :
      /\ Ahead(idx) \in Scanned(p)
      /\ \E i \in Scanned(p) : Dist(p, path[i]) <= Dist(p, path[Ahead(idx)])

(* Within a backtrack the look-ahead point never goes back along the path, *)
(* also where the trail crosses itself.                                    *)
AimNeverRegresses ==
  [][path # <<>> /\ path' = path => Ahead(idx)' >= Ahead(idx)]_vars
=============================================================================
