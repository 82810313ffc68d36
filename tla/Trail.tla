------------------------------- MODULE Trail -------------------------------
(***************************************************************************)
(* What run_vehicle and run_simulation share: the dead reckoning with its  *)
(* trail of breadcrumbs (DeadReckoning) and the pure pursuit of a reversed *)
(* trail (BacktrackController).                                            *)
(*                                                                         *)
(* The plane is a grid with the taxicab distance, headings are its four    *)
(* directions, and a twist <<v, w>> is what the tracks do to the hull in   *)
(* one tick: w quarter turns to the left, then v units along the heading,  *)
(* backwards if v < 0.  The estimator hears of a twist; beside what it     *)
(* makes of it, history variables keep where the hull really is.           *)
(* Op_Fault names a faulty variant of Op.                                  *)
(***************************************************************************)
EXTENDS Integers, Sequences, FiniteSetsExt

CONSTANTS
  Spacing,     \* breadcrumb_spacing
  Lookahead,   \* lookahead of PursuitConfig
  Arrival,     \* arrival_radius
  Reverse,     \* reverse of PursuitConfig: --reverse-backtrack
  Stride       \* bound: the farthest the operator drives in one tick

ASSUME TrailAssumption ==
  /\ Spacing \in Nat \ {0} /\ Lookahead \in Nat \ {0} /\ Arrival \in Nat
  /\ Reverse \in BOOLEAN /\ Stride \in Nat \ {0}

VARIABLES
  pose,        \* pose_, its place
  heading,     \* pose_.heading, as the step it leads to
  total,       \* total_dist_
  sinceCrumb,  \* dist_since_crumb_
  trail,       \* breadcrumbs_
  path,        \* the controller's path_; <<>> without a controller
  idx,         \* the controller's idx_, from 1
  hull,        \* history: where the hull really heads
  lag,         \* history: from the pose to where the hull is
  missed,      \* history: distance by which the estimator was misled
  askew        \* history: distance the estimator took to go a wrong way

estimatorVars == <<pose, heading, total, sinceCrumb, trail>>
controllerVars == <<path, idx>>
groundVars == <<hull, lag, missed, askew>>
trailVars == <<estimatorVars, controllerVars, groundVars>>

Place == Int \X Int
Home == <<0, 0>>
Still == <<0, 0>>
Headings == {<<1, 0>>, <<-1, 0>>, <<0, 1>>, <<0, -1>>}
Twists == (-Stride .. Stride) \X {-1, 0, 1}

Abs(n) == IF n < 0 THEN -n ELSE n
Dist(p, q) == Abs(p[1] - q[1]) + Abs(p[2] - q[2])
Opposite(h) == <<-h[1], -h[2]>>
Turned(h, w) == IF w = 0 THEN h ELSE <<-(w * h[2]), w * h[1]>>
Advanced(p, h, v) == <<p[1] + v * h[1], p[2] + v * h[2]>>
Moved(p, m) == <<p[1] + m[1], p[2] + m[2]>>

TrailTypeOK ==
  /\ pose \in Place /\ heading \in Headings
  /\ total \in Nat
  /\ sinceCrumb \in 0 .. Spacing - 1
  /\ trail \in Seq(Place) /\ trail # <<>>
  /\ path \in Seq(Place) /\ Len(path) <= Len(trail)
  /\ idx \in 1 .. (IF path = <<>> THEN 1 ELSE Len(path))
  /\ hull \in Headings /\ lag \in Place
  /\ missed \in Nat /\ askew \in Nat

TrailInit ==
  /\ pose = Home /\ heading = <<1, 0>>
  /\ total = 0
  /\ sinceCrumb = 0
  /\ trail = <<Home>>
  /\ path = <<>>
  /\ idx = 1
  /\ hull = heading /\ lag = <<0, 0>>
  /\ missed = 0 /\ askew = 0

-----------------------------------------------------------------------------
(* DeadReckoning.                                                          *)

Update_NoReset(t) ==
  LET step == Abs(t[1])
  IN /\ heading' = Turned(heading, t[2])
     /\ pose' = Advanced(pose, heading', t[1])
     /\ total' = total + step
     /\ sinceCrumb' = sinceCrumb + step
     /\ trail' = IF sinceCrumb' < Spacing THEN trail ELSE Append(trail, pose')

(* update, told of the twist t: a breadcrumb when Spacing has been driven  *)
(* or passed.                                                              *)
Update(t) ==
  LET step == Abs(t[1])
  IN /\ heading' = Turned(heading, t[2])
     /\ pose' = Advanced(pose, heading', t[1])
     /\ total' = total + step
     /\ \/ /\ sinceCrumb + step < Spacing
           /\ sinceCrumb' = sinceCrumb + step
           /\ UNCHANGED trail
        \/ /\ sinceCrumb + step >= Spacing
           /\ sinceCrumb' = 0
           /\ trail' = Append(trail, pose')

(* The tracks take the hull by m, and the estimator hears of t.            *)
Travels(t, m) ==
  /\ Update(t)
  /\ hull' = Turned(hull, m[2])
  /\ lag' = Advanced(Advanced(lag, hull', m[1]), heading', -t[1])
  /\ missed' = missed + Abs(m[1] - t[1])
  /\ askew' = IF hull' = heading' THEN askew ELSE askew + Abs(t[1])

(* What of a twist may be heard, or driven, if not all of it.              *)
Parts(m) == {t \in Twists : /\ Abs(t[1]) + Abs(m[1] - t[1]) = Abs(m[1])
                            /\ t[2] \in {0, m[2]}}

(* trail_xy, reversed by both callers. *)
Reversed(s) == [i \in 1 .. Len(s) |-> s[Len(s) + 1 - i]]

-----------------------------------------------------------------------------
(* BacktrackController.  Its constructor wants two points.                 *)

Follow(points) == Len(points) >= 2 /\ path' = points /\ idx' = 1

Unfollow == path' = <<>> /\ idx' = 1

Done(p) == Dist(p, path[Len(path)]) <= Arrival

(* advance_closest: from idx on, up to the first point that is clearly     *)
(* farther away than the closest before it; the first of the closest.      *)
Scanned_FromStart(p) == 1 .. Len(path)

Scanned_FirstRise(p) ==
  {i \in idx .. Len(path) :
     \A k \in idx + 1 .. i - 1 : Dist(p, path[k]) <= Dist(p, path[k - 1])}

Scanned(p) ==
  {i \in idx .. Len(path) :
     \A k \in idx .. i - 1 : \A c \in idx .. k :
        Dist(p, path[k]) <= Dist(p, path[c]) + 2 * Lookahead}

AdvanceClosest(p) ==
  \E seen \in {Scanned(p)} :
    /\ idx' \in seen
    /\ \A k \in seen :
         /\ Dist(p, path[idx']) <= Dist(p, path[k])
         /\ Dist(p, path[idx']) = Dist(p, path[k]) => idx' <= k
    /\ UNCHANGED path

(* lookahead_point: the first point at least Lookahead down the path. *)
Along(i, j) ==
  LET sum[k \in i .. j] ==
        IF k = i THEN 0 ELSE sum[k - 1] + Dist(path[k - 1], path[k])
  IN sum[j]

Ahead(i) == Min({j \in i + 1 .. Len(path) : Along(i, j) >= Lookahead} \cup {Len(path)})

(* compute's twists from the place p, headed h: always onwards by the end  *)
(* that leads, and turning, if at all, to the side of the look-ahead point *)
(* (the sign of sin(alpha)). How far it has turned after a unit, curvature *)
(* and clamp decide; with the point straight behind it is the part of the  *)
(* heading too small for the grid that decides the side.                   *)
Leading(h) == IF Reverse THEN Opposite(h) ELSE h

Bearing(p, look) == IF p = look THEN <<1, 0>> ELSE <<look[1] - p[1], look[2] - p[2]>>

Turns(lead, to) ==
  LET side  == lead[1] * to[2] - lead[2] * to[1]
      along == lead[1] * to[1] + lead[2] * to[2]
  IN {w \in {-1, 0, 1} : w # 0 => side * w > 0 \/ (side = 0 /\ along < 0)}

Pursuit(p, h, look) ==
  {IF Reverse THEN -1 ELSE 1} \X Turns(Leading(h), Bearing(p, look))

=============================================================================
