----------------------------- MODULE Authority -----------------------------
(***************************************************************************)
(* Who moves the tracks: the promise run_vehicle makes to the operator.    *)
(* Nobody, the operator or the path follower holds the tracks.  A holder   *)
(* gives them back before another takes them, the operator holds them only *)
(* over a live link, the path follower only over a silent one, and nobody  *)
(* holds them under an E-STOP.                                             *)
(***************************************************************************)
VARIABLES
  holder,   \* "nobody", "operator" or "pursuit"
  link,     \* the operator link is up
  estop     \* the E-STOP latch

authorityVars == <<holder, link, estop>>

Init == holder = "nobody" /\ link = FALSE /\ estop = FALSE

Relay ==
  /\ holder \in {"nobody", "operator"}
  /\ link' /\ ~estop'
  /\ holder' = "operator"

Return ==
  /\ holder \in {"nobody", "pursuit"}
  /\ ~link' /\ ~estop'
  /\ holder' = "pursuit"

Stand == holder' = "nobody" /\ link' \in BOOLEAN /\ estop' \in BOOLEAN

Next == Relay \/ Return \/ Stand

Spec == Init /\ [][Next]_authorityVars
=============================================================================
