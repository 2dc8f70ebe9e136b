-------------------------- MODULE ControllerManager --------------------------
(***************************************************************************)
(* What the nodes of this repository rely on of ros2_control's controller  *)
(* manager (external): the set of active controllers changes by switch     *)
(* requests, which are served one at a time.                               *)
(***************************************************************************)
CONSTANTS
  Controllers,   \* the loaded controllers
  Joint          \* those that claim the joints: at most one is active

JointFree(active) == \A c, d \in active \cap Joint : c = d

\* STRICT: the request is carried out as a whole, or it fails and changes nothing.
StrictPossible(active, activate, deactivate) ==
  /\ deactivate \subseteq active
  /\ activate \cap active = {}
  /\ JointFree((active \ deactivate) \cup activate)

Strict(active, activate, deactivate) ==
  IF StrictPossible(active, activate, deactivate)
    THEN (active \ deactivate) \cup activate
    ELSE active

\* BEST_EFFORT: whatever is possible; a controller whose joints are claimed by
\* another one is left inactive.
BestEffort(active, activate, deactivate) ==
  LET rest == active \ deactivate
  IN  IF JointFree(rest \cup activate) THEN rest \cup activate
      ELSE rest \cup (activate \ Joint)
=============================================================================
