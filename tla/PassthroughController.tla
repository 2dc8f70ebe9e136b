------------------------ MODULE PassthroughController ------------------------
(***************************************************************************)
(* PassthroughTrajectoryController: a FollowJointTrajectory goal is handed *)
(* point by point to the hardware interface.  The action server's          *)
(* callbacks run in another thread than update(): accepting and cancelling *)
(* are several stores each.                                                *)
(***************************************************************************)
EXTENDS HardwareInterface

VARIABLE ptc    \* the controller's members and what became of each goal

NoGoal == 0
Handles == Goals \cup {NoGoal}
Passthrough == [goal : Handles, active : BOOLEAN, index : Nat, accepting : Handles, cancelling : BOOLEAN,
                status : [Goals -> {"none", "accepted", "succeeded", "aborted", "canceled"}]]
PassthroughInit ==
    ptc = [goal |-> NoGoal, active |-> FALSE, index |-> 0, accepting |-> NoGoal,
           cancelling |-> FALSE, status |-> [g \in Goals |-> "none"]]

(* on_deactivate(): with trajectory_active_ and no goal it dereferences null *)
PassthroughDeactivate(h, c) ==
    LET a == [h EXCEPT !.pt.abort = 1]
    IN  CASE ~c.active -> [h |-> a, c |-> c]
          [] c.active /\ c.goal = NoGoal -> [h |-> [a EXCEPT !.crashed = TRUE], c |-> c]
          [] OTHER -> [h |-> [a EXCEPT !.pt.state = 0],
                       c |-> [c EXCEPT !.goal = NoGoal, !.active = FALSE,
                                       !.status[c.goal] = "aborted"]]

(* end_goal() with the goal's result; rt_active_goal_ keeps the old goal *)
Ended(h, c, result) == [h |-> [h EXCEPT !.pt.state = 0],
                        c |-> [c EXCEPT !.active = FALSE, !.status[c.goal] = result]]

(* check_goal_tolerance(): where the joints are decides *)
Verdicts == {"succeeded", "aborted"}

(* The point, or the end of the transfer, for a hardware interface that waits *)
HandOverOnePast(h, c) ==     \* mutant: off by one
    [h |-> [h EXCEPT !.pt.point = <<c.goal, c.index + 1>>, !.pt.state = 2],
     c |-> [c EXCEPT !.index = @ + 1]]
HandOver(h, c) ==
    IF c.index < Points[c.goal]
    THEN [h |-> [h EXCEPT !.pt.point = <<c.goal, c.index + 1>>, !.pt.state = 2],
          c |-> [c EXCEPT !.index = @ + 1]]
    ELSE [h |-> IF c.index = Points[c.goal] THEN [h EXCEPT !.pt.state = 3] ELSE h, c |-> c]

(* update(), for the transfer state it has loaded: the set of its outcomes. *)
(* At the end the goal's tolerances decide.                                *)
PassthroughUpdate(h, c, seen) ==
    IF c.goal # NoGoal /\ c.active
    THEN CASE seen # 0 /\ h.pt.abort = 1 /\ c.index > 0 -> {Ended(h, c, "aborted")}
           [] ~(seen # 0 /\ h.pt.abort = 1 /\ c.index > 0) /\ seen = 0 /\ c.index = 0 ->
                {[h |-> [h EXCEPT !.pt.state = 6, !.pt.size = Points[c.goal]], c |-> c]}
           [] ~(seen # 0 /\ h.pt.abort = 1 /\ c.index > 0) /\ seen = 1 -> {HandOver(h, c)}
           [] ~(seen # 0 /\ h.pt.abort = 1 /\ c.index > 0) /\ seen = 5 ->
                {Ended(h, c, r) : r \in Verdicts}
           [] OTHER -> {[h |-> h, c |-> c]}
    ELSE {[h |-> CASE seen \notin {0, 5} -> [h EXCEPT !.pt.abort = 1]
                   [] seen = 5 -> [h EXCEPT !.pt.state = 0, !.pt.abort = 0]
                   [] OTHER -> h,
           c |-> c]}

(* Nothing is left of an earlier trajectory on either side *)
AtRest == /\ ~robot.thread /\ robot.left = 0 /\ net.trj = <<>> /\ net.res = <<>> /\ net.rev = <<>>
          /\ net.peer = "up" /\ hw.program /\ hw.playing
          /\ hw.pt.state = 0 /\ rt.seen = 0 /\ hw.pt.abort = 0 /\ hw.pt.vec = <<>> /\ ~hw.pt.late
          /\ ptc.goal = NoGoal \/ ptc.status[ptc.goal] # "accepted"

(* goal_received_callback() and the first store of goal_accepted_callback() *)
AcceptGoal(g) ==
    /\ ptc.status[g] = "none" /\ ptc.accepting = NoGoal /\ ~ptc.cancelling
    /\ ~ptc.active
    /\ ptc' = [ptc EXCEPT !.accepting = g, !.index = 0, !.status[g] = "accepted"]
    /\ clean' = (clean \/ AtRest)
    /\ UNCHANGED <<robot, net, upsets, hw, rt>>
AcceptGoalHandle ==
    /\ ptc.accepting # NoGoal /\ ptc.goal # ptc.accepting
    /\ ptc' = [ptc EXCEPT !.goal = ptc.accepting]
    /\ UNCHANGED <<robot, net, clean, upsets, hw, rt>>
AcceptDone ==
    /\ ptc.accepting # NoGoal /\ ptc.goal = ptc.accepting
    /\ ptc' = [ptc EXCEPT !.accepting = NoGoal, !.active = TRUE]
    /\ UNCHANGED <<robot, net, clean, upsets, hw, rt>>

(* goal_cancelled_callback(): the goal pointer, then trajectory_active_ *)
CancelGoal ==
    /\ ptc.goal # NoGoal /\ ptc.accepting = NoGoal /\ ~ptc.cancelling
    /\ ptc.status[ptc.goal] = "accepted"
    /\ ptc' = [ptc EXCEPT !.goal = NoGoal, !.status[ptc.goal] = "canceled", !.cancelling = TRUE]
    /\ Upset
    /\ UNCHANGED <<robot, net, hw, rt>>
CancelDone ==
    /\ ptc.cancelling
    /\ ptc' = [ptc EXCEPT !.active = FALSE, !.cancelling = FALSE]
    /\ UNCHANGED <<robot, net, clean, upsets, hw, rt>>

PassthroughServer == AcceptGoalHandle \/ AcceptDone \/ CancelGoal \/ CancelDone
=============================================================================
