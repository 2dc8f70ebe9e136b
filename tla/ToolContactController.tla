------------------------ MODULE ToolContactController ------------------------
(***************************************************************************)
(* ToolContactController: a goal that ends when the robot feels contact.   *)
(* States of the interface: 1 standby, 2 waiting to begin, 3 executing,    *)
(* 4 begin failed, 5 waiting to end, 6 ended, 7 end failed; results of the *)
(* robot: 0 contact, 1 canceled, 3 none yet.                               *)
(***************************************************************************)
EXTENDS HardwareInterface

VARIABLE tcc

ToolContact == [goal : BOOLEAN, accepting : BOOLEAN, enable : BOOLEAN, abort : BOOLEAN,
                active : BOOLEAN, reset : BOOLEAN,
                status : {"none", "accepted", "succeeded", "aborted", "canceled"}]

ToolContactInit ==
    tcc = [goal |-> FALSE, accepting |-> FALSE, status |-> "none", enable |-> FALSE, abort |-> FALSE,
           active |-> FALSE, reset |-> FALSE]

ToolContactActivate(h) == [h EXCEPT !.tc.set = 1]
Answered(c, result) == IF c.goal /\ c.status = "accepted"
                       THEN [c EXCEPT !.status = result, !.reset = TRUE] ELSE c
ToolContactDeactivate(c) == [Answered(c, "aborted") EXCEPT !.active = FALSE]

(* update(): the request of the action server, then the hardware's state *)
Requested(h, c) ==
    [h |-> CASE c.abort -> [h EXCEPT !.tc.set = 5]
             [] ~c.abort /\ c.enable -> [h EXCEPT !.tc.set = 2]
             [] OTHER -> h,
     c |-> [c EXCEPT !.abort = FALSE, !.enable = FALSE]]
Standby(h) == [h EXCEPT !.tc.set = 1]
ToolContactUpdate(h0, c0) ==
    LET h == Requested(h0, c0).h
        c == Requested(h0, c0).c
    IN  CASE h.tc.state = 3 /\ h.tc.result = 0 ->
                [h |-> [h EXCEPT !.tc.set = 5], c |-> [Answered(c, "succeeded") EXCEPT !.active = FALSE]]
          [] h.tc.state = 3 /\ h.tc.result = 1 ->
                [h |-> Standby(h), c |-> [Answered(c, "aborted") EXCEPT !.active = FALSE]]
          [] h.tc.state = 3 /\ h.tc.result \notin {0, 1} -> [h |-> h, c |-> [c EXCEPT !.active = TRUE]]
          [] h.tc.state = 4 -> [h |-> Standby(h), c |-> [Answered(c, "aborted") EXCEPT !.active = FALSE]]
          [] h.tc.state = 6 /\ c.active -> [h |-> Standby(h), c |-> [c EXCEPT !.active = FALSE]]
          [] h.tc.state = 7 -> [h |-> Standby(h), c |-> Answered(c, "aborted")]
          [] OTHER -> [h |-> h, c |-> c]

(* goal_received_callback(), goal_accepted_callback(): the flag, the handle. *)
(* A goal may come before the end of the last contact has been sent.        *)
AcceptContact ==
    /\ ~tcc.goal /\ ~tcc.accepting
    /\ tcc' = [tcc EXCEPT !.enable = TRUE, !.abort = FALSE, !.accepting = TRUE, !.status = "accepted"]
    /\ robot' = [robot EXCEPT !.touched = FALSE]
    /\ clean' = (clean /\ hw.tc.state # 3)
    /\ UNCHANGED <<net, upsets, hw, rt>>
AcceptContactHandle ==
    /\ tcc.accepting
    /\ tcc' = [tcc EXCEPT !.accepting = FALSE, !.goal = TRUE]
    /\ UNCHANGED <<robot, net, clean, upsets, hw, rt>>

(* action_handler(): forgets a goal that has been answered *)
ForgetContact ==
    /\ tcc.goal /\ tcc.reset
    /\ tcc' = [tcc EXCEPT !.goal = FALSE, !.reset = FALSE]
    /\ UNCHANGED <<robot, net, clean, upsets, hw, rt>>

(* goal_canceled_callback() *)
CancelContact ==
    /\ tcc.goal
    /\ tcc' = [Answered(tcc, "canceled") EXCEPT !.reset = TRUE, !.abort = TRUE, !.enable = FALSE]
    /\ Upset
    /\ UNCHANGED <<robot, net, hw, rt>>

ToolContactServer == AcceptContactHandle \/ ForgetContact \/ CancelContact
=============================================================================
