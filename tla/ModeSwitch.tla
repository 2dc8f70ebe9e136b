----------------------------- MODULE ModeSwitch -----------------------------
(***************************************************************************)
(* The switch between the trajectory mode and the teleoperation mode       *)
(* (pipeline_utils.py), as teleop.py's main thread uses it.                *)
(*                                                                         *)
(* call_switch_controller() checks the controllers' states, then acts on   *)
(* them: it sends a request whose reply it awaits with a deadline.  The    *)
(* state it has checked, the state at the reply and the state in which the *)
(* robot is then commanded are three different moments; the operator's     *)
(* shell and the stopper switch controllers too, and a request whose       *)
(* deadline has passed is still served.                                    *)
(***************************************************************************)
EXTENDS Naturals, Sequences, ControllerManager

CONSTANTS
  Trajectory, Servo,   \* parameters trajectory_controller and servo_controller
  MaxCommands,         \* bound: commands at teleop's menu
  MaxOthers            \* bound: switches made by somebody else

ASSUME ModeAssumption ==
  /\ Controllers = Joint
  /\ Trajectory \in Joint /\ Servo \in Joint /\ Trajectory # Servo
  /\ MaxCommands \in Nat /\ MaxOthers \in Nat

Modes == {Trajectory, Servo}
Other(mode) == IF mode = Trajectory THEN Servo ELSE Trajectory

VARIABLES
  command,    \* what the operator has asked for: "none", "pose" or "teleop"
  step,       \* where call_switch_controller() and its callers are
  target,     \* the controller to activate; the other mode's is deactivated
  seen,       \* the reply of list_controllers: {active}, or {} without one
  requests,   \* switch requests at the controller manager: [on, off, awaited]
  reply,      \* the reply to the awaited request: "none", "ok" or "refused"
  active,     \* the active controllers
  foreign,    \* history: somebody else switched since the state was established
  commands, others   \* how many commands and other switches there were

call == <<command, target>>
counts == <<commands, others>>
switchVars == <<call, step, seen, requests, reply, active, foreign, counts>>

Steps == {"menu", "check", "checked", "send", "await", "recheck", "rechecked",
          "setType", "motion", "twist"}

InState(set) == target \in set /\ Other(target) \notin set

-----------------------------------------------------------------------------
(* The callers.                                                            *)

Enter(cmd, mode) == command' = cmd /\ target' = mode /\ step' = "check"

\* A pose id, or "t": both begin with switch_to_trajectory_mode().
Command(cmd) ==
  /\ step = "menu" /\ commands < MaxCommands
  /\ Enter(cmd, Trajectory)
  /\ commands' = commands + 1
  /\ UNCHANGED <<seen, requests, reply, active, foreign, others>>

\* call_switch_controller() returned True: the pose is executed, or teleop goes on
\* with switch_to_teleop_mode(), which ends with the command type of the servo node.
Succeeded ==
  IF command = "pose" THEN step' = "motion" /\ UNCHANGED call
  ELSE IF target = Trajectory THEN Enter("teleop", Servo)
  ELSE step' = "setType" /\ UNCHANGED call

Failed == step' = "menu" /\ command' = "none" /\ UNCHANGED target

\* set_servo_command_type(): both outcomes leave the servo controller active.
SetServoCommandType ==
  /\ step = "setType"
  /\ \/ step' = "twist" /\ UNCHANGED call
     \/ Failed
  /\ UNCHANGED <<seen, requests, reply, active, foreign, counts>>

\* The motion has ended, or the operator leaves teleop.
Done ==
  /\ step \in {"motion", "twist"}
  /\ Failed
  /\ UNCHANGED <<seen, requests, reply, active, foreign, counts>>

-----------------------------------------------------------------------------
(* call_switch_controller().                                               *)

Checked ==
  /\ step = "checked"
  /\ IF \E set \in seen : InState(set)
       THEN Succeeded ELSE step' = "send" /\ UNCHANGED call
  /\ seen' = {}
  /\ UNCHANGED <<requests, reply, active, foreign, counts>>

\* The request is sent, or the service does not show up within three seconds.
SendSwitch ==
  /\ step = "send"
  /\ \/ /\ requests' = Append(requests, [on |-> target, off |-> Other(target), awaited |-> TRUE])
        /\ step' = "await" /\ UNCHANGED call
     \/ Failed /\ UNCHANGED requests
  /\ UNCHANGED <<seen, reply, active, foreign, counts>>

Replied ==
  /\ step = "await" /\ reply # "none"
  /\ IF reply = "ok" THEN Succeeded ELSE step' = "recheck" /\ UNCHANGED call
  /\ reply' = "none"
  /\ UNCHANGED <<seen, requests, active, foreign, counts>>

Abandoned == [n \in DOMAIN requests |-> [requests[n] EXCEPT !.awaited = FALSE]]

\* Mutant of TimedOut: the call is given up, its reply still comes.
TimedOutListening ==
  /\ step = "await" /\ reply = "none"
  /\ Failed
  /\ UNCHANGED <<seen, requests, reply, active, foreign, counts>>

\* The deadline of the wait passes; nothing withdraws the request.
TimedOut ==
  /\ step = "await" /\ reply = "none"
  /\ Failed
  /\ requests' = Abandoned
  /\ UNCHANGED <<seen, reply, active, foreign, counts>>

\* The request was refused: the state may be the right one all the same.
Rechecked ==
  /\ step = "rechecked"
  /\ IF \E set \in seen : InState(set) THEN Succeeded ELSE Failed
  /\ seen' = {}
  /\ UNCHANGED <<requests, reply, active, foreign, counts>>

\* list_controllers is unavailable, or its deadline passes.
ListFails ==
  /\ step \in {"check", "recheck"}
  /\ step' = (IF step = "check" THEN "checked" ELSE "rechecked")
  /\ seen' = {}
  /\ UNCHANGED <<call, requests, reply, active, foreign, counts>>

-----------------------------------------------------------------------------
(* The controller manager and the other users of it (external).            *)

ServeList ==
  /\ step \in {"check", "recheck"}
  /\ step' = (IF step = "check" THEN "checked" ELSE "rechecked")
  /\ seen' = {active}
  /\ foreign' = FALSE
  /\ UNCHANGED <<call, requests, reply, active, counts>>

\* The request is carried out, or refused; a request that asks for nothing new may
\* be refused as well.
ServeSwitch ==
  /\ requests # <<>>
  /\ LET r == Head(requests) IN
     \/ /\ active' = BestEffort(active, {r.on}, {r.off})
        /\ reply' = IF ~r.awaited THEN reply ELSE IF r.on \in active' THEN "ok" ELSE "refused"
        /\ foreign' = ~r.awaited
     \/ /\ UNCHANGED active
        /\ reply' = IF r.awaited THEN "refused" ELSE reply
        /\ UNCHANGED foreign
  /\ requests' = Tail(requests)
  /\ UNCHANGED <<call, step, seen, counts>>

\* The controller stopper, or `ros2 control switch_controllers` of hint.md.
OtherSwitch ==
  /\ others < MaxOthers
  /\ active' \in {set \in SUBSET Controllers : JointFree(set)} \ {active}
  /\ foreign' = TRUE
  /\ others' = others + 1
  /\ UNCHANGED <<call, step, seen, requests, reply, commands>>

-----------------------------------------------------------------------------
SwitchInit ==
  /\ command = "none" /\ step = "menu" /\ target = Trajectory
  /\ seen = {} /\ requests = <<>> /\ reply = "none"
  /\ active \in {set \in SUBSET Controllers : JointFree(set)}
  /\ foreign = FALSE /\ commands = 0 /\ others = 0

\* What the main thread does by itself, all of it under deadlines.
Main ==
  \/ Checked \/ SendSwitch \/ Replied \/ TimedOut \/ Rechecked \/ ListFails
  \/ SetServoCommandType

SwitchNext ==
  \/ Main \/ Done
  \/ Command("pose") \/ Command("teleop")
  \/ ServeList \/ ServeSwitch \/ OtherSwitch

SwitchSpec == SwitchInit /\ [][SwitchNext]_switchVars

-----------------------------------------------------------------------------
(* Correctness.                                                            *)

RequestType == [on : Modes, off : Modes, awaited : BOOLEAN]

\* Every variable has its type; a reply is awaited by the one call that sent the
\* request, and at most one controller drives the joints.
ModeTypeOK ==
  /\ command \in {"none", "pose", "teleop"} /\ step \in Steps /\ target \in Modes
  /\ seen \subseteq SUBSET Controllers
  /\ requests \in Seq(RequestType)
  /\ reply \in {"none", "ok", "refused"}
  /\ active \subseteq Controllers /\ JointFree(active)
  /\ foreign \in BOOLEAN
  /\ commands \in 0..MaxCommands /\ others \in 0..MaxOthers

\* The robot is commanded in the mode that was asked for - a trajectory goal with
\* the trajectory controller active, twists with the servo controller - unless
\* somebody else, or a request that was given up before, has switched since the
\* state was established (call_switch_controller() returned True).
CommandedInMode ==
  ~foreign =>
    /\ step = "motion" => InState(active) /\ target = Trajectory
    /\ step \in {"setType", "twist"} => InState(active) /\ target = Servo

\* The request that is awaited, if any, is the last one, and a reply is there only
\* while it is waited for: a late reply is never taken for the answer to a later
\* request.
ReplyIsForThisCall ==
  LET waiting == step = "await" /\ reply = "none"
  IN  /\ reply # "none" => step = "await"
      /\ waiting => requests # <<>>
      /\ \A n \in DOMAIN requests :
           requests[n].awaited <=> (waiting /\ n = Len(requests))

\* The robot is commanded in an established mode, and established by its own reply.
SwitchSafe == CommandedInMode /\ ReplyIsForThisCall

-----------------------------------------------------------------------------
\* The strengthening that makes CommandedInMode inductive: what was seen, or
\* replied, is still so unless somebody else switched.
EstablishedHolds ==
  ~foreign =>
    /\ step \in {"checked", "rechecked"}  => seen \subseteq {active}
    /\ step = "await" /\ reply = "ok" => InState(active)

StepFits ==
  /\ step # "menu" => command # "none"
  /\ step = "motion" => command = "pose"
  /\ step \in {"setType", "twist"} => command = "teleop"
  /\ command = "pose" => target = Trajectory
  /\ step \in {"setType", "twist"} => target = Servo
  /\ step = "await" =>
       \A n \in DOMAIN requests :
         requests[n].awaited => requests[n].on = target /\ requests[n].off = Other(target)

ModeInv == ModeTypeOK /\ StepFits /\ ReplyIsForThisCall /\ EstablishedHolds /\ CommandedInMode
=============================================================================
