------------------------------- MODULE Teleop -------------------------------
(***************************************************************************)
(* Keyboard teleoperation (teleop.py): the main thread reads keys and      *)
(* publishes stops; the executor's thread publishes the current twist at   *)
(* 30 Hz and runs the callbacks of the gripper's goals.  They share        *)
(* in_teleop, current_twist (under a lock), gripper_busy and               *)
(* gripper_is_closed (without one).                                        *)
(*                                                                         *)
(* A twist is "move" or "still": every key gives the one or the other.     *)
(***************************************************************************)
EXTENDS Naturals

CONSTANTS
  MaxKeys,     \* bound: keys that ask for something
  Stops        \* twists that publish_stop() sends

ASSUME TeleopAssumption == MaxKeys \in Nat /\ Stops \in Nat \ {0}

VARIABLES
  main,        \* main thread: "menu", "keys", "stopping", or what follows a stop
  next,        \* what follows publish_stop()
  stopsLeft,   \* twists that publish_stop() has still to send
  inTeleop, currentTwist,
  timer,       \* publish_servo_command() of the timer: "idle", "checked" or "built"
  timerTwist,  \* the message it has built
  gripperIsClosed, gripperBusy,
  goal,        \* the gripper's goal: "none", "sent", "accepted", "result", "recorded"
  label,       \* what that goal asks for, "open" or "close"
  up,          \* the ROS context is valid
  servo,       \* what MoveIt Servo executes
  fingers,     \* what the gripper has done
  asked,       \* history: what the operator has asked for last, "move" or "still"
  late,        \* history: moving twists published since the operator asked for a stop
               \* (2 stands for any number above 1)
  outstanding, \* history: goals without a result
  done,        \* history: what the last goal with a result asked for
  keys         \* how many keys there were

thread == <<main, next, stopsLeft>>
twists == <<inTeleop, currentTwist>>
timerThread == <<timer, timerTwist>>
gripper == <<gripperIsClosed, gripperBusy, goal, label, fingers, outstanding, done>>
wire == <<up, servo, late>>
operator == <<asked, keys>>
vars == <<thread, twists, timerThread, gripper, wire, operator>>

After == {"keys", "grip", "record", "leave", "menu", "gone"}
Flip(word) == IF word = "open" THEN "close" ELSE "open"

-----------------------------------------------------------------------------
(* Publishing.                                                             *)

Publish(twist) ==
  /\ servo' = twist
  /\ late' = IF twist = "move" /\ asked = "still" /\ late < 2 THEN late + 1 ELSE late

\* Mutant of SetVelocity: a stop is published, the twist stays.
SetVelocityForgets(twist) == currentTwist' = IF twist = "still" THEN currentTwist ELSE twist

SetVelocity(twist) == currentTwist' = twist

\* publish_stop(): the twist is reset, then sent several times.
BeginStop(after) ==
  /\ SetVelocity("still")
  /\ main' = "stopping" /\ next' = after /\ stopsLeft' = Stops
  /\ asked' = "still"

\* One round of its loop; publish_servo_command() sends nothing outside teleop,
\* and fails once the context is gone.
PublishStop ==
  /\ main = "stopping" /\ stopsLeft > 0 /\ (inTeleop => up)
  /\ IF inTeleop THEN Publish(currentTwist) ELSE UNCHANGED <<servo, late>>
  /\ stopsLeft' = stopsLeft - 1
  /\ UNCHANGED <<main, next, twists, timerThread, gripper, up, operator>>

StopDone ==
  /\ main = "stopping" /\ stopsLeft = 0
  /\ main' = next
  /\ UNCHANGED <<next, stopsLeft, twists, timerThread, gripper, wire, operator>>

\* The exception of a failed publish ends the main thread.
PublishFails ==
  /\ main = "stopping" /\ stopsLeft > 0 /\ inTeleop /\ ~up
  /\ main' = "gone" /\ inTeleop' = FALSE
  /\ UNCHANGED <<next, stopsLeft, currentTwist, timerThread, gripper, wire, operator>>

TimerChecks ==
  /\ timer = "idle" /\ up /\ inTeleop
  /\ timer' = "checked"
  /\ UNCHANGED <<thread, twists, timerTwist, gripper, wire, operator>>

\* The message is built under the lock.
TimerBuilds ==
  /\ timer = "checked"
  /\ timer' = "built" /\ timerTwist' = currentTwist
  /\ UNCHANGED <<thread, twists, gripper, wire, operator>>

\* It is published without the lock, if there still is a context.
TimerPublishes ==
  /\ timer = "built"
  /\ timer' = "idle"
  /\ IF up THEN Publish(timerTwist) ELSE UNCHANGED <<servo, late>>
  /\ UNCHANGED <<thread, twists, timerTwist, gripper, up, operator>>

-----------------------------------------------------------------------------
(* The main thread: menu and keys.                                         *)

\* enter_teleop_mode(), once the servo controller is active.
EnterTeleop ==
  /\ main = "menu" /\ keys < MaxKeys /\ keys' = keys + 1
  /\ inTeleop' = TRUE
  /\ BeginStop("keys")
  /\ late' = 0
  /\ UNCHANGED <<timerThread, gripper, up, servo>>

Key == main = "keys" /\ up /\ keys < MaxKeys /\ keys' = keys + 1

\* w, s, a, d, r, f.
MoveKey ==
  /\ Key /\ SetVelocity("move")
  /\ asked' = "move" /\ late' = 0
  /\ UNCHANGED <<thread, inTeleop, timerThread, gripper, up, servo>>

\* Any other key resets the twist; the timer publishes it.
OtherKey ==
  /\ Key /\ SetVelocity("still")
  /\ asked' = "still"
  /\ UNCHANGED <<thread, inTeleop, timerThread, gripper, wire>>

\* g, p, t: first a stop, then the gripper, the recording or the end.
StopKey ==
  /\ Key /\ \E after \in {"grip", "record", "leave"} : BeginStop(after)
  /\ UNCHANGED <<inTeleop, timerThread, gripper, wire>>

Record ==
  /\ main = "record" /\ main' = "keys"
  /\ UNCHANGED <<next, stopsLeft, twists, timerThread, gripper, wire, operator>>

\* The loop ends; the stop in the `finally` finds in_teleop reset.
Leave ==
  /\ main = "leave" /\ inTeleop' = FALSE
  /\ BeginStop("menu")
  /\ UNCHANGED <<timerThread, gripper, wire, keys>>

\* Ctrl+C: the `finally` publishes a stop while rclpy's own handler takes the
\* context down.
Interrupt ==
  /\ main \notin {"menu", "gone"} /\ next # "gone"
  /\ BeginStop("gone")
  /\ UNCHANGED <<inTeleop, timerThread, gripper, wire, keys>>

\* stop().
Gone ==
  /\ main = "gone" /\ inTeleop' = FALSE /\ currentTwist' = "still"
  /\ UNCHANGED <<thread, timerThread, gripper, wire, operator>>

\* The context goes down (external).
ContextDown ==
  /\ up /\ next = "gone" /\ up' = FALSE
  /\ UNCHANGED <<thread, twists, timerThread, gripper, servo, late, operator>>

\* No command for incoming_command_timeout: Servo halts (external).
ServoTimeout ==
  /\ servo = "move" /\ servo' = "still"
  /\ UNCHANGED <<thread, twists, timerThread, gripper, up, late, operator>>

-----------------------------------------------------------------------------
(* The gripper.                                                            *)

Unsent == UNCHANGED <<gripperBusy, goal, label, outstanding>>

Sent ==
  /\ gripperBusy' = TRUE /\ goal' = "sent"
  /\ label' = IF gripperIsClosed THEN "open" ELSE "close"
  /\ outstanding' = outstanding + 1

\* The goal is not sent while one is under way, or when the server is not there.
ToggleGripper ==
  /\ main = "grip" /\ main' = "keys"
  /\ \/ Unsent
     \/ ~gripperBusy /\ Sent
  /\ UNCHANGED <<next, stopsLeft, twists, timerThread, gripperIsClosed, fingers, done, wire, operator>>

Over == outstanding' = outstanding - 1

\* Mutant of GoalResponse: a rejected goal leaves the gripper busy.
GoalResponseBusy ==
  /\ goal = "sent"
  /\ \/ goal' = "accepted" /\ UNCHANGED <<gripperBusy, outstanding>>
     \/ goal' = "none" /\ UNCHANGED gripperBusy /\ Over
  /\ UNCHANGED <<thread, twists, timerThread, gripperIsClosed, label, fingers, done, wire, operator>>

\* _gripper_goal_response_callback().
GoalResponse ==
  /\ goal = "sent"
  /\ \/ goal' = "accepted" /\ UNCHANGED <<gripperBusy, outstanding>>
     \/ goal' = "none" /\ gripperBusy' = FALSE /\ Over
  /\ UNCHANGED <<thread, twists, timerThread, gripperIsClosed, label, fingers, done, wire, operator>>

\* The gripper ends the goal (external): it has done what was asked, or not; the
\* result says which, and the callback does not look.
Result ==
  /\ goal = "accepted" /\ goal' = "result" /\ Over
  /\ fingers' \in {fingers, label} /\ done' = label
  /\ UNCHANGED <<thread, twists, timerThread, gripperIsClosed, gripperBusy, label, wire, operator>>

\* _gripper_result_callback() without a result: nothing is recorded.
NoResult ==
  /\ goal = "accepted" /\ goal' = "none" /\ gripperBusy' = FALSE /\ Over
  /\ fingers' \in {fingers, label}
  /\ UNCHANGED <<thread, twists, timerThread, gripperIsClosed, label, done, wire, operator>>

\* _gripper_result_callback(): two writes, between which the main thread may run.
ResultCallback ==
  /\ \/ goal = "result" /\ goal' = "recorded"
        /\ gripperIsClosed' = (label = "close") /\ UNCHANGED gripperBusy
     \/ goal = "recorded" /\ goal' = "none"
        /\ gripperBusy' = FALSE /\ UNCHANGED gripperIsClosed
  /\ UNCHANGED <<thread, twists, timerThread, label, fingers, outstanding, done, wire, operator>>

-----------------------------------------------------------------------------
Init ==
  /\ main = "menu" /\ next = "menu" /\ stopsLeft = 0
  /\ inTeleop = FALSE /\ currentTwist = "still"
  /\ timer = "idle" /\ timerTwist = "still"
  /\ gripperIsClosed = FALSE /\ gripperBusy = FALSE /\ goal = "none" /\ label = "open"
  /\ up = TRUE /\ servo = "still" /\ fingers = "open"
  /\ asked = "still" /\ late = 0 /\ outstanding = 0 /\ done = "open" /\ keys = 0

Stopping == PublishStop \/ StopDone \/ PublishFails \/ Record \/ Leave \/ ToggleGripper
Timer == TimerChecks \/ TimerBuilds \/ TimerPublishes
Gripper == GoalResponse \/ Result \/ NoResult \/ ResultCallback

Next ==
  \/ Stopping \/ Timer \/ Gripper
  \/ EnterTeleop \/ MoveKey \/ OtherKey \/ StopKey
  \/ Interrupt \/ Gone \/ ContextDown \/ ServoTimeout

Spec == Init /\ [][Next]_vars

\* Both threads run; the gripper answers (external) and Servo times out (external).
FairSpec ==
  Spec /\ WF_vars(Stopping) /\ WF_vars(Timer) /\ WF_vars(Gripper) /\ WF_vars(ServoTimeout)

-----------------------------------------------------------------------------
(* Correctness.                                                            *)

FlagTypes ==
  /\ inTeleop \in BOOLEAN /\ up \in BOOLEAN
  /\ gripperIsClosed \in BOOLEAN /\ gripperBusy \in BOOLEAN

\* The types.
TeleopTypeOK ==
  /\ FlagTypes
  /\ main \in After \cup {"stopping"} /\ next \in After /\ stopsLeft \in 0..Stops
  /\ currentTwist \in {"move", "still"}
  /\ timer \in {"idle", "checked", "built"} /\ timerTwist \in {"move", "still"}
  /\ goal \in {"none", "sent", "accepted", "result", "recorded"}
  /\ label \in {"open", "close"} /\ fingers \in {"open", "close"} /\ done \in {"open", "close"}
  /\ servo \in {"move", "still"} /\ asked \in {"move", "still"}
  /\ late \in 0..2 /\ outstanding \in Nat /\ keys \in 0..MaxKeys

\* Once the operator has asked for a stop - with a key that stops, by leaving
\* teleop, or with Ctrl+C - the robot is told to move at most once more: by the
\* message the timer had built before.
AtMostOneLateTwist == asked = "still" => late <= 1

\* The gripper is commanded and a pose recorded with the robot told to stand still,
\* that one message apart.
ActsAtRest == main \in {"grip", "record"} => servo = "still" \/ late = 1

\* Teleoperation is entered and left with the twist at zero.
RestsOutside == ~inTeleop => currentTwist = "still"

\* A goal is sent only when none is under way, and asks for the opposite of what the
\* last one that ended had asked for.
ToggleAlternates ==
  /\ outstanding <= 1
  /\ goal \in {"sent", "accepted"} => label # done

\* If the operator ends up asking for no motion, the robot ends up standing still.
EventuallyStill == <>[](asked = "still") => <>[](servo = "still")

\* The gripper does not stay busy.
BusyEnds == gripperBusy ~> ~gripperBusy

\* What both threads and the gripper's callbacks keep together.
TeleopSafe == AtMostOneLateTwist /\ ActsAtRest /\ ToggleAlternates

\* The session comes to rest: the arm, and the gripper's flag.
TeleopSettles == EventuallyStill /\ BusyEnds
-----------------------------------------------------------------------------
\* The strengthening: where the main thread may be in teleop; that the shared twist
\* is what the operator asked for last; what is still to come of the timer's message;
\* that the main thread reads gripper_is_closed only when it says what was done.
ThreadFits ==
  /\ (IF main = "stopping" THEN next ELSE main) \in {"keys", "grip", "record", "leave"}
       => inTeleop
  /\ main # "keys" => asked = "still"
  /\ currentTwist = asked

LateFits ==
  /\ asked = "move" => late = 0
  /\ timer = "built" /\ timerTwist = "move" => late = 0

StopFits ==
  main = "stopping" /\ next \in {"grip", "record"} /\ stopsLeft < Stops
    => servo = "still" \/ late = 1

FlagsFit ==
  /\ gripperBusy <=> goal # "none"
  /\ goal # "result" => (gripperIsClosed <=> done = "close")

GripperFits ==
  /\ FlagsFit
  /\ outstanding = IF goal \in {"sent", "accepted"} THEN 1 ELSE 0
  /\ goal \in {"result", "recorded"} => label = done

TeleopInv ==
  /\ TeleopTypeOK /\ ThreadFits /\ LateFits /\ StopFits /\ GripperFits
  /\ AtMostOneLateTwist /\ ActsAtRest /\ RestsOutside /\ ToggleAlternates
=============================================================================
