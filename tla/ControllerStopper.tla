-------------------------- MODULE ControllerStopper --------------------------
(***************************************************************************)
(* The controller stopper (controller_stopper.cpp) mirrors whether the     *)
(* robot's program is running in the state of the motion controllers.  It  *)
(* is one single-threaded node: its constructor spins the node while it    *)
(* waits for the controller manager, so the subscription's callback can    *)
(* run inside the constructor, and the callback itself only sends requests *)
(* whose replies are handled by later callbacks.                           *)
(* Around it: the publisher of the program's state, the spawner, which     *)
(* activates the controllers of the launch file one after the other, the   *)
(* controller manager, and pipeline.py or teleop.py switching the mode.    *)
(***************************************************************************)
EXTENDS Naturals, Sequences, ControllerManager

CONSTANTS
  Consistent,      \* parameter consistent_controllers
  SpawnOrder,      \* controllers_active of the launch file, in order
  Trajectory,      \* the controller of the trajectory mode
  Servo,           \* the controller of the teleoperation mode
  StopOnStartup,   \* stop_controllers_on_startup
  MaxChanges,      \* bound: changes of the program's state
  MaxSwitches      \* bound: mode switches of the application

ASSUME StopperAssumption ==
  /\ Consistent \subseteq Controllers /\ Joint \subseteq Controllers
  /\ Consistent \cap Joint = {}
  /\ SpawnOrder \in Seq(Controllers)
  /\ JointFree({SpawnOrder[n] : n \in DOMAIN SpawnOrder})
  /\ Trajectory \in Joint /\ Servo \in Joint /\ Trajectory # Servo
  /\ StopOnStartup \in BOOLEAN
  /\ MaxChanges \in Nat /\ MaxSwitches \in Nat

\* The launch file activates its joint controller (activate_joint_controller).
ASSUME JointAssumption == \E n \in DOMAIN SpawnOrder : SpawnOrder[n] \in Joint

VARIABLES
  pc,             \* the constructor: "list", "listWait", "switchWait"; then "spin"
  robotRunning,   \* robot_running_
  stopped,        \* stopped_controllers_
  topic,          \* robot_program_running, depth 1: <<>> or <<message>>
  lists,          \* list requests to the controller manager: who asked
  listReplies,    \* their replies: who asked, and the active controllers
  switches,       \* switch requests: strictness, who asked, which controllers
  active,         \* the active controllers
  spawned,        \* how many controllers the spawner has activated
  program,        \* the robot's program is running
  changes,        \* changes of the program so far
  appSwitches,    \* mode switches of the application so far
  hasty           \* history: which of the others did not wait for the stopper, see Haste

stopper == <<pc, robotRunning, stopped>>
channels == <<topic, lists, listReplies, switches>>
environment == <<spawned, program, changes, appSwitches, hasty>>
stopperVars == <<stopper, channels, active, environment>>

Motion == {SpawnOrder[n] : n \in DOMAIN SpawnOrder} \ Consistent
SpawnDone == spawned = Len(SpawnOrder)

\* Nothing is on its way: the stopper waits for the next message.
Quiet ==
  /\ pc = "spin" /\ SpawnDone
  /\ topic = <<>> /\ lists = <<>> /\ listReplies = <<>> /\ switches = <<>>

Found(reply) == reply.active \ Consistent

\* Somebody acts before the stopper is done with what happened before.
Haste == {"spawner", "program", "app"}
Hasty(who, calm) == hasty' = IF calm THEN hasty ELSE hasty \cup {who}

StopRequest(who, set) == [strict |-> TRUE, from |-> who, activate |-> {}, deactivate |-> set]
StartRequest(set) == [strict |-> TRUE, from |-> "callback", activate |-> set, deactivate |-> {}]

-----------------------------------------------------------------------------
(* The constructor.                                                        *)

\* The loop asks for the controllers until it has found one to stop.
CtorStep ==
  /\ pc = "list"
  /\ IF stopped = {}
       THEN /\ lists' = Append(lists, "ctor") /\ pc' = "listWait"
            /\ UNCHANGED switches
       ELSE /\ switches' = Append(switches, StopRequest("ctor", stopped))
            /\ pc' = "switchWait" /\ UNCHANGED lists
  /\ UNCHANGED <<robotRunning, stopped, topic, listReplies, active, environment>>

CtorListed ==
  /\ pc = "listWait" /\ listReplies # <<>> /\ Head(listReplies).from = "ctor"
  /\ stopped' = stopped \cup Found(Head(listReplies))
  /\ listReplies' = Tail(listReplies)
  /\ pc' = "list"
  /\ UNCHANGED <<robotRunning, topic, lists, switches, active, environment>>

CtorDone ==
  /\ pc = "switchWait" /\ ~\E n \in DOMAIN switches : switches[n].from = "ctor"
  /\ robotRunning' = FALSE
  /\ pc' = "spin"
  /\ UNCHANGED <<stopped, channels, active, environment>>

-----------------------------------------------------------------------------
(* The callbacks, run by whoever spins the node.                           *)

FindAndStopControllers ==
  /\ stopped' = {}
  /\ lists' = Append(lists, "callback")
  /\ UNCHANGED switches

StartControllers ==
  /\ switches' = IF stopped # {} THEN Append(switches, StartRequest(stopped)) ELSE switches
  /\ UNCHANGED <<stopped, lists>>

\* Mutant of RobotRunningCallback: robot_running_ is only set when it starts.
CallbackForgetsStop ==
  /\ pc # "list" /\ topic # <<>>
  /\ LET data == Head(topic) IN
     /\ IF data /\ ~robotRunning THEN StartControllers
        ELSE IF ~data /\ robotRunning THEN FindAndStopControllers
        ELSE UNCHANGED <<stopped, lists, switches>>
     /\ robotRunning' = (robotRunning \/ data)
  /\ topic' = <<>>
  /\ UNCHANGED <<pc, listReplies, active, environment>>

RobotRunningCallback ==
  /\ pc # "list" /\ topic # <<>>
  /\ LET data == Head(topic) IN
     /\ IF data /\ ~robotRunning THEN StartControllers
        ELSE IF ~data /\ robotRunning THEN FindAndStopControllers
        ELSE UNCHANGED <<stopped, lists, switches>>
     /\ robotRunning' = data
  /\ topic' = <<>>
  /\ UNCHANGED <<pc, listReplies, active, environment>>

ListCallback ==
  /\ pc # "list" /\ listReplies # <<>> /\ Head(listReplies).from = "callback"
  /\ stopped' = stopped \cup Found(Head(listReplies))
  /\ listReplies' = Tail(listReplies)
  /\ switches' = IF stopped' # {} THEN Append(switches, StopRequest("callback", stopped'))
                 ELSE switches
  /\ UNCHANGED <<pc, robotRunning, topic, lists, active, environment>>

-----------------------------------------------------------------------------
(* The controller manager: two services, each answering in order.          *)

ServeList ==
  /\ lists # <<>>
  /\ listReplies' = Append(listReplies, [from |-> Head(lists), active |-> active])
  /\ lists' = Tail(lists)
  /\ UNCHANGED <<stopper, topic, switches, active, environment>>

ServeSwitch ==
  /\ switches # <<>>
  /\ LET s == Head(switches) IN
     active' = IF s.strict THEN Strict(active, s.activate, s.deactivate)
               ELSE BestEffort(active, s.activate, s.deactivate)
  /\ switches' = Tail(switches)
  /\ UNCHANGED <<stopper, topic, lists, listReplies, environment>>

-----------------------------------------------------------------------------
(* The rest of the system.                                                 *)

Spawn ==
  /\ ~SpawnDone
  /\ active' = Strict(active, {SpawnOrder[spawned + 1]}, {})
  /\ spawned' = spawned + 1
  /\ UNCHANGED <<stopper, channels, program, changes, appSwitches, hasty>>

\* publishProgramRunning() publishes each change; an unread message is replaced.
ProgramChange ==
  /\ changes < MaxChanges
  /\ Hasty("program", Quiet)
  /\ program' = ~program
  /\ topic' = <<program'>>
  /\ changes' = changes + 1
  /\ UNCHANGED <<stopper, lists, listReplies, switches, active, spawned, appSwitches>>

\* call_switch_controller() of pipeline_utils.py; see ModeSwitch for its replies.
AppSwitch(on, off) ==
  /\ SpawnDone /\ pc = "spin" /\ appSwitches < MaxSwitches
  /\ Hasty("app", Quiet /\ program)
  /\ on \notin active \/ off \in active
  /\ switches' = Append(switches,
       [strict |-> FALSE, from |-> "app", activate |-> {on}, deactivate |-> {off}])
  /\ appSwitches' = appSwitches + 1
  /\ UNCHANGED <<stopper, topic, lists, listReplies, active, spawned, program, changes>>

-----------------------------------------------------------------------------
StopperInit ==
  /\ pc = (IF StopOnStartup THEN "list" ELSE "spin")
  /\ robotRunning = TRUE /\ stopped = {}
  /\ topic = <<>> /\ lists = <<>> /\ listReplies = <<>> /\ switches = <<>>
  /\ spawned \in {0, Len(SpawnOrder)}
  /\ hasty = (IF SpawnDone THEN {} ELSE {"spawner"})
  /\ active = {SpawnOrder[n] : n \in 1..spawned}
  /\ program = ~StopOnStartup
  /\ changes = 0 /\ appSwitches = 0

Stopper == CtorStep \/ CtorListed \/ CtorDone \/ RobotRunningCallback \/ ListCallback
Manager == ServeList \/ ServeSwitch

StopperNext ==
  \/ Stopper \/ Manager
  \/ Spawn \/ ProgramChange
  \/ AppSwitch(Trajectory, Servo) \/ AppSwitch(Servo, Trajectory)

StopperSpec == StopperInit /\ [][StopperNext]_stopperVars

\* The node is spun, the manager serves and the spawner goes through its list.
FairStopper == StopperSpec /\ WF_stopperVars(Stopper) /\ WF_stopperVars(ServeList) /\ WF_stopperVars(ServeSwitch) /\ WF_stopperVars(Spawn)

-----------------------------------------------------------------------------
(* Correctness.                                                            *)

Asker == {"ctor", "callback"}
ReplyType == [from : Asker, active : SUBSET Controllers]
SwitchType == [strict : BOOLEAN, from : Asker \cup {"app"},
               activate : SUBSET Controllers, deactivate : SUBSET (Controllers \ Consistent)]

\* Every variable has its type, and at most one controller moves the joints.
StopperTypeOK ==
  /\ pc \in {"list", "listWait", "switchWait", "spin"}
  /\ robotRunning \in BOOLEAN /\ stopped \subseteq Controllers \ Consistent
  /\ topic \in Seq(BOOLEAN) /\ Len(topic) <= 1
  /\ lists \in Seq(Asker) /\ listReplies \in Seq(ReplyType)
  /\ switches \in Seq(SwitchType)
  /\ active \subseteq Controllers /\ JointFree(active)
  /\ spawned \in 0..Len(SpawnOrder) /\ program \in BOOLEAN
  /\ changes \in 0..MaxChanges /\ appSwitches \in 0..MaxSwitches
  /\ hasty \subseteq Haste

\* What can move the robot or the gripper while the program is running.
Usable == Motion \ Joint \subseteq active /\ active \cap Joint # {}

Mirrored == IF program THEN Usable ELSE active \subseteq Consistent

\* The state of the program is mirrored by the state of the controllers once the
\* stopper has nothing left to do (doc/controller_stopper.rst), if nobody was hasty.
MirrorsProgram == Quiet /\ hasty = {} => Mirrored

\* A controller that does not depend on the program is never stopped.
ConsistentStay == [][active \cap Consistent \subseteq active']_stopperVars

\* Once the program has stopped for good so have the controllers, and once it runs
\* for good they are back.
FinallyMirrors == <>[](hasty = {} => Mirrored)

\* The stopper as a whole: it stops what depends on the program and nothing else,
\* and does not get out of step for good.
StopperMirrors == ConsistentStay /\ FinallyMirrors
=============================================================================
