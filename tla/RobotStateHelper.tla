-------------------------- MODULE RobotStateHelper --------------------------
(***************************************************************************)
(* The robot state helper: the set_mode action.  It decides by what the    *)
(* driver's topics have told last, sends commands with a primary client of *)
(* its own, whose view of the robot comes another way, and waits until the *)
(* topic tells the target mode.  One goal at a time.                       *)
(***************************************************************************)
EXTENDS PrimaryClient

CONSTANTS
    Targets,     \* the goals: target_robot_mode, stop_program, play_program
    MaxTargets   \* bound: goals

VARIABLE rsh     \* the topics' last values, the goal, where its thread is, how it ended

NoTarget == [mode |-> "none", stop |-> FALSE, play |-> FALSE]
ASSUME HelperAssumption == NoTarget \notin Targets /\ MaxTargets \in Nat
HelperState == [mode : {"UNKNOWN", "POWER_OFF", "IDLE", "RUNNING"},
                safety : {"UNDEFINED", "NORMAL", "PROTECTIVE_STOP", "FAULT"}, running : BOOLEAN,
                goal : Targets \cup {NoTarget}, goals : 0..MaxTargets, sound : BOOLEAN,
                pc : {"idle", "start", "transition", "recover", "restart_safety", "jump", "power_on",
                      "command", "reach", "play"},
                then : {"", "transition", "jump", "power_on", "reach"}, result : {"", "succeeded", "aborted"}]
RshInit == rsh = [mode |-> "UNKNOWN", safety |-> "UNDEFINED", running |-> FALSE, goal |-> NoTarget,
                  pc |-> "idle", then |-> "", result |-> "", goals |-> 0, sound |-> TRUE]

(***************************************************************************)
(* The topics of the driver: what they told is never newer than the robot. *)
(***************************************************************************)
RobotModeCallback == rsh.mode # ctl.mode /\ rsh' = [rsh EXCEPT !.mode = ctl.mode]
SafetyModeCallback == rsh.safety # ctl.safety /\ rsh' = [rsh EXCEPT !.safety = ctl.safety]
ProgramRunningCallback ==
    rsh.running # (ctl.script # NoScript) /\ rsh' = [rsh EXCEPT !.running = ~@]
Topics == (RobotModeCallback \/ SafetyModeCallback \/ ProgramRunningCallback) /\ UNCHANGED pvars
UpToDate == /\ rsh.mode = ctl.mode /\ rsh.safety = ctl.safety
            /\ conn.live /\ stores.view = State(ctl)
            /\ ctl.inbox = <<>> /\ ctl.out = <<>> /\ conn.queue = <<>>

(***************************************************************************)
(* The action server.                                                      *)
(***************************************************************************)
SetModeGoal(g) ==
    /\ rsh.goal = NoTarget /\ rsh.goals < MaxTargets /\ UNCHANGED pvars
    /\ rsh.mode # "UNKNOWN" /\ rsh.safety # "UNDEFINED"
    /\ rsh' = [rsh EXCEPT !.goal = g, !.goals = @ + 1, !.pc = "start",
                          !.sound = UpToDate]

Aborted(r) == [r EXCEPT !.goal = NoTarget, !.pc = "idle", !.result = "aborted"]
Succeeded(r) == [r EXCEPT !.goal = NoTarget, !.pc = "idle", !.result = "succeeded"]
Jump(cmd, then) == CallCommand(cmd) /\ rsh' = [rsh EXCEPT !.pc = "command", !.then = then]
Step(r) == rsh' = r /\ UNCHANGED pvars
Decide(pc) == Step([rsh EXCEPT !.pc = pc])
CommandFor(mode) == CASE mode = "POWER_OFF" -> "power_off"
                      [] mode = "IDLE" -> "power_on"
                      [] mode = "RUNNING" -> "set_robotmode_run"
Settable == {"POWER_OFF", "IDLE", "RUNNING"}

Start == /\ rsh.pc = "start"
         /\ CASE rsh.goal.mode \notin Settable -> Step(Aborted(rsh))
              [] rsh.goal.mode \in Settable /\ rsh.goal.stop /\ rsh.running ->
                     Jump("stop_program", "transition")
              [] OTHER -> Decide("transition")
(* Whether there is something to do; the mutant looks at the mode alone.   *)
ModeDiffers == rsh.mode # rsh.goal.mode
TransitionNeeded == rsh.mode # rsh.goal.mode \/ rsh.safety # "NORMAL"
Transition ==
    /\ rsh.pc = "transition"
    /\ Decide(IF TransitionNeeded THEN "recover" ELSE "reach")
RecoverFromSafety ==
    /\ rsh.pc = "recover"
    /\ CASE rsh.safety = "PROTECTIVE_STOP" -> Jump("set_unlock_protective_stop", "jump")
         [] rsh.safety = "FAULT" -> Decide("restart_safety")
         [] OTHER -> Decide("jump")
(* ~/restart_safety of the dashboard client, which may fail. *)
RestartSafety ==
    /\ rsh.pc = "restart_safety"
    /\ \/ Step(Aborted(rsh))
       \/ /\ ctl.safety = "FAULT" /\ rsh' = [rsh EXCEPT !.pc = "jump"]
          /\ ctl' = [Safety(ctl, "NORMAL") EXCEPT !.mode = "POWER_OFF"]
          /\ UNCHANGED <<conn, stores, caller, breaks>>
(* The brakes cannot be engaged: RUNNING is left for IDLE by way of        *)
(* POWER_OFF.                                                              *)
JumpToRobotMode == IF rsh.mode = "RUNNING" /\ rsh.goal.mode = "IDLE" THEN Jump("power_off", "power_on")
                   ELSE Jump(CommandFor(rsh.goal.mode), "reach")
DoTransition == /\ rsh.pc = "jump"
                /\ IF rsh.mode \in Settable THEN JumpToRobotMode ELSE Step(Aborted(rsh))
PowerOn == rsh.pc = "power_on" /\ Jump("power_on", "reach")
CommandReturns ==
    /\ rsh.pc = "command" /\ caller.pc = "idle"
    /\ Step(IF caller.result = "done" THEN [rsh EXCEPT !.pc = rsh.then]
            ELSE [Aborted(rsh) EXCEPT !.sound = FALSE])
(* error_ is never set: only the mode ends the waiting.                    *)
WaitForMode ==
    /\ rsh.pc = "reach" /\ rsh.mode = rsh.goal.mode
    /\ IF rsh.mode = "RUNNING" /\ rsh.goal.play /\ ~rsh.running THEN Decide("play") ELSE Step(Succeeded(rsh))
(* Headless: resend_robot_program of the driver; else the dashboard's play *)
PlayProgram ==
    /\ rsh.pc = "play"
    /\ \/ Step(Aborted(rsh))
       \/ /\ ctl.mode = "RUNNING" /\ ctl.safety = "NORMAL" /\ rsh' = Succeeded(rsh)
          /\ ctl' = Say([Over(ctl) EXCEPT !.script = Program], Key("STARTED", Program))
          /\ UNCHANGED <<conn, stores, caller, breaks>>

HelperThread == \/ Start \/ Transition \/ RecoverFromSafety \/ RestartSafety \/ DoTransition \/ PowerOn
                \/ CommandReturns \/ WaitForMode \/ PlayProgram
(* What the pendant does while a goal is under way is not the helper's.    *)
Upsetting == rsh' = [rsh EXCEPT !.sound = @ /\ breaks' = breaks]
HelperNext == Topics \/ HelperThread \/ \E g \in Targets : SetModeGoal(g)

-----------------------------------------------------------------------------
(* What a step may say of a goal that it ends. *)
SuccessStep ==
    /\ rsh' \in HelperState
    /\ (rsh.goal # NoTarget /\ rsh'.goal = NoTarget /\ rsh'.result = "succeeded" /\ rsh.sound)
         => ctl.mode = rsh.goal.mode /\ ctl.safety = "NORMAL"

(* While nobody else moves the robot and no command has failed, a set_mode *)
(* goal that began when the topics and the primary client told the robot's *)
(* state succeeds only when the robot is in the target mode and out of its *)
(* protective stop or fault.                                               *)
SuccessIsReached == [][SuccessStep]_<<rsh, pvars>>

(* ... and it is answered.                                                 *)
GoalAnswered == rsh.goal = NoTarget \/ ~rsh.sound
=============================================================================
