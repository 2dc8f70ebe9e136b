------------------------------ MODULE UrDriver ------------------------------
(***************************************************************************)
(* The driver and the robot program together: the control cycle of the     *)
(* controller manager (read, update or switch, write), its switch service, *)
(* the action servers and services of the controllers, the async thread    *)
(* and the workers of the TCP servers.  A session is what a user works     *)
(* with; the controllers of other sessions stay inactive in it.  Session   *)
(* motion is the library's executor without ROS, whose callbacks these are.*)
(***************************************************************************)
EXTENDS PassthroughController, ToolContactController, ForceModeController, GPIOController,
        FrictionModelController, InstructionExecutor

CONSTANTS
    Sessions,   \* the sessions that are explored
    Lag         \* bound: commands on a socket that have not been read

ASSUME UrDriverAssumption == Lag \in Nat \ {0}

VARIABLES
    session,
    cm      \* the controller manager: active controllers and the switch under way

(* A controller is named by the command mode it claims. *)
Controllers == CASE session = "switching" -> Modes
                 [] session = "trajectory" -> {"passthrough"}
                 [] session = "contact" -> {"tool_contact"}
                 [] session = "freedrive" -> {"freedrive"}
                 [] session = "force" -> {"force"}
                 [] OTHER -> {}

ctrls == <<ptc, tcc, fdc, fmc, gpio>>
driver == <<robot, net, clean, upsets, hw, rt>>
setup == <<session, ex, frc>>
vars == <<driver, ctrls, async, setup, cm>>

Init == /\ ExternalControlInit /\ HardwareInit /\ PassthroughInit /\ ToolContactInit
        /\ FreedriveInit /\ ForceModeInit /\ GpioInit /\ FrictionInit /\ ExecutorInit
        /\ async = "idle"
        /\ session \in Sessions
        /\ cm = [active |-> {}, on |-> {}, off |-> {}, asked |-> FALSE]

(***************************************************************************)
(* Switching: prepare in the service's thread, perform in the cycle.       *)
(***************************************************************************)
RequestSwitch(on, off) ==
    /\ ~cm.asked /\ on \cap cm.active = {} /\ off \subseteq cm.active /\ on \cup off # {}
    /\ Prepared(hw.modes, on, off, Torque)
    /\ hw' = [hw EXCEPT !.start = on, !.stop = off]
    /\ cm' = [cm EXCEPT !.on = on, !.off = off, !.asked = TRUE]
    /\ UNCHANGED <<robot, net, clean, upsets, rt, ctrls, async, setup>>

Switch ==
    /\ rt.phase = "write" /\ cm.asked /\ Len(net.scr) <= Lag
    /\ LET s == PerformSwitch([h |-> hw, n |-> net])
           p == IF "passthrough" \in cm.off THEN PassthroughDeactivate(s.h, ptc)
                ELSE [h |-> s.h, c |-> ptc]
           m == IF "force" \in cm.off THEN ForceModeDeactivate(p.h) ELSE p.h
           t == IF "tool_contact" \in cm.on THEN ToolContactActivate(m) ELSE m
           f == IF "freedrive" \in cm.on THEN FreedriveActivate(t, fdc)
                ELSE [h |-> t, c |-> IF "freedrive" \in cm.off THEN FreedriveDeactivate(fdc) ELSE fdc]
       IN  /\ hw' = f.h /\ net' = s.n /\ rt' = [rt EXCEPT !.seen = f.h.pt.state]
           /\ ptc' = p.c /\ fdc' = f.c
           /\ tcc' = IF "tool_contact" \in cm.off THEN ToolContactDeactivate(tcc) ELSE tcc
           /\ fmc' = IF "force" \in cm.on THEN ForceModeActivate(fmc) ELSE fmc
    /\ cm' = [cm EXCEPT !.active = (@ \ cm.off) \cup cm.on, !.on = {}, !.off = {}, !.asked = FALSE]
    /\ IF cm.off \cap {"passthrough", "tool_contact"} = {} \/ session = "switching"
       THEN UNCHANGED <<clean, upsets>> ELSE Upset
    /\ UNCHANGED <<robot, gpio, async, setup>>

(***************************************************************************)
(* The control cycle.  A state another thread may store into is loaded and *)
(* acted upon in two steps: seen is what was loaded before that store.     *)
(* read() waits for data of the robot; that it does not come is followed   *)
(* where a session is short.                                               *)
(***************************************************************************)
Read(fresh) ==
    /\ rt.phase = "read" /\ (fresh \/ session \in {"switching", "force"})
    /\ hw' = [hw EXCEPT !.fresh = @ \/ fresh, !.playing = IF fresh THEN robot.on ELSE @]
    /\ rt' = [phase |-> "update", seen |-> hw.pt.state]
    /\ UNCHANGED <<robot, net, clean, upsets, ctrls, async, setup, cm>>

Update ==
    /\ rt.phase = "update" /\ session # "friction"
    /\ \E seen \in {rt.seen, hw.pt.state} :
       \E p \in IF "passthrough" \in cm.active THEN PassthroughUpdate(hw, ptc, seen)
                ELSE {[h |-> hw, c |-> ptc]} :
          LET t == IF "tool_contact" \in cm.active THEN ToolContactUpdate(p.h, tcc)
                   ELSE [h |-> p.h, c |-> tcc]
              f == IF "freedrive" \in cm.active THEN FreedriveUpdate(t.h, fdc)
                   ELSE [h |-> t.h, c |-> fdc]
              m == IF "force" \in cm.active THEN ForceModeUpdate(f.h, fmc)
                   ELSE [h |-> f.h, c |-> fmc]
          IN  /\ hw' = m.h /\ ptc' = p.c /\ tcc' = t.c /\ fdc' = f.c /\ fmc' = m.c
              /\ rt' = [phase |-> "write", seen |-> m.h.pt.state]
    /\ UNCHANGED <<robot, net, clean, upsets, gpio, async, setup, cm>>

MaySend == hw.playing /\ hw.program /\ hw.fresh
Write ==
    /\ rt.phase = "write" /\ ~cm.asked /\ Len(net.rev) < Lag /\ Len(net.scr) < Lag
    /\ \E seen \in {rt.seen, hw.pt.state} :
          LET s == IF MaySend THEN Written([h |-> hw, n |-> net], seen) ELSE [h |-> hw, n |-> net]
          IN  hw' = s.h /\ net' = s.n
    /\ rt' = [phase |-> "read", seen |-> 0]
    /\ UNCHANGED <<robot, clean, upsets, ctrls, async, setup, cm>>

(***************************************************************************)
(* Everything else runs between the steps of the cycle.                    *)
(***************************************************************************)
(* Requests are refused while the controller is not active, the end of     *)
(* freedrive's timer and the stop of force mode excepted.                  *)
Active(c) == c \in cm.active
Clients ==
    \/ /\ session = "trajectory"
       /\ PassthroughServer \/ (Active("passthrough") /\ \E g \in Goals : AcceptGoal(g))
       /\ UNCHANGED <<tcc, fdc, fmc, gpio, async, setup, cm>>
    \/ /\ session = "contact"
       /\ ToolContactServer \/ (Active("tool_contact") /\ AcceptContact)
       /\ UNCHANGED <<ptc, fdc, fmc, gpio, async, setup, cm>>
    \/ /\ session = "freedrive"
       /\ FreedriveTimeout \/ (Active("freedrive") /\ \E on \in BOOLEAN : FreedriveMessage(on))
       /\ UNCHANGED <<ptc, tcc, fmc, gpio, setup, cm>>
    \/ /\ session = "force"
       /\ \/ ReturnForceMode \/ CallForceMode(FALSE)
          \/ Active("force") /\ CallForceMode(TRUE)
       /\ UNCHANGED <<ptc, tcc, fdc, gpio, async, setup, cm>>
    \/ /\ session = "gpio" /\ GpioService
       /\ UNCHANGED <<ptc, tcc, fmc, setup, cm>>

FrictionModel == /\ session = "friction"
                 /\ FrictionService \/ FrictionAsync \/ FrictionCycle
                 /\ UNCHANGED <<ptc, tcc, fmc, gpio, session, ex, cm>>

Async == /\ \/ FreedriveAsync /\ UNCHANGED gpio
            \/ GpioAsync
         /\ UNCHANGED <<ptc, tcc, fmc, setup, cm>>

Workers == /\ Callbacks \/ ResultsCoalesced \/ ContactsCoalesced
           /\ UNCHANGED <<ctrls, async, setup, cm>>
Robot == /\ RobotStep /\ Len(net.res) <= Lag /\ Len(net.ans) <= Lag
         /\ UNCHANGED <<hw, rt, ctrls, async, setup, cm>>
(* A starved program stops like one that is stopped on the pendant: only   *)
(* one of the two is followed in a session.                                *)
Pendant == /\ session # "switching"
           /\ \/ StartProgram
              \/ StopProgram /\ session \notin {"freedrive", "gpio", "friction"}
              \/ ReceiveTimeout /\ session = "gpio"
           /\ UNCHANGED <<hw, rt, ctrls, async, setup, cm>>

(* A crash of the driver's process is the end. *)
ByExecutor(A) == session = "motion" /\ A /\ UNCHANGED <<hw, rt, ctrls, async, session, frc, cm>>
Executor == ByExecutor(\/ ExecutingThread \/ CancellingThread \/ Worker \/ TrajResultsIgnored
                       \/ RobotReads \/ RobotMoves \/ CancelMotion
                       \/ \E m \in Motions : ExecuteMotion(m))

Next == /\ ~hw.crashed
        /\ \/ Executor \/ Pendant
           \/ /\ session # "motion"
              /\ \/ \E on \in {A \in SUBSET Controllers : Cardinality(A) <= 2},
                       off \in SUBSET cm.active : RequestSwitch(on, off)
                 \/ Switch
                 \/ \E fresh \in BOOLEAN : Read(fresh)
                 \/ Update \/ Write
                 \/ Clients \/ FrictionModel \/ Async \/ Workers \/ Robot

(***************************************************************************)
(* Fairness: the cycle, the threads and the robot program go on, and the   *)
(* robot's data keeps coming; the read of the robot program times out when *)
(* nothing is sent any more.  No user has to do anything.  A session has   *)
(* one actor or the other of a pair, so that a pair shares one condition.  *)
(***************************************************************************)
Cycle == Switch \/ Update \/ Write \/ \E fresh \in BOOLEAN : Read(fresh)
Callback == Callbacks /\ UNCHANGED <<ctrls, async, setup, cm>>
RobotControl == ReadCommand /\ UNCHANGED <<hw, rt, ctrls, async, setup, cm>>
RobotScript == RunScriptCommand /\ UNCHANGED <<hw, rt, ctrls, async, setup, cm>>
RobotTimeout == session = "gpio" /\ ReceiveTimeout /\ UNCHANGED <<hw, rt, ctrls, async, setup, cm>>
ForceAnswer == session = "force" /\ ReturnForceMode /\ UNCHANGED <<ptc, tcc, fdc, gpio, async, setup, cm>>

Rest(A) == A /\ ~hw.crashed /\ session # "motion"
Fairness == /\ WF_vars(Rest(Cycle) \/ ByExecutor(ExecutingThread))
            /\ SF_vars(Rest(Read(TRUE)))
            /\ WF_vars(Rest(Async) \/ ByExecutor(CancellingThread))
            /\ WF_vars(Rest(Callback) \/ ByExecutor(Worker))
            /\ WF_vars(Rest(RobotControl) \/ ByExecutor(RobotReads))
            /\ WF_vars(Rest(RobotScript) \/ ByExecutor(RobotMoves))
            /\ WF_vars(Rest(RobotTimeout \/ ForceAnswer))

Spec == Init /\ [][Next]_vars /\ Fairness

-----------------------------------------------------------------------------
(* Between switches the hardware interface's running flags are the modes   *)
(* of the active controllers, and no two of them exclude each other.       *)
FlagsFollowControllers ==
    /\ hw.modes = cm.active
    /\ \A m \in hw.modes : Compatible(m, hw.modes)

(* While nothing was cancelled and nothing failed, a goal that is reported *)
(* successful is one whose points the robot has executed, all and in order.*)
SuccessIsExecution ==
    [][\A g \in Goals :
          ptc.status[g] = "accepted" /\ ptc'.status[g] = "succeeded" /\ clean
             => robot.run = [i \in 1..Points[g] |-> <<g, i>>]]_vars

(* The state of the driver and of the robot program has its type.          *)
DriverTypeOK == /\ robot \in RobotProgram(IF session = "motion" THEN MotionTypes ELSE Goals \X Nat)
                /\ hw \in Hardware /\ ptc \in Passthrough /\ tcc \in ToolContact
                /\ fdc \in Freedrive /\ fmc \in ForceMode /\ gpio \in Gpio
                /\ frc \in Friction

(* The hardware interface stores points only where there is room for them, *)
(* and its state, the controllers' and the program's keep their types.     *)
PointsFit ==
    /\ DriverTypeOK
    /\ clean => ~hw.crashed /\ (hw.pt.state = 2 => hw.pt.received < Len(hw.pt.vec))

(* While nothing was cancelled, tool contact is reported only when the     *)
(* robot has felt one since the goal was accepted.                         *)
ContactIsReal == [][tcc.status = "accepted" /\ tcc'.status = "succeeded" /\ clean
                       => robot.touched]_vars

(* Again and again the robot is out of freedrive, or the controller is     *)
(* active: whatever START was still under way when it was deactivated.     *)
FreedriveLeft == []<>(~robot.freedrive \/ "freedrive" \in cm.active)

(* No force mode request is waited for without end as long as its          *)
(* controller is active and the program runs.                              *)
ForceRequestEnds ==
    []<>(fmc.call = "none" \/ "force" \notin cm.active \/ ~robot.on \/ ~hw.program)

(* Until a service has timed out, success means that the hardware          *)
(* interface has sent the very request that is answered.                   *)
AckIsMine == /\ gpio.success /\ ~gpio.timedOut => gpio.sent = gpio.request
             /\ ScalesAreSent

(* Handing back control ends a program that has had a command from the     *)
(* driver: its read times out.                                             *)
HandBackEnds ==
    []<>(session = "motion" \/ hw.program \/ net.peer # "up" \/ robot.mode = "uninitialized" \/ ~robot.on)

(* What is asked of the robot through the update loop comes to an end.     *)
RequestsEnd == ForceRequestEnds /\ HandBackEnds
=============================================================================
