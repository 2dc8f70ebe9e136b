--------------------------- MODULE ExternalControl ---------------------------
(***************************************************************************)
(* The robot program external_control.urscript and the three sockets that  *)
(* join it to the driver: the reverse socket (one command per control      *)
(* cycle), the trajectory socket (points down, results up) and the script  *)
(* command socket (commands down, tool contact results up).  The numbers a *)
(* command carries are left out; a trajectory point is <<goal, index>>.    *)
(***************************************************************************)
EXTENDS Integers, Sequences

CONSTANT MaxUpsets   \* bound on the upsets of a session

VARIABLES
    robot,   \* the program: on, control mode, trajectory thread, freedrive, ...
    net,     \* the sockets and whether the driver's servers hold a client
    clean,   \* history: nothing but success since the driver was last at rest
    upsets   \* how often the program was stopped, starved or a goal cancelled

Command(mode, arg, n) == [mode |-> mode, arg |-> arg, n |-> n]

(* What write() of the three servers does: the bytes reach a program that  *)
(* runs, vanish in a socket it has closed, and are refused without client. *)
HasClient(n) == n.peer \in {"up", "going"}
SendReverse(n, c) == IF n.peer = "up" THEN [n EXCEPT !.rev = Append(@, c)] ELSE n
SendPoints(n, s)  == IF n.peer = "up" THEN [n EXCEPT !.trj = @ \o s] ELSE n
SendScript(n, c)  == IF n.peer = "up" THEN [n EXCEPT !.scr = Append(@, c)] ELSE n

(* clearTrajectoryPointsThread: read what is left of the old trajectory *)
Drained(trj, left) == SubSeq(trj, left + 1, Len(trj))

(* The program's mode and global flags, given what a point can be.         *)
ControlModes == {"uninitialized", "idle", "servoj", "speedj", "torque", "forward", "freedrive", "contact"}
RobotProgram(points) == [on : BOOLEAN, mode : ControlModes, left : Int, thread : BOOLEAN, run : Seq(points),
                         freedrive : BOOLEAN, tool : BOOLEAN, touched : BOOLEAN, force : BOOLEAN]

ExternalControlInit ==
    /\ robot = [on |-> FALSE, mode |-> "uninitialized", left |-> 0, thread |-> FALSE, run |-> <<>>,
                freedrive |-> FALSE, tool |-> FALSE, touched |-> FALSE, force |-> FALSE]
    /\ net = [peer |-> "none", rev |-> <<>>, trj |-> <<>>, res |-> <<>>,
              scr |-> <<>>, ans |-> <<>>]
    /\ clean = TRUE /\ upsets = 0

(* The program is started on the pendant, or sent by the driver, and opens *)
(* its sockets; a server has at most one client, so it waits for the old   *)
(* connection to be gone.                                                  *)
StartProgram ==
    /\ ~robot.on /\ net.peer = "none"
    /\ robot' = [robot EXCEPT !.on = TRUE]
    /\ net' = [net EXCEPT !.peer = "coming"]
    /\ UNCHANGED <<clean, upsets>>

Halted == [robot EXCEPT !.on = FALSE, !.mode = "uninitialized", !.left = 0, !.thread = FALSE,
                        !.freedrive = FALSE, !.tool = FALSE, !.force = FALSE]
Closed(n) == [n EXCEPT !.rev = <<>>, !.trj = <<>>, !.scr = <<>>,
                       !.peer = IF @ = "up" THEN "going" ELSE @]

Upset == clean' = FALSE /\ upsets < MaxUpsets /\ upsets' = upsets + 1

(* Stop on the pendant, a protective stop, or the power. *)
StopProgram ==
    /\ robot.on
    /\ robot' = Halted /\ net' = Closed(net) /\ Upset

(* The read of the reverse socket times out: the script exits.  The first  *)
(* read of the program has no timeout.                                     *)
ReceiveTimeout ==
    /\ robot.on /\ net.rev = <<>> /\ robot.mode # "uninitialized"
    /\ robot' = Halted /\ net' = Closed(net)
    /\ clean' = FALSE /\ UNCHANGED upsets

(* A program in freedrive leaves it with the mode and on a STOP; the mutant *)
(* does not end freedrive when the mode changes.                           *)
FreedriveKept(switch, mode, arg) ==
    (mode = "freedrive" /\ arg = "start") \/ (robot.freedrive /\ ~(mode = "freedrive" /\ arg = "stop"))
FreedriveAfter(switch, mode, arg) ==
    \/ mode = "freedrive" /\ arg = "start"
    \/ /\ robot.freedrive /\ ~(switch /\ robot.mode = "freedrive")
       /\ ~(mode = "freedrive" /\ arg = "stop")

(* One turn of the control loop: switch the mode, then obey the command. *)
ReadCommand ==
    /\ robot.on /\ net.rev # <<>>
    /\ LET c == Head(net.rev)
           switch == c.mode # robot.mode
           left == switch /\ robot.mode = "forward"
           mode == IF switch /\ ~(robot.mode = "contact" /\ robot.tool) THEN c.mode ELSE robot.mode
           start == mode = "forward" /\ c.arg = "start"
           cancel == mode = "forward" /\ c.arg = "cancel"
           kill == left \/ start \/ cancel
           canceled == cancel \/ (left /\ robot.left > 0)
       IN  /\ robot' = [robot EXCEPT
                !.mode = mode,
                !.thread = start \/ (@ /\ ~kill),
                !.left = IF start THEN c.n ELSE IF kill THEN 0 ELSE @,
                !.run = IF start THEN <<>> ELSE @,
                !.freedrive = FreedriveAfter(switch, mode, c.arg)]
           /\ net' = [net EXCEPT
                !.rev = Tail(@),
                !.trj = IF kill THEN Drained(@, robot.left) ELSE @,
                !.res = IF canceled THEN Append(@, "canceled") ELSE @]
           /\ clean' = (clean /\ ~canceled) /\ UNCHANGED upsets

(* trajectoryThread: one point, a point that does not come in time, the end *)
ExecutePoint ==
    /\ robot.thread /\ robot.left > 0 /\ net.trj # <<>>
    /\ robot' = [robot EXCEPT !.left = @ - 1, !.run = IF clean THEN Append(@, Head(net.trj)) ELSE <<>>]
    /\ net' = [net EXCEPT !.trj = Tail(@)]
    /\ UNCHANGED <<clean, upsets>>

PointMissing ==
    /\ robot.thread /\ robot.left > 0 /\ net.trj = <<>>
    /\ robot' = [robot EXCEPT !.left = @ - 1, !.thread = FALSE]
    /\ net' = [net EXCEPT !.res = Append(@, "failure")]
    /\ clean' = FALSE
PointTimeout == PointMissing /\ Upset

FinishTrajectory ==
    /\ robot.thread /\ robot.left = 0
    /\ robot' = [robot EXCEPT !.thread = FALSE]
    /\ net' = [net EXCEPT !.res = Append(@, "success")]
    /\ UNCHANGED <<clean, upsets>>

(* tool_contact_detection: the motion ends where the tool first touched *)
DetectContact ==
    /\ robot.on /\ robot.tool /\ robot.mode \notin {"uninitialized", "contact"}
    /\ robot' = [robot EXCEPT !.mode = "contact", !.freedrive = FALSE, !.touched = TRUE,
                              !.thread = FALSE, !.left = 0]
    /\ net' = [net EXCEPT !.ans = Append(@, "success"), !.trj = Drained(@, robot.left)]
    /\ UNCHANGED <<clean, upsets>>

(* thread script_commands *)
RunScriptCommand ==
    /\ robot.on /\ net.scr # <<>>
    /\ LET c == Head(net.scr)
           refused == c = "end_tool" /\ robot.mode # "contact"
       IN  /\ robot' = [robot EXCEPT !.force = (@ \/ c = "start_force") /\ c # "end_force",
                                     !.tool = (@ \/ c = "start_tool") /\ c # "end_tool"]
           /\ net' = [net EXCEPT !.scr = Tail(@),
                                 !.ans = IF refused THEN Append(@, "canceled") ELSE @]
           /\ clean' = (clean /\ ~refused) /\ UNCHANGED upsets

RobotStep == \/ ReadCommand \/ ExecutePoint \/ PointTimeout \/ FinishTrajectory
             \/ DetectContact \/ RunScriptCommand
=============================================================================
