-------------------------- MODULE HardwareInterface --------------------------
(***************************************************************************)
(* URPositionHardwareInterface: the command interfaces the controllers     *)
(* share, the control cycle that turns them into messages for the robot    *)
(* program, and the thread for what is not sent in the control cycle.      *)
(* Other threads store into the same variables: the worker of the          *)
(* trajectory server, the worker of the script command server, services.   *)
(***************************************************************************)
EXTENDS CommandModes, ExternalControl

CONSTANTS
    Goals,        \* trajectories clients send
    Points,       \* [Goals -> number of points]
    Lead,         \* [Goals -> points before time_from_start exceeds five cycles]
    Torque        \* whether the robot's software has torque control

VARIABLES
    hw,      \* the hardware interface's members
    rt       \* the control cycle: its phase and the transfer state it loaded

ASSUME DriverAssumption == /\ Goals \subseteq Nat \ {0}
                           /\ Points \in [Goals -> Nat \ {0}]
                           /\ Lead \in [Goals -> Nat]
                           /\ Torque \in BOOLEAN

NoCmd == -1                              \* NO_NEW_CMD_, a NaN
Waiting == 2                             \* ASYNC_WAITING
Flag(b) == IF b THEN 1 ELSE 0
NoPoint == <<>>

Cmd == {NoCmd, 0, 1, Waiting}
PassthroughMembers == [state : 0..6, abort : {0, 1}, size : Nat, point : Seq(Nat), vec : Seq(Seq(Nat)),
                       received : Nat, sent : Nat, started : BOOLEAN, late : BOOLEAN]
ContactMembers == [set : 0..7, state : 0..7, result : NoCmd..3]
FreedriveMembers == [enable : Cmd, abort : Cmd, activated : BOOLEAN, async : Cmd]
ForceMembers == [params : BOOLEAN, disable : Cmd, async : Cmd]
Hardware ==
    [modes : SUBSET Modes, start : SUBSET Modes, stop : SUBSET Modes,
     program : BOOLEAN, playing : BOOLEAN, fresh : BOOLEAN, crashed : BOOLEAN,
     pt : PassthroughMembers, tc : ContactMembers, fd : FreedriveMembers, fm : ForceMembers]

(* What the controllers store into and read, as it is exported.            *)
Exported ==
    [pt |-> [state |-> 0, abort |-> 0, size |-> 0, point |-> NoPoint, vec |-> <<>>,
             received |-> 0, sent |-> 0, started |-> FALSE, late |-> FALSE],
     tc |-> [set |-> 0, state |-> 0, result |-> NoCmd],
     fd |-> [enable |-> NoCmd, abort |-> NoCmd, activated |-> FALSE, async |-> NoCmd],
     fm |-> [params |-> FALSE, disable |-> NoCmd, async |-> NoCmd]]

HardwareInit ==
    /\ hw = [modes |-> {}, program |-> FALSE, playing |-> FALSE, fresh |-> FALSE,
             start |-> {}, stop |-> {}, crashed |-> FALSE,
             pt |-> Exported.pt, tc |-> Exported.tc, fd |-> Exported.fd, fm |-> Exported.fm]
    /\ rt = [phase |-> "read", seen |-> 0]

(***************************************************************************)
(* The steps of write() take and return both sides of the driver: its      *)
(* members and its sockets, s = [h, n].                                    *)
(***************************************************************************)
Tell(s, mode, arg, n) == [s EXCEPT !.n = SendReverse(@, Command(mode, arg, n))]
Script(s, c) == [s EXCEPT !.n = SendScript(@, c)]

(* Mutant: the flag the service waits for is not stored. *)
StartUnanswered(s) == [Script(s, "start_force") EXCEPT !.h.fm.params = FALSE]
StartForceMode(s) ==
    LET t == Script(s, "start_force")
    IN  [t EXCEPT !.h.fm.async = Flag(HasClient(s.n)), !.h.fm.params = FALSE]
StopForceMode(s) ==
    LET t == Script(s, "end_force")
    IN  [t EXCEPT !.h.fm.async = Flag(HasClient(s.n)), !.h.fm.disable = NoCmd]

(* The points are late when the trajectory has to start: enough of them to *)
(* move for five cycles have been taken over, or all but one.              *)
Enough(pt) == pt.point[2] > Lead[pt.point[1]] \/ pt.received = pt.size - 1

(* check_passthrough_trajectory_controller(), first half; seen is the      *)
(* transfer state it loaded.  operator[] does not check its index.         *)
(* The robot is told how many points will come; the mutant counts those    *)
(* that have been received.                                                *)
AnnouncedShort(pt) == pt.received
Announced(pt) == Len(pt.vec)
TakePoint(s) ==
    LET h == s.h
        got == [h.pt EXCEPT !.abort = 0, !.state = 1, !.received = @ + 1,
                            !.vec = [@ EXCEPT ![h.pt.received + 1] = h.pt.point]]
    IN  IF h.pt.received >= Len(h.pt.vec) THEN [s EXCEPT !.h.crashed = TRUE]
        ELSE IF Enough(got) /\ ~h.pt.started
        THEN Tell([s EXCEPT !.h.pt = [got EXCEPT !.started = TRUE]], "forward", "start", Announced(got))
        ELSE [s EXCEPT !.h.pt = got]
Transfer(s, seen) ==
    LET pt == s.h.pt
    IN  CASE pt.abort = 1 /\ seen # 0 -> Tell(s, "forward", "cancel", 0)
          [] ~(pt.abort = 1) /\ seen = 6 /\ pt.size # Len(pt.vec) ->
                [s EXCEPT !.h.pt = [@ EXCEPT !.vec = [i \in 1..pt.size |-> NoPoint], !.received = 0,
                                             !.sent = 0, !.started = FALSE, !.state = 1]]
          [] ~(pt.abort = 1) /\ seen = 2 -> TakePoint(s)
          [] ~(pt.abort = 1) /\ seen = 3 -> [s EXCEPT !.h.pt.abort = 0, !.h.pt.state = 4]
          [] ~(pt.abort = 1) /\ seen = 4 /\ pt.sent = Len(pt.vec) -> [s EXCEPT !.h.pt.vec = <<>>]
          [] OTHER -> s
(* ... and second half: what has been taken over is sent to the robot *)
SendTaken(s) ==
    LET pt == s.h.pt
    IN  IF ~(pt.started /\ pt.sent <= Len(pt.vec) /\ pt.sent < pt.received) THEN s
        ELSE IF pt.vec = <<>> THEN [s EXCEPT !.h.pt.abort = 1, !.h.pt.state = 5]
        ELSE [s EXCEPT !.n = SendPoints(@, SubSeq(pt.vec, pt.sent + 1, pt.received)),
                       !.h.pt.sent = pt.received]
CheckPassthrough(s, seen) == SendTaken(Transfer(s, seen))

(* check_tool_contact_controller(): a start that is sent forgets the last  *)
(* result (the mutant does not).                                           *)
ContactKept(h) == [h EXCEPT !.tc.state = 3]
ContactStarted(h) == [h EXCEPT !.tc.state = 3, !.tc.result = 3]
CheckToolContact(s) ==
    LET set == s.h.tc.set
    IN  CASE set = 2 -> [Script(s, "start_tool") EXCEPT
                            !.h = IF HasClient(s.n) THEN ContactStarted(@) ELSE [@ EXCEPT !.tc.state = 4]]
          [] set = 5 -> [Script(s, "end_tool") EXCEPT !.h.tc.state = IF HasClient(s.n) THEN 6 ELSE 7]
          [] OTHER   -> [s EXCEPT !.h.tc.state = set]

(* write(): one motion command, then force mode, then tool contact *)
Motion(s, seen) ==
    LET h == s.h
    IN  CASE "position" \in h.modes -> Tell(s, "servoj", "", 0)
          [] "velocity" \in h.modes -> Tell(s, "speedj", "", 0)
          [] "effort" \in h.modes   -> Tell(s, "torque", "", 0)
          [] h.modes \cap JointModes = {} /\ "freedrive" \in h.modes /\ h.fd.activated ->
                Tell(s, "freedrive", "noop", 0)
          [] h.modes \cap JointModes = {} /\ "passthrough" \in h.modes ->
                CheckPassthrough(Tell(s, "forward", "noop", 0), seen)
          [] OTHER -> Tell(s, "idle", "", 0)
ForceControl(s) ==
    IF s.h.fm.params THEN StartForceMode(s)
    ELSE IF s.h.fm.disable # NoCmd /\ s.h.fm.async = Waiting THEN StopForceMode(s)
    ELSE s
Contact(s) == IF "tool_contact" \in s.h.modes THEN CheckToolContact(s) ELSE s
Written(s, seen) == [Contact(ForceControl(Motion(s, seen))) EXCEPT !.h.fresh = FALSE]

(***************************************************************************)
(* perform_command_mode_switch(): what it does beside the flags.           *)
(***************************************************************************)
PerformStops(s) ==
    LET stop == s.h.stop
        a == IF "force" \in stop THEN StopForceMode(s) ELSE s
        b == IF "passthrough" \in stop
             THEN [a EXCEPT !.h.pt.abort = 1, !.h.pt.vec = <<>>] ELSE a
        c == IF "freedrive" \in stop
             THEN [b EXCEPT !.h.fd.activated = FALSE, !.h.fd.abort = 1] ELSE b
    IN  IF "tool_contact" \in stop THEN [Script(c, "end_tool") EXCEPT !.h.tc.result = 3] ELSE c
PerformStarts(s) ==
    LET start == s.h.start
        a == IF "passthrough" \in start THEN [s EXCEPT !.h.pt.abort = 0] ELSE s
    IN  IF "freedrive" \in start THEN [a EXCEPT !.h.fd.activated = FALSE] ELSE a
PerformSwitch(s) ==
    [PerformStarts(PerformStops(s)) EXCEPT
        !.h.modes = Performed(s.h.modes, s.h.start, s.h.stop), !.h.start = {}, !.h.stop = {}]

(***************************************************************************)
(* The callbacks of the servers' workers.                                  *)
(***************************************************************************)
(* handleRobotProgramState(), from the reverse interface *)
ProgramConnected ==
    /\ net.peer = "coming"
    /\ net' = [net EXCEPT !.peer = IF robot.on THEN "up" ELSE "going"]
    /\ hw' = [hw EXCEPT !.program = TRUE]
    /\ UNCHANGED <<robot, clean, upsets, rt>>
ProgramDisconnected ==
    /\ net.peer = "going"
    /\ net' = [net EXCEPT !.peer = "none"]
    /\ hw' = [hw EXCEPT !.program = FALSE]
    /\ UNCHANGED <<robot, clean, upsets, rt>>

(* trajectory_done_callback() stores twice: the abort flag, then the state. *)
(* Two results received at once are eight bytes and are ignored.           *)
TrajectoryDoneAbort ==
    /\ net.res # <<>> /\ ~hw.pt.late
    /\ net' = [net EXCEPT !.res = Tail(@)]
    /\ hw' = [hw EXCEPT !.pt.abort = Flag(Head(net.res) = "failure"), !.pt.late = TRUE]
    /\ UNCHANGED <<robot, clean, upsets, rt>>
TrajectoryDoneState ==
    /\ hw.pt.late
    /\ hw' = [hw EXCEPT !.pt.state = 5, !.pt.late = FALSE]
    /\ UNCHANGED <<robot, net, clean, upsets, rt>>
ResultsCoalesced ==
    /\ Len(net.res) >= 2 /\ ~hw.pt.late
    /\ net' = [net EXCEPT !.res = Tail(Tail(@))]
    /\ UNCHANGED <<robot, clean, upsets, hw, rt>>

(* tool_contact_callback() *)
ToolContactDone ==
    /\ net.ans # <<>>
    /\ net' = [net EXCEPT !.ans = Tail(@)]
    /\ hw' = [hw EXCEPT !.tc.result = IF Head(net.ans) = "success" THEN 0 ELSE 1]
    /\ UNCHANGED <<robot, clean, upsets, rt>>
ContactsCoalesced ==
    /\ Len(net.ans) >= 2
    /\ net' = [net EXCEPT !.ans = Tail(Tail(@))]
    /\ UNCHANGED <<robot, clean, upsets, hw, rt>>

Callbacks == \/ ProgramConnected \/ ProgramDisconnected \/ TrajectoryDoneAbort
             \/ TrajectoryDoneState \/ ToolContactDone
=============================================================================
