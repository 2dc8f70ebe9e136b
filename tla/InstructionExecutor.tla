------------------------- MODULE InstructionExecutor -------------------------
(***************************************************************************)
(* The library's InstructionExecutor: one thread executes a sequence of    *)
(* motions, another may cancel it, and the worker of the trajectory server *)
(* stores the robot's result between the steps of both.  What a motion is  *)
(* told to the robot as is the type of its primitive.                      *)
(***************************************************************************)
EXTENDS ExternalControl

CONSTANTS
    Motions,    \* the sequences of primitives that are executed
    Whole,      \* the fraction 1.0 of optimoveJ and optimoveL
    MaxMotions  \* bound on the sequences executed one after another

Moves == {"MOVEJ", "MOVEL", "MOVEP", "MOVEC", "OPTIMOVEJ", "OPTIMOVEL", "SPLINE"}
Primitive == [move : Moves, target : {"joints", "pose"}, via : {"none", "joints", "pose"},
              velocity : Int, acceleration : Int, blend : Int]
ASSUME ExecutorAssumption == Motions \subseteq Seq(Primitive) /\ MaxMotions \in Nat

VARIABLE ex     \* the executing thread, the cancelling one, what they share, and history

(***************************************************************************)
(* A primitive: its class, what target and via point are given as, limits. *)
(***************************************************************************)
Optimal == {"OPTIMOVEJ", "OPTIMOVEL"}
NotNegative(p) == p.blend >= 0 /\ p.acceleration >= 0 /\ p.velocity >= 0
Fractions(p) == p.acceleration \in 1..Whole /\ p.velocity \in 1..Whole
Validate(p) == p.move = "SPLINE" \/ (NotNegative(p) /\ (p.move \in Optimal => Fractions(p)))

(* setTarget(), recomputeType(): the type tells the robot what the numbers *)
(* are; the mutant takes a via point for what the target is.               *)
JointType(p) == IF p.target = "pose" THEN <<p.move, "POSE">> ELSE <<p.move, "">>
LinearType(p) == IF p.target = "joints" THEN <<p.move, "JOINT">> ELSE <<p.move, "">>
CircleAsTarget(p) == IF p.target = "joints" THEN <<p.move, "JOINT">> ELSE <<p.move, "">>
CircleType(p) == CASE p.target = "pose" /\ p.via = "pose" -> <<p.move, "">>
                   [] p.target = "joints" /\ p.via = "joints" -> <<p.move, "JOINT">>
                   [] p.target = "pose" /\ p.via = "joints" -> <<p.move, "POSE_JOINT">>
                   [] OTHER -> <<p.move, "JOINT_POSE">>
OptimalType(p) == IF p.move = "OPTIMOVEJ" THEN JointType(p) ELSE LinearType(p)
MotionType(p) == CASE p.move \in {"MOVEJ", "SPLINE"} -> JointType(p)
                   [] p.move \in {"MOVEL", "MOVEP"} -> LinearType(p)
                   [] p.move = "MOVEC" -> CircleType(p)
                   [] p.move \in Optimal -> OptimalType(p)
MotionTypes == Moves \X {"", "POSE", "JOINT", "POSE_JOINT", "JOINT_POSE"}
(* trajectoryThread: what a point of a type is executed as.                *)
Decoded(t) ==
    CASE t[1] = "MOVEC" ->
            [move |-> t[1], target |-> IF t[2] \in {"JOINT", "JOINT_POSE"} THEN "joints" ELSE "pose",
             via |-> IF t[2] \in {"JOINT", "POSE_JOINT"} THEN "joints" ELSE "pose"]
      [] t[1] \in {"MOVEJ", "OPTIMOVEJ", "SPLINE"} ->
            [move |-> t[1], target |-> IF t[2] = "POSE" THEN "pose" ELSE "joints", via |-> "none"]
      [] OTHER -> [move |-> t[1], target |-> IF t[2] = "JOINT" THEN "joints" ELSE "pose", via |-> "none"]
Asked(p) == [move |-> p.move, target |-> p.target, via |-> p.via]

(* A primitive that is not valid is not written; nobody looks at that.     *)
WriteMotionPrimitive(n, p) == IF Validate(p) THEN SendPoints(n, <<MotionType(p)>>) ELSE n

NoMotion == <<>>
ExecutorInit == ex = [pc |-> "idle", motion |-> NoMotion, written |-> 0, running |-> FALSE, cancel |-> FALSE,
                      result |-> "unknown", user |-> "idle", missed |-> FALSE,
                      success |-> FALSE, canceled |-> FALSE, n |-> 0]

(***************************************************************************)
(* executeMotion()                                                         *)
(***************************************************************************)
Stay == UNCHANGED <<robot, clean, upsets>>
To(e, pc) == ex' = [e EXCEPT !.pc = pc]
Returns(e, success) == ex' = [e EXCEPT !.pc = "idle", !.success = success, !.missed = FALSE]

ExecuteMotion(m) ==
    /\ ex.pc = "idle" /\ Len(net.rev) < 2 /\ ex.n < MaxMotions
    /\ LET e == [ex EXCEPT !.motion = m, !.written = 0, !.n = @ + 1]
       IN  IF HasClient(net)
           THEN /\ net' = SendReverse(net, Command("forward", "start", Len(m))) /\ To(e, "points")
           ELSE /\ Returns([e EXCEPT !.result = "failure"], FALSE) /\ UNCHANGED net
    /\ Stay
WritePoint == /\ ex.pc = "points" /\ ex.written < Len(ex.motion) /\ Stay
              /\ net' = WriteMotionPrimitive(net, ex.motion[ex.written + 1])
              /\ ex' = [ex EXCEPT !.written = @ + 1]
SetRunning == /\ ex.pc = "points" /\ ex.written = Len(ex.motion)
              /\ To([ex EXCEPT !.running = TRUE], "uncancel") /\ UNCHANGED net /\ Stay
ClearCancel == ex.pc = "uncancel" /\ To([ex EXCEPT !.cancel = FALSE], "loop") /\ UNCHANGED net /\ Stay
Noop == /\ ex.pc = "loop" /\ ex.running /\ ~ex.cancel /\ net.rev = <<>>
        /\ net' = SendReverse(net, Command("forward", "noop", 0)) /\ UNCHANGED ex /\ Stay
LoopEnds == /\ ex.pc = "loop" /\ (~ex.running \/ ex.cancel)
            /\ To(ex, "finish") /\ UNCHANGED net /\ Stay
FinishMotion ==
    /\ ex.pc = "finish" /\ Stay
    /\ IF ex.cancel THEN Returns(ex, FALSE) /\ UNCHANGED net
       ELSE /\ net' = SendReverse(net, Command("idle", "", 0))
            /\ Returns(ex, ex.result = "success")
ExecutingThread == WritePoint \/ SetRunning \/ ClearCancel \/ Noop \/ LoopEnds \/ FinishMotion

(***************************************************************************)
(* cancelMotion()                                                          *)
(***************************************************************************)
CancelMotion == /\ ex.user = "idle" /\ ex.pc # "idle" /\ Upset
                /\ ex' = [ex EXCEPT !.user = "check", !.cancel = TRUE]
                /\ UNCHANGED <<robot, net>>
CancelRequested ==
    /\ ex.user = "check" /\ Stay
    /\ IF ex.running
       THEN /\ ex' = [ex EXCEPT !.user = "lock"]
            /\ net' = SendReverse(net, Command("forward", "cancel", 0))
       ELSE ex' = [ex EXCEPT !.user = "idle", !.canceled = FALSE] /\ UNCHANGED net
WaitForCancel == ex.user = "lock" /\ ex' = [ex EXCEPT !.user = "wait"] /\ UNCHANGED net /\ Stay
CancelReturns == /\ ex.user \in {"wait", "woken"} /\ UNCHANGED net /\ Stay
                 /\ ex' = [ex EXCEPT !.user = "idle",
                                     !.canceled = ex.user = "woken" /\ ex.result = "canceled"]
CancellingThread == CancelRequested \/ WaitForCancel \/ CancelReturns

(***************************************************************************)
(* The worker of the trajectory server.                                    *)
(***************************************************************************)
Notified(e) == [e EXCEPT !.user = IF @ = "wait" THEN "woken" ELSE @]
Stored(e, r) == [Notified(e) EXCEPT !.result = r, !.running = FALSE]
TooEarly(e) == [e EXCEPT !.missed = @ \/ e.pc = "points"]
TrajDoneCallback ==
    /\ net.res # <<>> /\ net' = [net EXCEPT !.res = Tail(@)] /\ Stay
    /\ ex' = TooEarly(IF ex.running THEN Stored(ex, Head(net.res)) ELSE ex)
(* Mutant: a lost connection ends no motion.                               *)
DisconnectUnnoticed(e) == Notified(e)
Disconnected(e) == IF e.running THEN Stored(e, "failure") ELSE Notified(e)
TrajDisconnectCallback ==
    /\ net.peer = "going" /\ net.res = <<>> /\ net' = [net EXCEPT !.peer = "none"] /\ Stay
    /\ ex' = TooEarly(Disconnected(ex))
TrajConnectCallback ==
    /\ net.peer = "coming" /\ net' = [net EXCEPT !.peer = IF robot.on THEN "up" ELSE "going"]
    /\ UNCHANGED ex /\ Stay
Worker == TrajDoneCallback \/ TrajDisconnectCallback \/ TrajConnectCallback
(* Two results that are received at once are ignored. *)
TrajResultsIgnored ==
    /\ Len(net.res) >= 2 /\ net' = [net EXCEPT !.res = Tail(Tail(@))]
    /\ ex' = [ex EXCEPT !.missed = @ \/ ex.pc # "idle"] /\ Stay

RobotReads == ReadCommand /\ UNCHANGED ex
RobotMoves == /\ Len(net.res) < 2
              /\ ExecutePoint \/ FinishTrajectory \/ (PointMissing /\ UNCHANGED upsets)
              /\ UNCHANGED ex

-----------------------------------------------------------------------------
(* While nothing was cancelled and nothing failed, executeMotion() tells   *)
(* success only when the robot has executed the motions asked for, all, in *)
(* order, and each target and via point taken for what it is.  A           *)
(* cancellation that is told to have worked leaves nothing moving once the *)
(* robot has read all that was written.                                    *)
MotionTruth ==
    /\ [][(ex.pc = "finish" /\ ex'.pc = "idle" /\ ex'.success /\ clean)
          => [i \in DOMAIN robot.run |-> Decoded(robot.run[i])]
             = [i \in DOMAIN ex.motion |-> Asked(ex.motion[i])]]_<<ex, robot>>
    /\ [](ex.canceled /\ ex.pc = "idle" /\ net.rev = <<>> => ~robot.thread)

(* executeMotion() returns, unless the robot's answer, or the end of its   *)
(* program, comes before trajectory_running_ is set, or with another one.  *)
MotionReturns == []<>(ex.pc = "idle" \/ ex.missed)
=============================================================================
