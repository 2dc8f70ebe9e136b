---------------------------- MODULE PickPipeline ----------------------------
(***************************************************************************)
(* The pick-and-place pipeline (pipeline.py) and the motion layer under it *)
(* (pipeline_motion.py), with the two action servers it commands - MoveIt's*)
(* move_group and the gripper controller - and the parts it handles.       *)
(*                                                                         *)
(* run_pipeline() is one thread that runs a list of stages.  A stage is a  *)
(* few operations; a motion or a gripper command is an action goal that is *)
(* sent, accepted and answered by a server that keeps working on it when   *)
(* the pipeline stops waiting: no path of the code cancels a goal.  So a   *)
(* goal outlives the timeout, and the process, that gave up on it, and the *)
(* next run of the pipeline may meet it.                                   *)
(***************************************************************************)
EXTENDS Naturals, Sequences

CONSTANTS
  Stages,    \* the stage list: records [kind, arg], see StageType
  Items,     \* the classes of parts handled; one part of each lies in its slot
  Zones,     \* names of the zone poses of the CSV table that stages move to
  CellZone,  \* the zone the parts are assembled in
  SlotOf,    \* the CSV grid pose over the part of each class
  Nowhere,   \* a grid pose without a part / a pose between the named ones
  MaxRuns,   \* bound: how often the pipeline process is started
  TfLag      \* TRUE: the TF buffer may still hold a pose from before the arm stopped

(* base_node.py: gripper positions in mm; a larger position closes.        *)
Position ==
  [body   |-> [OPEN |-> 6,  CLOSE |-> 10],
   mid    |-> [OPEN |-> 6,  CLOSE |-> 11],
   sensor |-> [OPEN |-> 8,  CLOSE |-> 15],
   wire5  |-> [OPEN |-> 18, CLOSE |-> 24],
   resist |-> [OPEN |-> 18, CLOSE |-> 24]]

Unknown == 0    \* last_gripper_position = None; no configured position is 0

Place == Zones \cup {SlotOf[i] : i \in Items} \cup {Nowhere}
Pose == [place : Place, low : BOOLEAN]
Above(place) == [place |-> place, low |-> FALSE]
Lowered(pose) == [pose EXCEPT !.low = TRUE]

StageType == [kind : {"zone"}, arg : Zones] \cup [kind : {"vote", "pick", "place"}, arg : Items]
Moves == {"moveZone", "moveSlot", "moveDown", "moveUp"}
Grips == {"gripPre", "gripPost"}
Ops == Moves \cup Grips \cup {"prepare", "vote", "readPose", "end"}

Runs == 1..MaxRuns

ASSUME ConstantsAssumption ==
  /\ Stages \in Seq(StageType) /\ Stages # <<>>
  /\ Items \subseteq DOMAIN Position
  /\ CellZone \in Zones /\ Nowhere \notin Zones
  /\ \A i \in Items : SlotOf[i] \notin Zones \cup {Nowhere}
  /\ \A i, j \in Items : SlotOf[i] = SlotOf[j] => i = j
  /\ MaxRuns \in Nat \ {0}
  /\ TfLag \in BOOLEAN

VARIABLES
  run,        \* number of the pipeline process
  outcome,    \* "running", or how the process ended
  stage, op,  \* the stage and the operation inside it
  phase,      \* "ready" to run op, or "waiting" for its goal
  startPose,  \* start_pose of the grasp sequence
  slot,       \* the grid pose the vote selected
  lastGrip,   \* last_gripper_position
  servers,    \* both action servers have been found
  goal,       \* per run, the goal it sent last, as its server sees it
  arm,        \* where the tool is when no motion is executing
  aperture,   \* position the gripper has reached
  where,      \* each part: in its "slot", "held", in the "cell" or "lost"
  tainted,    \* history: a run began with a goal of an earlier run still in
              \* flight, or with a part in the gripper or between the places
  missed      \* history: parts whose vote selected a grid pose without a part, or
              \* whose start pose was not the arm's

process == <<run, outcome, stage, op, phase, startPose, slot, lastGrip>>
world == <<arm, aperture, where>>
vars == <<process, servers, goal, world, tainted, missed>>

NoGoal == [st |-> "none", op |-> "end", pose |-> Above(Nowhere), grip |-> Unknown]
InFlight(r) == goal[r].st \in {"pending", "executing"}
Running == outcome = "running"
\* What a run leaves behind for the next one.
Leftovers == (\E r \in Runs : InFlight(r)) \/ \E i \in Items : where[i] \in {"held", "lost"}
Now == Stages[stage]

-----------------------------------------------------------------------------
(* The control flow of a stage.                                            *)

First(kind) == IF kind = "zone" THEN "moveZone" ELSE IF kind = "vote" THEN "vote"
               ELSE "readPose"


After(kind, o) ==
  CASE o = "vote" -> "moveSlot"
    [] o = "readPose" -> IF kind = "pick" THEN "gripPre" ELSE "moveDown"
    [] o = "gripPre" -> "moveDown"
    [] o = "moveDown" -> "gripPost"
    [] o = "gripPost" -> "moveUp"
    [] OTHER -> "end"


\* The operation is done: go on with the stage, the stage list or the end.
Advance ==
  LET next == After(Now.kind, op) IN
  /\ phase' = "ready"
  /\ IF next # "end"
       THEN op' = next /\ UNCHANGED <<stage, outcome>>
     ELSE IF stage < Len(Stages)
       THEN /\ stage' = stage + 1 /\ op' = First(Stages[stage + 1].kind)
            /\ UNCHANGED outcome
     ELSE outcome' = "complete" /\ op' = "end" /\ UNCHANGED stage

\* A stage returned False: run_pipeline() returns and main() ends the process.
Stop(how) == outcome' = how /\ UNCHANGED <<stage, op, phase>>

MoveTarget ==
  CASE op = "moveZone" -> Above(Now.arg)
    [] op = "moveSlot" -> Above(slot)
    [] op = "moveDown" -> Lowered(startPose)
    [] OTHER -> startPose


\* Mutant of GripTarget: a place opens first and closes at the bottom, as a pick.
GripTargetAsPick == Position[Now.arg][IF op = "gripPre" THEN "OPEN" ELSE "CLOSE"]

GripTarget ==
  Position[Now.arg][IF (op = "gripPre") = (Now.kind = "pick") THEN "OPEN" ELSE "CLOSE"]

-----------------------------------------------------------------------------
(* The pipeline process.                                                   *)

\* wait_for_server() on both servers, ground plane, trajectory mode, CSV table.
Prepare ==
  /\ Running /\ op = "prepare" /\ servers
  /\ op' = First(Stages[1].kind)
  /\ UNCHANGED <<run, outcome, stage, phase, startPose, slot, lastGrip, servers, goal,
                 world, tainted, missed>>

\* Early returns before a goal is sent: the mode switch or the table failed, the
\* pose is not in the table, TF has no transform, the vote was rejected.
GiveUp ==
  /\ Running /\ phase = "ready"
  /\ op \in {"prepare", "vote", "readPose", "moveZone", "moveSlot"}
  /\ op = "prepare" => servers
  /\ Stop("failed")
  /\ UNCHANGED <<run, startPose, slot, lastGrip, servers, goal, world, tainted, missed>>

\* select_yolo_grid_pose(): the grid pose of the part, or of an empty place when
\* the projected pixel lies nearer to that one.
Vote ==
  /\ Running /\ op = "vote"
  /\ \/ /\ where[Now.arg] = "slot"
        /\ slot' = SlotOf[Now.arg] /\ UNCHANGED missed
     \/ /\ slot' = Nowhere
        /\ missed' = missed \cup {Now.arg}
  /\ Advance
  /\ UNCHANGED <<run, startPose, lastGrip, servers, goal, world, tainted>>

\* get_current_tool0_pose(): the newest transform the buffer has.
ReadPose ==
  /\ Running /\ op = "readPose"
  /\ \/ startPose' = arm /\ UNCHANGED missed
     \/ TfLag /\ startPose' = Above(Nowhere) /\ missed' = missed \cup {Now.arg}
  /\ Advance
  /\ UNCHANGED <<run, slot, lastGrip, servers, goal, world, tainted>>


\* Mutant of SkipGrip: any remembered position counts as the requested one.
SkipGripAny ==
  /\ Running /\ phase = "ready" /\ op \in Grips
  /\ lastGrip # Unknown
  /\ Advance
  /\ UNCHANGED <<run, startPose, slot, lastGrip, servers, goal, world, tainted, missed>>

\* command_gripper(): the cached position is the requested one.
SkipGrip ==
  /\ Running /\ phase = "ready" /\ op \in Grips
  /\ lastGrip = GripTarget
  /\ Advance
  /\ UNCHANGED <<run, startPose, slot, lastGrip, servers, goal, world, tainted, missed>>

\* send_goal_async() of execute_move() or command_gripper().
SendGoal ==
  /\ Running /\ phase = "ready" /\ op \in Moves \cup Grips
  /\ op \in Grips => lastGrip # GripTarget
  /\ goal' = [goal EXCEPT ![run] =
       [st |-> "pending", op |-> op,
        pose |-> IF op \in Moves THEN MoveTarget ELSE Above(Nowhere),
        grip |-> IF op \in Grips THEN GripTarget ELSE Unknown]]
  /\ phase' = "waiting"
  /\ UNCHANGED <<run, outcome, stage, op, startPose, slot, lastGrip, servers, world,
                 tainted, missed>>

\* The result is SUCCEEDED.
Proceed ==
  /\ Running /\ phase = "waiting" /\ goal[run].st = "succeeded"
  /\ lastGrip' = IF op \in Grips THEN goal[run].grip ELSE lastGrip
  /\ Advance
  /\ UNCHANGED <<run, startPose, slot, servers, goal, world, tainted, missed>>


\* The goal is rejected, or its result is another status.
Refused ==
  /\ Running /\ phase = "waiting" /\ goal[run].st \in {"rejected", "aborted"}
  /\ lastGrip' = IF op \in Grips /\ goal[run].st = "aborted" THEN Unknown ELSE lastGrip
  /\ Stop("failed")
  /\ UNCHANGED <<run, startPose, slot, servers, goal, world, tainted, missed>>


\* Mutant of Timeout: the operation is tried again, its goal is not cancelled.
TimeoutRetries ==
  /\ Running /\ phase = "waiting" /\ InFlight(run)
  /\ phase' = "ready"
  /\ UNCHANGED <<run, outcome, stage, op, startPose, slot, lastGrip, servers, goal, world,
                 tainted, missed>>

\* wait_future() ran out of time, for the acceptance or for the result; the goal
\* is left to its server.
Timeout ==
  /\ Running /\ phase = "waiting" /\ InFlight(run)
  /\ Stop("failed")
  /\ UNCHANGED <<run, startPose, slot, lastGrip, servers, goal, world, tainted, missed>>

\* KeyboardInterrupt in main().
Interrupt ==
  /\ Running
  /\ Stop("interrupted")
  /\ UNCHANGED <<run, startPose, slot, lastGrip, servers, goal, world, tainted, missed>>


\* The operator starts the program again.
Restart ==
  /\ ~Running /\ run < MaxRuns
  /\ run' = run + 1 /\ outcome' = "running"
  /\ stage' = 1 /\ op' = "prepare" /\ phase' = "ready"
  /\ startPose' = Above(Nowhere) /\ slot' = Nowhere /\ lastGrip' = Unknown
  /\ tainted' = (tainted \/ Leftovers)
  /\ missed' = {}
  /\ UNCHANGED <<servers, goal, world>>

-----------------------------------------------------------------------------
(* The action servers and the parts (external).                            *)

ServersUp == ~servers /\ servers' = TRUE /\ UNCHANGED <<process, goal, world, tainted, missed>>

SameServer(o1, o2) == (o1 \in Moves) = (o2 \in Moves)
Executing(r) == goal[r].st = "executing"

\* Where the gripper acts: nowhere in particular while the arm is under way.
Here == IF \E r \in Runs : Executing(r) /\ goal[r].op \in Moves THEN Above(Nowhere) ELSE arm

\* What moving the fingers to a position does to the parts: a closing gripper
\* takes the part it surrounds, a wider one releases the part it holds.
Handle(position) ==
  where' = [i \in Items |->
    IF where[i] = "slot" /\ Here = Lowered(Above(SlotOf[i])) /\ position = Position[i].CLOSE
      THEN "held"
    ELSE IF where[i] = "held" /\ position < Position[i].CLOSE
      THEN IF Here = Lowered(Above(CellZone)) THEN "cell"
           ELSE IF Here = Lowered(Above(SlotOf[i])) THEN "slot" ELSE "lost"
    ELSE where[i]]

\* A server takes up a goal; one it is still executing is preempted.
Accept(r) ==
  /\ goal[r].st = "pending"
  /\ LET preempted(q) == q # r /\ Executing(q) /\ SameServer(goal[q].op, goal[r].op)
     IN  /\ goal' = [q \in Runs |-> IF q = r THEN [goal[q] EXCEPT !.st = "executing"]
                                   ELSE IF preempted(q) THEN [goal[q] EXCEPT !.st = "aborted"]
                                   ELSE goal[q]]
         /\ arm' = IF goal[r].op \in Moves /\ \E q \in Runs : preempted(q)
                     THEN Above(Nowhere) ELSE arm
  /\ UNCHANGED <<process, servers, aperture, where, tainted, missed>>

SetStatus(r, status) == goal' = [goal EXCEPT ![r].st = status]

Reject(r) ==
  /\ goal[r].st = "pending"
  /\ SetStatus(r, "rejected")
  /\ UNCHANGED <<process, servers, world, tainted, missed>>

FinishMove(r) ==
  /\ Executing(r) /\ goal[r].op \in Moves
  /\ SetStatus(r, "succeeded")
  /\ arm' = goal[r].pose
  /\ UNCHANGED <<process, servers, aperture, where, tainted, missed>>

\* Planning failed, or the trajectory was abandoned half way.
AbortMove(r) ==
  /\ Executing(r) /\ goal[r].op \in Moves
  /\ SetStatus(r, "aborted")
  /\ arm' \in {arm, Above(Nowhere)}
  /\ UNCHANGED <<process, servers, aperture, where, tainted, missed>>

\* The fingers have arrived, and the controller says so or fails nevertheless.
FinishGrip(r, status) ==
  /\ Executing(r) /\ goal[r].op \in Grips
  /\ SetStatus(r, status)
  /\ aperture' = goal[r].grip
  /\ Handle(goal[r].grip)
  /\ UNCHANGED <<process, servers, arm, tainted, missed>>

AbortGrip(r) ==
  /\ Executing(r) /\ goal[r].op \in Grips
  /\ SetStatus(r, "aborted")
  /\ UNCHANGED <<process, servers, world, tainted, missed>>

-----------------------------------------------------------------------------
Init ==
  /\ run = 1 /\ outcome = "running"
  /\ stage = 1 /\ op = "prepare" /\ phase = "ready"
  /\ startPose = Above(Nowhere) /\ slot = Nowhere /\ lastGrip = Unknown
  /\ servers = FALSE
  /\ goal = [r \in Runs |-> NoGoal]
  /\ arm = Above(Nowhere) /\ aperture = Unknown
  /\ where = [i \in Items |-> "slot"]
  /\ tainted = FALSE /\ missed = {}

Pipeline ==
  \/ Prepare \/ GiveUp \/ Vote \/ ReadPose \/ SkipGrip
  \/ SendGoal \/ Proceed \/ Refused \/ Timeout

Server(r) ==
  \/ Accept(r) \/ Reject(r)
  \/ FinishMove(r) \/ AbortMove(r)
  \/ \E status \in {"succeeded", "aborted"} : FinishGrip(r, status)
  \/ AbortGrip(r)

Next == Pipeline \/ Interrupt \/ Restart \/ ServersUp \/ \E r \in Runs : Server(r)

Spec == Init /\ [][Next]_vars

\* The pipeline's thread never waits without a deadline once the servers are
\* there; nothing is assumed of the servers, the operator or the parts.
FairSpec == Spec /\ WF_vars(Pipeline)

-----------------------------------------------------------------------------
(* Correctness.                                                            *)

GoalType == [st : {"none", "pending", "executing", "succeeded", "aborted", "rejected"},
             op : Ops, pose : Pose, grip : Nat]

\* Every variable has its type, and a process that waits has sent the goal of the
\* operation it is at.
TypeOK ==
  /\ run \in Runs
  /\ outcome \in {"running", "complete", "failed", "interrupted"}
  /\ stage \in 1..Len(Stages) /\ op \in Ops /\ phase \in {"ready", "waiting"}
  /\ startPose \in Pose /\ slot \in Place /\ lastGrip \in Nat
  /\ servers \in BOOLEAN
  /\ goal \in [Runs -> GoalType]
  /\ arm \in Pose /\ aperture \in Nat
  /\ where \in [Items -> {"slot", "held", "cell", "lost"}]
  /\ tainted \in BOOLEAN /\ missed \subseteq Items
  /\ Running /\ phase = "waiting" => op \in Moves \cup Grips /\ goal[run].op = op

\* The pipeline commands the next motion or grip, and reads the pose of the arm,
\* only when nothing it has commanded before is still being executed
\* (execute_move() and command_gripper() return with the goal answered, or end the
\* run); a goal that an earlier process left behind is the one way out of that.
RestsBetweenGoals ==
  Running /\ ~tainted =>
    \A r \in Runs : InFlight(r) => r = run /\ phase = "waiting"

\* The fingers take and release a part with the arm at rest at the bottom of the
\* grasp, whatever the servers answered before (execute_grasp_sequence()).
GripsAtTheBottom ==
  Running /\ ~tainted /\ op = "gripPost" => arm = Lowered(startPose)

\* The remembered gripper position, which lets a command be skipped, is the
\* position of the fingers unless a gripper goal is being waited for
\* (command_gripper()).
RememberedPositionTrue ==
  Running /\ ~tainted /\ lastGrip # Unknown /\ ~(phase = "waiting" /\ op \in Grips) =>
    aperture = lastGrip

\* A failed, timed-out, interrupted and restarted pipeline never lets go of a part
\* between the places, as long as no goal or part of an earlier run was left and
\* the poses read from TF are the arm's.
NothingLost == ~tainted => \A i \in Items \ missed : where[i] # "lost"

\* The zone pose a part is put down at is the last one the stage list moves to.
PlacedInCell(i) ==
  \E s \in 2..Len(Stages) :
    Stages[s] = [kind |-> "place", arg |-> i] /\ Stages[s - 1] = [kind |-> "zone", arg |-> CellZone]

\* How the stages of pipeline.py handle a part: it is picked once, right after the
\* vote on it, and put down again at once or after the one motion to the cell;
\* nothing else is put down.
PutDownAfter(s) ==
  \/ Stages[s + 1].kind = "place"
  \/ Stages[s + 1].kind = "zone" /\ s + 1 < Len(Stages) /\ Stages[s + 2].kind = "place"
PickedBefore(s, i) ==
  \/ s > 1 /\ Stages[s - 1] = [kind |-> "pick", arg |-> i]
  \/ /\ s > 2 /\ Stages[s - 1] = [kind |-> "zone", arg |-> CellZone]
     /\ Stages[s - 2] = [kind |-> "pick", arg |-> i]
GraspsWhole ==
  \A s \in 1..Len(Stages) :
    /\ Stages[s].kind = "pick" =>
         /\ s > 1 /\ Stages[s - 1] = [kind |-> "vote", arg |-> Stages[s].arg]
         /\ \A t \in 1..Len(Stages) : Stages[t] = Stages[s] => t = s
         /\ s < Len(Stages) /\ PutDownAfter(s)
    /\ Stages[s].kind = "place" => PickedBefore(s, Stages[s].arg)

\* "Pipeline complete" means what it says: every part whose vote found it is where
\* its place stage puts it.
CompleteDelivers ==
  outcome = "complete" /\ ~tainted =>
    \A i \in Items \ missed : where[i] = IF PlacedInCell(i) THEN "cell" ELSE "slot"

\* The arm and the fingers: what is commanded, read and remembered fits what the
\* servers are doing.
ArmSafe == RestsBetweenGoals /\ GripsAtTheBottom /\ RememberedPositionTrue

\* The parts: none is let go of between the places, and each ends up where the
\* stages put it.
PartsSafe == NothingLost /\ CompleteDelivers

\* The operation belongs to the stage it is in.
OpFits ==
  /\ op = "prepare" => stage = 1
  /\ op = "moveZone" => Now.kind = "zone"
  /\ op \in {"vote", "moveSlot"} => Now.kind = "vote"
  /\ op \in {"readPose", "gripPre", "moveDown", "gripPost", "moveUp"} => Now.kind \in {"pick", "place"}

\* What the pipeline is waiting for is what it wants, and a goal that has
\* succeeded has left the arm or the fingers where it asked for.
AnswerTrue ==
  Running /\ ~tainted /\ phase = "waiting" =>
    /\ op = "moveDown" => goal[run].pose = Lowered(startPose)
    /\ goal[run].st = "succeeded" =>
         IF op \in Moves THEN arm = goal[run].pose ELSE aperture = goal[run].grip

\* The inductive invariant behind RestsBetweenGoals, GripsAtTheBottom and
\* RememberedPositionTrue: the three hold together or not at all, because each
\* needs the goals of one server left alone by the others.
IInv ==
  /\ TypeOK /\ OpFits
  /\ RestsBetweenGoals /\ GripsAtTheBottom /\ RememberedPositionTrue /\ AnswerTrue

\* Once the servers are there every run ends, whatever they do or fail to do: no
\* wait of the pipeline is without a deadline.
RunEnds == servers /\ Running ~> ~Running

\* The stages of pipeline.py, moreover, assemble what they handle: a vote leads to
\* the pick of its part, and every part is put down in the cell.
Assembles ==
  /\ GraspsWhole
  /\ \A s \in 1..Len(Stages) : Stages[s].kind = "vote" =>
       s < Len(Stages) /\ Stages[s + 1].kind = "pick" /\ Stages[s + 1].arg = Stages[s].arg
  /\ \A i \in Items : PlacedInCell(i)

\* The pipeline does what PickAndPlace promises, the parts being handled in the
\* order of their pick stages.
PickAt == [i \in Items |->
  CHOOSE s \in 1..Len(Stages) : Stages[s] = [kind |-> "pick", arg |-> i]]
Promise == INSTANCE PickAndPlace WITH Parts <- Items, Rank <- PickAt
ImplementsPromise == Promise!Spec
=============================================================================
