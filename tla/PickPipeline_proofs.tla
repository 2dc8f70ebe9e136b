------------------------ MODULE PickPipeline_proofs ------------------------
(***************************************************************************)
(* For every stage list, every number of restarts and both assumptions on  *)
(* TF: the goals of the pipeline never overlap, a part is gripped and      *)
(* released at the bottom of the grasp, and the remembered gripper position*)
(* is the true one.  For every stage list that picks each part once and    *)
(* puts it down again: no part is lost and completion means delivery.      *)
(***************************************************************************)
EXTENDS PickPipeline, TLAPS

USE ConstantsAssumption DEF Runs

GraspOps == {"readPose", "gripPre", "moveDown", "gripPost", "moveUp"}

\* The stage list holds stages: a zone move names a zone, the others a part.
LEMMA StageArg ==
  ASSUME NEW s \in 1..Len(Stages)
  PROVE  /\ Stages[s] \in StageType
         /\ Stages[s].kind \in {"zone", "vote", "pick", "place"}
         /\ Stages[s].kind = "zone" => Stages[s].arg \in Zones
         /\ Stages[s].kind # "zone" => Stages[s].arg \in Items
<1>1. Stages[s] \in StageType
  OBVIOUS
<1> QED
  BY <1>1 DEF StageType

\* Every part that is handled has its two gripper positions.
LEMMA PositionType ==
  ASSUME NEW i \in Items
  PROVE  Position[i].OPEN \in Nat /\ Position[i].CLOSE \in Nat
  BY DEF Position

\* Poses are closed under raising and lowering.
LEMMA PoseType ==
  /\ \A p \in Place : Above(p) \in Pose
  /\ \A p \in Pose : Lowered(p) \in Pose
  /\ Nowhere \in Place
  /\ \A i \in Items : SlotOf[i] \in Place
  /\ \A z \in Zones : z \in Place
  BY DEF Place, Pose, Above, Lowered

\* Where a finished operation leads: a ready pipeline at an operation that
\* belongs to its stage, at the grip only from the motion down.
LEMMA AdvanceSteps ==
  ASSUME TypeOK, OpFits, Running, op \notin {"prepare", "end"}, Advance
  PROVE  /\ stage' \in 1..Len(Stages) /\ op' \in Ops /\ phase' = "ready"
         /\ outcome' \in {"running", "complete"}
         /\ OpFits'
         /\ op' = "gripPost" => op = "moveDown"
<1> DEFINE next == After(Now.kind, op)
<1>1. stage \in 1..Len(Stages) /\ Len(Stages) \in Nat
  BY DEF TypeOK
<1>2. Now.kind \in {"zone", "vote", "pick", "place"}
  BY <1>1, StageArg DEF Now
<1>3. /\ next \in Ops
      /\ next = "gripPost" => op = "moveDown"
      /\ next # "moveZone" /\ next # "vote" /\ next # "prepare"
      /\ next = "moveSlot" => op = "vote"
      /\ next \in GraspOps => op \in GraspOps
  BY <1>2 DEF After, Ops, Moves, Grips, TypeOK, GraspOps
<1>4. phase' = "ready"
  BY DEF Advance
<1>5. CASE next # "end"
  <2>1. op' = next /\ UNCHANGED <<stage, outcome>>
    BY <1>5 DEF Advance
  <2>2. OpFits'
    BY <1>3, <2>1 DEF OpFits, Now, GraspOps
  <2> QED
    BY <1>1, <1>3, <1>4, <2>1, <2>2 DEF Running
<1>6. CASE next = "end" /\ stage < Len(Stages)
  <2>1. stage' = stage + 1 /\ op' = First(Stages[stage + 1].kind) /\ UNCHANGED outcome
    BY <1>6 DEF Advance
  <2>2. stage' \in 1..Len(Stages)
    BY <1>1, <1>6, <2>1
  <2>3. Stages[stage'].kind \in {"zone", "vote", "pick", "place"}
    BY <2>2, StageArg
  <2>4. op' = First(Stages[stage'].kind)
    BY <2>1
  <2>5. op' \in Ops /\ op' # "gripPost" /\ OpFits'
    BY <2>3, <2>4 DEF First, OpFits, Now, Ops, Moves, Grips
  <2> QED
    BY <1>4, <2>1, <2>2, <2>5 DEF Running
<1>7. CASE next = "end" /\ ~(stage < Len(Stages))
  <2>1. outcome' = "complete" /\ op' = "end" /\ UNCHANGED stage
    BY <1>7 DEF Advance
  <2> QED
    BY <1>1, <1>4, <2>1 DEF OpFits, Ops
<1> QED
  BY <1>5, <1>6, <1>7

\* The targets of the goals have their types.
LEMMA TargetType ==
  ASSUME TypeOK, OpFits
  PROVE  /\ op \in Moves => MoveTarget \in Pose
         /\ op \in Grips => GripTarget \in Nat
         /\ op = "vote" => Now.arg \in Items
<1>1. stage \in 1..Len(Stages) /\ startPose \in Pose /\ slot \in Place
  BY DEF TypeOK
<1>2. /\ op = "moveZone" => Now.arg \in Zones
      /\ op \in {"vote"} \cup Grips => Now.arg \in Items
  BY <1>1, StageArg DEF Now, OpFits, Grips
<1>3. op \in Moves => MoveTarget \in Pose
  BY <1>1, <1>2, PoseType DEF MoveTarget, Moves
<1>4. op \in Grips => GripTarget \in Nat
  BY <1>2, PositionType DEF GripTarget
<1> QED
  BY <1>2, <1>3, <1>4

-----------------------------------------------------------------------------
(* The steps that end the run or advance to another operation.             *)

\* A run that has ended is asked nothing but its types.
LEMMA StopKeeps ==
  ASSUME IInv, NEW how \in {"failed", "interrupted"}, Stop(how), lastGrip' \in Nat,
         UNCHANGED <<run, startPose, slot, servers, goal, world, tainted, missed>>
  PROVE  IInv'
<1>1. ~Running' /\ UNCHANGED <<stage, op, phase>> /\ outcome' = how
  BY DEF Stop, Running
<1>2. TypeOK'
  BY <1>1 DEF IInv, TypeOK, world, Running
<1>3. OpFits'
  BY <1>1 DEF IInv, OpFits, Now
<1> QED
  BY <1>1, <1>2, <1>3
  DEF IInv, RestsBetweenGoals, GripsAtTheBottom, RememberedPositionTrue, AnswerTrue

\* The goals stay as they are, none is in flight, and the pipeline is ready for an
\* operation: at the grip the arm is down, and what is remembered is true.
LEMMA ReadyKeeps ==
  ASSUME IInv, TypeOK', OpFits', phase' = "ready", UNCHANGED <<run, goal, world, tainted>>,
         Running, ~tainted => \A r \in Runs : ~InFlight(r),
         Running' /\ ~tainted /\ op' = "gripPost" => arm = Lowered(startPose'),
         ~tainted /\ lastGrip' # Unknown => aperture = lastGrip'
  PROVE  IInv'
<1>1. RestsBetweenGoals'
  BY DEF RestsBetweenGoals, InFlight
<1>2. GripsAtTheBottom'
  BY DEF GripsAtTheBottom, world
<1>3. RememberedPositionTrue'
  BY DEF RememberedPositionTrue, world
<1>4. AnswerTrue'
  BY DEF AnswerTrue
<1> QED
  BY <1>1, <1>2, <1>3, <1>4 DEF IInv

LEMMA PrepareKeeps == IInv /\ Prepare => IInv'
<1> SUFFICES ASSUME IInv, Prepare PROVE IInv'
  OBVIOUS
<1>1. stage = 1 /\ 1 \in 1..Len(Stages) /\ stage' = 1
  BY DEF IInv, TypeOK, OpFits, Prepare
<1>2. Stages[1].kind \in {"zone", "vote", "pick", "place"}
  BY <1>1, StageArg
<1>3. op' \in {"moveZone", "vote", "readPose"} /\ OpFits'
  BY <1>1, <1>2 DEF Prepare, First, OpFits, Now
<1>4. phase = "ready" /\ phase' = "ready"
  BY DEF Prepare, IInv, TypeOK, Moves, Grips
<1>5. TypeOK'
  BY <1>3, <1>4 DEF Prepare, IInv, TypeOK, Ops, Moves, Grips, world
<1> QED
  BY <1>3, <1>4, <1>5, ReadyKeeps
  DEF Prepare, IInv, RestsBetweenGoals, RememberedPositionTrue, Grips

LEMMA VoteKeeps == IInv /\ Vote => IInv'
<1> SUFFICES ASSUME IInv, Vote PROVE IInv'
  OBVIOUS
<1>1. /\ stage' \in 1..Len(Stages) /\ op' \in Ops /\ phase' = "ready"
      /\ outcome' \in {"running", "complete"} /\ OpFits'
      /\ op' = "gripPost" => op = "moveDown"
  BY AdvanceSteps DEF IInv, Vote
<1>2. slot' \in Place /\ missed' \subseteq Items
  BY TargetType, PoseType DEF Vote, IInv, TypeOK
<1>3. TypeOK'
  BY <1>1, <1>2 DEF Vote, IInv, TypeOK, world
<1>4. phase # "waiting"
  BY DEF Vote, IInv, TypeOK, Moves, Grips
<1> QED
  BY <1>1, <1>3, <1>4, ReadyKeeps
  DEF Vote, IInv, RestsBetweenGoals, RememberedPositionTrue

LEMMA ReadPoseKeeps == IInv /\ ReadPose => IInv'
<1> SUFFICES ASSUME IInv, ReadPose PROVE IInv'
  OBVIOUS
<1>1. /\ stage' \in 1..Len(Stages) /\ op' \in Ops /\ phase' = "ready"
      /\ outcome' \in {"running", "complete"} /\ OpFits'
      /\ op' = "gripPost" => op = "moveDown"
  BY AdvanceSteps DEF IInv, ReadPose
<1>2. startPose' \in Pose
  BY PoseType DEF ReadPose, IInv, TypeOK
<1>5. Now.arg \in Items
  BY StageArg DEF ReadPose, IInv, TypeOK, OpFits, Now
<1>6. missed' \subseteq Items
  BY <1>5 DEF ReadPose, IInv, TypeOK
<1>3. TypeOK'
  BY <1>1, <1>2, <1>6 DEF ReadPose, IInv, TypeOK, world
<1>4. phase # "waiting"
  BY DEF ReadPose, IInv, TypeOK, Moves, Grips
<1> QED
  BY <1>1, <1>3, <1>4, ReadyKeeps
  DEF ReadPose, IInv, RestsBetweenGoals, RememberedPositionTrue

LEMMA SkipGripKeeps == IInv /\ SkipGrip => IInv'
<1> SUFFICES ASSUME IInv, SkipGrip PROVE IInv'
  OBVIOUS
<1>1. /\ stage' \in 1..Len(Stages) /\ op' \in Ops /\ phase' = "ready"
      /\ outcome' \in {"running", "complete"} /\ OpFits'
      /\ op' = "gripPost" => op = "moveDown"
  BY AdvanceSteps DEF IInv, SkipGrip, Grips
<1>2. TypeOK'
  BY <1>1 DEF SkipGrip, IInv, TypeOK, world
<1> QED
  BY <1>1, <1>2, ReadyKeeps
  DEF SkipGrip, Grips, IInv, RestsBetweenGoals, RememberedPositionTrue

LEMMA ProceedKeeps == IInv /\ Proceed => IInv'
<1> SUFFICES ASSUME IInv, Proceed PROVE IInv'
  OBVIOUS
<1>0. op \in Moves \cup Grips /\ goal[run].op = op /\ run \in Runs /\ goal[run] \in GoalType
  BY DEF IInv, TypeOK, Proceed
<1>1. /\ stage' \in 1..Len(Stages) /\ op' \in Ops /\ phase' = "ready"
      /\ outcome' \in {"running", "complete"} /\ OpFits'
      /\ op' = "gripPost" => op = "moveDown"
  BY <1>0, AdvanceSteps DEF IInv, Proceed, Moves, Grips
<1>2. lastGrip' \in Nat
  BY <1>0 DEF Proceed, IInv, TypeOK, GoalType
<1>3. TypeOK'
  BY <1>1, <1>2 DEF Proceed, IInv, TypeOK, world
<1>4. ~tainted => \A r \in Runs : ~InFlight(r)
  BY DEF Proceed, IInv, RestsBetweenGoals, InFlight
<1>5. ~tainted /\ op' = "gripPost" => arm = Lowered(startPose)
  BY <1>1 DEF Proceed, IInv, AnswerTrue, Moves
<1>6. ~tainted /\ lastGrip' # Unknown => aperture = lastGrip'
  BY <1>0 DEF Proceed, IInv, AnswerTrue, RememberedPositionTrue, Moves, Grips
<1> QED
  BY <1>1, <1>3, <1>4, <1>5, <1>6, ReadyKeeps DEF Proceed

LEMMA StopsKeep == IInv /\ (GiveUp \/ Refused \/ Timeout \/ Interrupt) => IInv'
<1> SUFFICES ASSUME IInv, GiveUp \/ Refused \/ Timeout \/ Interrupt PROVE IInv'
  OBVIOUS
<1>1. lastGrip' \in Nat
  BY DEF GiveUp, Refused, Timeout, Interrupt, IInv, TypeOK, Unknown
<1>2. PICK how \in {"failed", "interrupted"} : Stop(how)
  BY DEF GiveUp, Refused, Timeout, Interrupt
<1>3. UNCHANGED <<run, startPose, slot, servers, goal, world, tainted, missed>>
  BY DEF GiveUp, Refused, Timeout, Interrupt
<1> QED
  BY <1>1, <1>2, <1>3, StopKeeps

LEMMA SendGoalKeeps == IInv /\ SendGoal => IInv'
<1> SUFFICES ASSUME IInv, SendGoal PROVE IInv'
  OBVIOUS
<1> DEFINE new == [st |-> "pending", op |-> op,
                   pose |-> IF op \in Moves THEN MoveTarget ELSE Above(Nowhere),
                   grip |-> IF op \in Grips THEN GripTarget ELSE Unknown]
<1>0. /\ run \in Runs /\ op \in Moves \cup Grips /\ op \in Ops
      /\ goal \in [Runs -> GoalType] /\ Running
      /\ phase = "ready" /\ phase' = "waiting"
  BY DEF SendGoal, IInv, TypeOK
<1>1. new \in GoalType
  <2>1. new.pose \in Pose
    BY TargetType, PoseType DEF IInv
  <2>2. new.grip \in Nat
    BY TargetType DEF IInv, Unknown
  <2> QED
    BY <1>0, <2>1, <2>2 DEF GoalType
<1>2. goal' = [goal EXCEPT ![run] = new] /\ goal' \in [Runs -> GoalType] /\ goal'[run] = new
  BY <1>0, <1>1 DEF SendGoal
<1>3. TypeOK'
  BY <1>0, <1>2 DEF SendGoal, IInv, TypeOK, world
<1>4. OpFits'
  BY DEF SendGoal, IInv, OpFits, Now
<1>5. RestsBetweenGoals'
  BY <1>0, <1>2 DEF SendGoal, IInv, RestsBetweenGoals, InFlight
<1>6. GripsAtTheBottom'
  BY DEF SendGoal, IInv, GripsAtTheBottom, Running, world
<1>7. RememberedPositionTrue'
  BY <1>0 DEF SendGoal, IInv, RememberedPositionTrue, Running, world
<1>8. AnswerTrue'
  BY <1>0, <1>2 DEF SendGoal, AnswerTrue, MoveTarget, Moves
<1> QED
  BY <1>3, <1>4, <1>5, <1>6, <1>7, <1>8 DEF IInv

LEMMA RestartKeeps == IInv /\ Restart => IInv'
<1> SUFFICES ASSUME IInv, Restart PROVE IInv'
  OBVIOUS
<1>1. run' \in Runs /\ 1 \in 1..Len(Stages) /\ tainted' \in BOOLEAN
  BY DEF Restart, IInv, TypeOK, Leftovers
<1>2. Above(Nowhere) \in Pose /\ Nowhere \in Place
  BY PoseType
<1>3. TypeOK'
  BY <1>1, <1>2 DEF Restart, IInv, TypeOK, world, Ops, Unknown
<1>4. OpFits'
  BY DEF Restart, OpFits
<1>5. ~tainted' => \A r \in Runs : ~InFlight(r)'
  BY DEF Restart, InFlight, Leftovers
<1> QED
  BY <1>3, <1>4, <1>5
  DEF Restart, IInv, RestsBetweenGoals, GripsAtTheBottom, RememberedPositionTrue, AnswerTrue

-----------------------------------------------------------------------------
(* The steps of the servers.  As long as no earlier run has left a goal,   *)
(* the goal they work on is the one the pipeline waits for.                *)

LEMMA ServersUpKeeps == IInv /\ ServersUp => IInv'
  BY DEF ServersUp, IInv, TypeOK, OpFits, Now, RestsBetweenGoals, InFlight, GripsAtTheBottom,
         RememberedPositionTrue, AnswerTrue, Running, process, world

LEMMA AcceptKeeps == ASSUME IInv, NEW r \in Runs, Accept(r) PROVE IInv'
<1>1. goal \in [Runs -> GoalType] /\ arm \in Pose /\ run \in Runs /\ InFlight(r)
  BY DEF IInv, TypeOK, Accept, InFlight
<1>2. \A q \in Runs : /\ goal'[q] \in GoalType
                      /\ goal'[q].op = goal[q].op /\ goal'[q].pose = goal[q].pose
                      /\ goal'[q].grip = goal[q].grip
                      /\ goal'[q].st # goal[q].st => goal'[q].st \in {"executing", "aborted"}
                      /\ InFlight(q)' => InFlight(q)
  BY <1>1 DEF Accept, GoalType, InFlight, Executing
<1>3. goal' \in [Runs -> GoalType]
  BY <1>2 DEF Accept
<1>4. arm' \in Pose
  BY <1>1, PoseType DEF Accept
<1>5. Running /\ ~tainted => arm' = arm
  BY <1>1 DEF Accept, IInv, RestsBetweenGoals, InFlight, Executing
<1>6. TypeOK'
  BY <1>1, <1>2, <1>3, <1>4 DEF Accept, IInv, TypeOK, process, Running
<1>7. OpFits'
  BY DEF Accept, IInv, OpFits, Now, process
<1>8. RestsBetweenGoals'
  BY <1>2 DEF Accept, IInv, RestsBetweenGoals, process, Running
<1>9. GripsAtTheBottom' /\ RememberedPositionTrue'
  BY <1>5 DEF Accept, IInv, GripsAtTheBottom, RememberedPositionTrue, process, Running
<1>10. AnswerTrue'
  BY <1>1, <1>2, <1>5 DEF Accept, IInv, AnswerTrue, process, Running
<1> QED
  BY <1>6, <1>7, <1>8, <1>9, <1>10 DEF IInv

\* A server ends a goal that was in flight: what a step may change.
LEMMA EndGoalKeeps ==
  ASSUME IInv, NEW r \in Runs, InFlight(r),
         NEW status \in {"succeeded", "aborted", "rejected"}, SetStatus(r, status),
         UNCHANGED <<process, servers, tainted, missed>>,
         arm' \in Pose, aperture' \in Nat,
         where' \in [Items -> {"slot", "held", "cell", "lost"}],
         goal[r].op \in Grips => arm' = arm,
         goal[r].op \notin Grips => aperture' = aperture,
         status = "succeeded" => /\ goal[r].op \in Moves => arm' = goal[r].pose
                                 /\ goal[r].op \in Grips => aperture' = goal[r].grip
  PROVE  IInv'
<1>1. /\ goal \in [Runs -> GoalType] /\ run \in Runs
      /\ Running /\ phase = "waiting" => op \in Moves \cup Grips /\ goal[run].op = op
  BY DEF IInv, TypeOK
<1>2. goal' \in [Runs -> GoalType]
  BY <1>1 DEF SetStatus, GoalType
<1>3. \A q \in Runs : /\ q # r => goal'[q] = goal[q]
                      /\ goal'[q].op = goal[q].op /\ goal'[q].pose = goal[q].pose
                      /\ goal'[q].grip = goal[q].grip
  BY <1>1 DEF SetStatus, GoalType
<1>4. goal'[r].st = status
  BY <1>1 DEF SetStatus, GoalType
<1>5. Running /\ ~tainted => r = run /\ phase = "waiting" /\ goal[run].op = op
  BY <1>1 DEF IInv, RestsBetweenGoals
<1>6. Running' = Running /\ UNCHANGED <<run, outcome, stage, op, phase, startPose, slot, lastGrip>>
  BY DEF process, Running
<1>7. TypeOK'
  BY <1>1, <1>2, <1>3, <1>6 DEF IInv, TypeOK
<1>8. OpFits'
  BY <1>6 DEF IInv, OpFits, Now
<1>9. RestsBetweenGoals'
  BY <1>3, <1>4, <1>6 DEF IInv, RestsBetweenGoals, InFlight
<1>10. GripsAtTheBottom'
  BY <1>5, <1>6 DEF IInv, GripsAtTheBottom, Grips
<1>11. RememberedPositionTrue'
  BY <1>1, <1>5, <1>6 DEF IInv, RememberedPositionTrue, Moves, Grips
<1>12. AnswerTrue'
  BY <1>1, <1>3, <1>4, <1>5, <1>6 DEF IInv, AnswerTrue, Moves, Grips
<1> QED
  BY <1>7, <1>8, <1>9, <1>10, <1>11, <1>12 DEF IInv

LEMMA ServerKeeps == ASSUME IInv, NEW r \in Runs, Server(r) PROVE IInv'
<1>0. /\ goal[r] \in GoalType /\ arm \in Pose /\ aperture \in Nat
      /\ where \in [Items -> {"slot", "held", "cell", "lost"}]
  BY DEF IInv, TypeOK
<1>1. CASE Accept(r)
  BY <1>1, AcceptKeeps
<1>2. CASE Reject(r)
  BY <1>0, <1>2, EndGoalKeeps, "rejected" \in {"succeeded", "aborted", "rejected"}
  DEF Reject, InFlight, world
<1>3. CASE FinishMove(r)
  BY <1>0, <1>3, EndGoalKeeps DEF FinishMove, InFlight, Executing, GoalType, Moves, Grips
<1>4. CASE AbortMove(r)
  BY <1>0, <1>4, EndGoalKeeps, PoseType DEF AbortMove, InFlight, Executing, Moves, Grips
<1>5. CASE \E status \in {"succeeded", "aborted"} : FinishGrip(r, status)
  <2>1. PICK status \in {"succeeded", "aborted"} : FinishGrip(r, status)
    BY <1>5
  <2>2. where' \in [Items -> {"slot", "held", "cell", "lost"}]
    BY <1>0, <2>1 DEF FinishGrip, Handle
  <2> QED
    BY <1>0, <2>1, <2>2, EndGoalKeeps DEF FinishGrip, InFlight, Executing, GoalType, Moves, Grips
<1>6. CASE AbortGrip(r)
  BY <1>0, <1>6, EndGoalKeeps DEF AbortGrip, InFlight, Executing, Moves, Grips, world
<1> QED
  BY <1>1, <1>2, <1>3, <1>4, <1>5, <1>6 DEF Server

-----------------------------------------------------------------------------
LEMMA InitIInv == Init => IInv
<1> SUFFICES ASSUME Init PROVE IInv
  OBVIOUS
<1>1. 1 \in Runs /\ 1 \in 1..Len(Stages) /\ NoGoal \in GoalType
      /\ Above(Nowhere) \in Pose /\ Nowhere \in Place
  BY PoseType DEF NoGoal, GoalType, Ops, Unknown
<1>2. TypeOK
  BY <1>1 DEF Init, TypeOK, Ops, Unknown
<1> QED
  BY <1>2 DEF Init, IInv, OpFits, RestsBetweenGoals, InFlight, NoGoal, GripsAtTheBottom,
              RememberedPositionTrue, AnswerTrue

LEMMA NextIInv == IInv /\ [Next]_vars => IInv'
<1> SUFFICES ASSUME IInv, [Next]_vars PROVE IInv'
  OBVIOUS
<1>1. CASE Prepare \/ Vote \/ ReadPose \/ SkipGrip \/ SendGoal \/ Proceed
  BY <1>1, PrepareKeeps, VoteKeeps, ReadPoseKeeps, SkipGripKeeps, SendGoalKeeps, ProceedKeeps
<1>2. CASE GiveUp \/ Refused \/ Timeout \/ Interrupt
  BY <1>2, StopsKeep
<1>3. CASE Restart
  BY <1>3, RestartKeeps
<1>4. CASE ServersUp
  BY <1>4, ServersUpKeeps
<1>5. CASE \E r \in Runs : Server(r)
  BY <1>5, ServerKeeps
<1>6. CASE UNCHANGED vars
  BY <1>6 DEF vars, process, world, IInv, TypeOK, OpFits, Now, RestsBetweenGoals, InFlight,
              GripsAtTheBottom, RememberedPositionTrue, AnswerTrue, Running
<1> QED
  BY <1>1, <1>2, <1>3, <1>4, <1>5, <1>6 DEF Next, Pipeline

\* The types and the strengthening hold in every reachable state.
THEOREM InductiveInvariant == Spec => []IInv
<1> QED
  BY InitIInv, NextIInv, PTL DEF Spec

\* execute_move() and command_gripper() never send a goal over an unanswered one,
\* and the pose of the arm is never read while it moves on the pipeline's behalf.
THEOREM OneGoalAtATime == Spec => []RestsBetweenGoals
<1>1. IInv => RestsBetweenGoals
  BY DEF IInv
<1> QED
  BY <1>1, InductiveInvariant, PTL

\* The three together: goals, grips and the remembered position.
THEOREM ArmIsSafe == Spec => []ArmSafe
<1>1. IInv => ArmSafe
  BY DEF IInv, ArmSafe
<1> QED
  BY <1>1, InductiveInvariant, PTL

\* Every grip of execute_grasp_sequence() happens with the arm down and at rest.
THEOREM GripsDown == Spec => []GripsAtTheBottom
<1>1. IInv => GripsAtTheBottom
  BY DEF IInv
<1> QED
  BY <1>1, InductiveInvariant, PTL

\* The position by which command_gripper() skips a command is the true one.
THEOREM CacheTrue == Spec => []RememberedPositionTrue
<1>1. IInv => RememberedPositionTrue
  BY DEF IInv
<1> QED
  BY <1>1, InductiveInvariant, PTL
-----------------------------------------------------------------------------
(* The parts.  What the fingers hold is decided where the arm stands, what *)
(* the vote saw and which stage comes next; the invariant follows a part   *)
(* from its slot to the place its stages put it.                           *)

\* Where a part is put down, as a state of the part and as a pose.
Rest(i) == IF PlacedInCell(i) THEN "cell" ELSE "slot"
Spot(i) == IF PlacedInCell(i) THEN CellZone ELSE SlotOf[i]

\* The stage works on a part in its slot, or at the place it is put down.
Site == IF Now.kind = "pick" THEN SlotOf[Now.arg] ELSE Spot(Now.arg)

\* Between the two grips, the part is in the fingers.
Taking == Now.kind = "pick" /\ op = "gripPost"
Loaded ==
  \/ Now.kind = "pick" /\ op = "moveUp"
  \/ op = "moveZone" /\ stage > 1 /\ Stages[stage - 1].kind = "pick"
  \/ Now.kind = "place" /\ op \in {"readPose", "moveDown", "gripPost"}
Carried == IF Now.kind = "zone" THEN Stages[stage - 1].arg ELSE Now.arg

\* The only goal in flight is that of the operation, also after the run has ended.
Commanded ==
  /\ \A r \in Runs : InFlight(r) => r = run /\ phase = "waiting"
  /\ phase = "waiting" =>
       /\ op \in Moves \cup Grips /\ goal[run].op = op
       /\ op \in Moves => /\ goal[run].pose = MoveTarget
                          /\ goal[run].st = "succeeded" => arm = MoveTarget
       /\ op \in Grips => goal[run].grip = GripTarget
  /\ outcome = "complete" => stage = Len(Stages) /\ op = "end"
  /\ op = "gripPre" => Now.kind = "pick"

HeldIsCarried ==
  \A i \in Items : where[i] = "held" =>
    \/ Loaded /\ i = Carried
    \/ Taking /\ phase = "waiting" /\ i = Now.arg

CarriedIsHeld ==
  Loaded /\ Carried \notin missed =>
    \/ where[Carried] = "held"
    \/ op = "gripPost" /\ phase = "waiting" /\ where[Carried] = Rest(Carried)

GripsAnswered ==
  phase = "waiting" /\ op = "gripPost" /\ goal[run].st = "succeeded" =>
    /\ Now.kind = "place" => where[Now.arg] # "held"
    /\ Now.arg \notin missed => where[Now.arg] = IF Taking THEN "held" ELSE Rest(Now.arg)

\* The fingers are where the grasp needs them, so that no grip is skipped.
FingersKnown ==
  Running =>
    /\ Loaded => lastGrip = Position[Carried].CLOSE
    /\ Now.kind = "pick" /\ op \in {"moveDown", "gripPost"} => lastGrip = Position[Now.arg].OPEN

\* A part that was not seen, or read with an old transform, is worked on elsewhere.
Meant(pose, spot) == pose = Above(spot) \/ (Now.arg \in missed /\ pose = Above(Nowhere))
PosesKnown ==
  /\ op = "moveSlot" => Meant(Above(slot), SlotOf[Now.arg])
  /\ op = "readPose" => Meant(arm, Site)
  /\ op \in {"gripPre", "moveDown", "gripPost", "moveUp"} => Meant(startPose, Site)
  /\ op = "gripPost" => arm = Lowered(startPose)

SeenInSlot ==
  /\ \/ op = "moveSlot"
     \/ Now.kind = "pick" /\ op \in {"readPose", "gripPre", "moveDown", "gripPost"}
  /\ Now.arg \notin missed
  => where[Now.arg] = "slot" \/ (Taking /\ phase = "waiting" /\ where[Now.arg] = "held")

Done(s) == s < stage \/ (s = stage /\ op \in {"moveUp", "end"})
DoneDelivered ==
  \A s \in 1..Len(Stages) :
    Stages[s].kind = "place" /\ Done(s) /\ Stages[s].arg \notin missed =>
      where[Stages[s].arg] = Rest(Stages[s].arg)

UnpickedStay ==
  \A i \in Items : (\A s \in 1..Len(Stages) : Stages[s] # [kind |-> "pick", arg |-> i]) =>
    where[i] = "slot"

PartsFollowed ==
  /\ Commanded /\ HeldIsCarried /\ CarriedIsHeld /\ GripsAnswered /\ FingersKnown
  /\ PosesKnown /\ SeenInSlot /\ DoneDelivered /\ UnpickedStay /\ NothingLost
PartsInv == ~tainted => PartsFollowed

-----------------------------------------------------------------------------
(* The stage list.                                                         *)

\* A record with two fields is known by them.
LEMMA StageRecord ==
  ASSUME NEW s \in 1..Len(Stages)
  PROVE  Stages[s] = [kind |-> Stages[s].kind, arg |-> Stages[s].arg]
  BY StageArg DEF StageType

\* What comes before and after a pick and a place.
LEMMA StageNeighbours ==
  ASSUME GraspsWhole, NEW s \in 1..Len(Stages), NEW i, Stages[s].arg = i
  PROVE  /\ Stages[s].kind = "pick" =>
              /\ s > 1 /\ Stages[s - 1].kind = "vote" /\ Stages[s - 1].arg = i
              /\ s < Len(Stages)
              /\ \/ /\ Stages[s + 1].kind = "place" /\ Stages[s + 1].arg = i
                 \/ /\ Stages[s + 1].kind = "zone" /\ Stages[s + 1].arg = CellZone
                    /\ s + 1 < Len(Stages)
                    /\ Stages[s + 2].kind = "place" /\ Stages[s + 2].arg = i
         /\ Stages[s].kind = "place" =>
              \/ s > 1 /\ Stages[s - 1].kind = "pick" /\ Stages[s - 1].arg = i
              \/ /\ s > 2 /\ Stages[s - 1].kind = "zone" /\ Stages[s - 1].arg = CellZone
                 /\ Stages[s - 2].kind = "pick" /\ Stages[s - 2].arg = i
         /\ \A t \in 1..Len(Stages) :
              Stages[s].kind = "pick" /\ Stages[t].kind = "pick" /\ Stages[t].arg = i => t = s
<1>0. Len(Stages) \in Nat
  OBVIOUS
<1>1. ASSUME Stages[s].kind = "place"
      PROVE  \/ s > 1 /\ Stages[s - 1].kind = "pick" /\ Stages[s - 1].arg = i
             \/ /\ s > 2 /\ Stages[s - 1].kind = "zone" /\ Stages[s - 1].arg = CellZone
                /\ Stages[s - 2].kind = "pick" /\ Stages[s - 2].arg = i
  <2>1. PickedBefore(s, i)
    BY <1>1 DEF GraspsWhole
  <2> QED
    BY <2>1 DEF PickedBefore
<1>2. ASSUME Stages[s].kind = "pick"
      PROVE  /\ s > 1 /\ Stages[s - 1].kind = "vote" /\ Stages[s - 1].arg = i
             /\ s < Len(Stages)
             /\ \/ Stages[s + 1].kind = "place"
                \/ Stages[s + 1].kind = "zone" /\ s + 1 < Len(Stages) /\ Stages[s + 2].kind = "place"
  <2>1. s > 1 /\ Stages[s - 1] = [kind |-> "vote", arg |-> i] /\ s < Len(Stages) /\ PutDownAfter(s)
    BY <1>2 DEF GraspsWhole
  <2> QED
    BY <2>1 DEF PutDownAfter
<1>3. ASSUME Stages[s].kind = "pick", Stages[s + 1].kind = "place"
      PROVE  Stages[s + 1].arg = i
  <2>1. s + 1 \in 1..Len(Stages) /\ (s + 1) - 1 = s /\ (s + 1) - 2 = s - 1
    BY <1>0, <1>2, <1>3
  <2>2. Stages[s - 1].kind = "vote"
    BY <1>2, <1>3
  <2>3. PickedBefore(s + 1, Stages[s + 1].arg)
    BY <1>3, <2>1 DEF GraspsWhole
  <2>4. Stages[s] = [kind |-> "pick", arg |-> Stages[s + 1].arg]
    BY <1>3, <2>1, <2>2, <2>3 DEF PickedBefore
  <2> QED
    BY <2>4
<1>4. ASSUME Stages[s].kind = "pick", Stages[s + 1].kind = "zone", s + 1 < Len(Stages),
             Stages[s + 2].kind = "place"
      PROVE  Stages[s + 2].arg = i /\ Stages[s + 1].arg = CellZone
  <2>1. s + 2 \in 1..Len(Stages) /\ (s + 2) - 1 = s + 1 /\ (s + 2) - 2 = s
    BY <1>0, <1>4
  <2>2. PickedBefore(s + 2, Stages[s + 2].arg)
    BY <1>4, <2>1 DEF GraspsWhole
  <2>3. /\ Stages[s + 1] = [kind |-> "zone", arg |-> CellZone]
        /\ Stages[s] = [kind |-> "pick", arg |-> Stages[s + 2].arg]
    BY <1>4, <2>1, <2>2 DEF PickedBefore
  <2> QED
    BY <2>3
<1>5. ASSUME NEW t \in 1..Len(Stages), Stages[s].kind = "pick", Stages[t].kind = "pick",
             Stages[t].arg = i
      PROVE  t = s
  <2>1. Stages[t] = Stages[s]
    BY <1>5, StageRecord
  <2> QED
    BY <1>5, <2>1 DEF GraspsWhole
<1> QED
  BY <1>1, <1>2, <1>3, <1>4, <1>5

\* A part that is put down after the motion to the cell, is put down there; the
\* others come back to their slot.
LEMMA PlaceSite ==
  ASSUME GraspsWhole, NEW s \in 1..Len(Stages), Stages[s].kind = "place"
  PROVE  /\ s > 1
         /\ PlacedInCell(Stages[s].arg) <=> Stages[s - 1].kind = "zone"
         /\ Stages[s - 1].kind \in {"zone", "pick"}
<1> DEFINE i == Stages[s].arg
<1>0. Len(Stages) \in Nat
  OBVIOUS
<1>1. s > 1 /\ Stages[s - 1].kind \in {"zone", "pick"}
  BY StageNeighbours
<1>2. ASSUME Stages[s - 1].kind = "zone" PROVE PlacedInCell(i)
  <2>1. s \in 2..Len(Stages) /\ s - 1 \in 1..Len(Stages)
    BY <1>0, <1>1
  <2>2. Stages[s] = [kind |-> "place", arg |-> i]
    BY StageRecord
  <2>3. Stages[s - 1].arg = CellZone
    BY <1>2, StageNeighbours
  <2>4. Stages[s - 1] = [kind |-> "zone", arg |-> CellZone]
    BY <1>2, <2>1, <2>3, StageRecord
  <2> QED
    BY <2>1, <2>2, <2>4 DEF PlacedInCell
<1>3. ASSUME PlacedInCell(i), Stages[s - 1].kind = "pick" PROVE FALSE
  <2>1. PICK t \in 2..Len(Stages) : Stages[t] = [kind |-> "place", arg |-> i]
                                    /\ Stages[t - 1] = [kind |-> "zone", arg |-> CellZone]
    BY <1>3 DEF PlacedInCell
  <2>2. t \in 1..Len(Stages) /\ Stages[t].kind = "place" /\ Stages[t].arg = i
        /\ Stages[t - 1].kind = "zone"
    BY <1>0, <2>1
  <2>3. t > 2 /\ Stages[t - 2].kind = "pick" /\ Stages[t - 2].arg = i
    BY <2>2, StageNeighbours
  <2>4. Stages[s - 1].arg = i
    BY <1>3, StageNeighbours
  <2>5. t - 2 \in 1..Len(Stages) /\ s - 1 \in 1..Len(Stages)
    BY <1>0, <1>1, <2>2, <2>3
  <2>6. t - 2 = s - 1
    BY <1>3, <2>3, <2>4, <2>5, StageNeighbours
  <2>7. s = t - 1
    BY <2>2, <2>6
  <2> QED
    BY <2>2, <2>7
<1> QED
  BY <1>1, <1>2, <1>3

\* A pick leads to a place whose kind tells where the part goes.
LEMMA PickLeads ==
  ASSUME GraspsWhole, NEW s \in 1..Len(Stages), Stages[s].kind = "pick"
  PROVE  LET i == Stages[s].arg IN
         /\ s < Len(Stages) /\ Stages[s + 1].kind \in {"place", "zone"}
         /\ Stages[s + 1].kind = "place" =>
              Stages[s + 1].arg = i /\ Rest(i) = "slot" /\ Spot(i) = SlotOf[i]
         /\ Stages[s + 1].kind = "zone" =>
              /\ Stages[s + 1].arg = CellZone /\ s + 1 < Len(Stages)
              /\ Stages[s + 2].kind = "place" /\ Stages[s + 2].arg = i
              /\ Rest(i) = "cell" /\ Spot(i) = CellZone
<1> DEFINE i == Stages[s].arg
<1>0. Len(Stages) \in Nat
  OBVIOUS
<1>1. s < Len(Stages)
  BY StageNeighbours
<1>2. CASE Stages[s + 1].kind = "place"
  <2>1. Stages[s + 1].arg = i
    BY <1>2, StageNeighbours
  <2>2. s + 1 \in 1..Len(Stages) /\ (s + 1) - 1 = s
    BY <1>0, <1>1
  <2>3. ~PlacedInCell(i)
    BY <1>2, <2>1, <2>2, PlaceSite
  <2> QED
    BY <1>1, <1>2, <2>1, <2>3 DEF Rest, Spot
<1>3. CASE Stages[s + 1].kind # "place"
  <2>1. /\ Stages[s + 1].kind = "zone" /\ Stages[s + 1].arg = CellZone /\ s + 1 < Len(Stages)
        /\ Stages[s + 2].kind = "place" /\ Stages[s + 2].arg = i
    BY <1>3, StageNeighbours
  <2>2. s + 2 \in 1..Len(Stages) /\ (s + 2) - 1 = s + 1
    BY <1>0, <2>1
  <2>3. PlacedInCell(i)
    BY <2>1, <2>2, PlaceSite
  <2> QED
    BY <1>1, <2>1, <2>3 DEF Rest, Spot
<1> QED
  BY <1>2, <1>3

\* An opening and a closing position are never the same.
LEMMA PositionsApart ==
  ASSUME NEW i \in Items, NEW j \in Items
  PROVE  Position[i].OPEN # Position[j].CLOSE /\ Position[i].OPEN < Position[i].CLOSE
  BY DEF Position

-----------------------------------------------------------------------------
(* The steps of the pipeline.                                              *)

\* Which operation and stage come next.
LEMMA AdvanceTo ==
  ASSUME TypeOK, OpFits, op \notin {"prepare", "end"}, Advance
  PROVE  /\ phase' = "ready"
         /\ op = "vote" => op' = "moveSlot"
         /\ op = "readPose" => op' = IF Now.kind = "pick" THEN "gripPre" ELSE "moveDown"
         /\ op = "gripPre" => op' = "moveDown"
         /\ op = "moveDown" => op' = "gripPost"
         /\ op = "gripPost" => op' = "moveUp"
         /\ op \notin {"moveZone", "moveSlot", "moveUp"} => UNCHANGED <<stage, outcome>>
         /\ op \in {"moveZone", "moveSlot", "moveUp"} =>
              \/ /\ stage < Len(Stages) /\ stage' = stage + 1 /\ stage' \in 1..Len(Stages)
                 /\ op' = First(Stages[stage'].kind) /\ UNCHANGED outcome
              \/ stage = Len(Stages) /\ op' = "end" /\ UNCHANGED stage /\ outcome' = "complete"
<1>1. stage \in 1..Len(Stages) /\ Len(Stages) \in Nat /\ op \in Ops
  BY DEF TypeOK
<1>2. /\ op = "vote" => After(Now.kind, op) = "moveSlot"
      /\ op = "readPose" => After(Now.kind, op) = IF Now.kind = "pick" THEN "gripPre" ELSE "moveDown"
      /\ op = "gripPre" => After(Now.kind, op) = "moveDown"
      /\ op = "moveDown" => After(Now.kind, op) = "gripPost"
      /\ op = "gripPost" => After(Now.kind, op) = "moveUp"
      /\ op \in {"moveZone", "moveSlot", "moveUp"} => After(Now.kind, op) = "end"
  BY DEF After
<1>3. op \in {"vote", "readPose", "gripPre", "moveDown", "gripPost", "moveZone", "moveSlot", "moveUp"}
  BY <1>1 DEF Ops, Moves, Grips
<1>4. phase' = "ready"
  BY DEF Advance
<1>5. CASE op \in {"moveZone", "moveSlot", "moveUp"}
  <2>1. After(Now.kind, op) = "end"
    BY <1>2, <1>5
  <2>2. CASE stage < Len(Stages)
    <3>1. stage' = stage + 1 /\ op' = First(Stages[stage + 1].kind) /\ UNCHANGED outcome
      BY <2>1, <2>2 DEF Advance
    <3> QED
      BY <1>1, <1>4, <1>5, <2>2, <3>1
  <2>3. CASE ~(stage < Len(Stages))
    <3>1. outcome' = "complete" /\ op' = "end" /\ UNCHANGED stage
      BY <2>1, <2>3 DEF Advance
    <3> QED
      BY <1>1, <1>4, <1>5, <2>3, <3>1
  <2> QED
    BY <2>2, <2>3
<1>6. CASE op \notin {"moveZone", "moveSlot", "moveUp"}
  <2>1. After(Now.kind, op) # "end"
    BY <1>2, <1>3, <1>6
  <2>2. op' = After(Now.kind, op) /\ UNCHANGED <<stage, outcome>>
    BY <2>1 DEF Advance
  <2> QED
    BY <1>2, <1>4, <1>6, <2>2
<1> QED
  BY <1>5, <1>6

\* From the last motion of a stage: a loaded gripper is taken to the place stage of
\* its part, by way of the cell or directly; no other stage follows a pick.
LEMMA NextStageLoaded ==
  ASSUME GraspsWhole, TypeOK, OpFits, op \in {"moveZone", "moveSlot", "moveUp"},
         stage < Len(Stages), stage' = stage + 1, op' = First(Stages[stage'].kind)
  PROVE  /\ Loaded' <=> Loaded
         /\ Loaded => Carried' = Carried
         /\ Now'.kind = "pick" => op = "moveSlot" /\ Now.kind = "vote" /\ Now'.arg = Now.arg
         /\ Now'.kind = "place" =>
              /\ Loaded /\ Carried = Now'.arg
              /\ \/ Now.kind = "pick" /\ op = "moveUp" /\ Spot(Now.arg) = SlotOf[Now.arg]
                 \/ Now.kind = "zone" /\ op = "moveZone" /\ Now.arg = CellZone
                    /\ Spot(Now'.arg) = CellZone
<1>0. /\ stage \in 1..Len(Stages) /\ Len(Stages) \in Nat /\ stage' \in 1..Len(Stages)
      /\ stage' - 1 = stage /\ stage' - 2 = stage - 1
      /\ Now = Stages[stage] /\ Now' = Stages[stage']
  BY DEF TypeOK, Now
<1>1. /\ Now.kind \in {"zone", "vote", "pick", "place"}
      /\ Now'.kind \in {"zone", "vote", "pick", "place"}
  BY <1>0, StageArg
<1>2. /\ op = "moveZone" <=> Now.kind = "zone"
      /\ op = "moveSlot" <=> Now.kind = "vote"
      /\ op = "moveUp" <=> Now.kind \in {"pick", "place"}
  BY <1>1 DEF OpFits
<1>3. op' = First(Now'.kind)
  BY <1>0
<1>4. /\ Loaded' <=> (Now'.kind = "zone" /\ Now.kind = "pick") \/ Now'.kind = "place"
      /\ Loaded <=> \/ Now.kind = "pick"
                    \/ (Now.kind = "zone" /\ stage > 1 /\ Stages[stage - 1].kind = "pick")
  BY <1>0, <1>1, <1>2, <1>3 DEF Loaded, First
<1>5. ASSUME Now'.kind = "pick"
      PROVE  op = "moveSlot" /\ Now.kind = "vote" /\ Now'.arg = Now.arg
  BY <1>0, <1>2, <1>5, StageNeighbours
<1>6. CASE Now.kind = "pick"
  <2>1. /\ Now'.kind \in {"place", "zone"}
        /\ Now'.kind = "place" => Now'.arg = Now.arg /\ Spot(Now.arg) = SlotOf[Now.arg]
    BY <1>0, <1>6, PickLeads
  <2>2. Loaded /\ Loaded' /\ Carried = Now.arg /\ Carried' = Now.arg
    BY <1>0, <1>4, <1>6, <2>1 DEF Carried
  <2> QED
    BY <1>2, <1>6, <2>1, <2>2
<1>7. CASE Now.kind = "zone" /\ stage > 1 /\ Stages[stage - 1].kind = "pick"
  <2> DEFINE i == Stages[stage - 1].arg
  <2>1. stage - 1 \in 1..Len(Stages) /\ (stage - 1) + 1 = stage /\ (stage - 1) + 2 = stage'
    BY <1>0, <1>7
  <2>2. /\ Now.arg = CellZone /\ Now'.kind = "place" /\ Now'.arg = i
        /\ Spot(i) = CellZone
    BY <1>0, <1>7, <2>1, PickLeads
  <2>3. Loaded /\ Loaded' /\ Carried = i /\ Carried' = i
    BY <1>4, <1>7, <2>2 DEF Carried
  <2> QED
    BY <1>2, <1>7, <2>2, <2>3
<1>8. CASE Now.kind # "pick" /\ ~(Now.kind = "zone" /\ stage > 1 /\ Stages[stage - 1].kind = "pick")
  <2>1. Now'.kind # "place"
    BY <1>0, <1>8, StageNeighbours
  <2> QED
    BY <1>4, <1>5, <1>8, <2>1
<1> QED
  BY <1>5, <1>6, <1>7, <1>8

LEMMA NextStageKeeps ==
  ASSUME GraspsWhole, TypeOK, OpFits, PartsFollowed, Running, ~tainted,
         op \in {"moveZone", "moveSlot", "moveUp"}, phase = "waiting", goal[run].st = "succeeded",
         Advance, lastGrip' = lastGrip,
         UNCHANGED <<run, startPose, slot, goal, world, tainted, missed>>
  PROVE  PartsFollowed'
<1>0. stage \in 1..Len(Stages) /\ Len(Stages) \in Nat /\ Now = Stages[stage] /\ Now' = Stages[stage']
  BY DEF TypeOK, Now
<1>1. /\ arm = MoveTarget /\ op \in Moves /\ op \notin Grips
      /\ \A r \in Runs : ~InFlight(r)
  BY DEF PartsFollowed, Commanded, Moves, Grips, InFlight
<1>2. phase' = "ready" /\ \A r \in Runs : ~InFlight(r)'
  BY <1>1, AdvanceTo DEF InFlight
<1>3. ~Taking /\ (Now.kind = "place" => Done(stage) /\ ~Loaded)
  BY DEF Taking, Done, OpFits, Loaded
<1>4. GripsAnswered' /\ UnpickedStay' /\ NothingLost'
  BY <1>2 DEF GripsAnswered, PartsFollowed, UnpickedStay, NothingLost, world
<1>5. CASE stage < Len(Stages) /\ stage' = stage + 1 /\ stage' \in 1..Len(Stages)
           /\ op' = First(Stages[stage'].kind) /\ UNCHANGED outcome
  <2>1. Now'.kind \in {"zone", "vote", "pick", "place"}
    BY <1>0, <1>5, StageArg
  <2>2. op' = First(Now'.kind) /\ op' \in {"moveZone", "vote", "readPose"}
        /\ (op' = "readPose" => Now'.kind \in {"pick", "place"}) /\ ~Taking'
    BY <1>0, <1>5, <2>1 DEF First, Taking
  <2>3. Commanded'
    BY <1>2, <1>5, <2>2 DEF Commanded, Running
  <2>4. /\ Loaded' <=> Loaded
        /\ Loaded => Carried' = Carried
        /\ Now'.kind = "pick" => op = "moveSlot" /\ Now.kind = "vote" /\ Now'.arg = Now.arg
        /\ Now'.kind = "place" =>
             /\ Loaded /\ Carried = Now'.arg
             /\ \/ Now.kind = "pick" /\ op = "moveUp" /\ Spot(Now.arg) = SlotOf[Now.arg]
                \/ Now.kind = "zone" /\ op = "moveZone" /\ Now.arg = CellZone
                   /\ Spot(Now'.arg) = CellZone
    BY <1>5, NextStageLoaded
  <2>5. HeldIsCarried'
    BY <1>3, <2>4 DEF PartsFollowed, HeldIsCarried, world
  <2>6. CarriedIsHeld'
    BY <2>4 DEF PartsFollowed, CarriedIsHeld, world
  <2>7. FingersKnown'
    BY <2>2, <2>4 DEF PartsFollowed, FingersKnown
  <2>8. PosesKnown'
    <3>1. CASE Now'.kind = "pick"
      <4>1. arm = Above(slot) /\ Meant(Above(slot), SlotOf[Now.arg])
        BY <1>1, <2>4, <3>1 DEF PartsFollowed, PosesKnown, MoveTarget
      <4>2. Meant(arm, Site)'
        BY <2>4, <3>1, <4>1 DEF Meant, Site, world
      <4> QED
        BY <2>2, <4>2 DEF PosesKnown
    <3>2. CASE Now'.kind = "place"
      <4>1. CASE Now.kind = "pick" /\ op = "moveUp" /\ Spot(Now.arg) = SlotOf[Now.arg]
        <5>1. arm = startPose /\ Meant(startPose, SlotOf[Now.arg]) /\ Now'.arg = Now.arg
          BY <1>1, <2>4, <3>2, <4>1 DEF PartsFollowed, PosesKnown, MoveTarget, Carried, Site
        <5>2. Meant(arm, Site)'
          BY <3>2, <4>1, <5>1 DEF Meant, Site, world
        <5> QED
          BY <2>2, <5>2 DEF PosesKnown
      <4>2. CASE op = "moveZone" /\ Now.arg = CellZone /\ Spot(Now'.arg) = CellZone
        <5>1. arm = Above(CellZone)
          BY <1>1, <4>2 DEF MoveTarget
        <5>2. Meant(arm, Site)'
          BY <3>2, <4>2, <5>1 DEF Meant, Site, world
        <5> QED
          BY <2>2, <5>2 DEF PosesKnown
      <4> QED
        BY <2>4, <3>2, <4>1, <4>2
    <3>3. CASE Now'.kind \notin {"pick", "place"}
      BY <2>2, <3>3 DEF PosesKnown
    <3> QED
      BY <3>1, <3>2, <3>3
  <2>9. SeenInSlot'
    BY <1>3, <2>2, <2>4 DEF PartsFollowed, SeenInSlot, world
  <2>10. DoneDelivered'
    <3>1. \A s \in 1..Len(Stages) : Stages[s].kind = "place" /\ Done(s)' => Done(s)
      BY <1>0, <1>3, <1>5, <2>2 DEF Done
    <3> QED
      BY <3>1 DEF PartsFollowed, DoneDelivered, world
  <2> QED
    BY <1>4, <2>3, <2>5, <2>6, <2>7, <2>8, <2>9, <2>10 DEF PartsFollowed
<1>6. CASE stage = Len(Stages) /\ op' = "end" /\ UNCHANGED stage /\ outcome' = "complete"
  <2>1. ~Loaded' /\ ~Taking'
    BY <1>6 DEF Loaded, Taking
  <2>2. ~Loaded
    <3>1. Now.kind # "pick"
      BY <1>0, <1>6, PickLeads
    <3>2. ASSUME Now.kind = "zone", stage > 1, Stages[stage - 1].kind = "pick" PROVE FALSE
      <4>1. stage - 1 \in 1..Len(Stages) /\ (stage - 1) + 1 = stage
        BY <1>0, <3>2
      <4>2. (stage - 1) + 1 < Len(Stages)
        BY <1>0, <3>2, <4>1, PickLeads
      <4> QED
        BY <1>6, <4>1, <4>2
    <3> QED
      BY <1>3, <3>1, <3>2 DEF Loaded, OpFits
  <2>3. Commanded'
    BY <1>2, <1>6 DEF Commanded
  <2>4. HeldIsCarried' /\ CarriedIsHeld' /\ FingersKnown' /\ PosesKnown' /\ SeenInSlot'
    BY <1>3, <1>6, <2>1, <2>2
    DEF PartsFollowed, HeldIsCarried, CarriedIsHeld, FingersKnown, PosesKnown, SeenInSlot, world
  <2>5. DoneDelivered'
    <3>1. \A s \in 1..Len(Stages) : Stages[s].kind = "place" /\ Done(s)' => Done(s)
      BY <1>0, <1>3, <1>6 DEF Done
    <3> QED
      BY <3>1 DEF PartsFollowed, DoneDelivered, world
  <2> QED
    BY <1>4, <2>3, <2>4, <2>5 DEF PartsFollowed
<1> QED
  BY <1>5, <1>6, AdvanceTo

\* Nothing but the operation moves on within a stage: what the steps share.
LEMMA SameStageKeeps ==
  ASSUME PartsFollowed, ~tainted, Running, phase' = "ready", \A r \in Runs : ~InFlight(r),
         op' \in {"moveSlot", "gripPre", "moveDown", "gripPost"}, op \notin {"gripPost", "moveUp", "end"},
         op' = "gripPre" => Now.kind = "pick",
         UNCHANGED <<run, stage, outcome, goal, aperture, where, tainted>>,
         missed \subseteq missed',
         Loaded' <=> Loaded,
         FingersKnown', PosesKnown', SeenInSlot'
  PROVE  PartsFollowed'
<1>1. Now' = Now /\ Carried' = Carried
  BY DEF Now, Carried
<1>2. Commanded'
  BY <1>1 DEF Commanded, InFlight, Running
<1>3. ~Taking
  BY DEF Taking
<1>4. HeldIsCarried' /\ UnpickedStay' /\ NothingLost' /\ GripsAnswered'
  BY <1>1, <1>3 DEF PartsFollowed, HeldIsCarried, UnpickedStay, NothingLost, GripsAnswered
<1>5. CarriedIsHeld'
  BY <1>1 DEF PartsFollowed, CarriedIsHeld
<1>6. DoneDelivered'
  BY DEF PartsFollowed, DoneDelivered, Done
<1> QED
  BY <1>2, <1>4, <1>5, <1>6 DEF PartsFollowed

LEMMA VoteFollows ==
  ASSUME GraspsWhole, IInv, PartsFollowed, ~tainted, Vote PROVE PartsFollowed'
<1>0. /\ TypeOK /\ OpFits /\ Running /\ op = "vote" /\ phase # "waiting" /\ Now.kind = "vote"
      /\ \A r \in Runs : ~InFlight(r)
  BY DEF Vote, IInv, TypeOK, OpFits, Moves, Grips, PartsFollowed, Commanded
<1>1. phase' = "ready" /\ op' = "moveSlot" /\ UNCHANGED <<stage, outcome>> /\ Now' = Now
  BY <1>0, AdvanceTo DEF Vote, Now
<1>2. ~Loaded /\ ~Loaded'
  BY <1>0, <1>1 DEF Loaded
<1>3. PosesKnown'
  BY <1>0, <1>1 DEF Vote, PosesKnown, Meant
<1>4. SeenInSlot'
  BY <1>0, <1>1 DEF Vote, SeenInSlot, world
<1>5. FingersKnown'
  BY <1>1, <1>2 DEF FingersKnown
<1> QED
  BY <1>0, <1>1, <1>2, <1>3, <1>4, <1>5, SameStageKeeps DEF Vote, world

LEMMA ReadPoseFollows ==
  ASSUME GraspsWhole, IInv, PartsFollowed, ~tainted, ReadPose PROVE PartsFollowed'
<1>0. /\ TypeOK /\ OpFits /\ Running /\ op = "readPose" /\ phase # "waiting"
      /\ Now.kind \in {"pick", "place"} /\ \A r \in Runs : ~InFlight(r)
  BY DEF ReadPose, IInv, TypeOK, OpFits, Moves, Grips, PartsFollowed, Commanded
<1>1. /\ phase' = "ready" /\ op' = (IF Now.kind = "pick" THEN "gripPre" ELSE "moveDown")
      /\ UNCHANGED <<stage, outcome>> /\ Now' = Now
  BY <1>0, AdvanceTo DEF ReadPose, Now
<1>2. (Loaded' <=> Loaded) /\ Carried' = Carried
  BY <1>0, <1>1 DEF Loaded, Carried
<1>3. PosesKnown'
  <2>1. Meant(arm, Site)
    BY <1>0 DEF PartsFollowed, PosesKnown
  <2>2. Site' = Site
    BY <1>1 DEF Site
  <2>3. Meant(startPose, Site)'
    BY <1>1, <2>1, <2>2 DEF ReadPose, Meant
  <2> QED
    BY <1>1, <2>3 DEF PosesKnown
<1>4. SeenInSlot'
  BY <1>0, <1>1 DEF ReadPose, PartsFollowed, SeenInSlot, world
<1>5. FingersKnown'
  BY <1>0, <1>1, <1>2 DEF ReadPose, PartsFollowed, FingersKnown
<1>6. missed \subseteq missed'
  BY DEF ReadPose
<1> QED
  BY <1>0, <1>1, <1>2, <1>3, <1>4, <1>5, <1>6, SameStageKeeps DEF ReadPose, world

\* The targets of the grips, by name.
LEMMA GripTargets ==
  /\ op = "gripPre" /\ Now.kind = "pick" => GripTarget = Position[Now.arg].OPEN
  /\ op = "gripPost" /\ Now.kind = "pick" => GripTarget = Position[Now.arg].CLOSE
  /\ op = "gripPost" /\ Now.kind = "place" => GripTarget = Position[Now.arg].OPEN
  BY DEF GripTarget

\* The fingers have opened for a pick, by a command or because they were open.
LEMMA OpenedFollows ==
  ASSUME GraspsWhole, IInv, PartsFollowed, ~tainted, Running, op = "gripPre", Advance,
         lastGrip' = GripTarget, \A r \in Runs : ~InFlight(r),
         UNCHANGED <<run, startPose, slot, goal, world, tainted, missed>>
  PROVE  PartsFollowed'
<1>0. TypeOK /\ OpFits /\ Now.kind = "pick"
  BY DEF IInv, PartsFollowed, Commanded
<1>1. phase' = "ready" /\ op' = "moveDown" /\ UNCHANGED <<stage, outcome>> /\ Now' = Now
  BY <1>0, AdvanceTo DEF Now
<1>2. ~Loaded /\ ~Loaded'
  BY <1>0, <1>1 DEF Loaded
<1>3. PosesKnown'
  <2>1. Meant(startPose, Site)' 
    BY <1>1 DEF PartsFollowed, PosesKnown, Meant, Site
  <2> QED
    BY <1>1, <2>1 DEF PosesKnown
<1>4. SeenInSlot'
  BY <1>0, <1>1 DEF PartsFollowed, SeenInSlot, Taking, world
<1>5. FingersKnown'
  BY <1>0, <1>1, <1>2, GripTargets DEF FingersKnown
<1> QED
  BY <1>0, <1>1, <1>2, <1>3, <1>4, <1>5, SameStageKeeps DEF world

\* The tool has come down to the part or to the place.
LEMMA LoweredFollows ==
  ASSUME GraspsWhole, IInv, PartsFollowed, ~tainted, Running, op = "moveDown", Advance,
         phase = "waiting", goal[run].st = "succeeded", lastGrip' = lastGrip,
         UNCHANGED <<run, startPose, slot, goal, world, tainted, missed>>
  PROVE  PartsFollowed'
<1>0. /\ TypeOK /\ OpFits /\ Now.kind \in {"pick", "place"} /\ arm = Lowered(startPose)
      /\ \A r \in Runs : ~InFlight(r)
  BY DEF IInv, OpFits, PartsFollowed, Commanded, Moves, MoveTarget, InFlight
<1>1. phase' = "ready" /\ op' = "gripPost" /\ UNCHANGED <<stage, outcome>> /\ Now' = Now
  BY <1>0, AdvanceTo DEF Now
<1>2. (Loaded' <=> Loaded) /\ Carried' = Carried
  BY <1>0, <1>1 DEF Loaded, Carried
<1>3. PosesKnown'
  <2>1. Meant(startPose, Site)' /\ arm' = Lowered(startPose')
    BY <1>0, <1>1 DEF PartsFollowed, PosesKnown, Meant, Site, world
  <2> QED
    BY <1>1, <2>1 DEF PosesKnown
<1>4. SeenInSlot'
  BY <1>0, <1>1 DEF PartsFollowed, SeenInSlot, Taking, world
<1>5. FingersKnown'
  BY <1>0, <1>1, <1>2 DEF PartsFollowed, FingersKnown
<1> QED
  BY <1>0, <1>1, <1>2, <1>3, <1>4, <1>5, SameStageKeeps DEF world

\* The fingers have closed on the part or let it go.
LEMMA GrippedFollows ==
  ASSUME GraspsWhole, IInv, PartsFollowed, ~tainted, Running, op = "gripPost", Advance,
         phase = "waiting", goal[run].st = "succeeded", lastGrip' = goal[run].grip,
         UNCHANGED <<run, startPose, slot, goal, world, tainted, missed>>
  PROVE  PartsFollowed'
<1>0. /\ TypeOK /\ OpFits /\ Now.kind \in {"pick", "place"} /\ lastGrip' = GripTarget
      /\ \A r \in Runs : ~InFlight(r)
  BY DEF IInv, OpFits, PartsFollowed, Commanded, Grips, InFlight
<1>1. phase' = "ready" /\ op' = "moveUp" /\ UNCHANGED <<stage, outcome>> /\ Now' = Now
  BY <1>0, AdvanceTo DEF Now
<1>2. /\ Loaded <=> Now.kind = "place"
      /\ Taking <=> Now.kind = "pick"
      /\ Loaded' <=> Now.kind = "pick"
      /\ Carried = Now.arg /\ Carried' = Now.arg /\ ~Taking'
  BY <1>0, <1>1 DEF Loaded, Taking, Carried
<1>3. Commanded'
  BY <1>0, <1>1 DEF Commanded, InFlight, Running
<1>4. HeldIsCarried'
  BY <1>0, <1>1, <1>2 DEF PartsFollowed, HeldIsCarried, GripsAnswered, world
<1>5. CarriedIsHeld'
  BY <1>0, <1>1, <1>2 DEF PartsFollowed, CarriedIsHeld, GripsAnswered, world
<1>6. GripsAnswered' /\ SeenInSlot'
  BY <1>1 DEF GripsAnswered, SeenInSlot
<1>7. FingersKnown'
  BY <1>0, <1>1, <1>2, GripTargets DEF FingersKnown
<1>8. PosesKnown'
  <2>1. Meant(startPose, Site)'
    BY <1>1 DEF PartsFollowed, PosesKnown, Meant, Site
  <2> QED
    BY <1>1, <2>1 DEF PosesKnown
<1>9. DoneDelivered'
  <2>1. \A s \in 1..Len(Stages) : Done(s)' => Done(s) \/ s = stage
    BY <1>1 DEF Done
  <2>2. Now.kind = "place" /\ Now.arg \notin missed => where[Now.arg] = Rest(Now.arg)
    BY <1>2 DEF PartsFollowed, GripsAnswered
  <2> QED
    BY <2>1, <2>2 DEF PartsFollowed, DoneDelivered, Now, world
<1>10. UnpickedStay' /\ NothingLost'
  BY DEF PartsFollowed, UnpickedStay, NothingLost, world
<1> QED
  BY <1>3, <1>4, <1>5, <1>6, <1>7, <1>8, <1>9, <1>10 DEF PartsFollowed

LEMMA SkipGripFollows ==
  ASSUME GraspsWhole, IInv, PartsFollowed, ~tainted, SkipGrip PROVE PartsFollowed'
<1>1. /\ Running /\ phase = "ready" /\ lastGrip = GripTarget /\ op \in {"gripPre", "gripPost"}
      /\ \A r \in Runs : ~InFlight(r)
  BY DEF SkipGrip, Grips, PartsFollowed, Commanded
<1>2. op # "gripPost"
  <2> SUFFICES ASSUME op = "gripPost" PROVE FALSE
    OBVIOUS
  <2>1. Now.kind \in {"pick", "place"} /\ stage \in 1..Len(Stages)
    BY DEF IInv, OpFits, TypeOK
  <2>2. Now.arg \in Items
    BY <2>1, StageArg DEF Now
  <2>3. Now.kind = "place" => Loaded /\ Carried = Now.arg
    BY DEF Loaded, Carried
  <2> QED
    BY <1>1, <2>1, <2>2, <2>3, GripTargets, PositionsApart DEF PartsFollowed, FingersKnown
<1> QED
  BY <1>1, <1>2, OpenedFollows DEF SkipGrip

LEMMA ProceedFollows ==
  ASSUME GraspsWhole, IInv, PartsFollowed, ~tainted, Proceed PROVE PartsFollowed'
<1>0. /\ TypeOK /\ OpFits /\ Running /\ phase = "waiting" /\ goal[run].st = "succeeded" /\ Advance
      /\ op \in Moves \cup Grips
      /\ UNCHANGED <<run, startPose, slot, goal, world, tainted, missed>>
  BY DEF Proceed, IInv, PartsFollowed, Commanded
<1>1. /\ op \in Grips => lastGrip' = goal[run].grip /\ goal[run].grip = GripTarget
      /\ op \notin Grips => lastGrip' = lastGrip
      /\ \A r \in Runs : ~InFlight(r)
  BY <1>0 DEF Proceed, PartsFollowed, Commanded, InFlight
<1>2. CASE op \in {"moveZone", "moveSlot", "moveUp"}
  BY <1>0, <1>1, <1>2, NextStageKeeps DEF Grips
<1>3. CASE op = "moveDown"
  BY <1>0, <1>1, <1>3, LoweredFollows DEF Grips
<1>4. CASE op = "gripPre"
  BY <1>0, <1>1, <1>4, OpenedFollows DEF Grips
<1>5. CASE op = "gripPost"
  BY <1>0, <1>1, <1>5, GrippedFollows DEF Grips
<1> QED
  BY <1>0, <1>2, <1>3, <1>4, <1>5 DEF Moves, Grips

LEMMA PrepareFollows ==
  ASSUME GraspsWhole, IInv, PartsFollowed, ~tainted, Prepare PROVE PartsFollowed'
<1>1. /\ stage = 1 /\ stage' = 1 /\ op = "prepare" /\ 1 \in 1..Len(Stages) /\ Running
      /\ phase # "waiting" /\ UNCHANGED <<stage, outcome>> /\ Now = Stages[1] /\ Now' = Now
      /\ op' = First(Now.kind) /\ phase' = phase
  BY DEF IInv, TypeOK, OpFits, Prepare, Moves, Grips, Now
<1>2. Now.kind \in {"zone", "vote"}
  BY <1>1, StageArg, StageNeighbours
<1>3. op' \in {"moveZone", "vote"}
  BY <1>1, <1>2 DEF First
<1>4. ~Loaded /\ ~Loaded' /\ ~Taking /\ ~Taking'
  BY <1>1, <1>2, <1>3 DEF Loaded, Taking
<1>5. Commanded'
  BY <1>1, <1>3 DEF Prepare, PartsFollowed, Commanded, InFlight, Running
<1>6. /\ HeldIsCarried' /\ CarriedIsHeld' /\ GripsAnswered' /\ FingersKnown' /\ PosesKnown'
      /\ SeenInSlot' /\ UnpickedStay' /\ NothingLost'
  BY <1>1, <1>2, <1>3, <1>4
  DEF Prepare, PartsFollowed, HeldIsCarried, CarriedIsHeld, GripsAnswered, FingersKnown, PosesKnown,
      SeenInSlot, UnpickedStay, NothingLost, world
<1>7. DoneDelivered'
  BY <1>1, <1>3 DEF Prepare, PartsFollowed, DoneDelivered, Done, world
<1> QED
  BY <1>5, <1>6, <1>7 DEF PartsFollowed

\* A run that ends early leaves the parts, and a goal in flight, as they are.
LEMMA StopFollows ==
  ASSUME PartsFollowed, ~tainted, NEW how \in {"failed", "interrupted"}, Stop(how),
         UNCHANGED <<run, startPose, slot, goal, world, tainted, missed>>
  PROVE  PartsFollowed'
<1>1. ~Running' /\ outcome' # "complete" /\ UNCHANGED <<stage, op, phase>> /\ Now' = Now
  BY DEF Stop, Running, Now
<1>2. (Loaded' <=> Loaded) /\ Carried' = Carried /\ (Taking' <=> Taking) /\ Site' = Site
  BY <1>1 DEF Loaded, Carried, Taking, Site
<1>3. Commanded'
  BY <1>1 DEF PartsFollowed, Commanded, InFlight, MoveTarget, GripTarget, world
<1>4. /\ HeldIsCarried' /\ CarriedIsHeld' /\ GripsAnswered' /\ FingersKnown'
      /\ SeenInSlot' /\ UnpickedStay' /\ NothingLost'
  BY <1>1, <1>2
  DEF PartsFollowed, HeldIsCarried, CarriedIsHeld, GripsAnswered, FingersKnown, SeenInSlot,
      UnpickedStay, NothingLost, world
<1>5. PosesKnown' /\ DoneDelivered'
  BY <1>1, <1>2 DEF PartsFollowed, PosesKnown, Meant, DoneDelivered, Done, world
<1> QED
  BY <1>3, <1>4, <1>5 DEF PartsFollowed

LEMMA SendGoalFollows ==
  ASSUME GraspsWhole, IInv, PartsFollowed, ~tainted, SendGoal PROVE PartsFollowed'
<1>1. /\ run \in Runs /\ goal \in [Runs -> GoalType] /\ op \in Moves \cup Grips
      /\ phase = "ready" /\ phase' = "waiting" /\ Running
      /\ UNCHANGED <<run, outcome, stage, op, startPose, slot, lastGrip, world, tainted, missed>>
      /\ Now' = Now
  BY DEF SendGoal, IInv, TypeOK, Now
<1>2. (Loaded' <=> Loaded) /\ Carried' = Carried /\ (Taking' <=> Taking) /\ Site' = Site
      /\ MoveTarget' = MoveTarget /\ GripTarget' = GripTarget
  BY <1>1 DEF Loaded, Carried, Taking, Site, MoveTarget, GripTarget
<1>3. /\ goal'[run].st = "pending" /\ goal'[run].op = op
      /\ op \in Moves => goal'[run].pose = MoveTarget
      /\ op \in Grips => goal'[run].grip = GripTarget
      /\ \A r \in Runs : r # run => goal'[r] = goal[r]
  BY <1>1 DEF SendGoal
<1>4. Commanded'
  BY <1>1, <1>2, <1>3 DEF PartsFollowed, Commanded, InFlight, Running
<1>5. /\ HeldIsCarried' /\ CarriedIsHeld' /\ GripsAnswered' /\ FingersKnown'
      /\ SeenInSlot' /\ UnpickedStay' /\ NothingLost'
  BY <1>1, <1>2, <1>3
  DEF PartsFollowed, HeldIsCarried, CarriedIsHeld, GripsAnswered, FingersKnown, SeenInSlot,
      UnpickedStay, NothingLost, Running, world
<1>6. PosesKnown' /\ DoneDelivered'
  BY <1>1, <1>2 DEF PartsFollowed, PosesKnown, Meant, DoneDelivered, Done, world
<1> QED
  BY <1>4, <1>5, <1>6 DEF PartsFollowed

\* A new run starts with every part lying where the earlier ones left it.
LEMMA RestartFollows ==
  ASSUME GraspsWhole, IInv, PartsFollowed, ~tainted', Restart PROVE PartsFollowed'
<1>1. /\ \A r \in Runs : ~InFlight(r)
      /\ \A i \in Items : where[i] \notin {"held", "lost"}
      /\ stage' = 1 /\ op' = "prepare" /\ phase' = "ready" /\ outcome' = "running"
      /\ UNCHANGED <<goal, where>>
  BY DEF Restart, Leftovers, world
<1>2. ~Loaded' /\ ~Taking' /\ \A s \in 1..Len(Stages) : ~Done(s)'
  BY <1>1 DEF Loaded, Taking, Done
<1>3. Commanded'
  BY <1>1 DEF Commanded, InFlight
<1> QED
  BY <1>1, <1>2, <1>3
  DEF PartsFollowed, HeldIsCarried, CarriedIsHeld, GripsAnswered, FingersKnown, PosesKnown,
      SeenInSlot, DoneDelivered, UnpickedStay, NothingLost

-----------------------------------------------------------------------------
(* The steps of the servers.                                               *)

\* The goal in flight goes on or is answered, and no part is moved.
LEMMA ServerFollows ==
  ASSUME IInv, PartsFollowed, ~tainted, InFlight(run), UNCHANGED <<process, where, tainted, missed>>,
         NEW status \in {"executing", "succeeded", "aborted", "rejected"}, SetStatus(run, status),
         op \in Grips => arm' = arm /\ (status = "succeeded" => op = "gripPre"),
         op \in Moves /\ status = "succeeded" => arm' = goal[run].pose
  PROVE  PartsFollowed'
<1>1. /\ run \in Runs /\ goal \in [Runs -> GoalType] /\ phase = "waiting" /\ op \in Moves \cup Grips
      /\ UNCHANGED <<run, outcome, stage, op, phase, startPose, slot, lastGrip>> /\ Now' = Now
  BY DEF IInv, TypeOK, PartsFollowed, Commanded, process, Now
<1>2. (Loaded' <=> Loaded) /\ Carried' = Carried /\ (Taking' <=> Taking) /\ Site' = Site
      /\ MoveTarget' = MoveTarget /\ GripTarget' = GripTarget
  BY <1>1 DEF Loaded, Carried, Taking, Site, MoveTarget, GripTarget
<1>3. /\ goal'[run].st = status /\ goal'[run].op = goal[run].op /\ goal'[run].pose = goal[run].pose
      /\ goal'[run].grip = goal[run].grip
      /\ \A r \in Runs : r # run => goal'[r] = goal[r]
  BY <1>1 DEF SetStatus, GoalType
<1>4. op \in Moves => op \notin {"gripPre", "gripPost", "readPose"}
  BY DEF Moves
<1>5. Commanded'
  BY <1>1, <1>2, <1>3, <1>4 DEF PartsFollowed, Commanded, InFlight, Grips
<1>6. GripsAnswered'
  BY <1>1, <1>3, <1>4 DEF GripsAnswered, Grips
<1>7. /\ HeldIsCarried' /\ CarriedIsHeld' /\ FingersKnown' /\ SeenInSlot' /\ UnpickedStay'
      /\ NothingLost'
  BY <1>1, <1>2
  DEF PartsFollowed, HeldIsCarried, CarriedIsHeld, FingersKnown, SeenInSlot, UnpickedStay,
      NothingLost, Running
<1>8. PosesKnown' /\ DoneDelivered'
  BY <1>1, <1>2, <1>4 DEF PartsFollowed, PosesKnown, Meant, DoneDelivered, Done, Grips, Moves
<1> QED
  BY <1>5, <1>6, <1>7, <1>8 DEF PartsFollowed

\* The parts that a grip moves: none when the fingers open before a pick, the part
\* of the stage when they close on it or let it go.
LEMMA HandleWhat ==
  ASSUME IInv, PartsFollowed, ~tainted, InFlight(run), op \in Grips, Handle(GripTarget)
  PROVE  /\ stage \in 1..Len(Stages) /\ Now.arg \in Items
         /\ \A i \in Items : (op = "gripPre" \/ i # Now.arg) => where'[i] = where[i]
         /\ op = "gripPost" /\ Now.kind = "pick" =>
              /\ where'[Now.arg] \in {where[Now.arg], "held"}
              /\ Now.arg \notin missed => where'[Now.arg] = "held"
         /\ op = "gripPost" /\ Now.kind = "place" =>
              /\ where'[Now.arg] # "held"
              /\ where[Now.arg] = "slot" => where'[Now.arg] = "slot"
              /\ Now.arg \notin missed => where'[Now.arg] = Rest(Now.arg)
<1> DEFINE j == Now.arg
<1>1. /\ stage \in 1..Len(Stages) /\ Now = Stages[stage] /\ Now.kind \in {"pick", "place"}
      /\ op \in {"gripPre", "gripPost"} /\ phase = "waiting" /\ run \in Runs
      /\ op = "gripPre" => Now.kind = "pick"
  BY DEF IInv, TypeOK, OpFits, Grips, Now, PartsFollowed, Commanded
<1>2. j \in Items
  BY <1>1, StageArg
<1>3. Here = arm
  BY <1>1 DEF Here, PartsFollowed, Commanded, InFlight, Executing, Moves, Grips
<1>4. op = "gripPost" => /\ arm = Lowered(startPose)
                         /\ \/ startPose = Above(Site)
                            \/ j \in missed /\ startPose = Above(Nowhere)
  BY DEF PartsFollowed, PosesKnown, Meant
<1>5. \A i \in Items :
        where'[i] =
          IF where[i] = "slot" /\ arm = Lowered(Above(SlotOf[i])) /\ GripTarget = Position[i].CLOSE
            THEN "held"
          ELSE IF where[i] = "held" /\ GripTarget < Position[i].CLOSE
            THEN IF arm = Lowered(Above(CellZone)) THEN "cell"
                 ELSE IF arm = Lowered(Above(SlotOf[i])) THEN "slot" ELSE "lost"
          ELSE where[i]
  BY <1>3 DEF Handle
<1>6. CASE op = "gripPre"
  <2>1. GripTarget = Position[j].OPEN /\ ~Loaded /\ ~Taking
    BY <1>1, <1>6, GripTargets DEF Loaded, Taking
  <2>2. \A i \in Items : where[i] # "held" /\ GripTarget # Position[i].CLOSE
    BY <1>2, <2>1, PositionsApart DEF PartsFollowed, HeldIsCarried
  <2> QED
    BY <1>1, <1>2, <1>5, <1>6, <2>2
<1>7. CASE op = "gripPost" /\ Now.kind = "pick"
  <2>1. GripTarget = Position[j].CLOSE /\ ~Loaded /\ Site = SlotOf[j] /\ Position[j].CLOSE \in Nat
    BY <1>2, <1>7, GripTargets, PositionType DEF Loaded, Site
  <2>2. \A i \in Items : where[i] = "held" => i = j
    BY <2>1 DEF PartsFollowed, HeldIsCarried
  <2>3. \A i \in Items : i # j => arm # Lowered(Above(SlotOf[i]))
    BY <1>2, <1>4, <1>7, <2>1 DEF Above, Lowered
  <2>4. j \notin missed => arm = Lowered(Above(SlotOf[j])) /\ where[j] \in {"slot", "held"}
    BY <1>4, <1>7, <2>1 DEF PartsFollowed, SeenInSlot
  <2>5. where'[j] \in {where[j], "held"} /\ (j \notin missed => where'[j] = "held")
    BY <1>2, <1>5, <2>1, <2>4
  <2>6. \A i \in Items : i # j => where'[i] = where[i]
    BY <1>5, <2>2, <2>3
  <2> QED
    BY <1>1, <1>2, <1>7, <2>5, <2>6
<1>8. CASE op = "gripPost" /\ Now.kind = "place"
  <2>1. GripTarget = Position[j].OPEN /\ Loaded /\ Carried = j /\ ~Taking /\ Site = Spot(j)
    BY <1>8, GripTargets DEF Loaded, Carried, Taking, Site
  <2>2. \A i \in Items : where[i] = "held" => i = j
    BY <2>1 DEF PartsFollowed, HeldIsCarried
  <2>3. /\ \A i \in Items : GripTarget # Position[i].CLOSE
        /\ GripTarget < Position[j].CLOSE
    BY <1>2, <2>1, PositionsApart
  <2>4. j \notin missed => /\ arm = Lowered(Above(Spot(j)))
                           /\ where[j] = "held" \/ where[j] = Rest(j)
    BY <1>4, <1>8, <2>1 DEF PartsFollowed, CarriedIsHeld
  <2>5. Lowered(Above(SlotOf[j])) # Lowered(Above(CellZone))
    BY <1>2 DEF Above, Lowered
  <2>6. where[j] # "held" => where'[j] = where[j]
    BY <1>2, <1>5, <2>3
  <2>7. where[j] = "held" => where'[j] # "held" /\ (j \notin missed => where'[j] = Rest(j))
    BY <1>2, <1>5, <2>3, <2>4, <2>5 DEF Rest, Spot
  <2>8. \A i \in Items : i # j => where'[i] = where[i]
    BY <1>5, <2>2, <2>3
  <2> QED
    BY <1>1, <1>2, <1>8, <2>4, <2>6, <2>7, <2>8 DEF Rest
<1> QED
  BY <1>1, <1>6, <1>7, <1>8

\* The fingers have arrived at the position they were sent to.
LEMMA FinishGripFollows ==
  ASSUME GraspsWhole, IInv, PartsFollowed, ~tainted, InFlight(run), op = "gripPost",
         Handle(GripTarget), NEW status \in {"succeeded", "aborted"}, SetStatus(run, status),
         UNCHANGED <<process, arm, tainted, missed>>
  PROVE  PartsFollowed'
<1> DEFINE j == Now.arg
<1>1. /\ run \in Runs /\ goal \in [Runs -> GoalType] /\ phase = "waiting" /\ op \in Grips
      /\ Now.kind \in {"pick", "place"}
      /\ UNCHANGED <<run, outcome, stage, op, phase, startPose, slot, lastGrip>> /\ Now' = Now
  BY DEF IInv, TypeOK, OpFits, PartsFollowed, Commanded, process, Now, Grips
<1>2. (Loaded' <=> Loaded) /\ Carried' = Carried /\ (Taking' <=> Taking) /\ Site' = Site
      /\ MoveTarget' = MoveTarget /\ GripTarget' = GripTarget
  BY <1>1 DEF Loaded, Carried, Taking, Site, MoveTarget, GripTarget
<1>3. /\ goal'[run].st = status /\ goal'[run].op = goal[run].op /\ goal'[run].pose = goal[run].pose
      /\ goal'[run].grip = goal[run].grip
      /\ \A r \in Runs : r # run => goal'[r] = goal[r]
  BY <1>1 DEF SetStatus, GoalType
<1>4. /\ stage \in 1..Len(Stages) /\ j \in Items
      /\ \A i \in Items : i # j => where'[i] = where[i]
      /\ Now.kind = "pick" =>
           /\ where'[j] \in {where[j], "held"}
           /\ j \notin missed => where'[j] = "held"
      /\ Now.kind = "place" =>
           /\ where'[j] # "held"
           /\ where[j] = "slot" => where'[j] = "slot"
           /\ j \notin missed => where'[j] = Rest(j)
  BY <1>1, HandleWhat
<1>5. /\ Loaded <=> Now.kind = "place"
      /\ Taking <=> Now.kind = "pick"
      /\ Loaded => Carried = j
  BY <1>1 DEF Loaded, Taking, Carried
<1>6. Commanded'
  BY <1>1, <1>2, <1>3 DEF PartsFollowed, Commanded, InFlight, Moves
<1>7. HeldIsCarried'
  BY <1>1, <1>2, <1>4, <1>5 DEF PartsFollowed, HeldIsCarried
<1>8. CarriedIsHeld' /\ GripsAnswered'
  BY <1>1, <1>2, <1>4, <1>5 DEF CarriedIsHeld, GripsAnswered
<1>9. FingersKnown' /\ PosesKnown'
  BY <1>1, <1>2 DEF PartsFollowed, FingersKnown, PosesKnown, Meant, Running
<1>10. SeenInSlot'
  BY <1>1, <1>2, <1>4, <1>5 DEF SeenInSlot
<1>11. DoneDelivered'
  <2> SUFFICES ASSUME NEW s \in 1..Len(Stages), Stages[s].kind = "place", Done(s)',
                      Stages[s].arg \notin missed
               PROVE  where'[Stages[s].arg] = Rest(Stages[s].arg)
    BY <1>1 DEF DoneDelivered
  <2>1. Done(s) /\ s < stage /\ Stages[s].arg \in Items
    BY <1>1, StageArg DEF Done
  <2>2. where[Stages[s].arg] = Rest(Stages[s].arg)
    BY <2>1 DEF PartsFollowed, DoneDelivered
  <2>3. CASE Stages[s].arg # j
    BY <1>4, <2>1, <2>2, <2>3
  <2>4. CASE Stages[s].arg = j /\ Now.kind = "pick"
    <3>1. PICK t \in {s - 1, s - 2} : t \in 1..Len(Stages) /\ Stages[t].kind = "pick" /\ Stages[t].arg = j
      BY <2>4, StageNeighbours
    <3>2. t = stage
      BY <1>4, <2>4, <3>1, StageNeighbours DEF Now
    <3> QED
      BY <1>4, <2>1, <3>1, <3>2
  <2>5. CASE Stages[s].arg = j /\ Now.kind = "place"
    BY <1>4, <2>5
  <2> QED
    BY <1>1, <2>3, <2>4, <2>5
<1>12. UnpickedStay'
  <2> SUFFICES ASSUME NEW i \in Items, \A s \in 1..Len(Stages) : Stages[s] # [kind |-> "pick", arg |-> i]
               PROVE  where'[i] = "slot"
    BY DEF UnpickedStay
  <2>1. where[i] = "slot"
    BY DEF PartsFollowed, UnpickedStay
  <2>2. Now.kind = "pick" => j # i
    BY <1>4, StageRecord DEF Now
  <2> QED
    BY <1>1, <1>4, <2>1, <2>2
<1>13. NothingLost'
  BY <1>1, <1>4 DEF PartsFollowed, NothingLost, Rest
<1> QED
  BY <1>6, <1>7, <1>8, <1>9, <1>10, <1>11, <1>12, <1>13 DEF PartsFollowed

LEMMA ServerStepFollows ==
  ASSUME GraspsWhole, IInv, PartsFollowed, ~tainted, NEW r \in Runs, Server(r)
  PROVE  PartsFollowed'
<1>1. /\ r = run /\ InFlight(run) /\ goal[run].op = op /\ op \in Moves \cup Grips
      /\ op \in Grips => goal[run].grip = GripTarget
      /\ goal \in [Runs -> GoalType]
      /\ UNCHANGED <<process, tainted, missed>>
  <2>1. InFlight(r) /\ UNCHANGED <<process, tainted, missed>>
    BY DEF Server, Accept, Reject, FinishMove, AbortMove, FinishGrip, AbortGrip, Executing, InFlight
  <2> QED
    BY <2>1 DEF PartsFollowed, Commanded, IInv, TypeOK
<1>2. CASE Accept(r)
  <2>1. \A q \in Runs : q # run => ~Executing(q)
    BY DEF PartsFollowed, Commanded, InFlight, Executing
  <2>2. arm' = arm /\ SetStatus(run, "executing")
    BY <1>1, <1>2, <2>1 DEF Accept, SetStatus
  <2> QED
    BY <1>1, <1>2, <2>2, ServerFollows DEF Accept
<1>3. CASE Reject(r)
  BY <1>1, <1>3, ServerFollows DEF Reject, world
<1>4. CASE FinishMove(r)
  BY <1>1, <1>4, ServerFollows DEF FinishMove, Moves, Grips
<1>5. CASE AbortMove(r)
  BY <1>1, <1>5, ServerFollows DEF AbortMove, Moves, Grips
<1>6. CASE AbortGrip(r)
  BY <1>1, <1>6, ServerFollows DEF AbortGrip, Moves, Grips, world
<1>7. CASE \E status \in {"succeeded", "aborted"} : FinishGrip(r, status)
  <2>1. PICK status \in {"succeeded", "aborted"} : FinishGrip(r, status)
    BY <1>7
  <2>2. op \in Grips /\ Handle(GripTarget) /\ SetStatus(run, status) /\ arm' = arm
    BY <1>1, <2>1 DEF FinishGrip
  <2>3. CASE op = "gripPre"
    <3>1. where' = where
      <4>1. \A i \in Items : where'[i] = where[i]
        BY <1>1, <2>2, <2>3, HandleWhat
      <4> QED
        BY <2>2, <4>1 DEF Handle, IInv, TypeOK
    <3> QED
      BY <1>1, <2>2, <2>3, <3>1, ServerFollows DEF Moves
  <2>4. CASE op = "gripPost"
    BY <1>1, <2>2, <2>4, FinishGripFollows
  <2> QED
    BY <2>2, <2>3, <2>4 DEF Grips
<1> QED
  BY <1>2, <1>3, <1>4, <1>5, <1>6, <1>7 DEF Server

-----------------------------------------------------------------------------
LEMMA InitParts == Init => PartsInv
<1> SUFFICES ASSUME Init PROVE PartsFollowed
  BY DEF PartsInv
<1>1. ~Loaded /\ ~Taking /\ \A s \in 1..Len(Stages) : ~Done(s)
  BY DEF Init, Loaded, Taking, Done
<1>2. Commanded
  BY DEF Init, Commanded, InFlight, NoGoal
<1> QED
  BY <1>1, <1>2
  DEF Init, PartsFollowed, HeldIsCarried, CarriedIsHeld, GripsAnswered, FingersKnown, PosesKnown,
      SeenInSlot, DoneDelivered, UnpickedStay, NothingLost

LEMMA NextParts == ASSUME GraspsWhole PROVE IInv /\ PartsInv /\ [Next]_vars => PartsInv'
<1> SUFFICES ASSUME IInv, PartsInv, [Next]_vars, ~tainted' PROVE PartsFollowed'
  BY DEF PartsInv
<1>1. ~tainted
  BY DEF Next, Pipeline, Server, Prepare, GiveUp, Vote, ReadPose, SkipGrip, SendGoal, Proceed, Refused,
         Timeout, Interrupt, Restart, ServersUp, Accept, Reject, FinishMove, AbortMove, FinishGrip,
         AbortGrip, vars
<1>2. PartsFollowed
  BY <1>1 DEF PartsInv
<1>3. CASE Prepare \/ Vote \/ ReadPose \/ SkipGrip \/ SendGoal \/ Proceed
  BY <1>1, <1>2, <1>3, PrepareFollows, VoteFollows, ReadPoseFollows, SkipGripFollows,
     SendGoalFollows, ProceedFollows
<1>4. CASE GiveUp \/ Refused \/ Timeout \/ Interrupt
  <2>1. PICK how \in {"failed", "interrupted"} : Stop(how)
    BY <1>4 DEF GiveUp, Refused, Timeout, Interrupt
  <2>2. UNCHANGED <<run, startPose, slot, goal, world, tainted, missed>>
    BY <1>4 DEF GiveUp, Refused, Timeout, Interrupt
  <2> QED
    BY <1>1, <1>2, <2>1, <2>2, StopFollows
<1>5. CASE Restart
  BY <1>1, <1>2, <1>5, RestartFollows
<1>6. CASE UNCHANGED <<process, goal, world, tainted, missed>>
  BY <1>2, <1>6
  DEF process, world, Now, Running, InFlight, MoveTarget, GripTarget, Loaded, Carried, Taking, Site,
      Meant, Done, PartsFollowed, Commanded, HeldIsCarried, CarriedIsHeld, GripsAnswered,
      FingersKnown, PosesKnown, SeenInSlot, DoneDelivered, UnpickedStay, NothingLost
<1>7. CASE \E r \in Runs : Server(r)
  BY <1>1, <1>2, <1>7, ServerStepFollows
<1> QED
  BY <1>3, <1>4, <1>5, <1>6, <1>7 DEF Next, Pipeline, ServersUp, vars

LEMMA PartsInvSafe == ASSUME GraspsWhole PROVE PartsInv => PartsSafe
<1> SUFFICES ASSUME PartsInv PROVE PartsSafe
  OBVIOUS
<1>1. NothingLost
  BY DEF PartsInv, PartsFollowed, NothingLost
<1>2. CompleteDelivers
  <2> SUFFICES ASSUME outcome = "complete", ~tainted, NEW i \in Items \ missed
               PROVE  where[i] = Rest(i)
    BY DEF CompleteDelivers, Rest
  <2>1. stage = Len(Stages) /\ op = "end" /\ Len(Stages) \in Nat
    BY DEF PartsInv, PartsFollowed, Commanded
  <2>2. \A s \in 1..Len(Stages) : Done(s)
    BY <2>1 DEF Done
  <2>3. CASE \A s \in 1..Len(Stages) : Stages[s] # [kind |-> "pick", arg |-> i]
    <3>1. ~PlacedInCell(i)
      <4> SUFFICES ASSUME NEW s \in 2..Len(Stages), Stages[s] = [kind |-> "place", arg |-> i]
                   PROVE  FALSE
        BY DEF PlacedInCell
      <4>1. s \in 1..Len(Stages) /\ s - 1 \in 1..Len(Stages)
            /\ Stages[s].kind = "place" /\ Stages[s].arg = i
        BY <2>1
      <4>2. PICK t \in {s - 1, s - 2} :
              t \in 1..Len(Stages) /\ Stages[t].kind = "pick" /\ Stages[t].arg = i
        BY <4>1, StageNeighbours
      <4> QED
        BY <2>3, <4>2, StageRecord
    <3> QED
      BY <2>3, <3>1 DEF PartsInv, PartsFollowed, UnpickedStay, Rest
  <2>4. CASE \E s \in 1..Len(Stages) : Stages[s] = [kind |-> "pick", arg |-> i]
    <3>1. PICK s \in 1..Len(Stages) : Stages[s] = [kind |-> "pick", arg |-> i]
      BY <2>4
    <3>2. PICK t \in {s + 1, s + 2} :
            t \in 1..Len(Stages) /\ Stages[t].kind = "place" /\ Stages[t].arg = i
      BY <2>1, <3>1, StageNeighbours
    <3> QED
      BY <2>2, <3>2 DEF PartsInv, PartsFollowed, DoneDelivered
  <2> QED
    BY <2>3, <2>4
<1> QED
  BY <1>1, <1>2 DEF PartsSafe

\* For every stage list that picks each part once, after its vote, and puts it down
\* again, at once or in the cell: a part is never let go of between the places, and
\* "Pipeline complete" is the truth about each part that was seen where it lay.
THEOREM PartsAreSafe == GraspsWhole => (Spec => []PartsSafe)
<1> SUFFICES ASSUME GraspsWhole PROVE Spec => []PartsSafe
  OBVIOUS
<1>1. Init => PartsInv
  BY InitParts
<1>2. IInv /\ PartsInv /\ [Next]_vars => PartsInv'
  BY NextParts
<1>3. PartsInv => PartsSafe
  BY PartsInvSafe
<1> QED
  BY <1>1, <1>2, <1>3, InductiveInvariant, PTL DEF Spec
-----------------------------------------------------------------------------
(* The promise.  What a run does to the parts and to its outcome is what   *)
(* PickAndPlace allows: the rest of the state is the machinery behind it.  *)

\* One run of the program, started with a TF buffer that follows the arm.
OneRun == MaxRuns = 1 /\ ~TfLag

\* The vote on the part, and the grip that takes it, are still to come.
Unseen(i) == stage < PickAt[i] - 1 \/ (stage = PickAt[i] - 1 /\ op \in {"prepare", "vote"})
Untaken(i) == stage < PickAt[i] \/ (stage = PickAt[i] /\ op \in {"prepare", "readPose", "gripPre", "moveDown"})

\* The parts are voted on and taken in the order of their stages; a part that was
\* missed is left alone, because the grasp happens elsewhere.
MissedLeft ==
  /\ \A i \in Items : Unseen(i) => i \notin missed
  /\ \A i \in Items : Untaken(i) \/ i \in missed => where[i] = "slot"
  /\ Now.arg \in missed =>
       /\ op = "moveSlot" => slot = Nowhere
       /\ Now.kind = "pick" /\ op = "readPose" => arm = Above(Nowhere)
       /\ Now.kind = "pick" /\ op \in {"gripPre", "moveDown", "gripPost"} => startPose = Above(Nowhere)
PromiseInv == ~tainted /\ MissedLeft

LEMMA OneRunClean == ASSUME OneRun PROVE IInv /\ ~tainted /\ [Next]_vars => ~tainted' /\ ~Restart
<1> SUFFICES ASSUME IInv, ~tainted, [Next]_vars PROVE ~tainted' /\ ~Restart
  OBVIOUS
<1>1. run = 1
  BY DEF IInv, TypeOK, OneRun
<1>2. ~Restart
  BY <1>1 DEF Restart, OneRun
<1> QED
  BY <1>2 DEF Next, Pipeline, Server, Prepare, GiveUp, Vote, ReadPose, SkipGrip, SendGoal, Proceed,
         Refused, Timeout, Interrupt, ServersUp, Accept, Reject, FinishMove, AbortMove, FinishGrip,
         AbortGrip, vars

\* What Assembles says, one fact at a time.
LEMMA Assembled ==
  Assembles => /\ GraspsWhole
               /\ \A i \in Items : PlacedInCell(i)
               /\ \A s \in 1..Len(Stages) : Stages[s].kind = "vote" =>
                    /\ s < Len(Stages)
                    /\ Stages[s + 1].kind = "pick" /\ Stages[s + 1].arg = Stages[s].arg
  BY DEF Assembles

\* A stage is known by its kind and its argument.
LEMMA StageIs ==
  ASSUME NEW s \in 1..Len(Stages), NEW k, NEW i, Stages[s].kind = k, Stages[s].arg = i
  PROVE  Stages[s] = [kind |-> k, arg |-> i]
<1>1. Stages[s] \in StageType
  OBVIOUS
<1> QED
  BY <1>1 DEF StageType

\* A part has one vote, one pick and one place stage, next to each other but for
\* the motion to the cell.
LEMMA PickAtIs ==
  ASSUME Assembles, NEW i \in Items
  PROVE  LET p == PickAt[i] IN
         /\ p \in 1..Len(Stages) /\ p > 1 /\ p + 1 < Len(Stages)
         /\ Stages[p - 1].kind = "vote" /\ Stages[p - 1].arg = i
         /\ Stages[p].kind = "pick" /\ Stages[p].arg = i
         /\ Stages[p + 1].kind = "zone"
         /\ Stages[p + 2].kind = "place" /\ Stages[p + 2].arg = i
         /\ Rest(i) = "cell"
         /\ \A t \in 1..Len(Stages) : Stages[t].arg = i =>
              /\ Stages[t].kind = "vote" => t = p - 1
              /\ Stages[t].kind = "pick" => t = p
              /\ Stages[t].kind = "place" => t = p + 2
<1> DEFINE p == PickAt[i]
<1>0. Len(Stages) \in Nat
  OBVIOUS
<1> GraspsWhole
  BY Assembled
<1>1. PlacedInCell(i)
  BY Assembled
<1>2. PICK s \in 2..Len(Stages) : /\ Stages[s] = [kind |-> "place", arg |-> i]
                                  /\ Stages[s - 1] = [kind |-> "zone", arg |-> CellZone]
  BY <1>1 DEF PlacedInCell
<1>3. s \in 1..Len(Stages) /\ s - 2 \in 1..Len(Stages) /\ Stages[s - 2].kind = "pick" /\ Stages[s - 2].arg = i
  <2>1. s \in 1..Len(Stages) /\ Stages[s].kind = "place" /\ Stages[s].arg = i /\ Stages[s - 1].kind = "zone"
    BY <1>0, <1>2
  <2> QED
    BY <1>0, <2>1, StageNeighbours
<1>4. Stages[s - 2] = [kind |-> "pick", arg |-> i]
  BY <1>3, StageIs
<1>5. p = CHOOSE t \in 1..Len(Stages) : Stages[t] = [kind |-> "pick", arg |-> i]
  BY DEF PickAt
<1>6. p \in 1..Len(Stages) /\ Stages[p] = [kind |-> "pick", arg |-> i]
  BY <1>3, <1>4, <1>5
<1>7. ASSUME NEW t \in 1..Len(Stages), Stages[t].kind = "pick", Stages[t].arg = i PROVE t = p
  <2>1. Stages[p].kind = "pick" /\ Stages[p].arg = i
    BY <1>6
  <2> QED
    BY <1>6, <1>7, <2>1, StageNeighbours
<1>8. s - 2 = p
  BY <1>3, <1>7
<1>9. p + 2 = s /\ p + 1 = s - 1
  BY <1>0, <1>2, <1>8
<1>10. /\ p > 1 /\ Stages[p - 1].kind = "vote" /\ Stages[p - 1].arg = i
  BY <1>0, <1>6, StageNeighbours
<1>11. ASSUME NEW t \in 1..Len(Stages), Stages[t].arg = i, Stages[t].kind = "vote" PROVE t = p - 1
  <2>1. t < Len(Stages) /\ Stages[t + 1].kind = "pick" /\ Stages[t + 1].arg = i
    BY <1>11, Assembled
  <2>2. t + 1 \in 1..Len(Stages) /\ Stages[t + 1].kind = "pick" /\ Stages[t + 1].arg = i
    BY <1>0, <2>1
  <2>3. t + 1 = p
    BY <1>7, <2>2
  <2> QED
    BY <1>0, <1>6, <2>3
<1>12. ASSUME NEW t \in 1..Len(Stages), Stages[t].arg = i, Stages[t].kind = "place" PROVE t = p + 2
  <2>1. \/ t > 1 /\ Stages[t - 1].kind = "pick" /\ Stages[t - 1].arg = i
        \/ t > 2 /\ Stages[t - 2].kind = "pick" /\ Stages[t - 2].arg = i
    BY <1>0, <1>12, StageNeighbours
  <2>2. t - 1 = p \/ t - 2 = p
    BY <1>0, <1>7, <2>1
  <2>3. t - 1 # p
    BY <1>0, <1>2, <1>6, <1>9, <1>12
  <2> QED
    BY <1>0, <1>6, <2>2, <2>3
<1>13. Rest(i) = "cell"
  BY <1>1 DEF Rest
<1> QED
  BY <1>0, <1>2, <1>6, <1>7, <1>9, <1>10, <1>11, <1>12, <1>13

\* A part is put down before the vote on the next one.
LEMMA OneAfterTheOther ==
  ASSUME Assembles, NEW i \in Items, NEW k \in Items, PickAt[k] < PickAt[i]
  PROVE  PickAt[k] + 2 < PickAt[i] - 1
<1> DEFINE p == PickAt[i] q == PickAt[k]
<1>1. p \in 1..Len(Stages) /\ q \in 1..Len(Stages) /\ Len(Stages) \in Nat
  BY PickAtIs
<1>2. Stages[p - 1].kind = "vote"
  BY PickAtIs
<1>3. Stages[q].kind = "pick" /\ Stages[q + 1].kind = "zone" /\ Stages[q + 2].kind = "place"
  BY PickAtIs
<1>4. p - 1 # q /\ p - 1 # q + 1 /\ p - 1 # q + 2
  BY <1>2, <1>3
<1> QED
  BY <1>1, <1>4

-----------------------------------------------------------------------------
\* The parts, the votes and the poses are left alone, inside a stage.
LEMMA StillMissedLeft ==
  ASSUME TypeOK, Assembles, MissedLeft, UNCHANGED <<stage, slot, startPose, where, missed>>,
         \/ op' = op /\ (op = "readPose" => arm' = arm)
         \/ op = "gripPre" /\ op' = "moveDown"
         \/ op = "moveDown" /\ op' = "gripPost"
         \/ op' \in {"moveUp", "end"}
  PROVE  MissedLeft'
<1>0. Now' = Now
  BY DEF Now
<1>1. \A i \in Items : Unseen(i)' => Unseen(i)
  BY DEF Unseen
<1>2. \A i \in Items : Untaken(i)' => Untaken(i)
  BY DEF Untaken
<1> QED
  BY <1>0, <1>1, <1>2 DEF MissedLeft

\* The program begins with a stage that is not a pick.
LEMMA PrepareMissedLeft == ASSUME Assembles, IInv, MissedLeft, Prepare PROVE MissedLeft'
<1>0. /\ stage = 1 /\ 1 \in 1..Len(Stages) /\ Now = Stages[1] /\ Now' = Stages[1]
      /\ UNCHANGED <<stage, slot, startPose, where, missed>> /\ op = "prepare"
  BY DEF Prepare, IInv, OpFits, Now, world
<1>1. Stages[1].kind \in {"zone", "vote", "pick", "place"}
  BY <1>0, StageArg
<1>2. op' \in {"moveZone", "vote", "readPose"}
  BY <1>1 DEF Prepare, First
<1>3. Stages[1].kind # "pick"
  BY <1>0, StageNeighbours, Assembled
<1>4. \A i \in Items : Unseen(i)' => Unseen(i)
  BY <1>0 DEF Unseen
<1>5. \A i \in Items : Untaken(i)' => Untaken(i)
  BY <1>0, PickAtIs DEF Untaken
<1> QED
  BY <1>0, <1>2, <1>3, <1>4, <1>5 DEF MissedLeft

\* A vote that selects another grid pose sends the arm nowhere.
LEMMA VoteMissedLeft == ASSUME Assembles, IInv, MissedLeft, Vote PROVE MissedLeft'
<1> DEFINE j == Now.arg
<1>0. /\ stage \in 1..Len(Stages) /\ Now = Stages[stage] /\ op = "vote" /\ Now.kind = "vote"
      /\ UNCHANGED <<startPose, where>>
  BY DEF Vote, IInv, TypeOK, OpFits, Now, world
<1>1. op' = "moveSlot" /\ UNCHANGED stage /\ Now' = Now
  BY AdvanceTo DEF Vote, IInv, Now
<1>2. j \in Items
  BY <1>0, StageArg
<1>3. stage = PickAt[j] - 1 /\ PickAt[j] \in 1..Len(Stages)
  BY <1>0, <1>2, PickAtIs
<1>4. Unseen(j) /\ Untaken(j)
  BY <1>0, <1>3 DEF Unseen, Untaken
<1>5. j \notin missed /\ where[j] = "slot"
  BY <1>2, <1>4 DEF MissedLeft
<1>6. missed' = missed \/ (missed' = missed \cup {j} /\ slot' = Nowhere)
  BY DEF Vote
<1>7. \A i \in Items : Unseen(i)' => Unseen(i) /\ i # j
  BY <1>1, <1>3 DEF Unseen
<1>8. \A i \in Items : Untaken(i)' => Untaken(i)
  BY <1>1 DEF Untaken
<1>9. \A i \in Items : Unseen(i)' => i \notin missed'
  BY <1>6, <1>7 DEF MissedLeft
<1>10. \A i \in Items : Untaken(i)' \/ i \in missed' => where'[i] = "slot"
  BY <1>0, <1>5, <1>6, <1>8 DEF MissedLeft
<1>11. j \in missed' => slot' = Nowhere
  BY <1>5, <1>6
<1> QED
  BY <1>1, <1>9, <1>10, <1>11 DEF MissedLeft

\* The grasp starts where the arm stands.
LEMMA ReadPoseMissedLeft == ASSUME OneRun, Assembles, IInv, MissedLeft, ReadPose PROVE MissedLeft'
<1>0. startPose' = arm /\ op = "readPose" /\ UNCHANGED <<slot, where, missed>>
  BY DEF ReadPose, OneRun, world
<1>1. op' = (IF Now.kind = "pick" THEN "gripPre" ELSE "moveDown") /\ UNCHANGED stage /\ Now' = Now
  BY AdvanceTo DEF ReadPose, IInv, Now
<1>2. \A i \in Items : Unseen(i)' => Unseen(i)
  BY <1>0, <1>1 DEF Unseen
<1>3. \A i \in Items : Untaken(i)' => Untaken(i)
  BY <1>0, <1>1 DEF Untaken
<1> QED
  BY <1>0, <1>1, <1>2, <1>3 DEF MissedLeft

\* From the grid pose the arm goes on to the pick.
LEMMA ProceedMissedLeft ==
  ASSUME Assembles, IInv, PartsFollowed, MissedLeft, Proceed PROVE MissedLeft'
<1>0. /\ stage \in 1..Len(Stages) /\ Now = Stages[stage] /\ Len(Stages) \in Nat
      /\ op \in Moves \cup Grips /\ op \notin {"prepare", "end"} /\ TypeOK /\ OpFits
      /\ UNCHANGED <<slot, startPose, arm, where, missed>>
      /\ GraspsWhole /\ Advance
  BY Assembled DEF Proceed, IInv, TypeOK, Now, Moves, Grips, world
<1>1. CASE op \notin {"moveZone", "moveSlot", "moveUp"}
  <2>1. op \in {"gripPre", "moveDown", "gripPost"}
    BY <1>0, <1>1 DEF Moves, Grips
  <2>2. UNCHANGED stage /\ \/ op = "gripPre" /\ op' = "moveDown"
                           \/ op = "moveDown" /\ op' = "gripPost"
                           \/ op' = "moveUp"
    BY <1>0, <2>1, AdvanceTo
  <2> QED
    BY <1>0, <2>2, StillMissedLeft
<1>2. CASE op \in {"moveZone", "moveSlot", "moveUp"} /\ op' = "end" /\ UNCHANGED stage
  BY <1>0, <1>2, StillMissedLeft
<1>3. CASE /\ op \in {"moveZone", "moveSlot", "moveUp"} /\ stage < Len(Stages) /\ stage' = stage + 1
           /\ stage' \in 1..Len(Stages) /\ op' = First(Stages[stage'].kind)
  <2>1. /\ Now' = Stages[stage'] /\ Now'.kind \in {"zone", "vote", "pick", "place"}
        /\ op' \in {"moveZone", "vote", "readPose"}
    BY <1>3, StageArg DEF Now, First
  <2>2. Now'.kind = "pick" => op = "moveSlot" /\ Now.kind = "vote" /\ Now'.arg = Now.arg
    BY <1>0, <1>3, NextStageLoaded
  <2>3. \A i \in Items : Unseen(i)' => Unseen(i)
    BY <1>0, <1>3, PickAtIs DEF Unseen
  <2>4. \A i \in Items : Untaken(i)' => Untaken(i)
    BY <1>0, <1>3, PickAtIs DEF Untaken
  <2>5. arm = MoveTarget
    BY <1>3 DEF Proceed, PartsFollowed, Commanded, Moves
  <2>6. Now'.kind = "pick" /\ Now'.arg \in missed => arm = Above(Nowhere)
    BY <2>2, <2>5 DEF MissedLeft, MoveTarget
  <2> QED
    BY <1>0, <2>1, <2>3, <2>4, <2>6 DEF MissedLeft
<1> QED
  BY <1>0, <1>1, <1>2, <1>3, AdvanceTo

\* The fingers take the part of the stage from its slot, unless it was missed, and
\* put it into the cell; the other parts stay where they are.
LEMMA GripWhat ==
  ASSUME Assembles, IInv, PartsFollowed, MissedLeft,
         InFlight(run), ~tainted, op \in Grips, Handle(GripTarget)
  PROVE  /\ stage \in 1..Len(Stages) /\ Now.arg \in Items
         /\ \A i \in Items : where'[i] # where[i] =>
              /\ i = Now.arg /\ i \notin missed /\ op = "gripPost"
              /\ \/ Now.kind = "pick" /\ where[i] = "slot" /\ where'[i] = "held"
                 \/ Now.kind = "place" /\ where[i] = "held" /\ where'[i] = "cell"
<1> DEFINE j == Now.arg
<1>0. GraspsWhole
  BY Assembled
<1>1. /\ stage \in 1..Len(Stages) /\ j \in Items
      /\ op \in {"gripPre", "gripPost"} /\ Now.kind \in {"pick", "place"}
      /\ where \in [Items -> {"slot", "held", "cell", "lost"}]
      /\ where' = [i \in Items |-> where'[i]]
  BY StageArg DEF IInv, TypeOK, OpFits, Now, Grips, Handle
<1>2. /\ op = "gripPre" => \A i \in Items : where'[i] = where[i]
      /\ op = "gripPost" =>
           /\ \A i \in Items : i # j => where'[i] = where[i]
           /\ Now.kind = "pick" => where'[j] \in {where[j], "held"}
           /\ Now.kind = "place" =>
                /\ where'[j] # "held"
                /\ where[j] = "slot" => where'[j] = "slot"
                /\ j \notin missed => where'[j] = Rest(j)
  BY <1>0, <1>1, HandleWhat
<1>3. Rest(j) = "cell" /\ (j \in missed => where[j] = "slot")
  BY <1>1, PickAtIs DEF MissedLeft
<1>4. Here = arm
  BY DEF Here, PartsFollowed, Commanded, InFlight, Executing, Moves, Grips
<1>5. CASE op = "gripPost" /\ Now.kind = "pick"
  <2>1. /\ where'[j] = "held" /\ where[j] # "held" => where[j] = "slot" /\ arm = Lowered(Above(SlotOf[j]))
    BY <1>1, <1>4 DEF Handle
  <2>2. j \in missed => arm = Lowered(Above(Nowhere))
    BY <1>5 DEF MissedLeft, PartsFollowed, PosesKnown
  <2>3. Lowered(Above(Nowhere)) # Lowered(Above(SlotOf[j]))
    BY <1>1 DEF Lowered, Above
  <2> QED
    BY <1>1, <1>2, <1>5, <2>1, <2>2, <2>3
<1>6. CASE op = "gripPost" /\ Now.kind = "place"
  <2>1. where[j] # "held" => where'[j] = where[j]
    BY <1>1, <1>3, <1>6, <1>2 DEF PartsFollowed, CarriedIsHeld, Loaded, Carried
  <2> QED
    BY <1>1, <1>2, <1>3, <1>6, <2>1
<1> QED
  BY <1>1, <1>2, <1>5, <1>6

LEMMA ServerMissedLeft ==
  ASSUME Assembles, IInv, PartsFollowed, ~tainted, MissedLeft, NEW r \in Runs, Server(r)
  PROVE  MissedLeft'
<1>1. /\ r = run /\ InFlight(run) /\ goal[run].op = op /\ op \in Moves \cup Grips
      /\ op \in Grips => goal[run].grip = GripTarget
      /\ UNCHANGED <<stage, op, slot, startPose, missed>> /\ Now' = Now
  <2>1. InFlight(r) /\ UNCHANGED <<stage, op, slot, startPose, missed>>
    BY DEF Server, Accept, Reject, FinishMove, AbortMove, FinishGrip, AbortGrip, Executing, InFlight,
           process
  <2> QED
    BY <2>1 DEF PartsFollowed, Commanded, Now
<1>2. CASE where' = where
  BY <1>1, <1>2, StillMissedLeft DEF IInv, Moves, Grips
<1>3. CASE \E status \in {"succeeded", "aborted"} : FinishGrip(r, status)
  <2>1. op \in Grips /\ Handle(GripTarget)
    BY <1>1, <1>3 DEF FinishGrip
  <2>2. /\ stage \in 1..Len(Stages) /\ Now.arg \in Items
        /\ \A i \in Items : where'[i] # where[i] =>
             /\ i = Now.arg /\ i \notin missed /\ op = "gripPost"
             /\ \/ Now.kind = "pick" /\ where[i] = "slot" /\ where'[i] = "held"
                \/ Now.kind = "place" /\ where[i] = "held" /\ where'[i] = "cell"
    BY <1>1, <2>1, GripWhat
  <2>3. \A i \in Items : /\ Unseen(i)' <=> Unseen(i)
                         /\ Untaken(i)' <=> Untaken(i)
    BY <1>1 DEF Unseen, Untaken
  <2>4. ASSUME NEW i \in Items, Untaken(i) \/ i \in missed PROVE where'[i] = "slot"
    <3>1. where[i] = "slot"
      BY <2>4 DEF MissedLeft
    <3>2. ASSUME where'[i] # where[i] PROVE FALSE
      <4>1. i = Now.arg /\ op = "gripPost" /\ Now.kind = "pick" /\ i \notin missed
        BY <2>2, <3>1, <3>2
      <4>2. stage = PickAt[i] /\ PickAt[i] \in 1..Len(Stages)
        BY <2>2, <4>1, PickAtIs DEF Now
      <4> QED
        BY <2>4, <4>1, <4>2 DEF Untaken
    <3> QED
      BY <3>1, <3>2
  <2> QED
    BY <1>1, <2>1, <2>3, <2>4 DEF MissedLeft, Grips
<1> QED
  BY <1>2, <1>3 DEF Server, Accept, Reject, FinishMove, AbortMove, AbortGrip, world

LEMMA InitPromise == ASSUME Assembles PROVE Init => PromiseInv
  BY StageArg DEF Init, PromiseInv, MissedLeft, Unseen, Untaken

LEMMA NextPromise ==
  ASSUME Assembles, OneRun PROVE IInv /\ PartsInv /\ PromiseInv /\ [Next]_vars => PromiseInv'
<1> SUFFICES ASSUME IInv, PartsInv, PromiseInv, [Next]_vars PROVE PromiseInv'
  OBVIOUS
<1>1. ~tainted' /\ ~Restart /\ PartsFollowed /\ MissedLeft /\ TypeOK /\ ~tainted
  BY OneRunClean DEF PromiseInv, PartsInv, IInv
<1>2. CASE Prepare \/ Vote \/ ReadPose \/ Proceed
  BY <1>1, <1>2, PrepareMissedLeft, VoteMissedLeft, ReadPoseMissedLeft, ProceedMissedLeft
  DEF PromiseInv
<1>3. CASE SkipGrip
  <2>1. op \in Grips /\ op \notin {"prepare", "end"} /\ UNCHANGED <<slot, startPose, where, missed>>
        /\ Advance
    BY <1>3 DEF SkipGrip, Grips, world
  <2>2. UNCHANGED stage /\ ((op = "gripPre" /\ op' = "moveDown") \/ op' = "moveUp")
    BY <2>1, AdvanceTo DEF IInv, Grips
  <2> QED
    BY <1>1, <2>1, <2>2, StillMissedLeft DEF PromiseInv
<1>4. CASE GiveUp \/ Refused \/ Timeout \/ Interrupt \/ SendGoal \/ ServersUp \/ UNCHANGED vars
  <2>1. UNCHANGED <<stage, op, slot, startPose, arm, where, missed>>
    BY <1>4 DEF GiveUp, Refused, Timeout, Interrupt, SendGoal, ServersUp, Stop, process, world, vars
  <2> QED
    BY <1>1, <2>1, StillMissedLeft DEF PromiseInv
<1>5. CASE \E r \in Runs : Server(r)
  BY <1>1, <1>5, ServerMissedLeft DEF PromiseInv
<1> QED
  BY <1>1, <1>2, <1>3, <1>4, <1>5 DEF Next, Pipeline

-----------------------------------------------------------------------------
\* The part of the stage is the one whose turn it is: the stages before it have
\* delivered, or missed, the parts of a lower rank.
LEMMA ItsTurn ==
  ASSUME Assembles, IInv, PartsFollowed, NEW i \in Items, i \notin missed, where[i] # "cell",
         stage = PickAt[i] - 1 \/ stage = PickAt[i]
  PROVE  Promise!Turn(i)
<1>1. ASSUME NEW k \in Items, PickAt[k] < PickAt[i], k \notin missed PROVE where[k] = "cell"
  <2> DEFINE s == PickAt[k] + 2
  <2>1. PickAt[k] \in 1..Len(Stages) /\ PickAt[i] \in 1..Len(Stages) /\ Len(Stages) \in Nat
    BY PickAtIs
  <2>2. s < PickAt[i] - 1
    BY <1>1, OneAfterTheOther
  <2>3. s \in 1..Len(Stages) /\ s < stage
    BY <2>1, <2>2
  <2>4. Stages[s].kind = "place" /\ Stages[s].arg = k /\ Rest(k) = "cell"
    BY PickAtIs
  <2>5. Done(s)
    BY <2>3 DEF Done
  <2> QED
    BY <1>1, <2>3, <2>4, <2>5 DEF PartsFollowed, DoneDelivered
<1>2. i \notin Promise!Handled
  BY DEF Promise!Handled
<1>3. \A k \in Items : PickAt[k] < PickAt[i] => k \in Promise!Handled
  BY <1>1 DEF Promise!Handled
<1> QED
  BY <1>2, <1>3 DEF Promise!Turn

\* A vote that does not find its part: the part is missed, in its turn.
LEMMA VotePromised ==
  ASSUME Assembles, IInv, PartsFollowed, MissedLeft, Vote
  PROVE  UNCHANGED <<where, missed, outcome>> \/ \E i \in Items : Promise!Miss(i)
<1> DEFINE j == Now.arg
<1>1. /\ stage \in 1..Len(Stages) /\ op = "vote" /\ Now.kind = "vote" /\ j \in Items /\ Running
      /\ UNCHANGED <<where, outcome>>
  BY StageArg, AdvanceTo DEF Vote, IInv, TypeOK, OpFits, Now, world
<1>2. stage = PickAt[j] - 1 /\ PickAt[j] \in 1..Len(Stages)
  BY <1>1, PickAtIs DEF Now
<1>3. j \notin missed /\ where[j] = "slot"
  BY <1>1, <1>2 DEF MissedLeft, Unseen, Untaken
<1>4. Promise!Turn(j)
  BY <1>1, <1>2, <1>3, ItsTurn
<1>5. CASE missed' = missed \cup {j}
  BY <1>1, <1>3, <1>4, <1>5 DEF Promise!Miss, Running
<1> QED
  BY <1>1, <1>5 DEF Vote

\* The fingers close on the part whose turn it is, or open over the cell.
LEMMA GripPromised ==
  ASSUME Assembles, IInv, PartsFollowed, ~tainted, MissedLeft, InFlight(run), op \in Grips,
         Handle(GripTarget), UNCHANGED <<missed, outcome>>
  PROVE  UNCHANGED <<where, missed, outcome>> \/ \E i \in Items : Promise!Pick(i) \/ Promise!PutDown(i)
<1> DEFINE j == Now.arg
<1>1. /\ stage \in 1..Len(Stages) /\ j \in Items
      /\ \A i \in Items : where'[i] # where[i] =>
           /\ i = j /\ i \notin missed /\ op = "gripPost"
           /\ \/ Now.kind = "pick" /\ where[i] = "slot" /\ where'[i] = "held"
              \/ Now.kind = "place" /\ where[i] = "held" /\ where'[i] = "cell"
  BY GripWhat
<1>2. /\ where \in [Items -> {"slot", "held", "cell", "lost"}]
      /\ where' = [i \in Items |-> where'[i]]
  BY DEF IInv, TypeOK, Handle
<1>3. outcome # "complete"
  BY DEF PartsFollowed, Commanded, Grips
<1>4. CASE where'[j] = where[j]
  <2>1. \A i \in Items : where'[i] = where[i]
    BY <1>1, <1>4
  <2>2. where' = where
    BY <1>2, <2>1
  <2> QED
    BY <2>2
<1>5. CASE where'[j] # where[j]
  <2>1. where' = [where EXCEPT ![j] = where'[j]]
    <3>1. \A i \in Items : i # j => where'[i] = where[i]
      BY <1>1
    <3> QED
      BY <1>1, <1>2, <3>1
  <2>2. CASE Now.kind = "pick" /\ where[j] = "slot" /\ where'[j] = "held"
    <3>1. stage = PickAt[j]
      BY <1>1, <2>2, PickAtIs DEF Now
    <3>2. Promise!Turn(j)
      BY <1>1, <1>5, <2>2, <3>1, ItsTurn
    <3>3. Promise!Pick(j)
      BY <1>3, <2>1, <2>2, <3>2 DEF Promise!Pick
    <3> QED
      BY <1>1, <3>3
  <2>3. CASE Now.kind = "place" /\ where[j] = "held" /\ where'[j] = "cell"
    <3>1. Promise!PutDown(j)
      BY <1>3, <2>1, <2>3 DEF Promise!PutDown
    <3> QED
      BY <1>1, <3>1
  <2> QED
    BY <1>1, <1>5, <2>2, <2>3
<1> QED
  BY <1>4, <1>5

\* The last operation of the last stage ends the run, with every part handled.
LEMMA ProceedPromised ==
  ASSUME Assembles, IInv, ~tainted', CompleteDelivers', Proceed
  PROVE  UNCHANGED <<where, missed, outcome>> \/ Promise!Complete
<1>1. /\ UNCHANGED <<where, missed>> /\ outcome = "running"
      /\ op \in Moves \cup Grips /\ op \notin {"prepare", "end"} /\ TypeOK /\ OpFits /\ Advance
  BY DEF Proceed, IInv, TypeOK, Moves, Grips, world, Running
<1>2. op \in Ops /\ (outcome' = outcome \/ outcome' = "complete")
  BY <1>1, AdvanceTo DEF Moves, Grips, Ops
<1>3. CASE outcome' = "complete"
  <2>1. \A i \in Items \ missed : where[i] = "cell"
    BY <1>1, <1>3, PickAtIs DEF CompleteDelivers, Rest
  <2>2. missed \subseteq Items
    BY <1>1 DEF TypeOK
  <2>3. Promise!Handled = Items
    BY <2>1, <2>2 DEF Promise!Handled
  <2> QED
    BY <1>1, <1>3, <2>3 DEF Promise!Complete
<1> QED
  BY <1>1, <1>2, <1>3

\* Every step of the pipeline, its servers and the operator is a step of the promise.
LEMMA StepPromised ==
  ASSUME Assembles, OneRun, IInv, PartsInv, PromiseInv, CompleteDelivers', [Next]_vars
  PROVE  UNCHANGED <<where, missed, outcome>> \/ Promise!Next
<1>1. ~tainted' /\ ~Restart /\ PartsFollowed /\ MissedLeft /\ ~tainted
  BY OneRunClean DEF PromiseInv, PartsInv
<1>2. CASE Vote
  BY <1>1, <1>2, VotePromised DEF Promise!Next
<1>3. CASE Proceed
  BY <1>1, <1>3, ProceedPromised DEF Promise!Next
<1>4. CASE ReadPose \/ SkipGrip
  <2>1. op \in {"readPose", "gripPre", "gripPost"} /\ Advance /\ UNCHANGED <<where, missed>>
    BY <1>4 DEF ReadPose, SkipGrip, OneRun, Grips, world
  <2> QED
    BY <2>1, AdvanceTo DEF IInv
<1>5. CASE GiveUp \/ Refused \/ Timeout \/ Interrupt
  <2>1. outcome = "running" /\ outcome' \in {"failed", "interrupted"} /\ UNCHANGED <<where, missed>>
    BY <1>5 DEF GiveUp, Refused, Timeout, Interrupt, Stop, Running, world
  <2> QED
    BY <2>1 DEF Promise!GiveUp, Promise!Next
<1>6. CASE Prepare \/ SendGoal \/ ServersUp \/ UNCHANGED vars
  BY <1>6 DEF Prepare, SendGoal, ServersUp, process, world, vars
<1>7. CASE \E r \in Runs : Server(r)
  <2>1. PICK r \in Runs : Server(r)
    BY <1>7
  <2>2. CASE where' = where
    BY <2>1, <2>2 DEF Server, Accept, Reject, FinishMove, AbortMove, FinishGrip, AbortGrip, process
  <2>3. CASE \E status \in {"succeeded", "aborted"} : FinishGrip(r, status)
    <3>1. /\ InFlight(r) /\ goal[r].op \in Grips /\ Handle(goal[r].grip)
          /\ UNCHANGED <<missed, outcome>>
      BY <2>3 DEF FinishGrip, Executing, InFlight, process
    <3>2. r = run /\ op \in Grips /\ goal[run].grip = GripTarget
      BY <1>1, <3>1 DEF PartsFollowed, Commanded
    <3> QED
      BY <1>1, <3>1, <3>2, GripPromised DEF Promise!Next
  <2> QED
    BY <2>1, <2>2, <2>3 DEF Server, Accept, Reject, FinishMove, AbortMove, AbortGrip, world
<1> QED
  BY <1>1, <1>2, <1>3, <1>4, <1>5, <1>6, <1>7 DEF Next, Pipeline

\* The pipeline implements PickAndPlace: one run of a stage list that assembles its
\* parts takes them one at a time and in the order of the list, puts each one it saw
\* into the cell, says that it is complete when, and only when, that is done, and
\* moves no part afterwards.
THEOREM KeepsThePromise == Assembles /\ OneRun => (Spec => ImplementsPromise)
<1> SUFFICES ASSUME Assembles, OneRun PROVE Spec => ImplementsPromise
  OBVIOUS
<1>1. Init => PartsInv /\ PromiseInv
  BY InitParts, InitPromise
<1>2. IInv /\ PartsInv /\ [Next]_vars => PartsInv'
  BY NextParts, Assembled
<1>3. IInv /\ PartsInv /\ PromiseInv /\ [Next]_vars => PromiseInv'
  BY NextPromise
<1>4. PartsInv => CompleteDelivers
  BY PartsInvSafe, Assembled DEF PartsSafe
<1>5. Init => Promise!Init
  BY DEF Init, Promise!Init
<1>6. IInv /\ PartsInv /\ PromiseInv /\ CompleteDelivers' /\ [Next]_vars
        => [Promise!Next]_Promise!vars
  BY StepPromised DEF Promise!vars
<1>7. Spec => [](IInv /\ PartsInv /\ PromiseInv)
  BY <1>1, <1>2, <1>3, InductiveInvariant, PTL DEF Spec
<1> QED
  BY <1>4, <1>5, <1>6, <1>7, PTL DEF Spec, ImplementsPromise, Promise!Spec

=============================================================================
