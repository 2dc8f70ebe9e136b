----------------------- MODULE Teleoperation_proofs -------------------------
(***************************************************************************)
(* The teleoperation program, for every set of controllers and any number  *)
(* of commands and keys: its mode switches are answered by their own       *)
(* replies, its stops are final but for one stale twist, and its gripper   *)
(* goals alternate.                                                        *)
(***************************************************************************)
EXTENDS ModeSwitch, Teleop, SequenceTheorems, TLAPS

USE ModeAssumption

\* The manager never activates two controllers of the joints; what it activates of
\* a mode's request leaves the other mode inactive.
LEMMA ManagerType ==
  ASSUME NEW on \in Modes, NEW off \in Modes,
         active \subseteq Controllers, JointFree(active)
  PROVE  /\ BestEffort(active, {on}, {off}) \subseteq Controllers
         /\ JointFree(BestEffort(active, {on}, {off}))
         /\ on # off => off \notin BestEffort(active, {on}, {off})
  BY DEF BestEffort, JointFree, Modes

LEMMA OtherMode ==
  ASSUME NEW mode \in Modes
  PROVE  Other(mode) \in Modes /\ Other(mode) # mode /\ Other(Other(mode)) = mode
  BY DEF Other, Modes

LEMMA SwitchInitInv == SwitchInit => ModeInv
<1> SUFFICES ASSUME SwitchInit PROVE ModeInv
  OBVIOUS
<1>0. requests = <<>>
  BY DEF SwitchInit
<1>1. requests \in Seq(RequestType) /\ DOMAIN requests = {}
  <2>1. \A S : <<>> \in Seq(S) /\ DOMAIN <<>> = {}
    OBVIOUS
  <2> QED
    BY <1>0, <2>1
<1>2. active \subseteq Controllers /\ JointFree(active)
  BY DEF SwitchInit, JointFree
<1>3. ModeTypeOK
  <2>1. command \in {"none", "pose", "teleop"} /\ step \in Steps /\ target \in Modes
    BY DEF SwitchInit, Modes, Steps
  <2>2. seen \subseteq SUBSET Controllers /\ foreign \in BOOLEAN /\ reply = "none"
    BY DEF SwitchInit
  <2>3. commands \in 0..MaxCommands /\ others \in 0..MaxOthers
    BY DEF SwitchInit
  <2> QED
    BY <1>1, <1>2, <2>1, <2>2, <2>3 DEF ModeTypeOK
<1> QED
  BY <1>1, <1>3 DEF SwitchInit, ModeInv, StepFits, ReplyIsForThisCall, EstablishedHolds, CommandedInMode

LEMMA SwitchNextInv == ModeInv /\ [SwitchNext]_switchVars => ModeInv'
<1> SUFFICES ASSUME ModeInv, [SwitchNext]_switchVars PROVE ModeInv'
  OBVIOUS
<1> USE DEF ModeInv, ModeTypeOK
<1> DEFINE Rest == StepFits' /\ ReplyIsForThisCall' /\ EstablishedHolds' /\ CommandedInMode'
<1>0. Other(Trajectory) = Servo /\ Other(Servo) = Trajectory
  BY DEF Other
<1>1. CASE \E cmd \in {"pose", "teleop"} : Command(cmd)
  <2>1. ModeTypeOK'
    BY <1>1 DEF Command, Enter, Steps, Modes
  <2>2. Rest
    BY <1>1, <2>1 DEF Command, Enter, StepFits, ReplyIsForThisCall, EstablishedHolds,
                      CommandedInMode, InState
  <2> QED
    BY <2>1, <2>2
<1>2. CASE SetServoCommandType
  <2>1. ModeTypeOK'
    BY <1>2 DEF SetServoCommandType, Failed, Steps, call, counts
  <2>2. Rest
    BY <1>2, <2>1 DEF SetServoCommandType, Failed, call, counts, StepFits, ReplyIsForThisCall,
                      EstablishedHolds, CommandedInMode, InState
  <2> QED
    BY <2>1, <2>2
<1>3. CASE Done
  <2>1. ModeTypeOK'
    BY <1>3 DEF Done, Failed, Steps, counts
  <2>2. Rest
    BY <1>3, <2>1 DEF Done, Failed, counts, StepFits, ReplyIsForThisCall,
                      EstablishedHolds, CommandedInMode, InState
  <2> QED
    BY <2>1, <2>2
<1>4. CASE Checked
  <2>1. ModeTypeOK'
    BY <1>4 DEF Checked, Succeeded, Enter, Steps, call, counts, Modes
  <2>2. ~foreign => seen \subseteq {active}
    BY <1>4 DEF Checked, EstablishedHolds
  <2>3. Rest
    BY <1>4, <2>1, <2>2, <1>0 DEF Checked, Succeeded, Enter, call, counts, StepFits,
      ReplyIsForThisCall, EstablishedHolds, CommandedInMode, InState, Modes
  <2> QED
    BY <2>1, <2>3
<1>5. CASE SendSwitch
  <2>1. CASE requests' = Append(requests, [on |-> target, off |-> Other(target), awaited |-> TRUE])
             /\ step' = "await" /\ UNCHANGED call
    <3> DEFINE r == [on |-> target, off |-> Other(target), awaited |-> TRUE]
    <3>1. r \in RequestType
      BY OtherMode DEF RequestType
    <3>2. /\ requests' \in Seq(RequestType) /\ requests' # <<>>
          /\ Len(requests') = Len(requests) + 1
          /\ \A n \in DOMAIN requests' :
               requests'[n] = IF n = Len(requests') THEN r ELSE requests[n]
          /\ \A n \in DOMAIN requests' : n = Len(requests') \/ n \in DOMAIN requests
      BY <2>1, <3>1
    <3>3. ModeTypeOK'
      BY <1>5, <2>1, <3>2 DEF SendSwitch, Steps, call, counts
    <3>4. StepFits' /\ EstablishedHolds' /\ CommandedInMode'
      BY <1>5, <2>1, <3>2 DEF SendSwitch, call, counts, StepFits, ReplyIsForThisCall,
        EstablishedHolds, CommandedInMode, InState
    <3>5. ReplyIsForThisCall'
      BY <1>5, <2>1, <3>2 DEF SendSwitch, call, counts, ReplyIsForThisCall
    <3> QED
      BY <3>3, <3>4, <3>5
  <2>2. CASE Failed /\ UNCHANGED requests
    <3>1. ModeTypeOK'
      BY <1>5, <2>2 DEF SendSwitch, Failed, Steps, counts
    <3>2. Rest
      BY <1>5, <2>2, <3>1 DEF SendSwitch, Failed, counts, StepFits, ReplyIsForThisCall,
                        EstablishedHolds, CommandedInMode, InState
    <3> QED
      BY <3>1, <3>2
  <2> QED
    BY <1>5, <2>1, <2>2 DEF SendSwitch
<1>6. CASE Replied
  <2>1. ModeTypeOK'
    BY <1>6 DEF Replied, Succeeded, Enter, Steps, call, counts, Modes
  <2>2. ~foreign /\ reply = "ok" => InState(active)
    BY <1>6 DEF Replied, EstablishedHolds
  <2>3. Rest
    BY <1>6, <2>1, <2>2, <1>0 DEF Replied, Succeeded, Enter, call, counts, StepFits,
      ReplyIsForThisCall, EstablishedHolds, CommandedInMode, InState, Modes
  <2> QED
    BY <2>1, <2>3
<1>7. CASE TimedOut
  <2>1. /\ requests' \in Seq(RequestType)
        /\ DOMAIN requests' = DOMAIN requests
        /\ \A n \in DOMAIN requests' : ~requests'[n].awaited
    <3>1. \A r \in RequestType :
            [r EXCEPT !.awaited = FALSE] \in RequestType /\ ~[r EXCEPT !.awaited = FALSE].awaited
      BY DEF RequestType
    <3>2. Len(requests) \in Nat /\ DOMAIN requests = 1..Len(requests)
          /\ \A n \in DOMAIN requests : requests[n] \in RequestType
      OBVIOUS
    <3>3. requests' = [n \in 1..Len(requests) |-> [requests[n] EXCEPT !.awaited = FALSE]]
      BY <1>7, <3>2 DEF TimedOut, Abandoned
    <3>4. requests' \in [1..Len(requests) -> RequestType]
      BY <3>1, <3>2, <3>3
    <3>5. requests' \in Seq(RequestType)
      BY <3>2, <3>4
    <3> QED
      BY <3>1, <3>2, <3>3, <3>5
  <2>2. ModeTypeOK'
    BY <1>7, <2>1 DEF TimedOut, Failed, Steps, counts
  <2>3. Rest
    BY <1>7, <2>1, <2>2 DEF TimedOut, Failed, counts, StepFits, ReplyIsForThisCall,
                            EstablishedHolds, CommandedInMode, InState
  <2> QED
    BY <2>2, <2>3
<1>8. CASE Rechecked
  <2>1. ModeTypeOK'
    BY <1>8 DEF Rechecked, Succeeded, Failed, Enter, Steps, call, counts, Modes
  <2>2. ~foreign => seen \subseteq {active}
    BY <1>8 DEF Rechecked, EstablishedHolds
  <2>3. Rest
    BY <1>8, <2>1, <2>2, <1>0, SMTT(30) DEF Rechecked, Succeeded, Failed, Enter, call, counts, StepFits,
      ReplyIsForThisCall, EstablishedHolds, CommandedInMode, InState, Modes
  <2> QED
    BY <2>1, <2>3
<1>9. CASE ListFails
  <2>1. ModeTypeOK'
    BY <1>9 DEF ListFails, Steps, call, counts
  <2>2. Rest
    BY <1>9, <2>1 DEF ListFails, call, counts, StepFits, ReplyIsForThisCall,
                      EstablishedHolds, CommandedInMode, InState
  <2> QED
    BY <2>1, <2>2
<1>10. CASE ServeList
  <2>1. ModeTypeOK'
    <3>1. active \in SUBSET Controllers
      OBVIOUS
    <3>2. seen' \subseteq SUBSET Controllers
      BY <1>10, <3>1 DEF ServeList
    <3> QED
      BY <1>10, <3>2 DEF ServeList, Steps, call, counts, JointFree
  <2>2. Rest
    BY <1>10, <2>1 DEF ServeList, call, counts, StepFits, ReplyIsForThisCall,
                      EstablishedHolds, CommandedInMode, InState
  <2> QED
    BY <2>1, <2>2
<1>11. CASE ServeSwitch
  <2> DEFINE r == Head(requests)
  <2>1. /\ r = requests[1] /\ 1 \in DOMAIN requests /\ r \in RequestType
        /\ requests' \in Seq(RequestType) /\ Len(requests') = Len(requests) - 1
        /\ \A n \in DOMAIN requests' : n + 1 \in DOMAIN requests /\ requests'[n] = requests[n + 1]
    BY <1>11 DEF ServeSwitch
  <2>2. active' \subseteq Controllers /\ JointFree(active')
    <3>1. CASE active' = active
      BY <3>1 DEF JointFree
    <3>2. CASE \E on, off \in Modes : active' = BestEffort(active, {on}, {off})
      <4>1. PICK on \in Modes, off \in Modes : active' = BestEffort(active, {on}, {off})
        BY <3>2
      <4>2. /\ BestEffort(active, {on}, {off}) \subseteq Controllers
            /\ JointFree(BestEffort(active, {on}, {off}))
        BY ManagerType
      <4> QED
        BY <4>1, <4>2, Zenon
    <3>3. r.on \in Modes /\ r.off \in Modes
      BY <2>1 DEF RequestType
    <3>4. active' = active \/ active' = BestEffort(active, {r.on}, {r.off})
      BY <1>11 DEF ServeSwitch
    <3> QED
      BY <3>1, <3>2, <3>3, <3>4, Zenon
  <2>3. /\ reply' \in {"none", "ok", "refused"}
        /\ reply' = IF r.awaited THEN reply' ELSE reply
        /\ r.awaited => reply' # "none"
        /\ foreign' \in BOOLEAN
    BY <1>11, <2>1 DEF ServeSwitch, RequestType
  <2>4. ModeTypeOK'
    BY <1>11, <2>1, <2>2, <2>3 DEF ServeSwitch, call, counts
  <2>5. r.awaited => step = "await" /\ reply = "none" /\ Len(requests) = 1
                     /\ r.on = target /\ r.off = Other(target)
    BY <2>1 DEF ReplyIsForThisCall, StepFits
  <2>6. ReplyIsForThisCall'
    BY <1>11, <2>1, <2>3, <2>5 DEF ServeSwitch, call, counts, ReplyIsForThisCall
  <2>7. StepFits'
    BY <1>11, <2>1 DEF ServeSwitch, call, StepFits
  <2>8. r.awaited /\ reply' = "ok" => InState(active')
    <3> SUFFICES ASSUME r.awaited, reply' = "ok" PROVE InState(active')
      OBVIOUS
    <3>1. r.on = target /\ r.off = Other(target) /\ Other(target) # target /\ Other(target) \in Modes
      BY <2>5, OtherMode
    <3>2. active' = BestEffort(active, {target}, {Other(target)}) /\ target \in active'
      BY <1>11, <3>1 DEF ServeSwitch
    <3> QED
      BY <3>1, <3>2, ManagerType DEF InState
  <2>9. EstablishedHolds' /\ CommandedInMode'
    <3>1. CASE r.awaited
      BY <1>11, <2>3, <2>5, <2>8, <3>1 DEF ServeSwitch, call, EstablishedHolds, CommandedInMode, InState
    <3>2. CASE ~r.awaited
      BY <1>11, <2>1, <2>3, <3>2 DEF ServeSwitch, call, EstablishedHolds, CommandedInMode, InState, RequestType
    <3> QED
      BY <3>1, <3>2
  <2> QED
    BY <2>4, <2>6, <2>7, <2>9
<1>12. CASE OtherSwitch
  <2>1. ModeTypeOK'
    BY <1>12 DEF OtherSwitch, call
  <2>2. Rest
    BY <1>12, <2>1 DEF OtherSwitch, call, StepFits, ReplyIsForThisCall,
                      EstablishedHolds, CommandedInMode, InState
  <2> QED
    BY <2>1, <2>2
<1>13. CASE UNCHANGED switchVars
  BY <1>13 DEF switchVars, call, counts, Rest, StepFits, ReplyIsForThisCall, EstablishedHolds,
               CommandedInMode, InState
<1> QED
  BY <1>1, <1>2, <1>3, <1>4, <1>5, <1>6, <1>7, <1>8, <1>9, <1>10, <1>11, <1>12, <1>13
     DEF SwitchNext, Main

\* The inductive invariant holds in every state.
THEOREM SwitchInvariant == SwitchSpec => []ModeInv
  BY SwitchInitInv, SwitchNextInv, PTL DEF SwitchSpec

\* The robot is commanded in the mode that was established.
THEOREM CommandsFollowMode == SwitchSpec => []CommandedInMode
<1>1. ModeInv => CommandedInMode
  BY DEF ModeInv
<1> QED
  BY <1>1, SwitchInvariant, PTL

\* Both together.
THEOREM SwitchesSafely == SwitchSpec => []SwitchSafe
<1>1. ModeInv => SwitchSafe
  BY DEF ModeInv, SwitchSafe
<1> QED
  BY <1>1, SwitchInvariant, PTL

\* A reply is the answer to the request that is waited for.
THEOREM RepliesMatch == SwitchSpec => []ReplyIsForThisCall
<1>1. ModeInv => ReplyIsForThisCall
  BY DEF ModeInv
<1> QED
  BY <1>1, SwitchInvariant, PTL

-----------------------------------------------------------------------------
HIDE ModeAssumption

USE TeleopAssumption DEF TeleopTypeOK, After

LEMMA InitInv == Init => TeleopInv
<1> SUFFICES ASSUME Init PROVE TeleopInv
  OBVIOUS
<1>1. FlagTypes
  BY Zenon DEF Init, FlagTypes
<1>2. goal = "none" /\ done = "open" /\ gripperBusy = FALSE /\ gripperIsClosed = FALSE
  BY Zenon DEF Init
<1>3. FlagsFit
  BY <1>2 DEF FlagsFit
<1> QED
  BY <1>1, <1>3 DEF Init, TeleopInv, ThreadFits, LateFits, StopFits, GripperFits,
         AtMostOneLateTwist, ActsAtRest, RestsOutside, ToggleAlternates

\* The main thread and the timer leave the gripper's callbacks alone.
LEMMA GripperKept ==
  ASSUME GripperFits, ToggleAlternates, UNCHANGED gripper
  PROVE  GripperFits' /\ ToggleAlternates'
<1>1. FlagsFit'
  BY Zenon DEF GripperFits, FlagsFit, gripper
<1> QED
  BY <1>1 DEF GripperFits, ToggleAlternates, gripper

\* The gripper's callbacks leave the twists alone.
LEMMA TwistsKept ==
  ASSUME TeleopInv, UNCHANGED <<thread, twists, timerThread, wire, operator>>
  PROVE  /\ ThreadFits' /\ LateFits' /\ StopFits'
         /\ AtMostOneLateTwist' /\ ActsAtRest' /\ RestsOutside'
  BY DEF TeleopInv, thread, twists, timerThread, wire, operator, ThreadFits, LateFits, StopFits,
         AtMostOneLateTwist, ActsAtRest, RestsOutside

LEMMA NextInv == TeleopInv /\ [Next]_vars => TeleopInv'
<1> SUFFICES ASSUME TeleopInv, [Next]_vars PROVE TeleopInv'
  OBVIOUS
<1> DEFINE Twists == /\ ThreadFits' /\ LateFits' /\ StopFits'
                     /\ AtMostOneLateTwist' /\ ActsAtRest' /\ RestsOutside'
<1> DEFINE Goals == GripperFits' /\ ToggleAlternates'
<1>q. ASSUME TeleopTypeOK', Twists, Goals PROVE TeleopInv'
  BY <1>q DEF TeleopInv
<1>t. TeleopTypeOK /\ GripperFits /\ ToggleAlternates
  BY DEF TeleopInv
<1>1. CASE PublishStop
  <2>0. UNCHANGED gripper
    BY <1>1 DEF PublishStop
  <2>f. FlagTypes'
    BY <1>1, <1>t, Zenon DEF FlagTypes, PublishStop, Publish, twists, timerThread, gripper, operator
  <2>1. TeleopTypeOK'
    BY <2>f, <1>1, <1>t DEF PublishStop, Publish, twists, timerThread, gripper, operator
  <2>2. Twists
    BY <1>1, <1>t DEF PublishStop, Publish, twists, timerThread, operator, TeleopInv, ThreadFits,
      LateFits, StopFits, AtMostOneLateTwist, ActsAtRest, RestsOutside
  <2> QED
    BY <2>0, <2>1, <2>2, <1>q, <1>t, GripperKept
<1>2. CASE StopDone
  <2>0. UNCHANGED gripper
    BY <1>2 DEF StopDone
  <2>f. FlagTypes'
    BY <1>2, <1>t, Zenon DEF FlagTypes, StopDone, twists, timerThread, gripper, wire, operator
  <2>1. TeleopTypeOK'
    BY <2>f, <1>2, <1>t DEF StopDone, twists, timerThread, gripper, wire, operator
  <2>2. Twists
    BY <1>2, <1>t DEF StopDone, twists, timerThread, wire, operator, TeleopInv, ThreadFits,
      LateFits, StopFits, AtMostOneLateTwist, ActsAtRest, RestsOutside
  <2> QED
    BY <2>0, <2>1, <2>2, <1>q, <1>t, GripperKept
<1>3. CASE PublishFails
  <2>0. UNCHANGED gripper
    BY <1>3 DEF PublishFails
  <2>f. FlagTypes'
    BY <1>3, <1>t, Zenon DEF FlagTypes, PublishFails, timerThread, gripper, wire, operator
  <2>1. TeleopTypeOK'
    BY <2>f, <1>3, <1>t DEF PublishFails, timerThread, gripper, wire, operator
  <2>2. Twists
    BY <1>3, <1>t DEF PublishFails, timerThread, wire, operator, TeleopInv, ThreadFits,
      LateFits, StopFits, AtMostOneLateTwist, ActsAtRest, RestsOutside
  <2> QED
    BY <2>0, <2>1, <2>2, <1>q, <1>t, GripperKept
<1>4. CASE Record
  <2>0. UNCHANGED gripper
    BY <1>4 DEF Record
  <2>f. FlagTypes'
    BY <1>4, <1>t, Zenon DEF FlagTypes, Record, twists, timerThread, gripper, wire, operator
  <2>1. TeleopTypeOK'
    BY <2>f, <1>4, <1>t DEF Record, twists, timerThread, gripper, wire, operator
  <2>2. Twists
    BY <1>4, <1>t DEF Record, twists, timerThread, wire, operator, TeleopInv, ThreadFits,
      LateFits, StopFits, AtMostOneLateTwist, ActsAtRest, RestsOutside
  <2> QED
    BY <2>0, <2>1, <2>2, <1>q, <1>t, GripperKept
<1>5. CASE Leave
  <2>0. UNCHANGED gripper
    BY <1>5 DEF Leave
  <2>f. FlagTypes'
    BY <1>5, <1>t, Zenon DEF FlagTypes, Leave, BeginStop, SetVelocity, timerThread, gripper, wire
  <2>1. TeleopTypeOK'
    BY <2>f, <1>5, <1>t DEF Leave, BeginStop, SetVelocity, timerThread, gripper, wire
  <2>2. Twists
    BY <1>5, <1>t DEF Leave, BeginStop, SetVelocity, timerThread, wire, TeleopInv, ThreadFits,
      LateFits, StopFits, AtMostOneLateTwist, ActsAtRest, RestsOutside
  <2> QED
    BY <2>0, <2>1, <2>2, <1>q, <1>t, GripperKept
<1>6. CASE TimerChecks
  <2>0. UNCHANGED gripper
    BY <1>6 DEF TimerChecks
  <2>f. FlagTypes'
    BY <1>6, <1>t, Zenon DEF FlagTypes, TimerChecks, thread, twists, gripper, wire, operator
  <2>1. TeleopTypeOK'
    BY <2>f, <1>6, <1>t DEF TimerChecks, thread, twists, gripper, wire, operator
  <2>2. Twists
    BY <1>6, <1>t DEF TimerChecks, thread, twists, wire, operator, TeleopInv, ThreadFits,
      LateFits, StopFits, AtMostOneLateTwist, ActsAtRest, RestsOutside
  <2> QED
    BY <2>0, <2>1, <2>2, <1>q, <1>t, GripperKept
<1>7. CASE TimerBuilds
  <2>0. UNCHANGED gripper
    BY <1>7 DEF TimerBuilds
  <2>f. FlagTypes'
    BY <1>7, <1>t, Zenon DEF FlagTypes, TimerBuilds, thread, twists, gripper, wire, operator
  <2>1. TeleopTypeOK'
    BY <2>f, <1>7, <1>t DEF TimerBuilds, thread, twists, gripper, wire, operator
  <2>2. Twists
    BY <1>7, <1>t DEF TimerBuilds, thread, twists, wire, operator, TeleopInv, ThreadFits,
      LateFits, StopFits, AtMostOneLateTwist, ActsAtRest, RestsOutside
  <2> QED
    BY <2>0, <2>1, <2>2, <1>q, <1>t, GripperKept
<1>8. CASE TimerPublishes
  <2>0. UNCHANGED gripper
    BY <1>8 DEF TimerPublishes
  <2>f. FlagTypes'
    BY <1>8, <1>t, Zenon DEF FlagTypes, TimerPublishes, Publish, thread, twists, gripper, operator
  <2>1. TeleopTypeOK'
    BY <2>f, <1>8, <1>t DEF TimerPublishes, Publish, thread, twists, gripper, operator
  <2>2. Twists
    BY <1>8, <1>t DEF TimerPublishes, Publish, thread, twists, operator, TeleopInv, ThreadFits,
      LateFits, StopFits, AtMostOneLateTwist, ActsAtRest, RestsOutside
  <2> QED
    BY <2>0, <2>1, <2>2, <1>q, <1>t, GripperKept
<1>9. CASE EnterTeleop
  <2>0. UNCHANGED gripper
    BY <1>9 DEF EnterTeleop
  <2>f. FlagTypes'
    BY <1>9, <1>t, Zenon DEF FlagTypes, EnterTeleop, BeginStop, SetVelocity, timerThread, gripper
  <2>1. TeleopTypeOK'
    BY <2>f, <1>9, <1>t DEF EnterTeleop, BeginStop, SetVelocity, timerThread, gripper
  <2>2. Twists
    BY <1>9, <1>t DEF EnterTeleop, BeginStop, SetVelocity, timerThread, TeleopInv, ThreadFits,
      LateFits, StopFits, AtMostOneLateTwist, ActsAtRest, RestsOutside
  <2> QED
    BY <2>0, <2>1, <2>2, <1>q, <1>t, GripperKept
<1>10. CASE MoveKey
  <2>0. UNCHANGED gripper
    BY <1>10 DEF MoveKey
  <2>f. FlagTypes'
    BY <1>10, <1>t, Zenon DEF FlagTypes, MoveKey, Key, SetVelocity, thread, timerThread, gripper
  <2>1. TeleopTypeOK'
    BY <2>f, <1>10, <1>t DEF MoveKey, Key, SetVelocity, thread, timerThread, gripper
  <2>2. Twists
    BY <1>10, <1>t DEF MoveKey, Key, SetVelocity, thread, timerThread, TeleopInv, ThreadFits,
      LateFits, StopFits, AtMostOneLateTwist, ActsAtRest, RestsOutside
  <2> QED
    BY <2>0, <2>1, <2>2, <1>q, <1>t, GripperKept
<1>11. CASE OtherKey
  <2>0. UNCHANGED gripper
    BY <1>11 DEF OtherKey
  <2>f. FlagTypes'
    BY <1>11, <1>t, Zenon DEF FlagTypes, OtherKey, Key, SetVelocity, thread, timerThread, gripper, wire
  <2>1. TeleopTypeOK'
    BY <2>f, <1>11, <1>t DEF OtherKey, Key, SetVelocity, thread, timerThread, gripper, wire
  <2>2. Twists
    BY <1>11, <1>t DEF OtherKey, Key, SetVelocity, thread, timerThread, wire, TeleopInv, ThreadFits,
      LateFits, StopFits, AtMostOneLateTwist, ActsAtRest, RestsOutside
  <2> QED
    BY <2>0, <2>1, <2>2, <1>q, <1>t, GripperKept
<1>12. CASE StopKey
  <2>0. UNCHANGED gripper
    BY <1>12 DEF StopKey
  <2>f. FlagTypes'
    BY <1>12, <1>t, Zenon DEF FlagTypes, StopKey, Key, BeginStop, SetVelocity, timerThread, gripper, wire
  <2>1. TeleopTypeOK'
    BY <2>f, <1>12, <1>t DEF StopKey, Key, BeginStop, SetVelocity, timerThread, gripper, wire
  <2>2. Twists
    BY <1>12, <1>t DEF StopKey, Key, BeginStop, SetVelocity, timerThread, wire, TeleopInv,
      ThreadFits, LateFits, StopFits, AtMostOneLateTwist, ActsAtRest, RestsOutside
  <2> QED
    BY <2>0, <2>1, <2>2, <1>q, <1>t, GripperKept
<1>13. CASE Interrupt
  <2>0. UNCHANGED gripper
    BY <1>13 DEF Interrupt
  <2>f. FlagTypes'
    BY <1>13, <1>t, Zenon DEF FlagTypes, Interrupt, BeginStop, SetVelocity, timerThread, gripper, wire
  <2>1. TeleopTypeOK'
    BY <2>f, <1>13, <1>t DEF Interrupt, BeginStop, SetVelocity, timerThread, gripper, wire
  <2>2. Twists
    BY <1>13, <1>t DEF Interrupt, BeginStop, SetVelocity, timerThread, wire, TeleopInv,
      ThreadFits, LateFits, StopFits, AtMostOneLateTwist, ActsAtRest, RestsOutside
  <2> QED
    BY <2>0, <2>1, <2>2, <1>q, <1>t, GripperKept
<1>14. CASE Gone
  <2>0. UNCHANGED gripper
    BY <1>14 DEF Gone
  <2>f. FlagTypes'
    BY <1>14, <1>t, Zenon DEF FlagTypes, Gone, thread, timerThread, gripper, wire, operator
  <2>1. TeleopTypeOK'
    BY <2>f, <1>14, <1>t DEF Gone, thread, timerThread, gripper, wire, operator
  <2>2. Twists
    BY <1>14, <1>t DEF Gone, thread, timerThread, wire, operator, TeleopInv,
      ThreadFits, LateFits, StopFits, AtMostOneLateTwist, ActsAtRest, RestsOutside
  <2> QED
    BY <2>0, <2>1, <2>2, <1>q, <1>t, GripperKept
<1>15. CASE ContextDown
  <2>0. UNCHANGED gripper
    BY <1>15 DEF ContextDown
  <2>f. FlagTypes'
    BY <1>15, <1>t, Zenon DEF FlagTypes, ContextDown, thread, twists, timerThread, gripper, operator
  <2>1. TeleopTypeOK'
    BY <2>f, <1>15, <1>t DEF ContextDown, thread, twists, timerThread, gripper, operator
  <2>2. Twists
    BY <1>15, <1>t DEF ContextDown, thread, twists, timerThread, operator, TeleopInv,
      ThreadFits, LateFits, StopFits, AtMostOneLateTwist, ActsAtRest, RestsOutside
  <2> QED
    BY <2>0, <2>1, <2>2, <1>q, <1>t, GripperKept
<1>16. CASE ServoTimeout
  <2>0. UNCHANGED gripper
    BY <1>16 DEF ServoTimeout
  <2>f. FlagTypes'
    BY <1>16, <1>t, Zenon DEF FlagTypes, ServoTimeout, thread, twists, timerThread, gripper, operator
  <2>1. TeleopTypeOK'
    BY <2>f, <1>16, <1>t DEF ServoTimeout, thread, twists, timerThread, gripper, operator
  <2>2. Twists
    BY <1>16, <1>t DEF ServoTimeout, thread, twists, timerThread, operator, TeleopInv,
      ThreadFits, LateFits, StopFits, AtMostOneLateTwist, ActsAtRest, RestsOutside
  <2> QED
    BY <2>0, <2>1, <2>2, <1>q, <1>t, GripperKept
<1>17. CASE ToggleGripper
  <2>f. FlagTypes'
    BY <1>17, <1>t, Zenon DEF FlagTypes, ToggleGripper, Unsent, Sent, twists, timerThread, wire, operator
  <2>1. TeleopTypeOK'
    BY <2>f, <1>17, <1>t DEF ToggleGripper, Unsent, Sent, twists, timerThread, wire, operator
  <2>2. Twists
    BY <1>17, <1>t DEF ToggleGripper, twists, timerThread, wire, operator, TeleopInv,
      ThreadFits, LateFits, StopFits, AtMostOneLateTwist, ActsAtRest, RestsOutside
  <2>3. Goals
    <3>1. FlagsFit'
      <4>1. FlagsFit /\ done' = done /\ gripperIsClosed' = gripperIsClosed
        BY <1>17, <1>t DEF ToggleGripper, GripperFits
      <4>2. CASE gripperBusy' = gripperBusy /\ goal' = goal
        BY <4>1, <4>2, Zenon DEF FlagsFit
      <4>3. CASE ~gripperBusy /\ gripperBusy' = TRUE /\ goal' = "sent"
        <5>1. goal = "none"
          BY <4>1, <4>3, Zenon DEF FlagsFit
        <5>2. gripperIsClosed <=> done = "close"
          BY <4>1, <5>1 DEF FlagsFit
        <5> QED
          BY <4>1, <4>3, <5>2 DEF FlagsFit
      <4> QED
        BY <1>17, <4>2, <4>3, Zenon DEF ToggleGripper, Unsent, Sent
    <3> QED
      BY <3>1, <1>17, <1>t DEF ToggleGripper, Unsent, Sent, GripperFits, FlagsFit, ToggleAlternates
  <2> QED
    BY <2>1, <2>2, <2>3, <1>q
<1>18. CASE GoalResponse
  <2>f. FlagTypes'
    BY <1>18, <1>t, Zenon DEF FlagTypes, GoalResponse, Over, GripperFits, thread, twists, timerThread, wire, operator
  <2>1. TeleopTypeOK'
    BY <2>f, <1>18, <1>t DEF GoalResponse, Over, GripperFits, thread, twists, timerThread, wire, operator
  <2>2. Goals
    <3>1. FlagsFit'
      BY <1>18, <1>t, Zenon DEF GoalResponse, GripperFits, FlagsFit, ToggleAlternates
    <3> QED
      BY <3>1, <1>18, <1>t DEF GoalResponse, Over, GripperFits, ToggleAlternates
  <2> QED
    BY <1>18, <2>1, <2>2, <1>q, TwistsKept DEF GoalResponse
<1>19. CASE Result
  <2>f. FlagTypes'
    BY <1>19, <1>t, Zenon DEF FlagTypes, Result, Over, GripperFits, thread, twists, timerThread, wire, operator
  <2>1. TeleopTypeOK'
    BY <2>f, <1>19, <1>t DEF Result, Over, GripperFits, thread, twists, timerThread, wire, operator
  <2>2. Goals
    <3>1. FlagsFit'
      BY <1>19, <1>t, Zenon DEF Result, GripperFits, FlagsFit, ToggleAlternates
    <3> QED
      BY <3>1, <1>19, <1>t DEF Result, Over, GripperFits, ToggleAlternates
  <2> QED
    BY <1>19, <2>1, <2>2, <1>q, TwistsKept DEF Result
<1>20. CASE ResultCallback
  <2>f. FlagTypes'
    BY <1>20, <1>t, Zenon DEF FlagTypes, ResultCallback, thread, twists, timerThread, wire, operator
  <2>1. TeleopTypeOK'
    BY <2>f, <1>20, <1>t DEF ResultCallback, thread, twists, timerThread, wire, operator
  <2>2. Goals
    <3>1. FlagsFit'
      <4>1. FlagsFit /\ done' = done /\ goal \in {"result", "recorded"} /\ label = done
        BY <1>20, <1>t DEF ResultCallback, GripperFits
      <4>2. CASE goal = "result" /\ goal' = "recorded"
        <5>1. gripperIsClosed' = (label = "close") /\ gripperBusy' = gripperBusy
          BY <1>20, <4>2 DEF ResultCallback
        <5>2. gripperBusy
          BY <4>1, <4>2, Zenon DEF FlagsFit
        <5> QED
          BY <4>1, <4>2, <5>1, <5>2, Zenon DEF FlagsFit
      <4>3. CASE goal = "recorded" /\ goal' = "none"
        <5>1. gripperIsClosed' = gripperIsClosed /\ gripperBusy' = FALSE
          BY <1>20, <4>3 DEF ResultCallback
        <5>2. gripperIsClosed <=> done = "close"
          BY <4>1, <4>3, Zenon DEF FlagsFit
        <5> QED
          BY <4>1, <4>3, <5>1, <5>2 DEF FlagsFit
      <4> QED
        BY <1>20, <4>2, <4>3, Zenon DEF ResultCallback
    <3> QED
      BY <3>1, <1>20, <1>t DEF ResultCallback, GripperFits, ToggleAlternates
  <2> QED
    BY <1>20, <2>1, <2>2, <1>q, TwistsKept DEF ResultCallback
<1>22. CASE NoResult
  <2>f. FlagTypes'
    BY <1>22, <1>t, Zenon DEF FlagTypes, NoResult, Over, GripperFits, thread, twists, timerThread, wire, operator
  <2>1. TeleopTypeOK'
    BY <2>f, <1>22, <1>t DEF NoResult, Over, GripperFits, thread, twists, timerThread, wire, operator
  <2>2. Goals
    <3>1. FlagsFit'
      BY <1>22, <1>t, Zenon DEF NoResult, GripperFits, FlagsFit, ToggleAlternates
    <3> QED
      BY <3>1, <1>22, <1>t DEF NoResult, Over, GripperFits, ToggleAlternates
  <2> QED
    BY <1>22, <2>1, <2>2, <1>q, TwistsKept DEF NoResult
<1>21. CASE UNCHANGED vars
  <2>f. FlagTypes'
    BY <1>21, <1>t, Zenon DEF FlagTypes, vars, thread, twists, timerThread, gripper, wire, operator
  <2>1. TeleopTypeOK'
    BY <2>f, <1>21, <1>t DEF vars, thread, twists, timerThread, gripper, wire, operator
  <2> QED
    BY <1>21, <2>1, <1>q, <1>t, TwistsKept, GripperKept DEF vars
<1> QED
  BY <1>1, <1>2, <1>3, <1>4, <1>5, <1>6, <1>7, <1>8, <1>9, <1>10, <1>11, <1>12, <1>13, <1>14,
     <1>15, <1>16, <1>17, <1>18, <1>19, <1>20, <1>21, <1>22 DEF Next, Stopping, Timer, Gripper

\* The inductive invariant holds in every state.
THEOREM InductiveInvariant == Spec => []TeleopInv
  BY InitInv, NextInv, PTL DEF Spec

\* A stop is final but for one message.
THEOREM StopsAreFinal == Spec => []AtMostOneLateTwist
<1>1. TeleopInv => AtMostOneLateTwist
  BY DEF TeleopInv
<1> QED
  BY <1>1, InductiveInvariant, PTL

\* Stops, the actions at rest and the gripper's goals together.
THEOREM TeleopIsSafe == Spec => []TeleopSafe
<1>1. TeleopInv => TeleopSafe
  BY DEF TeleopInv, TeleopSafe
<1> QED
  BY <1>1, InductiveInvariant, PTL

\* The gripper is commanded, and poses are recorded, at rest.
THEOREM GripsAtRest == Spec => []ActsAtRest
<1>1. TeleopInv => ActsAtRest
  BY DEF TeleopInv
<1> QED
  BY <1>1, InductiveInvariant, PTL

\* The goals of the gripper alternate, one at a time.
THEOREM GoalsAlternate == Spec => []ToggleAlternates
<1>1. TeleopInv => ToggleAlternates
  BY DEF TeleopInv
<1> QED
  BY <1>1, InductiveInvariant, PTL
=============================================================================
