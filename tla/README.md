# vzlet_ur3e: specifications

The repository runs a UR3e arm that picks electronic parts from a table and assembles them:
a camera and a YOLO network find a part, MoveIt moves the arm, a servo gripper (or a suction
gripper) takes the part.  An operator can drive the arm from the keyboard instead.  Below the
application are the ROS 2 driver of the arm, its client library and the drivers of the grippers,
all in the same tree.  This directory holds TLA+ specifications of the parts that carry the
logic, the TLC configurations that check them, and proofs for TLAPS.

Paths are relative to `src/`.  `scripts/` stands for `ws/src/vzlet_control/scripts/`,
URD for `ws/src/Universal_Robots_ROS2_Driver/` (`ur_robot_driver/`, `ur_controllers/`),
URCL for `ws/src/Universal_Robots_Client_Library/`, and a file named alone is one of the
component's files in PROJECT.json.

## 1. Inventory

| component | state | operations | interacts with |
|---|---|---|---|
| Pick pipeline: `pipeline.py`, `pipeline_motion.py` | stage and step, the remembered gripper position, an action goal under way | stages (zone move, vote, pick, place), `execute_grasp_sequence`, `execute_move`, `command_gripper` | move_group and the gripper controller (action goals), TF, the vote, the pose table |
| YOLO vote: `pipeline_vision.py` | frames that agree, sums, selected candidate | `get_stable_yolo_candidates`, matching, averaging, `select_yolo_grid_pose` | camera topic (last frame only), TF, the pose table |
| Pose table: `pipeline_utils.py`, `teleop.py`, the CSV | the file, its copy in memory | load, look up, record; edits by hand | pipeline and teleoperation |
| Mode switch: `pipeline_utils.py` | none kept: checks and requests | `call_switch_controller` and its callers | controller manager (services) |
| Teleoperation: `teleop.py` | twist, in_teleop, gripper flags, shared by two threads | keys, stops, 30 Hz timer, gripper callbacks, Ctrl+C | MoveIt Servo, gripper controller |
| Suction gripper: `suction_gripper_system.cpp`, `uart_control.ino` | lifecycle, descriptor, last line sent; valve, receive buffer | lifecycle callbacks, read, write; `loop()` | each other over a serial line |
| Feetech gripper: `ws/src/feetech_ros2_driver` | command and state per joint; torque, EPROM lock, goal in the servos; input buffer | `on_init`, read, write, activate, deactivate | half-duplex servo bus |
| UR hardware interface: URD `hardware_interface.cpp` | running flags of seven command modes, transfer state of a trajectory, command and acknowledgement cells of each request | prepare/perform of mode switches, read, write, the worker of asynchronous commands, callbacks of the library | control cycle, controllers (shared interface cells), reverse, trajectory and script sockets |
| URD controllers: passthrough trajectory, tool contact, freedrive, force mode, GPIO, friction model | a goal or request and what it has got so far | goals, cancels, messages, services, update(), (de)activation | the hardware interface through cells both write; users |
| Robot program: URCL `external_control.urscript` | control mode, trajectory thread, freedrive, tool contact | control loop, trajectory thread, script commands | three sockets to the driver |
| Instruction executor: URCL `instruction_executor.cpp` | running and cancel flags, the last result | `executeMotion`, `cancelMotion`, three callbacks | trajectory interface, robot program |
| RTDE client and writer: URCL `rtde_client.cpp`, `rtde_writer.cpp` | connection, client state, two read buffers, two command packages with masks | set-up exchanges, background thread, reconnect thread, `getDataPackage`, writer thread | robot |
| Pipeline queue: URCL `readerwriterqueue.h`, `atomicops.h` | ring of blocks, semaphore | lock-free enqueue, blocking dequeue | producer and consumer threads |
| Primary client: URCL `primary_client.cpp`, `pipeline.h`, `producer.h` | stream, queue, last packages seen | producer, consumer, `sendScriptBlocking`, commands that wait for their effect | robot, pendant |
| Robot state helper: URD `robot_state_helper.cpp` | modes, goal | `set_mode` action, safety recovery | robot, primary client, dashboard |
| Dashboard client: URCL `dashboard_client*.cpp`, URD `dashboard_client_ros.cpp` | connection, receive timeout | some forty commands by eight policies, waiting and retrying | dashboard server or Robot API |
| Trajectory until: URD `trajectory_until_node.cpp` | both goals' handles, acceptance flags | goal, cancel, responses, results | two action servers |
| Script reader: URCL `script_reader.cpp` | open blocks, data | `if`/`elif`/`else`/`endif` lines, expressions | `UrDriver` |
| TCP server: URCL `tcp_server.cpp`, `script_sender.cpp` | fd set, clients | accept, read, drop, write, shutdown | its owner (callbacks) |
| Controller stopper: URD `controller_stopper.cpp` | robot_running_, stopped_controllers_ | constructor, program callback, list and switch callbacks | controller manager, `robot_program_running` |
| Parsers, calibration, descriptions, RTDE scripts, helpers, launch, containers | none while running | | |

What is hard in each, and what makes it correct:

- **Pick pipeline.**  No path cancels a goal, so a goal outlives the timeout or the process
  that gave up on it; a remembered position lets gripper commands be skipped; a step that
  fails leaves the ones before it done.  Correct: nothing is commanded over an unanswered
  goal, grips happen at the bottom of the grasp, nothing is dropped, "complete" means
  delivered, each run ends.
- **Vote.**  Frames may predate the end of the motion; boxes come in any order; any frame may
  lack or invent a part.  Correct: one good frame in an accepted vote is enough, no frame is
  refused because of the order, the vote ends.
- **Pose table.**  Names and ids are made from the number of rows, the file is edited by
  hand meanwhile.  Correct: the file stays loadable, the one in use is whole, shipped ids keep
  their meaning.
- **Mode switch.**  Checking, requesting and commanding are three moments; other clients switch
  too; late requests are still served.  Correct: the robot is commanded in the mode that was
  established, replies match requests.
- **Teleoperation.**  Two threads; the timer publishes outside the lock.  Correct: a stop is
  final but for one message, grips happen at rest, goals alternate, the robot ends up still.
- **Suction gripper.**  Cut and lost lines, resets, unplugging.  Correct: what the driver will
  not send again is what the valve does; the valve settles.
- **Feetech gripper.**  A bus that loses or delays any message, a process killed between two
  writes.  Correct: no torque with an open EPROM, a component that came up is configured, a
  position belongs to its joint, activation does not move the arm.
- **Driver.**  Controllers, hardware interface and library callbacks share cells without locks:
  each decides on what it loaded, and several writes make one message.  Results of the robot
  carry no number.  Correct: success means that this goal was executed, acknowledgements are of
  the request, points fit, the flags follow the controllers, requests end.
- **Robot's connections (RTDE, primary, dashboard, TCP).**  A connection is lost under any step
  and set up again by another thread; answers have no number.  Correct: one reader, packages of
  this connection, commands in order, success only for the call that was answered, each call
  ends.
- **Queue.**  Lock-free with stale copies of the other side's index.  Correct: in order, once,
  no lost wake-up.
- **Until node, state helper.**  Two action clients, topics that lag.  Correct: a goal that ends
  well did what it says; the trajectory never runs unwatched.
- **Controller stopper.**  Requests are answered later, the constructor spins its own node.
  Correct: the controllers mirror the program, the consistent ones are never stopped.

## 2. Plan

Done, in this order: (1) SuctionGripper, (2) PickPipeline over PickAndPlace, (3)
ControllerManager with ControllerStopper and ModeSwitch, (4) Teleop and PoseTable, (5) YoloVote,
(6) FeetechDriver, (7) the driver: CommandModes, ExternalControl, HardwareInterface, the six
controllers and InstructionExecutor, composed in UrDriver, (8) RtdeWriter and RtdeClient, (9) the
clients outside the control cycle, composed in UrClients.

Left:

10. MotionTruth for every motion: GoalInv (section 5) follows a trajectory over the sockets; the
    executor's motions need the like, with primitives of two sorts.
11. RendersChosen.
12. The pneumatic grasp with SuctionGripper: is the valve open before the arm moves up?  And
    dataset photos in Teleop.
13. A second `set_mode` goal and two dashboard calls at a time.

Runs are kept few, one for each process (or group of threads that share state); sessions that
never run together are alternatives of one run.

## 3. Modules

Each `X.tla` has its state as variables, one action per handler or step, `Init`, `Next`, `Spec`
(with its fairness) and its properties; `MCX.tla` gives values to constants; `X_proofs.tla` has
the theorems.  Where one proof module is about two state machines (Teleoperation_proofs,
Poses_proofs, Devices_proofs, UrClients_proofs) the second one's are `SwitchInit`, `YoloNext`,
`GripperNext`, `StopperSpec` and so on.  PrimaryClient_proofs continues UrClients_proofs.  A definition marked as a mutant is a plausible bug in an operator defined after
it: with the mutant in that operator's place the run must fail, which shows that the property
depends on that code.  PROJECT.json pairs each property with its mutant and each definition with
its lines.

### SuctionGripper
One module for driver, serial line and board, since what matters is where a line is cut.  A
command line is three pieces (prefix, digit, newline).  `Write`, `SendPiece`, `SendFail` are
`write()` and `send_line()`; `OnConfigure` ... `OnDeactivate` the lifecycle callbacks; `Read`
is `read()` with `parse_rx()`; `FirmwareLine`, `FirmwareTimeout`, `BootDone` are `loop()` and
the boot loader; `Reset`, `Unplug`, `Plug`, `Restart` the world.  `disturbed` (history) says
that input was lost or cut since the last line was begun.

### PickPipeline, PickAndPlace
`Stages` is the list of `run_pipeline()` as data.  The thread is at (`stage`, `op`, `phase`):
`After` gives the operation that follows, `SendGoal` the goal of each, `Proceed`, `Refused`,
`Timeout` how its wait ends.  Goals are records per process (`goal[r]`) that the servers accept,
reject, finish or abort at any time, whoever waits for them.  `arm`, `aperture`, `where` are
the physical world: a grip at the bottom of a slot takes the part, an opening elsewhere loses
it.  `Interrupt` and `Restart` are Ctrl+C (or a crash) and the next start of the program.
`PickAndPlace` is the promise: parts are handled one after the other, in order; after a
completion nothing moves.  `Promise` is the refinement mapping (`where`, `missed` and `outcome`
as they are, `Parts` the items, `Rank` the stage each is picked in).

### ControllerManager, ControllerStopper
`ControllerManager` is external code as the callers rely on it: a STRICT request is carried out
as a whole or not at all (an already active controller cannot be activated, two controllers
cannot share the joints), a BEST_EFFORT one as far as possible.  `ControllerStopper` has the
constructor (`CtorStep`, `CtorListed`, `CtorDone`: it spins, so `RobotRunningCallback` may run
inside it), `RobotRunningCallback` with `FindAndStopControllers` and `StartControllers`, and
`ListCallback`.  Around it `Spawn`, `ProgramChange` and `AppSwitch`.  `hasty` (history) records
who acted before the stopper was done.

### ModeSwitch
`call_switch_controller()` step by step as teleop's menu calls it: `Checked`, `SendSwitch`,
`Replied`, `TimedOut`, `Rechecked`, `SetServoCommandType`.  A request that was given up stays at
the manager and is served later.  `OtherSwitch` is the stopper or the operator's shell
(`hint.md`).

### Teleop
Two threads: keys and `publish_stop()` on the main thread, `TimerChecks`, `TimerBuilds`,
`TimerPublishes` and the gripper's callbacks on the executor's.  `PublishStop` publishes one of
the `Stops` zero twists at a time.  `Interrupt`, `PublishFails`, `ContextDown` are Ctrl+C, which
rclpy answers by taking the context down while the code is still publishing its stop.

### PoseTable
The file as rows of (name, id), with or without a last newline.  `NextCounter`, `AppendRow`,
`Reload` are `save_pose_to_csv()`; between them the file may be edited (`AddRow`, `DeleteRow`).
`Choose` is the reload before a pose is moved to.

### YoloVote
`Bad`, `Empty`, `Reference`, `Compare` are what a frame can do to the vote; `Match`, `Mismatch`,
`Agree` are `_match_candidates_to_reference()`, one candidate a step, and the sums of
`_average_candidate_votes()`; `Select` and `Locate` choose the candidate and the grid pose.
Averages are kept as sums and compared without dividing.  `good` (history) says that one of the
frames compared shows the parts as they are.

### FeetechDriver
`servo` is what the servos keep (torque, EPROM lock, position, goal), `inbox` the input buffer.
`Configure` is one write of `configure_joints_()`, which may be lost or lose its acknowledgement;
`SyncRead` the one request all servos answer, whose late answers wait for the next read;
`OnActivate`, `Read`, `Write`, `OnDeactivate` the callbacks, `Die` and `Start` a killed process
and the next one.  A position is a tick; the conversion to metres and back may lose one.

### UrDriver and the modules it composes
- `CommandModes`: which modes may run together (`mode_compatibility_`), what
  `prepare_command_mode_switch()` accepts and `perform_...()` does to the flags.
- `ExternalControl`: the robot program and the three sockets.  `ReadCommand` is one turn of the
  control loop, `ExecutePoint`, `FinishTrajectory`, `PointTimeout` the trajectory thread,
  `RunScriptCommand` and `DetectContact` the script commands.  `clean` (history) says that
  nothing has been cancelled, deactivated, stopped or failed yet.
- `HardwareInterface`: the cells the controllers share with it, `PerformSwitch`, `Written` (what
  one `write()` sends), and the library's callbacks.  A callback that stores into two cells is
  two steps.
- `PassthroughController`, `ToolContactController`, `FreedriveController`,
  `ForceModeController`, `GPIOController`, `FrictionModelController`: goals and requests with
  their update(), (de)activation, waits and timeouts.
- `InstructionExecutor`: `executeMotion()` and `cancelMotion()` step by step with the worker's
  callbacks between, over ExternalControl; a motion is told to the robot as `MotionType`,
  the robot `Decoded`s it.
- `UrDriver`: the control cycle (`Read`, `Update` or `Switch`, `Write`), clients, async thread,
  workers, robot and pendant.  Where another thread may store between a load and its use,
  `seen` is what was loaded.

### RtdeWriter, RtdeClient
Setting up is a sequence of exchanges (`NegotiateProtocolVersion` ... `SetupInputs`), each of
which may be answered, refused or lost, run by init() or the reconnect thread; `Close`, `Quiet`,
`Joined` are `disconnect()`.  The background thread tries the mutex, reads, swaps, tells;
`getDataPackage()` waits; the writer swaps two packages and clears the masks of the one it has
sent.  A package is the number of its connection, a command its number.  `ResetOutputRecipe` runs
in init() and in reconnect(); the producer it makes has no callback until init() ends, and for
good in reconnect().  `Deaf` is a producer that runs without one: when the connection is lost, the
thread in it waits for ever (`hangs` of `setup` and of `bg`, here with the mutex).  It connects
the bare socket again, which is left out and not counted as a connection.

### UrClients and the modules it composes
- `ReaderWriterQueue`: each load and store another thread can see is a step; the semaphore is
  `LightweightSemaphore` with its count and its posts.  `prod.held` (history) is how many slots were
  taken when `try_enqueue()` began: an element that is being read still has its slot, so a full
  queue may refuse one although fewer elements are left to come out.
- `PrimaryClient`: producer, consumer and caller; `RobotStateHelper` on top of it, with topics
  that arrive by themselves.
- `DashboardClient`: the commands by policy; the G5 server answers in order and carries no
  number, X is one HTTP call.
- `TrajectoryUntil`: the node and the two action servers, whose responses and results come in
  any order.
- `ScriptReader`: a file is read line by line; `Rendered` is the reference: what a reader of the
  file would say is chosen, from the nesting of its lines.
- `TcpServer`: worker, owner and writing thread with descriptor numbers that are given again.

## 4. Runs

| run | what it asks | states |
|---|---|---|
| suction_gripper | LatestLineDelivered, ValveSettles: driver, line and board under every fault | 21 886 |
| pick_pipeline | ArmSafe, PartsSafe: two starts of a list with a body, a wire and a resistor, lagging TF | 3.6 M |
| pick_promise | ImplementsPromise: the shipped list implements PickAndPlace; RunEnds: every run ends | 1 220 |
| stopper | MirrorsProgram, StopperMirrors: mirror of the program, also for good; consistent controllers are never stopped | 127 230 |
| mode_switch | SwitchSafe: commands in the mode that was established, replies of the request | 5 221 |
| teleop | TeleopSafe, TeleopSettles: stops, grips, alternation, stillness | 14 667 |
| pose_table | TableSafe: loadable, whole, shipped ids kept | 49 441 |
| yolo_vote | AveragesNearReference, VoteTrusted: good frames suffice, order does not matter, ends | 208 336 |
| feetech | EpromGuarded, ComesUpConfigured, ReadIsCurrent, HoldsAtActivation | 1.1 M |
| driver | eight sessions; FlagsFollowControllers and PointsFit (mode switches and transfers), SuccessIsExecution (trajectory), ContactIsReal, FreedriveLeft, AckIsMine (GPIO and friction model), RequestsEnd (force mode, hand-back), MotionTruth and MotionReturns (executor) | 528 129 |
| rtde | OneReader, PackageOfThisConnection, CommandsInOrder, ThreadsGetOn (ReconnectEnds, LossIsNoticed and LastCommandArrives) | 442 619 |
| clients | seven sessions; QueueInOrder, ScriptTruth, SuccessIsReached (set_mode), OkIsTrue (dashboard), UntilTruth, RendersChosen (templates), OwnerKnowsClient and ServerAnswers (TCP), CallsEnd (all that wait) | 701 543 |

The properties of a name that joins several are named parts in its module (`ArmSafe` is
RestsBetweenGoals, GripsAtTheBottom and RememberedPositionTrue; `TeleopSafe` AtMostOneLateTwist,
ActsAtRest and ToggleAlternates; and so on).  Each module's state type is a conjunct of one of
its invariants (`DriverTypeOK` of PointsFit, `RtdeTypeOK` of OneReader).

Bounds, and why they suffice:

- `MaxLines`, `MaxReplies` = 2 (suction): an older line and the current one; a reply to each.  The
  board reads lines in order, so a third behaves like the second.  `MaxLines` blocks the sender
  (the code would fill the kernel's buffer), `MaxReplies` drops replies as a full buffer does.
- `MaxRuns` = 2: what a run can meet is what the last one left; a third run meets the same.
  The wire and the resistor share one pair of gripper positions, so `SkipGrip` is possible; the
  body puts a part down in the cell, the other two where they were.  pick_promise needs
  one run only: the promise is about a run.
- `MaxChanges` = 5, `MaxSwitches` = 2: stop, start, stop, start, stop, so each handler meets
  one older request of each kind.
- `MaxCommands` = 3, `MaxOthers` = 2: a request given up by one command, served in the next,
  and one command after it; two switches undo one another.
- `MaxKeys` = 4: enter, move, stop, and one more.  `Stops` = 2 of the code's 5: a stop, a stale
  twist, a stop.  `late` counts to 2, "more than one".
- `MaxRecords` = 3, `MaxEdits` = 2 over a table of three rows with ids 2, 6, 6: the recorder's
  ids 4, 5, 6 reach a shipped id, and two shipped rows share one as in the real file (87 rows, 79
  different ids, the largest 607).
- `VoteFrames` = 3 (the shipped value is 2): a reference, a frame between and a last one, so
  that drift could add up; two parts with two grasp points each; `MaxDist` = 2 pixels and jitter
  1 so that frames at the limit, beyond it and ambiguous ones exist; `Lag` = 1 because the
  subscription keeps one message, so one old frame can be waiting.
- Feetech: two servos, one with a command interface and one without (the driver takes both
  kinds), so answers can move by one; three ticks, so that a servo can be on each side of
  the midpoint and 0.0 is another place; `MaxStarts` = 2, since a start depends only on what
  the last one left in the servos.
- Driver: two goals of two points and one, so that leftovers of the first can be as long as the
  second (and longer); the lead times make one start early and one not.  `MaxRequests` = 2: an
  answer can be taken for the request before.  `MaxScales` = 3: the acknowledgement of a first
  request, a change during the second, and a third.  `Lag` = 1 command waiting on a socket: the
  writer waits, as the control cycle paces both ends; results coalesce when there are two.
  `MaxUpsets` = 1 cancel, stop or failure of a session; tool contact goals are
  without bound.  Three motions cover each kind of primitive, one of them invalid; `MaxMotions` =
  2, a motion and the one that meets what it left; a NOOP is written when the previous one was
  read.
- RTDE: two losses while an application reads (the second during the reconnection), one while it
  commands; `MaxRefusals` = 1 at any exchange; the recipe is reset at most once, as the stripped
  one holds what the robot has; `MaxInit` = 2 attempts, the last and one before;
  three commands for two outputs: two in the package being sent and one for the other.
- Clients: a queue of one block with a slot to spare, one of a block that is just large enough, and
  one of five blocks of two slots, eight elements so that indices and blocks wrap; `Lag` = 1 and `QueueSize` = 1 (the code: 32) so that the queue is full at once;
  `MaxEvents` = 2 breaks, calls or pendant actions; `MaxCalls` = 2 dashboard calls and `MaxTrouble`
  = 1, since a late answer is met by the next call; `MaxUntilGoals` = 2, leftovers of one goal
  met by the next; `MaxLines` = 5 lines of a script (two nested blocks, no two texts in a row);
  `MaxConnections` = 3 for one descriptor given twice while another is open.

Deadlock is not checked where the program ends (a finished pipeline, a vote, a session, or a
bound that is used up); suction_gripper, which never ends, has it checked.

### Fairness

- Pipeline, vote: only the program's own thread is fair, and only because each of its waits has
  a deadline (`spin_until_future_complete(..., timeout_sec)`, `wait_future`,
  `_get_next_bgr_frame`).  Servers, services and the camera are not fair.  `wait_for_server()`
  has no deadline: RunEnds starts when the servers are there.  The mode switch, the pose table and
  the Feetech driver have no fairness; only safety is checked of them.
- SuctionGripper: the control loop calls `write()` each cycle, the firmware loops.  ValveSettles
  assumes that input stops being lost, that is its premise.
- ControllerStopper: the node is spun, the controller manager answers, the spawner finishes.
- Teleop: both threads run.  The gripper answers and Servo stops when no twist has come for its
  `incoming_command_timeout` (0.1 s, `ur_servo.yaml:53`); both are external and needed:
  without the first `gripper_busy` stays set for ever, without the second the robot would go on
  after a Ctrl+C whose stop could not be published.
- Driver: the control cycle, the async thread, the callbacks' workers go on, the robot program's
  control loop and its other thread each go on (two conditions, since they are two threads of
  the script).  Strong fairness for `Read(TRUE)`: the robot keeps sending data, although a single
  read may find none.  The program's read times out when nothing is sent (RobotTimeout), and
  the poll of a force mode service goes on.  No user is fair: nobody has to cancel, send or
  switch.  One condition serves an actor of one session and one of another, of which only one is
  ever enabled; TLC's graph stays small that way.
- RTDE: the set-up thread goes on, a broken connection can be made again (Restore), the background
  and the writer threads go on.  Strong fairness for `ReconnectLocks`: the background thread takes
  and frees the mutex all the time, the reconnect thread gets it in the end, as with the
  system's mutexes.
- Clients: each thread goes on; the robot obeys what it has been told, tells its state, and
  scripts end; the server worker's `select()` returns at least each second; a shutdown that has
  begun goes on; a dashboard server that went down comes up; the controllers of the until node end
  their goals.  Strong fairness for `NotStarted`: a start timeout that keeps expiring while the
  script is not seen to start is noticed.

### Assumptions

- `tainted` (PickPipeline): a restart while a goal of the last run is in flight, or with a part
  in the gripper, is explored, but the properties except such runs: the code does nothing about
  them (it opens the gripper at the start), and no document says it should.
- `missed`: parts whose vote chose an empty pose, or whose start pose was read before TF had
  caught up: the arm then grasps beside the part.
- Stage lists: `GraspsWhole` (section 5).  Queue: `PowersOfTwo` states three facts of arithmetic about
  `2 ^ k` that no prover here knows (it is a number, at least 2 for `k > 0`, and `2 ^ x >= x`); TLC
  evaluates them for the shapes that are run.  Constants: an output the writer can set (`Fields # {}`),
  a controller that drives the joints in the spawn order (`JointAssumption`), goal 0 is no goal,
  the names of requests are none of the async thread's other work, `NoTarget` is no target, and the
  bounds of the clients are numbers (`DashboardAssumption`, `PrimaryAssumption`, `HelperAssumption`).
- `hasty` (ControllerStopper): MirrorsProgram is about programs, spawners and applications that
  leave the stopper time to finish; what happens otherwise is in section 6.
- YoloVote: what the network sees is one of the frames of MCYoloVote; pixels are
  points of a line; `Select` takes any candidate, since which is nearest to the tool depends on
  camera geometry.  ChosenHasPart is checked for votes in which one frame showed the parts.
- Feetech: `read()` and `write()` are called while the component is active, an error ends it;
  the port is empty when it is opened; no late answer outlives a restart.  ReadIsCurrent
  excepts components that have had a late answer (section 6 says what follows it), and
  HoldsAtActivation activations whose read failed.
- Driver: `clean`.  SuccessIsExecution, ContactIsReal, MotionTruth and the room in PointsFit are
  claimed of sessions in which nothing was cancelled, stopped, deactivated or failed before;
  section 6 says what happens in the others, which the run explores too (for the types, the
  flags, the acknowledgements and the liveness).  The robot's side of friction scales, and a
  vector that is written half, are left out.  MotionReturns excepts motions whose result came
  before the flag was set (`missed`), AckIsMine requests after a timeout, ScalesAreSent those
  made while one is under way.
- RTDE: `use` separates an application that reads from one that commands; pause() is not called.
  ReconnectEnds and LossIsNoticed except a producer without its callback (`Deaf`), section 6.
- State helper: one goal at a time, one event of the pendant for each, and the primary client's
  views are up to date when a goal begins.  SuccessIsReached is about those.
- Dashboard: one call at a time; the value of the receive timeout is left out; OkIsTrue excepts
  connections on which an answer has come too late.
- Primary client: `sound` says that no connection was lost and no package dropped during the call,
  and that no other script of its name was known when it began; CallsEnd excepts calls with a start
  timeout of 0, which may wait without end.
- Until node: `late` marks the orders of section 6, in which a response comes after the node has
  given up.

## 5. Proofs

All theorems are `Spec => []Inv`, `Spec => [][A]_vars` or, for the promise, `Spec => Abstract!Spec`,
for all values of the constants that the modules' named assumptions allow.  Each proof module states lemmas for the operators,
the invariant for `Init`, its preservation action by action, and a PTL step.

| module | theorems | inductive invariant and why it is needed |
|---|---|---|
| PickPipeline_proofs | IInv, ArmSafe with its three parts, PartsSafe (NothingLost and CompleteDelivers) | ArmSafe: a grip is at the bottom because the goal answered was the goal sent (`AnswerTrue`), which needs that no other goal moves the arm. PartsSafe: `PartsFollowed` says at each stage which part is between the fingers, and that the parts of earlier picks lie where they were put, those of later ones where they were |
| | KeepsThePromise: `Assembles /\ OneRun => (Spec => ImplementsPromise)` | The refinement of PickAndPlace, step by step: a vote that finds nothing is `Miss`, the grip at the slot `Pick`, the opening over the cell `PutDown`, the ends of the program `Complete` and `GiveUp`, all else stutters. It needs the parts in their order (PartsFollowed) and `MissedLeft`: a part not found stays where it is, because the arm that goes for it goes elsewhere |
| Teleoperation_proofs | ModeInv, SwitchSafe with its two parts | `EstablishedHolds`: what was seen is still so unless somebody else switched |
| | TeleopInv, TeleopSafe with its three parts | `ThreadFits`, `LateFits`, `StopFits`, `GripperFits`: where each thread can be for each value of the shared flags |
| Poses_proofs | LoadsUnlessDeleted, RunsUnlessDeleted, ShippedFirst, TableSafe | `RecordedBelow`: recorded names are below the number of rows, rows added by hand have names of their own; `ShippedFirst`: rows are only added behind |
| | VoteInv, AveragesNearReference | `MatchedNear` for the candidates matched so far; injectivity of the matching |
| | RefusesRightly | A matching that exists uses every candidate of the frame (InjectiveCovers: it is one-to-one between sets of the same size), so with the reference apart each candidate matched so far is the one it uses, and the next one is unused |
| | GoodFrameSuffices: `Spec => []PlacesAreThere`, AcceptedIsThere but for the rows; with them under `OneGraspMode` | `GoodInv`: the good frame is the one being matched or is in the sums (`Told`: the reference is at most `Jitter + MaxDist` off, the sums `Spread(votes)` distances more), and an accepted vote has no failed frame |
| FeetechDriver_proofs | IInv, EpromGuarded, ComesUpConfigured | `StepRelies`: the next write of on_init() relies on what the ones before have made of the servo, and only an acknowledged write is one; a crash leaves servos in any state, so nothing is assumed of the servos still to come |
| | HoldInv, ReadIsCurrent, HoldsAtActivation | `NothingUnread`: while no answer has come late, a read finds an empty buffer and takes its own answers; `SoundHolds`: after a sound activation the command is the position that was read |
| Devices_proofs | RtdeInv, OneReader, PackageOfThisConnection, CommandsInOrder | `MutexHeld`, `SetupInTurn`, `NobodyReads`: where each thread can be while another one has the mutex or sets up; `GivenInOrder`: for each output, what waits in one package was given after what is being sent in the other, and that after what the robot has applied |
| | IInv (suction gripper) with the types, LatestLineDelivered, StateIsLastSent | IInv: `SendingInStep` ties the board's unterminated line to the pieces handed over, `QuietInStep` says what is left when a line is out. Delivery alone says nothing about the middle of a line |
| UrClients_proofs | OwnerKnowsClient (TCP server) | `RoundInOrder`, `OneClient`: what a round of the worker still has to look at is held, and of the reverse interface at most one; `WritesAsMeant`: a descriptor names the client it was read for until that one is dropped. That a free descriptor is always found is a pigeonhole argument |
| | UntilTruth (trajectory until) | `InTime`: what the members of the node tell of the goal at work (`MembersTell`), what a goal's status tells of its two actions (`StatusTells`), and that no action is ahead of its turn (`ActsInTurn`). It is an invariant only while nothing is called back too late, as the property is |
| | StopperTypeOK, ConsistentStay, MirrorsProgram (controller stopper) | ConsistentStay: the switch requests under way never deactivate a consistent controller (in the types). MirrorsProgram: while nobody is hasty the stopper is either constructing or in one of the usual places (`Usual`), each of which names the one message on the way and what has been stopped |
| | QueueInOrder (queue) | `QueueInv`: what a thread remembers of the other's index is what that was earlier (`SlotsInv`: never more room, never more elements than there are); blocks in use follow each other and those in the middle are full (`BlocksInv`), which with the numbers taken and published says which element each slot holds (`ContentInv`); the count of the semaphore and its posts are what the threads owe each other (`SignalInv`), so a consumer that was let through finds an element |
| | DashboardTellsTruly (OkIsTrue, dashboard client) | `DashInv`: as long as no answer came too late there is at most one line on its way (`OneLine`), which answers what was asked last, and what is asked belongs to the command that runs (`AsksRightly`) |
| PrimaryClient_proofs | HelperReachesTarget (SuccessIsReached, state helper) | `StateInv`: the thread of the goal waits for the one call it began (`Calling`), whoever else uses the client; while nobody disturbs it, what the controller has been told and not done yet leads to the target mode only, so a mode that was the target's once stays so (`ModeKept`); and while the robot is in a protective stop every state on its way (robot, socket, queue, topic) says so, so that no older one can pass for the end of the stop (`SafetyKept`) |
| | ScriptReportsTruly (ScriptTruth, primary client) | `TruthInv`: the script of a call that is watched is still to come, running, or over (`Phase`); what a running one raised is somewhere between the robot and the stores (`Noted`), and of one that is over everything that counts is heard of before its end is (`Preceded`), so that the end cannot be seen with the stores still empty, nor, once it was seen, can the errors be passed over in the last round (`Passed`) |
| UrDriver_proofs | AckIsMine | `GpioHistory`: the only request the async thread may still begin to send is the one waited for, with its flag cleared; `FrictionHistory`: once update() has stored scales that were not asked for while others were outstanding, no older command is left to be sent; `PhaseInv`: a switch finds update() between cycles |
| | FlagsFollowControllers | `FlagsInv`: while a switch is asked for, what is prepared is what was asked, and it is compatible with what stays. Lemma `PerformedIs` shows that `perform_command_mode_switch()`, which clears flags of its own, then does just what was asked; that nothing else of write(), update() or the callbacks touches the flags takes a lemma for each of their steps |
| | ContactIsFelt (ContactIsReal) | `ContactInv`, beside FlagsInv: as long as nothing was cancelled, the tool contact commands on their way to the program end a detection before they start the next one (`OrderInv`), the robot looks for contact just when the interface expects it to, and an answer is on its way, or in the interface, only where contact was detected in this detection (`AnswerInv`); the program is connected as the interface believes (`LinkInv`). So a goal never finds an answer that belongs to an earlier one |
| | PointsHaveRoom (PointsFit) | `Setting`: the types, of which those of what is handed over are the hard ones: a state that says "new point", loaded or stored, goes with a point of a goal (`Members`), what was taken over are such points and has been sent as far as the flags say (`Sound`), and so the sockets carry points of goals (`Lines`). `Room`: whatever state of the transfer update() and write() have loaded, the controller's index, the number of points taken over and the length of the vector fit together for it (`FitsAt`), while only the worker of the trajectory server can have stored another one since (`HasRoom`) |
| | GoalsAreExecuted (SuccessIsExecution) | `GoalInv`, beside Setting, Room and FlagsInv. In a session with trajectories the other modes rest (`Alone`), and as long as nothing was cancelled a trajectory is at one of four stages (`Stage`): nothing of it is under way (`Quiet`); the start command waits to be read, behind nothing that drains the points again (`Starting`); the thread runs, and what it has executed followed by what is in the socket is what has been sent, in order (`Running`); or all was executed, and the one result is in the socket, between the two stores of the callback, or stored (`Finished`). What is taken over is the goal's point of that number (`Content`), and the driver has a client whenever it sends (`Linked`). So a state 5 that update() loads belongs to this goal, though a result carries no number |

Each invariant was model-checked over its run's instance before it was proved (QueueInv over seven
shapes and twelve elements).  PartsSafe is proved
under `GraspsWhole`, which says of the stage list that each pick comes once, right after the vote
for its part and before that part is put down, and that only picked parts are placed;
MCPickPipeline assumes it of the lists that are run, the shipped one among them
(for a list that releases a part nowhere PartsSafe is false).  `Assembles` adds that every part is put
down in the cell, which is what a list must do to keep the promise; the shipped list does, which
MCPickPipeline assumes too.  `OneRun` is one start of the program (after a second one the parts are
no longer where the promise begins) with a TF buffer that follows the arm (without it the arm may
grasp beside a part that was found, see `missed`).

Induction over a counter is done by taking a least counterexample (lemma `Least`, from the
well-foundedness of `<`), since the induction theorems of the library need an operator as
argument.

Only model-checked:

- everything about liveness and fairness (the runs' properties that say "in the end", and that
  part of VoteTrusted), which needs ENABLED;
- the rest of VoteTrusted: that the rows are right for resistors, and ChosenHasPart; both rest on
  where the grasp points and the grid poses are, which MCYoloVote says and YoloVote does not;
- RendersChosen: it compares what the reader builds line by line with a recursive reference, an
  induction over data;
- MotionTruth (driver), which follows the executor's motions over the sockets into what the robot
  has executed.

## 6. What was noticed

Behaviours of the code that the modelling came across.  The models have them (the properties name
what they except, see Assumptions) unless the entry says "by reading".

**Controller stopper**
- The stop clears `stopped_controllers_` (`controller_stopper.cpp:110, 147`); a restart before the
  list reply finds nothing to start (`:159`), and the late reply (`:139-144`) stops the
  controllers of a running program.  `ur_robot_driver/README.md:62-63`: "If status returns to
  `true` the stopped controllers are restarted."
- After a mode switch while the program is stopped (`pipeline_utils.py:385-412`) the STRICT
  restart of the remembered list (`:161`) fails as a whole and is only logged (`:155-157`): the
  gripper controller stays inactive.
- The constructor's poll (`:78`) can see a spawner half way: controllers activated after it stay
  active while the program is not running, against `ur_robot_driver/README.md:60-62`.

**Application**
- An aborted close is recorded as closed (`teleop.py:537`), so the next `g` ("toggle gripper
  open/close", `:385`) opens.
- A recorded row is appended before the table is reloaded and named after the number of rows
  (`teleop.py:284, 339`): after a row was deleted by hand, "pose not recorded" (`:348`) is said
  of a row that is in the file, and the next reload (`:649`) fails outside any try.
- A rerun of the pipeline opens the gripper wherever the last run was killed (`pipeline.py:159`).
- `set_servo_command_type()` can fail after the switch has been made (`pipeline_utils.py:415`):
  teleoperation is refused with the servo controller active.
- The pneumatic command is published and taken as done (`pipeline_motion.py:327`), by reading.
- By reading: the vote matches pixels, not `pose_prefix` (`pipeline_vision.py:288-300`): a lower
  grasp point near an upper one of the reference is averaged into that row.
- By reading: the ids the recorder gives can be those of shipped rows (the shipped one is found);
  `pixel_to_base_parallel_camera()` formats a height that may be None before it tests it
  (`pipeline_vision.py:181-189`); `select_yolo_grid_pose()` returns a pair in an unreachable branch
  (`:688`); `execute_screw_sequence()` passes `execute_move()` two parameters it does not have
  (`pipeline_motion.py:391-395, 424`).

**Driver: trajectories** (`hardware_interface.cpp`, `passthrough_trajectory_controller.cpp`)
- After a FAILURE the abort cell stays 1: the next goal is taken to its transfer state, every
  cycle sends CANCEL, the robot's CANCELED clears it, and the goal is reported successful without
  having been executed.  CANCEL is sent each cycle while the abort is pending, so that several
  CANCELED come back, the last ones to a later goal.
- A transfer that was cancelled leaves its vector: one of the same size is never acknowledged; a
  goal accepted at once after a cancel can run past the end of the old one.
- A trajectory of a single point whose time is within five cycles is never started.
- Deactivation between the two stores of a cancel dereferences a goal that has gone: the process
  crashes.  The two stores of the result callback race with the control cycle's: a result is lost,
  or a success is false.  Two results received in one read are ignored.

**Driver: the other controllers**
- Tool contact: while it waits to begin, each cycle calls `startToolContact()` and resets the
  result, so that a contact between update() and write() is lost and the goal hangs; after a
  success `endToolContact` is sent each cycle; a goal accepted before the end of the last contact
  was written is successful at once; on a CB3 robot a failed activation leaves the flag running.
- Freedrive: a keep-alive between START and `activated = true` makes the robot leave freedrive
  while NOOPs go on; `change_requested_ = false` in update() can erase the timeout's request; an
  enable can outlive a quick deactivation; `freedrive_activated_` is not initialised.
- GPIO: a service that waited too long converts ASYNC_WAITING (2.0) to true; `cmd = NaN` after a
  command was sent can erase the next one; `setAnalogOutput` stores the value before the domain.
- Force mode: the waits of the services have no end, so disabling an inactive controller hangs;
  pending parameters are sent after a deactivation; on_deactivate leaves its disable command.
- Friction model: the result is not reset by the service, so a request after a successful one is
  acknowledged before it is sent (`friction_model_controller.cpp:233`); `change_requested_ = false`
  (`:192`) can erase a newer request, also the one that is to restore the scales; ASYNC_WAITING
  stored after the scales can overwrite the acknowledgement.
- Hand-back: one that races the connect callback is lost; one before the program's first command
  leaves it waiting.  A program restarted quickly is refused by the server (one client).

**Instruction executor**
- The running flag is set after START and the points were written: a result or disconnection
  before it is ignored and `executeMotion()` never returns.  Two results received together are
  ignored.  A reset of `cancel_requested_` can erase a cancel.
- After a cancel `executeMotion()` returns before CANCEL is written, so that the next motion can
  mix with it; after a point timeout the leftovers shift the results of the motions that follow.
- `cancelMotion()` misses a notification between its write and its wait; its documentation says
  one second, the code 200 ms.  An invalid primitive is not written and nobody is told.

**RTDE**
- `getDataPackage()` returns true without data when it is woken with nothing new; a caller
  delayed over a whole reconnection may copy an empty buffer.
- A failed negotiation of the protocol sets UNINITIALIZED, so that disconnect() leaves the socket
  connected and the next attempt throws; an exception of start() at the end of reconnect() is not
  caught; a start lost there clears `reconnecting_` with nobody reading.
- A connection lost during init() after the producer was started: it reconnects the bare socket
  and waits for ever (`producer.h:80-97`).
- `resetOutputRecipe()` during a reconnection (`rtde_client.cpp:858, 409-416, 325-334`) makes a
  producer without a callback, which only init() sets (136).  Lost again in that set-up or in the
  start() after it, the connection leaves the reconnect thread in `tryGet()` for ever, with
  `reconnecting_` set; lost later, the background thread, with `reconnect_mutex_`, and nobody
  connects again.  `producer.h` says of the callback: "This is needed for RTDE as it requires
  setting up the communication again upon reconnection it is not enough to just reconnect to the
  stream."  ReconnectEnds without its exception is violated within the bounds of the run.
- Writer, by reading: a digital output of the same group overwrites the mask; a command stored
  before init() waits for the next; the result of the write is ignored; fields without a mask are
  resent from the other package.  Destructor and `reconnectCallback()` race.

**Clients**
- Queue, by reading: `Semaphore::timedWait` (`atomicops.h`) compares `tv_nsec > 1e9`; exactly 1e9
  is EINVAL, taken for a wake-up.
- Primary client: a script of the same name can be answered by the STOPPED of the one before; a
  STOPPED lost with the connection is waited for without end; the close by `reconnectStream()`
  ends the producer for good; a script stopped at the pendant counts as executed.
- State helper: a wait for a mode that does not come has no end (`robot_state_helper.cpp:350`,
  `error_` is never set); a second goal replaces the handle of the first while its thread runs
  (`:281`), by reading; success is told at once when the topic is stale.
- Dashboard: an answer after its deadline is read by the next command (G5); the question for remote
  control is always a success; the 10 s, 180 s and 600 s timeouts stay set after some failures; a
  greeting that times out leaves the socket connected, so that the node retries for ever; the X
  policy parses the body before it looks at the status.
- Until node: the second wait uses a condition nobody signals; a trajectory shorter than 1 s ends
  before its acceptance and the goal is rejected though executed; an acceptance after the reject
  leaves an action running unwatched; a stale result of the goal before resets the node, or
  throws.
- Script reader: conditions in a block that is not rendered are evaluated and may throw; an
  include in another directory changes `script_path_` (by reading).
- TCP server: a descriptor that is closed and given again between check and send reaches the
  new client (`tcp_server.cpp:438-441` says the send will just fail).

**Feetech**
- A late answer of one read moves every later one to other joints; on_activate() ignores the
  result of read() (`feetech_ros2_driver.cpp:310`), and the initial command is then 0.0 m; torque
  is not switched on again after a deactivation (`:308-327`); truncation in `from_radians` can
  lose a tick.  By reading: the velocity goes through `to_meters` and ignores its sign bit.

## 7. Not modelled

- Screw and pneumatic sequences, dataset photos: not in the shipped stage list, or without
  consequence for the arm; see the plan.
- Of the driver: joint values, state interfaces, tolerances and the interpolation of scaled
  time, the parameters of a force mode request, the start-up checks; of the robot program its
  arithmetic (servoing, splines).  Data that no property distinguishes.
- Of the library: parsers, packages and version handling (conversions), pause(), the blocking read
  and the destructor of the RTDE client, peek and allocation in the queue, raw dashboard requests,
  includes of scripts, errors of accept() and select().
- The scaled trajectory controller and the configuration controller: the first is the external
  motion of PickPipeline, the second publishes a version once.
- Calibration, MoveIt configuration, geometry, the network, debug images, logging; RTDE scripts,
  helpers, launch files and containers: linear, or without state.

## 8. Running

`tlc -workers 2 -config MCTeleop.cfg Teleop.tla`, and likewise for the other pairs in PROJECT.json
(`runs`); `tlapm Teleoperation_proofs.tla` for the proofs.  The longest runs, driver and clients, take
two to three minutes.
