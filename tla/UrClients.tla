----------------------------- MODULE UrClients -----------------------------
(***************************************************************************)
(* The clients of the robot outside the control cycle: the queue of a      *)
(* pipeline, the primary client with a caller of scripts, the robot state  *)
(* helper with a primary client of its own, the dashboard node, the        *)
(* trajectory_until node, the reader of script files and a TCP server.     *)
(* They are processes or threads of their own; a session is one of them    *)
(* with the robot.                                                         *)
(***************************************************************************)
EXTENDS ReaderWriterQueue, RobotStateHelper, DashboardClient, TrajectoryUntil, ScriptReader, TcpServer

CONSTANT Sessions    \* the sessions that are explored

VARIABLE session

vars == <<session, qvars, pvars, rsh, dvars, uvars, svars, tvars>>

Init == /\ session \in Sessions
        /\ QueueInit /\ RshInit /\ DashboardInit /\ UntilInit /\ ReaderInit /\ ServerInit
        /\ PrimaryInit(IF session = "state" THEN {"state"} ELSE AllPackages,
                       IF session = "state" THEN {"NORMAL", "PROTECTIVE_STOP", "FAULT"} ELSE {"NORMAL"},
                       IF session = "script" THEN BOOLEAN ELSE {TRUE})
        /\ session # "queue" => shape = CHOOSE s \in Shapes : TRUE
        /\ session \notin {"script", "state"} => ctl.mode = "RUNNING"
        /\ session # "server" => server.max = 1
        /\ session # "dashboard" => dash.policy = "G5" /\ srv.up /\ srv.mode = "RUNNING"

Queue(A) == session = "queue" /\ A /\ UNCHANGED <<session, pvars, rsh, dvars, uvars, svars, tvars>>
Dashboard(A) == session = "dashboard" /\ A /\ UNCHANGED <<session, qvars, pvars, rsh, uvars, svars, tvars>>
Until(A) == session = "until" /\ A /\ UNCHANGED <<session, qvars, pvars, rsh, dvars, svars, tvars>>
Reader(A) == session = "template" /\ A /\ UNCHANGED <<session, qvars, pvars, rsh, dvars, uvars, tvars>>
Server(A) == session = "server" /\ A /\ UNCHANGED <<session, qvars, pvars, rsh, dvars, uvars, svars>>
Helper(A) == session = "state" /\ A /\ UNCHANGED <<session, qvars, dvars, uvars, svars, tvars>>
(* One thing happens to the robot or the connection while a goal is there. *)
Client(A) == /\ session \in {"script", "state"} /\ A /\ Upsetting
             /\ UNCHANGED <<session, qvars, dvars, uvars, svars, tvars>>
             /\ session = "state" => breaks' <= 1
Scripted == session = "script" /\ CallScript /\ UNCHANGED <<session, qvars, rsh, dvars, uvars, svars, tvars>>

Next == \/ Queue(QueueNext) \/ Dashboard(DashboardNext) \/ Until(UntilNext)
        \/ Reader(ReaderNext) \/ Server(ServerNext)
        \/ Helper(HelperNext) \/ Client(PrimaryNext) \/ Scripted

(* Every thread goes on, the robot obeys and tells its state, scripts and  *)
(* goals end, and a robot that is down comes up again.  Actions of         *)
(* different sessions share a condition: only one of them can be enabled.  *)
Fairness ==
    /\ WF_vars(\/ Queue(Producing) \/ Client(Controller(Obey)) \/ Dashboard(AnswerRequest)
               \/ Until(Alive(ServerThread)) \/ Server(Worker))
    /\ WF_vars(\/ Queue(Consuming) \/ Client(Controller(ScriptEnds)) \/ Dashboard(ServerStarts)
               \/ Until(Alive(ClientsThread)) \/ Server(ShutdownGoesOn))
    /\ WF_vars(Client(Controller(TellState)) \/ Dashboard(ClientStep) \/ Until(ActionServers))
    /\ WF_vars(Client(Produce)) /\ WF_vars(Client(Reconnect)) /\ WF_vars(Client(Consume))
    /\ WF_vars(Client(Call)) /\ SF_vars(Client(NotStarted))
    /\ WF_vars(Helper(Topics)) /\ WF_vars(Helper(HelperThread))

Spec == Init /\ [][Next]_vars /\ Fairness

-----------------------------------------------------------------------------
(* Every call of a client ends: sendScriptBlocking() and the commands of   *)
(* the primary client, a set_mode goal, a dashboard service, a goal the    *)
(* trajectory_until node has accepted, and the wait for an element of a    *)
(* pipeline's queue.                                                       *)
CallsEnd == []<>(/\ CallReturned /\ GoalAnswered /\ DashboardCallEnded
                 /\ UntilAnswered /\ QueueEmptied)
=============================================================================
