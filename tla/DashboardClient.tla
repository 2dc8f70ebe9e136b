--------------------------- MODULE DashboardClient ---------------------------
(***************************************************************************)
(* The dashboard node: its services, called one at a time, send a text     *)
(* command to the dashboard server (policy G5) and ask for the robot's     *)
(* state until the command has shown its effect, or make one HTTP call of  *)
(* the Robot API (policy X).  Answers carry no number: the client takes    *)
(* the next line for the answer to what it has sent last.                  *)
(***************************************************************************)
EXTENDS Integers, Sequences

CONSTANTS
    Services,      \* the services that are called
    Policies,      \* the robots there are: "G5", "X"
    MaxCalls,      \* bound: calls
    MaxTrouble,    \* bound: answers that come late, connections lost, changes at the pendant
    MaxPolls,      \* waitForReply(): how often the state is asked for (every 100 ms)
    MaxTries       \* retryCommandString(): how often the request is sent

VARIABLES
    srv,     \* the robot and its server: state, what it is doing, the connection
    dash     \* the client, the call under way and how the last one ended

dvars == <<srv, dash>>

(***************************************************************************)
(* The commands, and those an interface does not have.  Where nothing is   *)
(* polled, the first answer is the result.                                 *)
(***************************************************************************)
ModeCommands == {"power_off", "power_on", "brake_release"}
SafetyCommands == {"restart_safety", "unlock_protective_stop"}
ProgramCommands == {"load", "play", "pause", "stop"}
Popups == {"close_popup", "close_safety_popup"}
Messages == {"popup", "addToLog"}
SessionCommands == {"shutdown", "quit"}
RoleCommands == {"set_operational_mode", "clear_operational_mode", "setUserRole"}
Reports == {"generate_flight_report", "generate_support_file", "saveLog"}
ProgramQueries == {"running", "isProgramSaved", "is_in_remote_control"}
ModelQueries == {"PolyscopeVersion", "get_robot_model", "get_serial_number"}
StateQueries == {"robotmode", "get_loaded_program", "safetymode", "safetystatus", "programState"}
Uploads == {"upload_program", "update_program", "download_program"}
Polled == ModeCommands \cup SafetyCommands \cup ProgramCommands
Plain == Popups \cup Messages \cup SessionCommands \cup RoleCommands \cup Reports
Queries == ProgramQueries \cup ModelQueries \cup StateQueries
InG5 == Polled \cup Plain \cup Queries
NotInOldX == {"is_in_remote_control", "robotmode", "get_loaded_program", "safetymode", "get_program_list"}
             \cup Uploads
InX == Polled \cup (NotInOldX \cup {"resume", "quit", "programState"})
DashboardCommands == InG5 \cup InX \cup {"connect"}
Asks == DashboardCommands \cup {"", "greeting"}

ASSUME DashboardAssumption ==
    /\ Services \subseteq DashboardCommands
    /\ {MaxCalls, MaxTrouble} \subseteq Nat /\ {MaxPolls, MaxTries} \subseteq Nat \ {0}

RobotViews == [mode : {"POWER_OFF", "IDLE", "RUNNING"}, prog : {"STOPPED", "PLAYING", "PAUSED"},
               loaded : {"another", "asked_for"}]
View(s) == [mode |-> s.mode, prog |-> s.prog, loaded |-> s.loaded]
Ask(cmd) == IF cmd \in ProgramCommands THEN "programState" ELSE "robotmode"
WantedMode(cmd, v) ==
    CASE cmd \in {"power_off", "restart_safety"} -> v.mode = "POWER_OFF"
      [] cmd = "power_on" -> v.mode \in {"IDLE", "RUNNING"}
      [] cmd \in {"brake_release", "unlock_protective_stop"} -> v.mode = "RUNNING"
      [] OTHER -> TRUE
WantedProgram(cmd, v) ==
    CASE cmd = "load" -> v.prog = "STOPPED" /\ v.loaded = "asked_for"
      [] cmd = "play" -> v.prog = "PLAYING"
      [] cmd = "pause" -> v.prog = "PAUSED"
      [] cmd = "stop" -> v.prog = "STOPPED"
      [] OTHER -> TRUE
Wanted(cmd, v) == WantedMode(cmd, v) /\ WantedProgram(cmd, v)

(***************************************************************************)
(* The robot: it answers in order and does what it was told to afterwards, *)
(* or not at all.                                                          *)
(***************************************************************************)
Said(req, accepted) == [ask |-> req.ask, call |-> req.call, accepted |-> accepted, view |-> View(srv)]
Doing(cmd, accepted) == IF accepted /\ cmd \notin Queries THEN cmd ELSE srv.doing
AnswerRequest ==
    /\ srv.live /\ srv.inbox # <<>>
    /\ \E accepted \in IF Head(srv.inbox).ask \in Polled \cup Plain THEN BOOLEAN ELSE {TRUE} :
          LET a == Said(Head(srv.inbox), accepted)
          IN  srv' = [srv EXCEPT !.inbox = Tail(@), !.out = Append(@, a), !.said = a,
                                 !.doing = Doing(a.ask, accepted)]
    /\ UNCHANGED dash
Effect(s, cmd) ==
    CASE cmd \in {"power_off", "restart_safety"} -> [s EXCEPT !.mode = "POWER_OFF", !.prog = "STOPPED"]
      [] cmd = "power_on" /\ s.mode = "POWER_OFF" -> [s EXCEPT !.mode = "IDLE"]
      [] cmd = "brake_release" -> [s EXCEPT !.mode = "RUNNING"]
      [] cmd = "load" -> [s EXCEPT !.prog = "STOPPED", !.loaded = "asked_for"]
      [] cmd \in {"play", "resume"} /\ s.mode = "RUNNING" -> [s EXCEPT !.prog = "PLAYING"]
      [] cmd = "pause" /\ s.prog = "PLAYING" -> [s EXCEPT !.prog = "PAUSED"]
      [] cmd = "stop" -> [s EXCEPT !.prog = "STOPPED"]
      [] cmd = "shutdown" -> [s EXCEPT !.live = FALSE, !.up = FALSE, !.inbox = <<>>, !.out = <<>>]
      [] OTHER -> s
RobotActs ==
    /\ srv.doing # "" /\ UNCHANGED dash
    /\ \E done \in BOOLEAN :
          srv' = [(IF done THEN Effect(srv, srv.doing) ELSE srv) EXCEPT !.doing = ""]
ServerStarts == /\ ~srv.up /\ UNCHANGED dash
                /\ srv' = [srv EXCEPT !.up = TRUE, !.mode = "POWER_OFF", !.prog = "STOPPED"]
Trouble == /\ dash.trouble < MaxTrouble
           /\ dash' = [dash EXCEPT !.trouble = @ + 1]
           /\ \/ srv.live /\ srv' = [srv EXCEPT !.live = FALSE, !.inbox = <<>>, !.out = <<>>]
              \/ srv.mode # "POWER_OFF" /\ srv' = Effect(srv, "power_off")
              \/ srv.prog = "PLAYING" /\ srv' = Effect(srv, "stop")

(***************************************************************************)
(* How a call ends.  An exception is told as no success, except while the  *)
(* node starts: there it ends the process, and no success is tried again.  *)
(* The question for remote control is a success whatever the answer.       *)
(***************************************************************************)
Ended(d, ok) == [d EXCEPT !.pc = IF d.started \/ ok THEN "idle" ELSE "connect",
                          !.ok = ok \/ d.cmd = "is_in_remote_control", !.started = @ \/ ok]
Thrown(d) == [d EXCEPT !.pc = IF d.started THEN "idle" ELSE "dead", !.ok = FALSE]
Answered(d, a) == [Ended(d, TRUE) EXCEPT !.data = a.view]

(* A robot of policy G5 has to be known before a command can be looked up, *)
(* and policy X has some commands since a version of its interface.        *)
HasCommand(d, cmd) ==
    \/ d.policy = "G5" /\ d.version # "none" /\ cmd \in InG5
    \/ d.policy = "X" /\ cmd \in InX /\ ~(cmd \in NotInOldX /\ d.version = "old")
CallService(cmd) ==
    /\ dash.pc = "idle" /\ dash.calls < MaxCalls
    /\ LET d == [dash EXCEPT !.calls = @ + 1, !.cmd = cmd, !.ask = cmd, !.polls = 0, !.tries = 0]
       IN  dash' = CASE cmd = "connect" -> [d EXCEPT !.pc = "connect"]
                     [] cmd = "quit" /\ d.policy = "X" -> Ended(d, TRUE)
                     [] OTHER -> IF ~HasCommand(d, cmd) THEN Thrown(d)
                                 ELSE [d EXCEPT !.pc = IF d.policy = "G5" THEN "send" ELSE "http"]
    /\ UNCHANGED srv

(***************************************************************************)
(* connect(): the greeting is read before the version is asked for.  When  *)
(* it does not come, the connection that stands is not set up once more.   *)
(***************************************************************************)
Connect ==
    /\ dash.pc = "connect" /\ dash.policy = "G5"
    /\ \/ dash.conn = "connected" /\ dash' = Ended(dash, FALSE) /\ UNCHANGED srv
       \/ /\ dash.conn # "connected" /\ srv.up
          /\ dash' = [dash EXCEPT !.conn = "connected", !.sound = TRUE, !.pc = "greeting",
                                  !.cmd = "connect", !.ask = "PolyscopeVersion"]
          /\ srv' = [srv EXCEPT !.live = TRUE, !.inbox = <<>>,
                                !.out = <<Said([ask |-> "greeting", call |-> 0], TRUE)>>]
ReadGreeting ==
    /\ dash.pc = "greeting"
    /\ \/ srv.out # <<>> /\ srv' = [srv EXCEPT !.out = Tail(@)] /\ dash' = [dash EXCEPT !.pc = "send"]
       \/ /\ srv.live /\ dash.trouble < MaxTrouble /\ UNCHANGED srv
          /\ dash' = [dash EXCEPT !.trouble = @ + 1, !.sound = FALSE, !.pc = "connect"]
       \/ ~srv.live /\ dash' = [dash EXCEPT !.conn = "disconnected", !.pc = "connect"] /\ UNCHANGED srv

(***************************************************************************)
(* sendAndReceive()                                                        *)
(***************************************************************************)
SendRequest ==
    /\ dash.pc = "send"
    /\ \/ /\ dash.conn = "connected" /\ dash' = [dash EXCEPT !.pc = "read"]
          /\ srv' = IF srv.live THEN [srv EXCEPT !.inbox = Append(@, [ask |-> dash.ask, call |-> dash.calls])]
                    ELSE srv
       \/ /\ dash.conn # "connected" \/ ~srv.live
          /\ dash' = Thrown(dash) /\ UNCHANGED srv
ReceiveTimesOut ==
    /\ dash.pc = "read" /\ UNCHANGED srv
    /\ \/ /\ srv.live /\ dash.trouble < MaxTrouble
          /\ dash' = [Thrown(dash) EXCEPT !.sound = FALSE, !.trouble = @ + 1]
       \/ ~srv.live /\ dash' = [Thrown(dash) EXCEPT !.conn = "disconnected"]

(* What is made of an answer: of the request, and of a question for the    *)
(* state.  The mutant takes the last question for success.                 *)
RequestAnswered(d, a) ==
    CASE a.ask # d.ask \/ ~a.accepted -> Ended(d, FALSE)
      [] a.ask = d.ask /\ a.accepted /\ d.cmd = "connect" -> [Ended(d, TRUE) EXCEPT !.version = "known"]
      [] a.ask = d.ask /\ a.accepted /\ d.cmd \in Polled -> [d EXCEPT !.pc = "send", !.ask = Ask(d.cmd)]
      [] OTHER -> Answered(d, a)
OutOfTimeIsDone(d) == Ended(d, TRUE)
OutOfTime(d) == CASE d.cmd = "stop" -> Ended(d, TRUE)
             [] d.cmd = "power_on" /\ d.tries + 1 < MaxTries ->
                    [d EXCEPT !.pc = "send", !.ask = d.cmd, !.polls = 0, !.tries = @ + 1]
             [] OTHER -> Ended(d, FALSE)
PollAnswered(d, a) ==
    IF a.ask = d.ask /\ Wanted(d.cmd, a.view) THEN Answered(d, a)
    ELSE IF d.polls + 1 < MaxPolls THEN [d EXCEPT !.pc = "send", !.polls = @ + 1]
    ELSE OutOfTime(d)
ReadAnswer ==
    /\ dash.pc = "read" /\ srv.out # <<>>
    /\ LET a == Head(srv.out)
           asked == dash.ask = dash.cmd \/ dash.cmd = "connect"
           d == IF asked THEN RequestAnswered(dash, a) ELSE PollAnswered(dash, a)
           quits == dash.cmd = "quit" /\ d.ok /\ d.pc = "idle"
       IN  /\ dash' = IF quits THEN [d EXCEPT !.conn = "closed"] ELSE d
           /\ srv' = IF quits THEN [srv EXCEPT !.live = FALSE, !.inbox = <<>>, !.out = <<>>]
                     ELSE [srv EXCEPT !.out = Tail(@)]

(***************************************************************************)
(* Policy X: one HTTP call, unless a file that is to be sent cannot be     *)
(* read.  The body of an answer is parsed before its status is looked at   *)
(* where there is data in it: one that is not JSON ends the process.       *)
(***************************************************************************)
Http ==
    /\ dash.policy = "X" /\ dash.pc \in {"connect", "http"}
    /\ \/ ~srv.up /\ dash' = (IF dash.pc = "connect" THEN Ended(dash, FALSE) ELSE Thrown(dash)) /\ UNCHANGED srv
       \/ dash.cmd \in Uploads /\ dash' = Ended(dash, FALSE) /\ UNCHANGED srv
       \/ /\ srv.up
          /\ \E ok \in BOOLEAN :
             LET a == Said([ask |-> dash.cmd, call |-> dash.calls], ok)
             IN  /\ srv' = [srv EXCEPT !.said = a, !.doing = Doing(a.ask, ok /\ dash.cmd # "connect")]
                 /\ \/ /\ dash.pc = "connect"
                       /\ \E api \in {"old", "new"} :
                             dash' = IF ok THEN [Ended(dash, TRUE) EXCEPT !.version = api]
                                     ELSE Ended(dash, FALSE)
                    \/ dash.pc = "http" /\ dash' = IF ok THEN Answered(dash, a) ELSE Ended(dash, FALSE)
                    \/ dash.cmd \in Queries \cup Uploads /\ ~ok /\ dash' = [dash EXCEPT !.pc = "dead"]

DashboardState ==
    [policy : Policies, version : {"none", "known", "old", "new"}, started : BOOLEAN, sound : BOOLEAN,
     conn : {"invalid", "connected", "disconnected", "closed"}, cmd : DashboardCommands,
     ask : Asks, ok : BOOLEAN, data : RobotViews,
     pc : {"idle", "connect", "greeting", "send", "read", "http", "dead"},
     polls : 0..(MaxPolls - 1), tries : 0..(MaxTries - 1), calls : 0..MaxCalls, trouble : 0..MaxTrouble]

DashboardInit ==
    /\ \E mode \in {"POWER_OFF", "RUNNING"}, up \in BOOLEAN :
          srv = [up |-> up, live |-> FALSE, mode |-> mode, prog |-> "STOPPED", loaded |-> "another",
                 doing |-> "", inbox |-> <<>>, out |-> <<>>, said |-> [call |-> 0]]
    /\ \E policy \in Policies :
          dash = [policy |-> policy, version |-> "none", conn |-> "invalid", pc |-> "connect",
                  cmd |-> "connect", ask |-> "", polls |-> 0, tries |-> 0, ok |-> FALSE, data |-> View(srv),
                  started |-> FALSE, sound |-> TRUE, calls |-> 0, trouble |-> 0]

ClientStep == Connect \/ ReadGreeting \/ SendRequest \/ ReceiveTimesOut \/ ReadAnswer \/ Http
DashboardNext == \/ AnswerRequest \/ RobotActs \/ ServerStarts \/ Trouble
                 \/ ClientStep \/ \E cmd \in Services : CallService(cmd)

-----------------------------------------------------------------------------
(* As long as no answer of this connection has come too late, a service    *)
(* tells success only when the server has accepted this very call, and     *)
(* with policy G5 only when the last answer to it has shown the wanted     *)
(* state (stop excepted, which is a success either way); the data is that  *)
(* of the last answer.  The question for remote control is excepted.       *)
OkStep ==
    /\ dash' \in DashboardState
    /\ (/\ dash.pc \notin {"idle", "connect", "greeting"} /\ dash'.pc = "idle" /\ dash'.ok
        /\ dash.sound /\ dash.cmd \notin {"connect", "is_in_remote_control"})
       => /\ srv.said'.call = dash.calls /\ srv.said'.accepted
          /\ (dash.policy = "G5" /\ dash.cmd # "stop")
                => dash'.data = srv.said.view /\ Wanted(dash.cmd, srv.said.view)
OkIsTrue == [][OkStep]_dvars

(* Once the node has started every service call ends.                      *)
DashboardCallEnded == dash.pc \in {"idle", "dead"} \/ ~dash.started
=============================================================================
