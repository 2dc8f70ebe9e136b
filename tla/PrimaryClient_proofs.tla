------------------------- MODULE PrimaryClient_proofs -------------------------
(***************************************************************************)
(* The programs that use the primary client.  For every set of targets and *)
(* scripts, whoever else uses the client: a goal of set_mode that nobody   *)
(* upset succeeds only when the robot is in its target mode and free of    *)
(* stops, and a script of which no package was lost is done only when it   *)
(* ended and raised nothing.                                               *)
(***************************************************************************)
EXTENDS UrClients_proofs

-----------------------------------------------------------------------------
(* The primary client: what it is made of.                                 *)
RobotModes == {"POWER_OFF", "IDLE", "RUNNING"}
Safeties == {"NORMAL", "PROTECTIVE_STOP", "FAULT"}
ScriptNames == {NoScript.name, Program.name} \cup {s.name : s \in Scripts}
Severities == {"warning", "fault", "exception"}
RobotScripts == [name : ScriptNames, call : Nat, raised : SUBSET Severities]
StateViews == [mode : RobotModes \cup {"UNKNOWN"}, running : BOOLEAN, prot : BOOLEAN]
CommandNames == {NoCall.msg, "script", "secondary", "stop_program", "power_on", "power_off", "set_robotmode_run",
             "set_unlock_protective_stop"}
Orders == [what : CommandNames, name : ScriptNames, call : Nat]
KeyTitles == {"STARTED", "STOPPED"}
KeyNames == [title : KeyTitles, name : ScriptNames]
Levels == {"read_only", "warning", "fault"}
Packages ==
    [k : {"key"}, title : KeyTitles, name : ScriptNames] \cup [k : {"error"}, level : Levels]
    \cup [k : {"exception"}] \cup [k : {"safety"}, safety : Safeties] \cup [k : {"state"}, view : StateViews]
Inboxes == Seq(Orders)
Streams == Seq(Packages)
Kinds == SUBSET AllPackages
CtlType == [mode : RobotModes, safety : Safeties, remote : BOOLEAN, script : RobotScripts, last : RobotScripts,
            inbox : Inboxes, out : Streams, told : StateViews, heard : Kinds]
ConnType == [live : BOOLEAN, state : {"connected", "disconnected", "closed"},
             reader : {"reading", "sleeping", "ended"}, queue : Streams, run : BOOLEAN]
StoredSafeties == Safeties \cup {"UNDEFINED"}
KeyStore == SUBSET KeyNames
ErrorStore == SUBSET Levels
StoresType == [exc : BOOLEAN, err : ErrorStore, keys : KeyStore, view : StateViews, safety : StoredSafeties]
CallPlaces == {"idle", "send", "resend", "reconnect", "mode", "clear_exc", "clear_err", "clear_keys",
               "exc", "err", "keys", "end", "wait"}
Results == {NoCall.result, "done", "not_sent", "refused", "failed", "throws", "not_started"}
CallerType == [pc : CallPlaces, what : {NoCall.what, "script", "secondary", "command"}, msg : CommandNames,
               name : ScriptNames, call : Nat, patient : BOOLEAN, strict : BOOLEAN, started : BOOLEAN,
               stopped : 0..2, result : Results, sound : BOOLEAN]
PrimaryTypeOK == /\ ctl \in CtlType /\ conn \in ConnType /\ stores \in StoresType /\ caller \in CallerType
                 /\ breaks \in Nat

\* What the controller keeps when it says or obeys something ...
SameRobot(c, e) == e.mode = c.mode /\ e.safety = c.safety /\ e.inbox = c.inbox
\* ... and no state is told that was not on its way.
NoNewState(c, e) == \A i \in DOMAIN e.out : e.out[i].k = "state" => \E j \in DOMAIN c.out : e.out[i] = c.out[j]

LEMMA PackagesAre ==
  /\ \A s \in RobotScripts, title \in KeyTitles : Key(title, s) \in Packages /\ Key(title, s).k = "key"
  /\ \A level \in Levels : Error(level) \in Packages /\ Error(level).k = "error"
  /\ [k |-> "exception"] \in Packages
  /\ \A s \in Safeties : [k |-> "safety", safety |-> s] \in Packages
  /\ \A v \in StateViews : [k |-> "state", view |-> v] \in Packages
<1>1. \A s \in RobotScripts, title \in KeyTitles : Key(title, s) \in Packages /\ Key(title, s).k = "key"
  BY ZenonT(30) DEF Key, Packages, RobotScripts
<1>2. \A level \in Levels : Error(level) \in Packages /\ Error(level).k = "error"
  BY Zenon DEF Error, Packages
<1>3. [k |-> "exception"] \in Packages
  BY Zenon DEF Packages
<1>4. \A s \in Safeties : [k |-> "safety", safety |-> s] \in Packages
  BY Zenon DEF Packages
<1>5. \A v \in StateViews : [k |-> "state", view |-> v] \in Packages
  BY Zenon DEF Packages
<1> QED
  BY <1>1, <1>2, <1>3, <1>4, <1>5

LEMMA ScriptsAre ==
  /\ NoScript \in RobotScripts /\ Program \in RobotScripts
  /\ Nothing \in StateViews
  /\ \A c \in CtlType : State(c) \in StateViews /\ (State(c).prot <=> c.safety = "PROTECTIVE_STOP")
<1>1. NoScript \in RobotScripts /\ Program \in RobotScripts
  <2>1. NoScript.name \in ScriptNames /\ Program.name \in ScriptNames
    BY Zenon DEF ScriptNames
  <2>2. 0 \in Nat /\ {} \in SUBSET Severities
    OBVIOUS
  <2>3. NoScript = [name |-> NoScript.name, call |-> 0, raised |-> {}]
        /\ Program = [name |-> Program.name, call |-> 0, raised |-> {}]
    BY Zenon DEF NoScript, Program
  <2>4. \A name \in ScriptNames : [name |-> name, call |-> 0, raised |-> {}] \in RobotScripts
    BY <2>2, Zenon DEF RobotScripts
  <2> QED
    BY <2>1, <2>3, <2>4, Zenon
<1>2. Nothing \in StateViews
  BY Zenon DEF Nothing, StateViews
<1>3. ASSUME NEW c \in CtlType
      PROVE  State(c) \in StateViews /\ (State(c).prot <=> c.safety = "PROTECTIVE_STOP")
  <2>1. PICK running \in BOOLEAN : running = (c.script # NoScript)
    BY Zenon
  <2>2. PICK prot \in BOOLEAN : prot = (c.safety = "PROTECTIVE_STOP")
    BY Zenon
  <2>3. State(c) = [mode |-> c.mode, running |-> running, prot |-> prot]
    BY <2>1, <2>2, Zenon DEF State
  <2>4. c.mode \in RobotModes
    BY Zenon DEF CtlType
  <2>5. prot <=> c.safety = "PROTECTIVE_STOP"
    BY <2>2
  <2> HIDE <2>1, <2>2
  <2>6. State(c) \in StateViews /\ (State(c).prot <=> prot)
    BY <2>3, <2>4 DEF StateViews
  <2> QED
    BY <2>5, <2>6, Zenon
<1> QED
  BY <1>1, <1>2, <1>3

LEMMA SayIs ==
  ASSUME NEW c \in CtlType, NEW msg \in Packages, NEW e, e = Say(c, msg)
  PROVE  /\ e \in CtlType /\ SameRobot(c, e) /\ e.script = c.script
         /\ msg.k # "state" => NoNewState(c, e)
         /\ e.out = c.out \/ e.out = Append(c.out, msg)
<1>1. CASE e = c
  BY <1>1 DEF SameRobot, NoNewState
<1>2. CASE e = [c EXCEPT !.out = Append(@, msg)]
  <2>1. c.out \in Streams
    BY Zenon DEF CtlType
  <2>2. PICK out : out = Append(c.out, msg)
    OBVIOUS
  <2>3. \A i \in DOMAIN out : out[i] # msg => i \in DOMAIN c.out /\ out[i] = c.out[i]
    BY <2>1, <2>2 DEF Streams
  <2>4. e = [c EXCEPT !.out = out] /\ out \in Streams
    <3>1. out \in Seq(Packages)
      BY <2>1, <2>2, AppendProperties DEF Streams
    <3> QED
      BY <1>2, <2>2, <3>1, Zenon DEF Streams
  <2>5. e \in CtlType /\ SameRobot(c, e) /\ e.script = c.script /\ e.out = out
    BY <2>4, ZenonT(30) DEF CtlType, SameRobot
  <2> QED
    BY <2>2, <2>3, <2>5, Zenon DEF NoNewState
<1> QED
  BY <1>1, <1>2, Zenon DEF Say

LEMMA OverIs ==
  ASSUME NEW c \in CtlType, NEW e, e = Over(c)
  PROVE  e \in CtlType /\ SameRobot(c, e) /\ NoNewState(c, e)
<1>1. CASE c.script = NoScript
  BY <1>1, Zenon DEF Over, SameRobot, NoNewState
<1>2. CASE c.script # NoScript
  <2>1. PICK d : d = [c EXCEPT !.script = NoScript, !.last = c.script]
    OBVIOUS
  <2>2. PICK msg : msg = Key("STOPPED", c.script)
    OBVIOUS
  <2>3. e = Say(d, msg)
    BY <1>2, <2>1, <2>2, Zenon DEF Over
  <2>4. c.script \in RobotScripts
    BY Zenon DEF CtlType
  <2>5. msg \in Packages /\ msg.k = "key"
    BY <2>2, <2>4, PackagesAre, Zenon DEF KeyTitles
  <2>6. d \in CtlType /\ SameRobot(c, d) /\ d.out = c.out
    BY <2>1, <2>4, ScriptsAre, ZenonT(30) DEF CtlType, SameRobot
  <2> HIDE <2>1, <2>2
  <2>7. e \in CtlType /\ SameRobot(d, e) /\ NoNewState(d, e)
    BY <2>3, <2>5, <2>6, SayIs
  <2>8. SameRobot(c, e)
    BY <2>6, <2>7 DEF SameRobot
  <2>9. NoNewState(c, e)
    <3>1. d.out = c.out /\ NoNewState(d, e)
      BY <2>6, <2>7
    <3> QED
      BY <3>1 DEF NoNewState
  <2> QED
    BY <2>7, <2>8, <2>9
<1> QED
  BY <1>1, <1>2

LEMMA SafetyIs ==
  ASSUME NEW c \in CtlType, NEW s \in Safeties, NEW e, e = Safety(c, s)
  PROVE  /\ e \in CtlType /\ NoNewState(c, e)
         /\ e.mode = c.mode /\ e.safety = s /\ e.inbox = c.inbox
<1>1. PICK d : d = [c EXCEPT !.safety = s]
  OBVIOUS
<1>2. PICK msg : msg = [k |-> "safety", safety |-> s]
  OBVIOUS
<1>3. e = Say(d, msg)
  BY <1>1, <1>2, Zenon DEF Safety
<1>4. msg \in Packages /\ msg.k = "safety"
  BY <1>2, PackagesAre, Zenon
<1>5. d \in CtlType /\ d.mode = c.mode /\ d.safety = s /\ d.inbox = c.inbox /\ d.out = c.out
  BY <1>1, ZenonT(30) DEF CtlType
<1> HIDE <1>1, <1>2
<1>6. e \in CtlType /\ SameRobot(d, e) /\ NoNewState(d, e)
  BY <1>3, <1>4, <1>5, SayIs
<1>7. NoNewState(c, e)
  <2>1. d.out = c.out /\ NoNewState(d, e)
    BY <1>5, <1>6
  <2> QED
    BY <2>1 DEF NoNewState
<1> QED
  BY <1>5, <1>6, <1>7 DEF SameRobot

\* What the controller makes of a command.
ModeAfter(c, cmd, e) ==
  \/ e.mode = c.mode
  \/ cmd.what = "power_on" /\ c.mode = "POWER_OFF" /\ c.safety # "FAULT" /\ e.mode = "IDLE"
  \/ cmd.what = "power_off" /\ e.mode = "POWER_OFF"
  \/ cmd.what = "set_robotmode_run" /\ c.safety # "FAULT" /\ e.mode = "RUNNING"
SafetyAfter(c, cmd, e) ==
  \/ e.safety = c.safety
  \/ cmd.what = "set_unlock_protective_stop" /\ c.safety = "PROTECTIVE_STOP" /\ e.safety = "NORMAL"

LEMMA NothingNew ==
  ASSUME NEW c, NEW d, NEW e, NoNewState(c, d), NoNewState(d, e)
  PROVE  NoNewState(c, e)
<1> SUFFICES ASSUME NEW i \in DOMAIN e.out, e.out[i].k = "state"
             PROVE  \E j \in DOMAIN c.out : e.out[i] = c.out[j]
  BY DEF NoNewState
<1>1. PICK j \in DOMAIN d.out : e.out[i] = d.out[j]
  BY DEF NoNewState
<1>2. PICK k \in DOMAIN c.out : d.out[j] = c.out[k]
  BY <1>1 DEF NoNewState
<1> QED
  BY <1>1, <1>2

LEMMA ModeSetIs ==
  ASSUME NEW c \in CtlType, NEW mode \in RobotModes, NEW e, e = [c EXCEPT !.mode = mode]
  PROVE  e \in CtlType /\ e.mode = mode /\ e.safety = c.safety /\ e.inbox = c.inbox /\ NoNewState(c, e)
<1>1. e \in CtlType /\ e.mode = mode /\ e.safety = c.safety /\ e.inbox = c.inbox /\ e.out = c.out
  BY ZenonT(30) DEF CtlType
<1> QED
  BY <1>1 DEF NoNewState

LEMMA ObeyedIs ==
  ASSUME NEW c \in CtlType, NEW cmd \in Orders, NEW e, e = Obeyed(c, cmd)
  PROVE  /\ e \in CtlType /\ NoNewState(c, e) /\ e.inbox = c.inbox
         /\ ModeAfter(c, cmd, e) /\ SafetyAfter(c, cmd, e)
<1> DEFINE Good == /\ e \in CtlType /\ NoNewState(c, e) /\ e.inbox = c.inbox
                   /\ ModeAfter(c, cmd, e) /\ SafetyAfter(c, cmd, e)
<1>0. NoNewState(c, c)
  BY DEF NoNewState
<1>1. CASE e = Say(c, Error("read_only"))
  <2>1. PICK msg : msg = Error("read_only")
    OBVIOUS
  <2>2. msg \in Packages /\ msg.k = "error"
    BY <2>1, PackagesAre, Zenon DEF Levels
  <2>3. e = Say(c, msg)
    BY <1>1, <2>1, Zenon
  <2> HIDE <2>1
  <2>4. e \in CtlType /\ SameRobot(c, e) /\ NoNewState(c, e)
    BY <2>2, <2>3, SayIs
  <2> QED
    BY <2>4 DEF SameRobot, ModeAfter, SafetyAfter
<1>2. CASE e = Say([Over(c) EXCEPT !.script = [name |-> cmd.name, call |-> cmd.call, raised |-> {}]],
                   Key("STARTED", [name |-> cmd.name, call |-> cmd.call, raised |-> {}]))
  <2>1. PICK new : new = [name |-> cmd.name, call |-> cmd.call, raised |-> {}]
    OBVIOUS
  <2>2. new \in RobotScripts
    <3>1. cmd.name \in ScriptNames /\ cmd.call \in Nat /\ {} \in SUBSET Severities
      BY DEF Orders
    <3> QED
      BY <2>1, <3>1, Zenon DEF RobotScripts
  <2>3. PICK d : d = Over(c)
    OBVIOUS
  <2>4. PICK f : f = [d EXCEPT !.script = new]
    OBVIOUS
  <2>5. PICK msg : msg = Key("STARTED", new)
    OBVIOUS
  <2>6. e = Say(f, msg)
    BY <1>2, <2>1, <2>3, <2>4, <2>5, Zenon
  <2>7. msg \in Packages /\ msg.k = "key"
    BY <2>2, <2>5, PackagesAre, Zenon DEF KeyTitles
  <2> HIDE <2>1, <2>5
  <2>8. d \in CtlType /\ SameRobot(c, d) /\ NoNewState(c, d)
    BY <2>3, OverIs
  <2>9. f \in CtlType /\ SameRobot(d, f) /\ f.out = d.out
    BY <2>2, <2>4, <2>8, ZenonT(30) DEF CtlType, SameRobot
  <2> HIDE <2>3, <2>4
  <2>10. e \in CtlType /\ SameRobot(f, e) /\ NoNewState(f, e)
    BY <2>6, <2>7, <2>9, SayIs
  <2>11. NoNewState(c, e)
    <3>1. NoNewState(d, f)
      BY <2>9 DEF NoNewState
    <3>2. NoNewState(d, e)
      BY <2>10, <3>1, NothingNew, Zenon
    <3> QED
      BY <2>8, <3>2, NothingNew, Zenon
  <2> QED
    BY <2>8, <2>9, <2>10, <2>11 DEF SameRobot, ModeAfter, SafetyAfter
<1>3. CASE e = Over(c)
  <2>1. e \in CtlType /\ SameRobot(c, e) /\ NoNewState(c, e)
    BY <1>3, OverIs
  <2> QED
    BY <2>1 DEF SameRobot, ModeAfter, SafetyAfter
<1>4. CASE /\ cmd.what = "power_on" /\ c.mode = "POWER_OFF" /\ c.safety # "FAULT"
           /\ e = [c EXCEPT !.mode = "IDLE"]
  BY <1>4, ModeSetIs DEF ModeAfter, SafetyAfter, RobotModes
<1>5. CASE cmd.what = "power_off" /\ e = [Over(c) EXCEPT !.mode = "POWER_OFF"]
  <2>1. PICK d : d = Over(c)
    OBVIOUS
  <2>2. d \in CtlType /\ SameRobot(c, d) /\ NoNewState(c, d)
    BY <2>1, OverIs
  <2>3. e = [d EXCEPT !.mode = "POWER_OFF"]
    BY <1>5, <2>1
  <2> HIDE <2>1
  <2>4. /\ e \in CtlType /\ e.mode = "POWER_OFF" /\ e.safety = d.safety /\ e.inbox = d.inbox
        /\ NoNewState(d, e)
    BY <2>2, <2>3, ModeSetIs DEF RobotModes
  <2>5. NoNewState(c, e)
    BY <2>2, <2>4, NothingNew, Zenon
  <2> QED
    BY <1>5, <2>2, <2>4, <2>5 DEF SameRobot, ModeAfter, SafetyAfter
<1>6. CASE cmd.what = "set_robotmode_run" /\ c.safety # "FAULT" /\ e = [c EXCEPT !.mode = "RUNNING"]
  BY <1>6, ModeSetIs DEF ModeAfter, SafetyAfter, RobotModes
<1>7. CASE /\ cmd.what = "set_unlock_protective_stop" /\ c.safety = "PROTECTIVE_STOP"
           /\ e = Safety(c, "NORMAL")
  BY <1>7, SafetyIs DEF ModeAfter, SafetyAfter, Safeties
<1>8. CASE e = c
  BY <1>0, <1>8 DEF ModeAfter, SafetyAfter
<1>9. \/ e = Say(c, Error("read_only"))
      \/ e = Say([Over(c) EXCEPT !.script = [name |-> cmd.name, call |-> cmd.call, raised |-> {}]],
                 Key("STARTED", [name |-> cmd.name, call |-> cmd.call, raised |-> {}]))
      \/ e = Over(c)
      \/ /\ cmd.what = "power_on" /\ c.mode = "POWER_OFF" /\ c.safety # "FAULT"
         /\ e = [c EXCEPT !.mode = "IDLE"]
      \/ cmd.what = "power_off" /\ e = [Over(c) EXCEPT !.mode = "POWER_OFF"]
      \/ cmd.what = "set_robotmode_run" /\ c.safety # "FAULT" /\ e = [c EXCEPT !.mode = "RUNNING"]
      \/ /\ cmd.what = "set_unlock_protective_stop" /\ c.safety = "PROTECTIVE_STOP"
         /\ e = Safety(c, "NORMAL")
      \/ e = c
  BY Zenon DEF Obeyed
<1> QED
  BY <1>1, <1>2, <1>3, <1>4, <1>5, <1>6, <1>7, <1>8, <1>9

LEMMA FirstIs ==
  /\ \A q \in Inboxes : q # <<>> => Head(q) \in Orders /\ Tail(q) \in Inboxes
  /\ \A q \in Streams : q # <<>> => Head(q) \in Packages /\ Tail(q) \in Streams
  /\ \A q \in Streams, p \in Packages : Append(q, p) \in Streams
  /\ \A q \in Inboxes, o \in Orders : Append(q, o) \in Inboxes
  /\ <<>> \in Streams /\ <<>> \in Inboxes
BY HeadTailProperties, AppendProperties DEF Inboxes, Streams

(* Every action of the controller, of the pipeline and of the caller keeps *)
(* what the client is made of.                                             *)
LEMMA ObeyDoes ==
  ASSUME PrimaryTypeOK, Obey
  PROVE  /\ ctl' \in CtlType /\ NoNewState(ctl, ctl')
         /\ ctl.inbox # <<>> /\ Head(ctl.inbox) \in Orders /\ ctl'.inbox = Tail(ctl.inbox)
         /\ ModeAfter(ctl, Head(ctl.inbox), ctl') /\ SafetyAfter(ctl, Head(ctl.inbox), ctl')
         /\ breaks' = breaks
<1>1. ctl \in CtlType /\ ctl.inbox \in Inboxes
  BY Zenon DEF PrimaryTypeOK, CtlType
<1>2. PICK rest : rest = Tail(ctl.inbox)
  OBVIOUS
<1>3. PICK cmd : cmd = Head(ctl.inbox)
  OBVIOUS
<1>4. PICK c : c = [ctl EXCEPT !.inbox = rest]
  OBVIOUS
<1>5. ctl.inbox # <<>> /\ ctl' = Obeyed(c, cmd) /\ breaks' = breaks
  BY <1>2, <1>3, <1>4, Zenon DEF Obey
<1>6. cmd \in Orders /\ rest \in Inboxes
  BY <1>1, <1>2, <1>3, <1>5, FirstIs, Zenon
<1>7. c \in CtlType /\ c.mode = ctl.mode /\ c.safety = ctl.safety /\ c.inbox = rest /\ c.out = ctl.out
  BY <1>1, <1>4, <1>6, ZenonT(30) DEF CtlType
<1>8. PICK e : e = ctl'
  OBVIOUS
<1>9. /\ e \in CtlType /\ NoNewState(c, e) /\ e.inbox = c.inbox
      /\ ModeAfter(c, cmd, e) /\ SafetyAfter(c, cmd, e)
  BY <1>5, <1>6, <1>7, <1>8, ObeyedIs, Zenon
<1>10. NoNewState(ctl, c)
  BY <1>7 DEF NoNewState
<1>11. NoNewState(ctl, e)
  BY <1>9, <1>10, NothingNew, Zenon
<1>12. ModeAfter(ctl, cmd, e) /\ SafetyAfter(ctl, cmd, e)
  BY <1>7, <1>9 DEF ModeAfter, SafetyAfter
<1> QED
  BY <1>2, <1>3, <1>5, <1>6, <1>7, <1>8, <1>9, <1>11, <1>12, Zenon

LEMMA ScriptEndsDoes ==
  ASSUME PrimaryTypeOK, ScriptEnds
  PROVE  ctl' \in CtlType /\ SameRobot(ctl, ctl') /\ NoNewState(ctl, ctl') /\ breaks' = breaks
BY OverIs, Zenon DEF ScriptEnds, PrimaryTypeOK

LEMMA ScriptRaisesDoes ==
  ASSUME PrimaryTypeOK, NEW what \in Severities, ScriptRaises(what)
  PROVE  ctl' \in CtlType /\ SameRobot(ctl, ctl') /\ NoNewState(ctl, ctl') /\ breaks' = breaks
<1>1. ctl \in CtlType /\ ctl.script \in RobotScripts
  BY Zenon DEF PrimaryTypeOK, CtlType
<1>2. PICK script : script = [ctl.script EXCEPT !.raised = {what}]
  OBVIOUS
<1>3. script \in RobotScripts
  <2>1. {what} \in SUBSET Severities
    OBVIOUS
  <2> QED
    BY <1>1, <1>2, <2>1, Zenon DEF RobotScripts
<1>4. PICK c : c = [ctl EXCEPT !.script = script]
  OBVIOUS
<1>5. c \in CtlType /\ SameRobot(ctl, c) /\ c.out = ctl.out
  BY <1>1, <1>3, <1>4, ZenonT(30) DEF CtlType, SameRobot
<1>6. c = [ctl EXCEPT !.script.raised = {what}]
  BY <1>1, <1>2, <1>4, Zenon DEF CtlType, RobotScripts
<1>7. NoNewState(ctl, c)
  BY <1>5 DEF NoNewState
<1>8. breaks' = breaks /\ ctl' = IF what = "exception" THEN Over(Say(c, [k |-> "exception"]))
                                 ELSE Say(c, Error(what))
  BY <1>6, Zenon DEF ScriptRaises
<1> HIDE <1>2, <1>4, <1>6
<1>9. CASE what = "exception"
  <2>1. PICK msg : msg = [k |-> "exception"]
    OBVIOUS
  <2>2. msg \in Packages /\ msg.k = "exception"
    BY <2>1, PackagesAre, Zenon
  <2>3. PICK d : d = Say(c, msg)
    OBVIOUS
  <2>4. ctl' = Over(d)
    BY <1>8, <1>9, <2>1, <2>3, Zenon
  <2> HIDE <2>1
  <2>5. d \in CtlType /\ SameRobot(c, d) /\ NoNewState(c, d)
    BY <1>5, <2>2, <2>3, SayIs
  <2>6. ctl' \in CtlType /\ SameRobot(d, ctl') /\ NoNewState(d, ctl')
    BY <2>4, <2>5, OverIs, Zenon
  <2>7. NoNewState(ctl, d)
    BY <1>7, <2>5, NothingNew, Zenon
  <2>8. NoNewState(ctl, ctl')
    BY <2>6, <2>7, NothingNew, Zenon
  <2> QED
    BY <1>5, <1>8, <2>5, <2>6, <2>8 DEF SameRobot
<1>10. CASE what # "exception"
  <2>1. PICK msg : msg = Error(what)
    OBVIOUS
  <2>2. msg \in Packages /\ msg.k = "error"
    BY <1>10, <2>1, PackagesAre, Zenon DEF Severities, Levels
  <2>3. ctl' = Say(c, msg)
    BY <1>8, <1>10, <2>1, Zenon
  <2> HIDE <2>1
  <2>4. ctl' \in CtlType /\ SameRobot(c, ctl') /\ NoNewState(c, ctl')
    <3>1. PICK e : e = ctl'
      OBVIOUS
    <3>2. e \in CtlType /\ SameRobot(c, e) /\ NoNewState(c, e)
      BY <1>5, <2>2, <2>3, <3>1, SayIs
    <3> QED
      BY <3>1, <3>2
  <2>5. NoNewState(ctl, ctl')
    BY <1>7, <2>4, NothingNew, Zenon
  <2> QED
    BY <1>5, <1>8, <2>4, <2>5 DEF SameRobot
<1> QED
  BY <1>9, <1>10

TrueOfStop(p) == p.view.prot <=> ctl.safety = "PROTECTIVE_STOP"

\* A state that is told says truly whether the robot is in a protective stop.
LEMMA TellStateDoes ==
  ASSUME PrimaryTypeOK, TellState
  PROVE  /\ ctl' \in CtlType /\ SameRobot(ctl, ctl') /\ breaks' = breaks
         /\ \A i \in DOMAIN ctl'.out : \/ i \in DOMAIN ctl.out /\ ctl'.out[i] = ctl.out[i]
                                       \/ TrueOfStop(ctl'.out[i])
<1>1. ctl \in CtlType
  BY Zenon DEF PrimaryTypeOK
<1>2. PICK view : view = State(ctl)
  OBVIOUS
<1>3. view \in StateViews /\ (view.prot <=> ctl.safety = "PROTECTIVE_STOP")
  BY <1>1, <1>2, ScriptsAre, Zenon
<1>4. PICK msg : msg = [k |-> "state", view |-> view]
  OBVIOUS
<1>5. PICK c : c = [ctl EXCEPT !.told = view]
  OBVIOUS
<1>6. ctl' = Say(c, msg) /\ breaks' = breaks
  BY <1>2, <1>4, <1>5, Zenon DEF TellState
<1>7. msg \in Packages /\ msg.view = view
  BY <1>3, <1>4, PackagesAre, Zenon
<1>8. c \in CtlType /\ SameRobot(ctl, c) /\ c.out = ctl.out
  BY <1>1, <1>3, <1>5, ZenonT(30) DEF CtlType, SameRobot
<1> HIDE <1>2, <1>4, <1>5
<1>9. PICK e : e = ctl'
  OBVIOUS
<1>10. e \in CtlType /\ SameRobot(c, e) /\ (e.out = c.out \/ e.out = Append(c.out, msg))
  BY <1>6, <1>7, <1>8, <1>9, SayIs
<1>11. ASSUME NEW i \in DOMAIN e.out
       PROVE  (i \in DOMAIN c.out /\ e.out[i] = c.out[i]) \/ e.out[i] = msg
  <2>1. c.out \in Seq(Packages)
    BY <1>8, Zenon DEF CtlType, Streams
  <2>2. CASE e.out = c.out
    BY <2>2
  <2>3. CASE e.out = Append(c.out, msg)
    <3>1. PICK out : out = c.out
      OBVIOUS
    <3>2. PICK told : told = e.out
      OBVIOUS
    <3>3. told = Append(out, msg) /\ out \in Seq(Packages) /\ i \in DOMAIN told
      BY <2>1, <2>3, <3>1, <3>2
    <3> HIDE <3>1, <3>2
    <3>4. (i \in DOMAIN out /\ told[i] = out[i]) \/ told[i] = msg
      BY <1>7, <3>3
    <3> QED
      BY <3>1, <3>2, <3>4
  <2> QED
    BY <1>10, <2>2, <2>3
<1>12. \A i \in DOMAIN e.out : \/ i \in DOMAIN ctl.out /\ e.out[i] = ctl.out[i]
                              \/ TrueOfStop(e.out[i])
  <2>1. TrueOfStop(msg)
    BY <1>3, <1>7, Zenon DEF TrueOfStop
  <2> QED
    BY <1>8, <1>11, <2>1
<1> QED
  BY <1>6, <1>8, <1>9, <1>10, <1>12, Zenon DEF SameRobot

LEMMA PendantDoes ==
  ASSUME PrimaryTypeOK, Pendant
  PROVE  /\ ctl' \in CtlType /\ breaks' = breaks + 1
         /\ ctl'.safety = "FAULT" => ctl.safety = "FAULT" \/ ctl'.mode = "POWER_OFF"
         /\ ctl'.mode = ctl.mode \/ ctl'.mode = "POWER_OFF"
<1>1. ctl \in CtlType /\ breaks' = breaks + 1
  BY Zenon DEF PrimaryTypeOK, Pendant
<1>2. PICK c : c = Over(ctl)
  OBVIOUS
<1>3. c \in CtlType /\ c.mode = ctl.mode /\ c.safety = ctl.safety
  BY <1>1, <1>2, OverIs, Zenon DEF SameRobot
<1>4. PICK e : e = ctl'
  OBVIOUS
<1>5. \/ e = [c EXCEPT !.mode = "POWER_OFF"]
      \/ e = Safety(c, "PROTECTIVE_STOP")
      \/ e = [Safety(c, "FAULT") EXCEPT !.mode = "POWER_OFF"]
  BY <1>2, <1>4, Zenon DEF Pendant
<1>6. CASE e = [c EXCEPT !.mode = "POWER_OFF"]
  BY <1>1, <1>3, <1>4, <1>6, ModeSetIs DEF RobotModes
<1>7. CASE e = Safety(c, "PROTECTIVE_STOP")
  BY <1>1, <1>3, <1>4, <1>7, SafetyIs DEF Safeties
<1>8. CASE e = [Safety(c, "FAULT") EXCEPT !.mode = "POWER_OFF"]
  <2>1. PICK d : d = Safety(c, "FAULT")
    OBVIOUS
  <2>2. d \in CtlType
    BY <1>3, <2>1, SafetyIs DEF Safeties
  <2>3. e \in CtlType /\ e.mode = "POWER_OFF"
    BY <1>8, <2>1, <2>2, ModeSetIs DEF RobotModes
  <2> QED
    BY <1>1, <1>4, <2>3
<1> QED
  BY <1>5, <1>6, <1>7, <1>8

LEMMA BreakDoes ==
  ASSUME PrimaryTypeOK, Break
  PROVE  PrimaryTypeOK' /\ breaks' = breaks + 1 /\ ctl'.mode = ctl.mode /\ ctl'.safety = ctl.safety
<1>1. ctl' = [ctl EXCEPT !.inbox = <<>>, !.out = <<>>, !.told = Nothing]
      /\ conn' = [conn EXCEPT !.live = FALSE] /\ caller' = [caller EXCEPT !.sound = FALSE]
      /\ breaks' = breaks + 1 /\ stores' = stores
  BY Zenon DEF Break
<1>2. ctl' \in CtlType /\ ctl'.mode = ctl.mode /\ ctl'.safety = ctl.safety
  BY <1>1, FirstIs, ScriptsAre, ZenonT(30) DEF PrimaryTypeOK, CtlType
<1>3. conn' \in ConnType
  BY <1>1, Zenon DEF PrimaryTypeOK, ConnType
<1>4. caller' \in CallerType
  BY <1>1, Zenon DEF PrimaryTypeOK, CallerType
<1>5. breaks' \in Nat /\ stores' \in StoresType
  BY <1>1 DEF PrimaryTypeOK
<1> QED
  BY <1>1, <1>2, <1>3, <1>4, <1>5, Zenon DEF PrimaryTypeOK

LEMMA SoundCaller ==
  ASSUME caller \in CallerType, NEW b \in BOOLEAN, caller' = [caller EXCEPT !.sound = b]
  PROVE  caller' \in CallerType /\ caller'.pc = caller.pc /\ caller'.msg = caller.msg
         /\ caller'.what = caller.what /\ caller'.result = caller.result
BY ZenonT(30) DEF CallerType

\* What of the caller the helper sees.
SameCaller == /\ caller'.pc = caller.pc /\ caller'.msg = caller.msg
              /\ caller'.what = caller.what /\ caller'.result = caller.result

\* What is queued was queued or has been read.
QueuedFrom ==
  \A i \in DOMAIN conn'.queue :
    \/ i \in DOMAIN conn.queue /\ conn'.queue[i] = conn.queue[i]
    \/ ctl.out # <<>> /\ conn'.queue[i] = Head(ctl.out)

LEMMA ProduceDoes ==
  ASSUME PrimaryTypeOK, Produce
  PROVE  /\ PrimaryTypeOK' /\ SameRobot(ctl, ctl') /\ NoNewState(ctl, ctl')
         /\ SameCaller /\ stores' = stores /\ breaks' = breaks
         /\ conn'.live = conn.live
         /\ QueuedFrom
<1>1. ctl \in CtlType /\ conn \in ConnType /\ caller \in CallerType /\ ctl.out \in Streams /\ conn.queue \in Streams
  BY Zenon DEF PrimaryTypeOK, CtlType, ConnType
<1>2. stores' = stores /\ breaks' = breaks
  BY Zenon DEF Produce
<1>3. NoNewState(ctl, ctl) /\ SameRobot(ctl, ctl)
  BY DEF NoNewState, SameRobot
<1>4. CASE /\ conn.state = "connected" /\ ctl.out # <<>>
           /\ LET full == Len(conn.queue) = QueueSize
              IN  /\ conn' = IF full THEN conn ELSE [conn EXCEPT !.queue = Append(@, Head(ctl.out))]
                  /\ caller' = [caller EXCEPT !.sound = @ /\ ~full]
           /\ ctl' = [ctl EXCEPT !.out = Tail(@)]
  <2>1. PICK p : p = Head(ctl.out)
    OBVIOUS
  <2>2. PICK rest : rest = Tail(ctl.out)
    OBVIOUS
  <2>3. PICK queue : queue = Append(conn.queue, p)
    OBVIOUS
  <2>4. PICK sound \in BOOLEAN : sound = (caller.sound /\ ~(Len(conn.queue) = QueueSize))
    BY Zenon
  <2>5. /\ caller' = [caller EXCEPT !.sound = sound] /\ ctl' = [ctl EXCEPT !.out = rest]
        /\ conn' = conn \/ conn' = [conn EXCEPT !.queue = queue]
    BY <1>4, <2>1, <2>2, <2>3, <2>4, Zenon
  <2>6. p \in Packages /\ rest \in Streams /\ queue \in Streams
    BY <1>1, <1>4, <2>1, <2>2, <2>3, FirstIs, Zenon
  <2>7. \A i \in DOMAIN rest : \E j \in DOMAIN ctl.out : rest[i] = ctl.out[j]
    <3>1. PICK out : out = ctl.out
      OBVIOUS
    <3>2. out \in Seq(Packages) /\ out # <<>> /\ rest = Tail(out)
      BY <1>1, <1>4, <2>2, <3>1 DEF Streams
    <3> HIDE <3>1
    <3>3. \A i \in DOMAIN rest : i + 1 \in DOMAIN out /\ rest[i] = out[i + 1]
      BY <3>2
    <3> QED
      BY <3>1, <3>3
  <2>8. \A i \in DOMAIN queue : (i \in DOMAIN conn.queue /\ queue[i] = conn.queue[i]) \/ queue[i] = p
    <3>1. PICK q : q = conn.queue
      OBVIOUS
    <3>2. q \in Seq(Packages) /\ queue = Append(q, p)
      BY <1>1, <2>3, <3>1 DEF Streams
    <3> HIDE <3>1
    <3>3. \A i \in DOMAIN queue : (i \in DOMAIN q /\ queue[i] = q[i]) \/ queue[i] = p
      BY <2>6, <3>2
    <3> QED
      BY <3>1, <3>3
  <2> HIDE <2>2, <2>3, <2>4
  <2>9. ctl' \in CtlType /\ SameRobot(ctl, ctl') /\ ctl'.out = rest
    BY <1>1, <2>5, <2>6, ZenonT(30) DEF CtlType, SameRobot
  <2>10. caller' \in CallerType /\ SameCaller
    BY <1>1, <2>5, SoundCaller DEF SameCaller
  <2>11. conn' \in ConnType /\ conn'.live = conn.live
    BY <1>1, <2>5, <2>6, ZenonT(30) DEF ConnType
  <2>12. conn'.queue = conn.queue \/ conn'.queue = queue
    BY <1>1, <2>5, ZenonT(30) DEF ConnType
  <2>13. NoNewState(ctl, ctl')
    BY <2>7, <2>9 DEF NoNewState
  <2>14. \A i \in DOMAIN conn'.queue : \/ i \in DOMAIN conn.queue /\ conn'.queue[i] = conn.queue[i]
                                      \/ conn'.queue[i] = p
    BY <2>8, <2>12
  <2>15. PrimaryTypeOK'
    BY <1>2, <2>9, <2>10, <2>11 DEF PrimaryTypeOK
  <2>16. QueuedFrom
    BY <1>4, <2>1, <2>14 DEF QueuedFrom
  <2> QED
    BY <1>2, <2>9, <2>10, <2>11, <2>13, <2>15, <2>16
<1>5. CASE conn' = [conn EXCEPT !.state = "disconnected", !.reader = "sleeping"] /\ UNCHANGED <<ctl, caller>>
  <2>1. conn' \in ConnType /\ conn'.live = conn.live /\ conn'.queue = conn.queue
    BY <1>1, <1>5, ZenonT(30) DEF ConnType
  <2>2. PrimaryTypeOK'
    BY <1>1, <1>2, <1>5, <2>1 DEF PrimaryTypeOK
  <2>3. SameRobot(ctl, ctl') /\ NoNewState(ctl, ctl')
    BY <1>3, <1>5
  <2>4. SameCaller
    BY <1>5 DEF SameCaller
  <2>5. QueuedFrom
    BY <2>1 DEF QueuedFrom
  <2> QED
    BY <1>2, <2>1, <2>2, <2>3, <2>4, <2>5
<1>6. CASE /\ conn' = [conn EXCEPT !.reader = "ended", !.run = FALSE]
           /\ caller' = [caller EXCEPT !.sound = FALSE] /\ UNCHANGED ctl
  <2>1. conn' \in ConnType /\ conn'.live = conn.live /\ conn'.queue = conn.queue
    BY <1>1, <1>6, ZenonT(30) DEF ConnType
  <2>2. caller' \in CallerType /\ SameCaller
    BY <1>1, <1>6, SoundCaller DEF SameCaller
  <2>3. PrimaryTypeOK'
    BY <1>1, <1>2, <1>6, <2>1, <2>2 DEF PrimaryTypeOK
  <2>4. SameRobot(ctl, ctl') /\ NoNewState(ctl, ctl')
    BY <1>3, <1>6
  <2>5. QueuedFrom
    BY <2>1 DEF QueuedFrom
  <2> QED
    BY <1>2, <2>1, <2>2, <2>3, <2>4, <2>5
<1> QED
  BY <1>4, <1>5, <1>6, Zenon DEF Produce

LEMMA ReconnectDoes ==
  ASSUME PrimaryTypeOK, Reconnect
  PROVE  /\ PrimaryTypeOK' /\ UNCHANGED <<ctl, stores, caller, breaks>>
         /\ conn.live => conn'.live
         /\ conn'.queue = conn.queue
<1>1. conn' = [(IF conn.state = "connected" THEN conn ELSE Connected(conn)) EXCEPT !.reader = "reading"]
      /\ UNCHANGED <<ctl, stores, caller, breaks>>
  BY Zenon DEF Reconnect
<1>2. PICK c : c = IF conn.state = "connected" THEN conn ELSE Connected(conn)
  OBVIOUS
<1>3. c = conn \/ c = [conn EXCEPT !.live = TRUE, !.state = "connected"]
  BY <1>2, Zenon DEF Connected
<1>4. conn' = [c EXCEPT !.reader = "reading"]
  BY <1>1, <1>2, Zenon
<1> HIDE <1>2
<1>5. c \in ConnType /\ (conn.live => c.live) /\ c.queue = conn.queue
  BY <1>3, ZenonT(30) DEF PrimaryTypeOK, ConnType
<1>6. conn' \in ConnType /\ (conn.live => conn'.live) /\ conn'.queue = conn.queue
  BY <1>4, <1>5, ZenonT(30) DEF ConnType
<1> QED
  BY <1>1, <1>6 DEF PrimaryTypeOK

\* Only a state that is taken from the queue changes what is known of the robot.
LEMMA ConsumeDoes ==
  ASSUME PrimaryTypeOK, Consume
  PROVE  /\ PrimaryTypeOK' /\ UNCHANGED <<ctl, caller, breaks>>
         /\ conn.queue # <<>> /\ conn'.queue = Tail(conn.queue) /\ conn'.live = conn.live
         /\ \/ stores'.view = stores.view
            \/ Head(conn.queue).k = "state" /\ stores'.view = Head(conn.queue).view
<1>1. conn \in ConnType /\ stores \in StoresType /\ conn.queue \in Streams
  BY Zenon DEF PrimaryTypeOK, ConnType
<1>2. PICK p : p = Head(conn.queue)
  OBVIOUS
<1>3. PICK rest : rest = Tail(conn.queue)
  OBVIOUS
<1>4. /\ conn.queue # <<>> /\ stores' = Stored(stores, p) /\ conn' = [conn EXCEPT !.queue = rest]
      /\ UNCHANGED <<ctl, caller, breaks>>
  BY <1>2, <1>3, Zenon DEF Consume
<1>5. p \in Packages /\ rest \in Streams
  BY <1>1, <1>2, <1>3, <1>4, FirstIs, Zenon
<1>6. conn' \in ConnType /\ conn'.live = conn.live /\ conn'.queue = rest
  BY <1>1, <1>4, <1>5, ZenonT(30) DEF ConnType
<1>7. CASE p.k = "key"
  <2>1. PICK key : key = [title |-> p.title, name |-> p.name]
    OBVIOUS
  <2>2. PICK keys : keys = stores.keys \cup {key}
    OBVIOUS
  <2>3. key \in KeyNames
    <3>1. p \in [k : {"key"}, title : KeyTitles, name : ScriptNames]
      BY <1>5, <1>7, ZenonT(30) DEF Packages
    <3> QED
      BY <2>1, <3>1, Zenon DEF KeyNames
  <2>4. keys \in KeyStore
    BY <1>1, <2>2, <2>3, Zenon DEF StoresType, KeyStore
  <2>5. stores' = [stores EXCEPT !.keys = keys]
    BY <1>4, <1>7, <2>1, <2>2, Zenon DEF Stored
  <2>6. stores' \in StoresType /\ stores'.view = stores.view
    BY <1>1, <2>4, <2>5, ZenonT(30) DEF StoresType
  <2> QED
    BY <1>3, <1>4, <1>6, <2>6, Zenon DEF PrimaryTypeOK
<1>8. CASE p.k = "error"
  <2>1. PICK err : err = stores.err \cup {p.level}
    OBVIOUS
  <2>2. p.level \in Levels
    BY <1>5, <1>8, ZenonT(30) DEF Packages
  <2>3. err \in ErrorStore
    BY <1>1, <2>1, <2>2, Zenon DEF StoresType, ErrorStore
  <2>4. stores' = [stores EXCEPT !.err = err]
    BY <1>4, <1>8, <2>1, Zenon DEF Stored
  <2>5. stores' \in StoresType /\ stores'.view = stores.view
    BY <1>1, <2>3, <2>4, ZenonT(30) DEF StoresType
  <2> QED
    BY <1>3, <1>4, <1>6, <2>5, Zenon DEF PrimaryTypeOK
<1>9. CASE p.k = "exception"
  <2>1. stores' = [stores EXCEPT !.exc = TRUE]
    BY <1>4, <1>9, Zenon DEF Stored
  <2>2. stores' \in StoresType /\ stores'.view = stores.view
    BY <1>1, <2>1, ZenonT(30) DEF StoresType
  <2> QED
    BY <1>3, <1>4, <1>6, <2>2, Zenon DEF PrimaryTypeOK
<1>10. CASE p.k = "state"
  <2>1. p.view \in StateViews
    BY <1>5, <1>10, ZenonT(30) DEF Packages
  <2>2. PICK view \in StateViews : view = p.view
    BY <2>1
  <2>3. stores' = [stores EXCEPT !.view = view]
    BY <1>4, <1>10, <2>2, Zenon DEF Stored
  <2>4. stores' \in StoresType /\ stores'.view = view
    BY <1>1, <2>3, ZenonT(30) DEF StoresType
  <2> QED
    BY <1>2, <1>3, <1>4, <1>6, <1>10, <2>2, <2>4, Zenon DEF PrimaryTypeOK
<1>11. CASE p.k = "safety"
  <2>1. p.safety \in Safeties
    BY <1>5, <1>11, ZenonT(30) DEF Packages
  <2>2. PICK safety \in StoredSafeties : safety = p.safety
    BY <2>1 DEF StoredSafeties
  <2>3. stores' = [stores EXCEPT !.safety = safety]
    BY <1>4, <1>11, <2>2, Zenon DEF Stored
  <2>4. stores' \in StoresType /\ stores'.view = stores.view
    BY <1>1, <2>3, ZenonT(30) DEF StoresType
  <2> QED
    BY <1>3, <1>4, <1>6, <2>4, Zenon DEF PrimaryTypeOK
<1>12. p.k \in {"key", "error", "exception", "state", "safety"}
  BY <1>5, ZenonT(30) DEF Packages
<1> QED
  BY <1>7, <1>8, <1>9, <1>10, <1>11, <1>12

\* The caller, when it goes on, returns or begins.
LEMMA NoCallIs == NoCall \in CallerType /\ NoCall.pc = "idle" /\ NoCall.result # "done"
<1>1. NoCall.pc = "idle" /\ NoCall.result # "done" /\ NoCall.name \in ScriptNames
  BY Zenon DEF NoCall, ScriptNames, NoScript
<1>2. PICK none \in CommandNames : none = NoCall.msg
  BY Zenon DEF CommandNames
<1>3. PICK nil \in {NoCall.what, "script", "secondary", "command"} : nil = NoCall.what
  BY Zenon
<1>4. PICK empty \in Results : empty = NoCall.result
  BY Zenon DEF Results
<1>5. PICK name \in ScriptNames : name = NoCall.name
  BY <1>1
<1>6. NoCall = [pc |-> "idle", what |-> nil, msg |-> none, name |-> name, call |-> 0, patient |-> FALSE,
                strict |-> TRUE, started |-> FALSE, stopped |-> 0, result |-> empty, sound |-> TRUE]
  BY <1>2, <1>3, <1>4, <1>5, Zenon DEF NoCall
<1>7. 0 \in Nat /\ 0 \in 0..2 /\ "idle" \in CallPlaces
  BY DEF CallPlaces
<1> HIDE <1>2, <1>4, <1>5
<1>8. NoCall \in CallerType
  BY <1>6, <1>7, ZenonT(30) DEF CallerType
<1> QED
  BY <1>1, <1>8

LEMMA ReturnDoes ==
  ASSUME caller \in CallerType, NEW r \in Results, Return(r)
  PROVE  caller' \in CallerType /\ caller'.pc = "idle" /\ caller'.result = r
<1>1. PICK call \in Nat : call = caller.call
  BY Zenon DEF CallerType
<1>2. caller' = [NoCall EXCEPT !.call = call, !.result = r]
  BY <1>1, Zenon DEF Return
<1> QED
  BY <1>2, NoCallIs, ZenonT(30) DEF CallerType

LEMMA GotoDoes ==
  ASSUME caller \in CallerType, NEW place \in CallPlaces, Goto(place)
  PROVE  /\ caller' \in CallerType /\ caller'.pc = place
         /\ caller'.msg = caller.msg /\ caller'.what = caller.what
BY ZenonT(30) DEF CallerType, Goto

LEMMA WrittenDoes ==
  ASSUME caller \in CallerType, caller' = Written
  PROVE  /\ caller' \in CallerType /\ caller'.pc = IF caller.msg = "script" THEN "exc" ELSE "wait"
         /\ caller'.msg = caller.msg /\ caller'.what = caller.what
<1>1. PICK place \in CallPlaces : place = IF caller.msg = "script" THEN "exc" ELSE "wait"
  BY Zenon DEF CallPlaces
<1>2. PICK sound \in BOOLEAN : sound = (conn.live /\ IF caller.msg = "script" THEN Alone ELSE caller.sound)
  BY Zenon
<1>3. caller' = [caller EXCEPT !.pc = place, !.sound = sound]
  BY <1>1, <1>2, Zenon DEF Written
<1> HIDE <1>2
<1>4. caller' \in CallerType /\ caller'.pc = place /\ caller'.msg = caller.msg /\ caller'.what = caller.what
  BY <1>3, ZenonT(30) DEF CallerType
<1> QED
  BY <1>1, <1>4

\* What the helper sees of a command that goes on.
Onward == \/ /\ caller'.pc \in {"wait", "reconnect", "resend"}
             /\ caller'.msg = caller.msg /\ caller'.what = caller.what
          \/ caller'.pc = "idle" /\ caller'.result # "done"
\* What is sent is what the call is about.
SentOn == \E o \in Orders : /\ o.what = caller.msg /\ ctl'.inbox = Append(ctl.inbox, o)
                            /\ caller'.pc \notin {"send", "reconnect", "resend"}

LEMMA SendDoes ==
  ASSUME PrimaryTypeOK, Send
  PROVE  /\ PrimaryTypeOK' /\ stores' = stores /\ breaks' = breaks
         /\ ctl'.mode = ctl.mode /\ ctl'.safety = ctl.safety /\ ctl'.out = ctl.out
         /\ conn'.live = conn.live /\ conn'.queue = conn.queue
         /\ caller.pc \in {"send", "resend"}
         /\ ctl'.inbox = ctl.inbox \/ SentOn
         /\ caller.msg \notin {"script", "secondary"} => Onward
<1>1. /\ ctl \in CtlType /\ conn \in ConnType /\ caller \in CallerType
      /\ stores' = stores /\ breaks' = breaks /\ caller.pc \in {"send", "resend"}
  BY Zenon DEF PrimaryTypeOK, Send
<1>2. CASE /\ caller' = Written
           /\ ctl' = IF conn.live /\ caller.msg # "secondary"
                     THEN [ctl EXCEPT !.inbox = Append(@, [what |-> caller.msg, name |-> caller.name,
                                                           call |-> caller.call])]
                     ELSE ctl
           /\ UNCHANGED conn
  <2>1. /\ caller' \in CallerType /\ caller'.pc = IF caller.msg = "script" THEN "exc" ELSE "wait"
        /\ caller'.msg = caller.msg /\ caller'.what = caller.what
    BY <1>1, <1>2, WrittenDoes
  <2>2. PICK o \in Orders : o = [what |-> caller.msg, name |-> caller.name, call |-> caller.call]
    <3>1. caller.msg \in CommandNames /\ caller.name \in ScriptNames /\ caller.call \in Nat
      BY <1>1, Zenon DEF CallerType
    <3> QED
      BY <3>1, Zenon DEF Orders
  <2>3. PICK inbox : inbox = Append(ctl.inbox, o)
    OBVIOUS
  <2>4. inbox \in Inboxes
    BY <1>1, <2>3, FirstIs, Zenon DEF CtlType
  <2>5. ctl' = ctl \/ ctl' = [ctl EXCEPT !.inbox = inbox]
    BY <1>2, <2>2, <2>3, Zenon
  <2>6. /\ ctl' \in CtlType /\ ctl'.mode = ctl.mode /\ ctl'.safety = ctl.safety /\ ctl'.out = ctl.out
        /\ ctl'.inbox = ctl.inbox \/ ctl'.inbox = inbox
    BY <1>1, <2>4, <2>5, ZenonT(30) DEF CtlType
  <2>7. o.what = caller.msg
    BY <2>2, Zenon
  <2>8. caller'.pc \in {"exc", "wait"} /\ (caller.msg # "script" => caller'.pc = "wait")
    BY <2>1
  <2>9. ctl'.inbox = ctl.inbox \/ SentOn
    BY <2>3, <2>6, <2>7, <2>8 DEF SentOn
  <2>10. caller.msg # "script" => Onward
    BY <2>1, <2>8 DEF Onward
  <2>11. PrimaryTypeOK'
    BY <1>1, <1>2, <2>1, <2>6 DEF PrimaryTypeOK
  <2> QED
    BY <1>1, <1>2, <2>6, <2>9, <2>10, <2>11
<1>3. CASE caller.msg = "secondary" /\ Return("done") /\ UNCHANGED <<ctl, conn>>
  <2>1. caller' \in CallerType
    BY <1>1, <1>3, ReturnDoes, Zenon DEF Results
  <2>2. PrimaryTypeOK'
    BY <1>1, <1>3, <2>1 DEF PrimaryTypeOK
  <2> QED
    BY <1>1, <1>3, <2>2
<1>4. CASE Goto("reconnect") /\ conn' = [conn EXCEPT !.state = "closed"] /\ UNCHANGED ctl
  <2>1. /\ caller' \in CallerType /\ caller'.pc = "reconnect"
        /\ caller'.msg = caller.msg /\ caller'.what = caller.what
    BY <1>1, <1>4, GotoDoes, Zenon DEF CallPlaces
  <2>2. conn' \in ConnType /\ conn'.live = conn.live /\ conn'.queue = conn.queue
    BY <1>1, <1>4, ZenonT(30) DEF ConnType
  <2>3. PrimaryTypeOK'
    BY <1>1, <1>4, <2>1, <2>2 DEF PrimaryTypeOK
  <2>4. Onward
    BY <2>1 DEF Onward
  <2> QED
    BY <1>1, <1>4, <2>2, <2>3, <2>4
<1>5. CASE Return("not_sent") /\ UNCHANGED <<ctl, conn>>
  <2>1. caller' \in CallerType /\ caller'.pc = "idle" /\ caller'.result = "not_sent"
    BY <1>1, <1>5, ReturnDoes, Zenon DEF Results
  <2>2. PrimaryTypeOK'
    BY <1>1, <1>5, <2>1 DEF PrimaryTypeOK
  <2>3. Onward
    BY <2>1 DEF Onward
  <2> QED
    BY <1>1, <1>5, <2>2, <2>3
<1>6. \/ /\ caller' = Written
         /\ ctl' = IF conn.live /\ caller.msg # "secondary"
                   THEN [ctl EXCEPT !.inbox = Append(@, [what |-> caller.msg, name |-> caller.name,
                                                         call |-> caller.call])]
                   ELSE ctl
         /\ UNCHANGED conn
      \/ caller.msg = "secondary" /\ Return("done") /\ UNCHANGED <<ctl, conn>>
      \/ Goto("reconnect") /\ conn' = [conn EXCEPT !.state = "closed"] /\ UNCHANGED ctl
      \/ Return("not_sent") /\ UNCHANGED <<ctl, conn>>
  BY Zenon DEF Send
<1> QED
  BY <1>2, <1>3, <1>4, <1>5, <1>6

LEMMA ReconnectStreamDoes ==
  ASSUME PrimaryTypeOK, ReconnectStream
  PROVE  /\ PrimaryTypeOK' /\ UNCHANGED <<ctl, stores, breaks>>
         /\ conn.live => conn'.live
         /\ conn'.queue = conn.queue /\ Onward /\ caller.pc = "reconnect"
<1>1. /\ conn \in ConnType /\ caller \in CallerType /\ UNCHANGED <<ctl, stores, breaks>>
      /\ caller.pc = "reconnect"
  BY Zenon DEF PrimaryTypeOK, ReconnectStream
<1>2. CASE Return("not_sent") /\ UNCHANGED conn
  <2>1. caller' \in CallerType /\ caller'.pc = "idle" /\ caller'.result = "not_sent"
    BY <1>1, <1>2, ReturnDoes, Zenon DEF Results
  <2>2. PrimaryTypeOK'
    BY <1>1, <1>2, <2>1 DEF PrimaryTypeOK
  <2>3. Onward
    BY <2>1 DEF Onward
  <2> QED
    BY <1>1, <1>2, <2>2, <2>3
<1>3. CASE Goto("resend") /\ conn' = Connected(conn)
  <2>1. /\ caller' \in CallerType /\ caller'.pc = "resend"
        /\ caller'.msg = caller.msg /\ caller'.what = caller.what
    BY <1>1, <1>3, GotoDoes, Zenon DEF CallPlaces
  <2>2. conn' \in ConnType /\ conn'.live /\ conn'.queue = conn.queue
    BY <1>1, <1>3, ZenonT(30) DEF ConnType, Connected
  <2>3. PrimaryTypeOK'
    BY <1>1, <2>1, <2>2 DEF PrimaryTypeOK
  <2>4. Onward
    BY <2>1 DEF Onward
  <2> QED
    BY <1>1, <2>2, <2>3, <2>4
<1> QED
  BY <1>2, <1>3, Zenon DEF ReconnectStream

LEMMA WaitEndsDoes ==
  ASSUME PrimaryTypeOK, WaitEnds \/ WaitTimeout
  PROVE  /\ PrimaryTypeOK' /\ UNCHANGED <<ctl, conn, stores, breaks>>
         /\ caller.pc = "wait" /\ caller'.pc = "idle"
         /\ caller'.result = "done" => Reached(stores.view)
<1>1. caller \in CallerType /\ UNCHANGED <<ctl, conn, stores, breaks>> /\ caller.pc = "wait"
  BY Zenon DEF PrimaryTypeOK, WaitEnds, WaitTimeout, Ends
<1>2. PICK r \in Results : Return(r) /\ (r = "done" => Reached(stores.view))
  <2>1. CASE WaitEnds
    BY <2>1, Zenon DEF WaitEnds, Results
  <2>2. CASE WaitTimeout
    BY <2>2, Zenon DEF WaitTimeout, Results
  <2> QED
    BY <2>1, <2>2
<1>3. caller' \in CallerType /\ caller'.pc = "idle" /\ caller'.result = r
  BY <1>1, <1>2, ReturnDoes, Zenon
<1>4. PrimaryTypeOK'
  BY <1>1, <1>3 DEF PrimaryTypeOK
<1> QED
  BY <1>1, <1>2, <1>3, <1>4

LEMMA CallCommandDoes ==
  ASSUME PrimaryTypeOK, NEW cmd \in CommandNames, CallCommand(cmd)
  PROVE  /\ PrimaryTypeOK' /\ UNCHANGED <<ctl, conn, stores, breaks>>
         /\ caller'.pc = "send" /\ caller'.what = "command" /\ caller'.msg = cmd
<1>1. PICK call \in Nat : call = caller.call
  BY Zenon DEF PrimaryTypeOK, CallerType
<1>2. caller' = [NoCall EXCEPT !.pc = "send", !.what = "command", !.msg = cmd, !.call = call]
      /\ UNCHANGED <<ctl, conn, stores, breaks>>
  BY <1>1, Zenon DEF CallCommand, Begin, Ends
<1>3. PICK c : c = [NoCall EXCEPT !.pc = "send", !.what = "command"]
  OBVIOUS
<1>4. c \in CallerType /\ c.pc = "send" /\ c.what = "command"
  BY <1>3, NoCallIs, ZenonT(30) DEF CallerType, CallPlaces
<1>5. caller' = [c EXCEPT !.msg = cmd, !.call = call]
  BY <1>2, <1>3, NoCallIs, ZenonT(30) DEF CallerType
<1>6. caller' \in CallerType /\ caller'.pc = "send" /\ caller'.what = "command" /\ caller'.msg = cmd
  BY <1>4, <1>5, ZenonT(30) DEF CallerType
<1>7. PrimaryTypeOK'
  BY <1>2, <1>6 DEF PrimaryTypeOK
<1> QED
  BY <1>2, <1>6, <1>7

LEMMA CallScriptDoes ==
  ASSUME PrimaryTypeOK, CallScript
  PROVE  PrimaryTypeOK' /\ UNCHANGED <<ctl, conn, stores, breaks>>
<1>1. PICK s \in Scripts : Begin(Prepared(s))
  BY Zenon DEF CallScript
<1>2. UNCHANGED <<ctl, conn, stores, breaks>> /\ caller' = Prepared(s)
  BY <1>1, Zenon DEF Begin, Ends
<1>3. PICK call \in Nat : call = caller.call + 1
  BY DEF PrimaryTypeOK, CallerType
<1>4. PICK what \in {"script", "secondary"} : what = s.what
  BY PrimaryAssumption
<1>5. PICK patient \in BOOLEAN : patient = s.patient
  BY PrimaryAssumption
<1>6. PICK strict \in BOOLEAN : strict = s.strict
  BY PrimaryAssumption
<1>7. PICK name \in ScriptNames : name = s.name
  BY Zenon DEF ScriptNames
<1>8. caller' = [NoCall EXCEPT !.pc = "mode", !.what = what, !.msg = what, !.name = name, !.call = call,
                               !.patient = patient, !.strict = strict, !.started = patient]
  BY <1>2, <1>3, <1>4, <1>5, <1>6, <1>7, Zenon DEF Prepared
<1> HIDE <1>3, <1>4, <1>5, <1>6, <1>7
<1>9. PICK c : c = [NoCall EXCEPT !.pc = "mode", !.what = what, !.msg = what, !.name = name]
  OBVIOUS
<1>10. c \in CallerType
  BY <1>9, NoCallIs, ZenonT(30) DEF CallerType, CallPlaces, CommandNames
<1>11. caller' = [c EXCEPT !.call = call, !.patient = patient, !.strict = strict, !.started = patient]
  BY <1>8, <1>9, NoCallIs, ZenonT(30) DEF CallerType
<1>12. caller' \in CallerType
  BY <1>10, <1>11, ZenonT(30) DEF CallerType
<1> QED
  BY <1>2, <1>12 DEF PrimaryTypeOK

LEMMA CheckModeDoes ==
  ASSUME PrimaryTypeOK, CheckMode \/ LookAtException \/ LookAgain \/ NotStarted
  PROVE  PrimaryTypeOK' /\ UNCHANGED <<ctl, conn, stores, breaks>> /\ caller.pc \in {"mode", "exc", "end"}
<1>1. /\ UNCHANGED <<ctl, conn, stores, breaks>> /\ caller.pc \in {"mode", "exc", "end"}
      /\ \/ \E r \in Results : Return(r)
         \/ \E place \in CallPlaces : Goto(place)
  <2>1. CASE CheckMode
    BY <2>1, Zenon DEF CheckMode, Ends, Results, CallPlaces
  <2>2. CASE LookAtException
    BY <2>2, Zenon DEF LookAtException, Ends, Results, CallPlaces
  <2>3. CASE LookAgain
    BY <2>3, Zenon DEF LookAgain, Ends, Results, CallPlaces
  <2>4. CASE NotStarted
    BY <2>4, Zenon DEF NotStarted, Ends, Results
  <2> QED
    BY <2>1, <2>2, <2>3, <2>4
<1>2. caller \in CallerType
  BY Zenon DEF PrimaryTypeOK
<1>3. caller' \in CallerType
  BY <1>1, <1>2, ReturnDoes, GotoDoes, Zenon
<1> QED
  BY <1>1, <1>3 DEF PrimaryTypeOK

LEMMA ClearStoresDoes ==
  ASSUME PrimaryTypeOK, ClearStores
  PROVE  PrimaryTypeOK' /\ UNCHANGED <<ctl, conn, breaks>>
         /\ caller.pc \in {"clear_exc", "clear_err", "clear_keys"}
<1>1. /\ UNCHANGED <<ctl, conn, breaks>> /\ caller.pc \in {"clear_exc", "clear_err", "clear_keys"}
      /\ \E place \in CallPlaces : Goto(place)
      /\ \/ stores' = [stores EXCEPT !.exc = FALSE]
         \/ stores' = [stores EXCEPT !.err = {}]
         \/ stores' = [stores EXCEPT !.keys = {}]
  BY Zenon DEF ClearStores, CallPlaces
<1>2. caller \in CallerType /\ stores \in StoresType
  BY Zenon DEF PrimaryTypeOK
<1>3. caller' \in CallerType
  BY <1>1, <1>2, GotoDoes, Zenon
<1>4. {} \in ErrorStore /\ {} \in KeyStore
  BY DEF ErrorStore, KeyStore
<1>5. stores' \in StoresType
  BY <1>1, <1>2, <1>4, ZenonT(30) DEF StoresType
<1> QED
  BY <1>1, <1>3, <1>5 DEF PrimaryTypeOK

LEMMA LookAtErrorsDoes ==
  ASSUME PrimaryTypeOK, LookAtErrors
  PROVE  PrimaryTypeOK' /\ UNCHANGED <<ctl, conn, breaks>> /\ caller.pc = "err"
<1>1. caller \in CallerType /\ stores \in StoresType
  BY Zenon DEF PrimaryTypeOK
<1>2. stores' = [stores EXCEPT !.err = {}] /\ UNCHANGED <<ctl, conn, breaks>> /\ caller.pc = "err"
  BY Zenon DEF LookAtErrors
<1>3. \/ \E r \in Results : Return(r)
      \/ caller' = [caller EXCEPT !.pc = "send", !.msg = "stop_program"]
      \/ Goto("keys")
  BY Zenon DEF LookAtErrors, Results
<1>4. caller' \in CallerType
  <2>1. CASE \E r \in Results : Return(r)
    BY <1>1, <2>1, ReturnDoes, Zenon
  <2>2. CASE caller' = [caller EXCEPT !.pc = "send", !.msg = "stop_program"]
    BY <1>1, <2>2, ZenonT(30) DEF CallerType, CallPlaces, CommandNames
  <2>3. CASE Goto("keys")
    BY <1>1, <2>3, GotoDoes, Zenon DEF CallPlaces
  <2> QED
    BY <1>3, <2>1, <2>2, <2>3
<1>7. {} \in ErrorStore
  BY DEF ErrorStore
<1>8. stores' \in StoresType
  BY <1>1, <1>2, <1>7, ZenonT(30) DEF StoresType
<1> QED
  BY <1>2, <1>4, <1>8 DEF PrimaryTypeOK

LEMMA LookAtKeysDoes ==
  ASSUME PrimaryTypeOK, LookAtKeys
  PROVE  PrimaryTypeOK' /\ UNCHANGED <<ctl, conn, breaks>> /\ caller.pc = "keys"
<1>1. caller \in CallerType /\ stores \in StoresType
  BY Zenon DEF PrimaryTypeOK
<1>2. PICK started \in BOOLEAN : started = (caller.started \/ Mine("STARTED") \/ Mine("STOPPED"))
  BY Zenon
<1>3. PICK stops \in 0..2 : stops = IF caller.stopped > 0 THEN 2 ELSE IF HasStopped THEN 1 ELSE 0
  OBVIOUS
<1>4. /\ stores' = [stores EXCEPT !.keys = {}] /\ UNCHANGED <<ctl, conn, breaks>> /\ caller.pc = "keys"
      /\ caller' = [caller EXCEPT !.pc = "end", !.started = started, !.stopped = stops]
  BY <1>2, <1>3, Zenon DEF LookAtKeys
<1> HIDE <1>2, <1>3
<1>5. caller' \in CallerType
  BY <1>1, <1>4, ZenonT(30) DEF CallerType, CallPlaces
<1>6. {} \in KeyStore
  BY DEF KeyStore
<1>7. stores' \in StoresType
  BY <1>1, <1>4, <1>6, ZenonT(30) DEF StoresType
<1> QED
  BY <1>4, <1>5, <1>7 DEF PrimaryTypeOK

\* What the call of a script does besides: no command comes there.
Beyond == \/ CheckMode \/ LookAtException \/ LookAgain \/ NotStarted
          \/ ClearStores \/ LookAtErrors \/ LookAtKeys
LEMMA BeyondDoes ==
  ASSUME PrimaryTypeOK, Beyond
  PROVE  /\ PrimaryTypeOK' /\ UNCHANGED <<ctl, conn, breaks>>
         /\ caller.pc \notin {"idle", "send", "reconnect", "resend", "wait"}
<1>1. CASE CheckMode \/ LookAtException \/ LookAgain \/ NotStarted
  BY <1>1, CheckModeDoes
<1>2. CASE ClearStores
  BY <1>2, ClearStoresDoes
<1>3. CASE LookAtErrors
  BY <1>3, LookAtErrorsDoes
<1>4. CASE LookAtKeys
  BY <1>4, LookAtKeysDoes
<1> QED
  BY <1>1, <1>2, <1>3, <1>4, Zenon DEF Beyond

LEMMA InitPrimary ==
  ASSUME NEW heard \in Kinds, NEW safeties \in SUBSET Safeties, NEW remotes \in SUBSET BOOLEAN,
         PrimaryInit(heard, safeties, remotes)
  PROVE  PrimaryTypeOK /\ caller = NoCall /\ (ctl.safety = "FAULT" => ctl.mode = "POWER_OFF")
<1>1. PICK mode \in {"POWER_OFF", "RUNNING"}, safety \in safeties, remote \in remotes :
           /\ safety = "FAULT" => mode = "POWER_OFF"
           /\ ctl = [mode |-> mode, safety |-> safety, remote |-> remote, script |-> NoScript,
                  last |-> NoScript, inbox |-> <<>>, out |-> <<>>, told |-> Nothing, heard |-> heard]
  BY Zenon DEF PrimaryInit
<1>2. /\ conn = [live |-> TRUE, state |-> "connected", reader |-> "reading", queue |-> <<>>, run |-> TRUE]
      /\ stores = [exc |-> FALSE, err |-> {}, keys |-> {}, view |-> Nothing, safety |-> "UNDEFINED"]
      /\ caller = NoCall /\ breaks = 0
  BY Zenon DEF PrimaryInit
<1>3. ctl \in CtlType /\ ctl.safety = safety /\ ctl.mode = mode
  <2>1. mode \in RobotModes /\ safety \in Safeties /\ remote \in BOOLEAN
    BY DEF RobotModes
  <2> QED
    BY <1>1, <2>1, FirstIs, ScriptsAre, ZenonT(30) DEF CtlType
<1>4. conn \in ConnType
  BY <1>2, FirstIs, ZenonT(30) DEF ConnType
<1>5. stores \in StoresType
  <2>1. {} \in ErrorStore /\ {} \in KeyStore /\ "UNDEFINED" \in StoredSafeties
    BY DEF ErrorStore, KeyStore, StoredSafeties
  <2> QED
    BY <1>2, <2>1, ScriptsAre, ZenonT(30) DEF StoresType
<1> QED
  BY <1>1, <1>2, <1>3, <1>4, <1>5, NoCallIs DEF PrimaryTypeOK

-----------------------------------------------------------------------------
(* The robot state helper.  No call of its client is under way unless it   *)
(* waits for one, and that is the one its goal asks for.                   *)
HelperPlaces == {"idle", "start", "transition", "recover", "restart_safety", "jump", "power_on",
                 "command", "reach", "play"}
CallersThen == {"transition", "jump", "power_on", "reach"}
CommandOf(then) ==
  CASE then = "transition" -> "stop_program"
    [] then = "jump" -> "set_unlock_protective_stop"
    [] then = "power_on" -> "power_off"
    [] then = "reach" -> CommandFor(rsh.goal.mode)
PowersOn == rsh.pc = "power_on" \/ (rsh.pc = "command" /\ rsh.then = "power_on")
Calling ==
  /\ rsh.pc # "command" => caller.pc = "idle"
  /\ rsh.pc = "command" =>
       /\ caller.pc \in {"idle", "send", "reconnect", "resend", "wait"}
       /\ rsh.then \in CallersThen
       /\ caller.pc # "idle" => caller.what = "command" /\ caller.msg = CommandOf(rsh.then)
  /\ (rsh.goal = NoTarget) <=> (rsh.pc = "idle")
  /\ rsh.pc \notin {"idle", "start"} => rsh.goal.mode \in Settable
  /\ PowersOn => rsh.goal.mode = "IDLE"
  /\ rsh.pc = "play" => rsh.goal.mode = "RUNNING"

\* Before a command is on its way that changes the mode, before the robot is
\* free to move, and before anything is done about its safety.
Unmoved == \/ rsh.pc \in {"start", "transition", "recover", "restart_safety", "jump"}
           \/ rsh.pc = "command" /\ rsh.then \in {"transition", "jump"}
Blocked == \/ rsh.pc \in {"start", "transition", "recover", "restart_safety"}
           \/ rsh.pc = "command" /\ rsh.then \in {"transition", "jump"}
SafetyAsTold == \/ rsh.pc \in {"start", "transition", "recover", "restart_safety"}
                \/ rsh.pc = "command" /\ rsh.then = "transition"
Unlocks == rsh.pc = "command" /\ rsh.then = "jump"
\* The command of the call under way, as long as it has not been sent.
Unsent == rsh.pc = "command" /\ caller.pc \in {"send", "reconnect", "resend"}

\* What may be on its way to the robot.
Expected(what) ==
  \/ what = "stop_program"
  \/ ~SafetyAsTold /\ what = "set_unlock_protective_stop"
  \/ ~Unmoved /\ what = CommandFor(rsh.goal.mode)
  \/ /\ ~Unmoved /\ what = "power_off" /\ rsh.goal.mode = "IDLE"
     /\ rsh.mode # "IDLE" /\ ctl.mode # "IDLE"
PowerOrder(q) ==
  \A i, j \in DOMAIN q : q[i].what = "power_off" /\ q[j].what = "power_on" => i < j
ModeKept ==
  /\ rsh.mode = rsh.goal.mode => ctl.mode = rsh.goal.mode
  /\ Unmoved => rsh.mode = ctl.mode
  /\ \A i \in DOMAIN ctl.inbox : Expected(ctl.inbox[i].what)
  /\ rsh.goal.mode = "IDLE" =>
       /\ PowerOrder(ctl.inbox)
       /\ PowersOn => \A i \in DOMAIN ctl.inbox : ctl.inbox[i].what # "power_on"
       /\ Unsent /\ rsh.then = "power_on" => ctl.mode # "IDLE" /\ rsh.mode # "IDLE"

SaysStopped(p) == p.k = "state" => p.view.prot
AllSayStopped ==
  /\ stores.view.prot
  /\ \A i \in DOMAIN conn.queue : SaysStopped(conn.queue[i])
  /\ \A i \in DOMAIN ctl.out : SaysStopped(ctl.out[i])
UnlockDone == Unlocks /\ caller.pc = "idle" /\ caller.result = "done"
SafetyKept ==
  /\ SafetyAsTold => rsh.safety = ctl.safety
  /\ Unlocks => ctl.safety # "FAULT"
  /\ ctl.safety = "PROTECTIVE_STOP" => AllSayStopped
  /\ ~Blocked => ctl.safety = "NORMAL"
  /\ UnlockDone => ctl.safety = "NORMAL"
  /\ rsh.pc = "restart_safety" => ctl.safety = "FAULT"

FaultIsOff == ctl.safety = "FAULT" => ctl.mode = "POWER_OFF"
Undisturbed == rsh.goal # NoTarget /\ rsh.sound
HelperInv ==
  /\ rsh \in HelperState /\ FaultIsOff
  /\ session # "state" => rsh.goal = NoTarget
  /\ session = "state" => Calling
  /\ Undisturbed => conn.live /\ ModeKept /\ SafetyKept

\* What the thread of the goal leaves alone while the others go on.
SameGoal == /\ rsh'.mode = rsh.mode /\ rsh'.safety = rsh.safety /\ rsh'.goal = rsh.goal
            /\ rsh'.pc = rsh.pc /\ rsh'.then = rsh.then
SamePlaces == /\ Unmoved' <=> Unmoved
              /\ Blocked' <=> Blocked
              /\ SafetyAsTold' <=> SafetyAsTold
              /\ Unlocks' <=> Unlocks
              /\ PowersOn' <=> PowersOn

LEMMA PlacesStay ==
  ASSUME SameGoal
  PROVE  SamePlaces
BY DEF SameGoal, SamePlaces, Unmoved, Blocked, SafetyAsTold, Unlocks, PowersOn

LEMMA UpsettingDoes ==
  ASSUME rsh \in HelperState, Upsetting
  PROVE  rsh' \in HelperState /\ SameGoal /\ (rsh'.sound => rsh.sound /\ breaks' = breaks)
<1>1. PICK sound \in BOOLEAN : sound = (rsh.sound /\ breaks' = breaks)
  BY Zenon
<1>2. rsh' = [rsh EXCEPT !.sound = sound]
  BY <1>1, Zenon DEF Upsetting
<1>3. sound => rsh.sound /\ breaks' = breaks
  BY <1>1
<1> HIDE <1>1
<1>4. rsh' \in HelperState /\ SameGoal /\ rsh'.sound = sound
  BY <1>2, ZenonT(30) DEF HelperState, SameGoal
<1> QED
  BY <1>3, <1>4, Zenon

(* As long as the robot's mode and safety and what is on its way to it     *)
(* stay, what is said of them does.                                        *)
LEMMA ModeStays ==
  ASSUME ModeKept, SameRobot(ctl, ctl'), SameGoal, Unsent' => Unsent
  PROVE  ModeKept'
<1>1. SamePlaces
  BY PlacesStay
<1>2. ctl'.mode = ctl.mode /\ ctl'.inbox = ctl.inbox /\ rsh'.mode = rsh.mode /\ rsh'.goal = rsh.goal
      /\ rsh'.then = rsh.then
  BY DEF SameRobot, SameGoal
<1>3. \A what : Expected(what) => Expected(what)'
  BY <1>1, <1>2, Zenon DEF SamePlaces, Expected
<1>4. PowerOrder(ctl.inbox) => PowerOrder(ctl.inbox)'
  BY <1>2, Zenon DEF PowerOrder
<1>5. \A i \in DOMAIN ctl'.inbox : Expected(ctl.inbox[i].what)'
  BY <1>2, <1>3, Zenon DEF ModeKept
<1>6. (rsh'.mode = rsh'.goal.mode => ctl'.mode = rsh'.goal.mode) /\ (Unmoved' => rsh'.mode = ctl'.mode)
  BY <1>1, <1>2, Zenon DEF SamePlaces, ModeKept
<1>7. ASSUME rsh'.goal.mode = "IDLE"
      PROVE  /\ PowerOrder(ctl.inbox)'
             /\ PowersOn' => \A i \in DOMAIN ctl'.inbox : ctl'.inbox[i].what # "power_on"
             /\ Unsent' /\ rsh'.then = "power_on" => ctl'.mode # "IDLE" /\ rsh'.mode # "IDLE"
  BY <1>1, <1>2, <1>4, <1>7, Zenon DEF SamePlaces, ModeKept
<1> QED
  BY <1>5, <1>6, <1>7, Zenon DEF ModeKept

LEMMA SafetyStays ==
  ASSUME SafetyKept, ctl'.safety = ctl.safety, SameGoal,
         ctl.safety = "PROTECTIVE_STOP" /\ AllSayStopped => AllSayStopped',
         UnlockDone' => UnlockDone \/ ctl.safety = "NORMAL"
  PROVE  SafetyKept'
<1>1. SamePlaces
  BY PlacesStay
<1>2. rsh'.safety = rsh.safety /\ rsh'.pc = rsh.pc
  BY DEF SameGoal
<1> QED
  BY <1>1, <1>2, Zenon DEF SamePlaces, SafetyKept

LEMMA CallingStays ==
  ASSUME Calling, SameGoal,
         \/ SameCaller
         \/ rsh.pc = "command" /\ caller.pc # "idle" /\ Onward
         \/ rsh.pc = "command" /\ caller'.pc = "idle"
  PROVE  Calling'
<1>1. SamePlaces
  BY PlacesStay
<1>2. rsh'.goal = rsh.goal /\ rsh'.pc = rsh.pc /\ rsh'.then = rsh.then
  BY DEF SameGoal
<1>3. \A then : CommandOf(then)' = CommandOf(then)
  BY <1>2, Zenon DEF CommandOf
<1>4. CommandOf(rsh.then)' = CommandOf(rsh.then)
  BY <1>2, Zenon DEF CommandOf
<1>5. rsh'.pc # "command" => caller'.pc = "idle"
  BY <1>2, Zenon DEF Calling, SameCaller
<1>6. ASSUME rsh'.pc = "command"
      PROVE  /\ caller'.pc \in {"idle", "send", "reconnect", "resend", "wait"}
             /\ rsh'.then \in CallersThen
             /\ caller'.pc # "idle" => caller'.what = "command" /\ caller'.msg = CommandOf(rsh.then)'
  BY <1>2, <1>4, <1>6 DEF Calling, SameCaller, Onward
<1>7. /\ (rsh'.goal = NoTarget) <=> (rsh'.pc = "idle")
      /\ rsh'.pc \notin {"idle", "start"} => rsh'.goal.mode \in Settable
      /\ PowersOn' => rsh'.goal.mode = "IDLE"
      /\ rsh'.pc = "play" => rsh'.goal.mode = "RUNNING"
  BY <1>1, <1>2 DEF Calling, SamePlaces
<1> QED
  BY <1>5, <1>6, <1>7, Zenon DEF Calling

(* The steps of the client, as long as nothing upsets the goal.            *)
Kept == conn'.live /\ ModeKept' /\ SafetyKept'

LEMMA StillSayStopped ==
  ASSUME AllSayStopped, NoNewState(ctl, ctl')
  PROVE  \A i \in DOMAIN ctl'.out : SaysStopped(ctl'.out[i])
BY Zenon DEF AllSayStopped, NoNewState, SaysStopped

LEMMA ObeyKeeps ==
  ASSUME PrimaryTypeOK, Calling, Undisturbed, conn.live, ModeKept, SafetyKept, SameGoal, Obey,
         UNCHANGED <<conn, stores, caller>>
  PROVE  Kept
<1> DEFINE cmd == Head(ctl.inbox)
<1>1. /\ ctl \in CtlType /\ ctl' \in CtlType /\ NoNewState(ctl, ctl')
      /\ ctl.inbox # <<>> /\ cmd \in Orders /\ ctl'.inbox = Tail(ctl.inbox)
      /\ ModeAfter(ctl, cmd, ctl') /\ SafetyAfter(ctl, cmd, ctl')
  BY ObeyDoes, Zenon DEF PrimaryTypeOK
<1>2. SamePlaces
  BY PlacesStay
<1>3. /\ rsh'.mode = rsh.mode /\ rsh'.safety = rsh.safety /\ rsh'.goal = rsh.goal
      /\ rsh'.pc = rsh.pc /\ rsh'.then = rsh.then
  BY DEF SameGoal
<1>4. caller' = caller /\ stores' = stores /\ conn' = conn
  OBVIOUS
<1>5. PICK q : q = ctl.inbox
  OBVIOUS
<1>6. q \in Seq(Orders) /\ q # <<>> /\ cmd = q[1] /\ 1 \in DOMAIN q
  <2>1. q \in Seq(Orders)
    BY <1>1, <1>5, Zenon DEF CtlType, Inboxes
  <2>2. q # <<>> /\ cmd = Head(q)
    BY <1>1, <1>5
  <2> HIDE <1>5 DEF cmd
  <2> QED
    BY <2>1, <2>2
<1>7. PICK rest : rest = ctl'.inbox
  OBVIOUS
<1>8. \A i \in DOMAIN rest : i + 1 \in DOMAIN q /\ rest[i] = q[i + 1] /\ i \in Nat /\ 1 < i + 1
  <2>1. rest = Tail(q)
    BY <1>1, <1>5, <1>7
  <2> HIDE <1>5, <1>7
  <2> QED
    BY <1>6, <2>1
<1>9. /\ \A i \in DOMAIN q : Expected(q[i].what)
      /\ rsh.goal.mode = "IDLE" =>
           /\ PowerOrder(q)
           /\ PowersOn => \A i \in DOMAIN q : q[i].what # "power_on"
           /\ Unsent /\ rsh.then = "power_on" => ctl.mode # "IDLE" /\ rsh.mode # "IDLE"
  BY <1>5, Zenon DEF ModeKept
<1> HIDE <1>5, <1>7 DEF cmd
<1>10. Expected(cmd.what)
  BY <1>6, <1>9, Zenon
<1>11. ~Unmoved => rsh.goal.mode \in Settable
  BY DEF Calling, Unmoved, Undisturbed
<1>12. rsh.mode = rsh.goal.mode => ctl'.mode = rsh.goal.mode
  <2> SUFFICES ASSUME rsh.mode = rsh.goal.mode PROVE ctl'.mode = rsh.goal.mode
    OBVIOUS
  <2>1. ctl.mode = rsh.goal.mode
    BY DEF ModeKept
  <2>2. CASE ~Unmoved /\ cmd.what = CommandFor(rsh.goal.mode)
    <3>1. \/ rsh.goal.mode = "POWER_OFF" /\ cmd.what = "power_off"
          \/ rsh.goal.mode = "IDLE" /\ cmd.what = "power_on"
          \/ rsh.goal.mode = "RUNNING" /\ cmd.what = "set_robotmode_run"
      BY <1>11, <2>2, Zenon DEF CommandFor, Settable
    <3> QED
      BY <1>1, <2>1, <3>1 DEF ModeAfter
  <2> QED
    BY <1>1, <1>10, <2>1, <2>2 DEF Expected, ModeAfter
<1>13. Unmoved => cmd.what \in {"stop_program", "set_unlock_protective_stop"}
  BY <1>10 DEF Expected
<1>14. Unmoved => ctl'.mode = ctl.mode
  BY <1>1, <1>13 DEF ModeAfter
<1>15. ASSUME NEW i \in DOMAIN rest
       PROVE  Expected(rest[i].what)'
  <2>1. Expected(q[i + 1].what) /\ rest[i] = q[i + 1]
    BY <1>8, <1>9
  <2>2. PICK what : what = rest[i].what
    OBVIOUS
  <2>3. CASE /\ ~Unmoved /\ what = "power_off" /\ rsh.goal.mode = "IDLE"
             /\ rsh.mode # "IDLE" /\ ctl.mode # "IDLE"
    <3>1. cmd.what # "power_on"
      <4>1. PowerOrder(q)
        BY <1>9, <2>3
      <4>2. q[1].what = "power_on" => i + 1 < 1
        BY <1>6, <1>8, <2>1, <2>2, <2>3, <4>1 DEF PowerOrder
      <4> QED
        BY <1>6, <1>8, <4>2
    <3>2. cmd.what # "set_robotmode_run"
      BY <1>10, <2>3, Zenon DEF Expected, CommandFor
    <3>3. ctl'.mode # "IDLE"
      BY <1>1, <2>3, <3>1, <3>2 DEF ModeAfter
    <3> QED
      BY <1>2, <1>3, <2>2, <2>3, <3>3, Zenon DEF Expected, SamePlaces
  <2> QED
    BY <1>2, <1>3, <2>1, <2>2, <2>3, Zenon DEF Expected, SamePlaces
<1>16. rsh.goal.mode = "IDLE" =>
         /\ PowerOrder(rest)
         /\ PowersOn => \A i \in DOMAIN rest : rest[i].what # "power_on"
  <2> SUFFICES ASSUME rsh.goal.mode = "IDLE"
               PROVE  /\ PowerOrder(rest)
                      /\ PowersOn => \A i \in DOMAIN rest : rest[i].what # "power_on"
    OBVIOUS
  <2>1. PowerOrder(rest)
    <3> SUFFICES ASSUME NEW i \in DOMAIN rest, NEW j \in DOMAIN rest,
                        rest[i].what = "power_off", rest[j].what = "power_on"
                 PROVE  i < j
      BY DEF PowerOrder
    <3>1. i + 1 < j + 1
      BY <1>8, <1>9 DEF PowerOrder
    <3> QED
      BY <1>8, <3>1
  <2>2. PowersOn => \A i \in DOMAIN rest : rest[i].what # "power_on"
    BY <1>8, <1>9, Zenon
  <2> QED
    BY <2>1, <2>2
<1>17. rsh.goal.mode = "IDLE" /\ Unsent /\ rsh.then = "power_on" => ctl'.mode # "IDLE" /\ rsh.mode # "IDLE"
  <2> SUFFICES ASSUME rsh.goal.mode = "IDLE", Unsent, rsh.then = "power_on"
               PROVE  ctl'.mode # "IDLE" /\ rsh.mode # "IDLE"
    OBVIOUS
  <2>1. PowersOn
    BY DEF PowersOn, Unsent
  <2>2. ctl.mode # "IDLE" /\ rsh.mode # "IDLE" /\ cmd.what # "power_on"
    BY <1>6, <1>9, <2>1
  <2>3. cmd.what # "set_robotmode_run"
    BY <1>10, Zenon DEF Expected, CommandFor
  <2> QED
    BY <1>1, <2>2, <2>3 DEF ModeAfter
<1>18. ModeKept'
  <2>1. rsh'.mode = rsh'.goal.mode => ctl'.mode = rsh'.goal.mode
    BY <1>3, <1>12
  <2>2. Unmoved' => rsh'.mode = ctl'.mode
    BY <1>2, <1>3, <1>14 DEF SamePlaces, ModeKept
  <2>3. \A i \in DOMAIN ctl'.inbox : Expected(ctl.inbox[i].what)'
    BY <1>7, <1>15, Zenon
  <2>4. Unsent' <=> Unsent
    BY <1>3, <1>4, Zenon DEF Unsent
  <2>5. rsh'.goal.mode = "IDLE" =>
          /\ PowerOrder(ctl.inbox)'
          /\ PowersOn' => \A i \in DOMAIN ctl'.inbox : ctl'.inbox[i].what # "power_on"
          /\ Unsent' /\ rsh'.then = "power_on" => ctl'.mode # "IDLE" /\ rsh'.mode # "IDLE"
    BY <1>2, <1>3, <1>7, <1>16, <1>17, <2>4, Zenon DEF SamePlaces, PowerOrder
  <2> QED
    BY <2>1, <2>2, <2>3, <2>5, Zenon DEF ModeKept
<1>19. SafetyAsTold => ctl'.safety = ctl.safety
  <2>1. SafetyAsTold => Unmoved
    BY DEF SafetyAsTold, Unmoved
  <2> QED
    BY <1>1, <1>10, <1>13, <2>1 DEF SafetyAfter, Expected
<1>20. SafetyKept'
  <2>1. SafetyAsTold' => rsh'.safety = ctl'.safety
    BY <1>2, <1>3, <1>19 DEF SamePlaces, SafetyKept
  <2>2. Unlocks' => ctl'.safety # "FAULT"
    BY <1>1, <1>2 DEF SamePlaces, SafetyKept, SafetyAfter
  <2>3. ctl'.safety = "PROTECTIVE_STOP" => AllSayStopped'
    <3> SUFFICES ASSUME ctl'.safety = "PROTECTIVE_STOP" PROVE AllSayStopped'
      OBVIOUS
    <3>1. AllSayStopped
      BY <1>1 DEF SafetyAfter, SafetyKept
    <3>2. \A i \in DOMAIN ctl'.out : SaysStopped(ctl'.out[i])
      BY <1>1, <3>1, StillSayStopped
    <3>3. /\ stores'.view.prot
          /\ \A i \in DOMAIN conn'.queue : SaysStopped(conn'.queue[i])
      BY <1>4, <3>1 DEF AllSayStopped
    <3> QED
      BY <3>2, <3>3, Zenon DEF AllSayStopped, SaysStopped
  <2>4. ~Blocked' => ctl'.safety = "NORMAL"
    BY <1>1, <1>2 DEF SamePlaces, SafetyKept, SafetyAfter
  <2>5. UnlockDone' => ctl'.safety = "NORMAL"
    <3>1. UnlockDone' => UnlockDone
      BY <1>2, <1>4 DEF SamePlaces, UnlockDone
    <3> QED
      BY <1>1, <3>1 DEF SafetyKept, SafetyAfter
  <2>6. rsh'.pc = "restart_safety" => ctl'.safety = "FAULT"
    BY <1>1, <1>3 DEF SafetyKept, SafetyAfter
  <2> QED
    BY <2>1, <2>2, <2>3, <2>4, <2>5, <2>6, Zenon DEF SafetyKept
<1> QED
  BY <1>4, <1>18, <1>20 DEF Kept

LEMMA SayingKeeps ==
  ASSUME PrimaryTypeOK, conn.live, ModeKept, SafetyKept, SameGoal, ScriptEnds \/ \E what \in Severities : ScriptRaises(what),
         UNCHANGED <<conn, stores, caller>>
  PROVE  Kept
<1>1. ctl' \in CtlType /\ SameRobot(ctl, ctl') /\ NoNewState(ctl, ctl')
  BY ScriptEndsDoes, ScriptRaisesDoes, Zenon
<1>2. caller' = caller /\ stores' = stores /\ conn' = conn /\ ctl'.safety = ctl.safety
  BY <1>1 DEF SameRobot
<1>3. AllSayStopped => AllSayStopped'
  <2> SUFFICES ASSUME AllSayStopped PROVE AllSayStopped'
    OBVIOUS
  <2>1. \A i \in DOMAIN ctl'.out : SaysStopped(ctl'.out[i])
    BY <1>1, StillSayStopped
  <2> QED
    BY <1>2, <2>1, Zenon DEF AllSayStopped, SaysStopped
<1>4. SamePlaces
  BY PlacesStay
<1>5. (Unsent' => Unsent) /\ (UnlockDone' => UnlockDone)
  BY <1>2, <1>4, Zenon DEF Unsent, UnlockDone, SamePlaces, SameGoal
<1> QED
  BY <1>1, <1>2, <1>3, <1>5, ModeStays, SafetyStays DEF Kept

LEMMA TellStateKeeps ==
  ASSUME PrimaryTypeOK, conn.live, ModeKept, SafetyKept, SameGoal, TellState,
         UNCHANGED <<conn, stores, caller>>
  PROVE  Kept
<1>1. /\ ctl' \in CtlType /\ SameRobot(ctl, ctl')
      /\ \A i \in DOMAIN ctl'.out : \/ i \in DOMAIN ctl.out /\ ctl'.out[i] = ctl.out[i]
                                    \/ TrueOfStop(ctl'.out[i])
  BY TellStateDoes, Zenon
<1>2. caller' = caller /\ stores' = stores /\ conn' = conn /\ ctl'.safety = ctl.safety
  BY <1>1 DEF SameRobot
<1>3. ctl.safety = "PROTECTIVE_STOP" /\ AllSayStopped => AllSayStopped'
  <2> SUFFICES ASSUME ctl.safety = "PROTECTIVE_STOP", AllSayStopped PROVE AllSayStopped'
    OBVIOUS
  <2>1. ASSUME NEW i \in DOMAIN ctl'.out
        PROVE  SaysStopped(ctl'.out[i])
    <3>1. CASE i \in DOMAIN ctl.out /\ ctl'.out[i] = ctl.out[i]
      BY <3>1, Zenon DEF AllSayStopped
    <3>2. CASE TrueOfStop(ctl'.out[i])
      BY <3>2, Zenon DEF TrueOfStop, SaysStopped
    <3> QED
      BY <1>1, <3>1, <3>2, Zenon
  <2> QED
    BY <1>2, <2>1, Zenon DEF AllSayStopped, SaysStopped
<1>4. SamePlaces
  BY PlacesStay
<1>5. (Unsent' => Unsent) /\ (UnlockDone' => UnlockDone)
  BY <1>2, <1>4, Zenon DEF Unsent, UnlockDone, SamePlaces, SameGoal
<1> QED
  BY <1>1, <1>2, <1>3, <1>5, ModeStays, SafetyStays DEF Kept

LEMMA ProduceKeeps ==
  ASSUME PrimaryTypeOK, conn.live, ModeKept, SafetyKept, SameGoal, Produce
  PROVE  Kept
<1>1. /\ SameRobot(ctl, ctl') /\ NoNewState(ctl, ctl') /\ SameCaller
      /\ stores' = stores /\ conn'.live = conn.live /\ QueuedFrom
  BY ProduceDoes, Zenon
<1>2. ctl'.safety = ctl.safety
  BY <1>1 DEF SameRobot
<1>3. AllSayStopped => AllSayStopped'
  <2> SUFFICES ASSUME AllSayStopped PROVE AllSayStopped'
    OBVIOUS
  <2>1. \A i \in DOMAIN ctl'.out : SaysStopped(ctl'.out[i])
    BY <1>1, StillSayStopped
  <2>2. ctl.out # <<>> => SaysStopped(Head(ctl.out))
    <3>1. PICK out : out = ctl.out
      OBVIOUS
    <3>2. out \in Seq(Packages)
      BY <3>1, Zenon DEF PrimaryTypeOK, CtlType, Streams
    <3>3. \A i \in DOMAIN out : SaysStopped(out[i])
      BY <3>1, Zenon DEF AllSayStopped
    <3> HIDE <3>1
    <3>4. out # <<>> => 1 \in DOMAIN out /\ Head(out) = out[1]
      BY <3>2
    <3>5. out # <<>> => SaysStopped(Head(out))
      BY <3>3, <3>4, Zenon
    <3> QED
      BY <3>1, <3>5
  <2>3. \A i \in DOMAIN conn'.queue : SaysStopped(conn'.queue[i])
    <3> SUFFICES ASSUME NEW i \in DOMAIN conn'.queue PROVE SaysStopped(conn'.queue[i])
      OBVIOUS
    <3>1. CASE i \in DOMAIN conn.queue /\ conn'.queue[i] = conn.queue[i]
      BY <3>1, Zenon DEF AllSayStopped
    <3>2. CASE ctl.out # <<>> /\ conn'.queue[i] = Head(ctl.out)
      BY <2>2, <3>2, Zenon
    <3> QED
      BY <1>1, <3>1, <3>2, Zenon DEF QueuedFrom
  <2> QED
    BY <1>1, <2>1, <2>3, Zenon DEF AllSayStopped, SaysStopped
<1>4. SamePlaces
  BY PlacesStay
<1>5. (Unsent' => Unsent) /\ (UnlockDone' => UnlockDone)
  BY <1>1, <1>4, Zenon DEF Unsent, UnlockDone, SamePlaces, SameGoal, SameCaller
<1> QED
  BY <1>1, <1>2, <1>3, <1>5, ModeStays, SafetyStays DEF Kept

LEMMA ReconnectKeeps ==
  ASSUME PrimaryTypeOK, conn.live, ModeKept, SafetyKept, SameGoal, Reconnect
  PROVE  Kept
<1>1. ctl' = ctl /\ stores' = stores /\ caller' = caller /\ conn'.live /\ conn'.queue = conn.queue
  BY ReconnectDoes
<1>2. SameRobot(ctl, ctl') /\ ctl'.safety = ctl.safety
  BY <1>1 DEF SameRobot
<1>3. AllSayStopped => AllSayStopped'
  BY <1>1, Zenon DEF AllSayStopped, SaysStopped
<1>4. SamePlaces
  BY PlacesStay
<1>5. (Unsent' => Unsent) /\ (UnlockDone' => UnlockDone)
  BY <1>1, <1>4, Zenon DEF Unsent, UnlockDone, SamePlaces, SameGoal
<1> QED
  BY <1>1, <1>2, <1>3, <1>5, ModeStays, SafetyStays DEF Kept

LEMMA ConsumeKeeps ==
  ASSUME PrimaryTypeOK, conn.live, ModeKept, SafetyKept, SameGoal, Consume
  PROVE  Kept
<1>1. /\ ctl' = ctl /\ caller' = caller
      /\ conn.queue # <<>> /\ conn'.queue = Tail(conn.queue) /\ conn'.live = conn.live
      /\ \/ stores'.view = stores.view
         \/ Head(conn.queue).k = "state" /\ stores'.view = Head(conn.queue).view
  BY ConsumeDoes, Zenon
<1>2. SameRobot(ctl, ctl') /\ ctl'.safety = ctl.safety
  BY <1>1 DEF SameRobot
<1>3. AllSayStopped => AllSayStopped'
  <2> SUFFICES ASSUME AllSayStopped PROVE AllSayStopped'
    OBVIOUS
  <2>1. PICK q : q = conn.queue
    OBVIOUS
  <2>2. PICK rest : rest = conn'.queue
    OBVIOUS
  <2>3. q \in Seq(Packages) /\ q # <<>> /\ rest = Tail(q)
    <3>1. q \in Seq(Packages)
      BY <2>1, Zenon DEF PrimaryTypeOK, ConnType, Streams
    <3> QED
      BY <1>1, <2>1, <2>2, <3>1
  <2>4. \A i \in DOMAIN q : SaysStopped(q[i])
    BY <2>1, Zenon DEF AllSayStopped
  <2> HIDE <2>1, <2>2
  <2>5. /\ 1 \in DOMAIN q /\ Head(q) = q[1]
        /\ \A i \in DOMAIN rest : i + 1 \in DOMAIN q /\ rest[i] = q[i + 1]
    BY <2>3
  <2>6. SaysStopped(Head(q)) /\ \A i \in DOMAIN rest : SaysStopped(rest[i])
    BY <2>4, <2>5, Zenon
  <2>7. stores'.view.prot
    BY <1>1, <2>1, <2>6, Zenon DEF AllSayStopped, SaysStopped
  <2>8. \A i \in DOMAIN conn'.queue : SaysStopped(conn'.queue[i])
    BY <2>2, <2>6
  <2> QED
    BY <1>1, <2>7, <2>8, Zenon DEF AllSayStopped, SaysStopped
<1>4. SamePlaces
  BY PlacesStay
<1>5. (Unsent' => Unsent) /\ (UnlockDone' => UnlockDone)
  BY <1>1, <1>4, Zenon DEF Unsent, UnlockDone, SamePlaces, SameGoal
<1> QED
  BY <1>1, <1>2, <1>3, <1>5, ModeStays, SafetyStays DEF Kept

LEMMA ReconnectStreamKeeps ==
  ASSUME PrimaryTypeOK, conn.live, ModeKept, SafetyKept, SameGoal, ReconnectStream
  PROVE  Kept
<1>1. /\ ctl' = ctl /\ stores' = stores /\ conn'.live /\ conn'.queue = conn.queue
      /\ Onward /\ caller.pc = "reconnect"
  BY ReconnectStreamDoes
<1>2. SameRobot(ctl, ctl') /\ ctl'.safety = ctl.safety
  BY <1>1 DEF SameRobot
<1>3. AllSayStopped => AllSayStopped'
  BY <1>1, Zenon DEF AllSayStopped, SaysStopped
<1>4. SamePlaces
  BY PlacesStay
<1>5. Unsent' => Unsent
  BY <1>1 DEF Unsent, SameGoal
<1>6. ~UnlockDone'
  BY <1>1 DEF UnlockDone, Onward
<1> QED
  BY <1>1, <1>2, <1>3, <1>5, <1>6, ModeStays, SafetyStays DEF Kept

\* A command to unlock is done only when the robot said that it is unlocked.
LEMMA WaitEndsKeeps ==
  ASSUME PrimaryTypeOK, Calling, conn.live, ModeKept, SafetyKept, SameGoal, WaitEnds \/ WaitTimeout
  PROVE  Kept
<1>1. /\ ctl' = ctl /\ stores' = stores /\ conn' = conn
      /\ caller.pc = "wait" /\ caller'.pc = "idle"
      /\ caller'.result = "done" => Reached(stores.view)
  BY WaitEndsDoes, Zenon
<1>2. SameRobot(ctl, ctl') /\ ctl'.safety = ctl.safety
  BY <1>1 DEF SameRobot
<1>3. AllSayStopped => AllSayStopped'
  BY <1>1, Zenon DEF AllSayStopped, SaysStopped
<1>4. SamePlaces
  BY PlacesStay
<1>5. ~Unsent'
  BY <1>1 DEF Unsent
<1>6. UnlockDone' => ctl.safety = "NORMAL"
  <2> SUFFICES ASSUME UnlockDone' PROVE ctl.safety = "NORMAL"
    OBVIOUS
  <2>1. Unlocks /\ Reached(stores.view)
    BY <1>1, <1>4 DEF UnlockDone, SamePlaces
  <2>2. caller.msg = "set_unlock_protective_stop"
    <3>1. caller.msg = CommandOf("jump")
      BY <1>1, <2>1 DEF Calling, Unlocks
    <3> QED
      BY <3>1, Zenon DEF CommandOf
  <2>3. ~stores.view.prot
    BY <2>1, <2>2, Zenon DEF Reached
  <2>4. ctl.safety \in Safeties
    BY Zenon DEF PrimaryTypeOK, CtlType
  <2>5. ctl.safety # "PROTECTIVE_STOP" /\ ctl.safety # "FAULT"
    BY <2>1, <2>3 DEF SafetyKept, AllSayStopped
  <2> QED
    BY <2>4, <2>5 DEF Safeties
<1> QED
  BY <1>1, <1>2, <1>3, <1>5, <1>6, ModeStays, SafetyStays DEF Kept

\* What is sent is expected, and in order.
LEMMA SendKeeps ==
  ASSUME PrimaryTypeOK, Calling, Undisturbed, conn.live, ModeKept, SafetyKept, SameGoal, Send
  PROVE  Kept
<1>1. /\ ctl \in CtlType /\ stores' = stores
      /\ ctl'.mode = ctl.mode /\ ctl'.safety = ctl.safety /\ ctl'.out = ctl.out
      /\ conn'.live = conn.live /\ conn'.queue = conn.queue
      /\ caller.pc \in {"send", "resend"}
      /\ ctl'.inbox = ctl.inbox \/ SentOn
      /\ caller.msg \notin {"script", "secondary"} => Onward
  BY SendDoes, Zenon DEF PrimaryTypeOK
<1>2. SamePlaces
  BY PlacesStay
<1>3. /\ rsh'.mode = rsh.mode /\ rsh'.goal = rsh.goal /\ rsh'.pc = rsh.pc /\ rsh'.then = rsh.then
  BY DEF SameGoal
<1>4. /\ rsh.pc = "command" /\ rsh.then \in CallersThen /\ rsh.goal.mode \in Settable
      /\ caller.msg = CommandOf(rsh.then)
  BY <1>1 DEF Calling
<1>5. \/ rsh.then = "transition" /\ caller.msg = "stop_program"
      \/ rsh.then = "jump" /\ caller.msg = "set_unlock_protective_stop"
      \/ rsh.then = "power_on" /\ caller.msg = "power_off"
      \/ rsh.then = "reach" /\ caller.msg = CommandFor(rsh.goal.mode)
  BY <1>4, Zenon DEF CommandOf, CallersThen
<1>6. CommandFor(rsh.goal.mode) \in {"power_off", "power_on", "set_robotmode_run"}
      /\ (rsh.goal.mode = "IDLE" => CommandFor(rsh.goal.mode) = "power_on")
  BY <1>4, Zenon DEF CommandFor, Settable
<1>7. Onward
  BY <1>1, <1>5, <1>6
<1>8. Unsent /\ (Unsent' => Unsent) /\ ~UnlockDone'
  BY <1>1, <1>3, <1>4, <1>7 DEF Unsent, UnlockDone, Onward
<1>9. AllSayStopped => AllSayStopped'
  BY <1>1, Zenon DEF AllSayStopped, SaysStopped
<1>10. SafetyKept'
  BY <1>1, <1>8, <1>9, SafetyStays
<1>11. CASE ctl'.inbox = ctl.inbox
  <2>1. SameRobot(ctl, ctl')
    BY <1>1, <1>11 DEF SameRobot
  <2> QED
    BY <1>1, <1>8, <1>10, <2>1, ModeStays DEF Kept
<1>12. CASE SentOn
  <2>1. PICK o \in Orders : /\ o.what = caller.msg /\ ctl'.inbox = Append(ctl.inbox, o)
                            /\ caller'.pc \notin {"send", "reconnect", "resend"}
    BY <1>12, Zenon DEF SentOn
  <2>2. ~Unsent'
    BY <2>1, Zenon DEF Unsent
  <2>3. PICK q : q = ctl.inbox
    OBVIOUS
  <2>4. PICK sent : sent = ctl'.inbox
    OBVIOUS
  <2>5. q \in Seq(Orders) /\ sent = Append(q, o)
    <3>1. q \in Seq(Orders)
      BY <1>1, <2>3, Zenon DEF CtlType, Inboxes
    <3> QED
      BY <2>1, <2>3, <2>4, <3>1
  <2>6. /\ \A i \in DOMAIN q : Expected(q[i].what)
        /\ rsh.goal.mode = "IDLE" =>
             /\ PowerOrder(q)
             /\ PowersOn => \A i \in DOMAIN q : q[i].what # "power_on"
             /\ rsh.then = "power_on" => ctl.mode # "IDLE" /\ rsh.mode # "IDLE"
    BY <1>8, <2>3, Zenon DEF ModeKept
  <2> HIDE <2>3, <2>4
  <2>7. \A i \in DOMAIN sent : \/ i \in DOMAIN q /\ sent[i] = q[i]
                               \/ i = Len(q) + 1 /\ sent[i] = o
    BY <2>5
  <2>8. \A i \in DOMAIN q : i \in Nat /\ i < Len(q) + 1
    BY <2>5
  <2>9. Expected(o.what)
    <3>1. CASE rsh.then = "transition"
      BY <1>5, <2>1, <3>1 DEF Expected
    <3>2. CASE rsh.then = "jump"
      BY <1>4, <1>5, <2>1, <3>2 DEF Expected, SafetyAsTold
    <3>3. CASE rsh.then = "power_on"
      <4>1. rsh.goal.mode = "IDLE"
        BY <1>4, <3>3 DEF Calling, PowersOn
      <4>2. ~Unmoved
        BY <1>4, <3>3 DEF Unmoved
      <4> QED
        BY <1>5, <2>1, <2>6, <3>3, <4>1, <4>2 DEF Expected
    <3>4. CASE rsh.then = "reach"
      <4>1. ~Unmoved
        BY <1>4, <3>4 DEF Unmoved
      <4> QED
        BY <1>5, <2>1, <3>4, <4>1, Zenon DEF Expected
    <3> QED
      BY <1>4, <3>1, <3>2, <3>3, <3>4 DEF CallersThen
  <2>10. \A i \in DOMAIN sent : Expected(sent[i].what)
    BY <2>6, <2>7, <2>9, Zenon
  <2>11. \A what : Expected(what) => Expected(what)'
    BY <1>1, <1>2, <1>3, Zenon DEF Expected, SamePlaces
  <2>12. rsh.goal.mode = "IDLE" => PowerOrder(sent)
    <3> SUFFICES ASSUME rsh.goal.mode = "IDLE", NEW i \in DOMAIN sent, NEW j \in DOMAIN sent,
                        sent[i].what = "power_off", sent[j].what = "power_on"
                 PROVE  i < j
      BY DEF PowerOrder
    <3>1. PowerOrder(q)
      BY <2>6
    <3>2. CASE i \in DOMAIN q /\ sent[i] = q[i] /\ j \in DOMAIN q /\ sent[j] = q[j]
      BY <3>1, <3>2 DEF PowerOrder
    <3>3. CASE i \in DOMAIN q /\ j = Len(q) + 1
      BY <2>8, <3>3
    <3>4. CASE i = Len(q) + 1 /\ sent[i] = o
      <4>1. caller.msg = "power_off"
        BY <2>1, <3>4
      <4>2. rsh.then = "power_on"
        BY <1>5, <1>6, <4>1
      <4>3. PowersOn
        BY <1>4, <4>2 DEF PowersOn
      <4>4. ~(j \in DOMAIN q /\ sent[j] = q[j])
        BY <2>6, <4>3
      <4>5. sent[j] = o
        BY <2>7, <4>4, Zenon
      <4> QED
        BY <3>4, <4>5
    <3> QED
      BY <2>7, <3>2, <3>3, <3>4
  <2>13. rsh.goal.mode = "IDLE" /\ PowersOn => \A i \in DOMAIN sent : sent[i].what # "power_on"
    <3> SUFFICES ASSUME rsh.goal.mode = "IDLE", PowersOn, NEW i \in DOMAIN sent
                 PROVE  sent[i].what # "power_on"
      OBVIOUS
    <3>1. rsh.then = "power_on"
      BY <1>4 DEF PowersOn
    <3>2. o.what = "power_off"
      BY <1>5, <2>1, <3>1
    <3> QED
      BY <2>6, <2>7, <3>2
  <2>14. ModeKept'
    <3>1. (rsh'.mode = rsh'.goal.mode => ctl'.mode = rsh'.goal.mode) /\ (Unmoved' => rsh'.mode = ctl'.mode)
      BY <1>1, <1>2, <1>3 DEF ModeKept, SamePlaces
    <3>2. \A i \in DOMAIN ctl'.inbox : Expected(ctl.inbox[i].what)'
      BY <2>4, <2>10, <2>11, Zenon
    <3>3. rsh'.goal.mode = "IDLE" =>
            /\ PowerOrder(ctl.inbox)'
            /\ PowersOn' => \A i \in DOMAIN ctl'.inbox : ctl'.inbox[i].what # "power_on"
      BY <1>2, <1>3, <2>4, <2>12, <2>13, Zenon DEF PowerOrder, SamePlaces
    <3> QED
      BY <2>2, <3>1, <3>2, <3>3, Zenon DEF ModeKept
  <2> QED
    BY <1>1, <1>10, <2>14 DEF Kept
<1> QED
  BY <1>1, <1>11, <1>12

(* The steps of the helper itself.                                         *)
HelperKept ==
  /\ rsh' \in HelperState /\ FaultIsOff' /\ Calling'
  /\ Undisturbed' => conn'.live /\ ModeKept' /\ SafetyKept'
HelperReady == PrimaryTypeOK /\ HelperInv /\ session = "state"
SameRsh == /\ rsh'.mode = rsh.mode /\ rsh'.safety = rsh.safety /\ rsh'.goal = rsh.goal
           /\ rsh'.sound = rsh.sound

LEMMA ReadyIs ==
  ASSUME HelperReady
  PROVE  /\ PrimaryTypeOK /\ rsh \in HelperState /\ FaultIsOff /\ Calling
         /\ Undisturbed => conn.live /\ ModeKept /\ SafetyKept
BY Zenon DEF HelperReady, HelperInv

LEMMA RshGoesTo ==
  ASSUME rsh \in HelperState, NEW place \in HelperPlaces, rsh' = [rsh EXCEPT !.pc = place]
  PROVE  /\ rsh' \in HelperState /\ SameRsh
         /\ rsh'.pc = place /\ rsh'.then = rsh.then
BY ZenonT(30) DEF HelperState, HelperPlaces, SameRsh

LEMMA RshEnds ==
  ASSUME rsh \in HelperState,
         rsh' \in {Aborted(rsh), Succeeded(rsh), [Aborted(rsh) EXCEPT !.sound = FALSE]}
  PROVE  /\ rsh' \in HelperState /\ rsh'.goal = NoTarget /\ rsh'.pc = "idle"
         /\ rsh'.result = "succeeded" => rsh' = Succeeded(rsh)
<1>1. CASE rsh' = Aborted(rsh)
  BY <1>1, ZenonT(30) DEF HelperState, Aborted
<1>2. CASE rsh' = Succeeded(rsh)
  BY <1>2, ZenonT(30) DEF HelperState, Succeeded
<1>3. CASE rsh' = [Aborted(rsh) EXCEPT !.sound = FALSE]
  <2>1. PICK r : r = Aborted(rsh)
    OBVIOUS
  <2>2. r \in HelperState /\ r.goal = NoTarget /\ r.pc = "idle" /\ r.result = "aborted"
    BY <2>1, ZenonT(30) DEF HelperState, Aborted
  <2>3. rsh' = [r EXCEPT !.sound = FALSE]
    BY <1>3, <2>1, Zenon
  <2> HIDE <2>1
  <2> QED
    BY <2>2, <2>3, ZenonT(30) DEF HelperState
<1> QED
  BY <1>1, <1>2, <1>3, Zenon

LEMMA GoalOver ==
  ASSUME rsh' \in HelperState, rsh'.goal = NoTarget, rsh'.pc = "idle", caller'.pc = "idle", FaultIsOff'
  PROVE  HelperKept
<1>1. ~PowersOn'
  BY Zenon DEF PowersOn
<1>2. Calling'
  BY <1>1, Zenon DEF Calling
<1>3. ~Undisturbed'
  BY Zenon DEF Undisturbed
<1> QED
  BY <1>2, <1>3, Zenon DEF HelperKept

LEMMA JumpDoes ==
  ASSUME PrimaryTypeOK, rsh \in HelperState, NEW cmd \in CommandNames, NEW then \in CallersThen, Jump(cmd, then)
  PROVE  /\ PrimaryTypeOK' /\ UNCHANGED <<ctl, conn, stores, breaks>>
         /\ rsh' \in HelperState /\ SameRsh
         /\ rsh'.pc = "command" /\ rsh'.then = then
         /\ caller'.pc = "send" /\ caller'.what = "command" /\ caller'.msg = cmd
<1>1. CallCommand(cmd) /\ rsh' = [rsh EXCEPT !.pc = "command", !.then = then]
  BY Zenon DEF Jump
<1>2. rsh' \in HelperState /\ SameRsh /\ rsh'.pc = "command" /\ rsh'.then = then
  BY <1>1, ZenonT(30) DEF HelperState, CallersThen, SameRsh
<1> QED
  BY <1>1, <1>2, CallCommandDoes

(* What is said of the mode and of the safety, when only the place changes. *)
LEMMA ModeMoves ==
  ASSUME ModeKept, ctl' = ctl, SameRsh,
         Unmoved' => Unmoved, SafetyAsTold' => SafetyAsTold,
         rsh.goal.mode = "IDLE" /\ PowersOn' => \A i \in DOMAIN ctl.inbox : ctl.inbox[i].what # "power_on",
         rsh.goal.mode = "IDLE" /\ Unsent' /\ rsh'.then = "power_on" => ctl.mode # "IDLE" /\ rsh.mode # "IDLE"
  PROVE  ModeKept'
<1>1. rsh'.mode = rsh.mode /\ rsh'.goal = rsh.goal
  BY DEF SameRsh
<1>2. \A what : Expected(what) => Expected(what)'
  BY <1>1, Zenon DEF Expected
<1>3. \A i \in DOMAIN ctl'.inbox : Expected(ctl.inbox[i].what)'
  BY <1>2, Zenon DEF ModeKept
<1>4. PowerOrder(ctl.inbox) => PowerOrder(ctl.inbox)'
  BY Zenon DEF PowerOrder
<1>5. (rsh'.mode = rsh'.goal.mode => ctl'.mode = rsh'.goal.mode) /\ (Unmoved' => rsh'.mode = ctl'.mode)
  BY <1>1, Zenon DEF ModeKept
<1>6. rsh'.goal.mode = "IDLE" =>
        /\ PowerOrder(ctl.inbox)'
        /\ PowersOn' => \A i \in DOMAIN ctl'.inbox : ctl'.inbox[i].what # "power_on"
        /\ Unsent' /\ rsh'.then = "power_on" => ctl'.mode # "IDLE" /\ rsh'.mode # "IDLE"
  BY <1>1, <1>4, Zenon DEF ModeKept
<1> QED
  BY <1>3, <1>5, <1>6, Zenon DEF ModeKept

LEMMA SafetyMoves ==
  ASSUME SafetyKept, UNCHANGED <<ctl, conn, stores>>, SameRsh,
         SafetyAsTold' => SafetyAsTold,
         Unlocks' => ctl.safety # "FAULT" /\ caller'.pc # "idle",
         ~Blocked' => ctl.safety = "NORMAL",
         rsh'.pc = "restart_safety" => ctl.safety = "FAULT"
  PROVE  SafetyKept'
<1>1. rsh'.safety = rsh.safety /\ ctl' = ctl /\ conn' = conn /\ stores' = stores
  BY DEF SameRsh
<1>2. AllSayStopped => AllSayStopped'
  BY <1>1, Zenon DEF AllSayStopped, SaysStopped
<1>3. ~UnlockDone'
  BY Zenon DEF UnlockDone
<1> QED
  BY <1>1, <1>2, <1>3, Zenon DEF SafetyKept

\* Where the thread of the goal is, and what that says of the others.
LEMMA Placed ==
  ASSUME NEW place, rsh.pc = place, place # "command"
  PROVE  /\ Unmoved <=> place \in {"start", "transition", "recover", "restart_safety", "jump"}
         /\ Blocked <=> place \in {"start", "transition", "recover", "restart_safety"}
         /\ SafetyAsTold <=> place \in {"start", "transition", "recover", "restart_safety"}
         /\ ~Unlocks /\ ~Unsent
         /\ PowersOn <=> place = "power_on"
BY DEF Unmoved, Blocked, SafetyAsTold, Unlocks, Unsent, PowersOn

LEMMA Waits ==
  ASSUME rsh.pc = "command"
  PROVE  /\ Unmoved <=> rsh.then \in {"transition", "jump"}
         /\ Blocked <=> rsh.then \in {"transition", "jump"}
         /\ SafetyAsTold <=> rsh.then = "transition"
         /\ Unlocks <=> rsh.then = "jump"
         /\ PowersOn <=> rsh.then = "power_on"
BY DEF Unmoved, Blocked, SafetyAsTold, Unlocks, PowersOn

LEMMA PlacedNext ==
  ASSUME NEW place, rsh'.pc = place, place # "command"
  PROVE  /\ Unmoved' <=> place \in {"start", "transition", "recover", "restart_safety", "jump"}
         /\ Blocked' <=> place \in {"start", "transition", "recover", "restart_safety"}
         /\ SafetyAsTold' <=> place \in {"start", "transition", "recover", "restart_safety"}
         /\ ~Unlocks' /\ ~Unsent'
         /\ PowersOn' <=> place = "power_on"
BY DEF Unmoved, Blocked, SafetyAsTold, Unlocks, Unsent, PowersOn

LEMMA WaitsNext ==
  ASSUME rsh'.pc = "command"
  PROVE  /\ Unmoved' <=> rsh'.then \in {"transition", "jump"}
         /\ Blocked' <=> rsh'.then \in {"transition", "jump"}
         /\ SafetyAsTold' <=> rsh'.then = "transition"
         /\ Unlocks' <=> rsh'.then = "jump"
         /\ PowersOn' <=> rsh'.then = "power_on"
BY DEF Unmoved, Blocked, SafetyAsTold, Unlocks, PowersOn

\* From one place to another, nothing else done.
LEMMA DecideKeeps ==
  ASSUME HelperReady, NEW place \in HelperPlaces \ {"idle", "start", "command", "power_on"}, Decide(place),
         rsh.pc \notin {"idle", "command"}, rsh.goal.mode \in Settable,
         place = "play" => rsh.goal.mode = "RUNNING",
         place \in {"transition", "recover", "restart_safety"} => rsh.pc \in {"start", "transition", "recover"},
         place = "jump" => rsh.pc \in {"start", "transition", "recover", "restart_safety", "jump"},
         place = "restart_safety" /\ SafetyAsTold => rsh.safety = "FAULT",
         place \in {"jump", "reach", "play"} /\ SafetyAsTold =>
             rsh.safety \notin {"PROTECTIVE_STOP", "FAULT"}
  PROVE  HelperKept /\ rsh'.goal = rsh.goal
<1>1. /\ PrimaryTypeOK /\ rsh \in HelperState /\ FaultIsOff /\ Calling
      /\ Undisturbed => conn.live /\ ModeKept /\ SafetyKept
  BY ReadyIs
<1>2. rsh' = [rsh EXCEPT !.pc = place] /\ UNCHANGED pvars
  BY Zenon DEF Decide, Step
<1>3. /\ rsh' \in HelperState /\ SameRsh /\ rsh'.pc = place /\ rsh'.then = rsh.then
  BY <1>1, <1>2, RshGoesTo, Zenon
<1>4. ctl' = ctl /\ conn' = conn /\ stores' = stores /\ caller' = caller
  BY <1>2 DEF pvars
<1>5. rsh'.goal = rsh.goal /\ rsh'.sound = rsh.sound
  BY <1>3 DEF SameRsh
<1>6. PICK here : here = rsh.pc
  OBVIOUS
<1>7. /\ Unmoved <=> here \in {"start", "transition", "recover", "restart_safety", "jump"}
      /\ Blocked <=> here \in {"start", "transition", "recover", "restart_safety"}
      /\ SafetyAsTold <=> here \in {"start", "transition", "recover", "restart_safety"}
  BY <1>6, Placed
<1>8. /\ Unmoved' <=> place \in {"start", "transition", "recover", "restart_safety", "jump"}
      /\ Blocked' <=> place \in {"start", "transition", "recover", "restart_safety"}
      /\ SafetyAsTold' <=> place \in {"start", "transition", "recover", "restart_safety"}
      /\ ~Unlocks' /\ ~Unsent' /\ ~PowersOn'
  BY <1>3, PlacedNext
<1>9. Calling'
  <2>1. caller'.pc = "idle"
    BY <1>1, <1>4 DEF Calling
  <2>2. (rsh'.goal = NoTarget) <=> (rsh'.pc = "idle")
    BY <1>1, <1>3, <1>5 DEF Calling
  <2> QED
    BY <1>3, <1>5, <1>8, <2>1, <2>2 DEF Calling
<1>10. FaultIsOff'
  BY <1>1, <1>4, Zenon DEF FaultIsOff
<1>11. ASSUME Undisturbed' PROVE conn'.live /\ ModeKept' /\ SafetyKept'
  <2>1. conn.live /\ ModeKept /\ SafetyKept
    BY <1>1, <1>5, <1>11 DEF Undisturbed
  <2>2. ModeKept'
    BY <1>3, <1>4, <1>6, <1>7, <1>8, <2>1, ModeMoves
  <2>3. SafetyAsTold => rsh.safety = ctl.safety
    BY <2>1 DEF SafetyKept
  <2>4. ~Blocked' => ctl.safety = "NORMAL"
    <3>1. ctl.safety \in Safeties
      BY <1>1, Zenon DEF PrimaryTypeOK, CtlType
    <3>2. ~Blocked => ctl.safety = "NORMAL"
      BY <2>1 DEF SafetyKept
    <3> QED
      BY <1>6, <1>7, <1>8, <2>3, <3>1, <3>2 DEF Safeties, HelperPlaces
  <2>5. place = "restart_safety" => ctl.safety = "FAULT"
    BY <1>6, <1>7, <2>3
  <2>6. SafetyKept'
    BY <1>3, <1>4, <1>6, <1>7, <1>8, <2>1, <2>4, <2>5, SafetyMoves
  <2> QED
    BY <1>4, <2>1, <2>2, <2>6
<1> QED
  BY <1>3, <1>5, <1>9, <1>10, <1>11 DEF HelperKept

\* A command is called for.
LEMMA JumpKeeps ==
  ASSUME HelperReady, NEW cmd \in CommandNames, NEW then \in CallersThen, Jump(cmd, then),
         rsh.pc \notin {"idle", "command"}, rsh.goal.mode \in Settable,
         cmd = CommandOf(then),
         then = "transition" => rsh.pc = "start",
         then = "jump" => rsh.pc = "recover" /\ rsh.safety = "PROTECTIVE_STOP",
         then \in {"power_on", "reach"} => rsh.pc \in {"jump", "power_on"},
         then = "power_on" => rsh.pc = "jump" /\ rsh.mode = "RUNNING" /\ rsh.goal.mode = "IDLE"
  PROVE  HelperKept /\ rsh'.goal = rsh.goal
<1>1. /\ PrimaryTypeOK /\ rsh \in HelperState /\ FaultIsOff /\ Calling
      /\ Undisturbed => conn.live /\ ModeKept /\ SafetyKept
  BY ReadyIs
<1>2. /\ UNCHANGED <<ctl, conn, stores, breaks>>
      /\ rsh' \in HelperState /\ SameRsh /\ rsh'.pc = "command" /\ rsh'.then = then
      /\ caller'.pc = "send" /\ caller'.what = "command" /\ caller'.msg = cmd
  BY <1>1, JumpDoes
<1>3. rsh'.goal = rsh.goal /\ rsh'.sound = rsh.sound /\ rsh'.safety = rsh.safety
  BY <1>2 DEF SameRsh
<1>4. PICK here : here = rsh.pc
  OBVIOUS
<1>5. /\ Unmoved <=> here \in {"start", "transition", "recover", "restart_safety", "jump"}
      /\ Blocked <=> here \in {"start", "transition", "recover", "restart_safety"}
      /\ SafetyAsTold <=> here \in {"start", "transition", "recover", "restart_safety"}
  BY <1>4, Placed
<1>6. /\ Unmoved' <=> then \in {"transition", "jump"}
      /\ Blocked' <=> then \in {"transition", "jump"}
      /\ SafetyAsTold' <=> then = "transition"
      /\ Unlocks' <=> then = "jump"
      /\ PowersOn' <=> then = "power_on"
  BY <1>2, WaitsNext
<1>7. Calling'
  <2>1. CommandOf(rsh.then)' = CommandOf(then)
    BY <1>2, <1>3, Zenon DEF CommandOf
  <2>2. (rsh'.goal = NoTarget) <=> (rsh'.pc = "idle")
    BY <1>1, <1>2, <1>3 DEF Calling
  <2> QED
    BY <1>2, <1>3, <1>6, <2>1, <2>2 DEF Calling
<1>8. FaultIsOff'
  BY <1>1, <1>2, Zenon DEF FaultIsOff
<1>9. ASSUME Undisturbed' PROVE conn'.live /\ ModeKept' /\ SafetyKept'
  <2>1. conn.live /\ ModeKept /\ SafetyKept
    BY <1>1, <1>3, <1>9 DEF Undisturbed
  <2>2. then = "power_on" =>
          /\ \A i \in DOMAIN ctl.inbox : ctl.inbox[i].what # "power_on"
          /\ ctl.mode # "IDLE" /\ rsh.mode # "IDLE"
    <3> SUFFICES ASSUME then = "power_on"
                 PROVE  /\ \A i \in DOMAIN ctl.inbox : ctl.inbox[i].what # "power_on"
                        /\ ctl.mode # "IDLE" /\ rsh.mode # "IDLE"
      OBVIOUS
    <3>1. Unmoved
      BY <1>4, <1>5
    <3>2. \A i \in DOMAIN ctl.inbox : ctl.inbox[i].what \in {"stop_program", "set_unlock_protective_stop"}
      BY <2>1, <3>1, Zenon DEF ModeKept, Expected
    <3> QED
      BY <2>1, <3>1, <3>2 DEF ModeKept
  <2>3. ModeKept'
    BY <1>2, <1>4, <1>5, <1>6, <2>1, <2>2, ModeMoves
  <2>4. Unlocks' => ctl.safety # "FAULT"
    BY <1>4, <1>5, <1>6, <2>1 DEF SafetyKept
  <2>5. ~Blocked' => ctl.safety = "NORMAL"
    BY <1>4, <1>5, <1>6, <2>1 DEF SafetyKept, CallersThen
  <2>6. SafetyKept'
    BY <1>2, <1>4, <1>5, <1>6, <2>1, <2>4, <2>5, SafetyMoves
  <2> QED
    BY <1>2, <2>1, <2>3, <2>6
<1> QED
  BY <1>2, <1>3, <1>7, <1>8, <1>9 DEF HelperKept

LEMMA NotOver ==
  ASSUME HelperKept, rsh'.goal = rsh.goal \/ rsh.goal = NoTarget
  PROVE  SuccessStep
BY Zenon DEF HelperKept, SuccessStep

LEMMA AbortKeeps ==
  ASSUME HelperReady, rsh.pc # "command" \/ caller.pc = "idle", UNCHANGED pvars,
         rsh' \in {Aborted(rsh), [Aborted(rsh) EXCEPT !.sound = FALSE]}
  PROVE  HelperKept /\ SuccessStep
<1>1. rsh \in HelperState /\ FaultIsOff /\ Calling
  BY ReadyIs
<1>2. rsh' \in HelperState /\ rsh'.goal = NoTarget /\ rsh'.pc = "idle"
  BY <1>1, RshEnds, Zenon
<1>3. rsh'.result = "aborted"
  <2>1. PICK r : r = Aborted(rsh)
    OBVIOUS
  <2>2. r.result = "aborted" /\ r \in HelperState
    BY <1>1, <2>1, ZenonT(30) DEF HelperState, Aborted
  <2>3. rsh' = r \/ rsh' = [r EXCEPT !.sound = FALSE]
    BY <2>1, Zenon
  <2> HIDE <2>1
  <2> QED
    BY <2>2, <2>3, ZenonT(30) DEF HelperState
<1>4. caller'.pc = "idle" /\ FaultIsOff'
  BY <1>1, Zenon DEF pvars, Calling, FaultIsOff
<1>5. HelperKept
  BY <1>2, <1>4, GoalOver
<1> QED
  BY <1>2, <1>3, <1>5 DEF SuccessStep

LEMMA StepAborts ==
  ASSUME HelperReady, rsh.pc # "command", Step(Aborted(rsh))
  PROVE  HelperKept /\ SuccessStep
BY AbortKeeps, Zenon DEF Step

\* What the topics tell is true, and the goal's thread stays where it is.
LEMMA TopicsKeep ==
  ASSUME HelperReady, Topics
  PROVE  HelperKept /\ SuccessStep
<1>1. /\ PrimaryTypeOK /\ rsh \in HelperState /\ FaultIsOff /\ Calling
      /\ Undisturbed => conn.live /\ ModeKept /\ SafetyKept
  BY ReadyIs
<1>2. ctl' = ctl /\ conn' = conn /\ stores' = stores /\ caller' = caller
  BY Zenon DEF Topics, pvars
<1>3. ctl.mode \in RobotModes /\ ctl.safety \in Safeties
  BY <1>1, Zenon DEF PrimaryTypeOK, CtlType
<1>4. /\ rsh' \in HelperState
      /\ rsh'.goal = rsh.goal /\ rsh'.pc = rsh.pc /\ rsh'.then = rsh.then /\ rsh'.sound = rsh.sound
      /\ rsh'.mode = rsh.mode \/ rsh'.mode = ctl.mode
      /\ rsh'.safety = rsh.safety \/ rsh'.safety = ctl.safety
  <2>1. CASE rsh' = [rsh EXCEPT !.mode = ctl.mode]
    <3>1. PICK mode \in {"UNKNOWN", "POWER_OFF", "IDLE", "RUNNING"} : mode = ctl.mode
      BY <1>3 DEF RobotModes
    <3>2. rsh' = [rsh EXCEPT !.mode = mode]
      BY <2>1, <3>1
    <3> HIDE <3>1
    <3>3. /\ rsh' \in HelperState /\ rsh'.mode = mode /\ rsh'.safety = rsh.safety
          /\ rsh'.goal = rsh.goal /\ rsh'.pc = rsh.pc /\ rsh'.then = rsh.then /\ rsh'.sound = rsh.sound
      BY <1>1, <3>2, ZenonT(30) DEF HelperState
    <3> QED
      BY <3>1, <3>3, Zenon
  <2>2. CASE rsh' = [rsh EXCEPT !.safety = ctl.safety]
    <3>1. PICK safety \in {"UNDEFINED", "NORMAL", "PROTECTIVE_STOP", "FAULT"} : safety = ctl.safety
      BY <1>3 DEF Safeties
    <3>2. rsh' = [rsh EXCEPT !.safety = safety]
      BY <2>2, <3>1
    <3> HIDE <3>1
    <3>3. /\ rsh' \in HelperState /\ rsh'.mode = rsh.mode /\ rsh'.safety = safety
          /\ rsh'.goal = rsh.goal /\ rsh'.pc = rsh.pc /\ rsh'.then = rsh.then /\ rsh'.sound = rsh.sound
      BY <1>1, <3>2, ZenonT(30) DEF HelperState
    <3> QED
      BY <3>1, <3>3, Zenon
  <2>3. CASE rsh' = [rsh EXCEPT !.running = ~@]
    <3>1. PICK running \in BOOLEAN : running = ~rsh.running
      BY Zenon
    <3>2. rsh' = [rsh EXCEPT !.running = running]
      BY <2>3, <3>1, Zenon
    <3> HIDE <3>1
    <3> QED
      BY <1>1, <3>2, ZenonT(30) DEF HelperState
  <2> QED
    BY <2>1, <2>2, <2>3, Zenon DEF Topics, RobotModeCallback, SafetyModeCallback, ProgramRunningCallback
<1>5. /\ Unmoved' <=> Unmoved
      /\ Blocked' <=> Blocked
      /\ SafetyAsTold' <=> SafetyAsTold
      /\ Unlocks' <=> Unlocks
      /\ PowersOn' <=> PowersOn
      /\ Unsent' <=> Unsent
  BY <1>2, <1>4, Zenon DEF Unmoved, Blocked, SafetyAsTold, Unlocks, PowersOn, Unsent
<1>6. Calling'
  <2>1. CommandOf(rsh.then)' = CommandOf(rsh.then)
    BY <1>4, Zenon DEF CommandOf
  <2> QED
    BY <1>1, <1>2, <1>4, <1>5, <2>1 DEF Calling
<1>7. FaultIsOff'
  BY <1>1, <1>2, Zenon DEF FaultIsOff
<1>8. ASSUME Undisturbed' PROVE conn'.live /\ ModeKept' /\ SafetyKept'
  <2>1. conn.live /\ ModeKept /\ SafetyKept
    BY <1>1, <1>4, <1>8 DEF Undisturbed
  <2>2. \A what : Expected(what) => Expected(what)'
    BY <1>2, <1>4, <1>5, Zenon DEF Expected
  <2>3. \A i \in DOMAIN ctl'.inbox : Expected(ctl.inbox[i].what)'
    BY <1>2, <2>1, <2>2, Zenon DEF ModeKept
  <2>4. PowerOrder(ctl.inbox) => PowerOrder(ctl.inbox)'
    BY <1>2, Zenon DEF PowerOrder
  <2>5. (rsh'.mode = rsh'.goal.mode => ctl'.mode = rsh'.goal.mode) /\ (Unmoved' => rsh'.mode = ctl'.mode)
    BY <1>2, <1>4, <1>5, <2>1 DEF ModeKept
  <2>6. rsh'.goal.mode = "IDLE" =>
          /\ PowerOrder(ctl.inbox)'
          /\ PowersOn' => \A i \in DOMAIN ctl'.inbox : ctl'.inbox[i].what # "power_on"
          /\ Unsent' /\ rsh'.then = "power_on" => ctl'.mode # "IDLE" /\ rsh'.mode # "IDLE"
    BY <1>2, <1>4, <1>5, <2>1, <2>4, Zenon DEF ModeKept
  <2>7. ModeKept'
    BY <2>3, <2>5, <2>6, Zenon DEF ModeKept
  <2>8. AllSayStopped' <=> AllSayStopped
    BY <1>2, Zenon DEF AllSayStopped, SaysStopped
  <2>9. UnlockDone' <=> UnlockDone
    BY <1>2, <1>5, Zenon DEF UnlockDone
  <2>10. SafetyKept'
    BY <1>2, <1>4, <1>5, <2>1, <2>8, <2>9, Zenon DEF SafetyKept
  <2> QED
    BY <1>2, <2>1, <2>7, <2>10
<1>9. HelperKept
  BY <1>4, <1>6, <1>7, <1>8 DEF HelperKept
<1> QED
  BY <1>4, <1>9, NotOver

\* A goal that is accepted when everybody tells the same.
LEMMA SetModeGoalKeeps ==
  ASSUME HelperReady, NEW g \in Targets, SetModeGoal(g)
  PROVE  HelperKept /\ SuccessStep
<1>1. /\ PrimaryTypeOK /\ rsh \in HelperState /\ FaultIsOff /\ Calling
  BY ReadyIs
<1>2. PICK goals \in 0..MaxTargets : goals = rsh.goals + 1
  <2>1. rsh.goals \in 0..MaxTargets
    BY <1>1, Zenon DEF HelperState
  <2>2. rsh.goals < MaxTargets
    BY Zenon DEF SetModeGoal
  <2> QED
    BY <2>1, <2>2, HelperAssumption
<1>3. PICK sound \in BOOLEAN : sound = UpToDate
  BY Zenon DEF UpToDate
<1>4. /\ rsh.goal = NoTarget /\ UNCHANGED pvars
      /\ rsh' = [rsh EXCEPT !.goal = g, !.goals = goals, !.pc = "start", !.sound = sound]
  BY <1>2, <1>3, Zenon DEF SetModeGoal
<1>5. sound => UpToDate
  BY <1>3
<1> HIDE <1>2, <1>3
<1>6. /\ rsh' \in HelperState /\ rsh'.goal = g /\ rsh'.pc = "start" /\ rsh'.sound = sound
      /\ rsh'.mode = rsh.mode /\ rsh'.safety = rsh.safety
  <2>1. PICK r : r = [rsh EXCEPT !.goal = g, !.goals = goals]
    OBVIOUS
  <2>2. r \in HelperState /\ r.goal = g /\ r.mode = rsh.mode /\ r.safety = rsh.safety
    BY <1>1, <2>1, ZenonT(30) DEF HelperState
  <2>3. rsh' = [r EXCEPT !.pc = "start", !.sound = sound]
    BY <1>1, <1>4, <2>1, ZenonT(30) DEF HelperState
  <2> HIDE <2>1
  <2> QED
    BY <2>2, <2>3, ZenonT(30) DEF HelperState
<1>7. ctl' = ctl /\ conn' = conn /\ stores' = stores /\ caller' = caller
  BY <1>4 DEF pvars
<1>8. Unmoved' /\ Blocked' /\ SafetyAsTold' /\ ~Unlocks' /\ ~Unsent' /\ ~PowersOn'
  BY <1>6, PlacedNext
<1>9. g # NoTarget
  BY HelperAssumption
<1>10. Calling'
  <2>1. caller'.pc = "idle"
    BY <1>1, <1>4, <1>7 DEF Calling
  <2> QED
    BY <1>6, <1>8, <1>9, <2>1 DEF Calling
<1>11. FaultIsOff'
  BY <1>1, <1>7, Zenon DEF FaultIsOff
<1>12. ASSUME Undisturbed' PROVE conn'.live /\ ModeKept' /\ SafetyKept'
  <2>1. /\ rsh.mode = ctl.mode /\ rsh.safety = ctl.safety
        /\ conn.live /\ stores.view = State(ctl)
        /\ ctl.inbox = <<>> /\ ctl.out = <<>> /\ conn.queue = <<>>
    BY <1>5, <1>6, <1>12 DEF Undisturbed, UpToDate
  <2>2. ModeKept'
    <3>1. DOMAIN ctl'.inbox = {}
      BY <1>7, <2>1
    <3>2. PowerOrder(ctl.inbox)'
      BY <3>1, Zenon DEF PowerOrder
    <3>3. \A i \in DOMAIN ctl'.inbox : Expected(ctl.inbox[i].what)'
      BY <3>1, Zenon
    <3>4. rsh'.mode = ctl'.mode
      BY <1>6, <1>7, <2>1
    <3>5. rsh'.goal.mode = "IDLE" =>
            /\ PowerOrder(ctl.inbox)'
            /\ PowersOn' => \A i \in DOMAIN ctl'.inbox : ctl'.inbox[i].what # "power_on"
            /\ Unsent' /\ rsh'.then = "power_on" => ctl'.mode # "IDLE" /\ rsh'.mode # "IDLE"
      BY <1>8, <3>2, Zenon
    <3> QED
      BY <3>3, <3>4, <3>5, Zenon DEF ModeKept
  <2>3. ctl'.safety = "PROTECTIVE_STOP" => AllSayStopped'
    <3>1. DOMAIN ctl'.out = {} /\ DOMAIN conn'.queue = {}
      BY <1>7, <2>1
    <3>2. stores'.view.prot <=> ctl'.safety = "PROTECTIVE_STOP"
      BY <1>1, <1>7, <2>1, ScriptsAre, Zenon DEF PrimaryTypeOK
    <3> QED
      BY <3>1, <3>2, Zenon DEF AllSayStopped
  <2>4. SafetyKept'
    <3>1. ~UnlockDone'
      BY <1>8 DEF UnlockDone
    <3>2. rsh'.safety = ctl'.safety
      BY <1>6, <1>7, <2>1
    <3> QED
      BY <1>6, <1>8, <2>3, <3>1, <3>2, Zenon DEF SafetyKept
  <2> QED
    BY <1>7, <2>1, <2>2, <2>4
<1>13. HelperKept
  BY <1>6, <1>10, <1>11, <1>12 DEF HelperKept
<1> QED
  BY <1>4, <1>13, NotOver

LEMMA MessagesAre ==
  /\ {"stop_program", "set_unlock_protective_stop", "power_off", "power_on", "set_robotmode_run"} \subseteq CommandNames
  /\ \A mode \in Settable : CommandFor(mode) \in CommandNames
<1>1. {"stop_program", "set_unlock_protective_stop", "power_off", "power_on", "set_robotmode_run"} \subseteq CommandNames
  BY Zenon DEF CommandNames
<1>2. \A mode \in Settable : CommandFor(mode) \in {"power_off", "power_on", "set_robotmode_run"}
  BY Zenon DEF CommandFor, Settable
<1> QED
  BY <1>1, <1>2, Zenon

LEMMA CommandsOf ==
  /\ CommandOf("transition") = "stop_program" /\ CommandOf("jump") = "set_unlock_protective_stop"
  /\ CommandOf("power_on") = "power_off" /\ CommandOf("reach") = CommandFor(rsh.goal.mode)
BY Zenon DEF CommandOf

LEMMA StartKeeps ==
  ASSUME HelperReady, Start
  PROVE  HelperKept /\ SuccessStep
<1>1. rsh.pc = "start"
  BY Zenon DEF Start
<1>2. \/ Step(Aborted(rsh))
      \/ rsh.goal.mode \in Settable /\ Jump("stop_program", "transition")
      \/ rsh.goal.mode \in Settable /\ Decide("transition")
  BY Zenon DEF Start
<1>3. CASE Step(Aborted(rsh))
  BY <1>1, <1>3, StepAborts
<1>4. CASE rsh.goal.mode \in Settable /\ Jump("stop_program", "transition")
  <2>1. HelperKept /\ rsh'.goal = rsh.goal
    BY <1>1, <1>4, JumpKeeps, CommandsOf, MessagesAre DEF CallersThen
  <2> QED
    BY <2>1, NotOver
<1>5. CASE rsh.goal.mode \in Settable /\ Decide("transition")
  <2>1. HelperKept /\ rsh'.goal = rsh.goal
    BY <1>1, <1>5, DecideKeeps DEF HelperPlaces
  <2> QED
    BY <2>1, NotOver
<1> QED
  BY <1>2, <1>3, <1>4, <1>5

LEMMA TransitionKeeps ==
  ASSUME HelperReady, Transition
  PROVE  HelperKept /\ SuccessStep
<1>1. rsh.pc = "transition" /\ rsh.goal.mode \in Settable
  BY ReadyIs DEF Transition, Calling
<1>2. Decide("recover") \/ (rsh.safety = "NORMAL" /\ Decide("reach"))
  BY Zenon DEF Transition, TransitionNeeded
<1>3. HelperKept /\ rsh'.goal = rsh.goal
  BY <1>1, <1>2, DecideKeeps DEF HelperPlaces
<1> QED
  BY <1>3, NotOver

LEMMA RecoverKeeps ==
  ASSUME HelperReady, RecoverFromSafety
  PROVE  HelperKept /\ SuccessStep
<1>1. rsh.pc = "recover" /\ rsh.goal.mode \in Settable
  BY ReadyIs DEF RecoverFromSafety, Calling
<1>2. \/ rsh.safety = "PROTECTIVE_STOP" /\ Jump("set_unlock_protective_stop", "jump")
      \/ rsh.safety = "FAULT" /\ Decide("restart_safety")
      \/ rsh.safety \notin {"PROTECTIVE_STOP", "FAULT"} /\ Decide("jump")
  BY Zenon DEF RecoverFromSafety
<1>3. CASE rsh.safety = "PROTECTIVE_STOP" /\ Jump("set_unlock_protective_stop", "jump")
  <2>1. HelperKept /\ rsh'.goal = rsh.goal
    BY <1>1, <1>3, JumpKeeps, CommandsOf, MessagesAre DEF CallersThen
  <2> QED
    BY <2>1, NotOver
<1>4. CASE \/ rsh.safety = "FAULT" /\ Decide("restart_safety")
           \/ rsh.safety \notin {"PROTECTIVE_STOP", "FAULT"} /\ Decide("jump")
  <2>1. HelperKept /\ rsh'.goal = rsh.goal
    BY <1>1, <1>4, DecideKeeps DEF HelperPlaces
  <2> QED
    BY <2>1, NotOver
<1> QED
  BY <1>2, <1>3, <1>4

LEMMA DoTransitionKeeps ==
  ASSUME HelperReady, DoTransition
  PROVE  HelperKept /\ SuccessStep
<1>1. rsh.pc = "jump" /\ rsh.goal.mode \in Settable
  BY ReadyIs DEF DoTransition, Calling
<1>2. \/ Step(Aborted(rsh))
      \/ rsh.mode = "RUNNING" /\ rsh.goal.mode = "IDLE" /\ Jump("power_off", "power_on")
      \/ Jump(CommandFor(rsh.goal.mode), "reach")
  BY Zenon DEF DoTransition, JumpToRobotMode
<1>3. CASE Step(Aborted(rsh))
  BY <1>1, <1>3, StepAborts
<1>4. CASE rsh.mode = "RUNNING" /\ rsh.goal.mode = "IDLE" /\ Jump("power_off", "power_on")
  <2>1. HelperKept /\ rsh'.goal = rsh.goal
    BY <1>1, <1>4, JumpKeeps, CommandsOf, MessagesAre DEF CallersThen
  <2> QED
    BY <2>1, NotOver
<1>5. CASE Jump(CommandFor(rsh.goal.mode), "reach")
  <2>1. CommandFor(rsh.goal.mode) \in CommandNames
    BY <1>1, MessagesAre, Zenon
  <2>2. HelperKept /\ rsh'.goal = rsh.goal
    BY <1>1, <1>5, <2>1, JumpKeeps, CommandsOf DEF CallersThen
  <2> QED
    BY <2>2, NotOver
<1> QED
  BY <1>2, <1>3, <1>4, <1>5

LEMMA PowerOnKeeps ==
  ASSUME HelperReady, PowerOn
  PROVE  HelperKept /\ SuccessStep
<1>1. rsh.pc = "power_on" /\ rsh.goal.mode \in Settable /\ rsh.goal.mode = "IDLE"
  BY ReadyIs DEF PowerOn, Calling, PowersOn
<1>2. Jump("power_on", "reach")
  BY Zenon DEF PowerOn
<1>3. CommandOf("reach") = "power_on"
  BY <1>1, CommandsOf, Zenon DEF CommandFor
<1>4. HelperKept /\ rsh'.goal = rsh.goal
  BY <1>1, <1>2, <1>3, JumpKeeps, MessagesAre DEF CallersThen
<1> QED
  BY <1>4, NotOver

\* The dashboard releases a fault: the robot is powered off.
LEMMA RestartSafetyKeeps ==
  ASSUME HelperReady, RestartSafety
  PROVE  PrimaryTypeOK' /\ HelperKept /\ SuccessStep
<1>1. /\ PrimaryTypeOK /\ rsh \in HelperState /\ FaultIsOff /\ Calling
      /\ Undisturbed => conn.live /\ ModeKept /\ SafetyKept
  BY ReadyIs
<1>2. rsh.pc = "restart_safety"
  BY Zenon DEF RestartSafety
<1>3. CASE Step(Aborted(rsh))
  <2>1. PrimaryTypeOK'
    BY <1>1, <1>3 DEF Step, pvars, PrimaryTypeOK
  <2> QED
    BY <1>2, <1>3, <2>1, StepAborts
<1>4. CASE /\ ctl.safety = "FAULT" /\ rsh' = [rsh EXCEPT !.pc = "jump"]
           /\ ctl' = [Safety(ctl, "NORMAL") EXCEPT !.mode = "POWER_OFF"]
           /\ UNCHANGED <<conn, stores, caller, breaks>>
  <2>1. /\ rsh' \in HelperState /\ SameRsh /\ rsh'.pc = "jump" /\ rsh'.then = rsh.then
    BY <1>1, <1>4, RshGoesTo, Zenon DEF HelperPlaces
  <2>2. ctl \in CtlType
    BY <1>1, Zenon DEF PrimaryTypeOK
  <2>3. PICK c : c = Safety(ctl, "NORMAL")
    OBVIOUS
  <2>4. c \in CtlType /\ c.safety = "NORMAL" /\ c.inbox = ctl.inbox
    BY <2>2, <2>3, SafetyIs DEF Safeties
  <2>5. PICK e : e = ctl'
    OBVIOUS
  <2>6. e \in CtlType /\ e.mode = "POWER_OFF" /\ e.safety = "NORMAL" /\ e.inbox = ctl.inbox
    BY <1>4, <2>3, <2>4, <2>5, ModeSetIs DEF RobotModes
  <2>7. ctl' \in CtlType /\ ctl'.mode = "POWER_OFF" /\ ctl'.safety = "NORMAL" /\ ctl'.inbox = ctl.inbox
    BY <2>5, <2>6
  <2>8. PrimaryTypeOK'
    BY <1>1, <1>4, <2>7 DEF PrimaryTypeOK
  <2>9. Unmoved /\ SafetyAsTold
    BY <1>2, Placed
  <2>10. Unmoved' /\ ~Blocked' /\ ~SafetyAsTold' /\ ~Unlocks' /\ ~Unsent' /\ ~PowersOn'
    BY <2>1, PlacedNext
  <2>11. rsh'.mode = rsh.mode /\ rsh'.goal = rsh.goal /\ rsh'.sound = rsh.sound
    BY <2>1 DEF SameRsh
  <2>12. Calling'
    <3>1. caller'.pc = "idle" /\ rsh.goal # NoTarget /\ rsh.goal.mode \in Settable
      BY <1>1, <1>2, <1>4 DEF Calling
    <3> QED
      BY <2>1, <2>10, <2>11, <3>1 DEF Calling
  <2>13. FaultIsOff'
    BY <2>7, Zenon DEF FaultIsOff
  <2>14. ASSUME Undisturbed' PROVE conn'.live /\ ModeKept' /\ SafetyKept'
    <3>1. conn.live /\ ModeKept /\ SafetyKept
      BY <1>1, <2>11, <2>14 DEF Undisturbed
    <3>2. ctl.mode = "POWER_OFF" /\ rsh.mode = ctl.mode
      BY <1>1, <1>4, <2>9, <3>1 DEF FaultIsOff, ModeKept
    <3>3. ctl'.mode = ctl.mode
      BY <2>7, <3>2
    <3>4. \A what : Expected(what) => Expected(what)'
      BY <2>9, <2>10, <2>11, Zenon DEF Expected
    <3>5. \A i \in DOMAIN ctl'.inbox : Expected(ctl.inbox[i].what)'
      BY <2>7, <3>1, <3>4, Zenon DEF ModeKept
    <3>6. rsh'.goal.mode = "IDLE" =>
            /\ PowerOrder(ctl.inbox)'
            /\ PowersOn' => \A i \in DOMAIN ctl'.inbox : ctl'.inbox[i].what # "power_on"
            /\ Unsent' /\ rsh'.then = "power_on" => ctl'.mode # "IDLE" /\ rsh'.mode # "IDLE"
      BY <2>7, <2>10, <2>11, <3>1, Zenon DEF ModeKept, PowerOrder
    <3>7. ModeKept'
      BY <2>11, <3>1, <3>2, <3>3, <3>5, <3>6, Zenon DEF ModeKept
    <3>8. ~UnlockDone'
      BY <2>10 DEF UnlockDone
    <3>9. SafetyKept'
      BY <2>1, <2>7, <2>10, <3>8 DEF SafetyKept
    <3> QED
      BY <1>4, <3>1, <3>7, <3>9
  <2>15. HelperKept
    BY <2>1, <2>12, <2>13, <2>14 DEF HelperKept
  <2> QED
    BY <2>8, <2>11, <2>15, NotOver
<1> QED
  BY <1>3, <1>4 DEF RestartSafety

LEMMA CommandReturnsKeeps ==
  ASSUME HelperReady, CommandReturns
  PROVE  HelperKept /\ SuccessStep
<1>1. /\ PrimaryTypeOK /\ rsh \in HelperState /\ FaultIsOff /\ Calling
      /\ Undisturbed => conn.live /\ ModeKept /\ SafetyKept
  BY ReadyIs
<1>2. rsh.pc = "command" /\ caller.pc = "idle" /\ UNCHANGED pvars
  BY Zenon DEF CommandReturns, Step
<1>3. CASE caller.result # "done" /\ rsh' = [Aborted(rsh) EXCEPT !.sound = FALSE]
  BY <1>2, <1>3, AbortKeeps, Zenon
<1>4. CASE caller.result = "done" /\ rsh' = [rsh EXCEPT !.pc = rsh.then]
  <2>1. PICK then \in CallersThen : then = rsh.then
    BY <1>1, <1>2 DEF Calling
  <2>2. /\ rsh' \in HelperState /\ SameRsh /\ rsh'.pc = then /\ rsh'.then = rsh.then
    BY <1>1, <1>4, <2>1, RshGoesTo, Zenon DEF HelperPlaces, CallersThen
  <2>3. ctl' = ctl /\ conn' = conn /\ stores' = stores /\ caller' = caller
    BY <1>2 DEF pvars
  <2>4. rsh'.goal = rsh.goal /\ rsh'.sound = rsh.sound
    BY <2>2 DEF SameRsh
  <2>5. /\ Unmoved <=> then \in {"transition", "jump"}
        /\ Blocked <=> then \in {"transition", "jump"}
        /\ SafetyAsTold <=> then = "transition"
        /\ Unlocks <=> then = "jump"
        /\ PowersOn <=> then = "power_on"
    BY <1>2, <2>1, Waits
  <2>6. /\ Unmoved' <=> then \in {"transition", "jump"}
        /\ Blocked' <=> then = "transition"
        /\ SafetyAsTold' <=> then = "transition"
        /\ ~Unlocks' /\ ~Unsent'
        /\ PowersOn' <=> then = "power_on"
    BY <2>2, PlacedNext DEF CallersThen
  <2>7. Calling'
    <3>1. caller'.pc = "idle" /\ rsh.goal # NoTarget /\ rsh.goal.mode \in Settable
          /\ (PowersOn => rsh.goal.mode = "IDLE")
      BY <1>1, <1>2, <2>3 DEF Calling
    <3> QED
      BY <2>2, <2>4, <2>5, <2>6, <3>1 DEF Calling, CallersThen
  <2>8. FaultIsOff'
    BY <1>1, <2>3, Zenon DEF FaultIsOff
  <2>9. ASSUME Undisturbed' PROVE conn'.live /\ ModeKept' /\ SafetyKept'
    <3>1. conn.live /\ ModeKept /\ SafetyKept
      BY <1>1, <2>4, <2>9 DEF Undisturbed
    <3>2. rsh.goal.mode = "IDLE" /\ PowersOn' => \A i \in DOMAIN ctl.inbox : ctl.inbox[i].what # "power_on"
      BY <2>5, <2>6, <3>1, Zenon DEF ModeKept
    <3>3. ModeKept'
      BY <2>2, <2>3, <2>5, <2>6, <3>1, <3>2, ModeMoves
    <3>4. ~Blocked' => ctl.safety = "NORMAL"
      <4>1. then = "jump" => UnlockDone
        BY <1>2, <1>4, <2>5 DEF UnlockDone
      <4> QED
        BY <2>5, <2>6, <3>1, <4>1 DEF SafetyKept, CallersThen
    <3>5. rsh'.pc # "restart_safety"
      BY <2>2 DEF CallersThen
    <3>6. SafetyKept'
      BY <2>2, <2>3, <2>5, <2>6, <3>1, <3>4, <3>5, SafetyMoves
    <3> QED
      BY <2>3, <3>1, <3>3, <3>6
  <2>10. HelperKept
    BY <2>2, <2>7, <2>8, <2>9 DEF HelperKept
  <2> QED
    BY <2>4, <2>10, NotOver
<1> QED
  BY <1>3, <1>4, Zenon DEF CommandReturns, Step

\* The goal succeeds: the topic told its mode, and the robot is in it.
LEMMA WaitForModeKeeps ==
  ASSUME HelperReady, WaitForMode
  PROVE  HelperKept /\ SuccessStep
<1>1. /\ PrimaryTypeOK /\ rsh \in HelperState /\ FaultIsOff /\ Calling
      /\ Undisturbed => conn.live /\ ModeKept /\ SafetyKept
  BY ReadyIs
<1>2. rsh.pc = "reach" /\ rsh.mode = rsh.goal.mode /\ rsh.goal.mode \in Settable
  BY <1>1 DEF WaitForMode, Calling
<1>3. CASE rsh.mode = "RUNNING" /\ Decide("play")
  <2>1. ~SafetyAsTold
    BY <1>2, Placed
  <2>2. HelperKept /\ rsh'.goal = rsh.goal
    BY <1>2, <1>3, <2>1, DecideKeeps DEF HelperPlaces
  <2> QED
    BY <2>2, NotOver
<1>4. CASE Step(Succeeded(rsh))
  <2>1. rsh' = Succeeded(rsh) /\ UNCHANGED pvars
    BY <1>4, Zenon DEF Step
  <2>2. rsh' \in HelperState /\ rsh'.goal = NoTarget /\ rsh'.pc = "idle"
    BY <1>1, <2>1, RshEnds, Zenon
  <2>3. caller'.pc = "idle" /\ FaultIsOff'
    BY <1>1, <1>2, <2>1, Zenon DEF pvars, Calling, FaultIsOff
  <2>4. HelperKept
    BY <2>2, <2>3, GoalOver
  <2>5. ~Blocked
    BY <1>2, Placed
  <2>6. Undisturbed => ctl.mode = rsh.goal.mode /\ ctl.safety = "NORMAL"
    BY <1>1, <1>2, <2>5 DEF ModeKept, SafetyKept
  <2> QED
    BY <2>2, <2>4, <2>6 DEF SuccessStep, Undisturbed
<1> QED
  BY <1>3, <1>4, Zenon DEF WaitForMode

LEMMA PlayProgramKeeps ==
  ASSUME HelperReady, PlayProgram
  PROVE  PrimaryTypeOK' /\ HelperKept /\ SuccessStep
<1>1. /\ PrimaryTypeOK /\ rsh \in HelperState /\ FaultIsOff /\ Calling
      /\ Undisturbed => conn.live /\ ModeKept /\ SafetyKept
  BY ReadyIs
<1>2. rsh.pc = "play" /\ rsh.goal.mode = "RUNNING"
  BY <1>1 DEF PlayProgram, Calling
<1>3. CASE Step(Aborted(rsh))
  <2>1. PrimaryTypeOK'
    BY <1>1, <1>3 DEF Step, pvars, PrimaryTypeOK
  <2> QED
    BY <1>2, <1>3, <2>1, StepAborts
<1>4. CASE /\ ctl.mode = "RUNNING" /\ ctl.safety = "NORMAL" /\ rsh' = Succeeded(rsh)
           /\ ctl' = Say([Over(ctl) EXCEPT !.script = Program], Key("STARTED", Program))
           /\ UNCHANGED <<conn, stores, caller, breaks>>
  <2>1. rsh' \in HelperState /\ rsh'.goal = NoTarget /\ rsh'.pc = "idle"
    BY <1>1, <1>4, RshEnds, Zenon
  <2>2. PICK c : c = Over(ctl)
    OBVIOUS
  <2>3. c \in CtlType /\ c.safety = ctl.safety
    BY <1>1, <2>2, OverIs, Zenon DEF PrimaryTypeOK, SameRobot
  <2>4. PICK d : d = [c EXCEPT !.script = Program]
    OBVIOUS
  <2>5. d \in CtlType /\ d.safety = ctl.safety
    BY <2>3, <2>4, ScriptsAre, ZenonT(30) DEF CtlType
  <2>6. PICK msg : msg = Key("STARTED", Program)
    OBVIOUS
  <2>7. msg \in Packages
    BY <2>6, PackagesAre, ScriptsAre, Zenon DEF KeyTitles
  <2>8. PICK e : e = ctl'
    OBVIOUS
  <2>9. e = Say(d, msg)
    BY <1>4, <2>2, <2>4, <2>6, <2>8, Zenon
  <2>10. e \in CtlType /\ e.safety = d.safety
    BY <2>5, <2>7, <2>9, SayIs, Zenon DEF SameRobot
  <2>11. PrimaryTypeOK'
    BY <1>1, <1>4, <2>8, <2>10 DEF PrimaryTypeOK
  <2>12. FaultIsOff'
    BY <1>4, <2>5, <2>8, <2>10 DEF FaultIsOff
  <2>13. caller'.pc = "idle"
    BY <1>1, <1>2, <1>4 DEF Calling
  <2>14. HelperKept
    BY <2>1, <2>12, <2>13, GoalOver
  <2>15. ctl.mode = rsh.goal.mode /\ ctl.safety = "NORMAL"
    BY <1>2, <1>4
  <2> QED
    BY <2>1, <2>11, <2>14, <2>15 DEF SuccessStep
<1> QED
  BY <1>3, <1>4 DEF PlayProgram

LEMMA TypesKept ==
  ASSUME PrimaryTypeOK, UNCHANGED pvars
  PROVE  PrimaryTypeOK'
BY DEF PrimaryTypeOK, pvars

LEMMA JumpTypes ==
  ASSUME PrimaryTypeOK, rsh \in HelperState, NEW cmd, NEW then, Jump(cmd, then), cmd \in CommandNames
  PROVE  PrimaryTypeOK'
BY CallCommandDoes, Zenon DEF Jump

LEMMA HelperTypes ==
  ASSUME HelperReady, HelperNext
  PROVE  PrimaryTypeOK'
<1>1. PrimaryTypeOK /\ rsh \in HelperState /\ Calling
  BY ReadyIs
<1>2. CASE Topics \/ Transition \/ CommandReturns \/ WaitForMode \/ \E g \in Targets : SetModeGoal(g)
  BY <1>1, <1>2, TypesKept, Zenon
     DEF Topics, Transition, Decide, Step, CommandReturns, WaitForMode, SetModeGoal
<1>3. CASE Start
  BY <1>1, <1>3, TypesKept, JumpTypes, MessagesAre, Zenon DEF Start, Step, Decide
<1>4. CASE RecoverFromSafety
  BY <1>1, <1>4, TypesKept, JumpTypes, MessagesAre, Zenon DEF RecoverFromSafety, Step, Decide
<1>5. CASE DoTransition
  <2>1. rsh.goal.mode \in Settable
    BY <1>1, <1>5 DEF DoTransition, Calling
  <2>2. CommandFor(rsh.goal.mode) \in CommandNames /\ "power_off" \in CommandNames
    BY <2>1, MessagesAre, Zenon
  <2> QED
    BY <1>1, <1>5, <2>2, TypesKept, JumpTypes, Zenon DEF DoTransition, JumpToRobotMode, Step
<1>6. CASE PowerOn
  BY <1>1, <1>6, JumpTypes, MessagesAre, Zenon DEF PowerOn
<1>7. CASE RestartSafety \/ PlayProgram
  BY <1>7, RestartSafetyKeeps, PlayProgramKeeps
<1> QED
  BY <1>2, <1>3, <1>4, <1>5, <1>6, <1>7, Zenon DEF HelperNext, HelperThread

LEMMA HelperStep ==
  ASSUME HelperReady, HelperNext
  PROVE  HelperKept /\ SuccessStep
<1>1. ASSUME NEW g \in Targets, SetModeGoal(g)
      PROVE  HelperKept /\ SuccessStep
  BY <1>1, SetModeGoalKeeps
<1> QED
  BY <1>1, TopicsKeep, StartKeeps, TransitionKeeps, RecoverKeeps, RestartSafetyKeeps, DoTransitionKeeps,
     PowerOnKeeps, CommandReturnsKeeps, WaitForModeKeeps, PlayProgramKeeps
     DEF HelperNext, HelperThread

(* The steps of the client and of the robot, one by one.                   *)
PrimaryKept ==
  /\ PrimaryTypeOK' /\ FaultIsOff'
  /\ Calling => Calling'
  /\ Calling /\ Undisturbed /\ conn.live /\ ModeKept /\ SafetyKept /\ breaks' = breaks => Kept

LEMMA ControllerKeeps ==
  ASSUME PrimaryTypeOK, FaultIsOff, SameGoal, Controller(ControllerNext)
  PROVE  PrimaryKept
<1>1. UNCHANGED <<conn, stores, caller>>
  BY Zenon DEF Controller
<1>2. Calling => Calling'
  BY <1>1, CallingStays DEF SameCaller
<1>3. CASE Obey
  <2>1. PrimaryTypeOK'
    BY <1>1, <1>3, ObeyDoes DEF PrimaryTypeOK
  <2>2. FaultIsOff'
    BY <1>3, ObeyDoes DEF FaultIsOff, ModeAfter, SafetyAfter
  <2> QED
    BY <1>1, <1>2, <1>3, <2>1, <2>2, ObeyKeeps DEF PrimaryKept
<1>4. CASE ScriptEnds \/ \E what \in Severities : ScriptRaises(what)
  <2>1. ctl' \in CtlType /\ SameRobot(ctl, ctl') /\ breaks' = breaks
    BY <1>4, ScriptEndsDoes, ScriptRaisesDoes, Zenon
  <2>2. PrimaryTypeOK'
    BY <1>1, <2>1 DEF PrimaryTypeOK
  <2>3. FaultIsOff'
    BY <2>1 DEF FaultIsOff, SameRobot
  <2> QED
    BY <1>1, <1>2, <1>4, <2>2, <2>3, SayingKeeps DEF PrimaryKept
<1>5. CASE TellState
  <2>1. ctl' \in CtlType /\ SameRobot(ctl, ctl') /\ breaks' = breaks
    BY <1>5, TellStateDoes, Zenon
  <2>2. PrimaryTypeOK'
    BY <1>1, <2>1 DEF PrimaryTypeOK
  <2>3. FaultIsOff'
    BY <2>1 DEF FaultIsOff, SameRobot
  <2> QED
    BY <1>1, <1>2, <1>5, <2>2, <2>3, TellStateKeeps DEF PrimaryKept
<1>6. CASE Pendant
  <2>1. /\ ctl' \in CtlType /\ breaks' = breaks + 1
        /\ ctl'.safety = "FAULT" => ctl.safety = "FAULT" \/ ctl'.mode = "POWER_OFF"
        /\ ctl'.mode = ctl.mode \/ ctl'.mode = "POWER_OFF"
    BY <1>6, PendantDoes
  <2>2. breaks \in Nat
    BY DEF PrimaryTypeOK
  <2>3. PrimaryTypeOK'
    BY <1>1, <2>1, <2>2 DEF PrimaryTypeOK
  <2>4. FaultIsOff'
    BY <2>1 DEF FaultIsOff
  <2>5. breaks' # breaks
    BY <2>1, <2>2
  <2> QED
    BY <1>2, <2>3, <2>4, <2>5 DEF PrimaryKept
<1> QED
  BY <1>3, <1>4, <1>5, <1>6, Zenon DEF Controller, ControllerNext, Severities

LEMMA BreakKeeps ==
  ASSUME PrimaryTypeOK, FaultIsOff, SameGoal, Break
  PROVE  PrimaryKept
<1>1. PrimaryTypeOK' /\ breaks' = breaks + 1 /\ ctl'.mode = ctl.mode /\ ctl'.safety = ctl.safety
  BY BreakDoes
<1>2. SameCaller
  BY SoundCaller, Zenon DEF Break, PrimaryTypeOK, SameCaller
<1>3. Calling => Calling'
  BY <1>2, CallingStays
<1>4. FaultIsOff'
  BY <1>1 DEF FaultIsOff
<1>5. breaks' # breaks
  BY <1>1 DEF PrimaryTypeOK
<1> QED
  BY <1>1, <1>3, <1>4, <1>5 DEF PrimaryKept

LEMMA BackgroundKeeps ==
  ASSUME PrimaryTypeOK, FaultIsOff, SameGoal, Background
  PROVE  PrimaryKept
<1>1. CASE Produce
  <2>1. PrimaryTypeOK' /\ SameRobot(ctl, ctl') /\ SameCaller
    BY <1>1, ProduceDoes
  <2>2. FaultIsOff'
    BY <2>1 DEF FaultIsOff, SameRobot
  <2> QED
    BY <1>1, <2>1, <2>2, ProduceKeeps, CallingStays DEF PrimaryKept
<1>2. CASE Reconnect
  <2>1. PrimaryTypeOK' /\ ctl' = ctl /\ caller' = caller
    BY <1>2, ReconnectDoes
  <2>2. FaultIsOff'
    BY <2>1 DEF FaultIsOff
  <2> QED
    BY <1>2, <2>1, <2>2, ReconnectKeeps, CallingStays DEF PrimaryKept, SameCaller
<1>3. CASE Consume
  <2>1. PrimaryTypeOK' /\ ctl' = ctl /\ caller' = caller
    BY <1>3, ConsumeDoes
  <2>2. FaultIsOff'
    BY <2>1 DEF FaultIsOff
  <2> QED
    BY <1>3, <2>1, <2>2, ConsumeKeeps, CallingStays DEF PrimaryKept, SameCaller
<1> QED
  BY <1>1, <1>2, <1>3 DEF Background

LEMMA CallKeeps ==
  ASSUME PrimaryTypeOK, FaultIsOff, SameGoal, Call \/ NotStarted
  PROVE  PrimaryKept
<1>1. Calling => (caller.pc # "idle" => rsh.pc = "command")
  BY DEF Calling
<1>2. CASE Send
  <2>1. /\ PrimaryTypeOK' /\ ctl'.mode = ctl.mode /\ ctl'.safety = ctl.safety
        /\ caller.pc \in {"send", "resend"}
        /\ caller.msg \notin {"script", "secondary"} => Onward
    BY <1>2, SendDoes
  <2>2. FaultIsOff'
    BY <2>1 DEF FaultIsOff
  <2>3. Calling => caller.msg \notin {"script", "secondary"}
    <3> SUFFICES ASSUME Calling PROVE caller.msg \notin {"script", "secondary"}
      OBVIOUS
    <3>1. rsh.pc = "command" /\ rsh.then \in CallersThen /\ rsh.goal.mode \in Settable
          /\ caller.msg = CommandOf(rsh.then)
      BY <2>1 DEF Calling
    <3>2. CommandFor(rsh.goal.mode) \in {"power_off", "power_on", "set_robotmode_run"}
      BY <3>1, Zenon DEF CommandFor, Settable
    <3> QED
      BY <3>1, <3>2, CommandsOf DEF CallersThen
  <2>4. Calling => Calling'
    BY <1>1, <2>1, <2>3, CallingStays
  <2> QED
    BY <1>2, <2>1, <2>2, <2>4, SendKeeps DEF PrimaryKept
<1>3. CASE ReconnectStream
  <2>1. PrimaryTypeOK' /\ ctl' = ctl /\ Onward /\ caller.pc = "reconnect"
    BY <1>3, ReconnectStreamDoes
  <2>2. FaultIsOff'
    BY <2>1 DEF FaultIsOff
  <2>3. Calling => Calling'
    BY <1>1, <2>1, CallingStays
  <2> QED
    BY <1>3, <2>1, <2>2, <2>3, ReconnectStreamKeeps DEF PrimaryKept
<1>4. CASE WaitEnds \/ WaitTimeout
  <2>1. PrimaryTypeOK' /\ ctl' = ctl /\ caller.pc = "wait" /\ caller'.pc = "idle"
    BY <1>4, WaitEndsDoes
  <2>2. FaultIsOff'
    BY <2>1 DEF FaultIsOff
  <2>3. Calling => Calling'
    BY <1>1, <2>1, CallingStays
  <2> QED
    BY <1>4, <2>1, <2>2, <2>3, WaitEndsKeeps DEF PrimaryKept
<1>5. CASE Beyond
  <2>1. PrimaryTypeOK' /\ ctl' = ctl
        /\ caller.pc \notin {"idle", "send", "reconnect", "resend", "wait"}
    BY <1>5, BeyondDoes
  <2>2. ~Calling
    BY <2>1 DEF Calling
  <2>3. FaultIsOff'
    BY <2>1 DEF FaultIsOff
  <2> QED
    BY <2>1, <2>2, <2>3 DEF PrimaryKept
<1> QED
  BY <1>2, <1>3, <1>4, <1>5, Zenon DEF Call, Beyond

LEMMA ClientKeeps ==
  ASSUME PrimaryTypeOK, HelperInv, session' = session, PrimaryNext, Upsetting
  PROVE  PrimaryTypeOK' /\ HelperInv' /\ SuccessStep
<1>1. rsh \in HelperState /\ FaultIsOff
  BY Zenon DEF HelperInv
<1>2. rsh' \in HelperState /\ SameGoal /\ (rsh'.sound => rsh.sound /\ breaks' = breaks)
  BY <1>1, UpsettingDoes
<1>3. PrimaryKept
  BY <1>1, <1>2, ControllerKeeps, BreakKeeps, BackgroundKeeps, CallKeeps, Zenon DEF PrimaryNext
<1>4. rsh'.goal = rsh.goal
  BY <1>2 DEF SameGoal
<1>5. PrimaryTypeOK' /\ FaultIsOff'
  BY <1>3, Zenon DEF PrimaryKept
<1>6. session' # "state" => rsh'.goal = NoTarget
  BY <1>4, Zenon DEF HelperInv
<1>7. session' = "state" => Calling'
  BY <1>3, Zenon DEF HelperInv, PrimaryKept
<1>8. Undisturbed' => conn'.live /\ ModeKept' /\ SafetyKept'
  <2> SUFFICES ASSUME Undisturbed' PROVE Kept
    BY Zenon DEF Kept
  <2>1. Undisturbed /\ breaks' = breaks
    BY <1>2, <1>4, Zenon DEF Undisturbed
  <2>2. session = "state"
    BY <2>1, Zenon DEF Undisturbed, HelperInv
  <2>3. Calling /\ conn.live /\ ModeKept /\ SafetyKept
    BY <2>1, <2>2, Zenon DEF HelperInv
  <2> QED
    BY <1>3, <2>1, <2>3, Zenon DEF PrimaryKept
<1>9. HelperInv'
  BY <1>2, <1>5, <1>6, <1>7, <1>8, Zenon DEF HelperInv
<1>10. SuccessStep
  BY <1>2, <1>4, Zenon DEF SuccessStep
<1> QED
  BY <1>5, <1>9, <1>10

StateInv == PrimaryTypeOK /\ HelperInv

LEMMA StateStays ==
  ASSUME StateInv, UNCHANGED <<session, pvars, rsh>>
  PROVE  StateInv'
<1>1. session' = session /\ rsh' = rsh /\ ctl' = ctl /\ conn' = conn /\ stores' = stores /\ caller' = caller
      /\ breaks' = breaks
  BY DEF pvars
<1>2. PrimaryTypeOK'
  BY <1>1 DEF StateInv, PrimaryTypeOK
<1>3. ModeKept' <=> ModeKept
  BY <1>1, Zenon DEF ModeKept, PowersOn, PowerOrder, Unsent, Unmoved, Expected, SafetyAsTold, CommandFor
<1>4. SafetyKept' <=> SafetyKept
  BY <1>1, Zenon DEF SafetyKept, SafetyAsTold, Unlocks, Blocked, UnlockDone, AllSayStopped, SaysStopped
<1>5. Calling' <=> Calling
  BY <1>1, Zenon DEF Calling, PowersOn, CommandOf, CommandFor
<1>6. HelperInv'
  BY <1>1, <1>3, <1>4, <1>5, Zenon DEF StateInv, HelperInv, FaultIsOff, Undisturbed
<1> QED
  BY <1>2, <1>6 DEF StateInv

LEMMA NextState ==
  ASSUME StateInv, [Next]_vars
  PROVE  StateInv' /\ (SuccessStep \/ UNCHANGED <<rsh, pvars>>)
<1>1. PrimaryTypeOK /\ HelperInv /\ rsh \in HelperState
  BY Zenon DEF StateInv, HelperInv
<1>2. CASE UNCHANGED <<session, pvars, rsh>>
  BY <1>2, StateStays
<1>3. CASE session = "state" /\ session' = session /\ HelperNext
  <2>1. HelperReady
    BY <1>1, <1>3 DEF HelperReady
  <2>2. PrimaryTypeOK' /\ HelperKept /\ SuccessStep
    BY <1>3, <2>1, HelperTypes, HelperStep
  <2>3. HelperInv'
    BY <1>3, <2>2, Zenon DEF HelperKept, HelperInv
  <2> QED
    BY <2>2, <2>3 DEF StateInv
<1>4. CASE session' = session /\ PrimaryNext /\ Upsetting
  BY <1>1, <1>4, ClientKeeps DEF StateInv
<1>5. CASE session = "script" /\ session' = session /\ CallScript /\ rsh' = rsh
  <2>1. PrimaryTypeOK' /\ UNCHANGED <<ctl, conn, stores, breaks>>
    BY <1>1, <1>5, CallScriptDoes
  <2>2. rsh.goal = NoTarget /\ FaultIsOff
    BY <1>1, <1>5, Zenon DEF HelperInv
  <2>3. HelperInv'
    <3>1. FaultIsOff'
      BY <2>1, <2>2 DEF FaultIsOff
    <3>2. ~Undisturbed'
      BY <1>5, <2>2 DEF Undisturbed
    <3> QED
      BY <1>1, <1>5, <2>2, <3>1, <3>2, Zenon DEF HelperInv
  <2>4. SuccessStep
    BY <1>1, <1>5, <2>2, Zenon DEF SuccessStep
  <2> QED
    BY <2>1, <2>3, <2>4 DEF StateInv
<1>6. \/ UNCHANGED <<session, pvars, rsh>>
      \/ session = "state" /\ session' = session /\ HelperNext
      \/ session' = session /\ PrimaryNext /\ Upsetting
      \/ session = "script" /\ session' = session /\ CallScript /\ rsh' = rsh
  BY Zenon DEF Next, vars, Queue, Dashboard, Until, Reader, Server, Helper, Client, Scripted
<1> QED
  BY <1>2, <1>3, <1>4, <1>5, <1>6, Zenon

LEMMA InitState == Init => StateInv
<1> SUFFICES ASSUME Init PROVE StateInv
  OBVIOUS
<1>1. PICK heard \in Kinds : heard = IF session = "state" THEN {"state"} ELSE AllPackages
  BY DEF Kinds, AllPackages
<1>2. PICK safeties \in SUBSET Safeties :
          safeties = IF session = "state" THEN {"NORMAL", "PROTECTIVE_STOP", "FAULT"} ELSE {"NORMAL"}
  BY DEF Safeties
<1>3. PICK remotes \in SUBSET BOOLEAN : remotes = IF session = "script" THEN BOOLEAN ELSE {TRUE}
  BY Zenon
<1>4. PrimaryInit(heard, safeties, remotes) /\ RshInit
  BY <1>1, <1>2, <1>3, Zenon DEF Init
<1> HIDE <1>1, <1>2, <1>3
<1>5. PrimaryTypeOK /\ caller = NoCall /\ FaultIsOff
  BY <1>4, InitPrimary DEF FaultIsOff
<1>6. rsh \in HelperState /\ rsh.goal = NoTarget /\ rsh.pc = "idle"
  <2>1. 0 \in 0..MaxTargets
    BY HelperAssumption
  <2> QED
    BY <1>4, <2>1, ZenonT(30) DEF RshInit, HelperState
<1>7. Calling
  <2>1. ~PowersOn /\ caller.pc = "idle"
    BY <1>5, <1>6, NoCallIs DEF PowersOn
  <2> QED
    BY <1>6, <2>1 DEF Calling
<1>8. HelperInv
  BY <1>5, <1>6, <1>7, Zenon DEF HelperInv, Undisturbed
<1> QED
  BY <1>5, <1>8 DEF StateInv

(* Whatever goals are set and however the topics, the packages and the     *)
(* commands interleave: a set_mode goal that nobody upset and that began   *)
(* when everybody told the same succeeds only when the robot is in the     *)
(* target mode and neither stopped nor in a fault.                         *)
THEOREM HelperReachesTarget == Spec => SuccessIsReached
<1>1. StateInv /\ [Next]_vars => StateInv'
  BY NextState
<1>2. StateInv /\ [Next]_vars => [SuccessStep]_<<rsh, pvars>>
  BY NextState
<1> QED
  BY <1>1, <1>2, InitState, PTL DEF Spec, SuccessIsReached

-----------------------------------------------------------------------------
(* A script that is sent and watched.  What the controller says of it is   *)
(* followed through the connection, the queue and the stores.              *)
Watching == {"exc", "err", "keys", "end"}
Word(what) == IF what = "exception" THEN [k |-> "exception"] ELSE Error(what)
Shelved(what) == IF what = "exception" THEN stores.exc ELSE what \in stores.err
Counts(what) == what # "warning" \/ caller.strict
Farewell == Key("STOPPED", caller)

Noted(c, what) ==
  \/ Shelved(what)
  \/ \E i \in DOMAIN conn.queue : conn.queue[i] = Word(what)
  \/ \E i \in DOMAIN c.out : c.out[i] = Word(what)
\* What the script raised is heard of before its end is.
Preceded(c, what) ==
  /\ \A i \in DOMAIN c.out : c.out[i] = Farewell =>
       \/ Shelved(what)
       \/ \E j \in DOMAIN conn.queue : conn.queue[j] = Word(what)
       \/ \E j \in DOMAIN c.out : j < i /\ c.out[j] = Word(what)
  /\ \A i \in DOMAIN conn.queue : conn.queue[i] = Farewell =>
       \/ Shelved(what)
       \/ \E j \in DOMAIN conn.queue : j < i /\ conn.queue[j] = Word(what)
  /\ Mine("STOPPED") \/ caller.stopped >= 1 => Shelved(what)
\* Once the end has been seen the stores are looked at once more.
Passed(what) ==
  caller.stopped >= 1 => /\ caller.pc # "keys" /\ caller.stopped # 2
                         /\ caller.pc = "err" => what # "exception"
Silent(c) ==
  /\ \A i \in DOMAIN c.out : c.out[i] # Farewell
  /\ \A i \in DOMAIN conn.queue : conn.queue[i] # Farewell
  /\ ~Mine("STOPPED") /\ caller.stopped = 0

\* The order of the call is the last one.
LastOne(q, name, call) == \A i \in DOMAIN q : q[i].name = name => i = Len(q) /\ q[i].call = call

\* The script of the call: still to come, or ignored; running; and over.
Awaited(c) ==
  /\ c.script = NoScript \/ c.script.name # caller.name
  /\ Silent(c)
  /\ LastOne(c.inbox, caller.name, caller.call)
Running(c) ==
  /\ c.inbox = <<>> /\ c.script.name = caller.name /\ c.script.call = caller.call
  /\ Silent(c)
  /\ conn.run => \A what \in c.script.raised : Counts(what) => Noted(c, what)
Finished(c) ==
  /\ c.inbox = <<>> /\ c.script = NoScript /\ c.last.call = caller.call
  /\ \A what \in c.last.raised : Counts(what) => Preceded(c, what) /\ Passed(what)
Phase(c) == Awaited(c) \/ Running(c) \/ Finished(c)

\* What is added to what was said.
Longer(c, e) ==
  /\ \A i \in DOMAIN c.out : i \in DOMAIN e.out /\ e.out[i] = c.out[i]
  /\ \A i \in DOMAIN e.out : e.out[i] = Farewell => i \in DOMAIN c.out /\ e.out[i] = c.out[i]
SameScript(c, e) == e.script = c.script /\ e.last = c.last /\ e.inbox = c.inbox

LEMMA PhaseGoesOn ==
  ASSUME NEW c, NEW e, Longer(c, e), SameScript(c, e)
  PROVE  /\ Awaited(c) => Awaited(e)
         /\ Running(c) => Running(e)
         /\ Phase(c) => Phase(e)
<1>1. Silent(c) => Silent(e)
  BY Zenon DEF Silent, Longer
<1>2. Awaited(c) => Awaited(e)
  BY <1>1, Zenon DEF Awaited, SameScript
<1>3. Running(c) => Running(e)
  <2>1. \A what : Noted(c, what) => Noted(e, what)
    BY Zenon DEF Noted, Longer
  <2> QED
    BY <1>1, <2>1, Zenon DEF Running, SameScript
<1>4. Finished(c) => Finished(e)
  <2>1. ASSUME NEW what, Preceded(c, what)
        PROVE  Preceded(e, what)
    <3>1. ASSUME NEW i \in DOMAIN e.out, e.out[i] = Farewell
          PROVE  \/ Shelved(what)
                 \/ \E j \in DOMAIN conn.queue : conn.queue[j] = Word(what)
                 \/ \E j \in DOMAIN e.out : j < i /\ e.out[j] = Word(what)
      <4>1. i \in DOMAIN c.out /\ c.out[i] = Farewell
        BY <3>1, Zenon DEF Longer
      <4>2. \/ Shelved(what)
            \/ \E j \in DOMAIN conn.queue : conn.queue[j] = Word(what)
            \/ \E j \in DOMAIN c.out : j < i /\ c.out[j] = Word(what)
        BY <2>1, <4>1, Zenon DEF Preceded
      <4> QED
        BY <4>2, Zenon DEF Longer
    <3> QED
      BY <2>1, <3>1, Zenon DEF Preceded
  <2> QED
    BY <2>1, Zenon DEF Finished, SameScript
<1> QED
  BY <1>2, <1>3, <1>4 DEF Phase

LEMMA SaysElse ==
  ASSUME NEW c \in CtlType, NEW msg \in Packages, msg # Farewell, NEW e, e = Say(c, msg)
  PROVE  Longer(c, e) /\ SameScript(c, e) /\ e.heard = c.heard
<1>1. CASE e = c
  BY <1>1 DEF Longer, SameScript
<1>2. CASE e = [c EXCEPT !.out = Append(@, msg)]
  <2>1. c.out \in Streams
    BY Zenon DEF CtlType
  <2>2. PICK out : out = Append(c.out, msg)
    OBVIOUS
  <2>3. /\ \A i \in DOMAIN c.out : i \in DOMAIN out /\ out[i] = c.out[i]
        /\ \A i \in DOMAIN out : out[i] # msg => i \in DOMAIN c.out /\ out[i] = c.out[i]
    BY <2>1, <2>2 DEF Streams
  <2>4. e = [c EXCEPT !.out = out]
    BY <1>2, <2>2
  <2> HIDE <2>2
  <2>5. e.out = out /\ SameScript(c, e) /\ e.heard = c.heard
    BY <2>4, ZenonT(30) DEF CtlType, SameScript
  <2> QED
    BY <2>3, <2>5, Zenon DEF Longer
<1> QED
  BY <1>1, <1>2, Zenon DEF Say

\* A script that is over: what is left of it, and that it is told so.
LEMMA OverDoes ==
  ASSUME NEW c \in CtlType, c.script # NoScript, NEW e, e = Over(c)
  PROVE  \E d \in CtlType :
           /\ e = Say(d, Key("STOPPED", c.script))
           /\ d.out = c.out /\ d.inbox = c.inbox /\ d.script = NoScript /\ d.last = c.script /\ d.heard = c.heard
           /\ Key("STOPPED", c.script) \in Packages
<1>1. PICK d : d = [c EXCEPT !.script = NoScript, !.last = c.script]
  OBVIOUS
<1>2. e = Say(d, Key("STOPPED", c.script))
  BY <1>1, Zenon DEF Over
<1>3. c.script \in RobotScripts
  BY Zenon DEF CtlType
<1>4. Key("STOPPED", c.script) \in Packages
  BY <1>3, PackagesAre, Zenon DEF KeyTitles
<1>5. /\ d \in CtlType /\ d.out = c.out /\ d.inbox = c.inbox /\ d.script = NoScript /\ d.last = c.script
      /\ d.heard = c.heard
  BY <1>1, <1>3, ScriptsAre, ZenonT(30) DEF CtlType
<1> QED
  BY <1>2, <1>4, <1>5, Zenon

LEMMA KeysDiffer ==
  ASSUME NEW s, s.name # caller.name
  PROVE  Key("STOPPED", s) # Farewell
BY Zenon DEF Key, Farewell
LEMMA WordsDiffer ==
  /\ \A s : Key("STARTED", s) # Farewell
  /\ \A level : Error(level) # Farewell
  /\ [k |-> "exception"] # Farewell
  /\ \A s : [k |-> "safety", safety |-> s] # Farewell
  /\ \A v : [k |-> "state", view |-> v] # Farewell
<1>1. Farewell.k = "key" /\ Farewell.title = "STOPPED"
  BY Zenon DEF Farewell, Key
<1>2. \A s : Key("STARTED", s).title = "STARTED"
  BY Zenon DEF Key
<1>3. \A level : Error(level).k = "error"
  BY Zenon DEF Error
<1>4. [k |-> "exception"].k = "exception" /\ \A s : [k |-> "safety", safety |-> s].k = "safety"
  OBVIOUS
<1>5. \A v : [k |-> "state", view |-> v].k = "state"
  OBVIOUS
<1> QED
  BY <1>1, <1>2, <1>3, <1>4, <1>5

LEMMA OverPhase ==
  ASSUME NEW c \in CtlType, Phase(c), NEW e, e = Over(c)
  PROVE  /\ Phase(e) /\ e.heard = c.heard
         /\ Awaited(c) => Awaited(e) /\ e.script = NoScript
<1>1. CASE c.script = NoScript
  <2>1. e = c
    BY <1>1, Zenon DEF Over
  <2> QED
    BY <1>1, <2>1
<1>2. CASE c.script # NoScript
  <2>0. PICK msg : msg = Key("STOPPED", c.script)
    OBVIOUS
  <2>1. PICK d \in CtlType :
           /\ e = Say(d, msg)
           /\ d.out = c.out /\ d.inbox = c.inbox /\ d.script = NoScript /\ d.last = c.script /\ d.heard = c.heard
           /\ msg \in Packages
    BY <1>2, <2>0, OverDoes, Zenon
  <2>2. ASSUME Awaited(c)
        PROVE  Awaited(e) /\ e.script = NoScript /\ e.heard = c.heard
    <3>1. msg # Farewell
      BY <1>2, <2>0, <2>2, KeysDiffer, Zenon DEF Awaited
    <3>2. Longer(d, e) /\ SameScript(d, e) /\ e.heard = d.heard
      BY <2>1, <3>1, SaysElse
    <3>3. Awaited(d)
      BY <2>1, <2>2, Zenon DEF Awaited, Silent
    <3> QED
      BY <2>1, <3>2, <3>3, PhaseGoesOn, Zenon DEF SameScript
  <2>3. ASSUME Running(c)
        PROVE  Finished(e) /\ e.heard = c.heard
    <3>1. msg = Farewell
      BY <2>0, <2>3, Zenon DEF Running, Farewell, Key
    <3>2. /\ e.inbox = c.inbox /\ e.script = NoScript /\ e.last = c.script /\ e.heard = c.heard
          /\ e.out = c.out \/ (e.out = Append(c.out, Farewell) /\ conn.run)
      <4>1. CASE e = d
        BY <2>1, <4>1
      <4>2. CASE conn.run /\ e = [d EXCEPT !.out = Append(@, msg)]
        BY <2>1, <3>1, <4>2, ZenonT(30) DEF CtlType
      <4> QED
        BY <2>1, <4>1, <4>2, Zenon DEF Say
    <3>3. ASSUME NEW what \in c.script.raised, Counts(what)
          PROVE  Preceded(e, what) /\ Passed(what)
      <4>1. Silent(c) /\ (conn.run => Noted(c, what))
        BY <2>3, <3>3, Zenon DEF Running
      <4>2. Passed(what)
        BY <4>1 DEF Passed, Silent
      <4>3. ASSUME NEW i \in DOMAIN e.out, e.out[i] = Farewell
            PROVE  \/ Shelved(what)
                   \/ \E j \in DOMAIN conn.queue : conn.queue[j] = Word(what)
                   \/ \E j \in DOMAIN e.out : j < i /\ e.out[j] = Word(what)
        <5>1. e.out = Append(c.out, Farewell) /\ conn.run
          BY <3>2, <4>1, <4>3, Zenon DEF Silent
        <5>2. c.out \in Seq(Packages)
          BY Zenon DEF CtlType, Streams
        <5>3. PICK out \in Seq(Packages) : out = c.out
          BY <5>2
        <5>4. \A j \in DOMAIN out : out[j] # Farewell
          BY <4>1, <5>3 DEF Silent
        <5>5. \A j \in DOMAIN out : j < i /\ j \in DOMAIN e.out /\ e.out[j] = out[j]
          BY <4>3, <5>1, <5>3, <5>4
        <5> QED
          BY <4>1, <5>1, <5>3, <5>5, Zenon DEF Noted
      <4>4. ~(Mine("STOPPED") \/ caller.stopped >= 1)
        BY <4>1 DEF Silent
      <4> QED
        BY <4>1, <4>2, <4>3, <4>4, Zenon DEF Preceded, Silent
    <3>4. e.inbox = <<>> /\ e.last.call = caller.call
      BY <2>3, <3>2, Zenon DEF Running
    <3> QED
      BY <3>2, <3>3, <3>4, Zenon DEF Finished
  <2>4. ~Finished(c)
    BY <1>2 DEF Finished
  <2> QED
    BY <2>2, <2>3, <2>4, Zenon DEF Phase
<1> QED
  BY <1>1, <1>2

\* What does not touch the script, nor what was said.
LEMMA OtherFields ==
  ASSUME NEW c, NEW e, e.out = c.out, SameScript(c, e)
  PROVE  Longer(c, e)
BY DEF Longer

LEMMA SafetyPhase ==
  ASSUME NEW c \in CtlType, NEW s \in Safeties, NEW e, e = Safety(c, s)
  PROVE  Longer(c, e) /\ SameScript(c, e) /\ e.heard = c.heard
<1>1. PICK d : d = [c EXCEPT !.safety = s]
  OBVIOUS
<1>2. PICK msg : msg = [k |-> "safety", safety |-> s]
  OBVIOUS
<1>3. e = Say(d, msg)
  BY <1>1, <1>2, Zenon DEF Safety
<1>4. msg \in Packages /\ msg # Farewell
  BY <1>2, PackagesAre, WordsDiffer, Zenon
<1>5. d \in CtlType /\ d.out = c.out /\ SameScript(c, d) /\ d.heard = c.heard
  BY <1>1, ZenonT(30) DEF CtlType, SameScript
<1> HIDE <1>1, <1>2
<1>6. Longer(d, e) /\ SameScript(d, e) /\ e.heard = d.heard
  BY <1>3, <1>4, <1>5, SaysElse
<1> QED
  BY <1>5, <1>6, Zenon DEF Longer, SameScript

\* The first order is taken; that of the call, which is the last one, leaves none behind.
LEMMA FirstOrder ==
  ASSUME NEW q \in Inboxes, q # <<>>, NEW name, NEW call,
         LastOne(q, name, call),
         NEW cmd, cmd = Head(q), NEW rest, rest = Tail(q)
  PROVE  /\ cmd.name = name => rest = <<>> /\ cmd.call = call
         /\ LastOne(rest, name, call)
<1>1. q \in Seq(Orders) /\ Len(q) \in Nat /\ Len(q) > 0 /\ Head(q) = q[1] /\ 1 \in DOMAIN q
  BY DEF Inboxes
<1>2. rest \in Seq(Orders)
  BY <1>1, HeadTailProperties
<1>3. /\ Len(rest) = Len(q) - 1
      /\ \A i \in DOMAIN rest : i \in Nat /\ i + 1 \in DOMAIN q /\ rest[i] = q[i + 1]
  BY <1>1, <1>2
<1>4. cmd.name = name => Len(q) = 1 /\ cmd.call = call
  BY <1>1 DEF LastOne
<1>5. Len(q) = 1 => rest = <<>>
  BY <1>2, <1>3
<1>6. ASSUME NEW i \in DOMAIN rest, rest[i].name = name
      PROVE  i = Len(rest) /\ rest[i].call = call
  <2>1. i \in Nat /\ i + 1 = Len(q) /\ rest[i].call = call
    BY <1>3, <1>6 DEF LastOne
  <2> QED
    BY <1>1, <1>3, <2>1
<1> QED
  BY <1>2, <1>4, <1>5, <1>6 DEF LastOne

LEMMA ObeyedPhase ==
  ASSUME NEW c \in CtlType, Awaited(c), NEW cmd \in Orders, NEW e, e = Obeyed(c, cmd),
         cmd.name = caller.name => c.inbox = <<>> /\ cmd.call = caller.call
  PROVE  Phase(e) /\ e.heard = c.heard
<1>0. Phase(c)
  BY DEF Phase
<1>1. CASE e = Say(c, Error("read_only"))
  <2>1. PICK msg : msg = Error("read_only")
    OBVIOUS
  <2>2. msg \in Packages /\ msg # Farewell
    BY <2>1, PackagesAre, WordsDiffer, Zenon DEF Levels
  <2>3. e = Say(c, msg)
    BY <1>1, <2>1, Zenon
  <2> HIDE <2>1
  <2>4. Longer(c, e) /\ SameScript(c, e) /\ e.heard = c.heard
    BY <2>2, <2>3, SaysElse
  <2> QED
    BY <1>0, <2>4, PhaseGoesOn, Zenon
<1>2. CASE e = Say([Over(c) EXCEPT !.script = [name |-> cmd.name, call |-> cmd.call, raised |-> {}]],
                   Key("STARTED", [name |-> cmd.name, call |-> cmd.call, raised |-> {}]))
  <2>1. PICK new : new = [name |-> cmd.name, call |-> cmd.call, raised |-> {}]
    OBVIOUS
  <2>2. new \in RobotScripts /\ new.name = cmd.name /\ new.call = cmd.call /\ new.raised = {}
    <3>1. cmd.name \in ScriptNames /\ cmd.call \in Nat /\ {} \in SUBSET Severities
      BY DEF Orders
    <3> QED
      BY <2>1, <3>1, Zenon DEF RobotScripts
  <2>3. PICK d : d = Over(c)
    OBVIOUS
  <2>4. PICK f : f = [d EXCEPT !.script = new]
    OBVIOUS
  <2>5. PICK msg : msg = Key("STARTED", new)
    OBVIOUS
  <2>6. e = Say(f, msg)
    BY <1>2, <2>1, <2>3, <2>4, <2>5, Zenon
  <2>7. msg \in Packages /\ msg # Farewell
    BY <2>2, <2>5, PackagesAre, WordsDiffer, Zenon DEF KeyTitles
  <2> HIDE <2>1, <2>5
  <2>8. d \in CtlType /\ Awaited(d) /\ d.heard = c.heard /\ d.inbox = c.inbox
    BY <1>0, <2>3, OverIs, OverPhase, Zenon DEF SameRobot
  <2>9. f \in CtlType /\ f.inbox = d.inbox /\ f.out = d.out /\ f.script = new /\ f.heard = d.heard
    BY <2>2, <2>4, <2>8, ZenonT(30) DEF CtlType
  <2> HIDE <2>3, <2>4
  <2>10. Longer(f, e) /\ SameScript(f, e) /\ e.heard = f.heard
    BY <2>6, <2>7, <2>9, SaysElse
  <2>11. Silent(f)
    BY <2>8, <2>9, Zenon DEF Awaited, Silent
  <2>12. CASE cmd.name = caller.name
    <3>1. Running(f)
      BY <2>2, <2>8, <2>9, <2>11, <2>12 DEF Running
    <3> QED
      BY <2>8, <2>9, <2>10, <3>1, PhaseGoesOn, Zenon DEF Phase
  <2>13. CASE cmd.name # caller.name
    <3>1. Awaited(f)
      BY <2>2, <2>8, <2>9, <2>11, <2>13, Zenon DEF Awaited
    <3> QED
      BY <2>8, <2>9, <2>10, <3>1, PhaseGoesOn, Zenon DEF Phase
  <2> QED
    BY <2>12, <2>13
<1>3. CASE e = Over(c)
  BY <1>0, <1>3, OverPhase, Zenon
<1>4. CASE \E mode \in RobotModes : e = [c EXCEPT !.mode = mode]
  <2>1. e.out = c.out /\ SameScript(c, e) /\ e.heard = c.heard
    BY <1>4, ZenonT(30) DEF CtlType, SameScript
  <2> QED
    BY <1>0, <2>1, OtherFields, PhaseGoesOn, Zenon
<1>5. CASE e = [Over(c) EXCEPT !.mode = "POWER_OFF"]
  <2>1. PICK d : d = Over(c)
    OBVIOUS
  <2>2. d \in CtlType /\ Phase(d) /\ d.heard = c.heard
    BY <1>0, <2>1, OverIs, OverPhase, Zenon
  <2>3. e = [d EXCEPT !.mode = "POWER_OFF"]
    BY <1>5, <2>1
  <2> HIDE <2>1
  <2>4. e.out = d.out /\ SameScript(d, e) /\ e.heard = d.heard
    BY <2>2, <2>3, ZenonT(30) DEF CtlType, SameScript
  <2> QED
    BY <2>2, <2>4, OtherFields, PhaseGoesOn, Zenon
<1>6. CASE e = Safety(c, "NORMAL")
  <2>1. Longer(c, e) /\ SameScript(c, e) /\ e.heard = c.heard
    BY <1>6, SafetyPhase DEF Safeties
  <2> QED
    BY <1>0, <2>1, PhaseGoesOn, Zenon
<1>7. CASE e = c
  BY <1>0, <1>7
<1>8. \/ e = Say(c, Error("read_only"))
      \/ e = Say([Over(c) EXCEPT !.script = [name |-> cmd.name, call |-> cmd.call, raised |-> {}]],
                 Key("STARTED", [name |-> cmd.name, call |-> cmd.call, raised |-> {}]))
      \/ e = Over(c)
      \/ \E mode \in RobotModes : e = [c EXCEPT !.mode = mode]
      \/ e = [Over(c) EXCEPT !.mode = "POWER_OFF"]
      \/ e = Safety(c, "NORMAL")
      \/ e = c
  BY Zenon DEF Obeyed, RobotModes
<1> QED
  BY <1>1, <1>2, <1>3, <1>4, <1>5, <1>6, <1>7, <1>8

LEMMA ObeyPhase ==
  ASSUME PrimaryTypeOK, Phase(ctl), Obey, NEW e, e = ctl'
  PROVE  Phase(e) /\ e.heard = ctl.heard
<1>1. ctl \in CtlType /\ ctl.inbox \in Inboxes
  BY Zenon DEF PrimaryTypeOK, CtlType
<1>2. PICK rest : rest = Tail(ctl.inbox)
  OBVIOUS
<1>3. PICK cmd : cmd = Head(ctl.inbox)
  OBVIOUS
<1>4. PICK c : c = [ctl EXCEPT !.inbox = rest]
  OBVIOUS
<1>5. ctl.inbox # <<>> /\ e = Obeyed(c, cmd)
  BY <1>2, <1>3, <1>4, Zenon DEF Obey
<1>6. cmd \in Orders /\ rest \in Inboxes
  BY <1>1, <1>2, <1>3, <1>5, FirstIs, Zenon
<1>7. /\ c \in CtlType /\ c.script = ctl.script /\ c.inbox = rest /\ c.out = ctl.out
      /\ c.heard = ctl.heard
  BY <1>1, <1>4, <1>6, ZenonT(30) DEF CtlType
<1>8. Awaited(ctl)
  BY <1>5, Zenon DEF Phase, Running, Finished
<1>9. /\ cmd.name = caller.name => rest = <<>> /\ cmd.call = caller.call
      /\ LastOne(rest, caller.name, caller.call)
  <2>1. LastOne(ctl.inbox, caller.name, caller.call)
    BY <1>8, Zenon DEF Awaited
  <2>2. ctl.inbox \in Inboxes /\ ctl.inbox # <<>>
    BY <1>1, <1>5
  <2>3. ASSUME NEW q \in Inboxes, q # <<>>, NEW name, NEW call, LastOne(q, name, call)
        PROVE  /\ Head(q).name = name => Tail(q) = <<>> /\ Head(q).call = call
               /\ LastOne(Tail(q), name, call)
    BY <2>3, FirstOrder, Zenon
  <2>4. /\ Head(ctl.inbox).name = caller.name => Tail(ctl.inbox) = <<>> /\ Head(ctl.inbox).call = caller.call
        /\ LastOne(Tail(ctl.inbox), caller.name, caller.call)
    BY <2>1, <2>2, <2>3, Zenon
  <2> QED
    BY <1>2, <1>3, <2>4
<1>10. Awaited(c)
  <2>1. Silent(c)
    BY <1>7, <1>8, Zenon DEF Awaited, Silent
  <2> QED
    BY <1>7, <1>8, <1>9, <2>1, Zenon DEF Awaited
<1> HIDE <1>2, <1>3, <1>4
<1> QED
  BY <1>5, <1>6, <1>7, <1>9, <1>10, ObeyedPhase, Zenon

LEMMA RaisesPhase ==
  ASSUME PrimaryTypeOK, Phase(ctl), {"error", "exception"} \subseteq ctl.heard, conn.live,
         NEW what \in Severities, ScriptRaises(what), NEW e, e = ctl'
  PROVE  Phase(e) /\ e.heard = ctl.heard
<1>1. ctl \in CtlType /\ ctl.script \in RobotScripts
  BY Zenon DEF PrimaryTypeOK, CtlType
<1>2. PICK script : script = [ctl.script EXCEPT !.raised = {what}]
  OBVIOUS
<1>3. script \in RobotScripts /\ script.name = ctl.script.name /\ script.call = ctl.script.call /\ script.raised = {what}
  <2>1. {what} \in SUBSET Severities
    OBVIOUS
  <2> QED
    BY <1>1, <1>2, <2>1, ZenonT(30) DEF RobotScripts
<1>4. PICK c : c = [ctl EXCEPT !.script = script]
  OBVIOUS
<1>5. c \in CtlType /\ c.out = ctl.out /\ c.inbox = ctl.inbox /\ c.script = script /\ c.heard = ctl.heard
  BY <1>1, <1>3, <1>4, ZenonT(30) DEF CtlType
<1>6. c = [ctl EXCEPT !.script.raised = {what}]
  BY <1>1, <1>2, <1>4, Zenon DEF CtlType, RobotScripts
<1>7. PICK msg : msg = Word(what)
  OBVIOUS
<1>8. msg \in Packages /\ msg # Farewell
  <2>1. what # "exception" => what \in Levels
    BY DEF Severities, Levels
  <2> QED
    BY <1>7, <2>1, PackagesAre, WordsDiffer, Zenon DEF Word
<1>9. PICK d : d = Say(c, msg)
  OBVIOUS
<1>10. ctl.script # NoScript /\ e = IF what = "exception" THEN Over(d) ELSE d
  BY <1>6, <1>7, <1>9, Zenon DEF ScriptRaises, Word
<1>11. d \in CtlType /\ Longer(c, d) /\ SameScript(c, d) /\ d.heard = c.heard
  <2>1. d \in CtlType
    BY <1>5, <1>8, <1>9, SayIs
  <2> QED
    BY <1>5, <1>8, <1>9, <2>1, SaysElse
<1>12. msg.k \in ctl.heard
  <2>1. what = "exception" => msg.k = "exception"
    BY <1>7 DEF Word
  <2>2. what # "exception" => msg.k = "error"
    BY <1>7, Zenon DEF Word, Error
  <2> QED
    BY <2>1, <2>2
<1>13. conn.run => \E i \in DOMAIN d.out : d.out[i] = Word(what)
  <2> SUFFICES ASSUME conn.run PROVE \E i \in DOMAIN d.out : d.out[i] = Word(what)
    OBVIOUS
  <2>1. d = [c EXCEPT !.out = Append(@, msg)]
    BY <1>5, <1>9, <1>12, Zenon DEF Say
  <2>2. d.out = Append(c.out, msg)
    BY <1>5, <2>1, ZenonT(30) DEF CtlType
  <2>3. c.out \in Seq(Packages)
    BY <1>5, Zenon DEF CtlType, Streams
  <2>4. PICK out \in Seq(Packages) : out = c.out
    BY <2>3
  <2>5. Len(out) + 1 \in DOMAIN Append(out, msg) /\ Append(out, msg)[Len(out) + 1] = msg
    OBVIOUS
  <2> QED
    BY <1>7, <2>2, <2>4, <2>5, Zenon
<1> HIDE <1>2, <1>4, <1>6, <1>9
<1>14. Phase(d)
  <2>1. CASE Awaited(ctl)
    <3>1. ctl.script.name # caller.name
      BY <1>10, <2>1, Zenon DEF Awaited
    <3>2. Awaited(c)
      BY <1>3, <1>5, <2>1, <3>1, Zenon DEF Awaited, Silent
    <3> QED
      BY <1>11, <3>2, PhaseGoesOn, Zenon DEF Phase
  <2>2. CASE Running(ctl)
    <3>1. Silent(c)
      BY <1>5, <2>2, Zenon DEF Running, Silent
    <3>2. Silent(d)
      BY <1>11, <3>1, Zenon DEF Silent, Longer
    <3>3. d.inbox = <<>> /\ d.script = script
      BY <1>5, <1>11, <2>2, Zenon DEF Running, SameScript
    <3>4. script.name = caller.name /\ script.call = caller.call
      BY <1>3, <2>2, Zenon DEF Running
    <3>5. conn.run => \A w \in {what} : Noted(d, w)
      BY <1>13 DEF Noted
    <3>6. Running(d)
      BY <1>3, <3>2, <3>3, <3>4, <3>5, Zenon DEF Running
    <3> QED
      BY <3>6 DEF Phase
  <2>3. ~Finished(ctl)
    BY <1>10, Zenon DEF Finished
  <2> QED
    BY <2>1, <2>2, <2>3, Zenon DEF Phase
<1> QED
  <2>1. what = "exception" => e = Over(d)
    BY <1>10
  <2>2. what # "exception" => e = d
    BY <1>10
  <2>3. d.heard = ctl.heard
    BY <1>5, <1>11
  <2> QED
    BY <1>11, <1>14, <2>1, <2>2, <2>3, OverPhase, Zenon

LEMMA TellStatePhase ==
  ASSUME PrimaryTypeOK, Phase(ctl), TellState, NEW e, e = ctl'
  PROVE  Phase(e) /\ e.heard = ctl.heard
<1>1. ctl \in CtlType
  BY Zenon DEF PrimaryTypeOK
<1>2. PICK view : view = State(ctl)
  OBVIOUS
<1>3. view \in StateViews
  BY <1>1, <1>2, ScriptsAre, Zenon
<1>4. PICK msg : msg = [k |-> "state", view |-> view]
  OBVIOUS
<1>5. PICK c : c = [ctl EXCEPT !.told = view]
  OBVIOUS
<1>6. e = Say(c, msg)
  BY <1>2, <1>4, <1>5, Zenon DEF TellState
<1>7. msg \in Packages /\ msg # Farewell
  BY <1>3, <1>4, PackagesAre, WordsDiffer, Zenon
<1>8. c \in CtlType /\ SameScript(ctl, c) /\ c.out = ctl.out /\ c.heard = ctl.heard
  BY <1>1, <1>3, <1>5, ZenonT(30) DEF CtlType, SameScript
<1> HIDE <1>2, <1>4, <1>5
<1>9. Longer(c, e) /\ SameScript(c, e) /\ e.heard = c.heard
  BY <1>6, <1>7, <1>8, SaysElse
<1>10. Phase(c)
  BY <1>8, OtherFields, PhaseGoesOn, Zenon
<1> QED
  BY <1>8, <1>9, <1>10, PhaseGoesOn, Zenon

LEMMA PendantPhase ==
  ASSUME PrimaryTypeOK, Phase(ctl), Pendant, NEW e, e = ctl'
  PROVE  Phase(e) /\ e.heard = ctl.heard
<1>1. ctl \in CtlType
  BY Zenon DEF PrimaryTypeOK
<1>2. PICK c : c = Over(ctl)
  OBVIOUS
<1>3. c \in CtlType /\ Phase(c) /\ c.heard = ctl.heard
  BY <1>1, <1>2, OverIs, OverPhase, Zenon
<1>4. \/ e = [c EXCEPT !.mode = "POWER_OFF"]
      \/ e = Safety(c, "PROTECTIVE_STOP")
      \/ e = [Safety(c, "FAULT") EXCEPT !.mode = "POWER_OFF"]
  BY <1>2, Zenon DEF Pendant
<1>5. ASSUME NEW d \in CtlType, NEW f, f = [d EXCEPT !.mode = "POWER_OFF"]
      PROVE  f.out = d.out /\ SameScript(d, f) /\ f.heard = d.heard
  BY <1>5, ZenonT(30) DEF CtlType, SameScript
<1> HIDE <1>2
<1>6. CASE e = [c EXCEPT !.mode = "POWER_OFF"]
  <2>1. e.out = c.out /\ SameScript(c, e) /\ e.heard = c.heard
    BY <1>3, <1>5, <1>6, Zenon
  <2> QED
    BY <1>3, <2>1, OtherFields, PhaseGoesOn, Zenon
<1>7. CASE e = Safety(c, "PROTECTIVE_STOP")
  <2>1. Longer(c, e) /\ SameScript(c, e) /\ e.heard = c.heard
    BY <1>3, <1>7, SafetyPhase DEF Safeties
  <2> QED
    BY <1>3, <2>1, PhaseGoesOn, Zenon
<1>8. CASE e = [Safety(c, "FAULT") EXCEPT !.mode = "POWER_OFF"]
  <2>1. PICK d : d = Safety(c, "FAULT")
    OBVIOUS
  <2>2. d \in CtlType /\ Longer(c, d) /\ SameScript(c, d) /\ d.heard = c.heard
    BY <1>3, <2>1, SafetyIs, SafetyPhase DEF Safeties
  <2>3. e.out = d.out /\ SameScript(d, e) /\ e.heard = d.heard
    BY <1>5, <1>8, <2>1, <2>2, Zenon
  <2>4. Phase(d)
    BY <1>3, <2>2, PhaseGoesOn, Zenon
  <2> QED
    BY <1>3, <2>2, <2>3, <2>4, OtherFields, PhaseGoesOn, Zenon
<1> QED
  BY <1>4, <1>6, <1>7, <1>8

LEMMA ControllerPhase ==
  ASSUME PrimaryTypeOK, Phase(ctl), {"error", "exception"} \subseteq ctl.heard, conn.live,
         Controller(ControllerNext), NEW e, e = ctl'
  PROVE  Phase(e) /\ e.heard = ctl.heard
<1>1. CASE Obey
  BY <1>1, ObeyPhase
<1>2. CASE ScriptEnds
  BY <1>2, OverPhase, Zenon DEF ScriptEnds, PrimaryTypeOK
<1>3. CASE \E what \in Severities : ScriptRaises(what)
  BY <1>3, RaisesPhase
<1>4. CASE TellState
  BY <1>4, TellStatePhase
<1>5. CASE Pendant
  BY <1>5, PendantPhase
<1> QED
  BY <1>1, <1>2, <1>3, <1>4, <1>5 DEF Controller, ControllerNext, Severities

(* What the other threads, and the caller itself, make of it.              *)
SameWatch == /\ caller'.name = caller.name /\ caller'.call = caller.call /\ caller'.strict = caller.strict
             /\ caller'.stopped = caller.stopped /\ caller'.what = caller.what /\ caller'.msg = caller.msg
SameStores == stores'.exc = stores.exc /\ stores'.err = stores.err /\ stores'.keys = stores.keys

LEMMA SameWords ==
  ASSUME SameWatch
  PROVE  /\ Farewell' = Farewell
         /\ \A what : Counts(what)' <=> Counts(what)
         /\ stores'.keys = stores.keys => (Mine("STOPPED")' <=> Mine("STOPPED"))
BY Zenon DEF SameWatch, Farewell, Key, Counts, Mine

LEMMA SameShelves ==
  ASSUME SameStores
  PROVE  \A what : Shelved(what)' <=> Shelved(what)
BY DEF SameStores, Shelved

\* Nothing but the place of the caller changes, which is not where it would find what was told.
LEMMA PhaseStays ==
  ASSUME NEW e, e = ctl', Phase(e), conn'.queue = conn.queue, conn'.run = conn.run, SameStores, SameWatch,
         caller'.stopped >= 1 => /\ caller'.pc = "keys" => caller.pc = "keys"
                                 /\ caller'.pc = "err" => caller.pc = "err"
  PROVE  Phase(ctl)'
<1>1. Farewell' = Farewell /\ (Mine("STOPPED")' <=> Mine("STOPPED")) /\ \A what : Counts(what)' <=> Counts(what)
  BY SameWords, Zenon DEF SameStores
<1>2. \A what : Shelved(what)' <=> Shelved(what)
  BY SameShelves
<1>3. caller'.stopped = caller.stopped /\ caller'.name = caller.name /\ caller'.call = caller.call
  BY DEF SameWatch
<1>4. Silent(e) => Silent(ctl)'
  BY <1>1, <1>3 DEF Silent
<1>5. ASSUME NEW what
      PROVE  Noted(e, what) => Noted(ctl, what)'
  BY <1>2 DEF Noted
<1>6. ASSUME NEW what
      PROVE  Preceded(e, what) => Preceded(ctl, what)'
  BY <1>1, <1>2, <1>3 DEF Preceded
<1>7. ASSUME NEW what
      PROVE  Passed(what) => Passed(what)'
  BY <1>3 DEF Passed
<1>8. Awaited(e) => Awaited(ctl)'
  BY <1>3, <1>4, Zenon DEF Awaited
<1>9. Running(e) => Running(ctl)'
  BY <1>1, <1>3, <1>4, <1>5, Zenon DEF Running
<1>10. Finished(e) => Finished(ctl)'
  BY <1>1, <1>3, <1>6, <1>7, Zenon DEF Finished
<1> QED
  BY <1>8, <1>9, <1>10, Zenon DEF Phase

LEMMA SoundIs ==
  ASSUME caller \in CallerType, NEW b \in BOOLEAN, caller' = [caller EXCEPT !.sound = b]
  PROVE  SameWatch /\ caller'.pc = caller.pc /\ caller'.sound = b
BY ZenonT(30) DEF CallerType, SameWatch

LEMMA GotoIs ==
  ASSUME caller \in CallerType, NEW place \in CallPlaces, Goto(place)
  PROVE  SameWatch /\ caller'.pc = place /\ caller'.sound = caller.sound
BY ZenonT(30) DEF CallerType, SameWatch, Goto

MovedOn(out, queue, rest, next) ==
  /\ \A i \in DOMAIN queue : i \in DOMAIN next /\ next[i] = queue[i]
  /\ \A i \in DOMAIN next : i \in DOMAIN queue \/ (i = Len(queue) + 1 /\ next[i] = out[1])
  /\ \A i \in DOMAIN next : i \in DOMAIN queue => next[i] = queue[i] /\ i < Len(queue) + 1
  /\ Len(queue) + 1 \in DOMAIN next /\ next[Len(queue) + 1] = out[1] /\ 1 \in DOMAIN out
  /\ \A i \in DOMAIN rest : i \in Nat /\ i + 1 \in DOMAIN out /\ rest[i] = out[i + 1]
  /\ \A j \in DOMAIN out : j \in Nat /\ (j = 1 \/ (j - 1 \in DOMAIN rest /\ rest[j - 1] = out[j]))
LEMMA QueueGrows ==
  ASSUME NEW out \in Streams, out # <<>>, NEW queue \in Streams
  PROVE  MovedOn(out, queue, Tail(out), Append(queue, Head(out)))
<1>1. PICK rest : rest = Tail(out)
  OBVIOUS
<1>2. PICK next : next = Append(queue, Head(out))
  OBVIOUS
<1>3. out \in Seq(Packages) /\ queue \in Seq(Packages) /\ Head(out) = out[1] /\ Head(out) \in Packages
  BY HeadTailProperties DEF Streams
<1>4. rest \in Seq(Packages) /\ Len(rest) = Len(out) - 1 /\ Len(out) > 0
  BY <1>3, <1>1, HeadTailProperties
<1>5. next \in Seq(Packages) /\ Len(next) = Len(queue) + 1 /\ next[Len(queue) + 1] = out[1]
      /\ \A i \in 1..Len(queue) : next[i] = queue[i]
  BY <1>3, <1>2, AppendProperties
<1>6. \A i \in 1..Len(rest) : rest[i] = out[i + 1]
  BY <1>3, <1>4, <1>1
<1>7. MovedOn(out, queue, rest, next)
  <2>1. /\ \A i \in DOMAIN queue : i \in DOMAIN next /\ next[i] = queue[i]
        /\ \A i \in DOMAIN next : i \in DOMAIN queue \/ (i = Len(queue) + 1 /\ next[i] = out[1])
        /\ \A i \in DOMAIN next : i \in DOMAIN queue => next[i] = queue[i] /\ i < Len(queue) + 1
        /\ Len(queue) + 1 \in DOMAIN next /\ next[Len(queue) + 1] = out[1]
    BY <1>3, <1>5, <1>2
  <2>2. /\ 1 \in DOMAIN out
        /\ \A i \in DOMAIN rest : i \in Nat /\ i + 1 \in DOMAIN out /\ rest[i] = out[i + 1]
        /\ \A j \in DOMAIN out : j \in Nat /\ (j = 1 \/ (j - 1 \in DOMAIN rest /\ rest[j - 1] = out[j]))
    BY <1>3, <1>4, <1>6
  <2> QED
    BY <2>1, <2>2, Zenon DEF MovedOn
<1> QED
  BY <1>1, <1>2, <1>7

LEMMA ProducedPhase ==
  ASSUME ctl \in CtlType, conn \in ConnType, Phase(ctl), ctl.out # <<>>,
         ctl' = [ctl EXCEPT !.out = Tail(@)], conn' = [conn EXCEPT !.queue = Append(@, Head(ctl.out))],
         stores' = stores, SameWatch, caller'.pc = caller.pc
  PROVE  Phase(ctl)' /\ ctl'.heard = ctl.heard
<1>1. PICK out \in Streams : out = ctl.out
  BY Zenon DEF CtlType
<1>2. PICK queue \in Streams : queue = conn.queue
  BY Zenon DEF ConnType
<1>3. PICK rest : rest = Tail(out)
  OBVIOUS
<1>4. PICK next : next = Append(queue, Head(out))
  OBVIOUS
<1>5. out # <<>> /\ ctl' = [ctl EXCEPT !.out = rest] /\ conn' = [conn EXCEPT !.queue = next]
  BY <1>1, <1>2, <1>3, <1>4, Zenon
<1>6. /\ ctl'.out = rest /\ ctl'.script = ctl.script /\ ctl'.last = ctl.last /\ ctl'.inbox = ctl.inbox
      /\ ctl'.heard = ctl.heard
  BY <1>5, ZenonT(30) DEF CtlType
<1>7. conn'.queue = next /\ conn'.run = conn.run
  BY <1>5, ZenonT(30) DEF ConnType
<1>8. MovedOn(out, queue, rest, next)
  <2>1. MovedOn(out, queue, Tail(out), Append(queue, Head(out)))
    BY <1>5, QueueGrows
  <2> QED
    BY <1>3, <1>4, <2>1
<1>9. /\ Farewell' = Farewell /\ (Mine("STOPPED")' <=> Mine("STOPPED"))
      /\ \A what : (Counts(what)' <=> Counts(what)) /\ (Shelved(what)' <=> Shelved(what))
  BY SameWords, SameShelves, Zenon DEF SameStores
<1>10. caller'.stopped = caller.stopped /\ caller'.name = caller.name /\ caller'.call = caller.call
  BY DEF SameWatch
<1> HIDE <1>3, <1>4, <1>5
<1>11. Silent(ctl) => Silent(ctl)'
  <2> SUFFICES ASSUME Silent(ctl) PROVE Silent(ctl)'
    OBVIOUS
  <2>1. (\A i \in DOMAIN out : out[i] # Farewell) /\ (\A i \in DOMAIN queue : queue[i] # Farewell)
    BY <1>1, <1>2 DEF Silent
  <2>2. \A i \in DOMAIN rest : rest[i] # Farewell
    BY <1>8, <2>1 DEF MovedOn
  <2>3. \A i \in DOMAIN next : next[i] # Farewell
    BY <1>8, <2>1 DEF MovedOn
  <2> QED
    BY <1>6, <1>7, <1>9, <1>10, <2>2, <2>3 DEF Silent
<1>12. ASSUME NEW what
       PROVE  Noted(ctl, what) => Noted(ctl, what)'
  <2> SUFFICES ASSUME Noted(ctl, what) PROVE Noted(ctl, what)'
    OBVIOUS
  <2>1. PICK word : word = Word(what)
    OBVIOUS
  <2>2. \/ Shelved(what) \/ \E i \in DOMAIN queue : queue[i] = word
        \/ \E i \in DOMAIN out : out[i] = word
    BY <1>1, <1>2, <2>1 DEF Noted
  <2>3. \/ Shelved(what) \/ \E i \in DOMAIN next : next[i] = word
        \/ \E i \in DOMAIN rest : rest[i] = word
    BY <1>8, <2>2 DEF MovedOn
  <2> QED
    BY <1>6, <1>7, <1>9, <2>1, <2>3 DEF Noted
<1>13. ASSUME NEW what, Preceded(ctl, what)
       PROVE  Preceded(ctl, what)'
  <2>1. PICK word : word = Word(what)
    OBVIOUS
  <2>2. PICK end : end = Farewell
    OBVIOUS
  <2>3. /\ \A i \in DOMAIN out : out[i] = end =>
             \/ Shelved(what) \/ \E j \in DOMAIN queue : queue[j] = word
             \/ \E j \in DOMAIN out : j < i /\ out[j] = word
        /\ \A i \in DOMAIN queue : queue[i] = end =>
             \/ Shelved(what) \/ \E j \in DOMAIN queue : j < i /\ queue[j] = word
    BY <1>1, <1>2, <1>13, <2>1, <2>2 DEF Preceded
  <2>4. ASSUME NEW i \in DOMAIN rest, rest[i] = end, ~Shelved(what), \A j \in DOMAIN next : next[j] # word
        PROVE  \E j \in DOMAIN rest : j < i /\ rest[j] = word
    <3>1. i \in Nat /\ i + 1 \in DOMAIN out /\ out[i + 1] = end
      BY <1>8, <2>4 DEF MovedOn
    <3>2. \A j \in DOMAIN queue : queue[j] # word
      BY <1>8, <2>4 DEF MovedOn
    <3>3. PICK j \in DOMAIN out : j < i + 1 /\ out[j] = word
      BY <2>3, <2>4, <3>1, <3>2
    <3>4. j \in Nat /\ j # 1
      BY <1>8, <2>4, <3>3 DEF MovedOn
    <3>5. j - 1 \in DOMAIN rest /\ rest[j - 1] = word
      BY <1>8, <3>3, <3>4 DEF MovedOn
    <3>6. j - 1 < i
      BY <3>1, <3>3, <3>4
    <3> QED
      BY <3>5, <3>6
  <2>5. ASSUME NEW i \in DOMAIN next, next[i] = end, ~Shelved(what)
        PROVE  \E j \in DOMAIN next : j < i /\ next[j] = word
    <3>1. CASE i \in DOMAIN queue
      <4>1. PICK j \in DOMAIN queue : j < i /\ queue[j] = word
        BY <1>8, <2>3, <2>5, <3>1 DEF MovedOn
      <4> QED
        BY <1>8, <4>1 DEF MovedOn
    <3>2. CASE i = Len(queue) + 1 /\ next[i] = out[1]
      <4>1. \/ \E j \in DOMAIN queue : queue[j] = word
            \/ \E j \in DOMAIN out : j < 1 /\ out[j] = word
        BY <1>8, <2>3, <2>5, <3>2 DEF MovedOn
      <4>2. \A j \in DOMAIN out : ~(j < 1)
        BY <1>8 DEF MovedOn
      <4>3. PICK j \in DOMAIN queue : queue[j] = word
        BY <4>1, <4>2
      <4>4. j \in DOMAIN next /\ next[j] = word /\ j < i
        BY <1>8, <3>2, <4>3 DEF MovedOn
      <4> QED
        BY <4>4
    <3> QED
      BY <1>8, <2>5, <3>1, <3>2 DEF MovedOn
  <2>6. Mine("STOPPED") \/ caller.stopped >= 1 => Shelved(what)
    BY <1>13, Zenon DEF Preceded
  <2>7. \A i \in DOMAIN ctl'.out : ctl'.out[i] = end =>
          \/ Shelved(what)'
          \/ \E j \in DOMAIN conn'.queue : conn'.queue[j] = word
          \/ \E j \in DOMAIN ctl'.out : j < i /\ ctl'.out[j] = word
    BY <1>6, <1>7, <1>9, <2>4
  <2>8. \A i \in DOMAIN conn'.queue : conn'.queue[i] = end =>
          \/ Shelved(what)'
          \/ \E j \in DOMAIN conn'.queue : j < i /\ conn'.queue[j] = word
    BY <1>7, <1>9, <2>5
  <2>9. Mine("STOPPED")' \/ caller'.stopped >= 1 => Shelved(what)'
    BY <1>9, <1>10, <2>6
  <2> QED
    BY <1>9, <2>1, <2>2, <2>7, <2>8, <2>9, Zenon DEF Preceded
<1>14. ASSUME NEW what
       PROVE  Passed(what) => Passed(what)'
  BY <1>10 DEF Passed
<1>15. Awaited(ctl) => Awaited(ctl)'
  BY <1>6, <1>10, <1>11, Zenon DEF Awaited
<1>16. Running(ctl) => Running(ctl)'
  BY <1>6, <1>7, <1>9, <1>10, <1>11, <1>12, Zenon DEF Running
<1>17. Finished(ctl) => Finished(ctl)'
  BY <1>6, <1>9, <1>10, <1>13, <1>14, Zenon DEF Finished
<1> QED
  BY <1>6, <1>15, <1>16, <1>17, Zenon DEF Phase

Shifted(queue, rest) ==
  /\ 1 \in DOMAIN queue
  /\ \A i \in DOMAIN rest : i \in Nat /\ i + 1 \in DOMAIN queue /\ rest[i] = queue[i + 1]
  /\ \A j \in DOMAIN queue : j \in Nat /\ (j = 1 \/ (j - 1 \in DOMAIN rest /\ rest[j - 1] = queue[j]))
LEMMA QueueShrinks ==
  ASSUME NEW queue \in Streams, queue # <<>>
  PROVE  Shifted(queue, Tail(queue))
<1>1. MovedOn(queue, <<>>, Tail(queue), Append(<<>>, Head(queue)))
  BY QueueGrows, FirstIs
<1> QED
  BY <1>1, Zenon DEF MovedOn, Shifted

\* What is stored stays there until it is looked at.
StoredMore(p) ==
  /\ stores.exc => stores'.exc
  /\ stores.err \subseteq stores'.err
  /\ stores.keys \subseteq stores'.keys
  /\ p.k = "exception" => stores'.exc
  /\ p.k = "error" => p.level \in stores'.err
  /\ \A key \in stores'.keys :
       key \in stores.keys \/ (p.k = "key" /\ key = [title |-> p.title, name |-> p.name])
LEMMA StoredDoes ==
  ASSUME stores \in StoresType, NEW p \in Packages, stores' = Stored(stores, p)
  PROVE  StoredMore(p)
<1>1. CASE p.k = "key"
  <2>1. stores' = [stores EXCEPT !.keys = @ \cup {[title |-> p.title, name |-> p.name]}]
    BY <1>1, Zenon DEF Stored
  <2>2. /\ stores'.exc = stores.exc /\ stores'.err = stores.err
        /\ stores'.keys = stores.keys \cup {[title |-> p.title, name |-> p.name]}
    BY <2>1, ZenonT(30) DEF StoresType
  <2> QED
    BY <1>1, <2>2, Zenon DEF StoredMore
<1>2. CASE p.k = "error"
  <2>1. stores' = [stores EXCEPT !.err = @ \cup {p.level}]
    BY <1>2, Zenon DEF Stored
  <2>2. /\ stores'.exc = stores.exc /\ stores'.keys = stores.keys
        /\ stores'.err = stores.err \cup {p.level}
    BY <2>1, ZenonT(30) DEF StoresType
  <2> QED
    BY <1>2, <2>2, Zenon DEF StoredMore
<1>3. CASE p.k = "exception"
  <2>1. stores' = [stores EXCEPT !.exc = TRUE]
    BY <1>3, Zenon DEF Stored
  <2>2. stores'.exc = TRUE /\ stores'.keys = stores.keys /\ stores'.err = stores.err
    BY <2>1, ZenonT(30) DEF StoresType
  <2> QED
    BY <1>3, <2>2, Zenon DEF StoredMore
<1>4. CASE p.k = "state"
  <2>1. stores' = [stores EXCEPT !.view = p.view]
    BY <1>4, Zenon DEF Stored
  <2>2. stores'.exc = stores.exc /\ stores'.keys = stores.keys /\ stores'.err = stores.err
    BY <2>1, ZenonT(30) DEF StoresType
  <2> QED
    BY <1>4, <2>2, Zenon DEF StoredMore
<1>5. CASE p.k = "safety"
  <2>1. stores' = [stores EXCEPT !.safety = p.safety]
    BY <1>5, Zenon DEF Stored
  <2>2. stores'.exc = stores.exc /\ stores'.keys = stores.keys /\ stores'.err = stores.err
    BY <2>1, ZenonT(30) DEF StoresType
  <2> QED
    BY <1>5, <2>2, Zenon DEF StoredMore
<1>6. p.k \in {"key", "error", "exception", "state", "safety"}
  BY ZenonT(30) DEF Packages
<1> QED
  BY <1>1, <1>2, <1>3, <1>4, <1>5, <1>6

LEMMA ConsumePhase ==
  ASSUME PrimaryTypeOK, Phase(ctl), Consume
  PROVE  Phase(ctl)'
<1>1. PICK queue \in Streams : queue = conn.queue
  BY Zenon DEF PrimaryTypeOK, ConnType
<1>2. PICK p : p = Head(queue)
  OBVIOUS
<1>3. PICK rest : rest = Tail(queue)
  OBVIOUS
<1>4. queue # <<>> /\ stores' = Stored(stores, p) /\ conn' = [conn EXCEPT !.queue = rest]
      /\ ctl' = ctl /\ caller' = caller
  BY <1>1, <1>2, <1>3, Zenon DEF Consume
<1>5. p \in Packages /\ p = queue[1]
  <2>1. queue \in Seq(Packages)
    BY <1>1 DEF Streams
  <2> QED
    BY <1>2, <1>4, <2>1, HeadTailProperties
<1>6. Shifted(queue, rest)
  BY <1>1, <1>3, <1>4, QueueShrinks
<1>7. conn'.queue = rest /\ conn'.run = conn.run
  BY <1>4, ZenonT(30) DEF PrimaryTypeOK, ConnType
<1>8. StoredMore(p)
  BY <1>4, <1>5, StoredDoes, Zenon DEF PrimaryTypeOK
<1> HIDE <1>2, <1>3
<1>9. ASSUME NEW what
      PROVE  Shelved(what) \/ p = Word(what) => Shelved(what)'
  <2>1. CASE what = "exception"
    <3>1. [k |-> "exception"].k = "exception"
      OBVIOUS
    <3> QED
      BY <1>8, <2>1, <3>1, Zenon DEF Shelved, Word, StoredMore
  <2>2. CASE what # "exception"
    <3>1. Error(what).k = "error" /\ Error(what).level = what
      BY Zenon DEF Error
    <3> QED
      BY <1>8, <2>2, <3>1, Zenon DEF Shelved, Word, StoredMore
  <2> QED
    BY <2>1, <2>2
<1>10. PICK end : end = Farewell
  OBVIOUS
<1>11. Farewell' = end
  BY <1>4, <1>10, Zenon DEF Farewell, Key
<1>12. Mine("STOPPED")' => Mine("STOPPED") \/ p = end
  <2> SUFFICES ASSUME Mine("STOPPED")', ~Mine("STOPPED") PROVE p = end
    OBVIOUS
  <2>1. PICK key : key = [title |-> "STOPPED", name |-> caller.name]
    OBVIOUS
  <2>2. key \in stores'.keys /\ key \notin stores.keys
    BY <1>4, <2>1, Zenon DEF Mine
  <2>3. p.k = "key" /\ key = [title |-> p.title, name |-> p.name]
    BY <1>8, <2>2, Zenon DEF StoredMore
  <2>4. key.title = "STOPPED" /\ key.name = caller.name
    BY <2>1
  <2>5. p.title = "STOPPED" /\ p.name = caller.name
    BY <2>3, <2>4
  <2>6. p \in [k : {"key"}, title : KeyTitles, name : ScriptNames]
    BY <1>5, <2>3, ZenonT(30) DEF Packages
  <2>7. p = [k |-> "key", title |-> "STOPPED", name |-> caller.name]
    BY <2>3, <2>5, <2>6, ZenonT(30)
  <2> QED
    BY <1>10, <2>7, Zenon DEF Farewell, Key
<1>13. caller'.stopped = caller.stopped /\ caller'.name = caller.name /\ caller'.call = caller.call
       /\ caller'.pc = caller.pc
  BY <1>4
<1>14. Silent(ctl) => Silent(ctl)'
  <2> SUFFICES ASSUME Silent(ctl) PROVE Silent(ctl)'
    OBVIOUS
  <2>1. \A i \in DOMAIN queue : queue[i] # end
    BY <1>1, <1>10 DEF Silent
  <2>2. (\A i \in DOMAIN rest : rest[i] # end) /\ p # end
    BY <1>5, <1>6, <2>1 DEF Shifted
  <2>3. (\A i \in DOMAIN ctl.out : ctl.out[i] # end) /\ ~Mine("STOPPED") /\ caller.stopped = 0
    BY <1>10 DEF Silent
  <2> QED
    BY <1>4, <1>7, <1>11, <1>12, <1>13, <2>2, <2>3 DEF Silent
<1>15. ASSUME NEW what
       PROVE  Noted(ctl, what) => Noted(ctl, what)'
  <2> SUFFICES ASSUME Noted(ctl, what) PROVE Noted(ctl, what)'
    OBVIOUS
  <2>1. PICK word : word = Word(what)
    OBVIOUS
  <2>2. \/ Shelved(what) \/ \E i \in DOMAIN queue : queue[i] = word
        \/ \E i \in DOMAIN ctl.out : ctl.out[i] = word
    BY <1>1, <2>1 DEF Noted
  <2>3. \/ Shelved(what) \/ p = word \/ \E i \in DOMAIN rest : rest[i] = word
        \/ \E i \in DOMAIN ctl.out : ctl.out[i] = word
    BY <1>5, <1>6, <2>2 DEF Shifted
  <2> QED
    BY <1>4, <1>7, <1>9, <2>1, <2>3 DEF Noted
<1>16. ASSUME NEW what, Preceded(ctl, what)
       PROVE  Preceded(ctl, what)'
  <2>1. PICK word : word = Word(what)
    OBVIOUS
  <2>2. /\ \A i \in DOMAIN ctl.out : ctl.out[i] = end =>
             \/ Shelved(what) \/ \E j \in DOMAIN queue : queue[j] = word
             \/ \E j \in DOMAIN ctl.out : j < i /\ ctl.out[j] = word
        /\ \A i \in DOMAIN queue : queue[i] = end =>
             \/ Shelved(what) \/ \E j \in DOMAIN queue : j < i /\ queue[j] = word
    BY <1>1, <1>10, <1>16, <2>1 DEF Preceded
  <2>3. Shelved(what) \/ p = word => Shelved(what)'
    BY <1>9, <2>1
  <2>4. ASSUME NEW i \in DOMAIN ctl.out, ctl.out[i] = end, ~Shelved(what)'
        PROVE  \/ \E j \in DOMAIN rest : rest[j] = word
               \/ \E j \in DOMAIN ctl.out : j < i /\ ctl.out[j] = word
    BY <1>5, <1>6, <2>2, <2>3, <2>4 DEF Shifted
  <2>5. ASSUME NEW i \in DOMAIN rest, rest[i] = end, ~Shelved(what)'
        PROVE  \E j \in DOMAIN rest : j < i /\ rest[j] = word
    <3>1. i \in Nat /\ i + 1 \in DOMAIN queue /\ queue[i + 1] = end
      BY <1>6, <2>5 DEF Shifted
    <3>2. PICK j \in DOMAIN queue : j < i + 1 /\ queue[j] = word
      BY <2>2, <2>3, <2>5, <3>1
    <3>3. j \in Nat /\ j # 1
      BY <1>5, <1>6, <2>3, <2>5, <3>2 DEF Shifted
    <3>4. j - 1 \in DOMAIN rest /\ rest[j - 1] = word
      BY <1>6, <3>2, <3>3 DEF Shifted
    <3>5. j - 1 < i
      BY <3>1, <3>2, <3>3
    <3> QED
      BY <3>4, <3>5
  <2>6. p = end => Shelved(what)'
    <3> SUFFICES ASSUME p = end, ~Shelved(what) PROVE FALSE
      BY <2>3
    <3>1. PICK j \in DOMAIN queue : j < 1 /\ queue[j] = word
      BY <1>5, <1>6, <2>2 DEF Shifted
    <3>2. j \in Nat /\ (j = 1 \/ j - 1 \in DOMAIN rest)
      BY <1>6, <3>1 DEF Shifted
    <3>3. j - 1 \notin Nat
      BY <3>1, <3>2
    <3>4. j - 1 \in DOMAIN rest
      BY <3>1, <3>2
    <3> QED
      BY <1>6, <3>3, <3>4 DEF Shifted
  <2>7. Mine("STOPPED") \/ caller.stopped >= 1 => Shelved(what)
    BY <1>16, Zenon DEF Preceded
  <2>8. Mine("STOPPED")' \/ caller'.stopped >= 1 => Shelved(what)'
    BY <1>12, <1>13, <2>3, <2>6, <2>7
  <2>9. \A i \in DOMAIN ctl'.out : ctl'.out[i] = end =>
          \/ Shelved(what)'
          \/ \E j \in DOMAIN conn'.queue : conn'.queue[j] = word
          \/ \E j \in DOMAIN ctl'.out : j < i /\ ctl'.out[j] = word
    BY <1>4, <1>7, <2>4
  <2>10. \A i \in DOMAIN conn'.queue : conn'.queue[i] = end =>
          \/ Shelved(what)'
          \/ \E j \in DOMAIN conn'.queue : j < i /\ conn'.queue[j] = word
    BY <1>7, <2>5
  <2> QED
    BY <1>11, <2>1, <2>8, <2>9, <2>10, Zenon DEF Preceded
<1>17. ASSUME NEW what
       PROVE  Passed(what) => Passed(what)'
  BY <1>13 DEF Passed
<1>18. \A what : Counts(what)' <=> Counts(what)
  BY <1>4 DEF Counts
<1>19. Awaited(ctl) => Awaited(ctl)'
  BY <1>4, <1>13, <1>14, Zenon DEF Awaited
<1>20. Running(ctl) => Running(ctl)'
  BY <1>4, <1>7, <1>13, <1>14, <1>15, <1>18, Zenon DEF Running
<1>21. Finished(ctl) => Finished(ctl)'
  BY <1>4, <1>13, <1>16, <1>17, <1>18, Zenon DEF Finished
<1> QED
  BY <1>19, <1>20, <1>21, Zenon DEF Phase

(* What is followed is followed on.                                        *)
LEMMA SayHeard ==
  ASSUME NEW c \in CtlType, NEW msg, NEW e, e = Say(c, msg)
  PROVE  e.heard = c.heard
<1>1. e = c \/ e = [c EXCEPT !.out = Append(@, msg)]
  BY Zenon DEF Say
<1> QED
  BY <1>1, ZenonT(30) DEF CtlType

LEMMA OverHeard ==
  ASSUME NEW c \in CtlType, NEW e, e = Over(c)
  PROVE  e.heard = c.heard
<1>1. CASE c.script = NoScript
  BY <1>1, Zenon DEF Over
<1>2. CASE c.script # NoScript
  <2>1. PICK d \in CtlType : e = Say(d, Key("STOPPED", c.script)) /\ d.heard = c.heard
    BY <1>2, OverDoes, Zenon
  <2> QED
    BY <2>1, SayHeard
<1> QED
  BY <1>1, <1>2

LEMMA SafetyHeard ==
  ASSUME NEW c \in CtlType, NEW s \in Safeties, NEW e, e = Safety(c, s)
  PROVE  e.heard = c.heard
<1>1. PICK d : d = [c EXCEPT !.safety = s]
  OBVIOUS
<1>2. e = Say(d, [k |-> "safety", safety |-> s])
  BY <1>1, Zenon DEF Safety
<1>3. d \in CtlType /\ d.heard = c.heard
  BY <1>1, ZenonT(30) DEF CtlType
<1> QED
  BY <1>2, <1>3, SayHeard

LEMMA ModeHeard ==
  ASSUME NEW c \in CtlType, NEW mode, NEW e, e = [c EXCEPT !.mode = mode]
  PROVE  e.heard = c.heard
BY ZenonT(30) DEF CtlType

LEMMA ObeyedHeard ==
  ASSUME NEW c \in CtlType, NEW cmd \in Orders, NEW e, e = Obeyed(c, cmd)
  PROVE  e.heard = c.heard
<1>1. CASE e = Say(c, Error("read_only"))
  BY <1>1, SayHeard
<1>2. CASE e = Say([Over(c) EXCEPT !.script = [name |-> cmd.name, call |-> cmd.call, raised |-> {}]],
                   Key("STARTED", [name |-> cmd.name, call |-> cmd.call, raised |-> {}]))
  <2>1. PICK new : new = [name |-> cmd.name, call |-> cmd.call, raised |-> {}]
    OBVIOUS
  <2>2. new \in RobotScripts
    <3>1. cmd.name \in ScriptNames /\ cmd.call \in Nat /\ {} \in SUBSET Severities
      BY DEF Orders
    <3> QED
      BY <2>1, <3>1, Zenon DEF RobotScripts
  <2>3. PICK d : d = Over(c)
    OBVIOUS
  <2>4. PICK f : f = [d EXCEPT !.script = new]
    OBVIOUS
  <2>5. e = Say(f, Key("STARTED", new))
    BY <1>2, <2>1, <2>3, <2>4, Zenon
  <2>6. d \in CtlType /\ d.heard = c.heard
    BY <2>3, OverIs, OverHeard
  <2>7. f \in CtlType /\ f.heard = d.heard
    BY <2>2, <2>4, <2>6, ZenonT(30) DEF CtlType
  <2> QED
    BY <2>5, <2>6, <2>7, SayHeard
<1>3. CASE e = Over(c)
  BY <1>3, OverHeard
<1>4. CASE e = [c EXCEPT !.mode = "IDLE"] \/ e = [c EXCEPT !.mode = "RUNNING"]
  BY <1>4, ModeHeard
<1>5. CASE e = [Over(c) EXCEPT !.mode = "POWER_OFF"]
  <2>1. PICK d : d = Over(c)
    OBVIOUS
  <2>2. d \in CtlType /\ d.heard = c.heard
    BY <2>1, OverIs, OverHeard
  <2>3. e = [d EXCEPT !.mode = "POWER_OFF"]
    BY <1>5, <2>1
  <2> HIDE <2>1
  <2> QED
    BY <2>2, <2>3, ModeHeard
<1>6. CASE e = Safety(c, "NORMAL")
  BY <1>6, SafetyHeard DEF Safeties
<1>7. CASE e = c
  BY <1>7
<1>8. \/ e = Say(c, Error("read_only"))
      \/ e = Say([Over(c) EXCEPT !.script = [name |-> cmd.name, call |-> cmd.call, raised |-> {}]],
                 Key("STARTED", [name |-> cmd.name, call |-> cmd.call, raised |-> {}]))
      \/ e = Over(c)
      \/ e = [c EXCEPT !.mode = "IDLE"] \/ e = [c EXCEPT !.mode = "RUNNING"]
      \/ e = [Over(c) EXCEPT !.mode = "POWER_OFF"]
      \/ e = Safety(c, "NORMAL")
      \/ e = c
  BY Zenon DEF Obeyed
<1> QED
  BY <1>1, <1>2, <1>3, <1>4, <1>5, <1>6, <1>7, <1>8

LEMMA ControllerHeard ==
  ASSUME PrimaryTypeOK, Controller(ControllerNext)
  PROVE  ctl'.heard = ctl.heard
<1>1. ctl \in CtlType /\ ctl.inbox \in Inboxes /\ ctl.script \in RobotScripts
  BY Zenon DEF PrimaryTypeOK, CtlType
<1>2. PICK e : e = ctl'
  OBVIOUS
<1>3. CASE Obey
  <2>1. PICK cmd : cmd = Head(ctl.inbox)
    OBVIOUS
  <2>2. PICK rest : rest = Tail(ctl.inbox)
    OBVIOUS
  <2>3. PICK c : c = [ctl EXCEPT !.inbox = rest]
    OBVIOUS
  <2>4. ctl.inbox # <<>> /\ e = Obeyed(c, cmd)
    BY <1>2, <1>3, <2>1, <2>2, <2>3, Zenon DEF Obey
  <2>5. cmd \in Orders /\ rest \in Inboxes
    BY <1>1, <2>1, <2>2, <2>4, FirstIs, Zenon
  <2>6. c \in CtlType /\ c.heard = ctl.heard
    BY <1>1, <2>3, <2>5, ZenonT(30) DEF CtlType
  <2> HIDE <2>1, <2>2, <2>3
  <2> QED
    BY <1>2, <2>4, <2>5, <2>6, ObeyedHeard
<1>4. CASE ScriptEnds
  BY <1>1, <1>4, OverHeard DEF ScriptEnds
<1>5. ASSUME NEW what \in Severities, ScriptRaises(what)
      PROVE  ctl'.heard = ctl.heard
  <2>1. PICK script : script = [ctl.script EXCEPT !.raised = {what}]
    OBVIOUS
  <2>2. script \in RobotScripts
    <3>1. {what} \in SUBSET Severities
      OBVIOUS
    <3> QED
      BY <1>1, <2>1, <3>1, Zenon DEF RobotScripts
  <2>3. PICK c : c = [ctl EXCEPT !.script = script]
    OBVIOUS
  <2>4. c \in CtlType /\ c.heard = ctl.heard
    BY <1>1, <2>2, <2>3, ZenonT(30) DEF CtlType
  <2>5. c = [ctl EXCEPT !.script.raised = {what}]
    BY <1>1, <2>1, <2>3, Zenon DEF CtlType, RobotScripts
  <2>6. e = IF what = "exception" THEN Over(Say(c, [k |-> "exception"])) ELSE Say(c, Error(what))
    BY <1>2, <1>5, <2>5, Zenon DEF ScriptRaises
  <2> HIDE <2>1, <2>3, <2>5
  <2>7. CASE what = "exception"
    <3>1. PICK msg : msg = [k |-> "exception"]
      OBVIOUS
    <3>2. PICK d : d = Say(c, msg)
      OBVIOUS
    <3>3. e = Over(d) /\ msg \in Packages
      BY <2>6, <2>7, <3>1, <3>2, PackagesAre, Zenon
    <3>4. d \in CtlType /\ d.heard = c.heard
      BY <2>4, <3>2, <3>3, SayIs, SayHeard, Zenon
    <3> QED
      BY <1>2, <2>4, <3>3, <3>4, OverHeard
  <2>8. CASE what # "exception"
    BY <1>2, <2>4, <2>6, <2>8, SayHeard
  <2> QED
    BY <2>7, <2>8
<1>6. CASE TellState
  <2>1. PICK view \in StateViews : view = State(ctl)
    BY <1>1, ScriptsAre, Zenon
  <2>2. PICK c : c = [ctl EXCEPT !.told = view]
    OBVIOUS
  <2>3. e = Say(c, [k |-> "state", view |-> view])
    BY <1>2, <1>6, <2>1, <2>2, Zenon DEF TellState
  <2>4. c \in CtlType /\ c.heard = ctl.heard
    BY <1>1, <2>2, ZenonT(30) DEF CtlType
  <2> QED
    BY <1>2, <2>3, <2>4, SayHeard
<1>7. CASE Pendant
  <2>1. PICK d : d = Over(ctl)
    OBVIOUS
  <2>2. d \in CtlType /\ d.heard = ctl.heard
    BY <1>1, <2>1, OverIs, OverHeard
  <2>3. \/ e = [d EXCEPT !.mode = "POWER_OFF"]
        \/ e = Safety(d, "PROTECTIVE_STOP")
        \/ e = [Safety(d, "FAULT") EXCEPT !.mode = "POWER_OFF"]
    BY <1>2, <1>7, <2>1, Zenon DEF Pendant
  <2> HIDE <2>1
  <2>4. CASE e = [d EXCEPT !.mode = "POWER_OFF"]
    BY <1>2, <2>2, <2>4, ModeHeard
  <2>5. CASE e = Safety(d, "PROTECTIVE_STOP")
    BY <1>2, <2>2, <2>5, SafetyHeard DEF Safeties
  <2>6. CASE e = [Safety(d, "FAULT") EXCEPT !.mode = "POWER_OFF"]
    <3>1. PICK f : f = Safety(d, "FAULT")
      OBVIOUS
    <3>2. f \in CtlType /\ f.heard = d.heard
      BY <2>2, <3>1, SafetyIs, SafetyHeard DEF Safeties
    <3>3. e = [f EXCEPT !.mode = "POWER_OFF"]
      BY <2>6, <3>1
    <3> HIDE <3>1
    <3> QED
      BY <1>2, <2>2, <3>2, <3>3, ModeHeard
  <2> QED
    BY <2>3, <2>4, <2>5, <2>6
<1> QED
  BY <1>3, <1>4, <1>5, <1>6, <1>7, Zenon DEF Controller, ControllerNext, Severities

(* What is known of the call of a script, and of one that is watched while *)
(* no package was lost.                                                    *)
Watched == caller.what = "script" /\ caller.sound /\ caller.pc \in Watching
OfScript ==
  caller.what = "script" =>
    /\ caller.msg \in {"script", "stop_program"}
    /\ caller.pc \in Watching => caller.msg = "script"
    /\ caller.pc \notin Watching /\ caller.msg = "script" => caller.stopped = 0
Follows == {"error", "exception"} \subseteq ctl.heard
WatchedInv == Watched => conn.live /\ (caller.stopped = 2 => caller.pc = "end") /\ Phase(ctl)
ScriptInv == Follows /\ OfScript /\ WatchedInv
ScriptKept == ScriptInv' /\ TruthStep

LEMMA PlacesOfWatch ==
  /\ Watching \subseteq CallPlaces
  /\ "idle" \notin Watching /\ "send" \notin Watching /\ "resend" \notin Watching
  /\ "reconnect" \notin Watching /\ "wait" \notin Watching
BY DEF Watching, CallPlaces

\* A call that returns is not watched any longer.
LEMMA Returned ==
  ASSUME caller \in CallerType, Follows, ctl'.heard = ctl.heard, NEW r \in Results, Return(r)
  PROVE  ScriptInv' /\ caller'.pc = "idle" /\ caller'.result = r
<1>1. caller'.pc = "idle" /\ caller'.result = r
  BY ReturnDoes
<1>2. caller'.what # "script"
  <2>1. PICK call \in Nat : call = caller.call
    BY Zenon DEF CallerType
  <2>2. caller' = [NoCall EXCEPT !.call = call, !.result = r]
    BY <2>1, Zenon DEF Return
  <2>3. caller'.what = NoCall.what
    BY <2>2, NoCallIs, ZenonT(30) DEF CallerType
  <2>4. NoCall.what # "script"
    BY Zenon DEF NoCall
  <2> QED
    BY <2>3, <2>4, Zenon
<1>3. Follows'
  BY Zenon DEF Follows
<1> QED
  BY <1>1, <1>2, <1>3, Zenon DEF ScriptInv, OfScript, WatchedInv, Watched

LEMMA Failed ==
  ASSUME caller \in CallerType, Follows, ctl'.heard = ctl.heard, NEW r \in Results, Return(r),
         r # "done" \/ caller.what # "script"
  PROVE  ScriptKept
BY Returned, Zenon DEF ScriptKept, TruthStep

\* A call that goes on, before the script is watched.
LEMMA GoesOn ==
  ASSUME caller \in CallerType, Follows, OfScript, ctl'.heard = ctl.heard,
         NEW place \in CallPlaces, Goto(place), caller.pc \notin Watching, place \notin Watching, place # "idle"
  PROVE  ScriptKept
<1>1. SameWatch /\ caller'.pc = place
  BY GotoIs
<1>2. Follows'
  BY Zenon DEF Follows
<1>3. OfScript'
  BY <1>1, Zenon DEF OfScript, SameWatch
<1>4. ~Watched' /\ TruthStep
  BY <1>1, Zenon DEF Watched, TruthStep
<1> QED
  BY <1>2, <1>3, <1>4, Zenon DEF ScriptKept, ScriptInv, WatchedInv

\* The others leave the call where it is.
LEMMA LeavesCall ==
  ASSUME Follows, OfScript, ctl'.heard = ctl.heard, SameWatch, caller'.pc = caller.pc,
         Watched' => WatchedInv'
  PROVE  ScriptKept
<1>1. Follows'
  BY Zenon DEF Follows
<1>2. OfScript'
  BY Zenon DEF OfScript, SameWatch
<1>3. TruthStep
  BY Zenon DEF TruthStep
<1> QED
  BY <1>1, <1>2, <1>3, Zenon DEF ScriptKept, ScriptInv, WatchedInv

LEMMA ControllerTruth ==
  ASSUME PrimaryTypeOK, ScriptInv, Controller(ControllerNext)
  PROVE  ScriptKept
<1>1. conn' = conn /\ stores' = stores /\ caller' = caller
  BY Zenon DEF Controller
<1>2. SameWatch /\ SameStores /\ caller'.pc = caller.pc
  BY <1>1 DEF SameWatch, SameStores
<1>3. ASSUME Watched'
      PROVE  WatchedInv'
  <2>1. Watched
    BY <1>1, <1>3 DEF Watched
  <2>2. conn.live /\ (caller.stopped = 2 => caller.pc = "end") /\ Phase(ctl)
    BY <2>1, Zenon DEF ScriptInv, WatchedInv
  <2>3. PICK e : e = ctl'
    OBVIOUS
  <2>4. Phase(e)
    BY <2>2, <2>3, ControllerPhase, Zenon DEF ScriptInv, Follows
  <2>5. Phase(ctl)'
    BY <1>1, <1>2, <2>3, <2>4, PhaseStays
  <2> QED
    BY <1>1, <2>2, <2>5, Zenon DEF WatchedInv
<1> QED
  BY <1>2, <1>3, ControllerHeard, LeavesCall, Zenon DEF ScriptInv

LEMMA BreakTruth ==
  ASSUME PrimaryTypeOK, ScriptInv, Break
  PROVE  ScriptKept
<1>1. /\ ctl' = [ctl EXCEPT !.inbox = <<>>, !.out = <<>>, !.told = Nothing]
      /\ caller' = [caller EXCEPT !.sound = FALSE]
  BY Zenon DEF Break
<1>2. ctl'.heard = ctl.heard
  BY <1>1, ZenonT(30) DEF PrimaryTypeOK, CtlType
<1>3. SameWatch /\ caller'.pc = caller.pc /\ caller'.sound = FALSE
  BY <1>1, SoundIs, Zenon DEF PrimaryTypeOK
<1>4. ~Watched'
  BY <1>3, Zenon DEF Watched
<1> QED
  BY <1>2, <1>3, <1>4, LeavesCall, Zenon DEF ScriptInv

LEMMA ProduceTruth ==
  ASSUME PrimaryTypeOK, ScriptInv, Produce
  PROVE  ScriptKept
<1>1. ctl \in CtlType /\ conn \in ConnType /\ caller \in CallerType /\ stores' = stores
  BY Zenon DEF PrimaryTypeOK, Produce
<1>2. SameStores
  BY <1>1 DEF SameStores
<1>3. CASE /\ conn.state = "connected" /\ ctl.out # <<>>
           /\ LET full == Len(conn.queue) = QueueSize
              IN  /\ conn' = IF full THEN conn ELSE [conn EXCEPT !.queue = Append(@, Head(ctl.out))]
                  /\ caller' = [caller EXCEPT !.sound = @ /\ ~full]
           /\ ctl' = [ctl EXCEPT !.out = Tail(@)]
  <2>1. PICK full \in BOOLEAN : full = (Len(conn.queue) = QueueSize)
    BY Zenon
  <2>2. PICK sound \in BOOLEAN : sound = (caller.sound /\ ~full)
    BY Zenon
  <2>3. /\ caller' = [caller EXCEPT !.sound = sound] /\ ctl' = [ctl EXCEPT !.out = Tail(@)]
        /\ ~full => conn' = [conn EXCEPT !.queue = Append(@, Head(ctl.out))]
    BY <1>3, <2>1, <2>2, Zenon
  <2>4. sound => caller.sound /\ ~full
    BY <2>2
  <2> HIDE <2>1, <2>2
  <2>5. SameWatch /\ caller'.pc = caller.pc /\ caller'.sound = sound
    BY <1>1, <2>3, SoundIs, Zenon
  <2>6. ctl'.heard = ctl.heard
    BY <1>1, <2>3, ZenonT(30) DEF CtlType
  <2>7. ASSUME Watched'
        PROVE  WatchedInv'
    <3>1. Watched /\ ~full
      BY <2>4, <2>5, <2>7, Zenon DEF Watched, SameWatch
    <3>2. conn.live /\ (caller.stopped = 2 => caller.pc = "end") /\ Phase(ctl)
      BY <3>1, Zenon DEF ScriptInv, WatchedInv
    <3>3. conn' = [conn EXCEPT !.queue = Append(@, Head(ctl.out))]
      BY <2>3, <3>1
    <3>4. conn'.live
      BY <1>1, <3>2, <3>3, ZenonT(30) DEF ConnType
    <3>5. Phase(ctl)'
      BY <1>1, <1>3, <2>3, <2>5, <3>2, <3>3, ProducedPhase, Zenon
    <3> QED
      BY <2>5, <3>2, <3>4, <3>5, Zenon DEF WatchedInv, SameWatch
  <2> QED
    BY <2>5, <2>6, <2>7, LeavesCall, Zenon DEF ScriptInv
<1>4. CASE conn' = [conn EXCEPT !.state = "disconnected", !.reader = "sleeping"] /\ UNCHANGED <<ctl, caller>>
  <2>1. conn'.live = conn.live /\ conn'.queue = conn.queue /\ conn'.run = conn.run
    BY <1>1, <1>4, ZenonT(30) DEF ConnType
  <2>2. SameWatch /\ caller'.pc = caller.pc /\ caller' = caller /\ ctl' = ctl
    BY <1>4 DEF SameWatch
  <2>3. ASSUME Watched'
        PROVE  WatchedInv'
    <3>1. Watched
      BY <2>2, <2>3 DEF Watched
    <3>2. conn.live /\ (caller.stopped = 2 => caller.pc = "end") /\ Phase(ctl)
      BY <3>1, Zenon DEF ScriptInv, WatchedInv
    <3>3. PICK e : e = ctl'
      OBVIOUS
    <3>4. Phase(e)
      BY <2>2, <3>2, <3>3
    <3>5. Phase(ctl)'
      BY <1>2, <2>1, <2>2, <3>3, <3>4, PhaseStays
    <3> QED
      BY <2>1, <2>2, <3>2, <3>5, Zenon DEF WatchedInv
  <2>4. ctl'.heard = ctl.heard
    BY <2>2
  <2> QED
    BY <2>2, <2>3, <2>4, LeavesCall, Zenon DEF ScriptInv
<1>5. CASE caller' = [caller EXCEPT !.sound = FALSE] /\ UNCHANGED ctl
  <2>1. SameWatch /\ caller'.pc = caller.pc /\ caller'.sound = FALSE
    BY <1>1, <1>5, SoundIs, Zenon
  <2>2. ~Watched' /\ ctl'.heard = ctl.heard
    BY <1>5, <2>1, Zenon DEF Watched
  <2> QED
    BY <2>1, <2>2, LeavesCall, Zenon DEF ScriptInv
<1> QED
  BY <1>3, <1>4, <1>5, Zenon DEF Produce

LEMMA ReconnectTruth ==
  ASSUME PrimaryTypeOK, ScriptInv, Reconnect
  PROVE  ScriptKept
<1>1. UNCHANGED <<ctl, stores, caller>> /\ (conn.live => conn'.live) /\ conn'.queue = conn.queue
  BY ReconnectDoes
<1>2. conn'.run = conn.run
  <2>1. PICK c : c = IF conn.state = "connected" THEN conn ELSE Connected(conn)
    OBVIOUS
  <2>2. conn' = [c EXCEPT !.reader = "reading"]
    BY <2>1, Zenon DEF Reconnect
  <2>3. c = conn \/ c = [conn EXCEPT !.live = TRUE, !.state = "connected"]
    BY <2>1, Zenon DEF Connected
  <2> HIDE <2>1
  <2>4. c \in ConnType /\ c.run = conn.run
    BY <2>3, ZenonT(30) DEF PrimaryTypeOK, ConnType
  <2> QED
    BY <2>2, <2>4, ZenonT(30) DEF ConnType
<1>3. SameWatch /\ SameStores /\ caller'.pc = caller.pc /\ ctl'.heard = ctl.heard
  BY <1>1 DEF SameWatch, SameStores
<1>4. ASSUME Watched'
      PROVE  WatchedInv'
  <2>1. Watched
    BY <1>1, <1>4 DEF Watched
  <2>2. conn.live /\ (caller.stopped = 2 => caller.pc = "end") /\ Phase(ctl)
    BY <2>1, Zenon DEF ScriptInv, WatchedInv
  <2>3. PICK e : e = ctl'
    OBVIOUS
  <2>4. Phase(e)
    BY <1>1, <2>2, <2>3
  <2>5. Phase(ctl)'
    BY <1>1, <1>2, <1>3, <2>3, <2>4, PhaseStays
  <2> QED
    BY <1>1, <2>2, <2>5, Zenon DEF WatchedInv
<1> QED
  BY <1>3, <1>4, LeavesCall, Zenon DEF ScriptInv

LEMMA ConsumeTruth ==
  ASSUME PrimaryTypeOK, ScriptInv, Consume
  PROVE  ScriptKept
<1>1. UNCHANGED <<ctl, caller>> /\ conn'.live = conn.live
  BY ConsumeDoes
<1>2. SameWatch /\ caller'.pc = caller.pc /\ ctl'.heard = ctl.heard
  BY <1>1 DEF SameWatch
<1>3. ASSUME Watched'
      PROVE  WatchedInv'
  <2>1. Watched
    BY <1>1, <1>3 DEF Watched
  <2>2. conn.live /\ (caller.stopped = 2 => caller.pc = "end") /\ Phase(ctl)
    BY <2>1, Zenon DEF ScriptInv, WatchedInv
  <2>3. Phase(ctl)'
    BY <2>2, ConsumePhase
  <2> QED
    BY <1>1, <2>2, <2>3, Zenon DEF WatchedInv
<1> QED
  BY <1>2, <1>3, LeavesCall, Zenon DEF ScriptInv

(* The call looks at what was stored.  What it does not see was not stored,*)
(* and what it takes is not what is still waited for.                      *)
LEMMA LookedAt ==
  ASSUME ctl \in CtlType, Phase(ctl), ctl' = ctl, conn' = conn,
         caller'.name = caller.name, caller'.call = caller.call, caller'.strict = caller.strict,
         \A what \in Severities : Counts(what) => (Shelved(what)' <=> Shelved(what)),
         Silent(ctl) => ~Mine("STOPPED")' /\ caller'.stopped = 0,
         Mine("STOPPED")' \/ caller'.stopped >= 1 => Mine("STOPPED") \/ caller.stopped >= 1,
         \A what \in Severities : Counts(what) /\ Preceded(ctl, what) /\ Passed(what) => Passed(what)'
  PROVE  Phase(ctl)'
<1>1. Farewell' = Farewell /\ \A what : Counts(what)' <=> Counts(what)
  BY Zenon DEF Farewell, Key, Counts
<1>2. ctl.script.raised \subseteq Severities /\ ctl.last.raised \subseteq Severities
  BY DEF CtlType, RobotScripts
<1>3. Silent(ctl) => Silent(ctl)'
  BY <1>1 DEF Silent
<1>4. ASSUME NEW what \in Severities, Counts(what), Noted(ctl, what)
      PROVE  Noted(ctl, what)'
  BY <1>4 DEF Noted
<1>5. ASSUME NEW what \in Severities, Counts(what), Preceded(ctl, what)
      PROVE  Preceded(ctl, what)'
  <2>1. Shelved(what)' <=> Shelved(what)
    BY <1>5
  <2> QED
    BY <1>1, <1>5, <2>1 DEF Preceded
<1>6. Awaited(ctl) => Awaited(ctl)'
  BY <1>3, Zenon DEF Awaited
<1>7. Running(ctl) => Running(ctl)'
  BY <1>1, <1>2, <1>3, <1>4 DEF Running
<1>8. Finished(ctl) => Finished(ctl)'
  BY <1>1, <1>2, <1>5 DEF Finished
<1> QED
  BY <1>6, <1>7, <1>8, Zenon DEF Phase

\* A watched call that looks and goes on.
LEMMA LooksOn ==
  ASSUME PrimaryTypeOK, ScriptInv, caller.pc \in Watching, ctl' = ctl, conn' = conn,
         caller'.what = caller.what, caller'.msg = caller.msg, caller'.sound = caller.sound,
         caller'.pc \in Watching,
         Watched => Phase(ctl)' /\ (caller'.stopped = 2 => caller'.pc = "end")
  PROVE  ScriptKept
<1>1. Follows' /\ OfScript'
  BY Zenon DEF ScriptInv, Follows, OfScript
<1>2. Watched' => Watched
  BY Zenon DEF Watched
<1>3. WatchedInv'
  BY <1>2 DEF ScriptInv, WatchedInv
<1>4. TruthStep
  BY PlacesOfWatch, Zenon DEF TruthStep
<1> QED
  BY <1>1, <1>3, <1>4, Zenon DEF ScriptKept, ScriptInv

LEMMA LookAtExceptionTruth ==
  ASSUME PrimaryTypeOK, ScriptInv, LookAtException
  PROVE  ScriptKept
<1>1. caller \in CallerType /\ caller.pc = "exc" /\ Ends /\ ctl' = ctl /\ conn' = conn /\ stores' = stores
  BY Zenon DEF PrimaryTypeOK, LookAtException, Ends
<1>2. CASE stores.exc
  BY <1>1, <1>2, Failed, Zenon DEF LookAtException, Results, ScriptInv
<1>3. CASE ~stores.exc
  <2>1. Goto("err")
    BY <1>3, Zenon DEF LookAtException
  <2>2. SameWatch /\ caller'.pc = "err" /\ caller'.sound = caller.sound
    BY <1>1, <2>1, GotoIs, Zenon DEF CallPlaces
  <2>3. Watched => Phase(ctl) /\ caller.stopped # 2
    BY <1>1, Zenon DEF ScriptInv, WatchedInv
  <2>4. ASSUME Watched
        PROVE  Phase(ctl)'
    <3>1. \A what : Shelved(what)' <=> Shelved(what)
      BY <1>1 DEF Shelved
    <3>2. (Mine("STOPPED")' <=> Mine("STOPPED")) /\ caller'.stopped = caller.stopped
      BY <1>1, <2>2, SameWords, Zenon DEF SameWatch
    <3>3. Silent(ctl) => ~Mine("STOPPED") /\ caller.stopped = 0
      BY Zenon DEF Silent
    <3>4. ASSUME NEW what \in Severities, Preceded(ctl, what), Passed(what)
          PROVE  Passed(what)'
      <4>1. caller.stopped >= 1 => what # "exception"
        BY <1>3, <3>4, Zenon DEF Preceded, Shelved
      <4> QED
        BY <2>2, <2>3, <2>4, <3>2, <4>1 DEF Passed
    <3>5. ctl \in CtlType /\ caller'.name = caller.name /\ caller'.call = caller.call
          /\ caller'.strict = caller.strict
      BY <2>2, Zenon DEF SameWatch, PrimaryTypeOK
    <3> QED
      BY <1>1, <2>3, <2>4, <3>1, <3>2, <3>3, <3>4, <3>5, LookedAt
  <2>5. caller.pc \in Watching /\ caller'.pc \in Watching
    BY <1>1, <2>2, Zenon DEF Watching
  <2>6. /\ caller'.what = caller.what /\ caller'.msg = caller.msg /\ caller'.stopped = caller.stopped
        /\ caller'.sound = caller.sound
    BY <2>2, Zenon DEF SameWatch
  <2> QED
    BY <1>1, <2>3, <2>4, <2>5, <2>6, LooksOn
<1> QED
  BY <1>2, <1>3

LEMMA LookAtErrorsTruth ==
  ASSUME PrimaryTypeOK, ScriptInv, LookAtErrors
  PROVE  ScriptKept
<1>1. /\ caller \in CallerType /\ stores \in StoresType /\ caller.pc = "err" /\ ctl' = ctl /\ conn' = conn
      /\ stores' = [stores EXCEPT !.err = {}]
  BY Zenon DEF PrimaryTypeOK, LookAtErrors
<1>2. stores'.exc = stores.exc /\ stores'.keys = stores.keys /\ stores'.err = {} /\ stores.err \in ErrorStore
  BY <1>1, ZenonT(30) DEF StoresType
<1>3. CASE \E r \in {"failed", "throws"} : Return(r)
  BY <1>1, <1>3, Failed, Zenon DEF Results, ScriptInv
<1>4. CASE caller' = [caller EXCEPT !.pc = "send", !.msg = "stop_program"]
  <2>1. caller'.pc = "send" /\ caller'.msg = "stop_program" /\ caller'.what = caller.what
    BY <1>1, <1>4, ZenonT(30) DEF CallerType
  <2>2. ~Watched' /\ OfScript' /\ TruthStep
    BY <2>1, PlacesOfWatch, Zenon DEF Watched, OfScript, TruthStep
  <2>3. Follows'
    BY <1>1, Zenon DEF ScriptInv, Follows
  <2> QED
    BY <2>2, <2>3, Zenon DEF ScriptKept, ScriptInv, WatchedInv
<1>5. CASE /\ Goto("keys") /\ "read_only" \notin stores.err /\ "fault" \notin stores.err
           /\ ~(stores.err = {"warning"} /\ caller.strict)
  <2>1. SameWatch /\ caller'.pc = "keys" /\ caller'.sound = caller.sound
    BY <1>1, <1>5, GotoIs, Zenon DEF CallPlaces
  <2>2. Watched => Phase(ctl) /\ caller.stopped # 2
    BY <1>1, Zenon DEF ScriptInv, WatchedInv
  <2>3. ASSUME NEW what \in Severities, Counts(what), what # "exception"
        PROVE  what \notin stores.err
    <3>1. stores.err \subseteq {"warning"}
      BY <1>2, <1>5 DEF ErrorStore, Levels
    <3>2. what \in stores.err => stores.err = {"warning"} /\ what = "warning"
      BY <3>1
    <3> QED
      BY <1>5, <2>3, <3>2 DEF Counts
  <2>4. ASSUME Watched
        PROVE  Phase(ctl)'
    <3>1. ASSUME NEW what \in Severities, Counts(what)
          PROVE  Shelved(what)' <=> Shelved(what)
      BY <1>2, <2>3, <3>1 DEF Shelved
    <3>2. (Mine("STOPPED")' <=> Mine("STOPPED")) /\ caller'.stopped = caller.stopped
      BY <1>2, <2>1, SameWords, Zenon DEF SameWatch
    <3>3. Silent(ctl) => ~Mine("STOPPED") /\ caller.stopped = 0
      BY Zenon DEF Silent
    <3>4. ASSUME NEW what \in Severities, Counts(what), Preceded(ctl, what), Passed(what)
          PROVE  Passed(what)'
      <4>1. ~(caller.stopped >= 1)
        <5> SUFFICES ASSUME caller.stopped >= 1 PROVE FALSE
          OBVIOUS
        <5>1. what # "exception"
          BY <1>1, <3>4, Zenon DEF Passed
        <5>2. Shelved(what)
          BY <3>4, Zenon DEF Preceded
        <5> QED
          BY <2>3, <3>4, <5>1, <5>2, Zenon DEF Shelved
      <4> QED
        BY <3>2, <4>1, Zenon DEF Passed
    <3>5. ctl \in CtlType /\ caller'.name = caller.name /\ caller'.call = caller.call
          /\ caller'.strict = caller.strict
      BY <2>1, Zenon DEF SameWatch, PrimaryTypeOK
    <3> QED
      BY <1>1, <2>2, <2>4, <3>1, <3>2, <3>3, <3>4, <3>5, LookedAt
  <2>5. caller.pc \in Watching /\ caller'.pc \in Watching
    BY <1>1, <2>1, Zenon DEF Watching
  <2>6. /\ caller'.what = caller.what /\ caller'.msg = caller.msg /\ caller'.stopped = caller.stopped
        /\ caller'.sound = caller.sound
    BY <2>1, Zenon DEF SameWatch
  <2> QED
    BY <1>1, <2>2, <2>4, <2>5, <2>6, LooksOn
<1>6. \/ \E r \in {"failed", "throws"} : Return(r)
      \/ caller' = [caller EXCEPT !.pc = "send", !.msg = "stop_program"]
      \/ /\ Goto("keys") /\ "read_only" \notin stores.err /\ "fault" \notin stores.err
         /\ ~(stores.err = {"warning"} /\ caller.strict)
  BY Zenon DEF LookAtErrors
<1> QED
  BY <1>3, <1>4, <1>5, <1>6

LEMMA LookAtKeysTruth ==
  ASSUME PrimaryTypeOK, ScriptInv, LookAtKeys
  PROVE  ScriptKept
<1>1. caller \in CallerType /\ stores \in StoresType /\ caller.pc = "keys" /\ ctl' = ctl /\ conn' = conn
  BY Zenon DEF PrimaryTypeOK, LookAtKeys
<1>2. PICK started \in BOOLEAN : started = (caller.started \/ Mine("STARTED") \/ Mine("STOPPED"))
  BY Zenon
<1>3. PICK stops \in 0..2 : stops = IF caller.stopped > 0 THEN 2 ELSE IF HasStopped THEN 1 ELSE 0
  OBVIOUS
<1>4. /\ stores' = [stores EXCEPT !.keys = {}]
      /\ caller' = [caller EXCEPT !.pc = "end", !.started = started, !.stopped = stops]
  BY <1>2, <1>3, Zenon DEF LookAtKeys
<1>5. caller.stopped \in 0..2
  BY <1>1, Zenon DEF CallerType
<1>6. /\ stops >= 1 => Mine("STOPPED") \/ caller.stopped >= 1
      /\ stops = 2 => caller.stopped >= 1
      /\ ~Mine("STOPPED") /\ caller.stopped = 0 => stops = 0
  BY <1>3, <1>5 DEF HasStopped
<1> HIDE <1>2, <1>3
<1>7. stores'.exc = stores.exc /\ stores'.err = stores.err /\ stores'.keys = {}
  BY <1>1, <1>4, ZenonT(30) DEF StoresType
<1>8. /\ caller'.pc = "end" /\ caller'.stopped = stops /\ caller'.name = caller.name
      /\ caller'.call = caller.call /\ caller'.strict = caller.strict /\ caller'.what = caller.what
      /\ caller'.msg = caller.msg /\ caller'.sound = caller.sound
  BY <1>1, <1>4, ZenonT(30) DEF CallerType
<1>9. ASSUME Watched
      PROVE  Phase(ctl)'
  <2>1. \A what : Shelved(what)' <=> Shelved(what)
    BY <1>7 DEF Shelved
  <2>2. ~Mine("STOPPED")'
    BY <1>7 DEF Mine
  <2>3. Silent(ctl) => stops = 0
    BY <1>6, Zenon DEF Silent
  <2>4. ASSUME NEW what, Passed(what)
        PROVE  Passed(what)'
    <3>1. ~(caller.stopped >= 1)
      BY <1>1, <2>4, Zenon DEF Passed
    <3>2. caller'.pc # "keys" /\ caller'.pc # "err" /\ caller'.stopped # 2
      BY <1>6, <1>8, <3>1
    <3> QED
      BY <3>2, Zenon DEF Passed
  <2>5. ctl \in CtlType /\ Phase(ctl)
    BY <1>9, Zenon DEF PrimaryTypeOK, ScriptInv, WatchedInv
  <2> QED
    BY <1>1, <1>6, <1>8, <2>1, <2>2, <2>3, <2>4, <2>5, LookedAt
<1>10. caller.pc \in Watching /\ caller'.pc \in Watching
  BY <1>1, <1>8, Zenon DEF Watching
<1> QED
  BY <1>1, <1>8, <1>9, <1>10, LooksOn

\* A script that has ended, when the stores have been looked at once more: nothing was raised that counts.
LEMMA LookAgainTruth ==
  ASSUME PrimaryTypeOK, ScriptInv, LookAgain
  PROVE  ScriptKept
<1>1. caller \in CallerType /\ caller.pc = "end" /\ ctl' = ctl /\ conn' = conn /\ stores' = stores
  BY Zenon DEF PrimaryTypeOK, LookAgain, Ends
<1>2. caller.stopped \in 0..2 /\ caller.pc \in Watching
  BY <1>1, Zenon DEF CallerType, Watching
<1>3. CASE Enough
  <2>1. Return("done") /\ caller.stopped >= 2
    BY <1>3, Zenon DEF LookAgain, Enough
  <2>2. ScriptInv'
    BY <1>1, <2>1, Returned, Zenon DEF Results, ScriptInv
  <2>3. ASSUME caller.what = "script", caller.sound
        PROVE  /\ ctl.last.call = caller.call
               /\ ctl.last.raised \cap ({"fault", "exception"} \cup IF caller.strict THEN {"warning"} ELSE {})
                  = {}
    <3>1. caller.stopped = 2 /\ caller.stopped # 0 /\ caller.stopped >= 1
      BY <1>2, <2>1
    <3>2. Phase(ctl)
      BY <1>2, <2>3, Zenon DEF ScriptInv, WatchedInv, Watched
    <3>3. Finished(ctl)
      BY <3>1, <3>2, Zenon DEF Phase, Awaited, Running, Silent
    <3>4. \A what \in ctl.last.raised : ~Counts(what)
      BY <3>1, <3>3, Zenon DEF Finished, Passed
    <3>5. ctl.last.call = caller.call
      BY <3>3, Zenon DEF Finished
    <3> QED
      BY <3>4, <3>5 DEF Counts
  <2>4. TruthStep
    BY <2>3, Zenon DEF TruthStep
  <2> QED
    BY <2>2, <2>4, Zenon DEF ScriptKept
<1>4. CASE ~Enough
  <2>1. Goto("exc") /\ caller.stopped # 2
    <3>1. Goto("exc")
      BY <1>4, Zenon DEF LookAgain
    <3>2. caller.stopped # 2
      BY <1>2, <1>4 DEF Enough
    <3> QED
      BY <3>1, <3>2
  <2>2. SameWatch /\ caller'.pc = "exc" /\ caller'.sound = caller.sound
    BY <1>1, <2>1, GotoIs, Zenon DEF CallPlaces
  <2>3. SameStores /\ conn'.queue = conn.queue /\ conn'.run = conn.run
    BY <1>1 DEF SameStores
  <2>4. ASSUME Watched
        PROVE  Phase(ctl)'
    <3>1. PICK e : e = ctl'
      OBVIOUS
    <3>2. Phase(e)
      BY <1>1, <2>4, <3>1 DEF ScriptInv, WatchedInv
    <3> QED
      BY <2>2, <2>3, <3>1, <3>2, PhaseStays
  <2>5. caller'.pc \in Watching
    BY <2>2, Zenon DEF Watching
  <2>6. /\ caller'.what = caller.what /\ caller'.msg = caller.msg /\ caller'.stopped = caller.stopped
        /\ caller'.sound = caller.sound
    BY <2>2, Zenon DEF SameWatch
  <2> QED
    BY <1>1, <1>2, <2>1, <2>4, <2>5, <2>6, LooksOn
<1> QED
  BY <1>3, <1>4

LEMMA CheckModeTruth ==
  ASSUME PrimaryTypeOK, ScriptInv, CheckMode \/ ClearStores
  PROVE  ScriptKept
<1>1. /\ caller \in CallerType /\ ctl'.heard = ctl.heard
      /\ caller.pc \in {"mode", "clear_exc", "clear_err", "clear_keys"}
  BY Zenon DEF PrimaryTypeOK, CheckMode, ClearStores, Ends
<1>2. Return("refused") \/ \E place \in {"clear_exc", "clear_err", "clear_keys", "send"} : Goto(place)
  BY Zenon DEF CheckMode, ClearStores
<1>3. caller.pc \notin Watching
  BY <1>1 DEF Watching
<1>4. CASE Return("refused")
  BY <1>1, <1>4, Failed, Zenon DEF Results, ScriptInv
<1>5. ASSUME NEW place \in {"clear_exc", "clear_err", "clear_keys", "send"}, Goto(place)
      PROVE  ScriptKept
  <2>1. place \in CallPlaces /\ place \notin Watching /\ place # "idle"
    BY <1>5 DEF CallPlaces, Watching
  <2> QED
    BY <1>1, <1>3, <1>5, <2>1, GoesOn, Zenon DEF ScriptInv
<1> QED
  BY <1>2, <1>4, <1>5

LEMMA NotStartedTruth ==
  ASSUME PrimaryTypeOK, ScriptInv, NotStarted
  PROVE  ScriptKept
BY Failed, Zenon DEF PrimaryTypeOK, NotStarted, Ends, Results, ScriptInv

LEMMA WaitTruth ==
  ASSUME PrimaryTypeOK, ScriptInv, WaitEnds \/ WaitTimeout
  PROVE  ScriptKept
<1>1. caller \in CallerType /\ ctl'.heard = ctl.heard
  BY Zenon DEF PrimaryTypeOK, WaitEnds, WaitTimeout, Ends
<1>2. \E r \in Results : Return(r) /\ (r # "done" \/ caller.what # "script")
  <2>1. CASE WaitEnds
    BY <2>1, Zenon DEF WaitEnds, Results
  <2>2. CASE WaitTimeout
    BY <2>2, Zenon DEF WaitTimeout, Results
  <2> QED
    BY <2>1, <2>2
<1> QED
  BY <1>1, <1>2, Failed, Zenon DEF ScriptInv

LEMMA ReconnectStreamTruth ==
  ASSUME PrimaryTypeOK, ScriptInv, ReconnectStream
  PROVE  ScriptKept
<1>1. caller \in CallerType /\ ctl'.heard = ctl.heard /\ caller.pc = "reconnect"
  BY Zenon DEF PrimaryTypeOK, ReconnectStream
<1>2. Return("not_sent") \/ Goto("resend")
  BY Zenon DEF ReconnectStream
<1>3. CASE Return("not_sent")
  BY <1>1, <1>3, Failed, Zenon DEF Results, ScriptInv
<1>4. CASE Goto("resend")
  <2>1. "resend" \in CallPlaces /\ "resend" # "idle"
    BY DEF CallPlaces
  <2> QED
    BY <1>1, <1>4, <2>1, PlacesOfWatch, GoesOn, Zenon DEF ScriptInv
<1> QED
  BY <1>2, <1>3, <1>4

\* Where the order of a call is appended it is the last one.
LEMMA OrderSent ==
  ASSUME NEW q \in Inboxes, NEW o \in Orders, NEW name, NEW call,
         \A i \in DOMAIN q : q[i].name # name, o.call = call
  PROVE  LastOne(Append(q, o), name, call)
<1>1. q \in Seq(Orders)
  BY DEF Inboxes
<1>2. PICK next : next = Append(q, o)
  OBVIOUS
<1>3. /\ Len(next) = Len(q) + 1 /\ next[Len(q) + 1] = o
      /\ \A i \in DOMAIN next : i \in DOMAIN q \/ i = Len(q) + 1
      /\ \A i \in DOMAIN q : next[i] = q[i]
  BY <1>1, <1>2
<1> QED
  BY <1>2, <1>3 DEF LastOne

LEMMA SendTruth ==
  ASSUME PrimaryTypeOK, ScriptInv, Send
  PROVE  ScriptKept
<1>1. /\ ctl \in CtlType /\ caller \in CallerType /\ stores' = stores /\ caller.pc \in {"send", "resend"}
  BY Zenon DEF PrimaryTypeOK, Send
<1>2. caller.pc \notin Watching
  BY <1>1, PlacesOfWatch
<1>3. CASE /\ caller' = Written
           /\ ctl' = IF conn.live /\ caller.msg # "secondary"
                     THEN [ctl EXCEPT !.inbox = Append(@, [what |-> caller.msg, name |-> caller.name,
                                                           call |-> caller.call])]
                     ELSE ctl
           /\ UNCHANGED conn
  <2>1. PICK place \in CallPlaces : place = IF caller.msg = "script" THEN "exc" ELSE "wait"
    BY Zenon DEF CallPlaces
  <2>2. PICK sound \in BOOLEAN : sound = (conn.live /\ IF caller.msg = "script" THEN Alone ELSE caller.sound)
    BY Zenon
  <2>3. caller' = [caller EXCEPT !.pc = place, !.sound = sound]
    BY <1>3, <2>1, <2>2, Zenon DEF Written
  <2>4. /\ place # "idle" /\ (place \in Watching => caller.msg = "script")
        /\ caller.msg = "script" => place = "exc" /\ place \in Watching
    <3>1. "exc" \in Watching /\ "exc" # "idle" /\ "wait" # "idle"
      BY DEF Watching
    <3> QED
      BY <2>1, <3>1, PlacesOfWatch, Zenon
  <2>5. sound /\ caller.msg = "script" => conn.live /\ Alone
    BY <2>2
  <2> HIDE <2>1, <2>2
  <2>6. /\ caller'.pc = place /\ caller'.sound = sound /\ caller'.what = caller.what
        /\ caller'.msg = caller.msg /\ caller'.name = caller.name /\ caller'.call = caller.call
        /\ caller'.stopped = caller.stopped
    BY <1>1, <2>3, ZenonT(30) DEF CallerType
  <2>7. PICK o \in Orders : o = [what |-> caller.msg, name |-> caller.name, call |-> caller.call]
    <3>1. caller.msg \in CommandNames /\ caller.name \in ScriptNames /\ caller.call \in Nat
      BY <1>1, Zenon DEF CallerType
    <3> QED
      BY <3>1, Zenon DEF Orders
  <2>8. o.call = caller.call
    BY <2>7, Zenon
  <2>9. PICK inbox : inbox = Append(ctl.inbox, o)
    OBVIOUS
  <2>10. ctl' = ctl \/ ctl' = [ctl EXCEPT !.inbox = inbox]
    BY <1>3, <2>7, <2>9, Zenon
  <2>11. conn.live /\ caller.msg = "script" => ctl' = [ctl EXCEPT !.inbox = inbox]
    BY <1>3, <2>7, <2>9, Zenon
  <2> HIDE <2>7, <2>9
  <2>12. /\ ctl'.heard = ctl.heard /\ ctl'.script = ctl.script /\ ctl'.out = ctl.out
         /\ conn.live /\ caller.msg = "script" => ctl'.inbox = inbox
    BY <1>1, <2>10, <2>11, ZenonT(30) DEF CtlType
  <2>13. Follows'
    BY <2>12, Zenon DEF ScriptInv, Follows
  <2>14. OfScript'
    BY <2>4, <2>6, Zenon DEF ScriptInv, OfScript
  <2>15. TruthStep
    BY <2>4, <2>6, Zenon DEF TruthStep
  <2>16. ASSUME Watched'
         PROVE  WatchedInv'
    <3>1. caller.msg = "script" /\ sound /\ caller.what = "script"
      BY <2>4, <2>6, <2>16, Zenon DEF Watched
    <3>2. conn.live /\ Alone /\ caller.stopped = 0
      BY <1>2, <2>5, <3>1, Zenon DEF ScriptInv, OfScript
    <3>3. /\ ctl.script.name # caller.name /\ ~Mine("STOPPED")
          /\ \A i \in DOMAIN ctl.out : ctl.out[i] # Farewell
          /\ \A i \in DOMAIN conn.queue : conn.queue[i] # Farewell
          /\ \A i \in DOMAIN ctl.inbox : ctl.inbox[i].name # caller.name
      BY <3>2 DEF Alone, Farewell
    <3>4. Farewell' = Farewell /\ (Mine("STOPPED")' <=> Mine("STOPPED"))
      BY <1>1, <2>6, Zenon DEF Farewell, Key, Mine
    <3>5. Silent(ctl)'
      BY <1>3, <2>6, <2>12, <3>2, <3>3, <3>4 DEF Silent
    <3>6. LastOne(inbox, caller.name, caller.call)
      <4>1. ctl.inbox \in Inboxes
        BY <1>1, Zenon DEF CtlType
      <4> QED
        BY <2>8, <2>9, <3>3, <4>1, OrderSent
    <3>7. Awaited(ctl)'
      BY <2>6, <2>12, <3>1, <3>2, <3>3, <3>5, <3>6 DEF Awaited
    <3>8. Phase(ctl)'
      BY <3>7 DEF Phase
    <3>9. conn'.live /\ caller'.stopped # 2
      BY <1>3, <2>6, <3>2
    <3> QED
      BY <3>8, <3>9 DEF WatchedInv
  <2> QED
    BY <2>13, <2>14, <2>15, <2>16, Zenon DEF ScriptKept, ScriptInv, WatchedInv
<1>4. CASE caller.msg = "secondary" /\ Return("done") /\ UNCHANGED ctl
  <2>1. caller.what # "script"
    BY <1>4 DEF ScriptInv, OfScript
  <2> QED
    BY <1>1, <1>4, <2>1, Failed, Zenon DEF Results, ScriptInv
<1>5. CASE Goto("reconnect") /\ UNCHANGED ctl
  <2>1. "reconnect" \in CallPlaces /\ "reconnect" # "idle"
    BY DEF CallPlaces
  <2> QED
    BY <1>1, <1>2, <1>5, <2>1, PlacesOfWatch, GoesOn, Zenon DEF ScriptInv
<1>6. CASE Return("not_sent") /\ UNCHANGED ctl
  BY <1>1, <1>6, Failed, Zenon DEF Results, ScriptInv
<1>7. \/ /\ caller' = Written
         /\ ctl' = IF conn.live /\ caller.msg # "secondary"
                   THEN [ctl EXCEPT !.inbox = Append(@, [what |-> caller.msg, name |-> caller.name,
                                                         call |-> caller.call])]
                   ELSE ctl
         /\ UNCHANGED conn
      \/ caller.msg = "secondary" /\ Return("done") /\ UNCHANGED ctl
      \/ Goto("reconnect") /\ UNCHANGED ctl
      \/ Return("not_sent") /\ UNCHANGED ctl
  BY Zenon DEF Send
<1> QED
  BY <1>3, <1>4, <1>5, <1>6, <1>7

LEMMA CallScriptTruth ==
  ASSUME PrimaryTypeOK, ScriptInv, CallScript
  PROVE  ScriptKept
<1>1. PICK s \in Scripts : caller' = Prepared(s) /\ caller.pc = "idle" /\ ctl' = ctl
  BY Zenon DEF CallScript, Begin, Ends
<1>2. s.what \in {"script", "secondary"}
  BY PrimaryAssumption
<1>3. /\ caller'.pc = "mode" /\ caller'.what = s.what /\ caller'.msg = s.what /\ caller'.stopped = 0
  <2>1. PICK what : what = s.what
    OBVIOUS
  <2>2. caller' = [NoCall EXCEPT !.pc = "mode", !.what = what, !.msg = what, !.name = s.name,
                                 !.call = caller.call + 1, !.patient = s.patient, !.strict = s.strict,
                                 !.started = s.patient]
    BY <1>1, <2>1, Zenon DEF Prepared
  <2>3. NoCall.stopped = 0
    BY Zenon DEF NoCall
  <2>4. NoCall \in CallerType
    BY NoCallIs
  <2> QED
    BY <2>1, <2>2, <2>3, <2>4, ZenonT(30) DEF CallerType
<1>4. "mode" \notin Watching
  BY DEF Watching
<1>5. OfScript' /\ ~Watched'
  BY <1>2, <1>3, <1>4 DEF OfScript, Watched
<1>6. Follows' /\ TruthStep
  BY <1>1, <1>3 DEF ScriptInv, Follows, TruthStep
<1> QED
  BY <1>5, <1>6, Zenon DEF ScriptKept, ScriptInv, WatchedInv

LEMMA PrimaryTruth ==
  ASSUME PrimaryTypeOK, ScriptInv, PrimaryNext
  PROVE  ScriptKept
BY ControllerTruth, BreakTruth, ProduceTruth, ReconnectTruth, ConsumeTruth, SendTruth, ReconnectStreamTruth,
   CheckModeTruth, LookAtExceptionTruth, LookAtErrorsTruth, LookAtKeysTruth, LookAgainTruth, WaitTruth,
   NotStartedTruth, Zenon DEF PrimaryNext, Background, Call

(* A session with scripts; the helper of the other one calls no script.    *)
TruthInv == StateInv /\ (session = "script" => ScriptInv)

LEMMA ScriptStays ==
  ASSUME ScriptInv, UNCHANGED pvars
  PROVE  ScriptInv'
<1>1. ctl' = ctl /\ conn' = conn /\ stores' = stores /\ caller' = caller
  BY DEF pvars
<1>2. SameWatch /\ SameStores /\ caller'.pc = caller.pc /\ ctl'.heard = ctl.heard
  BY <1>1 DEF SameWatch, SameStores
<1>3. ASSUME Watched'
      PROVE  WatchedInv'
  <2>1. Watched
    BY <1>1, <1>3 DEF Watched
  <2>2. conn.live /\ (caller.stopped = 2 => caller.pc = "end") /\ Phase(ctl)
    BY <2>1, Zenon DEF ScriptInv, WatchedInv
  <2>3. PICK e : e = ctl'
    OBVIOUS
  <2>4. Phase(e)
    BY <1>1, <2>2, <2>3
  <2>5. Phase(ctl)'
    BY <1>1, <1>2, <2>3, <2>4, PhaseStays
  <2> QED
    BY <1>1, <2>2, <2>5, Zenon DEF WatchedInv
<1> QED
  BY <1>2, <1>3, LeavesCall, Zenon DEF ScriptInv, ScriptKept

LEMMA NextTruth ==
  ASSUME TruthInv, [Next]_vars
  PROVE  TruthInv' /\ (TruthStep \/ UNCHANGED pvars)
<1>1. StateInv' /\ PrimaryTypeOK /\ HelperInv
  BY NextState, Zenon DEF TruthInv, StateInv
<1>2. CASE UNCHANGED <<session, pvars, rsh>>
  BY <1>1, <1>2, ScriptStays DEF TruthInv
<1>3. CASE session = "state" /\ session' = session
  <2>1. caller.pc # "idle" => caller.what = "command"
    BY <1>1, <1>3, Zenon DEF HelperInv, Calling
  <2>2. TruthStep
    BY <2>1 DEF TruthStep
  <2> QED
    BY <1>1, <1>3, <2>2 DEF TruthInv
<1>4. CASE session = "script" /\ session' = session /\ (PrimaryNext \/ CallScript)
  <2>1. ScriptInv
    BY <1>4, Zenon DEF TruthInv
  <2>2. ScriptKept
    BY <1>1, <1>4, <2>1, PrimaryTruth, CallScriptTruth
  <2> QED
    BY <1>1, <2>2, Zenon DEF ScriptKept, TruthInv
<1>5. \/ UNCHANGED <<session, pvars, rsh>>
      \/ session = "state" /\ session' = session
      \/ session = "script" /\ session' = session /\ (PrimaryNext \/ CallScript)
  BY Zenon DEF Next, vars, Queue, Dashboard, Until, Reader, Server, Helper, Client, Scripted
<1> QED
  BY <1>2, <1>3, <1>4, <1>5, Zenon

LEMMA InitTruth == Init => TruthInv
<1> SUFFICES ASSUME Init, session = "script" PROVE ScriptInv
  BY InitState DEF TruthInv
<1>1. ctl.heard = AllPackages /\ caller = NoCall
  <2>1. PICK heard : heard = IF session = "state" THEN {"state"} ELSE AllPackages
    OBVIOUS
  <2>2. PICK safeties : safeties = IF session = "state" THEN {"NORMAL", "PROTECTIVE_STOP", "FAULT"} ELSE {"NORMAL"}
    OBVIOUS
  <2>3. PICK remotes : remotes = IF session = "script" THEN BOOLEAN ELSE {TRUE}
    OBVIOUS
  <2>4. PrimaryInit(heard, safeties, remotes)
    BY <2>1, <2>2, <2>3, Zenon DEF Init
  <2>5. heard = AllPackages
    BY <2>1
  <2> HIDE <2>1, <2>2, <2>3
  <2>6. PICK mode, safety, remote :
           ctl = [mode |-> mode, safety |-> safety, remote |-> remote, script |-> NoScript,
                  last |-> NoScript, inbox |-> <<>>, out |-> <<>>, told |-> Nothing, heard |-> heard]
    BY <2>4, Zenon DEF PrimaryInit
  <2>7. ctl.heard = heard
    BY <2>6
  <2>8. caller = NoCall
    BY <2>4, Zenon DEF PrimaryInit
  <2> QED
    BY <2>5, <2>7, <2>8
<1>2. caller.what # "script"
  BY <1>1, Zenon DEF NoCall
<1>3. Follows
  BY <1>1 DEF Follows, AllPackages
<1> QED
  BY <1>2, <1>3, Zenon DEF ScriptInv, OfScript, WatchedInv, Watched

(* However the packages, the faults and the threads interleave: a script   *)
(* of which no package was lost, and whose name nobody else used, is       *)
(* reported as done only when it is over and raised nothing that counts.   *)
THEOREM ScriptReportsTruly == Spec => ScriptTruth
<1>1. TruthInv /\ [Next]_vars => TruthInv'
  BY NextTruth
<1>2. TruthInv /\ [Next]_vars => [TruthStep]_pvars
  BY NextTruth
<1> QED
  BY <1>1, <1>2, InitTruth, PTL DEF Spec, ScriptTruth
=============================================================================
