---------------------------- MODULE PrimaryClient ----------------------------
(***************************************************************************)
(* The client of the controller's primary interface: a producer thread     *)
(* reads packages from the connection into a bounded queue, a consumer     *)
(* thread stores them under one lock per kind, and the thread of the       *)
(* caller sends a script or a command and watches the stores to learn what *)
(* has become of it.  The queue is modelled step by step in                *)
(* ReaderWriterQueue; here putting in and taking out are single steps.     *)
(***************************************************************************)
EXTENDS Integers, Sequences

CONSTANTS
    Scripts,      \* what sendScriptBlocking() is called with
    MaxEvents,    \* bound: calls, connections that break, modes changed at the robot
    Lag,          \* bound: packages and commands on the connection
    QueueSize     \* the queue of the pipeline (32)

ASSUME PrimaryAssumption == /\ MaxEvents \in Nat
                            /\ {Lag, QueueSize} \subseteq Nat \ {0}
                            /\ \A s \in Scripts : /\ s.what \in {"script", "secondary"}
                                                  /\ {s.patient, s.strict} \subseteq BOOLEAN

VARIABLES
    ctl,       \* the controller: mode, safety, the script, what it is sent and what it says
    conn,      \* the connection, the stream's state, the pipeline's threads and queue
    stores,    \* what the consumer has stored
    caller,    \* sendScriptBlocking() and the commands: the call under way
    breaks

pvars == <<ctl, conn, stores, caller, breaks>>

Spent == breaks + caller.call
NoScript == [name |-> "", call |-> 0, raised |-> {}]
Program == [name |-> "program", call |-> 0, raised |-> {}]
State(c) == [mode |-> c.mode, running |-> c.script # NoScript, prot |-> c.safety = "PROTECTIVE_STOP"]
Nothing == [mode |-> "UNKNOWN", running |-> FALSE, prot |-> FALSE]

NoCall == [pc |-> "idle", what |-> "", msg |-> "", name |-> "", call |-> 0, patient |-> FALSE,
           strict |-> TRUE, started |-> FALSE, stopped |-> 0, result |-> "", sound |-> TRUE]

(* heard: the kinds of packages that are followed, the others change       *)
(* nothing for what is called.                                             *)
AllPackages == {"key", "error", "exception", "safety", "state"}
PrimaryInit(heard, safeties, remotes) ==
    /\ \E mode \in {"POWER_OFF", "RUNNING"}, safety \in safeties, remote \in remotes :
           /\ safety = "PROTECTIVE_STOP" => mode = "RUNNING"
           /\ safety = "FAULT" => mode = "POWER_OFF"
           /\ ctl = [mode |-> mode, safety |-> safety, remote |-> remote, script |-> NoScript,
                  last |-> NoScript, inbox |-> <<>>, out |-> <<>>, told |-> Nothing, heard |-> heard]
    /\ conn = [live |-> TRUE, state |-> "connected", reader |-> "reading", queue |-> <<>>, run |-> TRUE]
    /\ stores = [exc |-> FALSE, err |-> {}, keys |-> {}, view |-> Nothing, safety |-> "UNDEFINED"]
    /\ caller = NoCall
    /\ breaks = 0

(***************************************************************************)
(* The controller, as far as the client relies on it.                      *)
(***************************************************************************)
Say(c, msg) == IF conn.live /\ conn.run /\ msg.k \in c.heard THEN [c EXCEPT !.out = Append(@, msg)] ELSE c
Key(title, s) == [k |-> "key", title |-> title, name |-> s.name]
Error(level) == [k |-> "error", level |-> level]
Over(c) == IF c.script = NoScript THEN c
           ELSE Say([c EXCEPT !.script = NoScript, !.last = c.script], Key("STOPPED", c.script))
Safety(c, s) == Say([c EXCEPT !.safety = s], [k |-> "safety", safety |-> s])

Obeyed(c, cmd) ==
    CASE cmd.what = "script" /\ ~c.remote -> Say(c, Error("read_only"))
      [] cmd.what = "script" /\ c.remote /\ c.mode = "RUNNING" /\ c.safety = "NORMAL" ->
             LET new == [name |-> cmd.name, call |-> cmd.call, raised |-> {}]
             IN  Say([Over(c) EXCEPT !.script = new], Key("STARTED", new))
      [] cmd.what = "stop_program" -> Over(c)
      [] cmd.what = "power_on" /\ c.mode = "POWER_OFF" /\ c.safety # "FAULT" -> [c EXCEPT !.mode = "IDLE"]
      [] cmd.what = "power_off" -> [Over(c) EXCEPT !.mode = "POWER_OFF"]
      [] cmd.what = "set_robotmode_run" /\ c.safety # "FAULT" -> [c EXCEPT !.mode = "RUNNING"]
      [] cmd.what = "set_unlock_protective_stop" /\ c.safety = "PROTECTIVE_STOP" -> Safety(c, "NORMAL")
      [] OTHER -> c

Obey == /\ ctl.inbox # <<>>
        /\ ctl' = Obeyed([ctl EXCEPT !.inbox = Tail(@)], Head(ctl.inbox))
        /\ UNCHANGED breaks
ScriptEnds == /\ ctl.script # NoScript /\ ctl' = Over(ctl) /\ UNCHANGED breaks
ScriptRaises(what) ==
    /\ ctl.script # NoScript /\ ctl.script.raised = {} /\ "error" \in ctl.heard
    /\ LET c == [ctl EXCEPT !.script.raised = {what}]
       IN  ctl' = IF what = "exception" THEN Over(Say(c, [k |-> "exception"]))
                  ELSE Say(c, Error(what))
    /\ UNCHANGED breaks
TellState == /\ ctl.told # State(ctl) /\ conn.live
             /\ ctl' = Say([ctl EXCEPT !.told = State(ctl)], [k |-> "state", view |-> State(ctl)])
             /\ UNCHANGED breaks
Pendant == /\ Spent < MaxEvents /\ breaks' = breaks + 1
           /\ \/ ctl.mode # "POWER_OFF" /\ ctl' = [Over(ctl) EXCEPT !.mode = "POWER_OFF"]
              \/ ctl.mode = "RUNNING" /\ ctl.safety = "NORMAL"
                 /\ ctl' = Safety(Over(ctl), "PROTECTIVE_STOP")
              \/ ctl.safety = "NORMAL" /\ ctl' = [Safety(Over(ctl), "FAULT") EXCEPT !.mode = "POWER_OFF"]
Controller(A) == (Len(ctl.out) < Lag \/ ~conn.run) /\ A /\ UNCHANGED <<conn, stores, caller>>
ControllerNext == \/ Obey \/ ScriptEnds \/ (\E w \in {"warning", "fault", "exception"} : ScriptRaises(w))
                  \/ TellState \/ Pendant

Break == /\ Spent < MaxEvents /\ conn.live
         /\ conn' = [conn EXCEPT !.live = FALSE]
         /\ ctl' = [ctl EXCEPT !.inbox = <<>>, !.out = <<>>, !.told = Nothing]
         /\ caller' = [caller EXCEPT !.sound = FALSE]
         /\ breaks' = breaks + 1 /\ UNCHANGED stores

(***************************************************************************)
(* The pipeline: URProducer::tryGet() and the two threads.  A stream that  *)
(* is found closed ends it for good.                                       *)
(***************************************************************************)
Produce ==
    /\ conn.run /\ conn.reader = "reading"
    /\ \/ /\ conn.state = "connected" /\ ctl.out # <<>>
          /\ LET full == Len(conn.queue) = QueueSize
             IN  /\ conn' = IF full THEN conn ELSE [conn EXCEPT !.queue = Append(@, Head(ctl.out))]
                 /\ caller' = [caller EXCEPT !.sound = @ /\ ~full]
          /\ ctl' = [ctl EXCEPT !.out = Tail(@)]
       \/ /\ conn.state # "closed" /\ (conn.state = "connected" => ~conn.live)
          /\ conn' = [conn EXCEPT !.state = "disconnected", !.reader = "sleeping"]
          /\ UNCHANGED <<ctl, caller>>
       \/ /\ conn.state = "closed" /\ conn' = [conn EXCEPT !.reader = "ended", !.run = FALSE]
          /\ caller' = [caller EXCEPT !.sound = FALSE] /\ UNCHANGED ctl
    /\ UNCHANGED <<stores, breaks>>
Connected(c) == [c EXCEPT !.live = TRUE, !.state = "connected"]
Reconnect ==
    /\ conn.run /\ conn.reader = "sleeping"
    /\ conn' = [(IF conn.state = "connected" THEN conn ELSE Connected(conn)) EXCEPT !.reader = "reading"]
    /\ UNCHANGED <<ctl, stores, caller, breaks>>

Stored(s, p) ==
    CASE p.k = "key" -> [s EXCEPT !.keys = @ \cup {[title |-> p.title, name |-> p.name]}]
      [] p.k = "error" -> [s EXCEPT !.err = @ \cup {p.level}]
      [] p.k = "exception" -> [s EXCEPT !.exc = TRUE]
      [] p.k = "state" -> [s EXCEPT !.view = p.view]
      [] p.k = "safety" -> [s EXCEPT !.safety = p.safety]
Consume ==
    /\ conn.run /\ conn.queue # <<>>
    /\ stores' = Stored(stores, Head(conn.queue))
    /\ conn' = [conn EXCEPT !.queue = Tail(@)]
    /\ UNCHANGED <<ctl, caller, breaks>>

(***************************************************************************)
(* sendScript(): one attempt, and one more on a new connection.            *)
(***************************************************************************)
Goto(pc) == caller' = [caller EXCEPT !.pc = pc]
Return(r) == caller' = [NoCall EXCEPT !.call = caller.call, !.result = r]
Ends == UNCHANGED <<ctl, conn, stores, breaks>>

Mine(title) == [title |-> title, name |-> caller.name] \in stores.keys
(* No script of this name runs, and nothing said of one is on its way.     *)
Alone == LET stopped == Key("STOPPED", caller)
         IN  /\ ctl.script.name # caller.name /\ ~Mine("STOPPED")
             /\ \A q \in {ctl.out, conn.queue} : \A i \in DOMAIN q : q[i] # stopped
             /\ \A i \in DOMAIN ctl.inbox : ctl.inbox[i].name # caller.name
Written == [caller EXCEPT
              !.pc = IF caller.msg = "script" THEN "exc" ELSE "wait",
              !.sound = conn.live /\ IF caller.msg = "script" THEN Alone ELSE @]
Send ==
    /\ caller.pc \in {"send", "resend"} /\ Len(ctl.inbox) <= Lag
    /\ \/ /\ conn.state = "connected"
          /\ IF caller.msg = "secondary" THEN Return("done") ELSE caller' = Written
          /\ ctl' = IF conn.live /\ caller.msg # "secondary"
                    THEN [ctl EXCEPT !.inbox = Append(@, [what |-> caller.msg, name |-> caller.name,
                                                          call |-> caller.call])]
                    ELSE ctl
          /\ UNCHANGED conn
       \/ /\ conn.state # "connected" \/ ~conn.live
          /\ IF caller.pc = "send"
             THEN Goto("reconnect") /\ conn' = [conn EXCEPT !.state = "closed"]
             ELSE Return("not_sent") /\ UNCHANGED conn
          /\ UNCHANGED ctl
    /\ UNCHANGED <<stores, breaks>>
ReconnectStream ==
    /\ caller.pc = "reconnect"
    /\ IF conn.state = "connected" THEN Return("not_sent") /\ UNCHANGED conn
       ELSE Goto("resend") /\ conn' = Connected(conn)
    /\ UNCHANGED <<ctl, stores, breaks>>

(***************************************************************************)
(* sendScriptBlocking().                                                   *)
(***************************************************************************)
Begin(new) == caller.pc = "idle" /\ Ends /\ caller' = new
Prepared(s) == [NoCall EXCEPT !.pc = "mode", !.what = s.what, !.msg = s.what, !.name = s.name,
                              !.call = caller.call + 1, !.patient = s.patient, !.strict = s.strict,
                              !.started = s.patient]
CallScript == Spent < MaxEvents /\ \E s \in Scripts : Begin(Prepared(s))
CallCommand(cmd) ==
    Begin([NoCall EXCEPT !.pc = "send", !.what = "command", !.msg = cmd, !.call = caller.call])

CheckMode ==
    /\ caller.pc = "mode" /\ Ends
    /\ \/ stores.view.mode = "UNKNOWN" /\ Return("refused")
       \/ /\ stores.view.mode # "UNKNOWN"
          /\ IF stores.view.mode = "RUNNING" /\ stores.safety \in {"NORMAL", "UNDEFINED"}
             THEN Goto("clear_exc") ELSE Return("refused")
ClearStores ==
    /\ \/ caller.pc = "clear_exc" /\ stores' = [stores EXCEPT !.exc = FALSE] /\ Goto("clear_err")
       \/ caller.pc = "clear_err" /\ stores' = [stores EXCEPT !.err = {}] /\ Goto("clear_keys")
       \/ caller.pc = "clear_keys" /\ stores' = [stores EXCEPT !.keys = {}] /\ Goto("send")
    /\ UNCHANGED <<ctl, conn, breaks>>
LookAtException ==
    /\ caller.pc = "exc" /\ Ends
    /\ IF stores.exc THEN Return("failed") ELSE Goto("err")
LookAtErrors ==
    /\ caller.pc = "err" /\ stores' = [stores EXCEPT !.err = {}]
    /\ CASE "read_only" \in stores.err -> Return("failed")
         [] "fault" \in stores.err /\ "read_only" \notin stores.err ->
                IF stores.view = Nothing THEN Return("throws")
                ELSE caller' = [caller EXCEPT !.pc = "send", !.msg = "stop_program"]
         [] stores.err = {"warning"} /\ caller.strict -> Return("failed")
         [] OTHER -> Goto("keys")
    /\ UNCHANGED <<ctl, conn, breaks>>
(* That STOPPED has been seen is only noted: the errors are looked at once *)
(* more before the call succeeds (the mutant does not).                    *)
EnoughAtOnce == caller.stopped >= 1
Enough == caller.stopped >= 2
StoppedAfterStart == caller.started /\ Mine("STOPPED")     \* mutant: STARTED has to be seen first
HasStopped == Mine("STOPPED")
LookAtKeys ==
    /\ caller.pc = "keys" /\ stores' = [stores EXCEPT !.keys = {}]
    /\ caller' = [caller EXCEPT !.pc = "end", !.started = @ \/ Mine("STARTED") \/ Mine("STOPPED"),
                                !.stopped = IF @ > 0 THEN 2 ELSE IF HasStopped THEN 1 ELSE 0]
    /\ UNCHANGED <<ctl, conn, breaks>>
LookAgain == caller.pc = "end" /\ Ends /\ IF Enough THEN Return("done") ELSE Goto("exc")
NotStarted == /\ caller.pc = "end" /\ caller.stopped = 0 /\ ~caller.started /\ Ends
              /\ Return("not_started")

(***************************************************************************)
(* commandPowerOn() .. commandStop(): waitFor() the mode that has been     *)
(* stored.                                                                 *)
(***************************************************************************)
Reached(v) == CASE caller.msg = "power_on" -> v.mode \in {"IDLE", "RUNNING"}
                [] caller.msg = "power_off" -> v.mode = "POWER_OFF"
                [] caller.msg = "set_robotmode_run" -> v.mode = "RUNNING"
                [] caller.msg = "set_unlock_protective_stop" -> ~v.prot
                [] caller.msg = "stop_program" -> ~v.running
WaitEnds == /\ caller.pc = "wait" /\ Reached(stores.view) /\ Ends
            /\ Return(IF caller.what = "script" THEN "failed" ELSE "done")
WaitTimeout == caller.pc = "wait" /\ Ends /\ Return("throws")

Call == \/ Send \/ ReconnectStream \/ CheckMode \/ ClearStores \/ LookAtException \/ LookAtErrors
        \/ LookAtKeys \/ LookAgain \/ WaitEnds \/ WaitTimeout
Background == Produce \/ Reconnect \/ Consume
PrimaryNext == Controller(ControllerNext) \/ Break \/ Background \/ Call \/ NotStarted

-----------------------------------------------------------------------------
(* sendScriptBlocking() reports success only of a script that is over and  *)
(* that raised neither a fault nor an exception, nor a warning where       *)
(* warnings count, although errors and key messages are stored apart:      *)
(* unless a package was lost or the name was that of a script still known. *)
TruthStep ==
    (/\ caller.what = "script" /\ caller.sound
     /\ caller'.pc = "idle" /\ caller.pc # "idle" /\ caller'.result = "done")
    => /\ ctl.last.call = caller.call
       /\ ctl.last.raised \cap ({"fault", "exception"} \cup IF caller.strict THEN {"warning"} ELSE {}) = {}
ScriptTruth == [][TruthStep]_pvars

(* Every call returns, while nothing is lost and a start is waited for     *)
(* only so long: with a start timeout of 0 a script that the robot ignores *)
(* is waited for forever.                                                  *)
CallReturned == caller.pc = "idle" \/ ~caller.sound \/ caller.patient
=============================================================================
