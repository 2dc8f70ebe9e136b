----------------------------- MODULE RtdeClient -----------------------------
(***************************************************************************)
(* The RTDE connection: init() and the reconnect thread set it up, the     *)
(* background thread reads it, the application takes the newest package,   *)
(* the writer thread writes.  A package is the connection it was read from,*)
(* an empty buffer 0.                                                      *)
(***************************************************************************)
EXTENDS RtdeWriter

CONSTANTS
    MaxInit,        \* max_initialization_attempts
    MaxLosses,      \* bound: times the connection breaks, for each use
    MaxRefusals,    \* bound: answers of the robot that make a step fail
    Uses            \* what the application does: "reads", "commands"

ASSUME RtdeClientAssumption ==
    MaxInit \in Nat \ {0} /\ MaxLosses \in [Uses -> Nat] /\ MaxRefusals \in Nat /\ Uses \subseteq {"reads", "commands"}

VARIABLES
    use,
    link,       \* the robot's side, and the TCP socket with its state
    client,     \* client_state_, reconnecting_, the producer's running_ and callback, the recipe
    setup,      \* who sets up: init(), start() or the reconnect thread, and how far it is
    mutex,      \* reconnect_mutex_
    bg,         \* the background thread, background_read_running_, new_data_ and the two buffers
    user        \* getDataPackage(): its place, what it got, and the connection it began in

rtde == <<link, client, setup, mutex, bg, user>>
vars == <<rtde, use, writer, given, applied>>

Steps == {"version", "urcontrol", "outputs", "boot", "data", "pause", "inputs"}

SocketState == {"invalid", "connected", "disconnected", "closed"}
Link == [up : BOOLEAN, whole : BOOLEAN, sock : SocketState, conn : Nat, losses : Nat, refusals : 0..MaxRefusals]
ClientState == {"uninitialized", "initializing", "initialized", "running", "connection_lost"}
Client == [state : ClientState, reconnecting : BOOLEAN, prod : BOOLEAN, cb : BOOLEAN, full : BOOLEAN]
BackgroundRead == [run : BOOLEAN, at : {"none", "loop", "reads", "swaps", "tells", "hangs"}, new : BOOLEAN,
                   buf0 : Nat, buf1 : Nat]

Init ==
    /\ use \in Uses /\ RtdeWriterInit
    /\ link = [up |-> TRUE, whole |-> FALSE, sock |-> "invalid", conn |-> 0, losses |-> 0, refusals |-> 0]
    /\ client = [state |-> "uninitialized", reconnecting |-> FALSE, prod |-> FALSE, cb |-> FALSE,
                 full |-> TRUE]
    /\ setup = [by |-> "init", at |-> "connect", after |-> "connect", tries |-> 0, wasbg |-> TRUE]
    /\ mutex = "none"
    /\ bg = [run |-> FALSE, at |-> "none", new |-> FALSE, buf0 |-> 0, buf1 |-> 0]
    /\ user = [at |-> "idle", got |-> 0, ok |-> FALSE, began |-> 0]

-----------------------------------------------------------------------------
(* The line breaks for both sides; the robot can be reached again later.   *)
Break == /\ link.up /\ link.losses < MaxLosses[use]
         /\ link' = [link EXCEPT !.up = FALSE, !.whole = FALSE, !.losses = @ + 1]
         /\ UNCHANGED <<client, setup, mutex, bg, user>>
Restore == ~link.up /\ link' = [link EXCEPT !.up = TRUE] /\ UNCHANGED <<client, setup, mutex, bg, user>>

(* URProducer::tryGet() on a connection that is gone.  With a callback the *)
(* reconnect thread is started unless it runs; without one the producer    *)
(* connects the bare socket again and waits for data nobody has asked for. *)
Lost == link.sock = "connected" /\ ~link.whole
Deaf == client.prod /\ ~client.cb
Woken(c, s) == IF c.cb /\ ~c.reconnecting
               THEN [c |-> [c EXCEPT !.reconnecting = TRUE],
                     s |-> [by |-> "reconnect", at |-> "lock", after |-> "connect", tries |-> 0,
                            wasbg |-> FALSE]]
               ELSE [c |-> c, s |-> s]

-----------------------------------------------------------------------------
(* setupCommunication(), one exchange with the robot after the other.      *)
SetUp(s) == setup' = [setup EXCEPT !.at = s]
Failed ==
    LET counted == setup.by = "init" \/ link'.sock = "connected"
        tries == IF counted THEN setup.tries + 1 ELSE setup.tries
    IN  setup' = [setup EXCEPT !.at = "close", !.tries = tries,
                               !.after = IF tries >= MaxInit THEN "give_up" ELSE "connect"]
Thrown == setup' = IF setup.by = "init" THEN [setup EXCEPT !.at = "failed"]
                   ELSE [setup EXCEPT !.at = "close", !.after = "give_up"]

(* A socket that is connected still is not connected again.                *)
Connect ==
    /\ setup.at = "connect"
    /\ \/ /\ link.sock = "connected" /\ Thrown
          /\ UNCHANGED link
       \/ /\ link.sock # "connected" /\ link.up
          /\ link' = [link EXCEPT !.sock = "connected", !.whole = TRUE, !.conn = @ + 1]
          /\ SetUp("version")
    /\ client' = [client EXCEPT !.state = IF link.sock = "connected" THEN "uninitialized" ELSE "initializing"]
    /\ UNCHANGED <<mutex, bg, user, writer, given, applied>>

AfterFailure == IF setup.at = "version" THEN [client EXCEPT !.state = "uninitialized"] ELSE client

(* An exchange is answered, refused, or ends in an exception.              *)
Answered(next) ==
    /\ link.whole /\ SetUp(next)
    /\ client' = [client EXCEPT !.prod = @ \/ setup.at = "urcontrol"]
    /\ writer' = IF setup.at = "inputs" THEN Started(writer) ELSE writer
    /\ UNCHANGED <<link, mutex, bg, user, given, applied>>
Refuse(how) ==
    /\ link.whole /\ link.refusals < MaxRefusals
    /\ link' = [link EXCEPT !.refusals = @ + 1]
    /\ \/ "fails" \in how /\ Failed /\ client' = AfterFailure
       \/ "throws" \in how /\ Thrown /\ UNCHANGED client
    /\ UNCHANGED <<mutex, bg, user, writer, given, applied>>
At(step) == setup.at = step /\ link.sock = "connected"

NegotiateProtocolVersion == At("version") /\ (Answered("urcontrol") \/ Refuse({"fails"}))
QueryURControlVersion == At("urcontrol") /\ (Answered("outputs") \/ Refuse({"fails"}))
SetupOutputs == At("outputs") /\ (Answered("boot") \/ Refuse({"fails", "throws"}))
(* isRobotBooted(): the stream is started, read for a while and paused.    *)
IsRobotBooted ==
    \/ At("boot") /\ (Answered("data") \/ Refuse({"fails", "throws"}))
    \/ At("data") /\ (Answered("pause") \/ Refuse({"fails"}))
SendPause == At("pause") /\ (Answered("inputs") \/ Refuse({"fails", "throws"}))
SetupInputs == At("inputs") /\ (Answered("ready") \/ Refuse({"fails", "throws"}))

(* resetOutputRecipe(): variables the robot does not have are removed; the *)
(* new producer has no callback, which init() sets when it is done and     *)
(* reconnect() does not.  The disconnect() in it and the one after it are  *)
(* one, Close to Joined.                                                   *)
ResetOutputRecipe ==
    /\ At("outputs") /\ link.whole /\ client.full
    /\ client' = [client EXCEPT !.full = FALSE, !.cb = FALSE, !.prod = FALSE]
    /\ link' = [link EXCEPT !.sock = "closed"]
    /\ Failed
    /\ UNCHANGED <<mutex, bg, user, writer, given, applied>>

(* The write fails and leaves the socket's state, or the read notices.     *)
LostInSetup ==
    /\ setup.at \in Steps /\ Lost
    /\ \/ UNCHANGED link /\ Failed /\ client' = AfterFailure
       \/ /\ link' = [link EXCEPT !.sock = "disconnected"]
          /\ IF Deaf THEN SetUp("hangs") /\ UNCHANGED client
             ELSE Failed /\ client' = AfterFailure
    /\ UNCHANGED <<mutex, bg, user, writer, given, applied>>

-----------------------------------------------------------------------------
(* disconnect(): the socket and the writer, when there is a state to leave,*)
(* then the producer and the background thread.                            *)
Close ==
    /\ setup.at = "close" /\ SetUp("quiet")
    /\ IF client.state = "uninitialized" THEN UNCHANGED <<link, writer>>
       ELSE /\ link' = [link EXCEPT !.sock = "closed", !.whole = FALSE]
            /\ writer' = Stopped(writer)
    /\ UNCHANGED <<client, mutex, bg, user, given, applied>>
Quiet ==
    /\ setup.at = "quiet" /\ writer.at = "none"
    /\ client' = [client EXCEPT !.state = "uninitialized", !.prod = FALSE]
    /\ bg' = [bg EXCEPT !.run = FALSE]
    /\ user' = IF user.at = "waits" THEN [user EXCEPT !.at = "woken"] ELSE user
    /\ SetUp("join")
    /\ UNCHANGED <<link, mutex, writer, given, applied>>
NoLongerTold(c) == c                               \* mutant: reconnecting_ stays set
GivesUp(c) == [c EXCEPT !.reconnecting = FALSE]
Joined ==
    /\ setup.at = "join" /\ bg.at = "none"
    /\ IF setup.after = "connect" THEN SetUp("connect") /\ UNCHANGED <<client, mutex>>
       ELSE IF setup.by = "init" THEN SetUp("failed") /\ UNCHANGED <<client, mutex>>
       ELSE /\ SetUp("idle") /\ mutex' = "none"
            /\ client' = GivesUp(client)
    /\ UNCHANGED <<link, bg, user, writer, given, applied>>

-----------------------------------------------------------------------------
(* init() returns; the application calls start() once.                     *)
InitDone ==
    /\ setup.by = "init" /\ setup.at = "ready"
    /\ client' = [client EXCEPT !.state = "initialized", !.cb = TRUE]
    /\ setup' = [setup EXCEPT !.by = "start", !.at = "start"]
    /\ UNCHANGED <<link, mutex, bg, user, writer, given, applied>>
(* reconnect() takes the mutex and remembers what ran.                     *)
ReconnectLocks ==
    /\ setup.at = "lock" /\ mutex = "none" /\ mutex' = "reconnect"
    /\ client' = [client EXCEPT !.state = "connection_lost"]
    /\ setup' = [setup EXCEPT !.at = "close", !.wasbg = bg.run]
    /\ UNCHANGED <<link, bg, user, writer, given, applied>>
ReconnectReady ==
    /\ setup.by = "reconnect" /\ setup.at = "ready" /\ SetUp("start")
    /\ UNCHANGED <<link, client, mutex, bg, user, writer, given, applied>>

BackgroundStarted(b) == [b EXCEPT !.run = TRUE, !.at = "loop", !.buf0 = 0, !.buf1 = 0]
StartEnds(c) == /\ SetUp("idle")
                /\ client' = [c EXCEPT !.reconnecting = FALSE]
                /\ mutex' = IF setup.by = "reconnect" THEN "none" ELSE mutex

(* start(), from the application or at the end of reconnect().             *)
Start ==
    /\ setup.at = "start" /\ link.whole /\ link.sock = "connected"
    /\ bg' = IF setup.wasbg THEN BackgroundStarted(bg) ELSE bg
    /\ StartEnds([client EXCEPT !.state = "running"])
    /\ UNCHANGED <<link, user, writer, given, applied>>
(* The robot does not accept, or gives no answer that is understood: an    *)
(* exception, which nothing catches in the reconnect thread.               *)
StartRefused ==
    /\ setup.at = "start" /\ link.whole /\ link.refusals < MaxRefusals
    /\ link' = [link EXCEPT !.refusals = @ + 1]
    /\ \/ StartEnds(client)
       \/ SetUp("crashed") /\ UNCHANGED <<client, mutex>>
    /\ UNCHANGED <<bg, user, writer, given, applied>>
(* The connection is lost under start(): in reconnect() the callback finds *)
(* reconnecting_ set and nobody connects any more, or there is none.       *)
StartLost ==
    /\ setup.at = "start" /\ Lost
    /\ \/ UNCHANGED link /\ StartEnds(client)
       \/ /\ link' = [link EXCEPT !.sock = "disconnected"]
          /\ IF Deaf THEN SetUp("hangs") /\ UNCHANGED <<client, mutex>>
             ELSE IF setup.by = "reconnect" THEN StartEnds(client)
             ELSE LET w == Woken(client, setup)
                  IN  client' = w.c /\ setup' = w.s /\ UNCHANGED mutex
    /\ UNCHANGED <<bg, user, writer, given, applied>>

-----------------------------------------------------------------------------
(* backgroundReadThreadFunc().                                             *)
MayReadAlways == TRUE     \* mutant: the mutex is not tried
MayRead == mutex = "none"
BgLeaves(b) == [b EXCEPT !.at = "none"]            \* mutant: new_data_ is kept
BgExit(b) == [b EXCEPT !.at = "none", !.new = FALSE]
BgTurn ==
    /\ bg.at = "loop"
    /\ \/ ~bg.run /\ bg' = BgExit(bg) /\ UNCHANGED mutex
       \/ bg.run /\ MayRead /\ bg' = [bg EXCEPT !.at = "reads"] /\ mutex' = "background"
    /\ UNCHANGED <<link, client, setup, user>>
BgReads ==
    /\ bg.at = "reads" /\ mutex' = "none"
    /\ ~(Deaf /\ (Lost \/ link.sock = "disconnected"))
    /\ \/ /\ link.sock = "connected" /\ link.whole
          /\ bg' = [bg EXCEPT !.at = "swaps", !.buf1 = link.conn]
          /\ UNCHANGED <<link, client, setup>>
       \/ /\ link.sock # "connected" \/ ~client.prod
          /\ bg' = [bg EXCEPT !.at = "loop"]
          /\ LET w == Woken(client, setup)
             IN  IF client.prod /\ link.sock = "disconnected" THEN client' = w.c /\ setup' = w.s
                 ELSE UNCHANGED <<client, setup>>
          /\ UNCHANGED link
       \/ /\ Lost /\ client.prod
          /\ link' = [link EXCEPT !.sock = "disconnected"]
          /\ bg' = [bg EXCEPT !.at = "loop"]
          /\ LET w == Woken(client, setup) IN client' = w.c /\ setup' = w.s
    /\ UNCHANGED user
(* In the producer that a reset in reconnect() has made, with the mutex.   *)
BgHangs ==
    /\ bg.at = "reads" /\ Deaf /\ (Lost \/ link.sock = "disconnected")
    /\ link' = [link EXCEPT !.sock = "disconnected"]
    /\ bg' = [bg EXCEPT !.at = "hangs"]
    /\ UNCHANGED <<client, setup, mutex, user>>
BgSwaps ==
    /\ bg.at = "swaps"
    /\ bg' = [bg EXCEPT !.at = "tells", !.buf0 = bg.buf1, !.buf1 = bg.buf0]
    /\ UNCHANGED <<link, client, setup, mutex, user>>
BgTells ==
    /\ bg.at = "tells"
    /\ bg' = [bg EXCEPT !.at = "loop", !.new = TRUE]
    /\ user' = IF user.at = "waits" THEN [user EXCEPT !.at = "woken"] ELSE user
    /\ UNCHANGED <<link, client, setup, mutex>>

-----------------------------------------------------------------------------
(* getDataPackage(): refused, copied at once, or after a wake-up; a        *)
(* wake-up without data is a success as well.                              *)
Finish(ok, got) == user' = [user EXCEPT !.at = "idle", !.ok = ok, !.got = got]
GetDataPackage ==
    /\ user.at = "idle" /\ use = "reads"
    /\ IF client.reconnecting \/ ~bg.run THEN Finish(FALSE, 0)
       ELSE user' = [at |-> IF bg.new THEN "copies" ELSE "waits", got |-> 0, ok |-> FALSE,
                     began |-> link.conn]
    /\ UNCHANGED <<link, client, setup, mutex, bg>>
Copies ==
    /\ user.at = "copies" \/ (user.at = "woken" /\ bg.new)
    /\ Finish(TRUE, bg.buf0) /\ bg' = [bg EXCEPT !.new = FALSE]
    /\ UNCHANGED <<link, client, setup, mutex>>
NothingNew ==
    /\ \/ user.at = "woken" /\ ~bg.new /\ Finish(TRUE, 0)
       \/ user.at = "waits" /\ Finish(FALSE, 0)
    /\ UNCHANGED <<link, client, setup, mutex, bg>>

-----------------------------------------------------------------------------
Background == (BgTurn \/ BgReads \/ BgHangs \/ BgSwaps \/ BgTells) /\ UNCHANGED <<writer, given, applied>>
Reader == (GetDataPackage \/ Copies \/ NothingNew) /\ UNCHANGED <<writer, given, applied>>
Setup == \/ Connect \/ ResetOutputRecipe \/ LostInSetup
         \/ NegotiateProtocolVersion \/ QueryURControlVersion \/ SetupOutputs
         \/ IsRobotBooted \/ SendPause \/ SetupInputs
         \/ Close \/ Quiet \/ Joined
         \/ InitDone \/ ReconnectLocks \/ ReconnectReady \/ Start \/ StartRefused \/ StartLost
Arrives == link.sock = "connected" /\ link.whole
WriterThread == (WriterSwaps \/ WriterSends(Arrives) \/ WriterEnds) /\ UNCHANGED rtde
Application == /\ use = "commands"
               /\ (\E f \in Fields : SendField(f)) \/ (\E m \in (SUBSET Fields) \ {{}} : SendPackage(m))
               /\ UNCHANGED rtde

Next == /\ setup.at # "crashed"
        /\ \/ (Break \/ Restore) /\ UNCHANGED <<writer, given, applied>>
           \/ Setup \/ Background \/ Reader \/ WriterThread \/ Application
        /\ UNCHANGED use

Fairness == /\ WF_vars(Restore /\ UNCHANGED <<writer, given, applied, use>>)
            /\ WF_vars(Setup /\ UNCHANGED use)
            /\ SF_vars(ReconnectLocks /\ UNCHANGED use)
            /\ WF_vars(Background /\ UNCHANGED use)
            /\ WF_vars(WriterThread /\ UNCHANGED use)

Spec == Init /\ [][Next]_vars /\ Fairness

-----------------------------------------------------------------------------
RtdeTypeOK == /\ link \in Link /\ client \in Client /\ bg \in BackgroundRead /\ writer \in Writer
              /\ bg.buf0 <= link.conn /\ bg.buf1 <= link.conn

(* The background thread does not read while the connection is torn down,  *)
(* set up or started again: it would take the robot's answers, or connect  *)
(* the socket that is being closed.                                        *)
OneReader == /\ RtdeTypeOK
             /\ bg.at \in {"reads", "hangs"} => setup.at \notin Steps \cup {"start", "close", "quiet", "join"}

(* A call of getDataPackage() that begins and ends within one connection   *)
(* and copies a package copies one of this connection.                     *)
CopiesOwn ==
    user.at # "idle" /\ user'.at = "idle" /\ bg.new /\ user'.ok /\ user.began = link.conn
        => user'.got = link.conn
PackageOfThisConnection == [][CopiesOwn]_vars

(* The reconnect thread comes to an end, once the robot can be reached -   *)
(* but for a reconnection that has dropped the callback and loses the      *)
(* connection again: it waits for ever.                                    *)
ReconnectEnds ==
    client.reconnecting ~> \/ ~client.reconnecting \/ setup.at = "crashed"
                           \/ setup.at = "hangs" /\ Deaf

(* A connection that is lost while it is read is made again, as long as    *)
(* there is the callback.                                                  *)
LossIsNoticed ==
    (client.state = "running" /\ bg.run /\ ~link.whole) ~> (client.reconnecting \/ Deaf)

(* The robot applies the commands for an output in the order they were     *)
(* given, also those that were stored before the connection was lost.      *)
CommandsInOrder == [][\A f \in Fields : applied'[f] >= applied[f]]_vars

(* The last command given while the writer runs reaches the robot unless   *)
(* the connection is lost.                                                 *)
Unapplied == /\ writer.running /\ link.whole
             /\ LastGiven >= writer.since /\ \A f \in Fields : applied[f] # LastGiven
LastCommandArrives == Unapplied ~> ~Unapplied

(* The threads get on: those that reconnect, read and write.               *)
ThreadsGetOn == ReconnectEnds /\ LossIsNoticed /\ LastCommandArrives
=============================================================================
