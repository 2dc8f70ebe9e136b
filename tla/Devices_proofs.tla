--------------------------- MODULE Devices_proofs ---------------------------
(***************************************************************************)
(* Programs that talk to one device over a line.  RTDE client: for any     *)
(* number of outputs and commands, of attempts, refusals and lost          *)
(* connections, nobody reads the connection while it is set up, a package  *)
(* that is taken is one of this connection, and the robot applies the      *)
(* commands in the order they were given.  Suction gripper: for every      *)
(* bound and every initial level, the driver and the valve board never     *)
(* disagree unnoticed.                                                     *)
(***************************************************************************)
EXTENDS RtdeClient, SuctionGripper, SequenceTheorems, TLAPS

-----------------------------------------------------------------------------
(* The places of the threads, and what their variables are.                *)
SetupPlaces == Steps \cup {"connect", "close", "quiet", "join", "ready", "start", "lock", "idle",
                           "hangs", "failed", "crashed"}
SetUpBy == [by : {"init", "start", "reconnect"}, at : SetupPlaces, after : {"connect", "give_up"},
            tries : Nat, wasbg : BOOLEAN]
Caller == [at : {"idle", "copies", "waits", "woken"}, got : Nat, ok : BOOLEAN, began : Nat]
ThreadsTypeOK ==
    /\ RtdeTypeOK
    /\ setup \in SetUpBy /\ mutex \in {"none", "reconnect", "background"}
    /\ user \in Caller /\ given \in Packages /\ applied \in Packages

(* Who has the mutex: reconnect() from its first step to its last.         *)
MutexHeld ==
    /\ mutex = "background" <=> bg.at \in {"reads", "hangs"}
    /\ setup.by = "reconnect" /\ setup.at \notin {"lock", "idle"} => mutex = "reconnect"

(* init() does not start the stream, start() does nothing else.            *)
SetupInTurn ==
    /\ setup.by = "init" => setup.at \notin {"start", "idle", "lock"}
    /\ setup.by = "start" => setup.at \in {"start", "idle", "hangs", "crashed"}

(* The background thread is there only between start() and disconnect().   *)
NobodyReads ==
    setup.by = "init" \/ setup.at \in Steps \cup {"connect", "ready", "start"} => bg.at = "none"

(* What is new was read from this connection.                              *)
NewIsOfThisConnection ==
    /\ bg.new \/ bg.at = "tells" => bg.buf0 = link.conn
    /\ bg.at = "swaps" => bg.buf1 = link.conn
    /\ bg.at = "none" => ~bg.new

(* The writer is started again only after it has ended, and nothing is     *)
(* left then in the package it sent from.                                  *)
WriterInTurn ==
    /\ writer.at # "send" => writer.send = Clear
    /\ setup.at \in Steps \cup {"connect", "join"} => writer.at = "none"

(* What waits was given after what is being sent, and that after what has  *)
(* been applied.                                                           *)
InOrder(f) ==
    /\ writer.store[f] <= given[f] /\ writer.send[f] <= given[f] /\ applied[f] <= given[f]
    /\ writer.store[f] # 0 => applied[f] <= writer.store[f] /\ writer.send[f] <= writer.store[f]
    /\ writer.send[f] # 0 => applied[f] <= writer.send[f]
Newest(n) == (\E f \in Fields : given[f] = n) /\ \A f \in Fields : given[f] <= n
GivenInOrder == (\E n \in 0..Commands : Newest(n)) /\ \A f \in Fields : InOrder(f)

ThreadsInv == ThreadsTypeOK /\ MutexHeld /\ SetupInTurn /\ NobodyReads /\ NewIsOfThisConnection
WriterInv == WriterInTurn /\ GivenInOrder
RtdeInv == ThreadsInv /\ WriterInv

-----------------------------------------------------------------------------
(* How the steps of a set-up move it.                                      *)
LEMMA Moves ==
  ASSUME setup \in SetUpBy, NEW p \in SetupPlaces, SetUp(p)
  PROVE  setup' \in SetUpBy /\ setup'.by = setup.by /\ setup'.at = p
  BY DEF SetUp, SetUpBy

LEMMA FailedMoves ==
  ASSUME setup \in SetUpBy, Failed
  PROVE  setup' \in SetUpBy /\ setup'.by = setup.by /\ setup'.at = "close"
<1>1. \E n \in Nat : \E a \in {"give_up", "connect"} :
         setup' = [setup EXCEPT !.at = "close", !.tries = n, !.after = a]
  <2> DEFINE n == IF setup.by = "init" \/ link'.sock = "connected" THEN setup.tries + 1 ELSE setup.tries
  <2>1. n \in Nat
    BY DEF SetUpBy
  <2> QED
    BY <2>1 DEF Failed
<1> QED
  BY <1>1 DEF SetUpBy, SetupPlaces

LEMMA ThrownMoves ==
  ASSUME setup \in SetUpBy, Thrown
  PROVE  /\ setup' \in SetUpBy /\ setup'.by = setup.by /\ setup'.at \in {"close", "failed"}
         /\ setup'.at = "failed" => setup.by = "init"
<1>1. CASE setup.by = "init"
  BY <1>1 DEF Thrown, SetUpBy, SetupPlaces
<1>2. CASE setup.by # "init"
  <2>1. setup' = [setup EXCEPT !.at = "close", !.after = "give_up"]
    BY <1>2 DEF Thrown
  <2> QED
    BY <2>1, <1>2 DEF SetUpBy, SetupPlaces
<1> QED
  BY <1>1, <1>2

\* The callback of the producer starts the reconnect thread, or nothing happens.
LEMMA WokenMoves ==
  ASSUME client \in Client, setup \in SetUpBy
  PROVE  /\ Woken(client, setup).c \in Client
         /\ Woken(client, setup).s \in SetUpBy
         /\ \/ Woken(client, setup).s = setup
            \/ Woken(client, setup).s.by = "reconnect" /\ Woken(client, setup).s.at = "lock"
<1>1. CASE client.cb /\ ~client.reconnecting
  BY <1>1 DEF Woken, Client, SetUpBy, SetupPlaces
<1>2. CASE ~(client.cb /\ ~client.reconnecting)
  BY <1>2 DEF Woken
<1> QED
  BY <1>1, <1>2

\* A step of a set-up that touches neither the mutex nor the background thread.
LEMMA SetupKeeps ==
  ASSUME ThreadsInv, UNCHANGED <<mutex, bg, user>>,
         writer' \in Writer, given' \in Packages, applied' \in Packages,
         link' \in Link, link'.conn = link.conn, client' \in Client, setup' \in SetUpBy,
         setup'.by = setup.by \/ (setup'.by = "reconnect" /\ setup'.at = "lock"),
         setup'.at \notin {"lock", "idle"} => setup'.by = setup.by /\ setup.at \notin {"lock", "idle"},
         SetupInTurn',
         setup'.at \in Steps \cup {"connect", "ready", "start"} => bg.at = "none"
  PROVE  ThreadsInv'
<1>1. ThreadsTypeOK'
  BY DEF ThreadsInv, ThreadsTypeOK, RtdeTypeOK, Link
<1>2. MutexHeld'
  BY DEF ThreadsInv, MutexHeld
<1>3. NobodyReads'
  BY DEF ThreadsInv, NobodyReads
<1>4. NewIsOfThisConnection'
  BY DEF ThreadsInv, NewIsOfThisConnection
<1> QED
  BY <1>1, <1>2, <1>3, <1>4 DEF ThreadsInv

\* An exchange with the robot, and what can become of it.
LEMMA ExchangeKeeps ==
  ASSUME ThreadsInv, UNCHANGED <<mutex, bg, user>>,
         writer' \in Writer, given' \in Packages, applied' \in Packages,
         link' \in Link, link'.conn = link.conn, client' \in Client,
         setup.at \in Steps \cup {"connect"},
         \/ \E p \in Steps \cup {"ready", "hangs"} : SetUp(p)
         \/ Failed \/ Thrown
  PROVE  ThreadsInv'
<1>0. setup \in SetUpBy /\ SetupInTurn /\ NobodyReads
  BY DEF ThreadsInv, ThreadsTypeOK
<1>1. /\ setup' \in SetUpBy /\ setup'.by = setup.by
      /\ setup'.at \in Steps \cup {"ready", "hangs", "close", "failed"}
  <2>1. ASSUME NEW p \in Steps \cup {"ready", "hangs"}, SetUp(p)
        PROVE  setup' \in SetUpBy /\ setup'.by = setup.by /\ setup'.at = p
    <3>1. p \in SetupPlaces
      BY DEF SetupPlaces
    <3> QED
      BY <1>0, <2>1, <3>1, Moves
  <2> QED
    BY <1>0, <2>1, FailedMoves, ThrownMoves
<1>2. setup.at \notin {"lock", "idle", "start", "crashed"} /\ bg.at = "none"
  BY <1>0 DEF NobodyReads, Steps
<1>3. setup'.at \notin {"lock", "idle", "start"} /\ setup.by # "start"
  BY <1>0, <1>1, <1>2 DEF SetupInTurn, Steps
<1>4. SetupInTurn'
  BY <1>1, <1>3 DEF SetupInTurn
<1> QED
  BY <1>0, <1>1, <1>2, <1>3, <1>4, SetupKeeps

LEMMA AfterFailureType == client \in Client => AfterFailure \in Client
  BY DEF AfterFailure, Client, ClientState

\* Refused, counted by the robot's bound.
LEMMA RefuseKeeps ==
  ASSUME ThreadsInv, writer' \in Writer, given' \in Packages, applied' \in Packages,
         setup.at \in Steps, NEW how, Refuse(how)
  PROVE  ThreadsInv'
<1>1. link \in Link /\ client \in Client
  BY DEF ThreadsInv, ThreadsTypeOK, RtdeTypeOK
<1>2. link' \in Link /\ link'.conn = link.conn
  BY <1>1, RtdeClientAssumption DEF Refuse, Link
<1>3. client' \in Client /\ (Failed \/ Thrown) /\ UNCHANGED <<mutex, bg, user>>
  BY <1>1, AfterFailureType DEF Refuse
<1> QED
  BY <1>2, <1>3, ExchangeKeeps

LEMMA AnsweredKeeps ==
  ASSUME ThreadsInv, writer' \in Writer, given' \in Packages, applied' \in Packages,
         setup.at \in Steps, NEW next \in Steps \cup {"ready"}, Answered(next)
  PROVE  ThreadsInv'
<1>1. client \in Client /\ link \in Link
  BY DEF ThreadsInv, ThreadsTypeOK, RtdeTypeOK
<1>2. client' \in Client
  BY <1>1 DEF Answered, Client
<1>3. SetUp(next) /\ UNCHANGED <<link, mutex, bg, user>>
  BY DEF Answered
<1> QED
  BY <1>1, <1>2, <1>3, ExchangeKeeps

\* What becomes of start() when the connection is lost under it.
LEMMA StartLostEnds ==
  ASSUME StartLost
  PROVE  \/ StartEnds(client)
         \/ SetUp("hangs") /\ UNCHANGED <<client, mutex>>
         \/ client' = Woken(client, setup).c /\ setup' = Woken(client, setup).s /\ UNCHANGED mutex
<1>1. CASE Deaf
  BY <1>1, Zenon DEF StartLost
<1>2. CASE ~Deaf /\ setup.by = "reconnect"
  BY <1>2, Zenon DEF StartLost
<1>3. CASE ~Deaf /\ setup.by # "reconnect"
  BY <1>3, Zenon DEF StartLost
<1> QED
  BY <1>1, <1>2, <1>3

LEMMA NextThreads ==
  ASSUME ThreadsInv, Next, writer' \in Writer, given' \in Packages, applied' \in Packages
  PROVE  ThreadsInv'
<1>0. /\ link \in Link /\ client \in Client /\ bg \in BackgroundRead
      /\ bg.buf0 <= link.conn /\ bg.buf1 <= link.conn
      /\ setup \in SetUpBy /\ mutex \in {"none", "reconnect", "background"} /\ user \in Caller
      /\ MutexHeld /\ SetupInTurn /\ NobodyReads /\ NewIsOfThisConnection
  BY DEF ThreadsInv, ThreadsTypeOK, RtdeTypeOK
<1>a. ASSUME UNCHANGED <<setup, mutex, bg, user>>, link' \in Link, link'.conn = link.conn, client' \in Client
      PROVE  ThreadsInv'
  BY <1>0, <1>a, SetupKeeps DEF SetupInTurn, NobodyReads
<1>1. CASE Break
  <2>1. /\ UNCHANGED <<client, setup, mutex, bg, user>>
        /\ link' = [link EXCEPT !.up = FALSE, !.whole = FALSE, !.losses = @ + 1]
    BY <1>1 DEF Break
  <2>2. link.losses + 1 \in Nat
    BY <1>0 DEF Link
  <2>3. link' \in Link /\ link'.conn = link.conn
    <3> DEFINE n == link.losses + 1
    <3> HIDE DEF n
    <3>1. link' = [link EXCEPT !.up = FALSE, !.whole = FALSE, !.losses = n]
      BY <2>1 DEF n
    <3> QED
      BY <1>0, <2>2, <3>1 DEF Link, n
  <2> QED
    BY <1>0, <1>a, <2>1, <2>3
<1>2. CASE Restore
  <2>1. UNCHANGED <<client, setup, mutex, bg, user>> /\ link' \in Link /\ link'.conn = link.conn
    BY <1>0, <1>2 DEF Restore, Link
  <2> QED
    BY <1>0, <1>a, <2>1
<1>3. CASE Connect
  <2>1. setup.at = "connect" /\ UNCHANGED <<mutex, bg, user>>
    BY <1>3 DEF Connect
  <2>2. client' \in Client
    <3>1. \E s \in ClientState : client' = [client EXCEPT !.state = s]
      BY <1>3 DEF Connect, ClientState
    <3> QED
      BY <1>0, <3>1 DEF Client
  <2>3. CASE Thrown /\ UNCHANGED link
    BY <1>0, <2>1, <2>2, <2>3, ExchangeKeeps
  <2>4. CASE /\ link' = [link EXCEPT !.sock = "connected", !.whole = TRUE, !.conn = @ + 1]
             /\ SetUp("version")
    <3>1. link' \in Link /\ link'.conn = link.conn + 1 /\ link.conn \in Nat
      <4>1. link.conn \in Nat /\ link.conn + 1 \in Nat
        BY <1>0 DEF Link
      <4> DEFINE n == link.conn + 1
      <4> HIDE DEF n
      <4>2. link' = [link EXCEPT !.sock = "connected", !.whole = TRUE, !.conn = n] /\ n \in Nat
        BY <2>4, <4>1 DEF n
      <4>3. link' \in Link /\ link'.conn = n
        BY <1>0, <4>2 DEF Link, SocketState
      <4> QED
        BY <4>1, <4>3 DEF n
    <3>2. setup' \in SetUpBy /\ setup'.by = setup.by /\ setup'.at = "version"
      BY <1>0, <2>4, Moves DEF SetupPlaces, Steps
    <3>3. bg.at = "none" /\ setup.by # "start"
      BY <1>0, <2>1 DEF NobodyReads, SetupInTurn
    <3>4. ThreadsTypeOK'
      <4>1. bg'.buf0 <= link'.conn /\ bg'.buf1 <= link'.conn
        BY <1>0, <2>1, <3>1 DEF BackgroundRead
      <4> QED
        BY <1>0, <2>1, <2>2, <3>1, <3>2, <4>1 DEF ThreadsTypeOK, RtdeTypeOK
    <3>5. MutexHeld' /\ SetupInTurn' /\ NobodyReads'
      BY <1>0, <2>1, <3>2, <3>3 DEF MutexHeld, SetupInTurn, NobodyReads
    <3>6. NewIsOfThisConnection'
      BY <1>0, <2>1, <3>3 DEF NewIsOfThisConnection
    <3> QED
      BY <3>4, <3>5, <3>6 DEF ThreadsInv
  <2> QED
    BY <1>3, <2>3, <2>4 DEF Connect
<1>4. CASE ResetOutputRecipe
  <2>1. client' \in Client /\ link' \in Link /\ link'.conn = link.conn
    BY <1>0, <1>4 DEF ResetOutputRecipe, Client, Link, SocketState
  <2>2. UNCHANGED <<mutex, bg, user>> /\ setup.at \in Steps /\ Failed
    BY <1>4 DEF ResetOutputRecipe, At, Steps
  <2> QED
    BY <2>1, <2>2, ExchangeKeeps
<1>5. CASE LostInSetup
  <2>1. client' \in Client
    BY <1>0, <1>5, AfterFailureType DEF LostInSetup
  <2>2. link' \in Link /\ link'.conn = link.conn
    BY <1>0, <1>5 DEF LostInSetup, Link, SocketState
  <2>3. UNCHANGED <<mutex, bg, user>> /\ setup.at \in Steps /\ (Failed \/ SetUp("hangs"))
    BY <1>5 DEF LostInSetup
  <2> QED
    BY <2>1, <2>2, <2>3, ExchangeKeeps
<1>6. ASSUME NEW step \in Steps, At(step), NEW next \in Steps \cup {"ready"}, NEW how,
             Answered(next) \/ Refuse(how)
      PROVE  ThreadsInv'
  BY <1>6, AnsweredKeeps, RefuseKeeps DEF At
<1>7. CASE \/ NegotiateProtocolVersion \/ QueryURControlVersion \/ SetupOutputs
           \/ IsRobotBooted \/ SendPause \/ SetupInputs
  <2>1. \E step \in Steps : \E next \in Steps \cup {"ready"} : \E how \in SUBSET {"fails", "throws"} :
           At(step) /\ (Answered(next) \/ Refuse(how))
    BY <1>7 DEF NegotiateProtocolVersion, QueryURControlVersion, SetupOutputs,
                IsRobotBooted, SendPause, SetupInputs, Steps
  <2> QED
    BY <1>6, <2>1
<1>8. CASE Close
  <2>1. setup.at = "close" /\ SetUp("quiet") /\ UNCHANGED <<client, mutex, bg, user>>
    BY <1>8 DEF Close
  <2>2. link' \in Link /\ link'.conn = link.conn
    BY <1>0, <1>8 DEF Close, Link, SocketState
  <2>3. setup' \in SetUpBy /\ setup'.by = setup.by /\ setup'.at = "quiet"
    BY <1>0, <2>1, Moves DEF SetupPlaces
  <2>4. SetupInTurn'
    BY <1>0, <2>1, <2>3 DEF SetupInTurn
  <2> QED
    BY <1>0, <2>1, <2>2, <2>3, <2>4, SetupKeeps DEF Steps
<1>9. CASE Quiet
  <2>1. setup.at = "quiet" /\ SetUp("join") /\ UNCHANGED <<link, mutex>>
    BY <1>9 DEF Quiet
  <2>2. setup' \in SetUpBy /\ setup'.by = setup.by /\ setup'.at = "join"
    BY <1>0, <2>1, Moves DEF SetupPlaces
  <2>3. client' \in Client /\ user' \in Caller
    BY <1>0, <1>9 DEF Quiet, Client, ClientState, Caller
  <2>4. bg' \in BackgroundRead /\ \E r \in BOOLEAN : bg' = [bg EXCEPT !.run = r]
    BY <1>0, <1>9 DEF Quiet, BackgroundRead
  <2>5. /\ bg'.at = bg.at /\ bg'.new = bg.new /\ bg'.buf0 = bg.buf0 /\ bg'.buf1 = bg.buf1
    BY <1>0, <2>4 DEF BackgroundRead
  <2>6. ThreadsTypeOK'
    BY <1>0, <2>1, <2>2, <2>3, <2>4, <2>5 DEF ThreadsTypeOK, RtdeTypeOK
  <2>7. MutexHeld' /\ SetupInTurn' /\ NobodyReads'
    BY <1>0, <2>1, <2>2, <2>5 DEF MutexHeld, SetupInTurn, NobodyReads, Steps
  <2>8. NewIsOfThisConnection'
    BY <1>0, <2>1, <2>5 DEF NewIsOfThisConnection
  <2> QED
    BY <2>6, <2>7, <2>8 DEF ThreadsInv
<1>10. CASE Joined
  <2>1. setup.at = "join" /\ bg.at = "none" /\ UNCHANGED <<link, bg, user>>
    BY <1>10 DEF Joined
  <2>2. CASE (SetUp("connect") \/ (setup.by = "init" /\ SetUp("failed"))) /\ UNCHANGED <<client, mutex>>
    <3>1. /\ setup' \in SetUpBy /\ setup'.by = setup.by /\ setup'.at \in {"connect", "failed"}
      BY <1>0, <2>2, Moves DEF SetupPlaces
    <3>2. SetupInTurn'
      BY <1>0, <2>1, <3>1 DEF SetupInTurn
    <3> QED
      BY <1>0, <2>1, <2>2, <3>1, <3>2, SetupKeeps
  <2>3. CASE setup.by # "init" /\ SetUp("idle") /\ mutex' = "none" /\ client' = GivesUp(client)
    <3>1. setup' \in SetUpBy /\ setup'.by = setup.by /\ setup'.at = "idle" /\ client' \in Client
      BY <1>0, <2>3, Moves DEF SetupPlaces, GivesUp, Client
    <3>2. ThreadsTypeOK'
      BY <1>0, <2>1, <2>3, <3>1 DEF ThreadsTypeOK, RtdeTypeOK
    <3>3. MutexHeld' /\ SetupInTurn' /\ NobodyReads' /\ NewIsOfThisConnection'
      BY <1>0, <2>1, <2>3, <3>1 DEF MutexHeld, SetupInTurn, NobodyReads, NewIsOfThisConnection
    <3> QED
      BY <3>2, <3>3 DEF ThreadsInv
  <2> QED
    BY <1>10, <2>2, <2>3 DEF Joined
<1>11. CASE InitDone
  <2>1. setup.by = "init" /\ setup.at = "ready" /\ UNCHANGED <<link, mutex, bg, user>>
    BY <1>11 DEF InitDone
  <2>2. client' \in Client /\ setup' \in SetUpBy /\ setup'.by = "start" /\ setup'.at = "start"
    BY <1>0, <1>11 DEF InitDone, Client, ClientState, SetUpBy, SetupPlaces
  <2>3. ThreadsTypeOK'
    BY <1>0, <2>1, <2>2 DEF ThreadsTypeOK, RtdeTypeOK
  <2>4. MutexHeld' /\ SetupInTurn' /\ NobodyReads' /\ NewIsOfThisConnection'
    BY <1>0, <2>1, <2>2 DEF MutexHeld, SetupInTurn, NobodyReads, NewIsOfThisConnection
  <2> QED
    BY <2>3, <2>4 DEF ThreadsInv
<1>12. CASE ReconnectLocks
  <2>1. /\ setup.at = "lock" /\ mutex = "none" /\ mutex' = "reconnect" /\ UNCHANGED <<link, bg, user>>
        /\ client' = [client EXCEPT !.state = "connection_lost"]
        /\ setup' = [setup EXCEPT !.at = "close", !.wasbg = bg.run]
    BY <1>12 DEF ReconnectLocks
  <2>2. client' \in Client /\ setup' \in SetUpBy /\ setup'.by = setup.by /\ setup'.at = "close"
    BY <1>0, <2>1 DEF Client, ClientState, SetUpBy, SetupPlaces, BackgroundRead
  <2>3. ThreadsTypeOK'
    BY <1>0, <2>1, <2>2 DEF ThreadsTypeOK, RtdeTypeOK
  <2>4. MutexHeld' /\ SetupInTurn' /\ NobodyReads' /\ NewIsOfThisConnection'
    BY <1>0, <2>1, <2>2 DEF MutexHeld, SetupInTurn, NobodyReads, NewIsOfThisConnection, Steps
  <2> QED
    BY <2>3, <2>4 DEF ThreadsInv
<1>13. CASE ReconnectReady
  <2>1. /\ setup.by = "reconnect" /\ setup.at = "ready" /\ SetUp("start")
        /\ UNCHANGED <<link, client, mutex, bg, user>>
    BY <1>13 DEF ReconnectReady
  <2>2. setup' \in SetUpBy /\ setup'.by = "reconnect" /\ setup'.at = "start"
    BY <1>0, <2>1, Moves DEF SetupPlaces
  <2>3. SetupInTurn' /\ bg.at = "none"
    BY <1>0, <2>1, <2>2 DEF SetupInTurn, NobodyReads
  <2> QED
    BY <1>0, <2>1, <2>2, <2>3, SetupKeeps
<1>b. ASSUME setup.at = "start", SetUp("idle"), UNCHANGED user, link' \in Link, link'.conn = link.conn,
             client' \in Client, bg' \in BackgroundRead,
             mutex' = IF setup.by = "reconnect" THEN "none" ELSE mutex,
             bg' = bg \/ bg' = BackgroundStarted(bg)
      PROVE  ThreadsInv'
  <2>1. bg.at = "none" /\ ~bg.new /\ mutex # "background" /\ setup.by # "init"
    BY <1>0, <1>b DEF NobodyReads, NewIsOfThisConnection, MutexHeld, SetupInTurn
  <2>2. setup' \in SetUpBy /\ setup'.by = setup.by /\ setup'.at = "idle"
    BY <1>0, <1>b, Moves DEF SetupPlaces
  <2>3. /\ bg'.at \in {"none", "loop"} /\ ~bg'.new /\ bg'.buf0 <= link.conn /\ bg'.buf1 <= link.conn
    <3>1. CASE bg' = bg
      BY <1>0, <2>1, <3>1
    <3>2. CASE bg' = BackgroundStarted(bg)
      BY <1>0, <2>1, <3>2 DEF BackgroundStarted, BackgroundRead, Link
    <3> QED
      BY <1>b, <3>1, <3>2
  <2>4. mutex' \in {"none", "reconnect"}
    BY <1>0, <1>b, <2>1
  <2>5. ThreadsTypeOK'
    BY <1>0, <1>b, <2>2, <2>3, <2>4 DEF ThreadsTypeOK, RtdeTypeOK
  <2>6. MutexHeld' /\ SetupInTurn' /\ NobodyReads' /\ NewIsOfThisConnection'
    BY <1>0, <2>1, <2>2, <2>3, <2>4
    DEF MutexHeld, SetupInTurn, NobodyReads, NewIsOfThisConnection, Steps
  <2> QED
    BY <2>5, <2>6 DEF ThreadsInv
<1>14. CASE Start
  <2>1. /\ setup.at = "start" /\ SetUp("idle") /\ UNCHANGED <<link, user>>
        /\ client' = [client EXCEPT !.state = "running", !.reconnecting = FALSE]
        /\ mutex' = IF setup.by = "reconnect" THEN "none" ELSE mutex
        /\ bg' = bg \/ bg' = BackgroundStarted(bg)
    BY <1>0, <1>14 DEF Start, StartEnds, Client
  <2>2. client' \in Client
    BY <1>0, <2>1 DEF Client, ClientState
  <2>3. BackgroundStarted(bg) \in BackgroundRead
    BY <1>0 DEF BackgroundStarted, BackgroundRead
  <2> QED
    BY <1>0, <1>b, <2>1, <2>2, <2>3
<1>15. CASE StartRefused
  <2>1. setup.at = "start" /\ link' \in Link /\ link'.conn = link.conn /\ UNCHANGED <<bg, user>>
    BY <1>0, <1>15, RtdeClientAssumption DEF StartRefused, Link
  <2>2. CASE StartEnds(client)
    <3>1. /\ client' \in Client /\ SetUp("idle")
          /\ mutex' = IF setup.by = "reconnect" THEN "none" ELSE mutex
      BY <1>0, <2>2 DEF StartEnds, Client
    <3> QED
      BY <1>0, <1>b, <2>1, <3>1
  <2>3. CASE SetUp("crashed") /\ UNCHANGED <<client, mutex>>
    <3>1. setup' \in SetUpBy /\ setup'.by = setup.by /\ setup'.at = "crashed"
      BY <1>0, <2>3, Moves DEF SetupPlaces
    <3>2. SetupInTurn'
      BY <1>0, <2>1, <3>1 DEF SetupInTurn
    <3> QED
      BY <1>0, <2>1, <2>3, <3>1, <3>2, SetupKeeps DEF Steps
  <2> QED
    BY <1>15, <2>2, <2>3 DEF StartRefused
<1>16. CASE StartLost
  <2>1. setup.at = "start" /\ link' \in Link /\ link'.conn = link.conn /\ UNCHANGED <<bg, user>>
    BY <1>0, <1>16 DEF StartLost, Link, SocketState
  <2>2. CASE StartEnds(client)
    <3>1. /\ client' \in Client /\ SetUp("idle")
          /\ mutex' = IF setup.by = "reconnect" THEN "none" ELSE mutex
      BY <1>0, <2>2 DEF StartEnds, Client
    <3> QED
      BY <1>0, <1>b, <2>1, <3>1
  <2>3. CASE client' = Woken(client, setup).c /\ setup' = Woken(client, setup).s /\ UNCHANGED mutex
    <3>1. client' \in Client /\ setup' \in SetUpBy
          /\ (setup' = setup \/ (setup'.by = "reconnect" /\ setup'.at = "lock"))
      BY <1>0, <2>3, WokenMoves
    <3>2. SetupInTurn' /\ bg.at = "none"
      BY <1>0, <2>1, <3>1 DEF SetupInTurn, NobodyReads
    <3> QED
      BY <1>0, <2>1, <2>3, <3>1, <3>2, SetupKeeps
  <2>4. CASE SetUp("hangs") /\ UNCHANGED <<client, mutex>>
    <3>1. setup' \in SetUpBy /\ setup'.by = setup.by /\ setup'.at = "hangs"
      BY <1>0, <2>4, Moves DEF SetupPlaces
    <3>2. SetupInTurn'
      BY <1>0, <1>16, <2>1, <2>4, <3>1 DEF SetupInTurn
    <3> QED
      BY <1>0, <2>1, <2>4, <3>1, <3>2, SetupKeeps DEF Steps
  <2>5. \/ StartEnds(client)
        \/ SetUp("hangs") /\ UNCHANGED <<client, mutex>>
        \/ client' = Woken(client, setup).c /\ setup' = Woken(client, setup).s /\ UNCHANGED mutex
    BY <1>16, StartLostEnds
  <2> QED
    BY <2>2, <2>3, <2>4, <2>5
<1>c. ASSUME UNCHANGED <<link, client, setup>>, user' \in Caller, bg' \in BackgroundRead,
             bg'.buf0 <= link.conn, bg'.buf1 <= link.conn, mutex' \in {"none", "reconnect", "background"},
             MutexHeld', NobodyReads', NewIsOfThisConnection'
      PROVE  ThreadsInv'
  BY <1>0, <1>c DEF ThreadsInv, ThreadsTypeOK, RtdeTypeOK, SetupInTurn
<1>17. CASE BgTurn
  <2>1. bg.at = "loop" /\ UNCHANGED <<link, client, setup, user>>
    BY <1>17 DEF BgTurn
  <2>2. CASE bg' = BgExit(bg) /\ UNCHANGED mutex
    <3>1. bg' \in BackgroundRead /\ bg'.at = "none" /\ ~bg'.new /\ bg'.buf0 = bg.buf0 /\ bg'.buf1 = bg.buf1
      BY <1>0, <2>2 DEF BgExit, BackgroundRead
    <3>2. MutexHeld' /\ NobodyReads' /\ NewIsOfThisConnection'
      BY <1>0, <2>1, <2>2, <3>1 DEF MutexHeld, NobodyReads, NewIsOfThisConnection
    <3> QED
      BY <1>0, <1>c, <2>1, <2>2, <3>1, <3>2
  <2>3. CASE mutex = "none" /\ bg' = [bg EXCEPT !.at = "reads"] /\ mutex' = "background"
    <3>1. /\ bg' \in BackgroundRead /\ bg'.at = "reads" /\ bg'.new = bg.new
          /\ bg'.buf0 = bg.buf0 /\ bg'.buf1 = bg.buf1
      BY <1>0, <2>3 DEF BackgroundRead
    <3>2. MutexHeld' /\ NobodyReads' /\ NewIsOfThisConnection'
      BY <1>0, <2>1, <2>3, <3>1 DEF MutexHeld, NobodyReads, NewIsOfThisConnection
    <3> QED
      BY <1>0, <1>c, <2>1, <2>3, <3>1, <3>2
  <2> QED
    BY <1>17, <2>2, <2>3 DEF BgTurn, MayRead
<1>18. CASE BgReads
  <2>1. bg.at = "reads" /\ mutex = "background" /\ mutex' = "none" /\ UNCHANGED user
    BY <1>0, <1>18 DEF BgReads, MutexHeld
  <2>2. /\ setup.by # "init" /\ setup.at \notin Steps \cup {"connect", "ready", "start"}
        /\ setup.by = "reconnect" => setup.at \in {"lock", "idle"}
    BY <1>0, <2>1 DEF NobodyReads, MutexHeld
  <2>3. CASE /\ bg' = [bg EXCEPT !.at = "swaps", !.buf1 = link.conn]
             /\ UNCHANGED <<link, client, setup>>
    <3>1. /\ bg' \in BackgroundRead /\ bg'.at = "swaps" /\ bg'.new = bg.new
          /\ bg'.buf0 = bg.buf0 /\ bg'.buf1 = link.conn /\ link.conn \in Nat
      BY <1>0, <2>3 DEF BackgroundRead, Link
    <3>2. MutexHeld' /\ NobodyReads' /\ NewIsOfThisConnection'
      BY <1>0, <2>1, <2>2, <2>3, <3>1 DEF MutexHeld, NobodyReads, NewIsOfThisConnection
    <3> QED
      BY <1>0, <1>c, <2>1, <2>3, <3>1, <3>2
  <2>4. CASE /\ bg' = [bg EXCEPT !.at = "loop"]
             /\ \/ client' = Woken(client, setup).c /\ setup' = Woken(client, setup).s
                \/ UNCHANGED <<client, setup>>
             /\ link' = link \/ link' = [link EXCEPT !.sock = "disconnected"]
    <3>1. /\ bg' \in BackgroundRead /\ bg'.at = "loop" /\ bg'.new = bg.new
          /\ bg'.buf0 = bg.buf0 /\ bg'.buf1 = bg.buf1
      BY <1>0, <2>4 DEF BackgroundRead
    <3>2. link' \in Link /\ link'.conn = link.conn
      BY <1>0, <2>4 DEF Link, SocketState
    <3>3. /\ client' \in Client /\ setup' \in SetUpBy
          /\ setup' = setup \/ (setup'.by = "reconnect" /\ setup'.at = "lock")
      BY <1>0, <2>4, WokenMoves
    <3>4. ThreadsTypeOK'
      BY <1>0, <2>1, <3>1, <3>2, <3>3 DEF ThreadsTypeOK, RtdeTypeOK
    <3>5. MutexHeld' /\ NobodyReads' /\ SetupInTurn'
      BY <1>0, <2>1, <2>2, <3>1, <3>3 DEF MutexHeld, NobodyReads, SetupInTurn, Steps
    <3>6. NewIsOfThisConnection'
      BY <1>0, <2>1, <3>1, <3>2 DEF NewIsOfThisConnection
    <3> QED
      BY <3>4, <3>5, <3>6 DEF ThreadsInv
  <2> QED
    BY <1>18, <2>3, <2>4, Zenon DEF BgReads
<1>h. CASE BgHangs
  <2>1. /\ bg.at = "reads" /\ UNCHANGED <<client, setup, mutex, user>>
        /\ link' = [link EXCEPT !.sock = "disconnected"] /\ bg' = [bg EXCEPT !.at = "hangs"]
    BY <1>h DEF BgHangs
  <2>2. link' \in Link /\ link'.conn = link.conn
    BY <1>0, <2>1 DEF Link, SocketState
  <2>3. /\ bg' \in BackgroundRead /\ bg'.at = "hangs" /\ bg'.new = bg.new
        /\ bg'.buf0 = bg.buf0 /\ bg'.buf1 = bg.buf1
    BY <1>0, <2>1 DEF BackgroundRead
  <2>4. ThreadsTypeOK'
    BY <1>0, <2>1, <2>2, <2>3 DEF ThreadsTypeOK, RtdeTypeOK
  <2>5. MutexHeld' /\ NobodyReads' /\ SetupInTurn' /\ NewIsOfThisConnection'
    BY <1>0, <2>1, <2>2, <2>3 DEF MutexHeld, NobodyReads, SetupInTurn, NewIsOfThisConnection
  <2> QED
    BY <2>4, <2>5 DEF ThreadsInv
<1>19. CASE BgSwaps \/ BgTells
  <2>1. /\ bg.at \in {"swaps", "tells"} /\ UNCHANGED <<link, client, setup, mutex>>
    BY <1>19 DEF BgSwaps, BgTells
  <2>2. user' \in Caller
    BY <1>0, <1>19 DEF BgSwaps, BgTells, Caller
  <2>3. CASE BgSwaps
    <3>1. /\ bg' \in BackgroundRead /\ bg'.at = "tells" /\ bg'.new = bg.new
          /\ bg'.buf0 = bg.buf1 /\ bg'.buf1 = bg.buf0 /\ bg.at = "swaps"
      BY <1>0, <2>3 DEF BackgroundRead, BgSwaps
    <3>2. MutexHeld' /\ NobodyReads' /\ NewIsOfThisConnection'
      BY <1>0, <2>1, <3>1 DEF MutexHeld, NobodyReads, NewIsOfThisConnection
    <3> QED
      BY <1>0, <1>c, <2>1, <2>2, <3>1, <3>2
  <2>4. CASE BgTells
    <3>1. /\ bg' \in BackgroundRead /\ bg'.at = "loop" /\ bg'.new
          /\ bg'.buf0 = bg.buf0 /\ bg'.buf1 = bg.buf1 /\ bg.at = "tells"
      BY <1>0, <2>4 DEF BackgroundRead, BgTells
    <3>2. MutexHeld' /\ NobodyReads' /\ NewIsOfThisConnection'
      BY <1>0, <2>1, <3>1 DEF MutexHeld, NobodyReads, NewIsOfThisConnection
    <3> QED
      BY <1>0, <1>c, <2>1, <2>2, <3>1, <3>2
  <2> QED
    BY <1>19, <2>3, <2>4
<1>20. CASE GetDataPackage \/ NothingNew
  <2>1. UNCHANGED <<link, client, setup, mutex, bg>>
    BY <1>20 DEF GetDataPackage, NothingNew
  <2>2. user' \in Caller
    <3>1. ASSUME NEW ok \in BOOLEAN, Finish(ok, 0) PROVE user' \in Caller
      BY <1>0, <3>1 DEF Finish, Caller
    <3>2. ASSUME NEW at \in {"copies", "waits"},
                 user' = [at |-> at, got |-> 0, ok |-> FALSE, began |-> link.conn]
          PROVE  user' \in Caller
      BY <1>0, <3>2 DEF Caller, Link
    <3> QED
      BY <1>20, <3>1, <3>2 DEF GetDataPackage, NothingNew
  <2>3. MutexHeld' /\ NobodyReads' /\ NewIsOfThisConnection'
    BY <1>0, <2>1 DEF MutexHeld, NobodyReads, NewIsOfThisConnection
  <2> QED
    BY <1>0, <1>c, <2>1, <2>2, <2>3
<1>21. CASE Copies
  <2>1. /\ UNCHANGED <<link, client, setup, mutex>> /\ bg' = [bg EXCEPT !.new = FALSE]
        /\ user' = [user EXCEPT !.at = "idle", !.ok = TRUE, !.got = bg.buf0]
    BY <1>21 DEF Copies, Finish
  <2>2. /\ bg' \in BackgroundRead /\ user' \in Caller /\ bg'.at = bg.at /\ ~bg'.new
        /\ bg'.buf0 = bg.buf0 /\ bg'.buf1 = bg.buf1
    BY <1>0, <2>1 DEF BackgroundRead, Caller
  <2>3. MutexHeld' /\ NobodyReads' /\ NewIsOfThisConnection'
    BY <1>0, <2>1, <2>2 DEF MutexHeld, NobodyReads, NewIsOfThisConnection
  <2> QED
    BY <1>0, <1>c, <2>1, <2>2, <2>3
<1>22. CASE WriterThread \/ Application
  <2>1. UNCHANGED <<link, client, setup, mutex, bg, user>>
    BY <1>22 DEF WriterThread, Application, rtde
  <2> QED
    BY <1>0, <1>a, <2>1
<1> QED
  BY <1>1, <1>2, <1>3, <1>4, <1>5, <1>7, <1>8, <1>9, <1>10, <1>11, <1>12, <1>13, <1>14, <1>15, <1>16,
     <1>17, <1>18, <1>h, <1>19, <1>20, <1>21, <1>22
  DEF Next, Setup, Background, Reader

-----------------------------------------------------------------------------
(* The commands of the application, and the package on its way.            *)
LEMMA LastGivenIs == ASSUME GivenInOrder PROVE LastGiven \in 0..Commands /\ Newest(LastGiven)
<1>1. LastGiven = CHOOSE n \in 0..Commands : Newest(n)
  BY DEF LastGiven, Newest
<1> QED
  BY <1>1 DEF GivenInOrder

\* What a step of the application or of the writer keeps of the packages, when the
\* threads' places are in turn.
LEMMA OrderKept ==
  ASSUME GivenInOrder, UNCHANGED <<given, applied>>,
         writer'.store = writer.store, writer'.send = writer.send
  PROVE  GivenInOrder'
  BY DEF GivenInOrder, InOrder, Newest

\* A package has a command for each field, or none.
LEMMA PackageFields ==
  ASSUME writer \in Writer, given \in Packages, applied \in Packages, NEW f \in Fields
  PROVE  /\ writer.store[f] \in 0..Commands /\ writer.send[f] \in 0..Commands
         /\ given[f] \in 0..Commands /\ applied[f] \in 0..Commands
  BY DEF Writer, Packages

LEMMA SendFieldOrder ==
  ASSUME ThreadsInv, WriterInv, NEW g \in Fields, SendField(g)
  PROVE  /\ writer' \in Writer /\ given' \in Packages /\ applied' \in Packages
         /\ GivenInOrder' /\ writer'.send = writer.send /\ writer'.at = writer.at
<1>1. PICK n \in 1..Commands :
         /\ n = LastGiven + 1
         /\ writer \in Writer /\ given \in Packages /\ applied \in Packages /\ GivenInOrder
         /\ \A f \in Fields : given[f] < n
  <2>1. writer \in Writer /\ given \in Packages /\ applied \in Packages /\ GivenInOrder
    BY DEF ThreadsInv, ThreadsTypeOK, RtdeTypeOK, WriterInv
  <2>2. LastGiven \in 0..Commands /\ \A f \in Fields : given[f] <= LastGiven
    BY <2>1, LastGivenIs DEF Newest
  <2>3. LastGiven < Commands /\ \A f \in Fields : given[f] \in Nat
    BY <2>1 DEF SendField, Packages
  <2> QED
    BY <2>1, <2>2, <2>3, WriterAssumption
<1>2. /\ writer' = [writer EXCEPT !.store[g] = n, !.new = TRUE]
      /\ given' = [given EXCEPT ![g] = n] /\ applied' = applied
  BY <1>1 DEF SendField
<1>3. /\ writer' \in Writer /\ writer'.send = writer.send /\ writer'.at = writer.at
      /\ writer'.store = [writer.store EXCEPT ![g] = n]
  <2> DEFINE P == [writer.store EXCEPT ![g] = n]
  <2>1. P \in Packages
    BY <1>1 DEF Writer, Packages
  <2> HIDE DEF P
  <2>2. writer' = [writer EXCEPT !.store = P, !.new = TRUE]
    BY <1>2 DEF P
  <2>3. writer' \in Writer /\ writer'.send = writer.send /\ writer'.at = writer.at /\ writer'.store = P
    BY <1>1, <2>1, <2>2 DEF Writer
  <2> QED
    BY <2>3 DEF P
<1>4. given' \in Packages /\ applied' \in Packages
  BY <1>1, <1>2 DEF Packages
<1>5. ASSUME NEW f \in Fields PROVE InOrder(f)'
  <2>1. InOrder(f)
    BY <1>1 DEF GivenInOrder
  <2>2. /\ writer.store[f] \in 0..Commands /\ writer.send[f] \in 0..Commands
        /\ given[f] \in 0..Commands /\ applied[f] \in 0..Commands
    BY <1>1, PackageFields
  <2>3. /\ writer'.store[f] = IF f = g THEN n ELSE writer.store[f]
        /\ given'[f] = IF f = g THEN n ELSE given[f]
    BY <1>1, <1>2, <1>3 DEF Writer, Packages
  <2>4. given[f] < n
    BY <1>1
  <2> QED
    BY <1>1, <1>2, <1>3, <2>1, <2>2, <2>3, <2>4 DEF InOrder
<1>6. Newest(n)'
  <2>1. given'[g] = n /\ \A f \in Fields : given'[f] <= n
    BY <1>1, <1>2 DEF Packages
  <2> QED
    BY <2>1 DEF Newest
<1>7. GivenInOrder'
  BY <1>1, <1>5, <1>6 DEF GivenInOrder, Newest
<1> QED
  BY <1>3, <1>4, <1>7

LEMMA SendPackageOrder ==
  ASSUME ThreadsInv, WriterInv, NEW masked \in (SUBSET Fields) \ {{}}, SendPackage(masked)
  PROVE  /\ writer' \in Writer /\ given' \in Packages /\ applied' \in Packages
         /\ GivenInOrder' /\ writer'.send = writer.send /\ writer'.at = writer.at
<1>1. PICK n \in 1..Commands :
         /\ n = LastGiven + 1
         /\ writer \in Writer /\ given \in Packages /\ applied \in Packages /\ GivenInOrder
         /\ \A f \in Fields : given[f] < n
  <2>1. writer \in Writer /\ given \in Packages /\ applied \in Packages /\ GivenInOrder
    BY DEF ThreadsInv, ThreadsTypeOK, RtdeTypeOK, WriterInv
  <2>2. LastGiven \in 0..Commands /\ \A f \in Fields : given[f] <= LastGiven
    BY <2>1, LastGivenIs DEF Newest
  <2>3. LastGiven < Commands /\ \A f \in Fields : given[f] \in Nat
    BY <2>1 DEF SendPackage, Packages
  <2> QED
    BY <2>1, <2>2, <2>3, WriterAssumption
<1>2. /\ writer' = [writer EXCEPT !.store = [f \in Fields |-> IF f \in masked THEN n ELSE 0], !.new = TRUE]
      /\ given' = [f \in Fields |-> IF f \in masked THEN n ELSE given[f]] /\ applied' = applied
  BY <1>1 DEF SendPackage
<1>3. [f \in Fields |-> IF f \in masked THEN n ELSE 0] \in Packages
  BY <1>1, WriterAssumption DEF Packages
<1>4. /\ writer' \in Writer /\ writer'.send = writer.send /\ writer'.at = writer.at
      /\ writer'.store = [f \in Fields |-> IF f \in masked THEN n ELSE 0]
  BY <1>1, <1>2, <1>3 DEF Writer
<1>5. given' \in Packages /\ applied' \in Packages
  BY <1>1, <1>2 DEF Packages
<1>6. ASSUME NEW f \in Fields PROVE InOrder(f)'
  <2>1. InOrder(f)
    BY <1>1 DEF GivenInOrder
  <2>2. /\ writer.store[f] \in 0..Commands /\ writer.send[f] \in 0..Commands
        /\ given[f] \in 0..Commands /\ applied[f] \in 0..Commands
    BY <1>1, PackageFields
  <2>3. /\ writer'.store[f] = IF f \in masked THEN n ELSE 0
        /\ given'[f] = IF f \in masked THEN n ELSE given[f]
    BY <1>2, <1>4
  <2>4. given[f] < n
    BY <1>1
  <2> QED
    BY <1>1, <1>2, <1>4, <2>1, <2>2, <2>3, <2>4 DEF InOrder
<1>7. Newest(n)'
  <2>1. PICK g \in masked : g \in Fields
    BY Zenon
  <2>2. given'[g] = n /\ \A f \in Fields : given'[f] <= n
    BY <1>1, <1>2, <2>1 DEF Packages
  <2> QED
    BY <2>1, <2>2 DEF Newest
<1>8. GivenInOrder'
  BY <1>1, <1>6, <1>7 DEF GivenInOrder, Newest
<1> QED
  BY <1>4, <1>5, <1>8

LEMMA WriterSteps ==
  ASSUME ThreadsInv, WriterInv, WriterSwaps \/ WriterSends(Arrives) \/ WriterEnds
  PROVE  /\ writer' \in Writer /\ given' \in Packages /\ applied' \in Packages
         /\ GivenInOrder'
         /\ writer'.at # "send" => writer'.send = Clear
         /\ writer.at # "none"
<1>0. /\ writer \in Writer /\ given \in Packages /\ applied \in Packages /\ GivenInOrder
      /\ writer.at # "send" => writer.send = Clear
  BY DEF ThreadsInv, ThreadsTypeOK, RtdeTypeOK, WriterInv, WriterInTurn
<1>1. CASE WriterSwaps
  <2>1. /\ writer.at = "wait" /\ UNCHANGED <<given, applied>>
        /\ writer' = [writer EXCEPT !.store = writer.send, !.send = writer.store, !.new = FALSE, !.at = "send"]
    BY <1>1 DEF WriterSwaps, Swap
  <2>2. /\ writer' \in Writer /\ writer'.at = "send"
        /\ writer'.store = writer.send /\ writer'.send = writer.store
    BY <1>0, <2>1 DEF Writer
  <2>3. ASSUME NEW f \in Fields PROVE InOrder(f)'
    <3>1. InOrder(f) /\ writer'.store[f] = 0
      BY <1>0, <2>1, <2>2 DEF GivenInOrder, Clear
    <3>2. /\ writer.store[f] \in 0..Commands /\ writer.send[f] \in 0..Commands
          /\ given[f] \in 0..Commands /\ applied[f] \in 0..Commands
      BY <1>0, PackageFields
    <3> QED
      BY <2>1, <2>2, <3>1, <3>2 DEF InOrder
  <2>4. GivenInOrder'
    BY <1>0, <2>1, <2>3 DEF GivenInOrder, Newest
  <2> QED
    BY <1>0, <2>1, <2>2, <2>4
<1>2. CASE WriterSends(Arrives)
  <2>1. /\ writer.at = "send" /\ given' = given
        /\ writer' = [writer EXCEPT !.send = Clear, !.at = "wait"]
        /\ \/ applied' = [f \in Fields |-> IF writer.send[f] # 0 THEN writer.send[f] ELSE applied[f]]
           \/ applied' = applied
    BY <1>2 DEF WriterSends, Sent
  <2>2. Clear \in Packages
    BY WriterAssumption DEF Clear, Packages
  <2>3. /\ writer' \in Writer /\ writer'.at = "wait"
        /\ writer'.store = writer.store /\ writer'.send = Clear
    BY <1>0, <2>1, <2>2 DEF Writer
  <2>4. ASSUME NEW f \in Fields
        PROVE  /\ applied'[f] = applied[f] \/ (writer.send[f] # 0 /\ applied'[f] = writer.send[f])
               /\ applied'[f] \in 0..Commands
    BY <1>0, <2>1, PackageFields
  <2>5. applied' \in Packages
    <3>1. CASE applied' = applied
      BY <1>0, <3>1
    <3>2. CASE applied' = [f \in Fields |-> IF writer.send[f] # 0 THEN writer.send[f] ELSE applied[f]]
      BY <2>4, <3>2 DEF Packages
    <3> QED
      BY <2>1, <3>1, <3>2
  <2>6. ASSUME NEW f \in Fields PROVE InOrder(f)'
    <3>1. InOrder(f) /\ writer'.send[f] = 0
      BY <1>0, <2>3 DEF GivenInOrder, Clear
    <3>2. /\ writer.store[f] \in 0..Commands /\ writer.send[f] \in 0..Commands
          /\ given[f] \in 0..Commands /\ applied[f] \in 0..Commands
      BY <1>0, PackageFields
    <3> QED
      BY <2>1, <2>3, <2>4, <3>1, <3>2 DEF InOrder
  <2>7. GivenInOrder'
    BY <1>0, <2>1, <2>6 DEF GivenInOrder, Newest
  <2> QED
    BY <1>0, <2>1, <2>3, <2>5, <2>7
<1>3. CASE WriterEnds
  <2>1. /\ writer.at = "wait" /\ UNCHANGED <<given, applied>> /\ writer' = [writer EXCEPT !.at = "none"]
    BY <1>3 DEF WriterEnds
  <2>2. /\ writer' \in Writer /\ writer'.at = "none"
        /\ writer'.store = writer.store /\ writer'.send = writer.send
    BY <1>0, <2>1 DEF Writer
  <2> QED
    BY <1>0, <2>1, <2>2, OrderKept
<1> QED
  BY <1>1, <1>2, <1>3

\* Where a step can take the set-up that has anything to do with the writer.
LEMMA SetupAndWriter ==
  ASSUME ThreadsInv, WriterInTurn, Setup
  PROVE  /\ UNCHANGED <<given, applied>>
         /\ \/ writer' = writer
            \/ writer' = Stopped(writer) /\ setup'.at = "quiet"
            \/ writer' = Started(writer) /\ writer.at = "none" /\ setup'.at = "ready"
         /\ setup'.at \in Steps \cup {"connect", "join"} => writer.at = "none"
<1>0. setup \in SetUpBy /\ client \in Client /\ setup.at \in Steps \cup {"connect", "join"} => writer.at = "none"
  BY DEF ThreadsInv, ThreadsTypeOK, RtdeTypeOK, WriterInTurn
<1>q. setup \in SetUpBy /\ client \in Client /\ (setup.at \in Steps \cup {"connect", "join"} => writer.at = "none")
  BY DEF ThreadsInv, ThreadsTypeOK, RtdeTypeOK, WriterInTurn
<1>s. ASSUME NEW p \in SetupPlaces, SetUp(p) PROVE setup'.at = p
  BY <1>q, <1>s, Moves
<1>1. CASE Connect
  <2>1. setup.at = "connect" /\ UNCHANGED <<writer, given, applied>>
    BY <1>1 DEF Connect
  <2> QED
    BY <1>q, <2>1
<1>2. CASE ResetOutputRecipe \/ LostInSetup
  <2>1. setup.at \in Steps /\ UNCHANGED <<writer, given, applied>>
    BY <1>2 DEF ResetOutputRecipe, At, LostInSetup, Steps
  <2> QED
    BY <1>q, <2>1
<1>3. CASE \/ NegotiateProtocolVersion \/ QueryURControlVersion \/ SetupOutputs
           \/ IsRobotBooted \/ SendPause \/ SetupInputs
  <2>1. \E step \in Steps : \E next \in Steps \cup {"ready"} : \E how \in SUBSET {"fails", "throws"} :
           /\ At(step) /\ (Answered(next) \/ Refuse(how)) /\ step = "inputs" => next = "ready"
    BY <1>3 DEF NegotiateProtocolVersion, QueryURControlVersion, SetupOutputs,
                IsRobotBooted, SendPause, SetupInputs, Steps
  <2>2. PICK step \in Steps, next \in Steps \cup {"ready"} : \E how \in SUBSET {"fails", "throws"} :
           At(step) /\ (Answered(next) \/ Refuse(how)) /\ (step = "inputs" => next = "ready")
    BY <1>3 DEF NegotiateProtocolVersion, QueryURControlVersion, SetupOutputs,
                IsRobotBooted, SendPause, SetupInputs, Steps
  <2>3. setup.at = step /\ writer.at = "none" /\ UNCHANGED <<given, applied>>
    BY <1>q, <2>2 DEF At, Answered, Refuse
  <2>4. CASE Answered(next)
    <3>1. setup'.at = next
      BY <1>s, <2>4 DEF Answered, SetupPlaces
    <3>2. writer' = IF step = "inputs" THEN Started(writer) ELSE writer
      BY <2>3, <2>4 DEF Answered
    <3> QED
      BY <2>2, <2>3, <3>1, <3>2
  <2>5. CASE ~Answered(next)
    <3>1. writer' = writer
      BY <2>2, <2>5 DEF Refuse
    <3> QED
      BY <2>3, <3>1
  <2> QED
    BY <2>4, <2>5
<1>4. CASE Close
  <2>1. setup'.at = "quiet" /\ UNCHANGED <<given, applied>> /\ (writer' = writer \/ writer' = Stopped(writer))
    BY <1>4, <1>s DEF Close, SetupPlaces
  <2> QED
    BY <2>1 DEF Steps
<1>5. CASE Quiet
  BY <1>5 DEF Quiet
<1>6. CASE Joined
  <2>1. setup.at = "join" /\ UNCHANGED <<writer, given, applied>>
    BY <1>6 DEF Joined
  <2> QED
    BY <1>q, <2>1
<1>7. CASE InitDone \/ ReconnectLocks \/ ReconnectReady
  <2>1. setup'.at \in {"start", "close"} /\ UNCHANGED <<writer, given, applied>>
    BY <1>7, <1>q, <1>s DEF InitDone, ReconnectLocks, ReconnectReady, SetUpBy, SetupPlaces
  <2> QED
    BY <2>1 DEF Steps
<1>8. CASE Start \/ StartRefused \/ StartLost
  <2>1. UNCHANGED <<writer, given, applied>> /\ setup.at = "start"
    BY <1>8 DEF Start, StartRefused, StartLost
  <2>2. setup'.at \in {"idle", "crashed", "hangs", "start", "lock"}
    <3>1. ASSUME NEW c, StartEnds(c) PROVE setup'.at = "idle"
      BY <1>s, <3>1 DEF StartEnds, SetupPlaces
    <3>2. ASSUME NEW p \in {"crashed", "hangs"}, SetUp(p) PROVE setup'.at = p
      BY <1>s, <3>2 DEF SetupPlaces
    <3>3. ASSUME setup' = Woken(client, setup).s PROVE setup'.at \in {"start", "lock"}
      BY <1>q, <2>1, <3>3, WokenMoves
    <3>4. CASE Start
      BY <3>1, <3>4 DEF Start
    <3>5. CASE StartRefused
      BY <3>1, <3>2, <3>5 DEF StartRefused
    <3>6. CASE StartLost
      BY <3>1, <3>2, <3>3, <3>6, StartLostEnds
    <3> QED
      BY <1>8, <3>4, <3>5, <3>6
  <2> QED
    BY <2>1, <2>2 DEF Steps
<1> QED
  BY <1>1, <1>2, <1>3, <1>4, <1>5, <1>6, <1>7, <1>8 DEF Setup

\* The background thread starts a reconnect or leaves the set-up alone.
LEMMA BackgroundAndSetup ==
  ASSUME ThreadsInv, Background
  PROVE  UNCHANGED <<writer, given, applied>> /\ (setup' = setup \/ setup'.at = "lock")
<1>1. client \in Client /\ setup \in SetUpBy
  BY DEF ThreadsInv, ThreadsTypeOK, RtdeTypeOK
<1>2. setup' = setup \/ setup' = Woken(client, setup).s
  <2>1. CASE BgReads
    BY <2>1, Zenon DEF BgReads
  <2>2. CASE BgTurn \/ BgHangs \/ BgSwaps \/ BgTells
    BY <2>2 DEF BgTurn, BgHangs, BgSwaps, BgTells
  <2> QED
    BY <2>1, <2>2 DEF Background
<1>3. setup' = setup \/ setup'.at = "lock"
  BY <1>1, <1>2, WokenMoves
<1> QED
  BY <1>3 DEF Background

LEMMA NextWriter ==
  ASSUME ThreadsInv, WriterInv, Next
  PROVE  writer' \in Writer /\ given' \in Packages /\ applied' \in Packages /\ WriterInv'
<1>0. writer \in Writer /\ given \in Packages /\ applied \in Packages /\ GivenInOrder /\ WriterInTurn
  BY DEF ThreadsInv, ThreadsTypeOK, RtdeTypeOK, WriterInv
<1>1. CASE Setup
  <2>1. /\ UNCHANGED <<given, applied>>
        /\ \/ writer' = writer
           \/ writer' = Stopped(writer) /\ setup'.at = "quiet"
           \/ writer' = Started(writer) /\ writer.at = "none" /\ setup'.at = "ready"
        /\ setup'.at \in Steps \cup {"connect", "join"} => writer.at = "none"
    BY <1>0, <1>1, SetupAndWriter
  <2>2. /\ writer' \in Writer /\ writer'.store = writer.store /\ writer'.send = writer.send
        /\ writer' = writer \/ writer'.at = writer.at
           \/ (writer'.at = "wait" /\ writer.at = "none" /\ setup'.at = "ready")
    <3>1. LastGiven + 1 \in 1..(Commands + 1)
      BY <1>0, LastGivenIs, WriterAssumption
    <3> QED
      BY <1>0, <2>1, <3>1 DEF Started, Stopped, Writer
  <2>3. GivenInOrder'
    BY <1>0, <2>1, <2>2, OrderKept
  <2>4. WriterInTurn'
    BY <1>0, <2>1, <2>2 DEF WriterInTurn, Steps, Clear
  <2> QED
    BY <1>0, <2>1, <2>2, <2>3, <2>4 DEF WriterInv
<1>2. CASE (Break \/ Restore \/ Reader \/ Background) /\ UNCHANGED <<writer, given, applied>>
  <2>1. setup' = setup \/ setup'.at = "lock"
    BY <1>2, BackgroundAndSetup
    DEF Break, Restore, Reader, GetDataPackage, Copies, NothingNew
  <2>2. WriterInTurn' /\ GivenInOrder'
    BY <1>0, <1>2, <2>1, OrderKept DEF WriterInTurn, Clear, Steps
  <2> QED
    BY <1>0, <1>2, <2>2 DEF WriterInv
<1>3. CASE WriterThread
  <2>1. setup' = setup /\ (WriterSwaps \/ WriterSends(Arrives) \/ WriterEnds)
    BY <1>3 DEF WriterThread, rtde
  <2>2. WriterInTurn'
    BY <1>0, <2>1, WriterSteps DEF WriterInTurn, Clear
  <2> QED
    BY <2>1, <2>2, WriterSteps DEF WriterInv
<1>4. CASE Application
  <2>1. setup' = setup
    BY <1>4 DEF Application, rtde
  <2>2. /\ writer' \in Writer /\ given' \in Packages /\ applied' \in Packages
        /\ GivenInOrder' /\ writer'.send = writer.send /\ writer'.at = writer.at
    BY <1>4, SendFieldOrder, SendPackageOrder DEF Application
  <2>3. WriterInTurn'
    BY <1>0, <2>1, <2>2 DEF WriterInTurn, Clear
  <2> QED
    BY <2>2, <2>3 DEF WriterInv
<1> QED
  BY <1>1, <1>2, <1>3, <1>4 DEF Next, Background, Reader

LEMMA InitRtde == Init => RtdeInv
<1> SUFFICES ASSUME Init PROVE RtdeInv
  OBVIOUS
<1>1. /\ link \in Link /\ client \in Client /\ bg \in BackgroundRead /\ setup \in SetUpBy
      /\ user \in Caller /\ mutex \in {"none", "reconnect", "background"}
      /\ bg.buf0 <= link.conn /\ bg.buf1 <= link.conn
  BY RtdeClientAssumption
  DEF Init, Link, SocketState, Client, ClientState, BackgroundRead, SetUpBy, SetupPlaces, Caller
<1>2. Clear \in Packages /\ \A f \in Fields : Clear[f] = 0
  BY WriterAssumption DEF Clear, Packages
<1>3. writer \in Writer /\ given \in Packages /\ applied \in Packages
  BY <1>2, WriterAssumption DEF Init, RtdeWriterInit, Writer
<1>4. MutexHeld /\ SetupInTurn /\ NobodyReads /\ NewIsOfThisConnection
  BY DEF Init, MutexHeld, SetupInTurn, NobodyReads, NewIsOfThisConnection
<1>5. WriterInTurn
  BY DEF Init, RtdeWriterInit, WriterInTurn
<1>6. Newest(0) /\ \A f \in Fields : InOrder(f)
  BY <1>2, WriterAssumption DEF Init, RtdeWriterInit, Newest, InOrder
<1>7. GivenInOrder
  BY <1>6, WriterAssumption DEF GivenInOrder
<1> QED
  BY <1>1, <1>3, <1>4, <1>5, <1>7 DEF RtdeInv, ThreadsInv, ThreadsTypeOK, RtdeTypeOK, WriterInv

LEMMA NextRtde == RtdeInv /\ [Next]_vars => RtdeInv'
<1>1. ASSUME RtdeInv, Next PROVE RtdeInv'
  <2>1. ThreadsInv /\ WriterInv
    BY <1>1 DEF RtdeInv
  <2>2. writer' \in Writer /\ given' \in Packages /\ applied' \in Packages /\ WriterInv'
    BY <1>1, <2>1, NextWriter
  <2>3. ThreadsInv'
    BY <1>1, <2>1, <2>2, NextThreads
  <2> QED
    BY <2>2, <2>3 DEF RtdeInv
<1>2. ASSUME RtdeInv, UNCHANGED vars PROVE RtdeInv'
  <2>1. UNCHANGED <<link, client, setup, mutex, bg, user, writer, given, applied>>
    BY <1>2 DEF vars, rtde
  <2> QED
    BY <1>2, <2>1
    DEF RtdeInv, ThreadsInv, ThreadsTypeOK, RtdeTypeOK, MutexHeld, SetupInTurn, NobodyReads,
        NewIsOfThisConnection, WriterInv, WriterInTurn, Clear, GivenInOrder, Newest, InOrder
<1> QED
  BY <1>1, <1>2

-----------------------------------------------------------------------------
(* The threads are in each other's places only as their flags and the      *)
(* mutex let them, and a command is never overtaken.                       *)
THEOREM RtdeInvariant == Spec => []RtdeInv
<1> QED
  BY InitRtde, NextRtde, PTL DEF Spec

(* The background thread does not read while the connection is set up,     *)
(* torn down or started again.                                             *)
THEOREM OnlyOneReader == Spec => []OneReader
<1>1. ASSUME RtdeInv PROVE OneReader
  <2>1. ThreadsTypeOK /\ MutexHeld /\ SetupInTurn /\ NobodyReads
    BY <1>1 DEF RtdeInv, ThreadsInv
  <2>2. RtdeTypeOK /\ setup.by \in {"init", "start", "reconnect"}
    BY <2>1 DEF ThreadsTypeOK, SetUpBy
  <2>3. ASSUME bg.at \in {"reads", "hangs"}
        PROVE  setup.at \notin Steps \cup {"start", "close", "quiet", "join"}
    <3>1. setup.by # "init" /\ setup.at \notin Steps \cup {"start"} /\ mutex = "background"
      BY <2>1, <2>3 DEF NobodyReads, MutexHeld
    <3>2. CASE setup.by = "reconnect"
      BY <2>1, <3>1, <3>2 DEF MutexHeld
    <3>3. CASE setup.by = "start"
      BY <2>1, <3>1, <3>3 DEF SetupInTurn
    <3> QED
      BY <2>2, <3>1, <3>2, <3>3
  <2> QED
    BY <2>2, <2>3 DEF OneReader
<1> QED
  BY <1>1, RtdeInvariant, PTL

(* A package that a call copies is one of the connection it ends in.       *)
THEOREM PackagesAreOfThisConnection == Spec => PackageOfThisConnection
<1>1. ASSUME RtdeInv, [Next]_vars PROVE [CopiesOwn]_vars
  <2> SUFFICES ASSUME Next, user.at # "idle", user'.at = "idle", bg.new, user'.ok
               PROVE  user'.got = link.conn
    BY <1>1 DEF CopiesOwn
  <2>0. user \in Caller /\ bg.buf0 = link.conn /\ bg \in BackgroundRead
    BY <1>1 DEF RtdeInv, ThreadsInv, ThreadsTypeOK, RtdeTypeOK, NewIsOfThisConnection
  <2>1. CASE Copies
    BY <2>0, <2>1 DEF Copies, Finish, Caller
  <2>2. CASE NothingNew
    BY <2>0, <2>2 DEF NothingNew, Finish, Caller
  <2>3. CASE GetDataPackage
    BY <2>3 DEF GetDataPackage
  <2>4. CASE Quiet \/ BgTells
    BY <2>0, <2>4 DEF Quiet, BgTells, Caller
  <2>5. CASE user' = user
    BY <2>5
  <2>6. Copies \/ NothingNew \/ GetDataPackage \/ Quiet \/ BgTells \/ user' = user
    <3>1. CASE Setup
      BY <3>1
      DEF Setup, Connect, ResetOutputRecipe, LostInSetup, NegotiateProtocolVersion, QueryURControlVersion,
          SetupOutputs, IsRobotBooted, SendPause, SetupInputs, Answered, Refuse, Close, Joined, InitDone,
          ReconnectLocks, ReconnectReady, Start, StartRefused, StartLost
    <3>2. CASE Break \/ Restore \/ Background \/ Reader
      BY <3>2 DEF Break, Restore, Background, Reader, BgTurn, BgReads, BgHangs, BgSwaps
    <3>3. CASE WriterThread \/ Application
      BY <3>3 DEF WriterThread, Application, rtde
    <3> QED
      BY <3>1, <3>2, <3>3 DEF Next
  <2> QED
    BY <2>1, <2>2, <2>3, <2>4, <2>5, <2>6
<1> QED
  BY <1>1, RtdeInvariant, PTL DEF Spec, PackageOfThisConnection

(* The robot applies the commands for an output in the order they were     *)
(* given.                                                                  *)
THEOREM CommandsAreInOrder == Spec => CommandsInOrder
<1>1. ASSUME RtdeInv, [Next]_vars PROVE [\A f \in Fields : applied'[f] >= applied[f]]_vars
  <2> SUFFICES ASSUME Next, NEW f \in Fields PROVE applied'[f] >= applied[f]
    BY <1>1
  <2>0. /\ ThreadsInv /\ WriterInTurn /\ InOrder(f)
        /\ writer.send[f] \in 0..Commands /\ applied[f] \in 0..Commands
    <3>1. ThreadsInv /\ WriterInTurn /\ GivenInOrder
      BY <1>1 DEF RtdeInv, WriterInv
    <3>2. writer \in Writer /\ given \in Packages /\ applied \in Packages
      BY <3>1 DEF ThreadsInv, ThreadsTypeOK, RtdeTypeOK
    <3> QED
      BY <3>1, <3>2, PackageFields DEF GivenInOrder
  <2>1. CASE applied' = applied
    BY <2>0, <2>1
  <2>2. CASE WriterSends(Arrives)
    BY <2>0, <2>2 DEF WriterSends, InOrder
  <2>3. applied' = applied \/ WriterSends(Arrives)
    <3>1. CASE Setup
      BY <2>0, <3>1, SetupAndWriter
    <3>2. CASE Application \/ WriterThread
      BY <3>2 DEF Application, SendField, SendPackage, WriterThread, WriterSwaps, WriterEnds
    <3> QED
      BY <3>1, <3>2 DEF Next, Background, Reader
  <2> QED
    BY <2>1, <2>2, <2>3
<1> QED
  BY <1>1, RtdeInvariant, PTL DEF Spec, CommandsInOrder

-----------------------------------------------------------------------------
(* The suction gripper: IInv is inductive, and LatestLineDelivered and     *)
(* StateIsLastSent follow.                                                 *)
USE DEF Level, Content, Reply

(* What Serial.println leaves in the host's buffer is a list of replies.   *)
LEMMA PrintType ==
  ASSUME NEW r \in Reply, replies \in Seq(Reply), Println(r)
  PROVE  replies' \in Seq(Reply)
BY DEF Println

(* Executing a text of the firmware moves the valve to the level the text  *)
(* names, or leaves it alone.                                              *)
LEMMA ExecuteEffect ==
  ASSUME NEW c \in Content, valve \in Level, replies \in Seq(Reply), Execute(c)
  PROVE  /\ valve' = IF c \in Level THEN c ELSE valve
         /\ replies' \in Seq(Reply)
BY PrintType DEF Execute, Println

(* A piece added to a partial line gives a partial line.                   *)
LEMMA ExtendType ==
  ASSUME NEW c \in Content, NEW p \in Level \cup {"prefix"}
  PROVE  Extend(c, p) \in Content
BY DEF Extend

(* The printed replies echo no command, so read() leaves state_ alone.     *)
LEMMA RepliesEchoNothing ==
  ASSUME NEW rx \in Seq(Reply), NEW old
  PROVE  ParseRx(old, rx) = old
BY DEF ParseRx, Echoed

-----------------------------------------------------------------------------
LEMMA InitIInv == GripperInit => IInv
<1> SUFFICES ASSUME GripperInit PROVE IInv
  OBVIOUS
<1>1. lines \in Seq(Content) /\ replies \in Seq(Reply)
  BY DEF GripperInit
<1>2. TypeOK
  <2>1. /\ command \in Level /\ state \in Level
        /\ lastSent \in Level \cup {"nan"} /\ sending \in Level \cup {"none"}
        /\ tail \in Content /\ valve \in Level /\ pos \in 0..2
    BY ConstantsAssumption DEF ConstantsAssumption, GripperInit
  <2>2. /\ lifecycle \in {"unconfigured", "inactive", "activating", "active", "finalized"}
        /\ fd \in {"closed", "live", "dead"} /\ board \in {"off", "booting", "running"}
        /\ disturbed \in BOOLEAN
    BY DEF GripperInit
  <2> QED
    BY <1>1, <2>1, <2>2 DEF TypeOK
<1>3. SendingInStep /\ QuietInStep /\ StateIsLastSent
  BY DEF GripperInit, SendingInStep, QuietInStep, StateIsLastSent, Idle
<1> QED
  BY <1>2, <1>3 DEF IInv

(* Facts about an action of the firmware or of the board's surroundings.   *)
LEMMA FirmwareLineIInv == IInv /\ FirmwareLine => IInv'
<1> SUFFICES ASSUME IInv, FirmwareLine PROVE IInv'
  OBVIOUS
<1> USE DEF IInv, FirmwareLine, host
<1>1. /\ Head(lines) \in Content /\ Tail(lines) \in Seq(Content)
      /\ Len(lines') = Len(lines) - 1
      /\ \A i \in 1..Len(lines') : lines'[i] = lines[i + 1]
  BY DEF TypeOK
<1>2. /\ valve' = IF Head(lines) \in Level THEN Head(lines) ELSE valve
      /\ replies' \in Seq(Reply)
  BY <1>1, ExecuteEffect DEF TypeOK
<1>3. TypeOK'
  BY <1>1, <1>2 DEF TypeOK
<1>4. SendingInStep'
  BY DEF SendingInStep, Idle, HandedOver
<1>5. QuietInStep'
  <2> SUFFICES ASSUME Idle, lifecycle # "finalized", lastSent # "nan", ~disturbed
               PROVE  Pending' = lastSent /\ board = "running" /\ tail = "empty"
    BY DEF QuietInStep, Idle
  <2>1. Pending = lastSent /\ lines[Len(lines)] = lastSent
    BY DEF QuietInStep, Pending
  <2>2. CASE lines' = <<>>
    <3>1. Len(lines) \in Nat /\ Len(lines') = Len(lines) - 1
      BY <1>1 DEF TypeOK
    <3>2. Len(lines) = 1
      BY <2>2, <3>1
    <3>3. Head(lines) = lastSent
      BY <3>2, <2>1 DEF TypeOK
    <3> QED
      BY <3>3, <2>2, <1>2 DEF Pending, TypeOK, QuietInStep
  <2>3. CASE lines' # <<>>
    <3>1. Len(lines') \in Nat \ {0}
      BY <2>3, <1>1
    <3>2. lines'[Len(lines')] = lines[Len(lines)]
      BY <3>1, <1>1 DEF TypeOK
    <3> QED
      BY <3>2, <2>3, <2>1 DEF Pending, QuietInStep
  <2> QED
    BY <2>2, <2>3
<1>6. StateIsLastSent'
  BY DEF StateIsLastSent
<1> QED
  BY <1>3, <1>4, <1>5, <1>6

LEMMA FirmwareTimeoutIInv == IInv /\ FirmwareTimeout => IInv'
<1> SUFFICES ASSUME IInv, FirmwareTimeout PROVE IInv'
  OBVIOUS
<1> USE DEF IInv, FirmwareTimeout, host
<1>1. valve' \in Level /\ replies' \in Seq(Reply)
  BY ExecuteEffect DEF TypeOK
<1>2. TypeOK'
  BY <1>1 DEF TypeOK
<1>3. SendingInStep'
  BY DEF SendingInStep, Idle
<1>4. QuietInStep'
  BY DEF QuietInStep, Idle
<1>5. StateIsLastSent'
  BY DEF StateIsLastSent
<1> QED
  BY <1>2, <1>3, <1>4, <1>5

(* A stopped firmware leaves disturbed set, which is all the invariant asks.*)
LEMMA EnvironmentIInv == IInv /\ (BootDone \/ Reset \/ Unplug \/ Plug \/ Restart) => IInv'
<1> SUFFICES ASSUME IInv, BootDone \/ Reset \/ Unplug \/ Plug \/ Restart PROVE IInv'
  OBVIOUS
<1> USE DEF IInv, host, firmware
<1>1. CASE BootDone
  <2>1. replies' \in Seq(Reply)
    BY <1>1, PrintType DEF BootDone, TypeOK
  <2> QED
    BY <1>1, <2>1 DEF BootDone, TypeOK, SendingInStep, QuietInStep, StateIsLastSent,
                      Idle, HandedOver, Pending
<1>2. CASE Reset
  BY <1>2 DEF Reset, StopFirmware, TypeOK, SendingInStep, QuietInStep, StateIsLastSent, Idle
<1>3. CASE Unplug
  BY <1>3 DEF Unplug, StopFirmware, TypeOK, SendingInStep, QuietInStep, StateIsLastSent, Idle
<1>4. CASE Plug
  BY <1>4 DEF Plug, TypeOK, SendingInStep, QuietInStep, StateIsLastSent, Idle
<1>5. CASE Restart
  BY <1>5, ConstantsAssumption
  DEF ConstantsAssumption, Restart, TypeOK, SendingInStep, QuietInStep, StateIsLastSent, Idle
<1> QED
  BY <1>1, <1>2, <1>3, <1>4, <1>5

LEMMA LifecycleIInv == IInv /\ Lifecycle => IInv'
<1> SUFFICES ASSUME IInv, Lifecycle PROVE IInv'
  OBVIOUS
<1> USE DEF IInv, firmware, TypeOK, SendingInStep, QuietInStep, StateIsLastSent,
            Idle, HandedOver, Pending
<1>1. CASE OnConfigure
  <2> <<>> \in Seq(Content) /\ <<>> \in Seq(Reply)
    OBVIOUS
  <2>1. CASE lifecycle' = "finalized" /\ UNCHANGED <<fd, firmware, disturbed>>
    BY <1>1, <2>1 DEF OnConfigure
  <2>2. CASE lifecycle' = "inactive" /\ fd' = "live" /\ replies' = <<>>
    <3>1. CASE StopFirmware("booting")
      BY <1>1, <2>2, <3>1 DEF OnConfigure, StopFirmware
    <3>2. CASE UNCHANGED <<board, lines, tail, valve, disturbed>>
      BY <1>1, <2>2, <3>2 DEF OnConfigure
    <3> QED
      BY <1>1, <2>2, <3>1, <3>2 DEF OnConfigure
  <2> QED
    BY <1>1, <2>1, <2>2 DEF OnConfigure
<1>2. CASE OnCleanup
  BY <1>2 DEF OnCleanup
<1>3. CASE OnActivate
  BY <1>3 DEF OnActivate, BeginLine
<1>4. CASE OnDeactivate
  BY <1>4 DEF OnDeactivate
<1> QED
  BY <1>1, <1>2, <1>3, <1>4 DEF Lifecycle

LEMMA SendPieceIInv == IInv /\ SendPiece => IInv'
<1> SUFFICES ASSUME IInv, SendPiece PROVE IInv'
  OBVIOUS
<1> USE DEF IInv, SendPiece, Receive, Running
<1>1. CASE board = "running" /\ pos < 2
  <2>1. /\ Piece(sending, pos) \in Level \cup {"prefix"}
        /\ tail' = Extend(tail, Piece(sending, pos)) /\ lines' = lines
    BY <1>1 DEF Piece, TypeOK, Idle
  <2>2. TypeOK'
    BY <1>1, <2>1, ExtendType DEF TypeOK
  <2>3. ~disturbed => tail' = HandedOver'
    BY <1>1, <2>1 DEF Extend, Piece, HandedOver, SendingInStep, TypeOK, Idle
  <2>4. SendingInStep' /\ QuietInStep' /\ StateIsLastSent'
    BY <1>1, <2>3 DEF SendingInStep, QuietInStep, StateIsLastSent, Idle, TypeOK
  <2> QED
    BY <2>2, <2>4
<1>2. CASE board = "running" /\ pos = 2
  <2>1. /\ lines' = Append(lines, tail) /\ lines' # <<>>
        /\ Len(lines') = Len(lines) + 1 /\ lines'[Len(lines')] = tail
    BY <1>2 DEF TypeOK
  <2>2. TypeOK'
    BY <1>2, <2>1 DEF TypeOK, Idle
  <2>3. ~disturbed => tail = sending
    BY <1>2 DEF SendingInStep, HandedOver
  <2>4. QuietInStep'
    <3>1. Pending' = tail
      BY <2>1 DEF Pending
    <3>2. lastSent' = sending /\ tail' = "empty" /\ board' = board
      BY <1>2
    <3> QED
      BY <1>2, <2>3, <3>1, <3>2 DEF QuietInStep
  <2>5. SendingInStep' /\ StateIsLastSent'
    BY <1>2 DEF SendingInStep, StateIsLastSent, Idle
  <2> QED
    BY <2>2, <2>4, <2>5
<1>3. CASE board # "running"
  <2>1. disturbed' = TRUE /\ UNCHANGED <<lines, tail>>
    BY <1>3
  <2>2. TypeOK'
    BY <2>1 DEF TypeOK, Idle
  <2>3. SendingInStep' /\ QuietInStep' /\ StateIsLastSent'
    BY <2>1 DEF SendingInStep, QuietInStep, StateIsLastSent, Idle, TypeOK
  <2> QED
    BY <2>2, <2>3
<1> QED
  BY <1>1, <1>2, <1>3 DEF TypeOK

LEMMA ControlLoopIInv == IInv /\ ControlLoop => IInv'
<1> SUFFICES ASSUME IInv, ControlLoop PROVE IInv'
  OBVIOUS
<1> USE DEF IInv, firmware
<1>1. CASE Read
  <2>1. state' = state
    BY <1>1, RepliesEchoNothing DEF Read, TypeOK
  <2> QED
    BY <1>1, <2>1 DEF Read, TypeOK, SendingInStep, QuietInStep, StateIsLastSent, Idle,
                      HandedOver, Pending
<1>2. CASE Write
  <2> USE <1>2 DEF Write, BeginLine, Running
  <2>1. TypeOK'
    BY DEF TypeOK
  <2>2. ~Idle' /\ HandedOver' = "empty"
    BY DEF TypeOK, Idle, HandedOver
  <2>3. SendingInStep'
    BY <2>2 DEF SendingInStep, TypeOK
  <2>4. QuietInStep' /\ StateIsLastSent'
    BY <2>2 DEF QuietInStep, StateIsLastSent
  <2> QED
    BY <2>1, <2>3, <2>4
<1>3. CASE SendPiece
  BY <1>3, SendPieceIInv
<1>4. CASE SendFail
  BY <1>4 DEF SendFail, TypeOK, SendingInStep, QuietInStep, StateIsLastSent, Idle
<1>5. CASE \E l \in Level : SetCommand(l)
  BY <1>5 DEF SetCommand, TypeOK, SendingInStep, QuietInStep, StateIsLastSent, Idle,
              HandedOver, Pending
<1> QED
  BY <1>1, <1>2, <1>3, <1>4, <1>5 DEF ControlLoop

(* Every step of the driver, the board and their surroundings preserves the *)
(* inductive invariant.                                                    *)
LEMMA NextIInv == IInv /\ [GripperNext]_gripperVars => IInv'
<1>1. IInv /\ UNCHANGED gripperVars => IInv'
  BY DEF gripperVars, host, firmware, IInv, TypeOK, SendingInStep, QuietInStep, StateIsLastSent,
         Idle, HandedOver, Pending
<1> QED
  BY <1>1, FirmwareLineIInv, FirmwareTimeoutIInv, EnvironmentIInv, LifecycleIInv,
     ControlLoopIInv
  DEF GripperNext, Firmware, Environment

-----------------------------------------------------------------------------
(* Type correctness, and the strengthening, in every reachable state.      *)
THEOREM InductiveInvariant == GripperSpec => []IInv
BY InitIInv, NextIInv, PTL DEF GripperSpec

(* The level that write() will not send again is the one the valve has, or *)
(* will have once the board has read its input, unless input was cut or    *)
(* lost since the latest line was begun.                                   *)
THEOREM DeliveryCorrect == GripperSpec => []LatestLineDelivered
<1>1. IInv => LatestLineDelivered
  BY DEF IInv, QuietInStep, LatestLineDelivered, Running
<1> QED
  BY <1>1, InductiveInvariant, PTL

(* No reply of the board ever moves state_ away from what was last sent.   *)
THEOREM StateOpenLoop == GripperSpec => []StateIsLastSent
<1>1. IInv => StateIsLastSent
  BY DEF IInv
<1> QED
  BY <1>1, InductiveInvariant, PTL
=============================================================================
