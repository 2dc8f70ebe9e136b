-------------------------- MODULE UrClients_proofs --------------------------
(***************************************************************************)
(* The programs outside the control cycle.  For any number of connections  *)
(* the owner of a TCP server writes to a client the server holds, and to   *)
(* another one than it meant only after that one was dropped.  For any     *)
(* number of goals the trajectory_until node reports what its actions do.  *)
(* For every set of controllers, in whatever order the program, the        *)
(* spawner and the applications act: the controllers that do not depend on *)
(* the program are left alone; and when they wait for the stopper to be    *)
(* done, the motion controllers mirror the program.  For every shape of a  *)
(* queue its elements come out once and in order.  For every set of        *)
(* services the dashboard client tells success only when the server did.   *)
(***************************************************************************)
EXTENDS UrClients, ControllerStopper, FiniteSetTheorems, SequenceTheorems, WellFoundedInduction, TLAPS

-----------------------------------------------------------------------------
(* The TCP server.                                                         *)
TcpState == {"out", "backlog", "open", "left", "refused", "ended"}
Tcp == [state : TcpState, fd : Fds \cup {0}, sent : {"", Request, "a part of it"},
        asked : BOOLEAN, got : BOOLEAN]
ServerTypeOK ==
    /\ tcp \in [Connections -> Tcp] /\ server \in ServerState /\ owner \in Owner
    /\ \A c \in Connections : tcp[c].state \in {"out", "backlog"} => tcp[c].fd = 0

(* What a round of the worker still has to look at is what it holds, and   *)
(* nothing is left of it when the next round begins.                       *)
RoundInOrder ==
    /\ server.active \subseteq server.clientFds /\ server.disconnected \subseteq server.clientFds
    /\ server.pc \in {"loop", "ended"} => server.active = {} /\ server.disconnected = {}
    /\ server.pc \in {"disconnect", "disconnected"} => server.active = {}
    /\ server.pc = "connected" => server.fd \in server.clientFds
    /\ server.closing = "done" => server.pc = "ended"
    /\ server.closing # "no" => ~server.keepRunning

(* The reverse interface holds one client at most.                         *)
OneClient ==
    ReverseInterface =>
        /\ \A fd, gd \in server.clientFds : fd = gd
        /\ server.pc = "disconnected" => server.clientFds = {}

(* What is written goes where it was meant unless that has been dropped.   *)
WritesAsMeant ==
    owner.pc # "idle" =>
        /\ owner.fd \in Fds
        /\ ~owner.late => /\ Holder(owner.fd) \subseteq owner.meant
                          /\ Holder(owner.fd) # {} \/ server.closing = "done"

ServerInv == ServerTypeOK /\ RoundInOrder /\ OneClient /\ WritesAsMeant /\ OwnerKnowsClient

\* A set of numbers has a least one.
LEMMA Least ==
  ASSUME NEW S \in SUBSET Nat, S # {}
  PROVE  \E n \in S : \A m \in S : n <= m
<1> DEFINE R == OpToRel(<, Nat)
<1>1. IsWellFoundedOn(R, Nat)
  BY NatLessThanWellFounded
<1>2. R = {ss \in Nat \X Nat : ss[1] < ss[2]}
  BY DEF OpToRel
<1> HIDE DEF R
<1>3. PICK x \in S : \A y \in S : ~ (<<y, x>> \in R)
  BY <1>1, WFMin
<1>4. \A y \in Nat : <<y, x>> \in R <=> y < x
  BY <1>2
<1>5. \A y \in S : ~(y < x)
  BY <1>3, <1>4
<1>6. \A y \in S : x <= y
  BY <1>5
<1> QED
  BY <1>6

\* There is a descriptor left for every connection, the lowest one of which is given.
LEMMA FreeIsFree ==
  ASSUME ServerTypeOK
  PROVE  FreeFd \in Fds /\ Holder(FreeFd) = {}
<1> DEFINE Free == {fd \in Fds : Holder(fd) = {}}
<1>0. Fds \subseteq Nat \ {0} /\ MaxConnections \in Nat
  BY TcpServerAssumption DEF Fds
<1>1. Free # {}
  <2> SUFFICES ASSUME \A fd \in Fds : Holder(fd) # {} PROVE FALSE
    OBVIOUS
  <2> DEFINE f == [fd \in Fds |-> CHOOSE c \in Connections : c \in Holder(fd)]
  <2>1. \A fd \in Fds : f[fd] \in Connections /\ f[fd] \in Holder(fd)
    BY DEF Holder
  <2>2. \A fd, gd \in Fds : f[fd] = f[gd] => fd = gd
    BY <2>1 DEF Holder
  <2>3. f \in Injection(Fds, Connections)
    BY <2>1, <2>2 DEF Injection, IsInjective
  <2>4. /\ IsFiniteSet(Fds) /\ Cardinality(Fds) = MaxConnections + 1
        /\ IsFiniteSet(Connections) /\ Cardinality(Connections) = MaxConnections
    BY <1>0, FS_Interval DEF Fds, Connections
  <2> QED
    BY <1>0, <2>3, <2>4, FS_Injection
<1>2. PICK fd \in Free : \A gd \in Free : fd <= gd
  BY <1>0, <1>1, Least
<1>3. fd \in 1..(MaxConnections + 1) /\ Holder(fd) = {}
  BY DEF Fds
<1>4. \A lower \in 1..(fd - 1) : Holder(lower) # {}
  BY <1>0, <1>2 DEF Fds
<1>5. /\ FreeFd \in 1..(MaxConnections + 1)
      /\ Holder(FreeFd) = {} /\ \A lower \in 1..(FreeFd - 1) : Holder(lower) # {}
  BY <1>3, <1>4 DEF FreeFd
<1> QED
  BY <1>5 DEF Fds

\* Steps that leave who holds a descriptor as it is, and the thread that writes.
LEMMA WritesKept ==
  ASSUME ServerInv, owner'.pc = owner.pc, owner'.fd = owner.fd, owner'.meant = owner.meant,
         owner'.late = owner.late, server'.closing = server.closing,
         \A fd \in Fds : Holder(fd)' = Holder(fd)
  PROVE  WritesAsMeant'
<1>1. CASE owner.pc = "idle"
  BY <1>1 DEF WritesAsMeant
<1>2. CASE owner.pc # "idle"
  <2>1. owner.fd \in Fds
    BY <1>2 DEF ServerInv, WritesAsMeant
  <2>2. Holder(owner.fd)' = Holder(owner.fd)
    <3>1. PICK fd \in Fds : fd = owner.fd
      BY <2>1
    <3>2. Holder(fd)' = Holder(owner.fd) /\ Holder(owner.fd)' = Holder(fd)'
      BY <3>1 DEF Holder
    <3> QED
      BY <3>2
  <2> QED
    BY <1>2, <2>1, <2>2 DEF ServerInv, WritesAsMeant
<1> QED
  BY <1>1, <1>2

\* Who holds a descriptor: connections that are accepted and not ended.
LEMMA HoldersKept ==
  ASSUME \A c \in Connections :
            \/ tcp'[c].fd = tcp[c].fd /\ (Held(c)' <=> Held(c))
            \/ (~Held(c) \/ tcp[c].fd = 0) /\ (~Held(c)' \/ tcp'[c].fd = 0)
  PROVE  \A fd \in Fds : Holder(fd)' = Holder(fd)
<1>0. 0 \notin Fds
  BY TcpServerAssumption DEF Fds
<1> QED
  BY <1>0 DEF Holder

LEMMA RobotInv ==
  ASSUME ServerInv, NEW c \in Connections, Robot(c)
  PROVE  ServerInv'
<1>0. ServerTypeOK /\ UNCHANGED <<server, owner>>
  BY DEF ServerInv, Robot
<1>1. /\ ServerTypeOK'
      /\ \A d \in Connections : \/ tcp'[d].fd = tcp[d].fd /\ (Held(d)' <=> Held(d))
                                \/ (~Held(d) \/ tcp[d].fd = 0) /\ (~Held(d)' \/ tcp'[d].fd = 0)
  <2>1. CASE tcp[c].state = "out" /\ tcp' = [tcp EXCEPT ![c].state = "backlog"]
    BY <1>0, <2>1 DEF ServerTypeOK, Tcp, TcpState, Held
  <2>2. ASSUME tcp[c].state = "open", NEW sent \in {Request, "a part of it"},
               tcp' = [tcp EXCEPT ![c].sent = sent, ![c].asked = sent = Request]
        PROVE  /\ ServerTypeOK'
               /\ \A d \in Connections : tcp'[d].fd = tcp[d].fd /\ tcp'[d].state = tcp[d].state
    <3>1. PICK asked \in BOOLEAN : tcp' = [tcp EXCEPT ![c].sent = sent, ![c].asked = asked]
      BY <2>2
    <3> QED
      BY <1>0, <3>1 DEF ServerTypeOK, Tcp, TcpState
  <2>3. CASE tcp[c].state \in {"backlog", "open"} /\ tcp' = [tcp EXCEPT ![c].state = "left"]
    BY <1>0, <2>3 DEF ServerTypeOK, Tcp, TcpState, Held
  <2> QED
    BY <2>1, <2>2, <2>3 DEF Robot, Held
<1>2. \A fd \in Fds : Holder(fd)' = Holder(fd)
  BY <1>1, HoldersKept
<1>3. WritesAsMeant'
  BY <1>0, <1>2, WritesKept
<1> QED
  BY <1>0, <1>1, <1>3
  DEF ServerInv, ServerTypeOK, RoundInOrder, OneClient, OwnerKnowsClient, ReverseInterface

\* The worker goes to another place.
LEMMA SpinInv ==
  ASSUME ServerInv, Spin \/ AllRead
  PROVE  ServerInv'
<1>0. ServerTypeOK /\ RoundInOrder /\ OneClient /\ OwnerKnowsClient
  BY DEF ServerInv
<1>1. UNCHANGED <<tcp, owner>>
  BY DEF Spin, AllRead
<1>2. Readable \subseteq server.clientFds
  BY DEF Readable
<1>3. PICK place \in {"loop", "accept", "read", "disconnect", "ended"}, found \in SUBSET server.clientFds :
         /\ server' = [server EXCEPT !.pc = place, !.active = found]
         /\ server.pc \in {"loop", "read"}
         /\ place \in {"loop", "ended", "disconnect"} => found = {}
         /\ place \in {"loop", "ended"} => server.disconnected = {}
         /\ server.closing = "done" => place = "ended"
  <2>1. CASE Spin
    <3>1. server.pc = "loop" /\ server.closing # "done" /\ server.active = {} /\ server.disconnected = {}
      BY <1>0, <2>1 DEF Spin, RoundInOrder
    <3>2. CASE Goes("ended")
      <4>1. server' = [server EXCEPT !.pc = "ended", !.active = {}]
        BY <1>0, <3>1, <3>2 DEF Goes, ServerTypeOK, ServerState
      <4> QED
        BY <3>1, <4>1
    <3>3. CASE server' = [server EXCEPT !.pc = IF Waiting # {} THEN "accept" ELSE "read", !.active = Readable]
      BY <1>2, <3>1, <3>3
    <3> QED
      BY <2>1, <3>2, <3>3 DEF Spin
  <2>2. CASE AllRead
    <3>1. /\ server.pc = "read" /\ server.closing # "done" /\ server.active = {}
          /\ Goes(IF server.disconnected = {} THEN "loop" ELSE "disconnect")
      BY <1>0, <2>2 DEF AllRead, RoundInOrder
    <3>2. server' = [server EXCEPT !.pc = IF server.disconnected = {} THEN "loop" ELSE "disconnect", !.active = {}]
      BY <1>0, <3>1 DEF Goes, ServerTypeOK, ServerState
    <3> QED
      BY <3>1, <3>2
  <2> QED
    BY <2>1, <2>2
<1>4. /\ server'.pc = place /\ server'.active = found /\ server'.clientFds = server.clientFds
      /\ server'.fd = server.fd /\ server'.disconnected = server.disconnected
      /\ server'.closing = server.closing /\ server'.keepRunning = server.keepRunning
      /\ server'.max = server.max /\ server' \in ServerState
  BY <1>0, <1>3 DEF ServerTypeOK, ServerState
<1>5. RoundInOrder' /\ OneClient' /\ OwnerKnowsClient'
  BY <1>0, <1>1, <1>3, <1>4 DEF RoundInOrder, OneClient, OwnerKnowsClient, ReverseInterface
<1>6. WritesAsMeant'
  BY <1>1, <1>4, WritesKept DEF Holder, Held
<1> QED
  BY <1>0, <1>1, <1>4, <1>5, <1>6 DEF ServerInv, ServerTypeOK

LEMMA AcceptInv ==
  ASSUME ServerInv, Accept
  PROVE  ServerInv'
<1>0. ServerTypeOK /\ RoundInOrder /\ OneClient /\ OwnerKnowsClient /\ WritesAsMeant
  BY DEF ServerInv
<1>1. PICK c \in Waiting :
         IF HasRoom
         THEN /\ server' = [server EXCEPT !.pc = "connected", !.clientFds = @ \cup {FreeFd}, !.fd = FreeFd]
              /\ tcp' = [tcp EXCEPT ![c].fd = FreeFd, ![c].state = IF tcp[c].state = "left" THEN "left" ELSE "open"]
         ELSE Goes("read") /\ tcp' = [tcp EXCEPT ![c].state = "refused"]
  BY DEF Accept
<1>2. /\ owner' = owner /\ server.pc = "accept" /\ server.closing # "done"
  BY <1>0 DEF Accept, RoundInOrder
<1>3. c \in Connections /\ tcp[c].fd = 0 /\ tcp[c].state \in {"backlog", "left"}
  BY <1>0 DEF Waiting, ServerTypeOK
<1>4. CASE ~HasRoom
  <2>1. server' = [server EXCEPT !.pc = "read"] /\ tcp' = [tcp EXCEPT ![c].state = "refused"]
    BY <1>1, <1>4 DEF Goes
  <2>2. /\ server'.pc = "read" /\ server'.active = server.active /\ server'.clientFds = server.clientFds
        /\ server'.fd = server.fd /\ server'.disconnected = server.disconnected
        /\ server'.closing = server.closing /\ server'.keepRunning = server.keepRunning
        /\ server'.max = server.max /\ server' \in ServerState
    BY <1>0, <2>1 DEF ServerTypeOK, ServerState
  <2>3. /\ ServerTypeOK'
        /\ \A d \in Connections : \/ tcp'[d].fd = tcp[d].fd /\ (Held(d)' <=> Held(d))
                                  \/ (~Held(d) \/ tcp[d].fd = 0) /\ (~Held(d)' \/ tcp'[d].fd = 0)
    BY <1>0, <1>2, <1>3, <2>1, <2>2 DEF ServerTypeOK, Tcp, TcpState, Held
  <2>4. WritesAsMeant'
    BY <1>2, <2>2, <2>3, HoldersKept, WritesKept
  <2>5. RoundInOrder' /\ OneClient' /\ OwnerKnowsClient'
    BY <1>0, <1>2, <2>2 DEF RoundInOrder, OneClient, OwnerKnowsClient, ReverseInterface
  <2> QED
    BY <2>3, <2>4, <2>5 DEF ServerInv
<1>5. CASE HasRoom
  <2>1. PICK fd \in Fds : fd = FreeFd /\ Holder(fd) = {}
    BY <1>0, FreeIsFree
  <2>2. /\ server' = [server EXCEPT !.pc = "connected", !.clientFds = @ \cup {fd}, !.fd = fd]
        /\ tcp' = [tcp EXCEPT ![c].fd = fd, ![c].state = IF tcp[c].state = "left" THEN "left" ELSE "open"]
    BY <1>1, <1>5, <2>1
  <2>3. /\ server'.pc = "connected" /\ server'.active = server.active
        /\ server'.clientFds = server.clientFds \cup {fd}
        /\ server'.fd = fd /\ server'.disconnected = server.disconnected
        /\ server'.closing = server.closing /\ server'.keepRunning = server.keepRunning
        /\ server'.max = server.max /\ server' \in ServerState
    BY <1>0, <2>2 DEF ServerTypeOK, ServerState
  <2>4. PICK st \in {"left", "open"} : tcp' = [tcp EXCEPT ![c].fd = fd, ![c].state = st]
    <3>1. CASE tcp[c].state = "left"
      <4>1. tcp' = [tcp EXCEPT ![c].fd = fd, ![c].state = "left"]
        BY <2>2, <3>1
      <4> QED
        BY <4>1
    <3>2. CASE tcp[c].state # "left"
      <4>1. tcp' = [tcp EXCEPT ![c].fd = fd, ![c].state = "open"]
        BY <2>2, <3>2
      <4> QED
        BY <4>1
    <3> QED
      BY <3>1, <3>2
  <2>5. ServerTypeOK'
    <3>1. tcp \in [Connections -> Tcp] /\ server' \in ServerState /\ owner' \in Owner
      BY <1>0, <1>2, <2>3 DEF ServerTypeOK
    <3>2. /\ tcp[c] \in Tcp
          /\ tcp' = [tcp EXCEPT ![c] = [tcp[c] EXCEPT !.fd = fd, !.state = st]]
      BY <1>3, <2>4, <3>1
    <3>3. [tcp[c] EXCEPT !.fd = fd, !.state = st] \in Tcp
      BY <3>2 DEF Tcp, TcpState
    <3>4. tcp' \in [Connections -> Tcp]
      BY <3>1, <3>2, <3>3
    <3>5. \A d \in Connections : tcp'[d].state \in {"out", "backlog"} => d # c
      BY <1>3, <3>1, <3>2 DEF Tcp
    <3>6. \A d \in Connections : d # c => tcp'[d] = tcp[d]
      BY <1>3, <3>1, <3>2
    <3> QED
      BY <1>0, <3>1, <3>4, <3>5, <3>6 DEF ServerTypeOK
  <2>6. \A gd \in Fds : gd # fd => Holder(gd)' = Holder(gd)
    <3>1. \A d \in Connections : d # c => tcp'[d] = tcp[d]
      BY <1>0, <1>3, <2>4 DEF ServerTypeOK
    <3>2. tcp'[c].fd = fd
      BY <1>0, <1>3, <2>4 DEF ServerTypeOK, Tcp
    <3>3. 0 \notin Fds
      BY TcpServerAssumption DEF Fds
    <3> QED
      BY <1>3, <3>1, <3>2, <3>3 DEF Holder, Held
  <2>7. WritesAsMeant'
    <3>1. CASE owner.pc = "idle" \/ owner.late
      BY <1>0, <1>2, <3>1 DEF WritesAsMeant
    <3>2. CASE owner.pc # "idle" /\ ~owner.late
      <4>1. /\ owner.fd \in Fds /\ owner.fd # fd
            /\ Holder(owner.fd) \subseteq owner.meant /\ Holder(owner.fd) # {}
        BY <1>0, <1>2, <2>1, <3>2 DEF WritesAsMeant
      <4>2. PICK gd \in Fds : gd = owner.fd
        BY <4>1
      <4>3. Holder(gd)' = Holder(owner.fd) /\ Holder(owner.fd)' = Holder(gd)'
        BY <1>2, <2>6, <4>1, <4>2 DEF Holder
      <4> QED
        BY <1>2, <2>3, <4>1, <4>3 DEF WritesAsMeant
    <3> QED
      BY <3>1, <3>2
  <2>8. ReverseInterface => server.clientFds = {}
    <3> SUFFICES ASSUME ReverseInterface PROVE server.clientFds = {}
      OBVIOUS
    <3>1. IsFiniteSet(server.clientFds)
      <4>1. IsFiniteSet(Fds)
        BY FS_Interval, TcpServerAssumption DEF Fds
      <4>2. server.clientFds \subseteq Fds
        BY <1>0 DEF ServerTypeOK, ServerState
      <4> QED
        BY <4>1, <4>2, FS_Subset
    <3>2. Cardinality(server.clientFds) \in Nat /\ Cardinality(server.clientFds) < 1
      BY <1>5, <3>1, FS_CardinalityType DEF HasRoom, ReverseInterface
    <3> QED
      BY <3>1, <3>2, FS_EmptySet
  <2>9. RoundInOrder' /\ OneClient' /\ OwnerKnowsClient'
    <3>1. RoundInOrder'
      BY <1>0, <1>2, <2>3 DEF RoundInOrder
    <3>2. OneClient'
      BY <2>3, <2>8 DEF OneClient, ReverseInterface
    <3>3. OwnerKnowsClient'
      BY <1>0, <1>2, <2>3, <2>8 DEF OwnerKnowsClient, ReverseInterface
    <3> QED
      BY <3>1, <3>2, <3>3
  <2> QED
    BY <2>5, <2>7, <2>9 DEF ServerInv
<1> QED
  BY <1>4, <1>5

LEMMA ConnectionInv ==
  ASSUME ServerInv, ConnectionCallback
  PROVE  ServerInv'
<1>0. ServerTypeOK /\ RoundInOrder /\ OneClient /\ OwnerKnowsClient
  BY DEF ServerInv
<1>1. /\ server.pc = "connected" /\ server' = [server EXCEPT !.pc = "read"] /\ tcp' = tcp
      /\ owner' = IF ReverseInterface /\ owner.clientFd = 0 THEN [owner EXCEPT !.clientFd = server.fd] ELSE owner
  BY DEF ConnectionCallback, Goes
<1>2. /\ server'.pc = "read" /\ server'.active = server.active /\ server'.clientFds = server.clientFds
      /\ server'.fd = server.fd /\ server'.disconnected = server.disconnected
      /\ server'.closing = server.closing /\ server'.keepRunning = server.keepRunning
      /\ server'.max = server.max /\ server' \in ServerState
  BY <1>0, <1>1 DEF ServerTypeOK, ServerState
<1>3. /\ owner' \in Owner /\ owner'.pc = owner.pc /\ owner'.fd = owner.fd /\ owner'.meant = owner.meant
      /\ owner'.late = owner.late /\ owner'.stray = owner.stray
      /\ owner'.clientFd = IF ReverseInterface /\ owner.clientFd = 0 THEN server.fd ELSE owner.clientFd
  BY <1>0, <1>1 DEF ServerTypeOK, ServerState, Owner
<1>4. server.fd \in server.clientFds /\ server.clientFds \subseteq Fds /\ 0 \notin Fds
  BY <1>0, <1>1, TcpServerAssumption DEF RoundInOrder, ServerTypeOK, ServerState, Fds
<1>5. RoundInOrder' /\ OneClient'
  BY <1>0, <1>1, <1>2 DEF RoundInOrder, OneClient, ReverseInterface
<1>6. OwnerKnowsClient'
  BY <1>0, <1>1, <1>2, <1>3, <1>4 DEF OwnerKnowsClient, OneClient, ReverseInterface
<1>7. WritesAsMeant'
  BY <1>1, <1>2, <1>3, WritesKept DEF Holder, Held
<1> QED
  BY <1>0, <1>1, <1>2, <1>3, <1>5, <1>6, <1>7 DEF ServerInv, ServerTypeOK

LEMMA ReadInv ==
  ASSUME ServerInv, ReadData
  PROVE  ServerInv'
<1>0. ServerTypeOK /\ RoundInOrder /\ OneClient /\ OwnerKnowsClient
  BY DEF ServerInv
<1>1. PICK fd \in server.active, c \in Connections :
         /\ tcp' = [tcp EXCEPT ![c].sent = "", ![c].got = @ \/ tcp[c].sent = Request]
         /\ server' = [server EXCEPT !.active = @ \ {fd},
                        !.disconnected = IF tcp[c].sent = "" THEN @ \cup {fd} ELSE @]
  BY Zenon DEF ReadData
<1>2. server.pc = "read" /\ owner' = owner /\ fd \in server.clientFds
  BY <1>0 DEF ReadData, RoundInOrder
<1>3. PICK dis \in {server.disconnected, server.disconnected \cup {fd}} :
         server' = [server EXCEPT !.active = server.active \ {fd}, !.disconnected = dis]
  BY <1>1
<1>4. /\ server'.pc = "read" /\ server'.active = server.active \ {fd} /\ server'.clientFds = server.clientFds
      /\ server'.fd = server.fd /\ server'.disconnected = dis
      /\ server'.closing = server.closing /\ server'.keepRunning = server.keepRunning
      /\ server'.max = server.max /\ server' \in ServerState
  BY <1>0, <1>2, <1>3 DEF ServerTypeOK, ServerState
<1>5. PICK got \in BOOLEAN : tcp' = [tcp EXCEPT ![c].sent = "", ![c].got = got]
  BY <1>0, <1>1 DEF ServerTypeOK, Tcp
<1>6. /\ ServerTypeOK'
      /\ \A d \in Connections : tcp'[d].fd = tcp[d].fd /\ tcp'[d].state = tcp[d].state
  BY <1>0, <1>2, <1>4, <1>5 DEF ServerTypeOK, Tcp
<1>7. WritesAsMeant'
  BY <1>2, <1>4, <1>6, HoldersKept, WritesKept DEF Held
<1>8. RoundInOrder' /\ OneClient' /\ OwnerKnowsClient'
  BY <1>0, <1>2, <1>4 DEF RoundInOrder, OneClient, OwnerKnowsClient, ReverseInterface
<1> QED
  BY <1>6, <1>7, <1>8 DEF ServerInv

LEMMA DisconnectInv ==
  ASSUME ServerInv, HandleDisconnect
  PROVE  ServerInv'
<1>0. ServerTypeOK /\ RoundInOrder /\ OneClient /\ OwnerKnowsClient /\ WritesAsMeant
  BY DEF ServerInv
<1>1. PICK fd \in server.disconnected :
         /\ server' = [server EXCEPT !.pc = "disconnected", !.fd = fd, !.clientFds = @ \ {fd},
                                     !.disconnected = @ \ {fd}]
         /\ tcp' = [c \in Connections |-> IF c \in Holder(fd) THEN [tcp[c] EXCEPT !.state = "ended"] ELSE tcp[c]]
         /\ owner' = [owner EXCEPT !.late = @ \/ (owner.pc # "idle" /\ owner.fd = fd)]
  BY DEF HandleDisconnect
<1>2. /\ server.pc = "disconnect" /\ server.closing # "done"
      /\ fd \in server.clientFds /\ fd \in Fds
  BY <1>0 DEF HandleDisconnect, RoundInOrder, ServerTypeOK, ServerState
<1>3. /\ server'.pc = "disconnected" /\ server'.active = server.active
      /\ server'.clientFds = server.clientFds \ {fd} /\ server'.fd = fd
      /\ server'.disconnected = server.disconnected \ {fd}
      /\ server'.closing = server.closing /\ server'.keepRunning = server.keepRunning
      /\ server'.max = server.max /\ server' \in ServerState
  BY <1>0, <1>1, <1>2 DEF ServerTypeOK, ServerState
<1>4. /\ owner' \in Owner /\ owner'.pc = owner.pc /\ owner'.fd = owner.fd /\ owner'.meant = owner.meant
      /\ owner'.late = (owner.late \/ (owner.pc # "idle" /\ owner.fd = fd))
      /\ owner'.stray = owner.stray /\ owner'.clientFd = owner.clientFd
  BY <1>0, <1>1 DEF ServerTypeOK, Owner
<1>5. ASSUME NEW c \in Connections
      PROVE  /\ tcp'[c] \in Tcp /\ tcp'[c].fd = tcp[c].fd
             /\ tcp'[c].state = IF c \in Holder(fd) THEN "ended" ELSE tcp[c].state
    BY <1>0, <1>1 DEF ServerTypeOK, Tcp, TcpState
<1>6. ServerTypeOK'
  BY <1>0, <1>1, <1>3, <1>4, <1>5 DEF ServerTypeOK, Holder, Held
<1>7. \A gd \in Fds : gd # fd => Holder(gd)' = Holder(gd)
  BY <1>5 DEF Holder, Held
<1>8. WritesAsMeant'
  <2>1. CASE owner'.pc = "idle" \/ owner'.late
    BY <1>0, <1>4, <2>1 DEF WritesAsMeant
  <2>2. CASE owner.pc # "idle" /\ ~owner.late /\ owner.fd # fd
    <3>1. PICK gd \in Fds : gd = owner.fd
      BY <1>0, <2>2 DEF WritesAsMeant
    <3>2. Holder(gd)' = Holder(owner.fd) /\ Holder(owner.fd)' = Holder(gd)'
      BY <1>4, <1>7, <2>2, <3>1 DEF Holder
    <3> QED
      BY <1>0, <1>2, <1>3, <1>4, <2>2, <3>2 DEF WritesAsMeant
  <2> QED
    BY <1>4, <2>1, <2>2
<1>9. RoundInOrder' /\ OneClient' /\ OwnerKnowsClient'
  <2>1. RoundInOrder' /\ OneClient'
    BY <1>0, <1>2, <1>3 DEF RoundInOrder, OneClient, ReverseInterface
  <2>2. OwnerKnowsClient'
    BY <1>0, <1>2, <1>3, <1>4, <1>6 DEF OwnerKnowsClient, ReverseInterface, ServerTypeOK
  <2> QED
    BY <2>1, <2>2
<1> QED
  BY <1>6, <1>8, <1>9 DEF ServerInv

LEMMA DisconnectionInv ==
  ASSUME ServerInv, DisconnectionCallback
  PROVE  ServerInv'
<1>0. ServerTypeOK /\ RoundInOrder /\ OneClient /\ OwnerKnowsClient
  BY DEF ServerInv
<1>1. PICK place \in {"loop", "disconnect"} :
         /\ server.pc = "disconnected" /\ server' = [server EXCEPT !.pc = place] /\ tcp' = tcp
         /\ place = "loop" => server.disconnected = {}
         /\ owner' = IF server.keepRunning THEN [owner EXCEPT !.clientFd = 0] ELSE owner
  BY DEF DisconnectionCallback, Goes
<1>2. /\ server'.pc = place /\ server'.active = server.active /\ server'.clientFds = server.clientFds
      /\ server'.fd = server.fd /\ server'.disconnected = server.disconnected
      /\ server'.closing = server.closing /\ server'.keepRunning = server.keepRunning
      /\ server'.max = server.max /\ server' \in ServerState
  BY <1>0, <1>1 DEF ServerTypeOK, ServerState
<1>3. /\ owner' \in Owner /\ owner'.pc = owner.pc /\ owner'.fd = owner.fd /\ owner'.meant = owner.meant
      /\ owner'.late = owner.late /\ owner'.stray = owner.stray
      /\ owner'.clientFd = IF server.keepRunning THEN 0 ELSE owner.clientFd
  BY <1>0, <1>1 DEF ServerTypeOK, Owner
<1>4. RoundInOrder' /\ OneClient'
  BY <1>0, <1>1, <1>2 DEF RoundInOrder, OneClient, ReverseInterface
<1>5. OwnerKnowsClient'
  BY <1>0, <1>1, <1>2, <1>3 DEF OwnerKnowsClient, OneClient, ReverseInterface
<1>6. WritesAsMeant'
  BY <1>1, <1>2, <1>3, WritesKept DEF Holder, Held
<1> QED
  BY <1>0, <1>1, <1>2, <1>3, <1>4, <1>5, <1>6 DEF ServerInv, ServerTypeOK

LEMMA WriteInv ==
  ASSUME ServerInv, Write
  PROVE  ServerInv'
<1>0. ServerTypeOK /\ RoundInOrder /\ OneClient /\ OwnerKnowsClient /\ WritesAsMeant
  BY DEF ServerInv
<1>1. UNCHANGED <<tcp, server>> /\ \A fd : Holder(fd)' = Holder(fd)
  BY DEF Write, StartWrite, CheckClient, WriteUnchecked, Holder, Held
<1>a. ASSUME owner' \in Owner, owner'.clientFd = owner.clientFd, owner'.stray => owner'.late, WritesAsMeant'
      PROVE  ServerInv'
  BY <1>0, <1>1, <1>a DEF ServerInv, ServerTypeOK, RoundInOrder, OneClient, OwnerKnowsClient, ReverseInterface
<1>2. CASE StartWrite
  <2>1. PICK fd \in Fds : fd = owner.clientFd
    BY <1>0, <1>2 DEF StartWrite, ServerTypeOK, Owner
  <2>2. PICK late \in BOOLEAN :
           /\ owner' = [owner EXCEPT !.pc = "check", !.fd = fd, !.meant = Holder(fd), !.late = late, !.stray = FALSE]
           /\ late <=> Holder(fd) = {}
    BY <1>2, <2>1 DEF StartWrite
  <2>3. Holder(fd) \subseteq Connections
    BY DEF Holder
  <2>4. /\ owner' \in Owner /\ owner'.clientFd = owner.clientFd /\ owner'.stray = FALSE
        /\ owner'.fd = fd /\ owner'.meant = Holder(fd) /\ owner'.late = late
    BY <1>0, <2>2, <2>3 DEF ServerTypeOK, Owner
  <2>5. Holder(owner.fd)' = Holder(fd)
    BY <1>1, <2>4 DEF Holder, Held
  <2>6. WritesAsMeant'
    BY <2>2, <2>4, <2>5 DEF WritesAsMeant
  <2> QED
    BY <1>a, <2>4, <2>6
<1>3. CASE CheckClient
  <2>1. PICK place \in {"send", "idle"} : owner.pc = "check" /\ owner' = [owner EXCEPT !.pc = place]
    BY <1>3 DEF CheckClient
  <2>2. /\ owner' \in Owner /\ owner'.clientFd = owner.clientFd /\ owner'.stray = owner.stray
        /\ owner'.fd = owner.fd /\ owner'.meant = owner.meant /\ owner'.late = owner.late
    BY <1>0, <2>1 DEF ServerTypeOK, Owner
  <2>3. Holder(owner.fd)' = Holder(owner.fd)
    BY <1>1, <2>2 DEF Holder, Held
  <2>4. WritesAsMeant' /\ (owner.stray => owner.late)
    BY <1>0, <1>1, <2>1, <2>2, <2>3 DEF WritesAsMeant, OwnerKnowsClient
  <2> QED
    BY <1>a, <2>2, <2>4
<1>4. CASE WriteUnchecked
  <2>1. PICK stray \in BOOLEAN :
           /\ owner' = [owner EXCEPT !.pc = "idle", !.stray = stray] /\ owner.pc = "send"
           /\ stray <=> ~(Holder(owner.fd) \subseteq owner.meant)
    BY <1>4 DEF WriteUnchecked
  <2>2. /\ owner' \in Owner /\ owner'.clientFd = owner.clientFd /\ owner'.stray = stray
        /\ owner'.pc = "idle" /\ owner'.late = owner.late
    BY <1>0, <2>1 DEF ServerTypeOK, Owner
  <2>3. WritesAsMeant' /\ (stray => owner.late)
    BY <1>0, <2>1, <2>2 DEF WritesAsMeant
  <2> QED
    BY <1>a, <2>2, <2>3
<1> QED
  BY <1>2, <1>3, <1>4 DEF Write

LEMMA ShutdownInv ==
  ASSUME ServerInv, Shutdown
  PROVE  ServerInv'
<1>0. ServerTypeOK /\ RoundInOrder /\ OneClient /\ OwnerKnowsClient /\ WritesAsMeant /\ owner' = owner
  BY DEF ServerInv, Shutdown
<1>1. CASE server.closing = "no" /\ tcp' = tcp /\ server' = [server EXCEPT !.closing = "joining", !.keepRunning = FALSE]
  <2>1. /\ server'.pc = server.pc /\ server'.active = server.active /\ server'.clientFds = server.clientFds
        /\ server'.fd = server.fd /\ server'.disconnected = server.disconnected
        /\ server'.closing = "joining" /\ server'.keepRunning = FALSE
        /\ server'.max = server.max /\ server' \in ServerState
    BY <1>0, <1>1 DEF ServerTypeOK, ServerState
  <2>2. Holder(owner.fd)' = Holder(owner.fd)
    BY <1>0, <1>1 DEF Holder, Held
  <2>3. WritesAsMeant'
    BY <1>0, <1>1, <2>1, <2>2 DEF WritesAsMeant
  <2>4. RoundInOrder' /\ OneClient' /\ OwnerKnowsClient'
    BY <1>0, <2>1 DEF RoundInOrder, OneClient, OwnerKnowsClient, ReverseInterface
  <2> QED
    BY <1>0, <1>1, <2>1, <2>3, <2>4 DEF ServerInv, ServerTypeOK
<1>2. CASE /\ server.closing = "joining" /\ server.pc = "ended"
           /\ server' = [server EXCEPT !.closing = "done", !.clientFds = {}]
           /\ tcp' = [c \in Connections |-> IF Held(c) THEN [tcp[c] EXCEPT !.state = "ended"] ELSE tcp[c]]
  <2>1. /\ server'.pc = "ended" /\ server'.active = server.active /\ server'.clientFds = {}
        /\ server'.fd = server.fd /\ server'.disconnected = server.disconnected
        /\ server'.closing = "done" /\ server'.keepRunning = server.keepRunning
        /\ server'.max = server.max /\ server' \in ServerState
    BY <1>0, <1>2 DEF ServerTypeOK, ServerState
  <2>2. ASSUME NEW c \in Connections
        PROVE  /\ tcp'[c] \in Tcp /\ tcp'[c].fd = tcp[c].fd
               /\ tcp'[c].state = IF Held(c) THEN "ended" ELSE tcp[c].state
    BY <1>0, <1>2 DEF ServerTypeOK, Tcp, TcpState
  <2>3. ServerTypeOK'
    BY <1>0, <1>2, <2>1, <2>2 DEF ServerTypeOK, Held
  <2>4. Holder(owner.fd)' = {}
    BY <2>2 DEF Holder, Held
  <2>5. WritesAsMeant'
    BY <1>0, <2>1, <2>4 DEF WritesAsMeant
  <2>6. ~server.keepRunning
    BY <1>0, <1>2 DEF RoundInOrder
  <2>7. RoundInOrder' /\ OneClient' /\ OwnerKnowsClient'
    BY <1>0, <1>2, <2>1, <2>6 DEF RoundInOrder, OneClient, OwnerKnowsClient, ReverseInterface
  <2> QED
    BY <2>3, <2>5, <2>7 DEF ServerInv
<1> QED
  BY <1>1, <1>2 DEF Shutdown

LEMMA InitServer == Init => ServerInv
<1> SUFFICES ASSUME Init PROVE ServerInv
  OBVIOUS
<1>1. ServerInit
  BY DEF Init
<1>2. PICK max \in {0, 1} :
         server = [max |-> max, keepRunning |-> TRUE, pc |-> "loop", clientFds |-> {}, active |-> {},
                   disconnected |-> {}, fd |-> 0, closing |-> "no"]
  BY <1>1 DEF ServerInit
<1>3. ServerTypeOK
  BY <1>1, <1>2 DEF ServerInit, ServerTypeOK, Tcp, TcpState, ServerState, Owner
<1> QED
  BY <1>1, <1>2, <1>3
  DEF ServerInit, ServerInv, RoundInOrder, OneClient, WritesAsMeant, OwnerKnowsClient, ServerTypeOK, ReverseInterface

LEMMA NextServer == ServerInv /\ [Next]_vars => ServerInv'
<1> SUFFICES ASSUME ServerInv, [Next]_vars PROVE ServerInv'
  OBVIOUS
<1>1. CASE ServerNext
  <2>1. RoundInOrder /\ (server.closing = "joining" => ~server.keepRunning)
    BY DEF ServerInv, RoundInOrder
  <2> QED
    BY <1>1, RobotInv, SpinInv, AcceptInv, ConnectionInv, ReadInv, DisconnectInv, DisconnectionInv,
       WriteInv, ShutdownInv DEF ServerNext, Worker
<1>2. CASE UNCHANGED tvars
  <2>1. UNCHANGED <<tcp, server, owner>>
    BY <1>2 DEF tvars
  <2>2. \A fd : Holder(fd)' = Holder(fd)
    BY <2>1 DEF Holder, Held
  <2>3. Holder(owner.fd)' = Holder(owner.fd)
    BY <2>1 DEF Holder, Held
  <2> QED
    BY <2>1, <2>3
    DEF ServerInv, ServerTypeOK, RoundInOrder, OneClient, WritesAsMeant, OwnerKnowsClient, ReverseInterface
<1>3. ServerNext \/ UNCHANGED tvars
  BY DEF Next, vars, Queue, Dashboard, Until, Reader, Server, Helper, Client, Scripted
<1> QED
  BY <1>1, <1>2, <1>3

(* The owner of a TCP server knows which client it has, and a write goes   *)
(* to another one only when the one it was meant for has been dropped.     *)
THEOREM OwnerKnows == Spec => []OwnerKnowsClient
<1>1. ServerInv => OwnerKnowsClient
  BY DEF ServerInv
<1> QED
  BY <1>1, InitServer, NextServer, PTL DEF Spec

-----------------------------------------------------------------------------
(* The trajectory_until node.  The goal it works on or holds:              *)
GoalAtWork == IF node.pc = "idle" THEN node.handle ELSE node.goal

UntilStatus == {"none", "rejected", "executing", "canceling"} \cup Terminal
ActState == {"none", "sent", "rejected", "active", "canceling"} \cup Terminal
Act == [state : ActState, heard : {"nothing", "response", "result"}]
UntilTypeOK ==
    /\ node \in Node /\ status \in [UntilGoals -> UntilStatus]
    /\ acts \in [Actions -> [UntilGoals -> Act]]
    /\ node.pc # "idle" => node.goal # 0

(* What the members tell of the goal at work, and of its two actions.      *)
MembersTell ==
    /\ node.pc # "idle" => node.handle = 0
    /\ GoalAtWork # 0 => node.client = GoalAtWork
    /\ \A T \in Actions :
          /\ node.current[T] = IF node.accepted[T] THEN GoalAtWork ELSE 0
          /\ node.accepted[T] => GoalAtWork # 0
    /\ node.pc = "trajectory" => node.accepted["until"]
    /\ node.pc = "accepting" \/ node.handle # 0 => \A T \in Actions : node.accepted[T]

(* The node's own goals.                                                   *)
StatusTells ==
    /\ node.pc \in {"until", "trajectory"} => status[node.goal] = "none"
    /\ node.pc = "accepting" => status[node.goal] = "executing"
    /\ node.handle # 0 => status[node.handle] \in {"executing", "canceling"}
    /\ \A g \in UntilGoals :
          /\ status[g] \in {"executing", "canceling"} => g = GoalAtWork
          /\ status[g] = "succeeded" => \E T \in Actions : acts[T][g].state = "succeeded"

(* Everything sent for another goal than the one at work has been answered *)
(* and cancelled; the trajectory of a goal is sent after its contact has   *)
(* been accepted.                                                          *)
ActInTurn(T, g) ==
    /\ acts[T][g].heard # "nothing" => acts[T][g].state \notin {"none", "sent"}
    /\ g # GoalAtWork => /\ acts[T][g].state \notin {"sent", "active"}
                         /\ acts[T][g].heard = "nothing" => acts[T][g].state = "none"
                         /\ status[g] = "none" => acts[T][g].state = "none"
    /\ g = GoalAtWork => /\ acts[T][g].heard # "result"
                         /\ acts[T][g].state \in {"canceling", "canceled"} => status[g] = "canceling"
                         /\ node.accepted[T] <=> acts[T][g].heard # "nothing" /\ acts[T][g].state # "rejected"
                         /\ T = "trajectory" /\ node.pc = "until" => acts[T][g].state = "none"
    /\ T = "trajectory" /\ acts[T][g].state # "none" => acts["until"][g].state \notin {"none", "sent", "rejected"}
ActsInTurn == \A T \in Actions, g \in UntilGoals : ActInTurn(T, g)

(* What is so as long as nothing has been called back too late.            *)
InTime == ~node.dead /\ MembersTell /\ StatusTells /\ ActsInTurn
UntilInv == UntilTypeOK /\ (~node.late => InTime)

\* What is written of one action, and what is called off.
ToState(a, T, g, s) == [a EXCEPT ![T][g].state = s]
LEMMA StateSet ==
  ASSUME NEW a \in [Actions -> [UntilGoals -> Act]], NEW T \in Actions, NEW g \in UntilGoals, NEW s \in ActState
  PROVE  /\ ToState(a, T, g, s) \in [Actions -> [UntilGoals -> Act]]
         /\ \A U \in Actions, h \in UntilGoals :
               /\ ToState(a, T, g, s)[U][h].heard = a[U][h].heard
               /\ ToState(a, T, g, s)[U][h].state = IF U = T /\ h = g THEN s ELSE a[U][h].state
BY DEF ToState, Act

ToHeard(a, T, g, s) == [a EXCEPT ![T][g].heard = s]
LEMMA HeardSet ==
  ASSUME NEW a \in [Actions -> [UntilGoals -> Act]], NEW T \in Actions, NEW g \in UntilGoals,
         NEW s \in {"response", "result"}
  PROVE  /\ ToHeard(a, T, g, s) \in [Actions -> [UntilGoals -> Act]]
         /\ \A U \in Actions, h \in UntilGoals :
               /\ ToHeard(a, T, g, s)[U][h].state = a[U][h].state
               /\ ToHeard(a, T, g, s)[U][h].heard = IF U = T /\ h = g THEN s ELSE a[U][h].heard
BY DEF ToHeard, Act

LEMMA CalledOff ==
  ASSUME NEW n \in Node, NEW a \in [Actions -> [UntilGoals -> Act]]
  PROVE  /\ Cancelled(n, a) \in [Actions -> [UntilGoals -> Act]]
         /\ \A T \in Actions, g \in UntilGoals :
               /\ Cancelled(n, a)[T][g].heard = a[T][g].heard
               /\ Cancelled(n, a)[T][g].state =
                     IF g = n.current[T] /\ a[T][g].state = "active" THEN "canceling" ELSE a[T][g].state
<1>1. ASSUME NEW T \in Actions, NEW g \in UntilGoals
      PROVE  /\ Cancelled(n, a)[T][g] \in Act
             /\ Cancelled(n, a)[T][g].heard = a[T][g].heard
             /\ Cancelled(n, a)[T][g].state =
                   IF g = n.current[T] /\ a[T][g].state = "active" THEN "canceling" ELSE a[T][g].state
  <2>1. Cancelled(n, a)[T][g] =
           IF g = n.current[T] /\ a[T][g].state = "active" THEN [a[T][g] EXCEPT !.state = "canceling"] ELSE a[T][g]
    BY DEF Cancelled
  <2>2. a[T][g] \in Act
    OBVIOUS
  <2> QED
    BY <2>1, <2>2 DEF Act, ActState
<1>2. Cancelled(n, a) = [T \in Actions |-> [g \in UntilGoals |-> Cancelled(n, a)[T][g]]]
  BY DEF Cancelled
<1> QED
  BY <1>1, <1>2

\* A reset of the node: what it holds is called off and forgotten.
LEMMA ResetIs ==
  ASSUME NEW n \in Node, NEW a \in [Actions -> [UntilGoals -> Act]]
  PROVE  /\ ResetNode(n, a).n \in Node /\ ResetNode(n, a).a \in [Actions -> [UntilGoals -> Act]]
         /\ ResetNode(n, a).n.late = n.late
         /\ ResetNode(n, a).n.pc = n.pc /\ ResetNode(n, a).n.goal = n.goal
         /\ ~Unknown(n) =>
               /\ ResetNode(n, a).a = Cancelled(n, a)
               /\ ResetNode(n, a).n.handle = 0
               /\ ResetNode(n, a).n.dead = n.dead /\ ResetNode(n, a).n.client = n.client
               /\ \A T \in Actions : ResetNode(n, a).n.current[T] = 0 /\ ~ResetNode(n, a).n.accepted[T]
<1>1. CASE Unknown(n)
  <2>1. ResetNode(n, a) = [n |-> [n EXCEPT !.dead = TRUE], a |-> a]
    BY <1>1 DEF ResetNode
  <2>2. /\ [n EXCEPT !.dead = TRUE] \in Node /\ [n EXCEPT !.dead = TRUE].late = n.late
        /\ [n EXCEPT !.dead = TRUE].pc = n.pc /\ [n EXCEPT !.dead = TRUE].goal = n.goal
    BY DEF Node
  <2>3. ResetNode(n, a).n = [n EXCEPT !.dead = TRUE] /\ ResetNode(n, a).a = a
    BY <2>1
  <2> QED
    BY <1>1, <2>2, <2>3
<1>2. CASE ~Unknown(n)
  <2>1. ResetNode(n, a).n = Forgotten(n) /\ ResetNode(n, a).a = Cancelled(n, a)
    BY <1>2 DEF ResetNode
  <2>2. /\ Forgotten(n) \in Node /\ Forgotten(n).late = n.late /\ Forgotten(n).handle = 0
        /\ Forgotten(n).pc = n.pc /\ Forgotten(n).goal = n.goal
        /\ Forgotten(n).dead = n.dead /\ Forgotten(n).client = n.client
    BY DEF Forgotten, Node, Handles
  <2>3. \A T \in Actions : Forgotten(n).current[T] = 0 /\ ~Forgotten(n).accepted[T]
    BY DEF Forgotten, Node
  <2> QED
    BY <2>1, <2>2, <2>3, CalledOff
<1> QED
  BY <1>1, <1>2

LEMMA UntilTyped ==
  ASSUME UntilTypeOK, UntilNext
  PROVE  UntilTypeOK' /\ (~node'.late => ~node.late)
<1>0. /\ node \in Node /\ status \in [UntilGoals -> UntilStatus] /\ acts \in [Actions -> [UntilGoals -> Act]]
      /\ UntilGoals \subseteq Handles /\ (node.pc # "idle" => node.goal # 0) /\ Actions = {"trajectory", "until"}
  BY DEF UntilTypeOK, Handles, Actions
<1>1. ASSUME NEW g \in UntilGoals, ReceiveGoal(g) PROVE UntilTypeOK' /\ (~node'.late => ~node.late)
  <2>1. /\ acts' = acts \/ acts' = ToState(acts, "until", g, "sent")
        /\ status' = status \/ status' = [status EXCEPT ![g] = "rejected"]
        /\ \/ node' = node \/ node' = [node EXCEPT !.client = g]
           \/ node' = [node EXCEPT !.pc = "until", !.goal = g, !.client = g]
    BY <1>1 DEF ReceiveGoal, Sent, ToState
  <2>2. acts' \in [Actions -> [UntilGoals -> Act]]
    BY <1>0, <2>1, StateSet DEF ActState
  <2>3. status' \in [UntilGoals -> UntilStatus]
    BY <1>0, <2>1 DEF UntilStatus
  <2>4. node' \in Node /\ node'.late = node.late 
    BY <1>0, <2>1 DEF Node
  <2>5. g # 0
    BY TrajectoryUntilAssumption DEF UntilGoals
  <2>6. node'.pc # "idle" => node'.goal # 0
    BY <1>0, <2>1, <2>5 DEF Node
  <2> QED
    BY <2>2, <2>3, <2>4, <2>6 DEF UntilTypeOK
<1>2. ASSUME NEW n \in Node, n.late = node.late, Rejected(n)
      PROVE  /\ node' \in Node /\ status' \in [UntilGoals -> UntilStatus] /\ (~node'.late => ~node.late)
             /\ node'.pc = "idle"
  <2>1. PICK late \in BOOLEAN : /\ node' = [n EXCEPT !.pc = "idle", !.late = late]
                                /\ n.late => late
    <3>1. (n.late \/ acts[node.pc][node.goal].heard = "nothing") \in BOOLEAN
      BY DEF Node
    <3> QED
      BY <1>2, <3>1, Zenon DEF Rejected
  <2>2. node' \in Node /\ node'.late = late /\ node'.pc = "idle"
    BY <2>1 DEF Node
  <2>3. status' \in [UntilGoals -> UntilStatus]
    BY <1>0, <1>2 DEF Rejected, UntilStatus
  <2> QED
    BY <1>2, <2>1, <2>2, <2>3
<1>3. CASE UntilAccepted
  <2>1. CASE node.accepted["until"]
    <3>1. /\ acts' = ToState(acts, "trajectory", node.goal, "sent")
          /\ node' = [node EXCEPT !.pc = "trajectory"] /\ status' = status
      BY <1>3, <2>1 DEF UntilAccepted, Sent, ToState
    <3>2. node.goal \in UntilGoals
      BY <1>0, <1>3 DEF Node, UntilAccepted, Handles
    <3>3. acts' \in [Actions -> [UntilGoals -> Act]]
      BY <1>0, <3>1, <3>2, StateSet DEF ActState
    <3>4. node' \in Node /\ node'.late = node.late /\ node'.goal = node.goal
      BY <1>0, <3>1 DEF Node
    <3>5. node.goal # 0
      BY <1>0, <1>3 DEF UntilAccepted
    <3> QED
      BY <1>0, <3>1, <3>3, <3>4, <3>5 DEF UntilTypeOK
  <2>2. CASE ~node.accepted["until"]
    <3>1. Rejected(node) /\ acts' = acts
      BY <1>3, <2>2 DEF UntilAccepted
    <3> QED
      BY <1>0, <1>2, <3>1 DEF UntilTypeOK
  <2> QED
    BY <2>1, <2>2
<1>4. CASE TrajectoryAccepted
  <2>1. CASE node.accepted["trajectory"]
    <3>1. /\ acts' = acts /\ node' = [node EXCEPT !.pc = "accepting"]
          /\ status' = [status EXCEPT ![node.goal] = "executing"]
      BY <1>4, <2>1 DEF TrajectoryAccepted
    <3>2. node' \in Node /\ node'.late = node.late /\ node'.goal = node.goal
      BY <1>0, <3>1 DEF Node
    <3>3. node.goal # 0
      BY <1>0, <1>4 DEF TrajectoryAccepted
    <3>4. status' \in [UntilGoals -> UntilStatus]
      BY <1>0, <3>1 DEF UntilStatus
    <3> QED
      BY <1>0, <3>1, <3>2, <3>3, <3>4 DEF UntilTypeOK
  <2>2. CASE ~node.accepted["trajectory"]
    <3>1. acts' = ResetNode(node, acts).a /\ Rejected(ResetNode(node, acts).n)
      BY <1>4, <2>2 DEF TrajectoryAccepted
    <3> QED
      BY <1>0, <1>2, <3>1, ResetIs DEF UntilTypeOK
  <2> QED
    BY <2>1, <2>2
<1>5. CASE GoalAccepted
  <2>1. node' = [node EXCEPT !.pc = "idle", !.handle = node.goal] /\ acts' = acts /\ status' = status
    BY <1>5 DEF GoalAccepted
  <2>2. node' \in Node /\ node'.late = node.late /\ node'.pc = "idle"
    BY <1>0, <2>1 DEF Node
  <2> QED
    BY <1>0, <2>1, <2>2 DEF UntilTypeOK
<1>6. ASSUME NEW g \in UntilGoals, GoalCancelled(g) PROVE UntilTypeOK' /\ (~node'.late => ~node.late)
  <2>1. /\ acts' = acts \/ acts' = Cancelled(node, acts)
        /\ status' = status \/ status' = [status EXCEPT ![g] = "canceling"]
        /\ node' = node \/ node' = [node EXCEPT !.dead = TRUE]
    BY <1>6 DEF GoalCancelled
  <2>2. acts' \in [Actions -> [UntilGoals -> Act]]
    BY <1>0, <2>1, CalledOff
  <2>3. status' \in [UntilGoals -> UntilStatus]
    BY <1>0, <2>1 DEF UntilStatus
  <2>4. node' \in Node /\ node'.late = node.late /\ node'.pc = node.pc /\ node'.goal = node.goal
    BY <1>0, <2>1 DEF Node
  <2> QED
    BY <1>0, <2>2, <2>3, <2>4 DEF UntilTypeOK
<1>7. ASSUME NEW T \in Actions, NEW g \in UntilGoals, Response(T, g)
      PROVE  UntilTypeOK' /\ (~node'.late => ~node.late)
  <2>1. /\ acts' = ToHeard(acts, T, g, "response") /\ status' = status
        /\ node' = node \/ node' = [node EXCEPT !.current[T] = g, !.accepted[T] = TRUE]
    BY <1>7 DEF Response, ToHeard
  <2>2. acts' \in [Actions -> [UntilGoals -> Act]]
    BY <1>0, <2>1, HeardSet
  <2>3. node' \in Node /\ node'.late = node.late /\ node'.pc = node.pc /\ node'.goal = node.goal
    <3>1. CASE node' = node
      BY <1>0, <3>1
    <3>2. CASE node' = [node EXCEPT !.current[T] = g, !.accepted[T] = TRUE]
      <4>1. [node.current EXCEPT ![T] = g] \in [Actions -> Handles] /\ [node.accepted EXCEPT ![T] = TRUE] \in [Actions -> BOOLEAN]
        BY <1>0 DEF Node
      <4>2. node' = [node EXCEPT !.current = [node.current EXCEPT ![T] = g], !.accepted = [node.accepted EXCEPT ![T] = TRUE]]
        BY <1>0, <3>2 DEF Node
      <4> QED
        BY <1>0, <4>1, <4>2 DEF Node
    <3> QED
      BY <2>1, <3>1, <3>2
  <2> QED
    BY <1>0, <2>1, <2>2, <2>3 DEF UntilTypeOK
<1>8. ASSUME NEW T \in Actions, NEW g \in UntilGoals, Result(T, g)
      PROVE  UntilTypeOK' /\ (~node'.late => ~node.late)
  <2> DEFINE heard == ToHeard(acts, T, g, "result")
             hit == node.handle # g /\ (node.handle # 0 \/ node.pc # "idle")
             n == [node EXCEPT !.current[T] = 0, !.late = @ \/ hit]
             code == acts[T][g].state
  <2>1. code \in Terminal
    BY <1>8 DEF Result
  <2>2. heard \in [Actions -> [UntilGoals -> Act]]
    BY <1>0, HeardSet
  <2>3. n \in Node /\ (~n.late => ~node.late)
    <3>1. PICK late \in BOOLEAN : late = (node.late \/ hit)
      BY <1>0 DEF Node
    <3>2. n = [node EXCEPT !.current[T] = 0, !.late = late]
      BY <3>1, Zenon
    <3>3. [node EXCEPT !.current[T] = 0, !.late = late] \in Node /\ [node EXCEPT !.current[T] = 0, !.late = late].late = late
      BY <1>0 DEF Node, Handles
    <3>4. node.late => late
      BY <3>1
    <3> QED
      BY <3>2, <3>3, <3>4
  <2> HIDE DEF heard, n
  <2>4. \/ /\ node' = ResetNode(n, heard).n /\ acts' = ResetNode(n, heard).a
           /\ status' = status \/ status' = [status EXCEPT ![node.handle] = code]
        \/ node' = [n EXCEPT !.dead = TRUE] /\ acts' = heard /\ status' = status
    BY <1>8 DEF Result, heard, n, ToHeard
  <2>5. /\ node' \in Node /\ node'.late = n.late
        /\ node'.pc = node.pc /\ node'.goal = node.goal
    <3>1. ResetNode(n, heard).n \in Node /\ ResetNode(n, heard).n.late = n.late /\ ResetNode(n, heard).n.pc = n.pc /\ ResetNode(n, heard).n.goal = n.goal
      BY <2>2, <2>3, ResetIs
    <3>2. [n EXCEPT !.dead = TRUE] \in Node /\ [n EXCEPT !.dead = TRUE].late = n.late /\ [n EXCEPT !.dead = TRUE].pc = n.pc /\ [n EXCEPT !.dead = TRUE].goal = n.goal
      BY <2>3 DEF Node
    <3>3. n.pc = node.pc /\ n.goal = node.goal
      BY <1>0 DEF n, Node
    <3> QED
      BY <2>4, <3>1, <3>2, <3>3
  <2>6. acts' \in [Actions -> [UntilGoals -> Act]]
    BY <2>2, <2>3, <2>4, ResetIs
  <2>7. status' \in [UntilGoals -> UntilStatus]
    BY <1>0, <2>1, <2>4 DEF UntilStatus
  <2> QED
    BY <1>0, <2>3, <2>5, <2>6, <2>7 DEF UntilTypeOK
<1>9. ASSUME NEW T \in Actions, NEW g \in UntilGoals, ActionServer(T, g)
      PROVE  UntilTypeOK' /\ (~node'.late => ~node.late)
  <2>1. PICK s \in ActState : acts' = ToState(acts, T, g, s) /\ node' = node /\ status' = status
    BY <1>9 DEF ActionServer, To, ToState, ActState, Terminal
  <2> QED
    BY <1>0, <2>1, StateSet DEF UntilTypeOK
<1> QED
  BY <1>1, <1>3, <1>4, <1>5, <1>6, <1>7, <1>8, <1>9
  DEF UntilNext, Alive, ServerThread, ClientsThread, ActionServers

\* A goal comes: it is refused, or its contact is asked for.
LEMMA ReceivedInTime ==
  ASSUME UntilTypeOK, InTime, NEW g \in UntilGoals, ReceiveGoal(g)
  PROVE  InTime'
<1>0. /\ node \in Node /\ status \in [UntilGoals -> UntilStatus] /\ acts \in [Actions -> [UntilGoals -> Act]]
      /\ ~node.dead /\ MembersTell /\ StatusTells /\ ActsInTurn
  BY DEF UntilTypeOK, InTime
<1>1. node.pc = "idle" /\ status[g] = "none" /\ g # 0 /\ g \in Handles
  BY TrajectoryUntilAssumption DEF ReceiveGoal, UntilGoals, Handles
<1>2. CASE /\ node.handle = 0 /\ acts' = ToState(acts, "until", g, "sent") /\ status' = status
           /\ node' = [node EXCEPT !.pc = "until", !.goal = g, !.client = g]
  <2>1. /\ node'.pc = "until" /\ node'.goal = g /\ node'.client = g /\ node'.handle = 0
        /\ node'.current = node.current /\ node'.accepted = node.accepted /\ ~node'.dead
    BY <1>0, <1>2 DEF Node
  <2>2. GoalAtWork = 0 /\ GoalAtWork' = g
    BY <1>1, <1>2, <2>1 DEF GoalAtWork
  <2>3. \A U \in Actions, h \in UntilGoals :
           /\ acts'[U][h].heard = acts[U][h].heard
           /\ acts'[U][h].state = IF U = "until" /\ h = g THEN "sent" ELSE acts[U][h].state
    BY <1>0, <1>2, StateSet DEF Actions, ActState
  <2>4. MembersTell'
    BY <1>0, <2>1, <2>2 DEF MembersTell
  <2>5. StatusTells'
    <3>1. \A h \in UntilGoals : status[h] \notin {"executing", "canceling"}
      BY <1>0, <2>2, TrajectoryUntilAssumption DEF StatusTells, UntilGoals
    <3>2. \A U \in Actions : acts'[U][g].state = "succeeded" \/ acts[U][g].state # "succeeded"
      BY <1>1, <2>2, <2>3, <1>0 DEF ActsInTurn, ActInTurn
    <3>3. \A h \in UntilGoals : status[h] = "succeeded" => \E U \in Actions : acts'[U][h].state = "succeeded"
      BY <1>0, <2>3, <3>2 DEF StatusTells
    <3> QED
      BY <1>1, <1>2, <2>1, <2>2, <3>1, <3>3 DEF StatusTells
  <2>6. ASSUME NEW U \in Actions, NEW h \in UntilGoals PROVE ActInTurn(U, h)'
    <3>1. ActInTurn(U, h) /\ ActInTurn("until", h)
      BY <1>0 DEF ActsInTurn, Actions
    <3>2. ~node.accepted[U]
      BY <1>0, <2>2 DEF MembersTell
    <3>3. h # GoalAtWork
      BY <2>2, TrajectoryUntilAssumption DEF UntilGoals
    <3>4. CASE h = g
      <4>1. acts[U][h].state = "none" /\ acts[U][h].heard = "nothing" /\ acts["until"][h].state = "none"
        BY <1>0, <1>1, <3>1, <3>3, <3>4 DEF ActInTurn, Act
      <4> QED
        BY <1>2, <2>1, <2>2, <2>3, <3>2, <3>4, <4>1 DEF ActInTurn, Actions
    <3>5. CASE h # g
      BY <1>2, <2>2, <2>3, <3>1, <3>3, <3>5 DEF ActInTurn, Actions
    <3> QED
      BY <3>4, <3>5
  <2> QED
    BY <2>1, <2>4, <2>5, <2>6 DEF InTime, ActsInTurn
<1>3. CASE /\ status' = [status EXCEPT ![g] = "rejected"] /\ acts' = acts
           /\ node' = node \/ (node.handle = 0 /\ node' = [node EXCEPT !.client = g])
  <2>1. /\ node'.pc = "idle" /\ node'.goal = node.goal /\ node'.handle = node.handle
        /\ node'.current = node.current /\ node'.accepted = node.accepted /\ ~node'.dead
        /\ node'.client = node.client \/ node.handle = 0
    BY <1>0, <1>1, <1>3 DEF Node
  <2>2. GoalAtWork = node.handle /\ GoalAtWork' = node.handle
    BY <1>1, <2>1 DEF GoalAtWork
  <2>3. node.handle # g
    BY <1>0, <1>1, <2>2 DEF StatusTells
  <2>4. \A h \in UntilGoals : status'[h] = IF h = g THEN "rejected" ELSE status[h]
    BY <1>0, <1>3
  <2>5. MembersTell'
    BY <1>0, <1>1, <2>1, <2>2 DEF MembersTell
  <2>6. StatusTells'
    <3>1. node'.handle # 0 => status'[node'.handle] \in {"executing", "canceling"}
      BY <1>0, <2>1, <2>3, <2>4 DEF StatusTells, Node, Handles
    <3> QED
      BY <1>0, <1>1, <1>3, <2>1, <2>2, <2>4, <3>1 DEF StatusTells
  <2>7. ASSUME NEW U \in Actions, NEW h \in UntilGoals PROVE ActInTurn(U, h)'
    <3>1. ActInTurn(U, h)
      BY <1>0 DEF ActsInTurn
    <3> QED
      BY <1>1, <1>3, <2>1, <2>2, <2>3, <2>4, <3>1 DEF ActInTurn
  <2> QED
    BY <2>1, <2>5, <2>6, <2>7 DEF InTime, ActsInTurn
<1> QED
  BY <1>2, <1>3 DEF ReceiveGoal, Sent, ToState

\* The contact is watched for: the trajectory is sent.  It is not: the goal is refused.
LEMMA UntilAcceptedInTime ==
  ASSUME UntilTypeOK, InTime, UntilAccepted, ~node'.late
  PROVE  InTime'
<1>0. /\ node \in Node /\ status \in [UntilGoals -> UntilStatus] /\ acts \in [Actions -> [UntilGoals -> Act]]
      /\ ~node.dead /\ MembersTell /\ StatusTells /\ ActsInTurn
  BY DEF UntilTypeOK, InTime
<1>1. /\ node.pc = "until" /\ node.goal # 0 /\ node.goal \in UntilGoals /\ node.handle = 0 /\ GoalAtWork = node.goal
      /\ status[node.goal] = "none" /\ ~node.accepted["trajectory"] /\ node.client = node.goal
      /\ acts["trajectory"][node.goal].state = "none"
  <2>1. node.pc = "until" /\ node.goal # 0 /\ node.goal \in UntilGoals /\ GoalAtWork = node.goal
    BY <1>0 DEF UntilAccepted, UntilTypeOK, Node, Handles, GoalAtWork
  <2>2. node.handle = 0 /\ status[node.goal] = "none" /\ node.client = node.goal
    BY <1>0, <2>1 DEF MembersTell, StatusTells
  <2>3. ActInTurn("trajectory", node.goal)
    BY <1>0, <2>1 DEF ActsInTurn, Actions
  <2> QED
    BY <2>1, <2>2, <2>3 DEF ActInTurn
<1>2. CASE node.accepted["until"]
  <2>1. /\ acts' = ToState(acts, "trajectory", node.goal, "sent") /\ status' = status
        /\ node' = [node EXCEPT !.pc = "trajectory"]
    BY <1>2 DEF UntilAccepted, Sent, ToState
  <2>2. /\ node'.pc = "trajectory" /\ node'.goal = node.goal /\ node'.client = node.client /\ node'.handle = node.handle
        /\ node'.current = node.current /\ node'.accepted = node.accepted /\ ~node'.dead
    BY <1>0, <2>1 DEF Node
  <2>3. GoalAtWork' = GoalAtWork
    BY <1>1, <2>2 DEF GoalAtWork
  <2>4. \A U \in Actions, h \in UntilGoals :
           /\ acts'[U][h].heard = acts[U][h].heard
           /\ acts'[U][h].state = IF U = "trajectory" /\ h = node.goal THEN "sent" ELSE acts[U][h].state
    BY <1>0, <1>1, <2>1, StateSet DEF Actions, ActState
  <2>5. MembersTell'
    BY <1>0, <1>1, <1>2, <2>2, <2>3 DEF MembersTell
  <2>6. StatusTells'
    <3>1. \A h \in UntilGoals : status[h] = "succeeded" => \E U \in Actions : acts'[U][h].state = "succeeded"
      BY <1>0, <1>1, <2>4 DEF StatusTells
    <3> QED
      BY <1>0, <1>1, <2>1, <2>2, <2>3, <3>1 DEF StatusTells
  <2>7. ASSUME NEW U \in Actions, NEW h \in UntilGoals PROVE ActInTurn(U, h)'
    <3>1. ActInTurn(U, h) /\ ActInTurn("until", h) /\ ActInTurn("trajectory", node.goal)
      BY <1>0, <1>1 DEF ActsInTurn, Actions
    <3>2. acts["trajectory"][node.goal].heard = "nothing" /\ acts["until"][node.goal].state \notin {"none", "sent", "rejected"}
      <4>1. ActInTurn("until", node.goal)
        BY <1>0, <1>1 DEF ActsInTurn, Actions
      <4> QED
        BY <1>1, <1>2, <3>1, <4>1 DEF ActInTurn
    <3>3. CASE h = node.goal /\ U = "trajectory"
      BY <1>1, <2>1, <2>2, <2>3, <2>4, <3>1, <3>2, <3>3 DEF ActInTurn, Actions
    <3>4. CASE ~(h = node.goal /\ U = "trajectory")
      BY <1>1, <2>1, <2>2, <2>3, <2>4, <3>1, <3>4 DEF ActInTurn, Actions
    <3> QED
      BY <3>3, <3>4
  <2> QED
    BY <2>2, <2>5, <2>6, <2>7 DEF InTime, ActsInTurn
<1>3. CASE ~node.accepted["until"]
  <2>1. Rejected(node) /\ acts' = acts
    BY <1>3 DEF UntilAccepted
  <2>2. PICK late \in BOOLEAN : /\ node' = [node EXCEPT !.pc = "idle", !.late = late]
                                /\ acts["until"][node.goal].heard = "nothing" => late
    <3>1. (node.late \/ acts[node.pc][node.goal].heard = "nothing") \in BOOLEAN
      BY <1>0 DEF Node
    <3>2. acts["until"][node.goal].heard = "nothing" => (node.late \/ acts[node.pc][node.goal].heard = "nothing")
      BY <1>1
    <3> QED
      BY <2>1, <3>1, <3>2, Zenon DEF Rejected
  <2>3. /\ node'.pc = "idle" /\ node'.goal = node.goal /\ node'.client = node.client /\ node'.handle = node.handle
        /\ node'.current = node.current /\ node'.accepted = node.accepted /\ ~node'.dead /\ node'.late = late
    BY <1>0, <2>2 DEF Node
  <2>4. acts["until"][node.goal].heard # "nothing"
    BY <2>2, <2>3
  <2>5. GoalAtWork' = 0
    BY <1>1, <2>3 DEF GoalAtWork
  <2>6. \A h \in UntilGoals : status'[h] = IF h = node.goal THEN "rejected" ELSE status[h]
    BY <1>0, <2>1 DEF Rejected
  <2>7. MembersTell'
    BY <1>0, <1>1, <1>3, <2>3, <2>5 DEF MembersTell, Actions
  <2>8. StatusTells'
    BY <1>0, <1>1, <2>1, <2>3, <2>5, <2>6 DEF StatusTells
  <2>9. ASSUME NEW U \in Actions, NEW h \in UntilGoals PROVE ActInTurn(U, h)'
    <3>1. ActInTurn(U, h) /\ ActInTurn("until", node.goal) /\ ActInTurn("trajectory", node.goal)
      BY <1>0, <1>1 DEF ActsInTurn, Actions
    <3>2. h # GoalAtWork'
      BY <2>5, TrajectoryUntilAssumption DEF UntilGoals
    <3>3. CASE h # node.goal
      BY <1>1, <2>1, <2>6, <3>1, <3>2, <3>3 DEF ActInTurn
    <3>4. CASE h = node.goal
      <4>1. status'[h] = "rejected"
        BY <2>6, <3>4
      <4>2. acts["until"][node.goal].state = "rejected"
        BY <1>1, <1>3, <2>4, <3>1 DEF ActInTurn
      <4>3. U \in {"trajectory", "until"}
        BY DEF Actions
      <4> QED
        BY <1>1, <2>1, <2>4, <3>1, <3>2, <3>4, <4>1, <4>2, <4>3 DEF ActInTurn
    <3> QED
      BY <3>3, <3>4
  <2> QED
    BY <2>3, <2>7, <2>8, <2>9 DEF InTime, ActsInTurn
<1> QED
  BY <1>2, <1>3

\* The trajectory is accepted: the goal is.  It is not: the contact is called off.
LEMMA TrajectoryAcceptedInTime ==
  ASSUME UntilTypeOK, InTime, TrajectoryAccepted, ~node'.late
  PROVE  InTime'
<1>0. /\ node \in Node /\ status \in [UntilGoals -> UntilStatus] /\ acts \in [Actions -> [UntilGoals -> Act]]
      /\ ~node.dead /\ MembersTell /\ StatusTells /\ ActsInTurn
  BY DEF UntilTypeOK, InTime
<1>1. /\ node.pc = "trajectory" /\ node.goal # 0 /\ node.goal \in UntilGoals /\ node.handle = 0 /\ GoalAtWork = node.goal
      /\ status[node.goal] = "none" /\ node.accepted["until"] /\ node.client = node.goal
      /\ node.current["until"] = node.goal
  <2>1. node.pc = "trajectory" /\ node.goal # 0 /\ node.goal \in UntilGoals /\ GoalAtWork = node.goal
    BY <1>0 DEF TrajectoryAccepted, UntilTypeOK, Node, Handles, GoalAtWork
  <2> QED
    BY <1>0, <2>1 DEF MembersTell, StatusTells, Actions
<1>2. CASE node.accepted["trajectory"]
  <2>1. /\ acts' = acts /\ status' = [status EXCEPT ![node.goal] = "executing"]
        /\ node' = [node EXCEPT !.pc = "accepting"]
    BY <1>2 DEF TrajectoryAccepted
  <2>2. /\ node'.pc = "accepting" /\ node'.goal = node.goal /\ node'.client = node.client /\ node'.handle = node.handle
        /\ node'.current = node.current /\ node'.accepted = node.accepted /\ ~node'.dead
    BY <1>0, <2>1 DEF Node
  <2>3. GoalAtWork' = GoalAtWork
    BY <1>1, <2>2 DEF GoalAtWork
  <2>4. \A h \in UntilGoals : status'[h] = IF h = node.goal THEN "executing" ELSE status[h]
    BY <1>0, <2>1
  <2>5. MembersTell'
    BY <1>0, <1>1, <1>2, <2>2, <2>3 DEF MembersTell, Actions
  <2>6. StatusTells'
    BY <1>0, <1>1, <2>1, <2>2, <2>3, <2>4 DEF StatusTells
  <2>7. ASSUME NEW U \in Actions, NEW h \in UntilGoals PROVE ActInTurn(U, h)'
    <3>1. ActInTurn(U, h)
      BY <1>0 DEF ActsInTurn
    <3> QED
      BY <1>1, <2>1, <2>2, <2>3, <2>4, <3>1 DEF ActInTurn
  <2> QED
    BY <2>2, <2>5, <2>6, <2>7 DEF InTime, ActsInTurn
<1>3. CASE ~node.accepted["trajectory"]
  <2> DEFINE r == ResetNode(node, acts)
  <2>1. acts' = r.a /\ Rejected(r.n)
    BY <1>3 DEF TrajectoryAccepted
  <2>2. ~Unknown(node)
    BY <1>1 DEF Unknown
  <2>3. /\ r.n \in Node /\ r.n.handle = 0 /\ ~r.n.dead /\ r.n.client = node.client /\ r.n.goal = node.goal
        /\ \A T \in Actions : r.n.current[T] = 0 /\ ~r.n.accepted[T]
        /\ acts' = Cancelled(node, acts)
    BY <1>0, <2>1, <2>2, ResetIs
  <2>4. PICK late \in BOOLEAN : /\ node' = [r.n EXCEPT !.pc = "idle", !.late = late]
                                /\ acts["trajectory"][node.goal].heard = "nothing" => late
    <3>1. (r.n.late \/ acts[node.pc][node.goal].heard = "nothing") \in BOOLEAN
      BY <2>3 DEF Node
    <3>2. acts["trajectory"][node.goal].heard = "nothing" => (r.n.late \/ acts[node.pc][node.goal].heard = "nothing")
      BY <1>1
    <3> QED
      BY <2>1, <3>1, <3>2, Zenon DEF Rejected
  <2> HIDE DEF r
  <2>5. /\ node'.pc = "idle" /\ node'.handle = 0 /\ node'.client = node.client
        /\ \A T \in Actions : node'.current[T] = 0 /\ ~node'.accepted[T]
        /\ ~node'.dead /\ node'.late = late
    BY <2>3, <2>4 DEF Node
  <2>6. acts["trajectory"][node.goal].heard # "nothing"
    BY <2>4, <2>5
  <2>7. GoalAtWork' = 0
    BY <2>5 DEF GoalAtWork
  <2>8. \A h \in UntilGoals : status'[h] = IF h = node.goal THEN "rejected" ELSE status[h]
    BY <1>0, <2>1 DEF Rejected
  <2>9. \A U \in Actions, h \in UntilGoals :
           /\ acts'[U][h].heard = acts[U][h].heard
           /\ acts'[U][h].state = IF h = node.current[U] /\ acts[U][h].state = "active" THEN "canceling" ELSE acts[U][h].state
    BY <1>0, <2>3, CalledOff
  <2>10. MembersTell'
    BY <2>5, <2>7 DEF MembersTell
  <2>11. StatusTells'
    <3>1. \A h \in UntilGoals : status'[h] = "succeeded" => \E U \in Actions : acts'[U][h].state = "succeeded"
      BY <1>0, <2>8, <2>9 DEF StatusTells
    <3>2. \A h \in UntilGoals : status'[h] \notin {"executing", "canceling"}
      BY <1>0, <1>1, <2>8 DEF StatusTells
    <3> QED
      BY <2>5, <2>7, <3>1, <3>2 DEF StatusTells
  <2>12. ASSUME NEW U \in Actions, NEW h \in UntilGoals PROVE ActInTurn(U, h)'
    <3>1. ActInTurn(U, h) /\ ActInTurn("until", h) /\ ActInTurn("trajectory", node.goal) /\ "until" \in Actions
      BY <1>0, <1>1 DEF ActsInTurn, Actions
    <3>2. h # GoalAtWork'
      BY <2>7, TrajectoryUntilAssumption DEF UntilGoals
    <3>3. CASE h # node.goal
      <4>1. h # node.current[U] /\ h # node.current["until"]
        BY <1>0, <1>1, <3>3, TrajectoryUntilAssumption DEF MembersTell, UntilGoals, Actions
      <4>2. acts'[U][h].state = acts[U][h].state /\ acts'[U][h].heard = acts[U][h].heard /\ status'[h] = status[h]
        BY <2>8, <2>9, <3>3, <4>1
      <4>3. acts'["until"][h].state = acts["until"][h].state
        BY <2>9, <3>1, <4>1
      <4> QED
        BY <1>1, <3>1, <3>2, <3>3, <4>2, <4>3 DEF ActInTurn
    <3>4. CASE h = node.goal
      <4>1. status'[h] = "rejected"
        BY <2>8, <3>4
      <4>2. acts["trajectory"][h].state = "rejected" /\ acts["until"][h].heard # "nothing"
        BY <1>1, <1>3, <2>6, <3>1, <3>4 DEF ActInTurn
      <4>3. acts["until"][h].state \notin {"none", "sent", "rejected"}
        BY <1>1, <3>1, <3>4 DEF ActInTurn
      <4>4. acts'["until"][h].state \notin {"none", "sent", "rejected", "active"}
        BY <1>1, <2>9, <3>1, <3>4, <4>3
      <4>5. acts'["trajectory"][h].state = "rejected"
        BY <2>9, <4>2 DEF Actions
      <4>6. U \in {"trajectory", "until"} /\ acts'[U][h].heard = acts[U][h].heard
        BY <2>9 DEF Actions
      <4> QED
        BY <2>6, <3>2, <3>4, <4>1, <4>2, <4>4, <4>5, <4>6 DEF ActInTurn
    <3> QED
      BY <3>3, <3>4
  <2> QED
    BY <2>5, <2>10, <2>11, <2>12 DEF InTime, ActsInTurn
<1> QED
  BY <1>2, <1>3

LEMMA GoalAcceptedInTime ==
  ASSUME UntilTypeOK, InTime, GoalAccepted
  PROVE  InTime'
<1>0. /\ node \in Node /\ ~node.dead /\ MembersTell /\ StatusTells /\ ActsInTurn
  BY DEF UntilTypeOK, InTime
<1>1. /\ node.pc = "accepting" /\ node.goal # 0 /\ GoalAtWork = node.goal
      /\ status[node.goal] = "executing" /\ node.client = node.goal
      /\ \A T \in Actions : node.accepted[T]
  BY <1>0 DEF GoalAccepted, UntilTypeOK, GoalAtWork, MembersTell, StatusTells
<1>2. node' = [node EXCEPT !.pc = "idle", !.handle = node.goal] /\ acts' = acts /\ status' = status
  BY DEF GoalAccepted
<1>3. /\ node'.pc = "idle" /\ node'.goal = node.goal /\ node'.client = node.client /\ node'.handle = node.goal
      /\ node'.current = node.current /\ node'.accepted = node.accepted /\ ~node'.dead
  BY <1>0, <1>2 DEF Node
<1>4. GoalAtWork' = GoalAtWork
  BY <1>1, <1>3 DEF GoalAtWork
<1>5. MembersTell'
  BY <1>0, <1>1, <1>3, <1>4 DEF MembersTell
<1>6. StatusTells'
  BY <1>0, <1>1, <1>2, <1>3, <1>4 DEF StatusTells
<1>7. ASSUME NEW U \in Actions, NEW h \in UntilGoals PROVE ActInTurn(U, h)'
  <2>1. ActInTurn(U, h)
    BY <1>0 DEF ActsInTurn
  <2> QED
    BY <1>1, <1>2, <1>3, <1>4, <2>1 DEF ActInTurn
<1> QED
  BY <1>3, <1>5, <1>6, <1>7 DEF InTime, ActsInTurn

LEMMA GoalCancelledInTime ==
  ASSUME UntilTypeOK, InTime, NEW g \in UntilGoals, GoalCancelled(g)
  PROVE  InTime'
<1>0. /\ node \in Node /\ status \in [UntilGoals -> UntilStatus] /\ acts \in [Actions -> [UntilGoals -> Act]]
      /\ ~node.dead /\ MembersTell /\ StatusTells /\ ActsInTurn
  BY DEF UntilTypeOK, InTime
<1>1. /\ node.pc = "idle" /\ status[g] = "executing" /\ GoalAtWork = g /\ node.handle = g /\ g # 0
      /\ \A T \in Actions : node.accepted[T] /\ node.current[T] = g
      /\ node.client = g
  <2>1. node.pc = "idle" /\ status[g] = "executing" /\ GoalAtWork = g /\ node.handle = g /\ g # 0
    BY <1>0, TrajectoryUntilAssumption DEF GoalCancelled, StatusTells, GoalAtWork, UntilGoals
  <2> QED
    BY <1>0, <2>1 DEF MembersTell
<1>2. ~Unknown(node)
  BY <1>1 DEF Unknown, Actions
<1>3. acts' = Cancelled(node, acts) /\ node' = node /\ status' = [status EXCEPT ![g] = "canceling"]
  BY <1>2 DEF GoalCancelled
<1>4. \A U \in Actions, h \in UntilGoals :
         /\ acts'[U][h].heard = acts[U][h].heard
         /\ acts'[U][h].state = IF h = g /\ acts[U][h].state = "active" THEN "canceling" ELSE acts[U][h].state
  BY <1>0, <1>1, <1>3, CalledOff
<1>5. \A h \in UntilGoals : status'[h] = IF h = g THEN "canceling" ELSE status[h]
  BY <1>0, <1>3
<1>6. GoalAtWork' = g
  BY <1>1, <1>3 DEF GoalAtWork
<1>7. MembersTell'
  BY <1>0, <1>1, <1>3, <1>6 DEF MembersTell
<1>8. StatusTells'
  <2>1. \A h \in UntilGoals : status'[h] = "succeeded" => \E U \in Actions : acts'[U][h].state = "succeeded"
    BY <1>0, <1>4, <1>5 DEF StatusTells
  <2> QED
    BY <1>0, <1>1, <1>3, <1>5, <1>6, <2>1 DEF StatusTells
<1>9. ASSUME NEW U \in Actions, NEW h \in UntilGoals PROVE ActInTurn(U, h)'
  <2>1. ActInTurn(U, h) /\ "until" \in Actions
    BY <1>0 DEF ActsInTurn, Actions
  <2>2. /\ acts'[U][h].heard = acts[U][h].heard
        /\ acts'[U][h].state = IF h = g /\ acts[U][h].state = "active" THEN "canceling" ELSE acts[U][h].state
        /\ acts'["until"][h].state = IF h = g /\ acts["until"][h].state = "active" THEN "canceling" ELSE acts["until"][h].state
        /\ status'[h] = IF h = g THEN "canceling" ELSE status[h]
    BY <1>4, <1>5, <2>1
  <2> QED
    BY <1>1, <1>3, <1>6, <2>1, <2>2 DEF ActInTurn
<1> QED
  BY <1>0, <1>3, <1>7, <1>8, <1>9 DEF InTime, ActsInTurn

\* An action server accepts, refuses or ends a goal.
LEMMA ServedInTime ==
  ASSUME UntilTypeOK, InTime, NEW T \in Actions, NEW g \in UntilGoals, ActionServer(T, g)
  PROVE  InTime'
<1>0. /\ acts \in [Actions -> [UntilGoals -> Act]]
      /\ ~node.dead /\ MembersTell /\ StatusTells /\ ActsInTurn
  BY DEF UntilTypeOK, InTime
<1>1. PICK s \in ActState :
         /\ acts' = ToState(acts, T, g, s) /\ node' = node /\ status' = status
         /\ \/ acts[T][g].state = "sent" /\ s \in {"rejected", "active"}
            \/ acts[T][g].state = "canceling" /\ s \in Terminal
            \/ acts[T][g].state = "active" /\ s \in {"succeeded", "aborted"}
  BY DEF ActionServer, To, ToState, ActState, Terminal
<1>2. \A U \in Actions, h \in UntilGoals :
         /\ acts'[U][h].heard = acts[U][h].heard
         /\ acts'[U][h].state = IF U = T /\ h = g THEN s ELSE acts[U][h].state
  BY <1>0, <1>1, StateSet
<1>3. GoalAtWork' = GoalAtWork
  BY <1>1 DEF GoalAtWork
<1>4. MembersTell'
  BY <1>0, <1>1, <1>3 DEF MembersTell
<1>5. StatusTells'
  <2>1. \A h \in UntilGoals : status[h] = "succeeded" => \E U \in Actions : acts'[U][h].state = "succeeded"
    BY <1>0, <1>1, <1>2 DEF StatusTells
  <2> QED
    BY <1>0, <1>1, <1>3, <2>1 DEF StatusTells
<1>6. ASSUME NEW U \in Actions, NEW h \in UntilGoals PROVE ActInTurn(U, h)'
  <2>1. ActInTurn(U, h) /\ ActInTurn("trajectory", h) /\ "until" \in Actions
    BY <1>0 DEF ActsInTurn, Actions
  <2>2. /\ acts'[U][h].heard = acts[U][h].heard
        /\ acts'[U][h].state = IF U = T /\ h = g THEN s ELSE acts[U][h].state
        /\ acts'["until"][h].state = IF "until" = T /\ h = g THEN s ELSE acts["until"][h].state
    BY <1>2, <2>1
  <2>3. CASE U = T /\ h = g
    BY <1>1, <1>3, <2>1, <2>2, <2>3 DEF ActInTurn, Terminal
  <2>4. CASE ~(U = T /\ h = g)
    BY <1>1, <1>3, <2>1, <2>2, <2>4 DEF ActInTurn, Terminal
  <2> QED
    BY <2>3, <2>4
<1> QED
  BY <1>0, <1>1, <1>4, <1>5, <1>6 DEF InTime, ActsInTurn

\* What is not heard of yet is of the goal at work.
LEMMA RespondedInTime ==
  ASSUME UntilTypeOK, InTime, NEW T \in Actions, NEW g \in UntilGoals, Response(T, g)
  PROVE  InTime'
<1>0. /\ node \in Node /\ acts \in [Actions -> [UntilGoals -> Act]]
      /\ ~node.dead /\ MembersTell /\ StatusTells /\ ActsInTurn
  BY DEF UntilTypeOK, InTime
<1>1. /\ acts[T][g].heard = "nothing" /\ acts[T][g].state \notin {"none", "sent"}
      /\ acts' = ToHeard(acts, T, g, "response") /\ status' = status
      /\ node' = IF acts[T][g].state = "rejected" THEN node
                 ELSE [node EXCEPT !.current[T] = g, !.accepted[T] = TRUE]
  BY DEF Response, ToHeard
<1>2. ActInTurn(T, g) /\ g # 0
  BY <1>0, TrajectoryUntilAssumption DEF ActsInTurn, UntilGoals
<1>3. GoalAtWork = g /\ ~node.accepted[T] /\ node.client = g
  BY <1>0, <1>1, <1>2 DEF ActInTurn, MembersTell
<1>4. \A U \in Actions, h \in UntilGoals :
         /\ acts'[U][h].state = acts[U][h].state
         /\ acts'[U][h].heard = IF U = T /\ h = g THEN "response" ELSE acts[U][h].heard
  BY <1>0, <1>1, HeardSet
<1>5. /\ node'.pc = node.pc /\ node'.goal = node.goal /\ node'.handle = node.handle
      /\ node'.client = node.client /\ ~node'.dead
      /\ \A U \in Actions :
            /\ node'.accepted[U] <=> node.accepted[U] \/ (U = T /\ acts[T][g].state # "rejected")
            /\ node'.current[U] = IF U = T /\ acts[T][g].state # "rejected" THEN g ELSE node.current[U]
  <2>1. CASE acts[T][g].state = "rejected"
    BY <1>0, <1>1, <2>1
  <2>2. CASE acts[T][g].state # "rejected"
    <3>1. node' = [node EXCEPT !.current = [node.current EXCEPT ![T] = g], !.accepted = [node.accepted EXCEPT ![T] = TRUE]]
      BY <1>0, <1>1, <2>2 DEF Node
    <3>2. node.current \in [Actions -> Handles] /\ node.accepted \in [Actions -> BOOLEAN]
      BY <1>0 DEF Node
    <3>3. /\ node'.current = [node.current EXCEPT ![T] = g] /\ node'.accepted = [node.accepted EXCEPT ![T] = TRUE]
          /\ node'.pc = node.pc /\ node'.goal = node.goal /\ node'.handle = node.handle
          /\ node'.client = node.client /\ ~node'.dead
      BY <1>0, <3>1 DEF Node
    <3>4. ASSUME NEW U \in Actions
          PROVE  node'.accepted[U] = (IF U = T THEN TRUE ELSE node.accepted[U]) /\ node'.current[U] = IF U = T THEN g ELSE node.current[U]
      BY <3>2, <3>3
    <3> QED
      BY <1>1, <2>2, <3>3, <3>4
  <2> QED
    BY <2>1, <2>2
<1>6. GoalAtWork' = g
  BY <1>3, <1>5 DEF GoalAtWork
<1>7. MembersTell'
  BY <1>0, <1>2, <1>3, <1>5, <1>6 DEF MembersTell, Actions
<1>8. StatusTells'
  <2>1. \A h \in UntilGoals : status[h] = "succeeded" => \E U \in Actions : acts'[U][h].state = "succeeded"
    BY <1>0, <1>4 DEF StatusTells
  <2> QED
    BY <1>0, <1>1, <1>3, <1>5, <1>6, <2>1 DEF StatusTells
<1>9. ASSUME NEW U \in Actions, NEW h \in UntilGoals PROVE ActInTurn(U, h)'
  <2>1. ActInTurn(U, h) /\ "until" \in Actions
    BY <1>0 DEF ActsInTurn, Actions
  <2>2. /\ acts'[U][h].state = acts[U][h].state /\ acts'["until"][h].state = acts["until"][h].state
        /\ acts'[U][h].heard = IF U = T /\ h = g THEN "response" ELSE acts[U][h].heard
        /\ node'.accepted[U] <=> node.accepted[U] \/ (U = T /\ acts[T][g].state # "rejected")
    BY <1>4, <1>5, <2>1
  <2>3. CASE U = T /\ h = g
    BY <1>1, <1>3, <1>5, <1>6, <2>1, <2>2, <2>3 DEF ActInTurn
  <2>4. CASE ~(U = T /\ h = g)
    BY <1>1, <1>3, <1>5, <1>6, <2>1, <2>2, <2>4 DEF ActInTurn
  <2> QED
    BY <2>3, <2>4
<1> QED
  BY <1>5, <1>7, <1>8, <1>9 DEF InTime, ActsInTurn

\* The result of the goal that is held, or of one that is over.
LEMMA ResultInTime ==
  ASSUME UntilTypeOK, InTime, NEW T \in Actions, NEW g \in UntilGoals, Result(T, g), ~node'.late
  PROVE  InTime'
<1> DEFINE heard == ToHeard(acts, T, g, "result")
           hit == node.handle # g /\ (node.handle # 0 \/ node.pc # "idle")
           n == [node EXCEPT !.current[T] = 0, !.late = @ \/ hit]
           code == acts[T][g].state
<1>0. /\ node \in Node /\ status \in [UntilGoals -> UntilStatus] /\ acts \in [Actions -> [UntilGoals -> Act]]
      /\ ~node.dead /\ MembersTell /\ StatusTells /\ ActsInTurn /\ g # 0
  BY TrajectoryUntilAssumption DEF UntilTypeOK, InTime, UntilGoals
<1>1. /\ acts[T][g].heard = "response" /\ code \in Terminal
      /\ \/ /\ MayReport(node, code)
            /\ node' = ResetNode(n, heard).n /\ acts' = ResetNode(n, heard).a
            /\ status' = IF node.handle = 0 THEN status ELSE [status EXCEPT ![node.handle] = code]
         \/ ~MayReport(node, code) /\ node' = [n EXCEPT !.dead = TRUE]
  BY DEF Result, ToHeard
<1>2. PICK late \in BOOLEAN : n = [node EXCEPT !.current[T] = 0, !.late = late] /\ (hit => late)
  <2>1. PICK late \in BOOLEAN : late = (node.late \/ hit)
    BY <1>0 DEF Node
  <2>2. n = [node EXCEPT !.current[T] = 0, !.late = late]
    BY <2>1, Zenon
  <2>3. hit => late
    BY <2>1
  <2> QED
    BY <2>2, <2>3
<1>3. /\ n \in Node /\ n.late = late /\ n.pc = node.pc /\ n.goal = node.goal /\ n.handle = node.handle
      /\ n.client = node.client /\ n.dead = node.dead
      /\ \A U \in Actions : n.current[U] = IF U = T THEN 0 ELSE node.current[U]
  <2>1. /\ [node EXCEPT !.current[T] = 0, !.late = late] \in Node
        /\ [node EXCEPT !.current[T] = 0, !.late = late].late = late
        /\ [node EXCEPT !.current[T] = 0, !.late = late].pc = node.pc
        /\ [node EXCEPT !.current[T] = 0, !.late = late].goal = node.goal
        /\ [node EXCEPT !.current[T] = 0, !.late = late].handle = node.handle
        /\ [node EXCEPT !.current[T] = 0, !.late = late].client = node.client
        /\ [node EXCEPT !.current[T] = 0, !.late = late].dead = node.dead
        /\ \A U \in Actions :
              [node EXCEPT !.current[T] = 0, !.late = late].current[U] = IF U = T THEN 0 ELSE node.current[U]
    BY <1>0 DEF Node, Handles
  <2> QED
    BY <1>2, <2>1, Zenon
<1>4. /\ heard \in [Actions -> [UntilGoals -> Act]]
      /\ \A U \in Actions, h \in UntilGoals :
            /\ heard[U][h].state = acts[U][h].state
            /\ heard[U][h].heard = IF U = T /\ h = g THEN "result" ELSE acts[U][h].heard
  BY <1>0, HeardSet
<1> HIDE DEF n, heard
<1>5. node'.late = late
  BY <1>1, <1>3, <1>4, ResetIs DEF Node
<1>6. ~hit
  BY <1>2, <1>5
<1>7. node.pc = "idle" /\ node.handle \in {0, g} /\ GoalAtWork = node.handle
  BY <1>0, <1>6 DEF MembersTell, GoalAtWork
<1>8. MayReport(node, code)
  <2>1. ActInTurn(T, g)
    BY <1>0 DEF ActsInTurn
  <2> QED
    BY <1>7, <2>1 DEF MayReport, ActInTurn
<1>9. ~Unknown(n)
  <2>1. n.current["until"] = 0 \/ n.current["until"] = node.current["until"]
    BY <1>3 DEF Actions
  <2>2. node.current["until"] \in {0, node.client}
    BY <1>0 DEF MembersTell, Actions
  <2> QED
    BY <1>3, <2>1, <2>2 DEF Unknown
<1>10. /\ acts' = Cancelled(n, heard)
       /\ node'.handle = 0 /\ node'.pc = "idle" /\ ~node'.dead
       /\ \A U \in Actions : node'.current[U] = 0 /\ ~node'.accepted[U]
       /\ status' = IF node.handle = 0 THEN status ELSE [status EXCEPT ![node.handle] = code]
  BY <1>0, <1>1, <1>3, <1>4, <1>7, <1>8, <1>9, ResetIs
<1>11. \A U \in Actions, h \in UntilGoals :
          /\ acts'[U][h].heard = IF U = T /\ h = g THEN "result" ELSE acts[U][h].heard
          /\ acts'[U][h].state = IF h = n.current[U] /\ acts[U][h].state = "active" THEN "canceling" ELSE acts[U][h].state
  BY <1>3, <1>4, <1>10, CalledOff
<1>12. GoalAtWork' = 0
  BY <1>10 DEF GoalAtWork
<1>13. \A h \in UntilGoals : status'[h] = IF h = node.handle THEN code ELSE status[h]
  BY <1>0, <1>10, TrajectoryUntilAssumption DEF UntilGoals
<1>14. MembersTell'
  BY <1>10, <1>12 DEF MembersTell
<1>15. StatusTells'
  <2>1. \A h \in UntilGoals : status'[h] \notin {"executing", "canceling"}
    BY <1>0, <1>1, <1>7, <1>13 DEF StatusTells, Terminal
  <2>2. ASSUME NEW h \in UntilGoals, status'[h] = "succeeded" PROVE \E U \in Actions : acts'[U][h].state = "succeeded"
    <3>1. PICK U \in Actions : acts[U][h].state = "succeeded"
      <4>1. CASE h = node.handle
        <5>1. h = g /\ code = "succeeded"
          BY <1>7, <1>13, <2>2, <4>1, TrajectoryUntilAssumption DEF UntilGoals
        <5> QED
          BY <5>1
      <4>2. CASE h # node.handle
        BY <1>0, <1>13, <2>2, <4>2 DEF StatusTells
      <4> QED
        BY <4>1, <4>2
    <3>2. acts'[U][h].state = "succeeded"
      BY <1>11, <3>1
    <3> QED
      BY <3>2
  <2> QED
    BY <1>10, <1>12, <2>1, <2>2 DEF StatusTells
<1>16. ASSUME NEW U \in Actions, NEW h \in UntilGoals PROVE ActInTurn(U, h)'
  <2>1. ActInTurn(U, h) /\ ActInTurn(T, g) /\ ActInTurn("until", h) /\ "until" \in Actions
    BY <1>0 DEF ActsInTurn, Actions
  <2>2. h # GoalAtWork'
    BY <1>12, TrajectoryUntilAssumption DEF UntilGoals
  <2>3. /\ acts'[U][h].heard = "nothing" <=> acts[U][h].heard = "nothing"
        /\ acts'[U][h].state = IF h = n.current[U] /\ acts[U][h].state = "active" THEN "canceling" ELSE acts[U][h].state
        /\ acts'["until"][h].state = IF h = n.current["until"] /\ acts["until"][h].state = "active" THEN "canceling" ELSE acts["until"][h].state
        /\ status'[h] = IF h = node.handle THEN code ELSE status[h]
    BY <1>1, <1>11, <1>13, <2>1
  <2>4. CASE h # node.handle
    <3>1. h # GoalAtWork
      BY <1>7, <2>4
    <3> QED
      BY <2>1, <2>2, <2>3, <2>4, <3>1 DEF ActInTurn
  <2>5. CASE h = node.handle
    <3>1. h = g /\ node.handle # 0 /\ GoalAtWork = h
      BY <1>0, <1>7, <2>5, TrajectoryUntilAssumption DEF UntilGoals
    <3>2. node.accepted[U] /\ node.current[U] = h
      BY <1>0, <3>1 DEF MembersTell
    <3>3. acts[U][h].heard # "nothing" /\ acts[U][h].state \notin {"none", "sent", "rejected"}
      BY <2>1, <3>1, <3>2 DEF ActInTurn
    <3>4. acts[U][h].state = "active" => U # T
      BY <1>1, <3>1 DEF Terminal
    <3>5. acts'[U][h].state \notin {"none", "sent", "rejected", "active"}
      BY <1>3, <2>3, <3>2, <3>3, <3>4
    <3>6. status'[h] \in Terminal
      BY <1>1, <2>3, <2>5
    <3>7. U = "trajectory" => acts'["until"][h].state \notin {"none", "sent", "rejected"}
      BY <2>1, <2>3, <3>3 DEF ActInTurn
    <3> QED
      BY <2>2, <2>3, <3>3, <3>5, <3>6, <3>7 DEF ActInTurn, Terminal
  <2> QED
    BY <2>4, <2>5
<1> QED
  BY <1>10, <1>14, <1>15, <1>16 DEF InTime, ActsInTurn

LEMMA InitUntil == Init => UntilInv
<1> SUFFICES ASSUME Init PROVE UntilInv
  OBVIOUS
<1>1. /\ node = [pc |-> "idle", goal |-> 0, handle |-> 0, current |-> [T \in Actions |-> 0],
                 accepted |-> [T \in Actions |-> FALSE], client |-> 0, dead |-> FALSE, late |-> FALSE]
      /\ acts = [T \in Actions |-> [g \in UntilGoals |-> [state |-> "none", heard |-> "nothing"]]]
      /\ status = [g \in UntilGoals |-> "none"]
  BY DEF Init, UntilInit
<1>2. node \in Node /\ ~node.dead /\ node.pc = "idle" /\ node.handle = 0
  BY <1>1 DEF Node, Handles
<1>3. \A T \in Actions : node.current[T] = 0 /\ ~node.accepted[T]
  BY <1>1
<1>4. \A T \in Actions, g \in UntilGoals : acts[T][g].state = "none" /\ acts[T][g].heard = "nothing"
  BY <1>1
<1>5. GoalAtWork = 0 /\ "until" \in Actions /\ \A g \in UntilGoals : g # 0
  BY <1>2, TrajectoryUntilAssumption DEF GoalAtWork, Actions, UntilGoals
<1>6. UntilTypeOK
  BY <1>1, <1>2 DEF UntilTypeOK, UntilStatus, Act, ActState
<1>7. MembersTell /\ StatusTells
  BY <1>1, <1>2, <1>3, <1>5 DEF MembersTell, StatusTells
<1>8. ActsInTurn
  BY <1>4, <1>5 DEF ActsInTurn, ActInTurn
<1> QED
  BY <1>2, <1>6, <1>7, <1>8 DEF UntilInv, InTime

LEMMA NextUntil == UntilInv /\ [Next]_vars => UntilInv'
<1> SUFFICES ASSUME UntilInv, [Next]_vars PROVE UntilInv'
  OBVIOUS
<1>0. UntilTypeOK /\ (~node.late => InTime)
  BY DEF UntilInv
<1>1. CASE UntilNext
  <2>1. UntilTypeOK' /\ (~node'.late => ~node.late)
    BY <1>0, <1>1, UntilTyped
  <2>2. ASSUME ~node'.late PROVE InTime'
    BY <1>0, <1>1, <2>1, <2>2, ReceivedInTime, UntilAcceptedInTime, TrajectoryAcceptedInTime, GoalAcceptedInTime,
       GoalCancelledInTime, ServedInTime, RespondedInTime, ResultInTime
    DEF UntilNext, Alive, ServerThread, ClientsThread, ActionServers
  <2> QED
    BY <2>1, <2>2 DEF UntilInv
<1>2. CASE UNCHANGED uvars
  BY <1>0, <1>2
  DEF uvars, UntilInv, UntilTypeOK, InTime, MembersTell, StatusTells, ActsInTurn, ActInTurn, GoalAtWork
<1>3. UntilNext \/ UNCHANGED uvars
  BY DEF Next, vars, Queue, Dashboard, Until, Reader, Server, Helper, Client, Scripted
<1> QED
  BY <1>1, <1>2, <1>3

(* As long as nothing is called back too late: a goal of the               *)
(* trajectory_until node succeeds with its own trajectory or contact, no   *)
(* trajectory runs that nobody watches, nothing goes on once the node is   *)
(* at rest, and the node lives.                                            *)
THEOREM UntilTells == Spec => []UntilTruth
<1>1. UntilInv => UntilTruth
  <2> SUFFICES ASSUME UntilInv PROVE UntilTruth
    OBVIOUS
  <2>1. node \in Node /\ (~node.late => InTime)
    BY DEF UntilInv, UntilTypeOK
  <2>2. ASSUME InTime
        PROVE  /\ ~node.dead
               /\ \A g \in UntilGoals :
                     /\ status[g] = "succeeded" => \E T \in Actions : acts[T][g].state = "succeeded"
                     /\ acts["trajectory"][g].state = "active" =>
                           acts["until"][g].state \notin {"none", "sent", "rejected"}
               /\ AtRest => \A T \in Actions, g \in UntilGoals : acts[T][g].state # "active"
    <3>1. ~node.dead /\ StatusTells /\ ActsInTurn
      BY <2>2 DEF InTime
    <3>2. \A g \in UntilGoals : status[g] = "succeeded" => \E T \in Actions : acts[T][g].state = "succeeded"
      BY <3>1 DEF StatusTells
    <3>3. \A g \in UntilGoals : acts["trajectory"][g].state = "active" =>
                                   acts["until"][g].state \notin {"none", "sent", "rejected"}
      BY <3>1 DEF ActsInTurn, ActInTurn, Actions
    <3>4. AtRest => GoalAtWork = 0 /\ \A g \in UntilGoals : g # 0
      BY TrajectoryUntilAssumption DEF AtRest, GoalAtWork, UntilGoals
    <3>5. AtRest => \A T \in Actions, g \in UntilGoals : acts[T][g].state # "active"
      BY <3>1, <3>4 DEF ActsInTurn, ActInTurn
    <3> QED
      BY <3>1, <3>2, <3>3, <3>5
  <2> QED
    BY <2>1, <2>2 DEF UntilTruth
<1> QED
  BY <1>1, InitUntil, NextUntil, PTL DEF Spec

-----------------------------------------------------------------------------
(* The controller stopper.                                                 *)
\* A channel keeps its element type when something is sent, and when it is not.
LEMMA SendType ==
  ASSUME NEW S, NEW s \in Seq(S), NEW e \in S, NEW t, t = s \/ t = Append(s, e)
  PROVE  t \in Seq(S)
<1>1. CASE t = s
  BY <1>1
<1>2. CASE t = Append(s, e)
  BY <1>2
<1> QED
  BY <1>1, <1>2

USE StopperAssumption

\* The manager never activates two controllers of the joints.
LEMMA ManagerType ==
  ASSUME NEW on \in SUBSET Controllers, NEW off \in SUBSET Controllers,
         active \subseteq Controllers, JointFree(active)
  PROVE  /\ Strict(active, on, off) \subseteq Controllers /\ JointFree(Strict(active, on, off))
         /\ BestEffort(active, on, off) \subseteq Controllers
         /\ JointFree(BestEffort(active, on, off))
  BY DEF Strict, StrictPossible, BestEffort, JointFree

\* What is not asked to stop does not stop.
LEMMA ManagerKeeps ==
  ASSUME NEW on, NEW off
  PROVE  /\ active \ off \subseteq Strict(active, on, off)
         /\ active \ off \subseteq BestEffort(active, on, off)
  BY DEF Strict, BestEffort

\* The requests the stopper sends are well formed.
LEMMA RequestType ==
  ASSUME NEW set \in SUBSET (Controllers \ Consistent), NEW who \in Asker
  PROVE  StopRequest(who, set) \in SwitchType /\ StartRequest(set) \in SwitchType
  BY DEF StopRequest, StartRequest, SwitchType, Asker

LEMMA InitType == StopperInit => StopperTypeOK
<1> SUFFICES ASSUME StopperInit PROVE StopperTypeOK
  OBVIOUS
<1>1. spawned \in 0..Len(SpawnOrder) /\ Len(SpawnOrder) \in Nat
  BY DEF StopperInit
<1>2. \A n \in 1..Len(SpawnOrder) : SpawnOrder[n] \in Controllers
  OBVIOUS
<1>3. active \subseteq Controllers
  BY <1>1, <1>2 DEF StopperInit
<1>4. JointFree(active)
  <2>1. active \subseteq {SpawnOrder[n] : n \in DOMAIN SpawnOrder}
    BY <1>1 DEF StopperInit
  <2> QED
    BY <2>1 DEF JointFree
<1>5. \A S : <<>> \in Seq(S)
  OBVIOUS
<1> QED
  BY <1>1, <1>3, <1>4, <1>5 DEF StopperInit, StopperTypeOK, Haste

LEMMA NextType == StopperTypeOK /\ [StopperNext]_stopperVars => StopperTypeOK'
<1> SUFFICES ASSUME StopperTypeOK, [StopperNext]_stopperVars PROVE StopperTypeOK'
  OBVIOUS
<1> USE DEF StopperTypeOK
<1>0. "ctor" \in Asker /\ "callback" \in Asker
  BY DEF Asker
<1>1. CASE CtorStep
  <2>0. /\ lists' = lists \/ lists' = Append(lists, "ctor")
        /\ switches' = switches \/ switches' = Append(switches, StopRequest("ctor", stopped))
    BY <1>1 DEF CtorStep
  <2>1. lists' \in Seq(Asker)
    BY <1>0, <2>0, SendType, Zenon
  <2>2. StopRequest("ctor", stopped) \in SwitchType
    BY <1>0, RequestType
  <2>3. switches' \in Seq(SwitchType)
    BY <2>0, <2>2, SendType, Zenon
  <2> QED
    BY <1>1, <2>1, <2>3 DEF CtorStep, environment, JointFree
<1>2. CASE CtorListed
  <2>1. Head(listReplies) \in ReplyType /\ listReplies' \in Seq(ReplyType)
    BY <1>2 DEF CtorListed
  <2>2. stopped' \subseteq Controllers \ Consistent
    BY <1>2, <2>1 DEF CtorListed, Found, ReplyType
  <2> QED
    BY <1>2, <2>1, <2>2 DEF CtorListed, environment, JointFree
<1>3. CASE CtorDone
  BY <1>3 DEF CtorDone, channels, environment, JointFree
<1>4. CASE RobotRunningCallback
  <2>1. robotRunning' \in BOOLEAN /\ topic' = <<>>
    <3>1. topic \in Seq(BOOLEAN) /\ topic # <<>>
      BY <1>4 DEF RobotRunningCallback
    <3>3. Head(topic) \in BOOLEAN
      BY <3>1, HeadTailProperties, Zenon
    <3>2. robotRunning' = Head(topic) /\ topic' = <<>>
      BY <1>4 DEF RobotRunningCallback
    <3> QED
      BY <3>2, <3>3
  <2>2. StartRequest(stopped) \in SwitchType
    BY <1>0, RequestType
  <2>3. /\ stopped' \in SUBSET (Controllers \ Consistent)
        /\ lists' = lists \/ lists' = Append(lists, "callback")
        /\ switches' = switches \/ switches' = Append(switches, StartRequest(stopped))
    BY <1>4 DEF RobotRunningCallback, StartControllers, FindAndStopControllers
  <2>4. lists' \in Seq(Asker)
    BY <1>0, <2>3, SendType, Zenon
  <2>6. switches' \in Seq(SwitchType)
    BY <2>2, <2>3, SendType, Zenon
  <2>5. topic' \in Seq(BOOLEAN) /\ Len(topic') <= 1
    BY <2>1
  <2> QED
    BY <1>4, <2>1, <2>3, <2>4, <2>5, <2>6 DEF RobotRunningCallback, environment, JointFree
<1>5. CASE ListCallback
  <2>1. Head(listReplies) \in ReplyType /\ listReplies' \in Seq(ReplyType)
    BY <1>5 DEF ListCallback
  <2>2. stopped' \in SUBSET (Controllers \ Consistent)
    BY <1>5, <2>1 DEF ListCallback, Found, ReplyType
  <2>3. StopRequest("callback", stopped') \in SwitchType
    BY <1>0, <2>2, RequestType
  <2>4. switches' \in Seq(SwitchType)
    <3>1. switches' = switches \/ switches' = Append(switches, StopRequest("callback", stopped'))
      BY <1>5 DEF ListCallback
    <3> QED
      BY <2>3, <3>1, SendType, Zenon
  <2> QED
    BY <1>5, <2>1, <2>2, <2>4 DEF ListCallback, environment, JointFree
<1>6. CASE ServeList
  <2>1. Head(lists) \in Asker /\ lists' \in Seq(Asker)
    BY <1>6 DEF ServeList
  <2>2. [from |-> Head(lists), active |-> active] \in ReplyType
    BY <2>1 DEF ReplyType
  <2>3. listReplies' \in Seq(ReplyType)
    BY <1>6, <2>2 DEF ServeList
  <2> QED
    BY <1>6, <2>1, <2>3 DEF ServeList, stopper, environment, JointFree
<1>7. CASE ServeSwitch
  <2>1. Head(switches) \in SwitchType /\ switches' \in Seq(SwitchType)
    BY <1>7 DEF ServeSwitch
  <2>2. active' \subseteq Controllers /\ JointFree(active')
    BY <1>7, <2>1, ManagerType DEF ServeSwitch, SwitchType
  <2> QED
    BY <1>7, <2>1, <2>2 DEF ServeSwitch, stopper, environment, JointFree
<1>8. CASE Spawn
  <2>1. spawned + 1 \in 0..Len(SpawnOrder) /\ SpawnOrder[spawned + 1] \in Controllers
    BY <1>8 DEF Spawn, SpawnDone
  <2>2. active' \subseteq Controllers /\ JointFree(active')
    BY <1>8, <2>1, ManagerType DEF Spawn
  <2> QED
    BY <1>8, <2>1, <2>2 DEF Spawn, stopper, channels, JointFree
<1>9. CASE ProgramChange
  <2>1. program' \in BOOLEAN /\ topic' = <<program'>>
    BY <1>9 DEF ProgramChange
  <2>2. topic' \in Seq(BOOLEAN) /\ Len(topic') <= 1
    BY <2>1
  <2> QED
    BY <1>9, <2>1, <2>2 DEF ProgramChange, stopper, JointFree, Hasty, Haste
<1>10. ASSUME NEW on \in {Trajectory, Servo}, NEW off \in {Trajectory, Servo}, AppSwitch(on, off)
       PROVE  StopperTypeOK'
  <2> DEFINE request == [strict |-> FALSE, from |-> "app", activate |-> {on}, deactivate |-> {off}]
  <2>1. request \in SwitchType
    BY DEF SwitchType
  <2>2. switches' = Append(switches, request)
    BY <1>10 DEF AppSwitch
  <2>3. switches' \in Seq(SwitchType)
    BY <2>1, <2>2
  <2> QED
    BY <1>10, <2>3 DEF AppSwitch, stopper, JointFree, Hasty, Haste
<1>11. CASE UNCHANGED stopperVars
  BY <1>11 DEF stopperVars, stopper, channels, environment, JointFree
<1> QED
  BY <1>1, <1>2, <1>3, <1>4, <1>5, <1>6, <1>7, <1>8, <1>9, <1>10, <1>11
  DEF StopperNext, Stopper, Manager

\* The types hold in every reachable state: what is queued for the controller
\* manager never asks a consistent controller to stop.
THEOREM StopperTypes == StopperSpec => []StopperTypeOK
<1> QED
  BY InitType, NextType, PTL DEF StopperSpec

LEMMA StepKeepsConsistent == StopperTypeOK /\ [StopperNext]_stopperVars => (active \cap Consistent \subseteq active')
<1> SUFFICES ASSUME StopperTypeOK, [StopperNext]_stopperVars PROVE active \cap Consistent \subseteq active'
  OBVIOUS
<1>1. CASE ServeSwitch
  <2>1. Head(switches) \in SwitchType
    BY <1>1 DEF ServeSwitch, StopperTypeOK
  <2> QED
    BY <1>1, <2>1, ManagerKeeps DEF ServeSwitch, SwitchType
<1>2. CASE Spawn
  BY <1>2, ManagerKeeps DEF Spawn
<1>3. CASE UNCHANGED active
  BY <1>3
<1> QED
  BY <1>1, <1>2, <1>3
  DEF StopperNext, Stopper, Manager, CtorStep, CtorListed, CtorDone, RobotRunningCallback, ListCallback,
      ServeList, ProgramChange, AppSwitch, stopperVars

\* Whatever the order of events, no consistent controller is ever stopped.
THEOREM ConsistentNeverStopped == StopperSpec => ConsistentStay
<1>1. StopperTypeOK /\ [StopperNext]_stopperVars => [active \cap Consistent \subseteq active']_stopperVars
  BY StepKeepsConsistent
<1> QED
  BY <1>1, StopperTypes, PTL DEF StopperSpec, ConsistentStay
-----------------------------------------------------------------------------
(* Mirroring.  As long as nobody acts before the stopper is done, one thing*)
(* at a time is on its way; the invariant says which, from the message to  *)
(* the switch that answers it.                                             *)

OnTheWay(t, l, r, s) == topic = t /\ lists = l /\ listReplies = r /\ switches = s

\* What the stopper has stopped is what it needs to start again.
Restorable ==
  /\ active \subseteq Consistent
  /\ Motion \ Joint \subseteq stopped /\ stopped \cap Joint # {} /\ JointFree(stopped)

Reply(who) == [from |-> who, active |-> active]

\* The list request of the constructor or of the callback, its reply, and the
\* request to stop what was found.
Stopping(who) ==
  /\ Usable /\ ~program
  /\ \/ OnTheWay(<<>>, <<who>>, <<>>, <<>>) /\ stopped = {}
     \/ OnTheWay(<<>>, <<>>, <<Reply(who)>>, <<>>) /\ stopped = {}
     \/ OnTheWay(<<>>, <<>>, <<>>, <<StopRequest(who, stopped)>>) /\ stopped = active \ Consistent

Constructing ==
  \/ pc = "list" /\ Usable /\ ~program /\ OnTheWay(<<>>, <<>>, <<>>, <<>>)
     /\ stopped \in {{}, active \ Consistent}
  \/ pc = "listWait" /\ switches = <<>> /\ Stopping("ctor")
  \/ pc = "switchWait" /\ switches # <<>> /\ Stopping("ctor")
  \/ pc = "switchWait" /\ OnTheWay(<<>>, <<>>, <<>>, <<>>) /\ Restorable /\ ~program

ModeRequest(on, off) == [strict |-> FALSE, from |-> "app", activate |-> {on}, deactivate |-> {off}]

Usual ==
  /\ pc = "spin"
  /\ \/ Usable /\ program /\ robotRunning /\ OnTheWay(<<>>, <<>>, <<>>, <<>>)
     \/ /\ Usable /\ program /\ robotRunning
        /\ \E on, off \in {Trajectory, Servo} :
             /\ on # off /\ (on \notin active \/ off \in active)
             /\ OnTheWay(<<>>, <<>>, <<>>, <<ModeRequest(on, off)>>)
     \/ Usable /\ ~program /\ robotRunning /\ OnTheWay(<<FALSE>>, <<>>, <<>>, <<>>)
     \/ Stopping("callback") /\ ~robotRunning
     \/ Restorable /\ ~program /\ ~robotRunning /\ OnTheWay(<<>>, <<>>, <<>>, <<>>)
     \/ Restorable /\ program /\ ~robotRunning /\ OnTheWay(<<TRUE>>, <<>>, <<>>, <<>>)
     \/ Restorable /\ program /\ robotRunning /\ OnTheWay(<<>>, <<>>, <<>>, <<StartRequest(stopped)>>)

CalmInv == hasty = {} => SpawnDone /\ (Constructing \/ Usual)

\* Where an AppSwitch is on its way, its request names the two modes.
Modes == {Trajectory, Servo}

\* What the manager makes of the three kinds of request.
LEMMA StopStops ==
  ASSUME StopperTypeOK, stopped = active \ Consistent, Usable
  PROVE  /\ Strict(active, {}, stopped) = active \ stopped
         /\ active \ stopped \subseteq Consistent
         /\ Motion \ Joint \subseteq stopped /\ stopped \cap Joint # {} /\ JointFree(stopped)
<1>1. StrictPossible(active, {}, stopped)
  BY DEF StrictPossible, StopperTypeOK, JointFree
<1>2. Strict(active, {}, stopped) = active \ stopped
  BY <1>1 DEF Strict
<1>3. Motion \ Joint \subseteq stopped /\ stopped \cap Joint # {}
  BY DEF Usable, Motion
<1>4. JointFree(stopped)
  BY DEF StopperTypeOK, JointFree
<1> QED
  BY <1>2, <1>3, <1>4

LEMMA StartRestores ==
  ASSUME StopperTypeOK, Restorable, active' = Strict(active, stopped, {})
  PROVE  Usable'
<1>1. stopped \cap active = {} /\ (active \ {}) \cup stopped = active \cup stopped
  BY DEF StopperTypeOK, Restorable
<1>2. JointFree(active \cup stopped)
  BY DEF Restorable, JointFree
<1>3. active' = active \cup stopped
  BY <1>1, <1>2 DEF Strict, StrictPossible
<1> QED
  BY <1>3 DEF Usable, Restorable, Motion

LEMMA ModeKeepsUsable ==
  ASSUME StopperTypeOK, Usable, NEW on \in Modes, NEW off \in Modes, on # off,
         on \notin active \/ off \in active, active' = BestEffort(active, {on}, {off})
  PROVE  Usable'
<1>1. on \in Joint /\ off \in Joint /\ JointFree(active)
  BY DEF Modes, StopperTypeOK
<1>2. CASE JointFree((active \ {off}) \cup {on})
  <2>1. active' = (active \ {off}) \cup {on}
    BY <1>2 DEF BestEffort
  <2> QED
    BY <1>1, <2>1 DEF Usable, Motion
<1>3. CASE ~JointFree((active \ {off}) \cup {on})
  <2>1. off \notin active
    BY <1>1, <1>3 DEF JointFree
  <2>2. active' = active
    BY <1>1, <1>3, <2>1 DEF BestEffort
  <2> QED
    BY <2>2 DEF Usable, Motion
<1> QED
  BY <1>2, <1>3

\* A channel with one message in it.
LEMMA OneMessage == \A x : Head(<<x>>) = x /\ Tail(<<x>>) = <<>> /\ <<x>> # <<>>
  OBVIOUS

LEMMA InitCalm == StopperInit => CalmInv
<1> SUFFICES ASSUME StopperInit, hasty = {} PROVE SpawnDone /\ (Constructing \/ Usual)
  BY DEF CalmInv
<1>1. SpawnDone
  BY DEF StopperInit
<1>2. active = {SpawnOrder[n] : n \in DOMAIN SpawnOrder}
  BY <1>1 DEF StopperInit, SpawnDone
<1>3. Usable
  BY <1>2, JointAssumption DEF Usable, Motion
<1>4. CASE StopOnStartup
  BY <1>1, <1>3, <1>4 DEF StopperInit, Constructing, OnTheWay
<1>5. CASE ~StopOnStartup
  BY <1>1, <1>3, <1>5 DEF StopperInit, Usual, OnTheWay
<1> QED
  BY <1>4, <1>5

LEMMA NextCalm == StopperTypeOK /\ CalmInv /\ [StopperNext]_stopperVars => CalmInv'
<1> SUFFICES ASSUME StopperTypeOK, CalmInv, [StopperNext]_stopperVars, hasty' = {}
             PROVE  SpawnDone' /\ (Constructing' \/ Usual')
  BY DEF CalmInv
<1>1. hasty = {}
  BY DEF StopperNext, Stopper, Manager, CtorStep, CtorListed, CtorDone, RobotRunningCallback, ListCallback,
         ServeList, ServeSwitch, Spawn, ProgramChange, AppSwitch, stopperVars, environment, Hasty
<1>2. SpawnDone /\ (Constructing \/ Usual)
  BY <1>1 DEF CalmInv
<1>3. SpawnDone'
  BY <1>2 DEF StopperNext, Stopper, Manager, CtorStep, CtorListed, CtorDone, RobotRunningCallback,
              ListCallback, ServeList, ServeSwitch, Spawn, ProgramChange, AppSwitch, stopperVars,
              environment, SpawnDone
<1>0. SUFFICES Constructing' \/ Usual'
  BY <1>3
<1>4. CASE CtorStep
  <2>1. Usable /\ ~program /\ OnTheWay(<<>>, <<>>, <<>>, <<>>) /\ stopped \in {{}, active \ Consistent}
    BY <1>2, <1>4 DEF CtorStep, Constructing, Usual
  <2>2. Usable' /\ ~program'
    BY <1>4, <2>1 DEF CtorStep, environment, Usable
  <2>3. CASE stopped = {}
    <3>1. pc' = "listWait" /\ OnTheWay(<<>>, <<"ctor">>, <<>>, <<>>)' /\ stopped' = {} /\ switches' = <<>>
      BY <1>4, <2>1, <2>3 DEF CtorStep, OnTheWay
    <3> QED
      BY <2>2, <3>1 DEF Constructing, Stopping
  <2>4. CASE stopped # {}
    <3>1. /\ pc' = "switchWait" /\ switches' = Append(switches, StopRequest("ctor", stopped))
          /\ lists' = lists /\ UNCHANGED <<stopped, topic, listReplies, active>>
      BY <1>4, <2>4 DEF CtorStep
    <3>2. Append(<<>>, StopRequest("ctor", stopped)) = <<StopRequest("ctor", stopped)>>
      OBVIOUS
    <3>3. /\ OnTheWay(<<>>, <<>>, <<>>, <<StopRequest("ctor", stopped)>>)'
          /\ stopped' = active' \ Consistent /\ stopped' = stopped
      BY <2>1, <2>4, <3>1, <3>2 DEF OnTheWay
    <3> QED
      BY <2>2, <2>4, <3>1, <3>3 DEF Constructing, Stopping
  <2> QED
    BY <2>3, <2>4
<1>5. CASE CtorListed
  <2>1. /\ Usable /\ ~program /\ OnTheWay(<<>>, <<>>, <<Reply("ctor")>>, <<>>) /\ stopped = {}
    BY <1>2, <1>5 DEF CtorListed, Constructing, Usual, Stopping, OnTheWay
  <2>2. stopped' = active' \ Consistent /\ pc' = "list" /\ OnTheWay(<<>>, <<>>, <<>>, <<>>)'
    BY <1>5, <2>1 DEF CtorListed, OnTheWay, Reply, Found
  <2>3. Usable' /\ ~program'
    BY <1>5, <2>1 DEF CtorListed, environment, Usable
  <2> QED
    BY <2>2, <2>3 DEF Constructing
<1>6. CASE CtorDone
  <2>1. OnTheWay(<<>>, <<>>, <<>>, <<>>) /\ Restorable /\ ~program
    <3>1. pc = "switchWait"
      BY <1>6 DEF CtorDone
    <3>2. ~(switches # <<>> /\ Stopping("ctor"))
      <4> SUFFICES ASSUME switches # <<>>, Stopping("ctor") PROVE FALSE
        OBVIOUS
      <4>1. switches = <<StopRequest("ctor", stopped)>>
        BY DEF Stopping, OnTheWay
      <4>2. 1 \in DOMAIN switches /\ switches[1].from = "ctor"
        BY <4>1 DEF StopRequest
      <4> QED
        BY <1>6, <4>2 DEF CtorDone
    <3> QED
      BY <1>2, <3>1, <3>2 DEF Constructing, Usual
  <2>2. pc' = "spin" /\ ~robotRunning' /\ OnTheWay(<<>>, <<>>, <<>>, <<>>)' /\ Restorable' /\ ~program'
    BY <1>6, <2>1 DEF CtorDone, OnTheWay, Restorable, channels, environment
  <2> QED
    BY <2>2 DEF Usual
<1>7. CASE RobotRunningCallback
  <2>1. /\ pc = "spin"
        /\ \/ Usable /\ ~program /\ robotRunning /\ OnTheWay(<<FALSE>>, <<>>, <<>>, <<>>)
           \/ Restorable /\ program /\ ~robotRunning /\ OnTheWay(<<TRUE>>, <<>>, <<>>, <<>>)
    BY <1>2, <1>7 DEF RobotRunningCallback, Constructing, Usual, Stopping, OnTheWay
  <2>2. CASE Usable /\ ~program /\ robotRunning /\ OnTheWay(<<FALSE>>, <<>>, <<>>, <<>>)
    <3>0. Head(topic) = FALSE
      BY <2>2, OneMessage, Zenon DEF OnTheWay
    <3>2. /\ FindAndStopControllers /\ ~robotRunning' /\ topic' = <<>>
          /\ UNCHANGED <<pc, listReplies, active, environment>>
      BY <1>7, <2>2, <3>0 DEF RobotRunningCallback
    <3>1. /\ pc' = "spin" /\ ~robotRunning' /\ stopped' = {} /\ Usable' /\ ~program'
          /\ OnTheWay(<<>>, <<"callback">>, <<>>, <<>>)'
      BY <2>1, <2>2, <3>2
      DEF FindAndStopControllers, OnTheWay, environment, Usable
    <3> QED
      BY <3>1 DEF Usual, Stopping
  <2>3. CASE Restorable /\ program /\ ~robotRunning /\ OnTheWay(<<TRUE>>, <<>>, <<>>, <<>>)
    <3>0. Head(topic) = TRUE
      BY <2>3, OneMessage, Zenon DEF OnTheWay
    <3>4. stopped # {}
      BY <2>3 DEF Restorable
    <3>5. lists = <<>> /\ listReplies = <<>> /\ switches = <<>>
      BY <2>3, Zenon DEF OnTheWay
    <3>2. /\ StartControllers /\ robotRunning' /\ topic' = <<>>
          /\ UNCHANGED <<pc, listReplies, active, environment>>
      BY <1>7, <2>3, <3>0 DEF RobotRunningCallback
    <3>3. /\ pc' = "spin" /\ stopped' = stopped /\ active' = active /\ program' = program
          /\ lists' = <<>> /\ listReplies' = <<>> /\ switches' = <<StartRequest(stopped)>>
      BY <2>1, <3>2, <3>4, <3>5 DEF StartControllers, environment
    <3>1. /\ pc' = "spin" /\ robotRunning' /\ Restorable' /\ program' /\ stopped' = stopped
          /\ OnTheWay(<<>>, <<>>, <<>>, <<StartRequest(stopped)>>)'
      BY <2>3, <3>2, <3>3 DEF OnTheWay, Restorable
    <3> QED
      BY <3>1 DEF Usual
  <2> QED
    BY <2>1, <2>2, <2>3
<1>8. CASE ListCallback
  <2>0. Constructing => listReplies = <<Reply("ctor")>>
    BY <1>8 DEF ListCallback, Constructing, Stopping, OnTheWay
  <2>3. Reply("ctor").from # "callback"
    BY DEF Reply
  <2>4. Usual
    BY <1>2, <1>8, <2>0, <2>3, OneMessage, Zenon DEF ListCallback
  <2>1. /\ pc = "spin" /\ Usable /\ ~program /\ ~robotRunning /\ stopped = {}
        /\ OnTheWay(<<>>, <<>>, <<Reply("callback")>>, <<>>)
    BY <1>8, <2>4 DEF ListCallback, Usual, Stopping, OnTheWay
  <2>2. stopped' = active \ Consistent
    BY <1>8, <2>1 DEF ListCallback, OnTheWay, Reply, Found
  <2>5. stopped' # {}
    BY <2>1, <2>2 DEF Usable
  <2>6. /\ pc' = "spin" /\ Usable' /\ ~program' /\ ~robotRunning' /\ active' = active
        /\ OnTheWay(<<>>, <<>>, <<>>, <<StopRequest("callback", stopped)>>)'
    BY <1>8, <2>1, <2>5 DEF ListCallback, OnTheWay, environment, Usable
  <2> QED
    BY <2>2, <2>6 DEF Usual, Stopping
<1>9. CASE ServeList
  <2>0. PICK who \in {"ctor", "callback"} :
          /\ Usable /\ ~program /\ stopped = {} /\ OnTheWay(<<>>, <<who>>, <<>>, <<>>)
          /\ who = "ctor" => pc = "listWait"
          /\ who = "callback" => pc = "spin" /\ ~robotRunning
    BY <1>2, <1>9 DEF ServeList, Constructing, Usual, Stopping, OnTheWay
  <2>1. /\ OnTheWay(<<>>, <<>>, <<Reply(who)>>, <<>>)' /\ Usable' /\ ~program' /\ stopped' = {}
        /\ pc' = pc /\ robotRunning' = robotRunning
    BY <1>9, <2>0 DEF ServeList, OnTheWay, Reply, stopper, environment, Usable
  <2>2. Stopping(who)'
    BY <2>0, <2>1 DEF Stopping
  <2> QED
    BY <2>0, <2>1, <2>2 DEF Constructing, Usual, OnTheWay
<1>10. CASE ServeSwitch
  <2>1. ASSUME NEW who \in {"ctor", "callback"}, Usable, ~program, stopped = active \ Consistent,
               OnTheWay(<<>>, <<>>, <<>>, <<StopRequest(who, stopped)>>)
        PROVE  Restorable' /\ ~program' /\ OnTheWay(<<>>, <<>>, <<>>, <<>>)'
               /\ pc' = pc /\ robotRunning' = robotRunning
    <3>0. Head(switches) = StopRequest(who, stopped) /\ Tail(switches) = <<>>
      BY <2>1, OneMessage, Zenon DEF OnTheWay
    <3>3. /\ active' = IF Head(switches).strict
                          THEN Strict(active, Head(switches).activate, Head(switches).deactivate)
                          ELSE BestEffort(active, Head(switches).activate, Head(switches).deactivate)
          /\ switches' = <<>> /\ UNCHANGED <<stopper, topic, lists, listReplies, environment>>
      BY <1>10, <3>0 DEF ServeSwitch
    <3>5. LET r == Head(switches) IN
          (r.strict = TRUE) /\ r.activate = {} /\ r.deactivate = stopped
      BY <3>0 DEF StopRequest
    <3>4. active' = Strict(active, {}, stopped)
      BY <3>3, <3>5, Zenon
    <3>1. active' = Strict(active, {}, stopped) /\ OnTheWay(<<>>, <<>>, <<>>, <<>>)'
          /\ UNCHANGED <<stopper, environment>>
      BY <2>1, <3>3, <3>4 DEF OnTheWay
    <3> QED
      BY <2>1, <3>1, StopStops DEF Restorable, stopper, environment, Motion
  <2>2. ASSUME Restorable, program, robotRunning, pc = "spin",
               OnTheWay(<<>>, <<>>, <<>>, <<StartRequest(stopped)>>)
        PROVE  Usual'
    <3>0. Head(switches) = StartRequest(stopped) /\ Tail(switches) = <<>>
      BY <2>2, OneMessage, Zenon DEF OnTheWay
    <3>3. /\ active' = IF Head(switches).strict
                          THEN Strict(active, Head(switches).activate, Head(switches).deactivate)
                          ELSE BestEffort(active, Head(switches).activate, Head(switches).deactivate)
          /\ switches' = <<>> /\ UNCHANGED <<stopper, topic, lists, listReplies, environment>>
      BY <1>10, <3>0 DEF ServeSwitch
    <3>5. LET r == Head(switches) IN
          (r.strict = TRUE) /\ r.activate = stopped /\ r.deactivate = {}
      BY <3>0 DEF StartRequest
    <3>4. active' = Strict(active, stopped, {})
      BY <3>3, <3>5, Zenon
    <3>1. active' = Strict(active, stopped, {}) /\ OnTheWay(<<>>, <<>>, <<>>, <<>>)'
          /\ UNCHANGED <<stopper, environment>>
      BY <2>2, <3>3, <3>4 DEF OnTheWay
    <3>2. Usable'
      BY <2>2, <3>1, StartRestores
    <3> QED
      BY <2>2, <3>1, <3>2 DEF Usual, stopper, environment
  <2>3. ASSUME Usable, program, robotRunning, pc = "spin", NEW on \in Modes, NEW off \in Modes,
               on # off, on \notin active \/ off \in active,
               OnTheWay(<<>>, <<>>, <<>>, <<ModeRequest(on, off)>>)
        PROVE  Usual'
    <3>0. Head(switches) = ModeRequest(on, off) /\ Tail(switches) = <<>>
      BY <2>3, OneMessage, Zenon DEF OnTheWay
    <3>3. /\ active' = IF Head(switches).strict
                          THEN Strict(active, Head(switches).activate, Head(switches).deactivate)
                          ELSE BestEffort(active, Head(switches).activate, Head(switches).deactivate)
          /\ switches' = <<>> /\ UNCHANGED <<stopper, topic, lists, listReplies, environment>>
      BY <1>10, <3>0 DEF ServeSwitch
    <3>5. LET r == Head(switches) IN
          (r.strict = FALSE) /\ r.activate = {on} /\ r.deactivate = {off}
      BY <3>0 DEF ModeRequest
    <3>4. active' = BestEffort(active, {on}, {off})
      BY <3>3, <3>5, Zenon
    <3>1. active' = BestEffort(active, {on}, {off}) /\ OnTheWay(<<>>, <<>>, <<>>, <<>>)'
          /\ UNCHANGED <<stopper, environment>>
      BY <2>3, <3>3, <3>4 DEF OnTheWay
    <3>2. Usable'
      BY <2>3, <3>1, ModeKeepsUsable
    <3> QED
      BY <2>3, <3>1, <3>2 DEF Usual, stopper, environment
  <2>4. CASE Constructing
    <3>1. /\ pc = "switchWait" /\ Usable /\ ~program /\ stopped = active \ Consistent
          /\ OnTheWay(<<>>, <<>>, <<>>, <<StopRequest("ctor", stopped)>>)
      BY <1>10, <2>4 DEF ServeSwitch, Constructing, Stopping, OnTheWay
    <3> QED
      BY <2>1, <3>1 DEF Constructing
  <2>5. CASE Usual
    <3>1. /\ pc = "spin"
          /\ \/ /\ Usable /\ ~program /\ ~robotRunning /\ stopped = active \ Consistent
                /\ OnTheWay(<<>>, <<>>, <<>>, <<StopRequest("callback", stopped)>>)
             \/ /\ Restorable /\ program /\ robotRunning
                /\ OnTheWay(<<>>, <<>>, <<>>, <<StartRequest(stopped)>>)
             \/ /\ Usable /\ program /\ robotRunning
                /\ \E on, off \in Modes :
                     /\ on # off /\ (on \notin active \/ off \in active)
                     /\ OnTheWay(<<>>, <<>>, <<>>, <<ModeRequest(on, off)>>)
      BY <1>10, <2>5 DEF ServeSwitch, Usual, Stopping, OnTheWay, Modes
    <3> QED
      BY <2>1, <2>2, <2>3, <3>1 DEF Usual
  <2> QED
    BY <1>2, <2>4, <2>5
<1>11. CASE Spawn
  BY <1>2, <1>11 DEF Spawn
<1>12. CASE ProgramChange
  <2>1. Quiet
    BY <1>12 DEF ProgramChange, Hasty
  <2>2. /\ pc = "spin" /\ OnTheWay(<<>>, <<>>, <<>>, <<>>)
        /\ (Usable /\ program /\ robotRunning) \/ (Restorable /\ ~program /\ ~robotRunning)
    BY <1>2, <2>1 DEF Quiet, Constructing, Usual, Stopping, OnTheWay
  <2>3. CASE Usable /\ program /\ robotRunning
    <3>1. /\ pc' = "spin" /\ Usable' /\ ~program' /\ robotRunning'
          /\ OnTheWay(<<FALSE>>, <<>>, <<>>, <<>>)'
      BY <1>12, <2>2, <2>3 DEF ProgramChange, OnTheWay, stopper, Usable
    <3> QED
      BY <3>1 DEF Usual
  <2>4. CASE Restorable /\ ~program /\ ~robotRunning
    <3>1. /\ pc' = "spin" /\ Restorable' /\ program' /\ ~robotRunning'
          /\ OnTheWay(<<TRUE>>, <<>>, <<>>, <<>>)'
      BY <1>12, <2>2, <2>4 DEF ProgramChange, OnTheWay, stopper, Restorable
    <3> QED
      BY <3>1 DEF Usual
  <2> QED
    BY <2>2, <2>3, <2>4
<1>13. ASSUME NEW on \in Modes, NEW off \in Modes, on # off, AppSwitch(on, off)
       PROVE  Usual'
  <2>1. Quiet /\ program
    BY <1>13 DEF AppSwitch, Hasty
  <2>2. /\ pc = "spin" /\ OnTheWay(<<>>, <<>>, <<>>, <<>>) /\ Usable /\ robotRunning
    BY <1>2, <2>1 DEF Quiet, Constructing, Usual, Stopping, OnTheWay
  <2>3. /\ pc' = "spin" /\ Usable' /\ program' /\ robotRunning'
        /\ OnTheWay(<<>>, <<>>, <<>>, <<ModeRequest(on, off)>>)'
        /\ (on \notin active' \/ off \in active')
    BY <1>13, <2>1, <2>2 DEF AppSwitch, OnTheWay, stopper, Usable, ModeRequest
  <2> QED
    BY <1>13, <2>3 DEF Usual, Modes
<1>14. CASE UNCHANGED stopperVars
  BY <1>2, <1>14
  DEF stopperVars, stopper, channels, environment, Constructing, Usual, Stopping, OnTheWay, Usable,
      Restorable, Reply
<1> QED
  BY <1>4, <1>5, <1>6, <1>7, <1>8, <1>9, <1>10, <1>11, <1>12, <1>13, <1>14
  DEF StopperNext, Stopper, Manager, Modes

LEMMA CalmMirrors == CalmInv => MirrorsProgram
<1> SUFFICES ASSUME CalmInv, Quiet, hasty = {} PROVE Mirrored
  BY DEF MirrorsProgram
<1>1. Constructing \/ Usual
  BY DEF CalmInv
<1>2. (Usable /\ program) \/ (Restorable /\ ~program)
  BY <1>1 DEF Quiet, Constructing, Usual, Stopping, OnTheWay
<1> QED
  BY <1>2 DEF Mirrored, Restorable

\* For every set of controllers and spawn order with one that drives the joints: when
\* the stopper has nothing left to do and nobody was hasty, the controllers mirror the
\* program (doc/controller_stopper.rst).
THEOREM ControllersMirror == StopperSpec => []MirrorsProgram
<1> QED
  BY InitCalm, NextCalm, CalmMirrors, StopperTypes, PTL DEF StopperSpec

-----------------------------------------------------------------------------
(* The queue of a pipeline.  The invariant ties what the threads remember  *)
(* of each other's indices to what the indices are, the indices to the     *)
(* numbers of elements that went in and came out, and these to the count   *)
(* of the semaphore.                                                       *)
(* How far it is from i to j round a ring of n.                            *)
Ahead(n, i, j) == IF j >= i THEN j - i ELSE j - i + n

Holding == {"take", "reload", "other", "recheck", "advance", "read"}
Asleep == {"sleep", "undo", "posted"}
QueueTypeOK ==
    /\ mem \in Memory
    /\ sem \in [count : Int, posts : {0, 1}]
    /\ prod \in [pc : {"idle", "full", "ahead", "write", "publish", "move", "signal", "post"},
                 next : 1..(MaxElements + 1), held : Int, block : Blocks, refused : BOOLEAN]
    /\ cons \in [pc : Holding \cup Asleep \cup {"idle", "again", "release"}, got : Int, taken : Int]

(* The slots of a block that are in use, the block that was published last *)
(* and how far a block is from the one that is emptied.                    *)
InUse(b) == Ahead(Size, mem.front[b], mem.tail[b])
LastBlock == IF prod.pc = "move" THEN prod.block ELSE mem.tailBlock
Place(b) == Ahead(Count, mem.frontBlock, b)
Published == prod.next - 1 + (IF prod.pc \in {"move", "signal"} THEN 1 ELSE 0)
Earlier(b) == IF b = mem.frontBlock THEN Released
             ELSE Released + InUse(mem.frontBlock) + (Place(b) - 1) * (Size - 1)

(* What a thread remembers of the other's end is what that was earlier.    *)
SlotsInv ==
    \A b \in Blocks : /\ InUse(b) <= Ahead(Size, mem.localFront[b], mem.tail[b])
                      /\ Ahead(Size, mem.front[b], mem.localTail[b]) <= InUse(b)

(* The blocks in use follow each other, those in the middle are full.      *)
BlocksInv ==
    \A last \in Blocks :
        last = LastBlock =>
            /\ \A b \in Blocks : /\ Place(b) > Place(last) => InUse(b) = 0
                                 /\ 0 < Place(b) /\ Place(b) < Place(last) => InUse(b) = Size - 1
            /\ Place(last) > 0 => InUse(last) > 0
            /\ Published = Earlier(last) + InUse(last)

ContentInv ==
    \A b \in Blocks, i \in 0..(Size - 1) :
        Ahead(Size, mem.front[b], i) < InUse(b)
          /\ ~ (cons.pc = "release" /\ b = mem.frontBlock /\ i = mem.front[b])
        => mem.data[b][i] = Earlier(b) + Ahead(Size, mem.front[b], i) + 1

ProducerInv ==
    /\ prod.pc \in {"full", "ahead"} => prod.block = mem.tailBlock
    /\ prod.pc \in {"write", "publish", "move"} /\ prod.block # mem.tailBlock =>
           prod.block = Following(mem.tailBlock) /\ prod.block # mem.frontBlock
    /\ prod.pc = "move" => prod.block # mem.tailBlock /\ InUse(prod.block) = 1
    /\ prod.pc \in {"write", "publish"} =>
           Ahead(Size, mem.localFront[prod.block], mem.tail[prod.block]) < Size - 1
    /\ \/ prod.pc = "ahead"
       \/ prod.pc \in {"write", "publish", "move"} /\ prod.block # mem.tailBlock
       => (Place(mem.tailBlock) > 0 => InUse(mem.tailBlock) = Size - 1)
    /\ prod.pc = "publish" => mem.data[prod.block][mem.tail[prod.block]] = prod.next
    /\ prod.pc \in {"full", "ahead", "write", "publish", "move", "signal"} => prod.next <= MaxElements
    /\ prod.pc \in {"full", "ahead"} => prod.held >= Published - Released
    /\ prod.pc = "ahead" => prod.held >= Size - 1
    /\ prod.refused => prod.held >= shape.max

ConsumerInv ==
    /\ cons.pc \in {"read", "release"} => Ahead(Size, mem.front[FrontBlock], mem.localTail[FrontBlock]) > 0
    /\ cons.pc \in {"other", "recheck", "advance"} => FrontBlock # mem.tailBlock
    /\ cons.pc = "advance" => InUse(FrontBlock) = 0
    /\ cons.got = cons.taken

SignalInv ==
    LET pending == sem.posts + (IF prod.pc = "post" THEN 1 ELSE 0)
    IN  /\ sem.count = prod.next - 1 - cons.taken - (IF cons.pc \in Holding \cup Asleep THEN 1 ELSE 0)
        /\ cons.pc \in Asleep => sem.count >= -1 /\ pending = (IF sem.count >= 0 THEN 1 ELSE 0)
        /\ cons.pc = "posted" => sem.count >= 0
        /\ cons.pc = "again" => sem.count >= 1 /\ pending = 1
        /\ cons.pc \notin Asleep \cup {"again"} => sem.count >= 0 /\ pending = 0

QueueInv == QueueTypeOK /\ SlotsInv /\ BlocksInv /\ ContentInv /\ ProducerInv /\ ConsumerInv /\ SignalInv

-----------------------------------------------------------------------------
\* The ring that is looked for has room, and there are blocks enough.
LEMMA PowerIsFound ==
  ASSUME NEW x \in Nat, \A k \in 0..x : 2 ^ k \in Nat, 2 ^ x >= x
  PROVE  CeilToPow2(x) \in Nat /\ CeilToPow2(x) >= x
<1> DEFINE P == {2 ^ k : k \in 0..x}
           E == {p \in P : p >= x}
<1>1. P \subseteq Nat
  OBVIOUS
<1>2. 2 ^ x \in E
  OBVIOUS
<1>3. CeilToPow2(x) = CHOOSE p \in P : p >= x /\ \A o \in P : o >= x => p <= o
  BY DEF CeilToPow2
<1>4. \A p \in P : p \in E <=> p >= x
  OBVIOUS
<1>5. E \in SUBSET Nat /\ E \subseteq P
  BY <1>1
<1> HIDE DEF P, E
<1>6. PICK n \in E : \A m \in E : n <= m
  BY <1>2, <1>5, Least
<1>7. \E p \in P : p >= x /\ \A o \in P : o >= x => p <= o
  BY <1>4, <1>5, <1>6
<1> QED
  BY <1>1, <1>3, <1>7

\* The blocks that are asked for hold more than the queue is to hold.
LEMMA BlocksNeeded ==
  ASSUME NEW b \in Nat, b >= 2, NEW m \in Nat, m > 0
  PROVE  /\ (m + 2 * b - 3) \div (b - 1) \in Nat
         /\ (m + 2 * b - 3) \div (b - 1) >= 2
         /\ ((m + 2 * b - 3) \div (b - 1) - 1) * (b - 1) >= m
<1> DEFINE k == b - 1
           q == (m + 2 * b - 3) \div (b - 1)
<1>1. k \in Nat /\ k > 0 /\ m + 2 * b - 3 = m + 2 * k - 1
  OBVIOUS
<1>2. q = (m + 2 * k - 1) \div k
  OBVIOUS
<1>3. \A n, d \in Nat : d > 0 => n \div d \in Nat /\ n < (n \div d) * d + d
  BY SMTT(30)
<1>4. q \in Nat /\ m + 2 * k - 1 < q * k + k
  <2>1. m + 2 * k - 1 \in Nat
    BY <1>1
  <2> HIDE DEF k, q
  <2> QED
    BY <1>1, <1>2, <1>3, <2>1
<1> HIDE DEF q, k
<1>5. q >= 2
  <2>1. q = 0 => q * k = 0
    BY <1>1, <1>4
  <2>2. q = 1 => q * k = k
    BY <1>1, <1>4
  <2> QED
    BY <1>1, <1>4, <2>1, <2>2
<1>6. (q - 1) * k >= m
  BY <1>1, <1>4, SMTT(30)
<1> QED
  BY <1>4, <1>5, <1>6 DEF q, k

\* The sizes of the rings, and that one block less than there are is enough.
LEMMA QueueSizes ==
  ASSUME shape \in Shapes
  PROVE  /\ Size \in Nat /\ Size >= 2 /\ Count \in Nat /\ Count >= 1
         /\ shape.max \in Nat
         /\ Count = 1 => Size - 1 >= shape.max
         /\ Count > 1 => (Count - 1) * (Size - 1) >= shape.max
<1>1. shape.max \in Nat /\ shape.max > 0 /\ shape.block \in Nat
  BY QueueAssumption DEF QueueAssumption
<1>2. shape.block >= 2
  BY QueueAssumption, PowersOfTwo DEF QueueAssumption, PowersOfTwo
<1>3. CeilToPow2(shape.max + 1) \in Nat /\ CeilToPow2(shape.max + 1) >= shape.max + 1
  <2>1. /\ shape.max + 1 \in Nat /\ \A k \in 0..(shape.max + 1) : 2 ^ k \in Nat
        /\ 2 ^ (shape.max + 1) >= shape.max + 1
    BY <1>1, PowersOfTwo DEF PowersOfTwo
  <2> QED
    BY <2>1, PowerIsFound
<1>4. CASE Single
  BY <1>1, <1>3, <1>4 DEF Size, Count
<1>5. CASE ~Single
  <2>1. Size = shape.block /\ Count = (shape.max + 2 * shape.block - 3) \div (shape.block - 1)
    BY <1>5 DEF Size, Count
  <2>2. PICK b \in Nat : b = shape.block
    BY <1>1
  <2>3. PICK m \in Nat : m = shape.max
    BY <1>1
  <2>4. PICK q : q = (m + 2 * b - 3) \div (b - 1)
    OBVIOUS
  <2>5. q \in Nat /\ q >= 2 /\ (q - 1) * (b - 1) >= m
    BY <1>1, <1>2, <2>2, <2>3, <2>4, BlocksNeeded
  <2>6. Size = b /\ Count = q
    BY <2>1, <2>2, <2>3, <2>4
  <2> QED
    BY <1>1, <1>2, <2>2, <2>3, <2>5, <2>6
<1> QED
  BY <1>4, <1>5

\* Distances round a ring.
LEMMA AheadTyped ==
  ASSUME NEW n \in Nat, NEW i \in 0..(n - 1), NEW j \in 0..(n - 1)
  PROVE  /\ Ahead(n, i, j) \in 0..(n - 1)
         /\ Ahead(n, i, j) = 0 <=> i = j
BY DEF Ahead

\* The next one round a ring.
LEMMA NextInRing ==
  ASSUME NEW n \in Nat, NEW i \in 0..(n - 1)
  PROVE  (i + 1) % n = (IF i + 1 = n THEN 0 ELSE i + 1) /\ (i + 1) % n \in 0..(n - 1)
<1>1. n > 0
  OBVIOUS
<1>2. (i + 1) % n = (IF i + 1 = n THEN 0 ELSE i + 1)
  BY <1>1, SMTT(30)
<1> QED
  BY <1>1, <1>2

\* Seen from the next one everything is one nearer, and the place itself farthest.
LEMMA AheadOfNext ==
  ASSUME NEW n \in Nat, NEW i \in 0..(n - 1), NEW j \in 0..(n - 1)
  PROVE  Ahead(n, (i + 1) % n, j) = IF i = j THEN n - 1 ELSE Ahead(n, i, j) - 1
<1>1. PICK k \in 0..(n - 1) : k = (i + 1) % n /\ k = IF i + 1 = n THEN 0 ELSE i + 1
  BY NextInRing
<1>2. Ahead(n, k, j) = IF i = j THEN n - 1 ELSE Ahead(n, i, j) - 1
  BY <1>1 DEF Ahead
<1> QED
  BY <1>1, <1>2

\* The next one is one farther, unless that closes the ring.
LEMMA AheadToNext ==
  ASSUME NEW n \in Nat, NEW i \in 0..(n - 1), NEW j \in 0..(n - 1)
  PROVE  /\ (j + 1) % n = i <=> Ahead(n, i, j) = n - 1
         /\ (j + 1) % n # i => Ahead(n, i, (j + 1) % n) = Ahead(n, i, j) + 1
<1>1. PICK k \in 0..(n - 1) : k = (j + 1) % n /\ k = IF j + 1 = n THEN 0 ELSE j + 1
  BY NextInRing
<1>2. k = i <=> Ahead(n, i, j) = n - 1
  BY <1>1 DEF Ahead
<1>3. k # i => Ahead(n, i, k) = Ahead(n, i, j) + 1
  BY <1>1 DEF Ahead
<1> QED
  BY <1>1, <1>2, <1>3

\* Two places are not equally far.
LEMMA AheadDiffers ==
  ASSUME NEW n \in Nat, NEW i \in 0..(n - 1), NEW j \in 0..(n - 1), NEW k \in 0..(n - 1),
         Ahead(n, i, j) = Ahead(n, i, k)
  PROVE  j = k
BY DEF Ahead

\* The queue keeps the shape it was built with.
LEMMA ShapeStays ==
  ASSUME shape' = shape
  PROVE  Size' = Size /\ Count' = Count /\ Blocks' = Blocks
BY DEF Size, Single, Count, Blocks, CeilToPow2

\* So its memory stays of one type.
LEMMA MemoryStays ==
  ASSUME shape' = shape
  PROVE  Memory' = Memory
BY ShapeStays DEF Memory, Positions

\* A block comes after another one, and a slot after another one.
LEMMA RingFacts ==
  ASSUME shape \in Shapes
  PROVE  /\ Size \in Nat /\ Size >= 2 /\ Count \in Nat /\ Count >= 1 /\ Blocks = 0..(Count - 1)
         /\ \A i \in 0..(Size - 1) : Succ(i) \in 0..(Size - 1)
         /\ \A b \in Blocks : Following(b) \in Blocks
         /\ \A i, j \in 0..(Size - 1) : Ahead(Size, i, j) \in 0..(Size - 1) /\ (Ahead(Size, i, j) = 0 <=> i = j)
         /\ \A i, j \in 0..(Size - 1) :
                /\ Ahead(Size, Succ(i), j) = IF i = j THEN Size - 1 ELSE Ahead(Size, i, j) - 1
                /\ Succ(j) = i <=> Ahead(Size, i, j) = Size - 1
                /\ Succ(j) # i => Ahead(Size, i, Succ(j)) = Ahead(Size, i, j) + 1
         /\ \A a, b \in Blocks : Ahead(Count, a, b) \in 0..(Count - 1) /\ (Ahead(Count, a, b) = 0 <=> a = b)
         /\ \A a, b \in Blocks :
                /\ Ahead(Count, Following(a), b) = IF a = b THEN Count - 1 ELSE Ahead(Count, a, b) - 1
                /\ Following(b) = a <=> Ahead(Count, a, b) = Count - 1
                /\ Following(b) # a => Ahead(Count, a, Following(b)) = Ahead(Count, a, b) + 1
<1>1. Size \in Nat /\ Size >= 2 /\ Count \in Nat /\ Count >= 1 /\ Blocks = 0..(Count - 1)
  BY QueueSizes DEF Blocks
<1>2. \A i \in 0..(Size - 1) : Succ(i) \in 0..(Size - 1)
  BY <1>1, NextInRing DEF Succ
<1>3. \A b \in Blocks : Following(b) \in Blocks
  BY <1>1, NextInRing DEF Following
<1>4. \A i, j \in 0..(Size - 1) : Ahead(Size, i, j) \in 0..(Size - 1) /\ (Ahead(Size, i, j) = 0 <=> i = j)
  BY <1>1, AheadTyped
<1>5. \A i, j \in 0..(Size - 1) :
                /\ Ahead(Size, Succ(i), j) = IF i = j THEN Size - 1 ELSE Ahead(Size, i, j) - 1
                /\ Succ(j) = i <=> Ahead(Size, i, j) = Size - 1
                /\ Succ(j) # i => Ahead(Size, i, Succ(j)) = Ahead(Size, i, j) + 1
  BY <1>1, AheadOfNext, AheadToNext DEF Succ
<1>6. \A a, b \in Blocks : Ahead(Count, a, b) \in 0..(Count - 1) /\ (Ahead(Count, a, b) = 0 <=> a = b)
  BY <1>1, AheadTyped
<1>7. \A a, b \in Blocks :
                /\ Ahead(Count, Following(a), b) = IF a = b THEN Count - 1 ELSE Ahead(Count, a, b) - 1
                /\ Following(b) = a <=> Ahead(Count, a, b) = Count - 1
                /\ Following(b) # a => Ahead(Count, a, Following(b)) = Ahead(Count, a, b) + 1
  BY <1>1, AheadOfNext, AheadToNext DEF Following
<1> QED
  BY <1>1, <1>2, <1>3, <1>4, <1>5, <1>6, <1>7

\* A slot that may be written leaves one free.
LEMMA RoomAhead ==
  ASSUME shape \in Shapes, NEW i \in 0..(Size - 1), NEW j \in 0..(Size - 1)
  PROVE  /\ Succ(j) # i => Ahead(Size, i, j) < Size - 1
         /\ Succ(j) = i => Ahead(Size, i, j) = Size - 1
<1>1. /\ Size \in Nat /\ Ahead(Size, i, j) \in 0..(Size - 1)
      /\ Succ(j) = i <=> Ahead(Size, i, j) = Size - 1
  BY RingFacts
<1> QED
  BY <1>1

\* RingFacts, of two blocks.
LEMMA BlockAfter ==
  ASSUME shape \in Shapes, NEW a \in Blocks, NEW b \in Blocks
  PROVE  /\ Following(a) \in Blocks /\ Following(b) \in Blocks
         /\ Ahead(Count, a, b) \in 0..(Count - 1) /\ (Ahead(Count, a, b) = 0 <=> a = b)
         /\ Ahead(Count, Following(a), b) = IF a = b THEN Count - 1 ELSE Ahead(Count, a, b) - 1
         /\ Following(b) = a <=> Ahead(Count, a, b) = Count - 1
         /\ Following(b) # a => Ahead(Count, a, Following(b)) = Ahead(Count, a, b) + 1
BY RingFacts

\* RingFacts, of two slots.
LEMMA SlotAfter ==
  ASSUME shape \in Shapes, NEW i \in 0..(Size - 1), NEW j \in 0..(Size - 1)
  PROVE  /\ Succ(i) \in 0..(Size - 1) /\ Succ(j) \in 0..(Size - 1)
         /\ Ahead(Size, i, j) \in 0..(Size - 1) /\ (Ahead(Size, i, j) = 0 <=> i = j)
         /\ Ahead(Size, Succ(i), j) = IF i = j THEN Size - 1 ELSE Ahead(Size, i, j) - 1
         /\ Succ(j) = i <=> Ahead(Size, i, j) = Size - 1
         /\ Succ(j) # i => Ahead(Size, i, Succ(j)) = Ahead(Size, i, j) + 1
BY RingFacts

\* What is read off the memory, and what a step leaves alone.
LEMMA MemoryTyped ==
  ASSUME shape \in Shapes, QueueTypeOK
  PROVE  /\ mem.frontBlock \in Blocks /\ mem.tailBlock \in Blocks /\ prod.block \in Blocks
         /\ LastBlock \in Blocks
         /\ \A b \in Blocks : /\ mem.front[b] \in 0..(Size - 1) /\ mem.tail[b] \in 0..(Size - 1)
                              /\ mem.localFront[b] \in 0..(Size - 1) /\ mem.localTail[b] \in 0..(Size - 1)
                              /\ InUse(b) \in 0..(Size - 1) /\ Place(b) \in 0..(Count - 1)
         /\ Released \in Int /\ Published \in Int
<1>1. mem.frontBlock \in Blocks /\ mem.tailBlock \in Blocks /\ prod.block \in Blocks
  BY DEF QueueTypeOK, Memory
<1>2. \A b \in Blocks : /\ mem.front[b] \in 0..(Size - 1) /\ mem.tail[b] \in 0..(Size - 1)
                        /\ mem.localFront[b] \in 0..(Size - 1) /\ mem.localTail[b] \in 0..(Size - 1)
  BY DEF QueueTypeOK, Memory, Positions
<1>3. Released \in Int /\ Published \in Int
  BY DEF QueueTypeOK, Released, Published
<1> QED
  BY <1>1, <1>2, <1>3, RingFacts DEF LastBlock, InUse, Place

\* What each part of the invariant depends on.
LEMMA SlotsKept ==
  ASSUME SlotsInv, shape' = shape, mem'.front = mem.front, mem'.tail = mem.tail,
         mem'.localFront = mem.localFront, mem'.localTail = mem.localTail
  PROVE  SlotsInv'
BY ShapeStays DEF SlotsInv, InUse

\* The blocks, unless an index, the last block or a number changes.
LEMMA BlocksKept ==
  ASSUME BlocksInv, shape' = shape, mem'.front = mem.front, mem'.tail = mem.tail,
         mem'.frontBlock = mem.frontBlock, LastBlock' = LastBlock,
         Released' = Released, Published' = Published
  PROVE  BlocksInv'
BY ShapeStays DEF BlocksInv, InUse, Place, Earlier

\* The contents, unless an index, an element or the front changes.
LEMMA ContentKept ==
  ASSUME ContentInv, shape' = shape, mem'.front = mem.front, mem'.tail = mem.tail,
         mem'.frontBlock = mem.frontBlock, mem'.data = mem.data,
         Released' = Released, cons'.pc = "release" <=> cons.pc = "release"
  PROVE  ContentInv'
BY ShapeStays DEF ContentInv, InUse, Place, Earlier

\* Products, one factor at a time.
LEMMA Times ==
  ASSUME NEW k \in Nat
  PROVE  0 * k = 0 /\ \A d \in Nat : d * k \in Nat /\ (d + 1) * k = d * k + k
OBVIOUS

\* A queue that is built is empty.
LEMMA QueueBegins ==
  ASSUME QueueInit
  PROVE  QueueInv
<1>1. /\ shape \in Shapes
      /\ mem = [front |-> [b \in Blocks |-> 0], tail |-> [b \in Blocks |-> 0],
                localFront |-> [b \in Blocks |-> 0], localTail |-> [b \in Blocks |-> 0],
                data |-> [b \in Blocks |-> [i \in 0..(Size - 1) |-> NoElement]],
                frontBlock |-> 0, tailBlock |-> 0]
      /\ sem = [count |-> 0, posts |-> 0]
      /\ prod = [pc |-> "idle", next |-> 1, held |-> 0, block |-> 0, refused |-> FALSE]
      /\ cons = [pc |-> "idle", got |-> 0, taken |-> 0]
  BY DEF QueueInit
<1>2. /\ Size \in Nat /\ Size >= 2 /\ Count \in Nat /\ Count >= 1 /\ Blocks = 0..(Count - 1)
      /\ \A i, j \in 0..(Size - 1) : Ahead(Size, i, j) \in 0..(Size - 1) /\ (Ahead(Size, i, j) = 0 <=> i = j)
      /\ \A a, b \in Blocks : Ahead(Count, a, b) \in 0..(Count - 1) /\ (Ahead(Count, a, b) = 0 <=> a = b)
      /\ MaxElements \in Nat
  BY <1>1, RingFacts, QueueAssumption DEF QueueAssumption
<1>3. QueueTypeOK
  BY <1>1, <1>2 DEF QueueTypeOK, Memory, Positions, NoElement
<1>m. /\ mem.frontBlock = 0 /\ mem.tailBlock = 0 /\ 0 \in Blocks
      /\ \A b \in Blocks : /\ mem.front[b] = 0 /\ mem.tail[b] = 0
                           /\ mem.localFront[b] = 0 /\ mem.localTail[b] = 0
      /\ Ahead(Size, 0, 0) = 0
  BY <1>1, <1>2
<1>4. /\ \A b \in Blocks : InUse(b) = 0 /\ Place(b) \in 0..(Count - 1)
      /\ LastBlock = 0 /\ Place(0) = 0 /\ Released = 0 /\ Published = 0 /\ Earlier(0) = 0
  <2>1. LastBlock = 0 /\ Released = 0 /\ Published = 0
    BY <1>1 DEF LastBlock, Released, Published
  <2>2. \A b \in Blocks : InUse(b) = 0
    BY <1>m DEF InUse
  <2>3. \A b \in Blocks : Place(b) = Ahead(Count, 0, b)
    BY <1>m DEF Place
  <2>4. ASSUME NEW b \in Blocks PROVE Place(b) \in 0..(Count - 1)
    <3>1. shape \in Shapes /\ 0 \in Blocks
      BY <1>1, <1>m
    <3>2. Ahead(Count, 0, b) \in 0..(Count - 1)
      BY <3>1, BlockAfter
    <3> QED
      BY <2>3, <3>2
  <2>5. Place(0) = 0
    <3>1. shape \in Shapes /\ 0 \in Blocks
      BY <1>1, <1>m
    <3>2. Ahead(Count, 0, 0) = 0
      BY <3>1, BlockAfter
    <3> QED
      BY <2>3, <3>1, <3>2
  <2>6. Earlier(0) = 0
    BY <1>m, <2>1 DEF Earlier
  <2> QED
    BY <2>1, <2>2, <2>4, <2>5, <2>6
<1>5. SlotsInv /\ ContentInv
  <2>1. SlotsInv
    BY <1>m, <1>4 DEF SlotsInv
  <2>2. ContentInv
    <3> SUFFICES ASSUME NEW b \in Blocks, NEW i \in 0..(Size - 1)
                 PROVE  ~ (Ahead(Size, mem.front[b], i) < InUse(b))
      BY DEF ContentInv
    <3>0. 0 \in 0..(Size - 1)
      BY <1>2
    <3>1. mem.front[b] = 0 /\ InUse(b) = 0 /\ 0 \in 0..(Size - 1)
      BY <1>m, <1>4, <3>0
    <3>2. Ahead(Size, 0, i) \in 0..(Size - 1)
      BY <1>2, <3>1
    <3> QED
      BY <3>1, <3>2
  <2> QED
    BY <2>1, <2>2
<1>6. BlocksInv
  <2>1. Count \in Nat
    BY <1>2
  <2>2. Place(LastBlock) = 0 /\ InUse(LastBlock) = 0 /\ Published = Earlier(LastBlock)
    BY <1>m, <1>4
  <2>3. \A b \in Blocks : Place(b) >= 0 /\ InUse(b) = 0 /\ Place(b) \in Int
    BY <1>4, <2>1
  <2>4. Published = Earlier(LastBlock) + InUse(LastBlock)
    BY <1>4, <2>2
  <2> QED
    BY <2>2, <2>3, <2>4 DEF BlocksInv
<1>7. ProducerInv /\ ConsumerInv
  BY <1>1 DEF ProducerInv, ConsumerInv
<1>8. SignalInv
  BY <1>1 DEF SignalInv, Holding, Asleep
<1> QED
  BY <1>3, <1>5, <1>6, <1>7, <1>8 DEF QueueInv

\* What is in the queue is at least what is in the block that was written last.
LEMMA HeldInTail ==
  ASSUME shape \in Shapes, QueueTypeOK, BlocksInv
  PROVE  /\ Published - Released >= InUse(LastBlock)
         /\ Place(LastBlock) > 0 =>
                Published - Released >= (Place(LastBlock) - 1) * (Size - 1) + InUse(LastBlock)
<1>1. /\ LastBlock \in Blocks /\ mem.frontBlock \in Blocks /\ Released \in Int /\ Published \in Int
      /\ InUse(LastBlock) \in Nat /\ InUse(mem.frontBlock) \in Nat /\ Place(LastBlock) \in Nat
      /\ Size - 1 \in Nat
      /\ Place(LastBlock) = 0 <=> LastBlock = mem.frontBlock
  <2>1. /\ LastBlock \in Blocks /\ mem.frontBlock \in Blocks /\ Released \in Int /\ Published \in Int
        /\ \A b \in Blocks : InUse(b) \in 0..(Size - 1) /\ Place(b) \in 0..(Count - 1)
    BY MemoryTyped
  <2>2. Size \in Nat /\ Size >= 2 /\ Count \in Nat
        /\ \A a, b \in Blocks : Ahead(Count, a, b) = 0 <=> a = b
    BY RingFacts
  <2> QED
    BY <2>1, <2>2 DEF Place
<1>2. Published = Earlier(LastBlock) + InUse(LastBlock)
  BY <1>1 DEF BlocksInv
<1>3. CASE LastBlock = mem.frontBlock
  BY <1>1, <1>2, <1>3 DEF Earlier
<1>4. CASE LastBlock # mem.frontBlock
  <2>1. PICK t : t = (Place(LastBlock) - 1) * (Size - 1)
    OBVIOUS
  <2>2. t \in Nat
    BY <1>1, <1>4, <2>1, Times
  <2> QED
    BY <1>1, <1>2, <1>4, <2>1, <2>2, SMTT(30) DEF Earlier
<1> QED
  BY <1>3, <1>4

\* try_enqueue() begins: it goes by the front it remembers.
LEMMA StartEnqueueKeeps ==
  ASSUME shape \in Shapes, QueueInv, StartEnqueue, UNCHANGED <<shape, cons>>
  PROVE  QueueInv'
<1>1. /\ prod.pc = "idle" /\ prod.next <= MaxElements
      /\ prod'.pc = IF Succ(mem.tail[mem.tailBlock]) # mem.localFront[mem.tailBlock] THEN "write" ELSE "full"
      /\ prod'.next = prod.next /\ prod'.held = prod.next - 1 - Released
      /\ prod'.block = mem.tailBlock /\ prod'.refused = FALSE
      /\ DOMAIN prod' = {"pc", "next", "held", "block", "refused"}
      /\ mem' = mem /\ sem' = sem /\ cons' = cons /\ shape' = shape
  BY DEF StartEnqueue, TailBlock, QueueInv, QueueTypeOK
<1>2. QueueTypeOK /\ SlotsInv /\ BlocksInv /\ ContentInv /\ ProducerInv /\ ConsumerInv /\ SignalInv
  BY DEF QueueInv
<1>3. QueueTypeOK'
  <2>0. prod.next - 1 - Released \in Int
    BY <1>2, MemoryTyped DEF QueueTypeOK
  <2>1. prod' \in [pc : {"idle", "full", "ahead", "write", "publish", "move", "signal", "post"},
                 next : 1..(MaxElements + 1), held : Int, block : Blocks, refused : BOOLEAN]
    <3>1. PICK at \in {"write", "full"}, held \in Int, block \in Blocks :
              prod' = [prod EXCEPT !.block = block, !.held = held, !.refused = FALSE, !.pc = at]
      BY <1>2, <2>0, MemoryTyped DEF StartEnqueue, TailBlock
    <3> QED
      BY <1>2, <3>1 DEF QueueTypeOK
  <2> QED
    BY <1>1, <1>2, <2>1, ShapeStays, MemoryStays DEF QueueTypeOK
<1>4. Released' = Released /\ Published' = Published /\ LastBlock' = LastBlock /\ LastBlock' = mem.tailBlock
  BY <1>1 DEF Released, Published, LastBlock
<1>5. SlotsInv' /\ BlocksInv' /\ ContentInv'
  BY <1>1, <1>2, <1>4, SlotsKept, BlocksKept, ContentKept
<1>6. ProducerInv'
  <2>1. prod'.pc = "write" => Ahead(Size, mem.localFront[mem.tailBlock], mem.tail[mem.tailBlock]) < Size - 1
    <3>1. PICK i \in 0..(Size - 1) : i = mem.localFront[mem.tailBlock]
      BY <1>2, MemoryTyped
    <3>2. PICK j \in 0..(Size - 1) : j = mem.tail[mem.tailBlock]
      BY <1>2, MemoryTyped
    <3>3. Succ(j) # i => Ahead(Size, i, j) < Size - 1
      BY RoomAhead
    <3> QED
      BY <1>1, <3>1, <3>2, <3>3
  <2>2. prod'.held >= Published' - Released'
    BY <1>1, <1>2, <1>4, MemoryTyped DEF Published, QueueTypeOK
  <2> QED
    BY <1>1, <1>2, <2>1, <2>2, ShapeStays DEF ProducerInv
<1>7. ConsumerInv'
  BY <1>1, <1>2, ShapeStays DEF ConsumerInv, FrontBlock, InUse
<1>8. SignalInv'
  BY <1>1, <1>2 DEF SignalInv
<1> QED
  BY <1>3, <1>5, <1>6, <1>7, <1>8 DEF QueueInv

\* One position of a block is set.
LEMMA PositionSet ==
  ASSUME NEW f \in Positions, NEW b \in Blocks, NEW x \in 0..(Size - 1)
  PROVE  /\ [f EXCEPT ![b] = x] \in Positions
         /\ \A c \in Blocks : [f EXCEPT ![b] = x][c] = IF c = b THEN x ELSE f[c]
BY DEF Positions

\* A thread takes note of the other end of a block.
LEMMA FrontNoted ==
  ASSUME shape \in Shapes, QueueTypeOK, SlotsInv, shape' = shape, NEW c \in Blocks,
         mem' = [mem EXCEPT !.localFront[c] = mem.front[c]]
  PROVE  /\ mem' \in Memory /\ SlotsInv'
         /\ mem'.front = mem.front /\ mem'.tail = mem.tail /\ mem'.localTail = mem.localTail
         /\ mem'.frontBlock = mem.frontBlock /\ mem'.tailBlock = mem.tailBlock /\ mem'.data = mem.data
         /\ \A b \in Blocks : mem'.localFront[b] = IF b = c THEN mem.front[b] ELSE mem.localFront[b]
<1>0. mem.front[c] \in 0..(Size - 1) /\ mem.localFront \in Positions
  BY MemoryTyped DEF QueueTypeOK, Memory
<1>1. /\ mem'.front = mem.front /\ mem'.tail = mem.tail /\ mem'.localTail = mem.localTail
      /\ mem'.frontBlock = mem.frontBlock /\ mem'.tailBlock = mem.tailBlock /\ mem'.data = mem.data
      /\ mem'.localFront = [mem.localFront EXCEPT ![c] = mem.front[c]]
  BY DEF QueueTypeOK, Memory
<1>2. /\ mem'.localFront \in Positions
      /\ \A b \in Blocks : mem'.localFront[b] = IF b = c THEN mem.front[b] ELSE mem.localFront[b]
  BY <1>0, <1>1, PositionSet
<1>3. mem' \in Memory
  <2>1. PICK f \in Positions : mem' = [mem EXCEPT !.localFront = f]
    BY <1>1, <1>2 DEF QueueTypeOK, Memory
  <2> QED
    BY <2>1 DEF QueueTypeOK, Memory
<1>4. SlotsInv'
  <2> SUFFICES ASSUME NEW b \in Blocks
               PROVE  /\ InUse(b)' <= Ahead(Size, mem'.localFront[b], mem'.tail[b])
                      /\ Ahead(Size, mem'.front[b], mem'.localTail[b]) <= InUse(b)'
    BY ShapeStays DEF SlotsInv
  <2>1. InUse(b)' = InUse(b)
    BY <1>1, ShapeStays DEF InUse
  <2>2. InUse(b) <= InUse(b)
    BY MemoryTyped, RingFacts
  <2>3. /\ InUse(b) <= Ahead(Size, mem.localFront[b], mem.tail[b])
        /\ Ahead(Size, mem.front[b], mem.localTail[b]) <= InUse(b)
    BY DEF SlotsInv
  <2>4. b = c => Ahead(Size, mem'.localFront[b], mem'.tail[b]) = InUse(b)
    BY <1>1, <1>2 DEF InUse
  <2> QED
    BY <1>1, <1>2, <2>1, <2>2, <2>3, <2>4
<1> QED
  BY <1>1, <1>2, <1>3, <1>4

\* The reader takes note of a tail, and may go to another block.
LEMMA TailNoted ==
  ASSUME shape \in Shapes, QueueTypeOK, SlotsInv, shape' = shape, NEW c \in Blocks, NEW d \in Blocks,
         mem' = [mem EXCEPT !.frontBlock = d, !.localTail[c] = mem.tail[c]]
  PROVE  /\ mem' \in Memory /\ SlotsInv'
         /\ mem'.front = mem.front /\ mem'.tail = mem.tail /\ mem'.localFront = mem.localFront
         /\ mem'.frontBlock = d /\ mem'.tailBlock = mem.tailBlock /\ mem'.data = mem.data
         /\ \A b \in Blocks : mem'.localTail[b] = IF b = c THEN mem.tail[b] ELSE mem.localTail[b]
<1>0. mem.tail[c] \in 0..(Size - 1) /\ mem.localTail \in Positions
  BY MemoryTyped DEF QueueTypeOK, Memory
<1>1. /\ mem'.front = mem.front /\ mem'.tail = mem.tail /\ mem'.localFront = mem.localFront
      /\ mem'.frontBlock = d /\ mem'.tailBlock = mem.tailBlock /\ mem'.data = mem.data
      /\ mem'.localTail = [mem.localTail EXCEPT ![c] = mem.tail[c]]
  BY DEF QueueTypeOK, Memory
<1>2. /\ mem'.localTail \in Positions
      /\ \A b \in Blocks : mem'.localTail[b] = IF b = c THEN mem.tail[b] ELSE mem.localTail[b]
  BY <1>0, <1>1, PositionSet
<1>3. mem' \in Memory
  <2>1. PICK f \in Positions : mem' = [mem EXCEPT !.frontBlock = d, !.localTail = f]
    BY <1>1, <1>2 DEF QueueTypeOK, Memory
  <2> QED
    BY <2>1 DEF QueueTypeOK, Memory
<1>4. SlotsInv'
  <2> SUFFICES ASSUME NEW b \in Blocks
               PROVE  /\ InUse(b)' <= Ahead(Size, mem'.localFront[b], mem'.tail[b])
                      /\ Ahead(Size, mem'.front[b], mem'.localTail[b]) <= InUse(b)'
    BY ShapeStays DEF SlotsInv
  <2>1. InUse(b)' = InUse(b)
    BY <1>1, ShapeStays DEF InUse
  <2>2. InUse(b) <= InUse(b)
    BY MemoryTyped, RingFacts
  <2>3. /\ InUse(b) <= Ahead(Size, mem.localFront[b], mem.tail[b])
        /\ Ahead(Size, mem.front[b], mem.localTail[b]) <= InUse(b)
    BY DEF SlotsInv
  <2>4. b = c => Ahead(Size, mem'.front[b], mem'.localTail[b]) = InUse(b)
    BY <1>1, <1>2 DEF InUse
  <2> QED
    BY <1>1, <1>2, <2>1, <2>2, <2>3, <2>4
<1> QED
  BY <1>1, <1>2, <1>3, <1>4

\* The block seems full: its front is read again.
LEMMA ReloadFrontKeeps ==
  ASSUME shape \in Shapes, QueueInv, ReloadFront, UNCHANGED <<shape, cons>>
  PROVE  QueueInv'
<1>2. QueueTypeOK /\ SlotsInv /\ BlocksInv /\ ContentInv /\ ProducerInv /\ ConsumerInv /\ SignalInv
  BY DEF QueueInv
<1>0. mem.tailBlock \in Blocks /\ mem.front[mem.tailBlock] \in 0..(Size - 1) /\ mem.tail[mem.tailBlock] \in 0..(Size - 1)
  BY <1>2, MemoryTyped
<1>1. /\ prod.pc = "full"
      /\ prod'.pc = IF Succ(mem.tail[mem.tailBlock]) # mem.front[mem.tailBlock] THEN "write" ELSE "ahead"
      /\ prod'.next = prod.next /\ prod'.held = prod.held /\ prod'.block = prod.block
      /\ prod'.refused = prod.refused
      /\ sem' = sem /\ cons' = cons /\ shape' = shape
      /\ mem' = [mem EXCEPT !.localFront[mem.tailBlock] = mem.front[mem.tailBlock]]
  BY <1>2 DEF ReloadFront, TailBlock, QueueTypeOK
<1>m. /\ mem' \in Memory /\ SlotsInv'
      /\ mem'.front = mem.front /\ mem'.tail = mem.tail /\ mem'.localTail = mem.localTail
      /\ mem'.frontBlock = mem.frontBlock /\ mem'.tailBlock = mem.tailBlock /\ mem'.data = mem.data
      /\ \A b \in Blocks : mem'.localFront[b] = IF b = mem.tailBlock THEN mem.front[b] ELSE mem.localFront[b]
  BY <1>0, <1>1, <1>2, FrontNoted
<1>3. QueueTypeOK'
  <2>1. PICK at \in {"write", "ahead"} : prod' = [prod EXCEPT !.pc = at]
    BY DEF ReloadFront, TailBlock
  <2>2. prod' \in [pc : {"idle", "full", "ahead", "write", "publish", "move", "signal", "post"},
                 next : 1..(MaxElements + 1), held : Int, block : Blocks, refused : BOOLEAN]
    BY <1>2, <2>1 DEF QueueTypeOK
  <2> QED
    BY <1>1, <1>2, <1>m, <2>2, ShapeStays, MemoryStays DEF QueueTypeOK
<1>4. Released' = Released /\ Published' = Published /\ LastBlock' = LastBlock /\ LastBlock = mem.tailBlock
  BY <1>1, <1>m DEF Released, Published, LastBlock
<1>5. BlocksInv' /\ ContentInv'
  BY <1>1, <1>2, <1>m, <1>4, BlocksKept, ContentKept
<1>7. ProducerInv'
  <2>1. PICK i \in 0..(Size - 1) : i = mem.front[mem.tailBlock]
    BY <1>0
  <2>2. PICK j \in 0..(Size - 1) : j = mem.tail[mem.tailBlock]
    BY <1>0
  <2>3. /\ prod'.pc = "write" => Ahead(Size, i, j) < Size - 1
        /\ prod'.pc = "ahead" => Ahead(Size, i, j) = Size - 1
    BY <1>1, <2>1, <2>2, RoomAhead
  <2>4. InUse(mem.tailBlock) = Ahead(Size, i, j)
    BY <2>1, <2>2 DEF InUse
  <2>5. /\ prod.held >= Published - Released /\ prod.next <= MaxElements
        /\ prod.block = mem.tailBlock
    BY <1>1, <1>2 DEF ProducerInv
  <2>6. prod'.pc = "ahead" => InUse(mem.tailBlock)' = Size - 1
    BY <1>0, <1>1, <1>m, <2>1, <2>2, <2>3, <2>4, ShapeStays DEF InUse
  <2>7. prod'.pc = "ahead" => prod.held >= Size - 1
    BY <1>2, <1>4, <2>3, <2>4, <2>5, HeldInTail, MemoryTyped, RingFacts, SMTT(30) DEF QueueTypeOK
  <2>8. prod'.pc = "write" => Ahead(Size, mem'.localFront[prod.block], mem'.tail[prod.block]) < Size - 1
    BY <1>0, <1>m, <2>1, <2>2, <2>3, <2>5
  <2>9. prod.refused => prod.held >= shape.max
    BY <1>2 DEF ProducerInv
  <2> QED
    BY <1>1, <1>m, <1>4, <2>5, <2>6, <2>7, <2>8, <2>9, ShapeStays DEF ProducerInv
<1>8. ConsumerInv'
  BY <1>1, <1>2, <1>m, ShapeStays DEF ConsumerInv, FrontBlock, InUse
<1>9. SignalInv'
  BY <1>1, <1>2 DEF SignalInv
<1> QED
  BY <1>3, <1>5, <1>m, <1>7, <1>8, <1>9 DEF QueueInv

\* The block is full: the next one is taken, or the element is refused.
LEMMA LookAheadKeeps ==
  ASSUME shape \in Shapes, QueueInv, LookAhead, UNCHANGED <<shape, cons>>
  PROVE  QueueInv'
<1>2. QueueTypeOK /\ SlotsInv /\ BlocksInv /\ ContentInv /\ ProducerInv /\ ConsumerInv /\ SignalInv
  BY DEF QueueInv
<1>0. mem.tailBlock \in Blocks /\ Following(mem.tailBlock) \in Blocks /\ mem.frontBlock \in Blocks
  BY <1>2, MemoryTyped, RingFacts
<1>1. /\ prod.pc = "ahead" /\ sem' = sem /\ cons' = cons /\ shape' = shape
      /\ prod.held >= Published - Released /\ prod.held >= Size - 1 /\ prod.next <= MaxElements
      /\ Place(mem.tailBlock) > 0 => InUse(mem.tailBlock) = Size - 1
      /\ LastBlock = mem.tailBlock
  BY <1>2 DEF LookAhead, ProducerInv, LastBlock
<1>3. CASE Following(mem.tailBlock) # mem.frontBlock
  <2>c. PICK c \in Blocks : c = Following(mem.tailBlock)
    BY <1>0
  <2>1. /\ prod' = [prod EXCEPT !.pc = "write", !.block = c]
        /\ mem' = [mem EXCEPT !.localFront[c] = mem.front[c]]
    BY <1>3, <2>c DEF LookAhead, TailBlock
  <2>2. c \in Blocks /\ c # mem.frontBlock
    BY <1>3, <2>c
  <2>3. /\ mem' \in Memory /\ SlotsInv'
        /\ mem'.front = mem.front /\ mem'.tail = mem.tail /\ mem'.localTail = mem.localTail
        /\ mem'.frontBlock = mem.frontBlock /\ mem'.tailBlock = mem.tailBlock /\ mem'.data = mem.data
        /\ \A b \in Blocks : mem'.localFront[b] = IF b = c THEN mem.front[b] ELSE mem.localFront[b]
    BY <1>1, <1>2, <2>1, <2>2, FrontNoted
  <2>4. /\ prod'.pc = "write" /\ prod'.next = prod.next /\ prod'.held = prod.held /\ prod'.block = c
        /\ prod'.refused = prod.refused
    BY <1>2, <2>1 DEF QueueTypeOK
  <2>5. QueueTypeOK'
    <3>1. prod' \in [pc : {"idle", "full", "ahead", "write", "publish", "move", "signal", "post"},
                 next : 1..(MaxElements + 1), held : Int, block : Blocks, refused : BOOLEAN]
      BY <1>2, <2>1, <2>2 DEF QueueTypeOK
    <3> QED
      BY <1>1, <1>2, <2>3, <3>1, ShapeStays, MemoryStays DEF QueueTypeOK
  <2>6. Released' = Released /\ Published' = Published /\ LastBlock' = LastBlock
    BY <1>1, <2>3, <2>4 DEF Released, Published, LastBlock
  <2>7. BlocksInv' /\ ContentInv'
    BY <1>1, <1>2, <2>3, <2>6, BlocksKept, ContentKept
  <2>8. ProducerInv'
    <3>1. Place(c) = Place(mem.tailBlock) + 1
      BY <1>0, <1>3, <2>c, BlockAfter DEF Place
    <3>2. InUse(c) = 0
      <4>1. Place(mem.tailBlock) \in Int
        BY <1>0, <1>2, MemoryTyped, QueueSizes, SMTT(30)
      <4>2. Place(c) > Place(LastBlock)
        BY <1>1, <3>1, <4>1
      <4> QED
        BY <1>0, <1>1, <1>2, <4>2 DEF BlocksInv
    <3>3. Ahead(Size, mem'.localFront[c], mem'.tail[c]) < Size - 1
      BY <2>2, <2>3, <3>2, RingFacts DEF InUse
    <3>4. (Place(mem.tailBlock) > 0 => InUse(mem.tailBlock) = Size - 1)'
      BY <1>1, <2>3, ShapeStays DEF Place, InUse
    <3>5. prod.refused => prod.held >= shape.max
      BY <1>2 DEF ProducerInv
    <3>6. c = Following(mem.tailBlock)'
      BY <1>1, <2>c, <2>3, ShapeStays DEF Following
    <3> QED
      BY <1>1, <2>2, <2>3, <2>4, <3>3, <3>4, <3>5, <3>6, ShapeStays DEF ProducerInv
  <2>9. ConsumerInv'
    BY <1>1, <1>2, <2>3, ShapeStays DEF ConsumerInv, FrontBlock, InUse
  <2>10. SignalInv'
    BY <1>1, <1>2, <2>4 DEF SignalInv
  <2> QED
    BY <2>3, <2>5, <2>7, <2>8, <2>9, <2>10 DEF QueueInv
<1>4. CASE Following(mem.tailBlock) = mem.frontBlock
  <2>1. prod' = [prod EXCEPT !.pc = "idle", !.refused = TRUE] /\ mem' = mem
    BY <1>4 DEF LookAhead, TailBlock
  <2>4. /\ prod'.pc = "idle" /\ prod'.next = prod.next /\ prod'.held = prod.held /\ prod'.block = prod.block
        /\ prod'.refused = TRUE
    BY <1>2, <2>1 DEF QueueTypeOK
  <2>5. QueueTypeOK'
    <3>1. prod' \in [pc : {"idle", "full", "ahead", "write", "publish", "move", "signal", "post"},
                 next : 1..(MaxElements + 1), held : Int, block : Blocks, refused : BOOLEAN]
      BY <1>2, <2>1 DEF QueueTypeOK
    <3> QED
      BY <1>1, <1>2, <2>1, <3>1, ShapeStays, MemoryStays DEF QueueTypeOK
  <2>6. Released' = Released /\ Published' = Published /\ LastBlock' = LastBlock
    BY <1>1, <2>1, <2>4 DEF Released, Published, LastBlock
  <2>7. BlocksInv' /\ ContentInv' /\ SlotsInv'
    BY <1>1, <1>2, <2>1, <2>6, BlocksKept, ContentKept, SlotsKept
  <2>8. prod.held >= shape.max
    <3>1. Place(mem.tailBlock) = Count - 1
      BY <1>0, <1>4, RingFacts DEF Place
    <3>2. /\ Count = 1 => Size - 1 >= shape.max
          /\ Count > 1 => (Count - 1) * (Size - 1) >= shape.max
          /\ Count \in Nat /\ Count >= 1 /\ Size \in Nat /\ Size >= 2 /\ shape.max \in Nat
      BY QueueSizes
    <3>3. CASE Count = 1
      BY <1>1, <1>2, <3>2, <3>3 DEF QueueTypeOK
    <3>4. CASE Count > 1
      <4>1. Published - Released >= (Count - 1 - 1) * (Size - 1) + (Size - 1)
        BY <1>1, <1>2, <3>1, <3>2, <3>4, HeldInTail
      <4>2. (Count - 1 - 1) * (Size - 1) + (Size - 1) = (Count - 1) * (Size - 1)
        <5>1. PICK d \in Nat : d = Count - 1 - 1
          BY <3>2, <3>4
        <5>2. PICK k \in Nat : k = Size - 1
          BY <3>2
        <5>3. (d + 1) * k = d * k + k
          BY Times
        <5> QED
          BY <3>2, <5>1, <5>2, <5>3
      <4>3. PICK t : t = (Count - 1) * (Size - 1)
        OBVIOUS
      <4>4. t \in Int
        BY <3>2, <4>3
      <4> QED
        BY <1>1, <1>2, <3>2, <3>4, <4>1, <4>2, <4>3, <4>4, MemoryTyped, SMTT(30) DEF QueueTypeOK
    <3> QED
      BY <3>2, <3>3, <3>4
  <2>9. ProducerInv'
    BY <1>1, <2>4, <2>8 DEF ProducerInv
  <2>10. ConsumerInv'
    BY <1>1, <1>2, <2>1, ShapeStays DEF ConsumerInv, FrontBlock, InUse
  <2>11. SignalInv'
    BY <1>1, <1>2, <2>4 DEF SignalInv
  <2> QED
    BY <2>5, <2>7, <2>9, <2>10, <2>11 DEF QueueInv
<1> QED
  BY <1>3, <1>4

\* One slot of a block is written.
LEMMA DataSet ==
  ASSUME NEW I, NEW V, NEW f \in [Blocks -> [I -> V]], NEW c \in Blocks, NEW j \in I, NEW v \in V
  PROVE  /\ [f EXCEPT ![c] = [f[c] EXCEPT ![j] = v]] \in [Blocks -> [I -> V]]
         /\ \A b \in Blocks, i \in I :
                [f EXCEPT ![c] = [f[c] EXCEPT ![j] = v]][b][i] = IF b = c /\ i = j THEN v ELSE f[b][i]
<1>1. PICK g \in [I -> V] : g = [f[c] EXCEPT ![j] = v]
  OBVIOUS
<1>2. \A i \in I : g[i] = IF i = j THEN v ELSE f[c][i]
  BY <1>1
<1>3. /\ [f EXCEPT ![c] = g] \in [Blocks -> [I -> V]]
      /\ \A b \in Blocks : [f EXCEPT ![c] = g][b] = IF b = c THEN g ELSE f[b]
  OBVIOUS
<1> QED
  BY <1>1, <1>2, <1>3

\* The element is written where nothing is in use.
LEMMA WriteElementKeeps ==
  ASSUME shape \in Shapes, QueueInv, WriteElement, UNCHANGED <<shape, cons>>
  PROVE  QueueInv'
<1>2. QueueTypeOK /\ SlotsInv /\ BlocksInv /\ ContentInv /\ ProducerInv /\ ConsumerInv /\ SignalInv
  BY DEF QueueInv
<1>1. PICK c \in Blocks, j \in 0..(Size - 1) :
        /\ c = prod.block /\ j = mem.tail[c]
        /\ prod.pc = "write" /\ sem' = sem /\ cons' = cons /\ shape' = shape
        /\ prod' = [prod EXCEPT !.pc = "publish"]
        /\ mem' = [mem EXCEPT !.data[c][j] = prod.next]
  BY <1>2, MemoryTyped DEF WriteElement
<1>3. /\ prod'.pc = "publish" /\ prod'.next = prod.next /\ prod'.held = prod.held /\ prod'.block = c
      /\ prod'.refused = prod.refused
  BY <1>1, <1>2 DEF QueueTypeOK
<1>m. /\ mem'.front = mem.front /\ mem'.tail = mem.tail
      /\ mem'.localFront = mem.localFront /\ mem'.localTail = mem.localTail
      /\ mem'.frontBlock = mem.frontBlock /\ mem'.tailBlock = mem.tailBlock
      /\ mem'.data = [mem.data EXCEPT ![c] = [mem.data[c] EXCEPT ![j] = prod.next]]
  BY <1>1, <1>2 DEF QueueTypeOK, Memory
<1>d. /\ mem.data \in [Blocks -> [0..(Size - 1) -> 0..MaxElements]]
      /\ prod.next \in 0..MaxElements
  BY <1>1, <1>2 DEF QueueTypeOK, Memory, ProducerInv
<1>v. /\ mem'.data \in [Blocks -> [0..(Size - 1) -> 0..MaxElements]]
      /\ \A b \in Blocks, i \in 0..(Size - 1) :
             mem'.data[b][i] = IF b = c /\ i = j THEN prod.next ELSE mem.data[b][i]
  <2>1. PICK I, V : I = 0..(Size - 1) /\ V = 0..MaxElements
    OBVIOUS
  <2>2. PICK f \in [Blocks -> [I -> V]], v \in V : f = mem.data /\ v = prod.next
    BY <1>d, <2>1
  <2>3. mem'.data = [f EXCEPT ![c] = [f[c] EXCEPT ![j] = v]] /\ j \in I
    BY <1>m, <2>1, <2>2
  <2>4. /\ mem'.data \in [Blocks -> [I -> V]]
        /\ \A b \in Blocks, i \in I : mem'.data[b][i] = IF b = c /\ i = j THEN v ELSE f[b][i]
    <3>1. PICK g : g = [f EXCEPT ![c] = [f[c] EXCEPT ![j] = v]]
      OBVIOUS
    <3>2. /\ g \in [Blocks -> [I -> V]]
          /\ \A b \in Blocks, i \in I : g[b][i] = IF b = c /\ i = j THEN v ELSE f[b][i]
      BY <2>2, <2>3, <3>1, DataSet
    <3> QED
      BY <2>3, <3>1, <3>2
  <2> QED
    BY <2>1, <2>2, <2>4
<1>4. QueueTypeOK'
  <2>1. prod' \in [pc : {"idle", "full", "ahead", "write", "publish", "move", "signal", "post"},
                 next : 1..(MaxElements + 1), held : Int, block : Blocks, refused : BOOLEAN]
    BY <1>1, <1>2 DEF QueueTypeOK
  <2>2. mem' \in Memory
    <3>1. PICK f \in [Blocks -> [0..(Size - 1) -> 0..MaxElements]] : mem' = [mem EXCEPT !.data = f]
      BY <1>1, <1>2, <1>m, <1>v DEF QueueTypeOK, Memory
    <3> QED
      BY <1>2, <3>1 DEF QueueTypeOK, Memory
  <2> QED
    BY <1>1, <1>2, <2>1, <2>2, ShapeStays, MemoryStays DEF QueueTypeOK
<1>5. Released' = Released /\ Published' = Published /\ LastBlock' = LastBlock
  BY <1>1, <1>m, <1>3 DEF Released, Published, LastBlock
<1>6. SlotsInv' /\ BlocksInv'
  BY <1>1, <1>2, <1>m, <1>5, SlotsKept, BlocksKept
<1>7. ContentInv'
  <2> SUFFICES ASSUME NEW b \in Blocks, NEW i \in 0..(Size - 1),
                      Ahead(Size, mem.front[b], i) < InUse(b),
                      ~ (cons.pc = "release" /\ b = mem.frontBlock /\ i = mem.front[b])
               PROVE  mem'.data[b][i] = Earlier(b) + Ahead(Size, mem.front[b], i) + 1
    BY <1>1, <1>m, <1>5, ShapeStays DEF ContentInv, InUse, Earlier, Place
  <2>1. mem.data[b][i] = Earlier(b) + Ahead(Size, mem.front[b], i) + 1
    BY <1>2 DEF ContentInv
  <2>2. ~ (b = c /\ i = j)
    <3> SUFFICES ASSUME b = c /\ i = j PROVE FALSE
      OBVIOUS
    <3>1. InUse(b) = Ahead(Size, mem.front[b], i)
      BY <1>1 DEF InUse
    <3> QED
      BY <1>2, <3>1, MemoryTyped, RingFacts
  <2> QED
    BY <1>v, <2>1, <2>2
<1>8. ProducerInv'
  <2>1. mem'.data[c][j] = prod.next
    BY <1>v
  <2>2. /\ c # mem.tailBlock => c = Following(mem.tailBlock) /\ c # mem.frontBlock
        /\ Ahead(Size, mem.localFront[c], mem.tail[c]) < Size - 1
        /\ c # mem.tailBlock => (Place(mem.tailBlock) > 0 => InUse(mem.tailBlock) = Size - 1)
        /\ prod.next <= MaxElements
        /\ prod.refused => prod.held >= shape.max
    BY <1>1, <1>2 DEF ProducerInv
  <2>3. /\ (Place(mem.tailBlock) = Place(mem.tailBlock)')
        /\ (InUse(mem.tailBlock) = InUse(mem.tailBlock)')
        /\ Following(mem.tailBlock) = Following(mem.tailBlock)'
    BY <1>1, <1>m, ShapeStays DEF Place, InUse, Following
  <2> QED
    BY <1>1, <1>3, <1>m, <2>1, <2>2, <2>3, ShapeStays DEF ProducerInv
<1>9. ConsumerInv'
  BY <1>1, <1>2, <1>m, ShapeStays DEF ConsumerInv, FrontBlock, InUse
<1>10. SignalInv'
  BY <1>1, <1>2, <1>3 DEF SignalInv
<1> QED
  BY <1>4, <1>6, <1>7, <1>8, <1>9, <1>10 DEF QueueInv

\* The tail block becomes the one that has been written.
LEMMA MoveToBlockKeeps ==
  ASSUME shape \in Shapes, QueueInv, MoveToBlock, UNCHANGED <<shape, cons>>
  PROVE  QueueInv'
<1>2. QueueTypeOK /\ SlotsInv /\ BlocksInv /\ ContentInv /\ ProducerInv /\ ConsumerInv /\ SignalInv
  BY DEF QueueInv
<1>1. /\ prod.pc = "move" /\ sem' = sem /\ cons' = cons /\ shape' = shape
      /\ prod' = [prod EXCEPT !.pc = "signal"]
      /\ mem' = [mem EXCEPT !.tailBlock = prod.block]
      /\ prod.block \in Blocks
  BY <1>2, MemoryTyped DEF MoveToBlock
<1>3. /\ prod'.pc = "signal" /\ prod'.next = prod.next /\ prod'.held = prod.held /\ prod'.block = prod.block
      /\ prod'.refused = prod.refused
  BY <1>1, <1>2 DEF QueueTypeOK
<1>m. /\ mem'.front = mem.front /\ mem'.tail = mem.tail
      /\ mem'.localFront = mem.localFront /\ mem'.localTail = mem.localTail
      /\ mem'.frontBlock = mem.frontBlock /\ mem'.tailBlock = prod.block /\ mem'.data = mem.data
  BY <1>1, <1>2 DEF QueueTypeOK, Memory
<1>4. QueueTypeOK'
  <2>1. prod' \in [pc : {"idle", "full", "ahead", "write", "publish", "move", "signal", "post"},
                 next : 1..(MaxElements + 1), held : Int, block : Blocks, refused : BOOLEAN]
    BY <1>1, <1>2 DEF QueueTypeOK
  <2>2. mem' \in Memory
    BY <1>1, <1>2 DEF QueueTypeOK, Memory
  <2> QED
    BY <1>1, <1>2, <2>1, <2>2, ShapeStays, MemoryStays DEF QueueTypeOK
<1>5. Released' = Released /\ Published' = Published /\ LastBlock' = LastBlock
  BY <1>1, <1>m, <1>3 DEF Released, Published, LastBlock
<1>6. SlotsInv' /\ BlocksInv' /\ ContentInv'
  BY <1>1, <1>2, <1>m, <1>5, SlotsKept, BlocksKept, ContentKept
<1>8. ProducerInv'
  <2>1. prod.next <= MaxElements /\ (prod.refused => prod.held >= shape.max)
    BY <1>1, <1>2 DEF ProducerInv
  <2> QED
    BY <1>1, <1>3, <2>1 DEF ProducerInv
<1>9. ConsumerInv'
  <2>1. prod.block # mem.frontBlock
    BY <1>1, <1>2 DEF ProducerInv
  <2> QED
    BY <1>1, <1>2, <1>m, <2>1, ShapeStays DEF ConsumerInv, FrontBlock, InUse
<1>10. SignalInv'
  BY <1>1, <1>2, <1>3 DEF SignalInv
<1> QED
  BY <1>4, <1>6, <1>8, <1>9, <1>10 DEF QueueInv

\* signal() and what is done with the semaphore beneath it.
LEMMA SignalKeeps ==
  ASSUME shape \in Shapes, QueueInv, Signal \/ Post, UNCHANGED <<shape, cons>>
  PROVE  QueueInv'
<1>2. QueueTypeOK /\ SlotsInv /\ BlocksInv /\ ContentInv /\ ProducerInv /\ ConsumerInv /\ SignalInv
  BY DEF QueueInv
<1>1. mem' = mem /\ cons' = cons /\ shape' = shape
  BY DEF Signal, Post
<1>3. PICK at \in {"idle", "post"}, next \in 1..(MaxElements + 1) :
        /\ prod'.pc = at /\ prod'.next = next /\ prod'.held = prod.held /\ prod'.block = prod.block
        /\ prod'.refused = prod.refused
        /\ prod' \in [pc : {"idle", "full", "ahead", "write", "publish", "move", "signal", "post"},
                 next : 1..(MaxElements + 1), held : Int, block : Blocks, refused : BOOLEAN]
        /\ \/ /\ prod.pc = "signal" /\ next = prod.next + 1 /\ sem' = [sem EXCEPT !.count = @ + 1]
              /\ at = IF sem.count < 0 THEN "post" ELSE "idle"
           \/ /\ prod.pc = "post" /\ next = prod.next /\ sem' = [sem EXCEPT !.posts = @ + 1]
              /\ at = "idle"
  <2>1. CASE Signal
    <3>1. prod.pc = "signal" /\ prod.next + 1 \in 1..(MaxElements + 1)
      <4>1. prod.pc = "signal" /\ prod.next <= MaxElements
        BY <1>2, <2>1 DEF Signal, ProducerInv
      <4>2. prod.next \in 1..(MaxElements + 1) /\ MaxElements \in Nat
        BY <1>2, QueueAssumption DEF QueueTypeOK, QueueAssumption
      <4> QED
        BY <4>1, <4>2
    <3>2. PICK at \in {"idle", "post"}, next \in 1..(MaxElements + 1) :
            /\ next = prod.next + 1 /\ at = IF sem.count < 0 THEN "post" ELSE "idle"
            /\ prod' = [prod EXCEPT !.next = next, !.pc = at]
            /\ sem' = [sem EXCEPT !.count = @ + 1]
      BY <1>2, <2>1, <3>1 DEF Signal, QueueTypeOK
    <3> QED
      BY <1>2, <3>1, <3>2 DEF QueueTypeOK
  <2>2. CASE Post
    BY <1>2, <2>2 DEF Post, QueueTypeOK
  <2> QED
    BY <2>1, <2>2
<1>4. SignalInv' /\ sem' \in [count : Int, posts : {0, 1}]
  <2>1. PICK count \in Int, posts \in {0, 1} : sem = [count |-> count, posts |-> posts]
    BY <1>2 DEF QueueTypeOK
  <2>2. cons.taken \in Int /\ prod.next \in Int
    BY <1>2 DEF QueueTypeOK
  <2>3. CASE prod.pc = "signal"
    <3>1. sem' = [count |-> count + 1, posts |-> posts] /\ prod'.next = prod.next + 1
          /\ prod'.pc = IF count < 0 THEN "post" ELSE "idle"
      BY <1>3, <2>1, <2>3
    <3> QED
      BY <1>1, <1>2, <2>1, <2>2, <2>3, <3>1, SMTT(30) DEF SignalInv, Asleep, Holding
  <2>4. CASE prod.pc = "post"
    <3>1. sem' = [count |-> count, posts |-> posts + 1] /\ prod'.next = prod.next /\ prod'.pc = "idle"
      BY <1>3, <2>1, <2>4
    <3> QED
      BY <1>1, <1>2, <2>1, <2>2, <2>4, <3>1 DEF SignalInv, Asleep, Holding
  <2> QED
    BY <1>3, <2>3, <2>4
<1>5. QueueTypeOK'
  BY <1>1, <1>2, <1>3, <1>4, ShapeStays, MemoryStays DEF QueueTypeOK
<1>6. Released' = Released /\ Published' = Published /\ LastBlock' = LastBlock
  BY <1>1, <1>2, <1>3 DEF Released, Published, LastBlock, QueueTypeOK
<1>7. SlotsInv' /\ BlocksInv' /\ ContentInv'
  BY <1>1, <1>2, <1>6, SlotsKept, BlocksKept, ContentKept
<1>8. ProducerInv'
  <2>1. prod.refused => prod.held >= shape.max
    BY <1>2 DEF ProducerInv
  <2> QED
    BY <1>1, <1>3, <2>1 DEF ProducerInv
<1>9. ConsumerInv'
  BY <1>1, <1>2, ShapeStays DEF ConsumerInv, FrontBlock, InUse
<1> QED
  BY <1>4, <1>5, <1>7, <1>8, <1>9 DEF QueueInv

\* The number of elements before a block.
LEMMA EarlierTyped ==
  ASSUME shape \in Shapes, QueueTypeOK, NEW b \in Blocks
  PROVE  Earlier(b) \in Int
<1>1. Size \in Nat /\ Count \in Nat
  BY QueueSizes
<1>2. /\ Released \in Int
      /\ InUse(mem.frontBlock) \in 0..(Size - 1) /\ Place(b) \in 0..(Count - 1)
  BY MemoryTyped
<1>3. PICK u \in Int : u = InUse(mem.frontBlock)
  BY <1>1, <1>2
<1>4. PICK k \in Int : k = Size - 1
  BY <1>1
<1>5. PICK d \in Int : d = Place(b) - 1
  BY <1>1, <1>2
<1>6. d * k \in Int
  OBVIOUS
<1>7. Earlier(b) = IF b = mem.frontBlock THEN Released ELSE Released + u + d * k
  BY <1>3, <1>4, <1>5 DEF Earlier
<1> QED
  BY <1>2, <1>6, <1>7

\* The element goes where the numbers have got to.
LEMMA NextIsDue ==
  ASSUME shape \in Shapes, QueueInv, prod.pc = "publish"
  PROVE  /\ prod.block = mem.tailBlock \/ Place(prod.block) = Place(mem.tailBlock) + 1
         /\ prod.block # mem.tailBlock =>
                /\ prod.block # mem.frontBlock /\ InUse(prod.block) = 0
                /\ Place(mem.tailBlock) > 0 => InUse(mem.tailBlock) = Size - 1
         /\ prod.next = Earlier(prod.block) + InUse(prod.block) + 1
<1>1. QueueTypeOK /\ BlocksInv /\ ProducerInv
  BY DEF QueueInv
<1>2. LastBlock = mem.tailBlock /\ Published = prod.next - 1
  BY <1>1 DEF LastBlock, Published, QueueTypeOK
<1>3. Published = Earlier(mem.tailBlock) + InUse(mem.tailBlock)
  BY <1>1, <1>2, MemoryTyped DEF BlocksInv
<1>4. PICK t \in Blocks, f \in Blocks, c \in Blocks : t = mem.tailBlock /\ f = mem.frontBlock /\ c = prod.block
  BY <1>1, MemoryTyped
<1>5. /\ InUse(t) \in Nat /\ InUse(f) \in Nat /\ InUse(c) \in Nat /\ Place(t) \in Nat
      /\ Released \in Int /\ Size - 1 \in Nat
      /\ prod.next \in Int
  <2>1. /\ InUse(t) \in 0..(Size - 1) /\ InUse(f) \in 0..(Size - 1) /\ InUse(c) \in 0..(Size - 1)
        /\ Place(t) \in 0..(Count - 1) /\ Released \in Int
    BY <1>1, MemoryTyped
  <2>2. prod.next \in Int
    BY <1>1 DEF QueueTypeOK
  <2> QED
    BY <2>1, <2>2, QueueSizes
<1>6. CASE c = t
  <2>1. Published = Earlier(c) + InUse(c)
    BY <1>3, <1>4, <1>6
  <2>2. Earlier(c) \in Int
    BY <1>1, EarlierTyped
  <2> QED
    BY <1>2, <1>4, <1>5, <1>6, <2>1, <2>2
<1>7. CASE c # t
  <2>1. /\ c = Following(t) /\ c # f
        /\ Place(t) > 0 => InUse(t) = Size - 1
    <3>1. prod.block # mem.tailBlock
      BY <1>4, <1>7
    <3>2. /\ prod.block = Following(mem.tailBlock) /\ prod.block # mem.frontBlock
          /\ Place(mem.tailBlock) > 0 => InUse(mem.tailBlock) = Size - 1
      BY <1>1, <3>1 DEF ProducerInv
    <3>3. c = Following(t) /\ c # f
      BY <1>4, <3>2
    <3>4. Place(t) > 0 => InUse(t) = Size - 1
      BY <1>4, <3>2
    <3> QED
      BY <3>3, <3>4
  <2>2. Place(c) = Place(t) + 1
    <3>1. Following(t) # f
      BY <2>1
    <3>2. Ahead(Count, f, Following(t)) = Ahead(Count, f, t) + 1
      BY <3>1, BlockAfter
    <3> QED
      BY <1>4, <2>1, <3>2 DEF Place
  <2>3. InUse(c) = 0
    <3>1. Place(c) > Place(LastBlock)
      BY <1>2, <1>4, <1>5, <2>2
    <3> QED
      BY <1>1, <1>2, <1>4, <3>1 DEF BlocksInv
  <2>4. PICK d \in Nat, k \in Nat : d = Place(t) /\ k = Size - 1
    BY <1>5
  <2>5. Earlier(c) = Released + InUse(f) + d * k
    <3>1. Place(c) - 1 = d
      BY <1>5, <2>2, <2>4
    <3> QED
      BY <1>4, <2>1, <2>4, <3>1 DEF Earlier
  <2>6. Earlier(t) + InUse(t) = Released + InUse(f) + d * k
    <3>1. CASE t = f
      <4>1. d = 0
        BY <1>4, <2>4, <3>1, BlockAfter DEF Place
      <4> QED
        BY <1>4, <1>5, <3>1, <4>1, Times DEF Earlier
    <3>2. CASE t # f
      <4>1. d > 0
        <5>1. Place(t) # 0
          BY <1>4, <3>2, BlockAfter DEF Place
        <5> QED
          BY <2>4, <5>1
      <4>2. InUse(t) = k
        BY <2>1, <2>4, <4>1
      <4>3. PICK e \in Nat : e = d - 1
        BY <4>1
      <4>4. d * k = e * k + k /\ e * k \in Nat
        BY <4>3, Times
      <4>5. Earlier(t) = Released + InUse(f) + e * k
        BY <1>4, <2>4, <3>2, <4>3 DEF Earlier
      <4> QED
        BY <1>5, <4>2, <4>4, <4>5
    <3> QED
      BY <3>1, <3>2
  <2>7. d * k \in Nat
    BY Times
  <2> QED
    BY <1>2, <1>3, <1>4, <1>5, <1>7, <2>1, <2>2, <2>3, <2>5, <2>6, <2>7
<1> QED
  BY <1>6, <1>7

\* The tail is stored: the element is there to be read.
LEMMA PublishElementKeeps ==
  ASSUME shape \in Shapes, QueueInv, PublishElement, UNCHANGED <<shape, cons>>
  PROVE  QueueInv'
<1>2. QueueTypeOK /\ SlotsInv /\ BlocksInv /\ ContentInv /\ ProducerInv /\ ConsumerInv /\ SignalInv
  BY DEF QueueInv
<1>1. PICK c \in Blocks, t \in Blocks, f \in Blocks, j \in 0..(Size - 1), at \in {"move", "signal"} :
        /\ c = prod.block /\ t = mem.tailBlock /\ f = mem.frontBlock /\ j = mem.tail[c]
        /\ at = IF c = t THEN "signal" ELSE "move"
        /\ prod.pc = "publish" /\ sem' = sem /\ cons' = cons /\ shape' = shape
        /\ prod' = [prod EXCEPT !.pc = at]
        /\ mem' = [mem EXCEPT !.tail[c] = Succ(j)]
  BY <1>2, MemoryTyped DEF PublishElement, TailBlock
<1>3. /\ prod'.pc = at /\ prod'.next = prod.next /\ prod'.held = prod.held /\ prod'.block = c
      /\ prod'.refused = prod.refused
  BY <1>1, <1>2 DEF QueueTypeOK
<1>m. /\ mem'.front = mem.front /\ mem'.localFront = mem.localFront /\ mem'.localTail = mem.localTail
      /\ mem'.frontBlock = f /\ mem'.tailBlock = t /\ mem'.data = mem.data
      /\ mem'.tail = [mem.tail EXCEPT ![c] = Succ(j)]
  BY <1>1, <1>2 DEF QueueTypeOK, Memory
<1>v. /\ mem'.tail \in Positions
      /\ \A b \in Blocks : mem'.tail[b] = IF b = c THEN Succ(j) ELSE mem.tail[b]
  <2>1. mem.tail \in Positions /\ Succ(j) \in 0..(Size - 1)
    BY <1>2, RingFacts DEF QueueTypeOK, Memory
  <2> QED
    BY <1>m, <2>1, PositionSet
<1>4. QueueTypeOK'
  <2>1. prod' \in [pc : {"idle", "full", "ahead", "write", "publish", "move", "signal", "post"},
                 next : 1..(MaxElements + 1), held : Int, block : Blocks, refused : BOOLEAN]
    BY <1>1, <1>2 DEF QueueTypeOK
  <2>2. mem' \in Memory
    <3>1. PICK g \in Positions : mem' = [mem EXCEPT !.tail = g]
      BY <1>1, <1>2, <1>m, <1>v DEF QueueTypeOK, Memory
    <3> QED
      BY <1>2, <3>1 DEF QueueTypeOK, Memory
  <2> QED
    BY <1>1, <1>2, <2>1, <2>2, ShapeStays, MemoryStays DEF QueueTypeOK
<1>n. /\ prod.next \in Int /\ Published = prod.next - 1 /\ Published' = Published + 1
      /\ Released' = Released /\ LastBlock = t /\ LastBlock' = c
      /\ Released \in Int
  BY <1>1, <1>2, <1>3, <1>m, MemoryTyped DEF Published, Released, LastBlock, QueueTypeOK
\* How the slots of the block are used before and after.
<1>u. \A b \in Blocks : /\ InUse(b) \in Nat /\ InUse(b) <= Size - 1 /\ Place(b) \in Nat /\ Place(b)' = Place(b)
                        /\ Place(b) = 0 <=> b = f
      /\ Size \in Nat /\ Size >= 2 /\ Size' = Size
  <2>1. \A b \in Blocks : InUse(b) \in 0..(Size - 1) /\ Place(b) \in 0..(Count - 1)
    BY <1>2, MemoryTyped
  <2>2. \A b \in Blocks : Place(b)' = Place(b)
    BY <1>1, <1>m, ShapeStays DEF Place
  <2>3. \A b \in Blocks : Place(b) = 0 <=> b = f
    BY <1>1, BlockAfter DEF Place
  <2> QED
    BY <1>1, <2>1, <2>2, <2>3, QueueSizes, ShapeStays
<1>l. Ahead(Size, mem.localFront[c], j) < Size - 1
  BY <1>1, <1>2 DEF ProducerInv
<1>a. /\ Ahead(Size, mem.localFront[c], Succ(j)) = Ahead(Size, mem.localFront[c], j) + 1
      /\ Ahead(Size, mem.localFront[c], j) \in Nat
  <2>1. PICK i \in 0..(Size - 1) : i = mem.localFront[c]
    BY <1>2, MemoryTyped
  <2>2. /\ Succ(j) = i <=> Ahead(Size, i, j) = Size - 1
        /\ Succ(j) # i => Ahead(Size, i, Succ(j)) = Ahead(Size, i, j) + 1
        /\ Ahead(Size, i, j) \in 0..(Size - 1)
    BY SlotAfter
  <2> QED
    BY <1>l, <1>u, <2>1, <2>2
<1>b. InUse(c) <= Ahead(Size, mem.localFront[c], j)
  BY <1>1, <1>2 DEF SlotsInv
<1>i. /\ InUse(c)' = InUse(c) + 1
      /\ \A b \in Blocks : b # c => InUse(b)' = InUse(b)
  <2>1. PICK i \in 0..(Size - 1) : i = mem.front[c]
    BY <1>2, MemoryTyped
  <2>2. /\ Succ(j) = i <=> Ahead(Size, i, j) = Size - 1
        /\ Succ(j) # i => Ahead(Size, i, Succ(j)) = Ahead(Size, i, j) + 1
    BY SlotAfter
  <2>3. InUse(c) = Ahead(Size, i, j)
    BY <1>1, <2>1 DEF InUse
  <2>4. InUse(c)' = Ahead(Size, i, Succ(j))
    BY <1>m, <1>u, <1>v, <2>1 DEF InUse
  <2>5. Ahead(Size, i, j) # Size - 1
    BY <1>a, <1>b, <1>l, <1>u, <2>3
  <2>6. \A b \in Blocks : b # c => InUse(b)' = InUse(b)
    BY <1>m, <1>u, <1>v DEF InUse
  <2> QED
    BY <2>2, <2>3, <2>4, <2>5, <2>6
<1>d. /\ c = t \/ Place(c) = Place(t) + 1
      /\ c # t => /\ c # f /\ InUse(c) = 0
                  /\ Place(t) > 0 => InUse(t) = Size - 1
      /\ prod.next = Earlier(c) + InUse(c) + 1
  <2>1. /\ prod.block = mem.tailBlock \/ Place(prod.block) = Place(mem.tailBlock) + 1
        /\ prod.block # mem.tailBlock =>
                /\ prod.block # mem.frontBlock /\ InUse(prod.block) = 0
                /\ Place(mem.tailBlock) > 0 => InUse(mem.tailBlock) = Size - 1
        /\ prod.next = Earlier(prod.block) + InUse(prod.block) + 1
    BY <1>1, NextIsDue
  <2>2. prod.block = c /\ mem.tailBlock = t /\ mem.frontBlock = f
    BY <1>1
  <2> QED
    BY <2>1, <2>2
<1>e. \A b \in Blocks : /\ b = c \/ InUse(b) > 0 => Earlier(b)' = Earlier(b)
  <2> SUFFICES ASSUME NEW b \in Blocks, b = c \/ InUse(b) > 0 PROVE Earlier(b)' = Earlier(b)
    OBVIOUS
  <2>1. CASE b = f
    BY <1>1, <1>m, <1>n, <2>1 DEF Earlier
  <2>2. CASE b # f
    <3>1. c # f
      <4> SUFFICES ASSUME c = f PROVE FALSE
        OBVIOUS
      <4>1. c = t /\ Place(t) = 0 /\ Place(b) > 0
        BY <1>d, <1>u, <2>2
      <4>2. InUse(b) = 0
        BY <1>2, <1>n, <4>1 DEF BlocksInv
      <4> QED
        BY <2>2, <4>2
    <3>2. InUse(f)' = InUse(f)
      BY <1>i, <3>1
    <3> QED
      BY <1>1, <1>m, <1>n, <1>u, <2>2, <3>2 DEF Earlier
  <2> QED
    BY <2>1, <2>2
<1>5. SlotsInv'
  <2> SUFFICES ASSUME NEW b \in Blocks
               PROVE  /\ InUse(b)' <= Ahead(Size, mem'.localFront[b], mem'.tail[b])
                      /\ Ahead(Size, mem'.front[b], mem'.localTail[b]) <= InUse(b)'
    BY <1>1, ShapeStays DEF SlotsInv
  <2>1. /\ InUse(b) <= Ahead(Size, mem.localFront[b], mem.tail[b])
        /\ Ahead(Size, mem.front[b], mem.localTail[b]) <= InUse(b)
    BY <1>2 DEF SlotsInv
  <2>2. CASE b # c
    BY <1>i, <1>m, <1>v, <2>1, <2>2
  <2>3. CASE b = c
    <3>1. Ahead(Size, mem.front[b], mem.localTail[b]) \in Int
      <4>1. mem.front[b] \in 0..(Size - 1) /\ mem.localTail[b] \in 0..(Size - 1)
        BY <1>2, MemoryTyped
      <4>2. Ahead(Size, mem.front[b], mem.localTail[b]) \in 0..(Size - 1)
        BY <4>1, RingFacts
      <4> QED
        BY <4>2
    <3>2. Ahead(Size, mem'.localFront[b], mem'.tail[b]) = Ahead(Size, mem.localFront[c], Succ(j))
      BY <1>m, <1>v, <2>3
    <3> QED
      BY <1>a, <1>b, <1>i, <1>m, <1>u, <2>1, <2>3, <3>1, <3>2
  <2> QED
    BY <2>2, <2>3
<1>6. BlocksInv'
  <2>1. Published' = Earlier(c)' + InUse(c)'
    <3>1. Earlier(c)' = Earlier(c)
      BY <1>e
    <3>2. Earlier(c) \in Int
      BY <1>2, EarlierTyped
    <3> QED
      BY <1>d, <1>i, <1>n, <1>u, <3>1, <3>2
  <2>2. ASSUME NEW b \in Blocks
        PROVE  /\ Place(b)' > Place(c)' => InUse(b)' = 0
               /\ 0 < Place(b)' /\ Place(b)' < Place(c)' => InUse(b)' = Size - 1
    <3>1. /\ Place(b) > Place(t) => InUse(b) = 0
          /\ 0 < Place(b) /\ Place(b) < Place(t) => InUse(b) = Size - 1
      BY <1>2, <1>n DEF BlocksInv
    <3>2. Place(b) = Place(t) => b = t
      <4>1. Ahead(Count, f, b) = Ahead(Count, f, t) => b = t
        BY QueueSizes, AheadDiffers DEF Blocks
      <4> QED
        BY <1>1, <4>1 DEF Place
    <3>3. b = c => ~ (Place(b) > Place(c)) /\ ~ (Place(b) < Place(c))
      BY <1>u
    <3> QED
      BY <1>d, <1>i, <1>u, <3>1, <3>2, <3>3
  <2>3. InUse(c)' > 0
    BY <1>i, <1>u
  <2>4. Blocks' = Blocks /\ Size' = Size
    BY <1>1, ShapeStays
  <2> QED
    BY <1>n, <2>1, <2>2, <2>3, <2>4 DEF BlocksInv
<1>7. ContentInv'
  <2> SUFFICES ASSUME NEW b \in Blocks, NEW i \in 0..(Size - 1),
                      Ahead(Size, mem.front[b], i) < InUse(b)',
                      ~ (cons.pc = "release" /\ b = f /\ i = mem.front[b])
               PROVE  mem.data[b][i] = Earlier(b)' + Ahead(Size, mem.front[b], i) + 1
    BY <1>1, <1>m, ShapeStays DEF ContentInv
  <2>1. Ahead(Size, mem.front[b], i) \in Nat
    <3>1. PICK k \in 0..(Size - 1) : k = mem.front[b]
      BY <1>2, MemoryTyped
    <3>2. Ahead(Size, k, i) \in 0..(Size - 1)
      BY SlotAfter
    <3> QED
      BY <1>u, <3>1, <3>2
  <2>2. CASE Ahead(Size, mem.front[b], i) < InUse(b)
    <3>1. mem.data[b][i] = Earlier(b) + Ahead(Size, mem.front[b], i) + 1
      BY <1>1, <1>2, <2>2 DEF ContentInv
    <3>2. InUse(b) > 0
      BY <1>u, <2>1, <2>2
    <3> QED
      BY <1>e, <3>1, <3>2
  <2>3. CASE ~ (Ahead(Size, mem.front[b], i) < InUse(b))
    <3>1. b = c
      BY <1>i, <2>3
    <3>2. Ahead(Size, mem.front[b], i) = InUse(c)
      BY <1>i, <1>u, <2>1, <2>3, <3>1
    <3>3. i = j
      <4>1. InUse(c) = Ahead(Size, mem.front[c], j) /\ mem.front[c] \in 0..(Size - 1)
        BY <1>1, <1>2, MemoryTyped DEF InUse
      <4> QED
        BY <1>u, <3>1, <3>2, <4>1, AheadDiffers
    <3>4. mem.data[c][j] = prod.next
      BY <1>1, <1>2 DEF ProducerInv
    <3>5. Earlier(c)' = Earlier(c)
      BY <1>e
    <3> QED
      BY <1>d, <3>1, <3>2, <3>3, <3>4, <3>5
  <2> QED
    BY <2>2, <2>3
<1>8. ProducerInv'
  <2>1. /\ prod.next <= MaxElements
        /\ prod.refused => prod.held >= shape.max
        /\ c # t => c = Following(t)
    <3>1. /\ prod.next <= MaxElements
          /\ prod.refused => prod.held >= shape.max
      BY <1>1, <1>2 DEF ProducerInv
    <3>2. prod.block # mem.tailBlock => prod.block = Following(mem.tailBlock)
      BY <1>1, <1>2 DEF ProducerInv
    <3> QED
      BY <1>1, <3>1, <3>2
  <2>2. at = "move" => c # t /\ c # f /\ InUse(c)' = 1
    BY <1>1, <1>d, <1>i
  <2>3. at = "move" => (Place(t)' > 0 => InUse(t)' = Size - 1)
    BY <1>1, <1>d, <1>i, <1>u
  <2>4. Following(t)' = Following(t)
    BY <1>1, ShapeStays DEF Following
  <2>5. /\ Following(mem.tailBlock)' = Following(t)' /\ Place(mem.tailBlock)' = Place(t)'
        /\ InUse(mem.tailBlock)' = InUse(t)' /\ InUse(prod.block)' = InUse(c)'
    BY <1>m, <1>3 DEF Following, Place, InUse
  <2> QED
    BY <1>1, <1>3, <1>m, <2>1, <2>2, <2>3, <2>4, <2>5, ShapeStays DEF ProducerInv
<1>9. ConsumerInv'
  <2>1. /\ cons.pc \in {"read", "release"} => Ahead(Size, mem.front[f], mem.localTail[f]) > 0
        /\ cons.pc \in {"other", "recheck", "advance"} => f # t
        /\ cons.pc = "advance" => InUse(f) = 0
        /\ cons.got = cons.taken
    BY <1>1, <1>2 DEF ConsumerInv, FrontBlock
  <2>2. cons.pc = "advance" => InUse(f)' = 0
    BY <1>d, <1>i, <2>1
  <2>3. InUse(mem.frontBlock)' = InUse(f)'
    BY <1>m DEF InUse
  <2> QED
    BY <1>1, <1>m, <2>1, <2>2, <2>3, ShapeStays DEF ConsumerInv, FrontBlock
<1>10. SignalInv'
  BY <1>1, <1>2, <1>3 DEF SignalInv
<1> QED
  BY <1>4, <1>5, <1>6, <1>7, <1>8, <1>9, <1>10 DEF QueueInv

\* wait(): the count, the posts and the consumer go together.
LEMMA WaitKeeps ==
  ASSUME shape \in Shapes, QueueInv,
         Wait \/ WokenUp \/ TimeIsOver \/ Undo \/ TryAgain \/ TryPost,
         UNCHANGED <<shape, prod>>
  PROVE  QueueInv'
<1>2. QueueTypeOK /\ SlotsInv /\ BlocksInv /\ ContentInv /\ ProducerInv /\ ConsumerInv /\ SignalInv
  BY DEF QueueInv
<1>1. mem' = mem /\ prod' = prod /\ shape' = shape
  BY DEF Wait, WokenUp, TimeIsOver, Undo, TryAgain, TryPost
<1>s. PICK count \in Int, posts \in {0, 1} : sem = [count |-> count, posts |-> posts]
  BY <1>2 DEF QueueTypeOK
<1>3. PICK at \in Asleep \cup {"idle", "again", "take"}, n \in Int, p \in {0, 1} :
        /\ cons' = [cons EXCEPT !.pc = at] /\ sem' = [count |-> n, posts |-> p]
        /\ \/ cons.pc = "idle" /\ n = count - 1 /\ p = posts /\ at = IF count > 0 THEN "take" ELSE "sleep"
           \/ cons.pc = "sleep" /\ n = count /\ posts = 1 /\ p = 0 /\ at = "take"
           \/ cons.pc = "sleep" /\ n = count /\ posts = 0 /\ p = 0 /\ at = "undo"
           \/ cons.pc = "undo" /\ n = count + 1 /\ p = posts /\ at = IF count < 0 THEN "idle" ELSE "again"
           \/ cons.pc = "again" /\ n = count - 1 /\ p = posts /\ at = IF count > 0 THEN "posted" ELSE "undo"
           \/ cons.pc = "posted" /\ n = count /\ posts = 1 /\ p = 0 /\ at = "take"
           \/ cons.pc = "posted" /\ n = count /\ posts = 0 /\ p = 0 /\ at = "undo"
  <2>1. CASE Wait
    <3>1. PICK q \in {"take", "sleep"}, m \in Int :
            q = (IF count > 0 THEN "take" ELSE "sleep") /\ m = count - 1
      OBVIOUS
    <3>2. cons.pc = "idle" /\ cons' = [cons EXCEPT !.pc = q] /\ sem' = [count |-> m, posts |-> posts]
      BY <1>s, <2>1, <3>1 DEF Wait
    <3>3. q \in Asleep \cup {"idle", "again", "take"}
      BY DEF Asleep
    <3> QED
      BY <3>1, <3>2, <3>3
  <2>2. CASE WokenUp
    BY <1>s, <2>2 DEF WokenUp, Asleep
  <2>3. CASE TimeIsOver
    BY <1>s, <2>3 DEF TimeIsOver, Asleep
  <2>4. CASE Undo
    <3>1. PICK q \in {"idle", "again"}, m \in Int :
            q = (IF count < 0 THEN "idle" ELSE "again") /\ m = count + 1
      OBVIOUS
    <3>2. cons.pc = "undo" /\ cons' = [cons EXCEPT !.pc = q] /\ sem' = [count |-> m, posts |-> posts]
      BY <1>s, <2>4, <3>1 DEF Undo, UndoneTo
    <3> QED
      BY <3>1, <3>2
  <2>5. CASE TryAgain
    <3>1. PICK q \in {"posted", "undo"}, m \in Int :
            q = (IF count > 0 THEN "posted" ELSE "undo") /\ m = count - 1
      OBVIOUS
    <3>2. cons.pc = "again" /\ cons' = [cons EXCEPT !.pc = q] /\ sem' = [count |-> m, posts |-> posts]
      BY <1>s, <2>5, <3>1 DEF TryAgain
    <3>3. q \in Asleep \cup {"idle", "again", "take"}
      BY DEF Asleep
    <3> QED
      BY <3>1, <3>2, <3>3
  <2>6. CASE TryPost
    BY <1>s, <2>6 DEF TryPost, Asleep
  <2> QED
    BY <2>1, <2>2, <2>3, <2>4, <2>5, <2>6
<1>4. /\ cons'.pc = at /\ cons'.got = cons.got /\ cons'.taken = cons.taken
      /\ cons.pc # "release" /\ at # "release"
  BY <1>2, <1>3 DEF QueueTypeOK, Asleep
<1>5. QueueTypeOK'
  <2>1. cons' \in [pc : Holding \cup Asleep \cup {"idle", "again", "release"}, got : Int, taken : Int]
    BY <1>2, <1>3 DEF QueueTypeOK, Holding
  <2> QED
    BY <1>1, <1>2, <1>3, <2>1, ShapeStays, MemoryStays DEF QueueTypeOK
<1>6. Released' = Released /\ Published' = Published /\ LastBlock' = LastBlock
  BY <1>1, <1>4 DEF Released, Published, LastBlock
<1>7. SlotsInv' /\ BlocksInv' /\ ContentInv'
  BY <1>1, <1>2, <1>4, <1>6, SlotsKept, BlocksKept, ContentKept
<1>8. ProducerInv'
  BY <1>1, <1>2, <1>6, ShapeStays DEF ProducerInv, Place, InUse, Following
<1>9. ConsumerInv'
  BY <1>2, <1>3, <1>4 DEF ConsumerInv, Asleep
<1>10. SignalInv'
  <2>1. /\ prod.next \in Int /\ cons.taken \in Int
        /\ sem.count = count /\ sem.posts = posts /\ sem'.count = n /\ sem'.posts = p
    BY <1>2, <1>s, <1>3 DEF QueueTypeOK
  <2>2. PICK r \in {0, 1} : r = IF prod.pc = "post" THEN 1 ELSE 0
    OBVIOUS
  <2>3. PICK k \in Int : k = prod.next - 1 - cons.taken
    BY <2>1
  <2>4. /\ count = k - (IF cons.pc \in Holding \cup Asleep THEN 1 ELSE 0)
        /\ cons.pc \in Asleep => count >= -1 /\ posts + r = (IF count >= 0 THEN 1 ELSE 0)
        /\ cons.pc = "posted" => count >= 0
        /\ cons.pc = "again" => count >= 1 /\ posts + r = 1
        /\ cons.pc \notin Asleep \cup {"again"} => count >= 0 /\ posts + r = 0
    BY <1>2, <2>1, <2>2, <2>3 DEF SignalInv
  <2>5. /\ n = k - (IF at \in Holding \cup Asleep THEN 1 ELSE 0)
        /\ at \in Asleep => n >= -1 /\ p + r = (IF n >= 0 THEN 1 ELSE 0)
        /\ at = "posted" => n >= 0
        /\ at = "again" => n >= 1 /\ p + r = 1
        /\ at \notin Asleep \cup {"again"} => n >= 0 /\ p + r = 0
    <3>1. CASE cons.pc = "idle"
      BY <1>3, <2>4, <3>1 DEF Asleep, Holding
    <3>2. CASE cons.pc = "sleep"
      BY <1>3, <2>4, <3>2 DEF Asleep, Holding
    <3>3. CASE cons.pc = "undo"
      BY <1>3, <2>4, <3>3 DEF Asleep, Holding
    <3>4. CASE cons.pc = "again"
      BY <1>3, <2>4, <3>4 DEF Asleep, Holding
    <3>5. CASE cons.pc = "posted"
      BY <1>3, <2>4, <3>5 DEF Asleep, Holding
    <3> QED
      BY <1>3, <3>1, <3>2, <3>3, <3>4, <3>5
  <2> QED
    BY <1>1, <1>4, <2>1, <2>2, <2>3, <2>5 DEF SignalInv
<1> QED
  BY <1>5, <1>7, <1>8, <1>9, <1>10 DEF QueueInv

\* A consumer that has been let through finds an element in a block ahead of it, if in none before.
LEMMA AnotherIsThere ==
  ASSUME shape \in Shapes, QueueInv, cons.pc \in Holding, InUse(mem.frontBlock) = 0
  PROVE  mem.frontBlock # mem.tailBlock
<1> SUFFICES ASSUME mem.frontBlock = mem.tailBlock PROVE FALSE
  OBVIOUS
<1>1. QueueTypeOK /\ BlocksInv /\ ProducerInv /\ SignalInv
  BY DEF QueueInv
<1>2. PICK f \in Blocks, last \in Blocks : f = mem.frontBlock /\ f = mem.tailBlock /\ last = LastBlock
  BY <1>1, MemoryTyped
<1>3. cons.taken < prod.next - 1 /\ prod.next \in Int /\ cons.taken \in Int /\ Released = cons.taken
  <2>1. sem.count >= 0 /\ sem.count = prod.next - 1 - cons.taken - 1
    BY <1>1 DEF SignalInv, Holding, Asleep
  <2>2. prod.next \in Int /\ cons.taken \in Int /\ sem.count \in Int
    BY <1>1 DEF QueueTypeOK
  <2> QED
    BY <2>1, <2>2 DEF Released, Holding
<1>4. Published = Earlier(last) + InUse(last)
  BY <1>1, <1>2 DEF BlocksInv
<1>5. CASE prod.pc # "move"
  <2>1. last = f
    BY <1>2, <1>5 DEF LastBlock
  <2>2. Published = cons.taken
    BY <1>2, <1>3, <1>4, <2>1 DEF Earlier
  <2> QED
    BY <1>3, <2>2 DEF Published
<1>6. CASE prod.pc = "move"
  <2>1. last = prod.block /\ last = Following(f) /\ last # f /\ InUse(last) = 1
    BY <1>1, <1>2, <1>6 DEF LastBlock, ProducerInv
  <2>2. Place(last) - 1 = 0
    <3>1. Ahead(Count, f, Following(f)) = Ahead(Count, f, f) + 1 /\ Ahead(Count, f, f) = 0
      BY <2>1, BlockAfter
    <3> QED
      BY <1>2, <2>1, <3>1 DEF Place
  <2>3. 0 * (Size - 1) = 0
    BY QueueSizes
  <2>4. Earlier(last) = cons.taken
    BY <1>2, <1>3, <2>1, <2>2, <2>3 DEF Earlier
  <2>5. Published = prod.next
    BY <1>3, <1>6 DEF Published
  <2> QED
    BY <1>3, <1>4, <2>1, <2>4, <2>5
<1> QED
  BY <1>5, <1>6

\* The steps of tryDequeue() that only look.
LEMMA LookKeeps ==
  ASSUME shape \in Shapes, QueueInv, Take \/ CompareBlocks \/ ReloadTail \/ Recheck,
         UNCHANGED <<shape, prod>>
  PROVE  QueueInv'
<1>2. QueueTypeOK /\ SlotsInv /\ BlocksInv /\ ContentInv /\ ProducerInv /\ ConsumerInv /\ SignalInv
  BY DEF QueueInv
<1>0. PICK f \in Blocks, i \in 0..(Size - 1), j \in 0..(Size - 1), l \in 0..(Size - 1) :
        f = mem.frontBlock /\ i = mem.front[f] /\ j = mem.tail[f] /\ l = mem.localTail[f]
  BY <1>2, MemoryTyped
<1>a. /\ Ahead(Size, i, j) \in Nat /\ (Ahead(Size, i, j) = 0 <=> i = j)
      /\ Ahead(Size, i, l) \in Nat /\ (Ahead(Size, i, l) = 0 <=> i = l)
      /\ InUse(f) = Ahead(Size, i, j)
  <2>1. /\ Ahead(Size, i, j) \in 0..(Size - 1) /\ (Ahead(Size, i, j) = 0 <=> i = j)
        /\ Ahead(Size, i, l) \in 0..(Size - 1) /\ (Ahead(Size, i, l) = 0 <=> i = l)
    BY SlotAfter
  <2> QED
    BY <1>0, <2>1, QueueSizes DEF InUse
<1>1. PICK at \in {"read", "reload", "other", "recheck", "advance"} :
        /\ sem' = sem /\ prod' = prod /\ shape' = shape /\ cons' = [cons EXCEPT !.pc = at]
        /\ \/ /\ cons.pc = "take" /\ mem' = mem /\ at = IF i # l THEN "read" ELSE "reload"
           \/ /\ cons.pc = "other" /\ mem' = mem /\ at = "recheck"
           \/ /\ cons.pc = "reload" /\ mem' = [mem EXCEPT !.localTail[f] = mem.tail[f]]
              /\ at = IF i # j THEN "read" ELSE "other"
           \/ /\ cons.pc = "recheck" /\ mem' = [mem EXCEPT !.localTail[f] = mem.tail[f]]
              /\ at = IF i # j THEN "read" ELSE "advance"
  <2>1. CASE Take
    <3>1. PICK q \in {"read", "reload"} : q = IF i # l THEN "read" ELSE "reload"
      OBVIOUS
    <3>2. cons.pc = "take" /\ mem' = mem /\ sem' = sem /\ cons' = [cons EXCEPT !.pc = q]
      BY <1>0, <2>1, <3>1 DEF Take, FrontBlock
    <3> QED
      BY <3>1, <3>2
  <2>2. CASE CompareBlocks
    <3>1. cons.pc = "other" /\ AnotherBlock = "recheck"
      BY <1>2, <2>2 DEF CompareBlocks, AnotherBlock, ConsumerInv
    <3>2. mem' = mem /\ sem' = sem /\ cons' = [cons EXCEPT !.pc = "recheck"]
      BY <2>2, <3>1 DEF CompareBlocks
    <3> QED
      BY <3>1, <3>2
  <2>3. CASE ReloadTail
    <3>1. PICK q \in {"read", "other"} : q = IF i # j THEN "read" ELSE "other"
      OBVIOUS
    <3>2. /\ cons.pc = "reload" /\ mem' = [mem EXCEPT !.localTail[f] = mem.tail[f]]
          /\ sem' = sem /\ cons' = [cons EXCEPT !.pc = q]
      BY <1>0, <2>3, <3>1 DEF ReloadTail, Reload, FrontBlock
    <3> QED
      BY <3>1, <3>2
  <2>4. CASE Recheck
    <3>1. PICK q \in {"read", "advance"} : q = IF i # j THEN "read" ELSE "advance"
      OBVIOUS
    <3>2. /\ cons.pc = "recheck" /\ mem' = [mem EXCEPT !.localTail[f] = mem.tail[f]]
          /\ sem' = sem /\ cons' = [cons EXCEPT !.pc = q]
      BY <1>0, <2>4, <3>1 DEF Recheck, Reload, FrontBlock
    <3> QED
      BY <3>1, <3>2
  <2> QED
    BY <2>1, <2>2, <2>3, <2>4
<1>m. /\ mem' \in Memory /\ SlotsInv'
      /\ mem'.front = mem.front /\ mem'.tail = mem.tail /\ mem'.localFront = mem.localFront
      /\ mem'.frontBlock = f /\ mem'.tailBlock = mem.tailBlock /\ mem'.data = mem.data
      /\ cons.pc = "take" => mem'.localTail[f] = l
      /\ cons.pc \in {"reload", "recheck"} => mem'.localTail[f] = j
  <2>1. CASE mem' = mem /\ cons.pc \in {"take", "other"}
    BY <1>0, <1>1, <1>2, <2>1, SlotsKept DEF QueueTypeOK
  <2>2. CASE mem' = [mem EXCEPT !.localTail[f] = mem.tail[f]] /\ cons.pc \in {"reload", "recheck"}
    <3>1. mem' = [mem EXCEPT !.frontBlock = f, !.localTail[f] = mem.tail[f]]
      <4>1. PICK m : m = mem
        OBVIOUS
      <4>2. m \in Memory /\ m.frontBlock = f
        BY <1>0, <1>2, <4>1 DEF QueueTypeOK
      <4>3. [m EXCEPT !.frontBlock = f] = m
        BY <4>2 DEF Memory
      <4>4. [m EXCEPT !.frontBlock = f, !.localTail[f] = m.tail[f]] = [m EXCEPT !.localTail[f] = m.tail[f]]
        BY <4>2, <4>3 DEF Memory
      <4> QED
        BY <2>2, <4>1, <4>4
    <3>2. /\ mem' \in Memory /\ SlotsInv'
          /\ mem'.front = mem.front /\ mem'.tail = mem.tail /\ mem'.localFront = mem.localFront
          /\ mem'.frontBlock = f /\ mem'.tailBlock = mem.tailBlock /\ mem'.data = mem.data
          /\ \A b \in Blocks : mem'.localTail[b] = IF b = f THEN mem.tail[b] ELSE mem.localTail[b]
      BY <1>1, <1>2, <3>1, TailNoted
    <3> QED
      BY <1>0, <2>2, <3>2
  <2> QED
    BY <1>1, <2>1, <2>2
<1>4. cons'.pc = at /\ cons'.got = cons.got /\ cons'.taken = cons.taken /\ cons.pc \in Holding
  BY <1>1, <1>2 DEF QueueTypeOK, Holding
<1>5. QueueTypeOK'
  <2>1. cons' \in [pc : Holding \cup Asleep \cup {"idle", "again", "release"}, got : Int, taken : Int]
    BY <1>1, <1>2 DEF QueueTypeOK, Holding
  <2> QED
    BY <1>1, <1>2, <1>m, <2>1, ShapeStays, MemoryStays DEF QueueTypeOK
<1>6. Released' = Released /\ Published' = Published /\ LastBlock' = LastBlock
  BY <1>1, <1>m, <1>4 DEF Released, Published, LastBlock, Holding
<1>7. BlocksInv' /\ ContentInv'
  BY <1>0, <1>1, <1>2, <1>m, <1>4, <1>6, BlocksKept, ContentKept DEF Holding
<1>8. ProducerInv'
  BY <1>0, <1>1, <1>2, <1>m, <1>6, ShapeStays DEF ProducerInv, Place, InUse, Following
<1>9. ConsumerInv'
  <2>1. Size' = Size /\ InUse(mem.frontBlock)' = InUse(f)
    BY <1>0, <1>1, <1>m, ShapeStays DEF InUse
  <2>2. cons'.pc = "read" => Ahead(Size, mem'.front[f], mem'.localTail[f]) > 0
    BY <1>0, <1>1, <1>m, <1>4, <1>a
  <2>3. cons'.pc \in {"other", "recheck", "advance"} => f # mem.tailBlock
    <3>1. CASE cons.pc \in {"other", "recheck"}
      BY <1>0, <1>2, <3>1 DEF ConsumerInv, FrontBlock
    <3>2. CASE cons.pc = "reload" /\ cons'.pc = "other"
      <4>1. InUse(mem.frontBlock) = 0
        BY <1>0, <1>1, <1>4, <1>a, <3>2
      <4> QED
        BY <1>0, <1>4, <4>1, AnotherIsThere
    <3> QED
      BY <1>1, <1>4, <3>1, <3>2
  <2>4. cons'.pc = "advance" => InUse(f) = 0
    BY <1>1, <1>4, <1>a
  <2>5. cons'.pc # "release" /\ cons'.got = cons'.taken
    BY <1>1, <1>2, <1>4 DEF ConsumerInv
  <2> QED
    BY <1>m, <2>1, <2>2, <2>3, <2>4, <2>5 DEF ConsumerInv, FrontBlock
<1>10. SignalInv'
  BY <1>1, <1>2, <1>4 DEF SignalInv, Holding, Asleep
<1> QED
  BY <1>5, <1>m, <1>7, <1>8, <1>9, <1>10 DEF QueueInv

\* The element is read, and is the next one.
LEMMA ReadElementKeeps ==
  ASSUME shape \in Shapes, QueueInv, ReadElement, UNCHANGED <<shape, prod>>
  PROVE  QueueInv'
<1>2. QueueTypeOK /\ SlotsInv /\ BlocksInv /\ ContentInv /\ ProducerInv /\ ConsumerInv /\ SignalInv
  BY DEF QueueInv
<1>1. PICK f \in Blocks, i \in 0..(Size - 1) :
        /\ f = mem.frontBlock /\ i = mem.front[f]
        /\ cons.pc = "read" /\ sem' = sem /\ prod' = prod /\ shape' = shape
        /\ cons' = [cons EXCEPT !.pc = "release", !.got = mem.data[f][i], !.taken = @ + 1]
        /\ mem' = [mem EXCEPT !.data[f][i] = NoElement]
  BY <1>2, MemoryTyped DEF ReadElement, FrontBlock
<1>3. cons'.pc = "release" /\ cons'.got = mem.data[f][i] /\ cons'.taken = cons.taken + 1 /\ cons.taken \in Int
  BY <1>1, <1>2 DEF QueueTypeOK
<1>m. /\ mem'.front = mem.front /\ mem'.tail = mem.tail
      /\ mem'.localFront = mem.localFront /\ mem'.localTail = mem.localTail
      /\ mem'.frontBlock = f /\ mem'.tailBlock = mem.tailBlock
      /\ mem'.data = [mem.data EXCEPT ![f] = [mem.data[f] EXCEPT ![i] = NoElement]]
  BY <1>1, <1>2 DEF QueueTypeOK, Memory
<1>v. /\ mem'.data \in [Blocks -> [0..(Size - 1) -> 0..MaxElements]]
      /\ \A b \in Blocks, k \in 0..(Size - 1) :
             mem'.data[b][k] = IF b = f /\ k = i THEN NoElement ELSE mem.data[b][k]
  <2>1. PICK I, V : I = 0..(Size - 1) /\ V = 0..MaxElements
    OBVIOUS
  <2>2. PICK g \in [Blocks -> [I -> V]], v \in V : g = mem.data /\ v = NoElement
    <3>1. mem.data \in [Blocks -> [0..(Size - 1) -> 0..MaxElements]]
      BY <1>2 DEF QueueTypeOK, Memory
    <3>2. NoElement \in 0..MaxElements
      BY QueueAssumption DEF NoElement, QueueAssumption
    <3> QED
      BY <2>1, <3>1, <3>2
  <2>3. mem'.data = [g EXCEPT ![f] = [g[f] EXCEPT ![i] = v]] /\ i \in I
    BY <1>m, <2>1, <2>2
  <2>4. /\ mem'.data \in [Blocks -> [I -> V]]
        /\ \A b \in Blocks, k \in I : mem'.data[b][k] = IF b = f /\ k = i THEN v ELSE g[b][k]
    <3>1. PICK h : h = [g EXCEPT ![f] = [g[f] EXCEPT ![i] = v]]
      OBVIOUS
    <3>2. /\ h \in [Blocks -> [I -> V]]
          /\ \A b \in Blocks, k \in I : h[b][k] = IF b = f /\ k = i THEN v ELSE g[b][k]
      BY <2>2, <2>3, <3>1, DataSet, SMTT(30)
    <3> QED
      BY <2>3, <3>1, <3>2
  <2> QED
    BY <2>1, <2>2, <2>4
<1>i. InUse(f) > 0 /\ InUse(f) \in Int
  <2>1. PICK l \in 0..(Size - 1) : l = mem.localTail[f]
    BY <1>2, MemoryTyped
  <2>2. Ahead(Size, i, l) > 0
    BY <1>1, <1>2, <2>1 DEF ConsumerInv, FrontBlock
  <2>3. Ahead(Size, i, l) <= InUse(f)
    BY <1>1, <1>2, <2>1 DEF SlotsInv
  <2>4. Ahead(Size, i, l) \in 0..(Size - 1) /\ InUse(f) \in 0..(Size - 1) /\ Size \in Nat
    BY <1>2, SlotAfter, MemoryTyped, QueueSizes
  <2> QED
    BY <2>2, <2>3, <2>4
<1>z. Ahead(Size, i, i) = 0
  BY SlotAfter
<1>g. mem.data[f][i] = cons.taken + 1
  <2>1. mem.data[f][i] = Earlier(f) + Ahead(Size, i, i) + 1
    BY <1>1, <1>2, <1>i, <1>z DEF ContentInv
  <2>2. Earlier(f) = cons.taken
    BY <1>1 DEF Earlier, Released
  <2> QED
    BY <1>3, <1>z, <2>1, <2>2
<1>5. QueueTypeOK'
  <2>0. PICK n \in Int : n = cons.taken + 1 /\ n = mem.data[f][i]
    BY <1>3, <1>g
  <2>1. cons' \in [pc : Holding \cup Asleep \cup {"idle", "again", "release"}, got : Int, taken : Int]
    <3>1. cons' = [cons EXCEPT !.pc = "release", !.got = n, !.taken = n]
      BY <1>1, <1>2, <2>0 DEF QueueTypeOK
    <3> QED
      BY <1>2, <2>0, <3>1 DEF QueueTypeOK
  <2>2. mem' \in Memory
    <3>1. PICK g \in [Blocks -> [0..(Size - 1) -> 0..MaxElements]] : mem' = [mem EXCEPT !.data = g]
      BY <1>1, <1>2, <1>m, <1>v DEF QueueTypeOK, Memory
    <3> QED
      BY <1>2, <3>1 DEF QueueTypeOK, Memory
  <2> QED
    BY <1>1, <1>2, <2>1, <2>2, ShapeStays, MemoryStays DEF QueueTypeOK
<1>6. Released' = Released /\ Published' = Published /\ LastBlock' = LastBlock
  BY <1>1, <1>3, <1>m DEF Released, Published, LastBlock
<1>7. SlotsInv' /\ BlocksInv'
  BY <1>1, <1>2, <1>m, <1>6, SlotsKept, BlocksKept
<1>c. ContentInv'
  <2> SUFFICES ASSUME NEW b \in Blocks, NEW k \in 0..(Size - 1),
                      Ahead(Size, mem.front[b], k) < InUse(b),
                      ~ (b = f /\ k = i)
               PROVE  mem'.data[b][k] = Earlier(b) + Ahead(Size, mem.front[b], k) + 1
    BY <1>1, <1>3, <1>m, <1>6, ShapeStays DEF ContentInv, InUse, Earlier, Place
  <2>1. mem.data[b][k] = Earlier(b) + Ahead(Size, mem.front[b], k) + 1
    BY <1>1, <1>2 DEF ContentInv
  <2> QED
    BY <1>v, <2>1
<1>8. ProducerInv'
  <2>1. prod.pc = "publish" => mem'.data[prod.block][mem.tail[prod.block]] = prod.next
    <3> SUFFICES ASSUME prod.pc = "publish"
                 PROVE  mem'.data[prod.block][mem.tail[prod.block]] = prod.next
      OBVIOUS
    <3>1. PICK c \in Blocks, j \in 0..(Size - 1) : c = prod.block /\ j = mem.tail[c]
      BY <1>2, MemoryTyped
    <3>2. mem.data[c][j] = prod.next
      BY <1>2, <3>1 DEF ProducerInv
    <3>3. ~ (c = f /\ j = i)
      BY <1>1, <1>i, <1>z, <3>1 DEF InUse
    <3> QED
      BY <1>v, <3>1, <3>2, <3>3
  <2> QED
    BY <1>1, <1>2, <1>m, <1>6, <2>1, ShapeStays DEF ProducerInv, Place, InUse, Following
<1>9. ConsumerInv'
  <2>1. Ahead(Size, mem.front[f], mem.localTail[f]) > 0
    BY <1>1, <1>2 DEF ConsumerInv, FrontBlock
  <2> QED
    BY <1>1, <1>3, <1>g, <1>m, <2>1, ShapeStays DEF ConsumerInv, FrontBlock
<1>10. SignalInv'
  <2>1. prod.next \in Int /\ sem.count \in Int
    BY <1>2 DEF QueueTypeOK
  <2> QED
    BY <1>1, <1>2, <1>3, <2>1 DEF SignalInv, Holding, Asleep
<1> QED
  BY <1>5, <1>7, <1>c, <1>8, <1>9, <1>10 DEF QueueInv

\* The front is stored: the slot may be written again.
LEMMA ReleaseSlotKeeps ==
  ASSUME shape \in Shapes, QueueInv, ReleaseSlot, UNCHANGED <<shape, prod>>
  PROVE  QueueInv'
<1>2. QueueTypeOK /\ SlotsInv /\ BlocksInv /\ ContentInv /\ ProducerInv /\ ConsumerInv /\ SignalInv
  BY DEF QueueInv
<1>1. PICK f \in Blocks, i \in 0..(Size - 1) :
        /\ f = mem.frontBlock /\ i = mem.front[f]
        /\ cons.pc = "release" /\ sem' = sem /\ prod' = prod /\ shape' = shape
        /\ cons' = [cons EXCEPT !.pc = "idle"]
        /\ mem' = [mem EXCEPT !.front[f] = Succ(i)]
  BY <1>2, MemoryTyped DEF ReleaseSlot, FrontBlock
<1>3. cons'.pc = "idle" /\ cons'.got = cons.got /\ cons'.taken = cons.taken /\ cons.taken \in Int
  BY <1>1, <1>2 DEF QueueTypeOK
<1>m. /\ mem'.tail = mem.tail /\ mem'.data = mem.data
      /\ mem'.localFront = mem.localFront /\ mem'.localTail = mem.localTail
      /\ mem'.frontBlock = f /\ mem'.tailBlock = mem.tailBlock
      /\ mem'.front = [mem.front EXCEPT ![f] = Succ(i)]
  BY <1>1, <1>2 DEF QueueTypeOK, Memory
<1>v. /\ mem'.front \in Positions
      /\ \A b \in Blocks : mem'.front[b] = IF b = f THEN Succ(i) ELSE mem.front[b]
  <2>1. mem.front \in Positions /\ Succ(i) \in 0..(Size - 1)
    BY <1>2, RingFacts DEF QueueTypeOK, Memory
  <2> QED
    BY <1>m, <2>1, PositionSet
<1>5. QueueTypeOK'
  <2>1. cons' \in [pc : Holding \cup Asleep \cup {"idle", "again", "release"}, got : Int, taken : Int]
    BY <1>1, <1>2 DEF QueueTypeOK
  <2>2. mem' \in Memory
    <3>1. PICK g \in Positions : mem' = [mem EXCEPT !.front = g]
      BY <1>1, <1>2, <1>m, <1>v DEF QueueTypeOK, Memory
    <3> QED
      BY <1>2, <3>1 DEF QueueTypeOK, Memory
  <2> QED
    BY <1>1, <1>2, <2>1, <2>2, ShapeStays, MemoryStays DEF QueueTypeOK
<1>u. /\ \A b \in Blocks : /\ InUse(b) \in Nat /\ InUse(b) <= Size - 1 /\ Place(b) \in Nat /\ Place(b)' = Place(b)
                           /\ Place(b) = 0 <=> b = f
      /\ Size \in Nat /\ Size >= 2 /\ Size' = Size
  <2>1. \A b \in Blocks : InUse(b) \in 0..(Size - 1) /\ Place(b) \in 0..(Count - 1)
    BY <1>2, MemoryTyped
  <2>2. \A b \in Blocks : Place(b)' = Place(b)
    BY <1>1, <1>m, ShapeStays DEF Place
  <2>3. \A b \in Blocks : Place(b) = 0 <=> b = f
    BY <1>1, BlockAfter DEF Place
  <2> QED
    BY <1>1, <2>1, <2>2, <2>3, QueueSizes, ShapeStays
\* What the consumer has seen of the block loses a slot, and so does the block.
<1>l. PICK l \in 0..(Size - 1) :
        /\ l = mem.localTail[f] /\ i # l /\ Ahead(Size, i, l) <= InUse(f)
        /\ Ahead(Size, i, l) \in Nat /\ Ahead(Size, i, l) > 0
        /\ Ahead(Size, Succ(i), l) = Ahead(Size, i, l) - 1
  <2>1. PICK l \in 0..(Size - 1) : l = mem.localTail[f]
    BY <1>2, MemoryTyped
  <2>2. Ahead(Size, i, l) > 0
    BY <1>1, <1>2, <2>1 DEF ConsumerInv, FrontBlock
  <2>3. Ahead(Size, i, l) <= InUse(f)
    BY <1>1, <1>2, <2>1 DEF SlotsInv
  <2>4. /\ Ahead(Size, i, l) \in 0..(Size - 1) /\ (Ahead(Size, i, l) = 0 <=> i = l)
        /\ Ahead(Size, Succ(i), l) = IF i = l THEN Size - 1 ELSE Ahead(Size, i, l) - 1
    BY SlotAfter
  <2> QED
    BY <1>u, <2>1, <2>2, <2>3, <2>4
<1>i. /\ InUse(f)' = InUse(f) - 1 /\ InUse(f) > 0
      /\ \A b \in Blocks : b # f => InUse(b)' = InUse(b)
  <2>1. PICK j \in 0..(Size - 1) : j = mem.tail[f]
    BY <1>2, MemoryTyped
  <2>2. InUse(f) = Ahead(Size, i, j) /\ InUse(f)' = Ahead(Size, Succ(i), j)
    BY <1>1, <1>m, <1>u, <1>v, <2>1 DEF InUse
  <2>3. /\ Ahead(Size, i, j) = 0 <=> i = j
        /\ Ahead(Size, Succ(i), j) = IF i = j THEN Size - 1 ELSE Ahead(Size, i, j) - 1
    BY SlotAfter
  <2>4. InUse(f) > 0
    BY <1>l, <1>u
  <2>5. \A b \in Blocks : b # f => InUse(b)' = InUse(b)
    BY <1>m, <1>u, <1>v DEF InUse
  <2> QED
    BY <1>u, <2>2, <2>3, <2>4, <2>5
<1>n. Released' = Released + 1 /\ Released \in Int /\ Published' = Published /\ LastBlock' = LastBlock
  BY <1>1, <1>3, <1>m DEF Released, Published, LastBlock
<1>e. \A b \in Blocks : Earlier(b)' = IF b = f THEN Earlier(b) + 1 ELSE Earlier(b)
  <2> SUFFICES ASSUME NEW b \in Blocks PROVE Earlier(b)' = IF b = f THEN Earlier(b) + 1 ELSE Earlier(b)
    OBVIOUS
  <2>1. CASE b = f
    BY <1>1, <1>m, <1>n, <2>1 DEF Earlier
  <2>2. CASE b # f
    <3>1. PICK d : d = (Place(b) - 1) * (Size - 1)
      OBVIOUS
    <3>2. Earlier(b) = Released + InUse(f) + d
      BY <1>1, <2>2, <3>1 DEF Earlier
    <3>3. Earlier(b)' = Released' + InUse(f)' + d
      <4>1. Earlier(b)' = Released' + InUse(mem.frontBlock)' + (Place(b)' - 1) * (Size' - 1)
        BY <1>m, <2>2 DEF Earlier
      <4>2. InUse(mem.frontBlock)' = InUse(f)'
        BY <1>m DEF InUse
      <4> QED
        BY <1>u, <3>1, <4>1, <4>2
    <3>4. Released' + InUse(f)' = Released + InUse(f)
      BY <1>i, <1>n, <1>u
    <3> QED
      BY <2>2, <3>2, <3>3, <3>4
  <2> QED
    BY <2>1, <2>2
<1>6. SlotsInv'
  <2> SUFFICES ASSUME NEW b \in Blocks
               PROVE  /\ InUse(b)' <= Ahead(Size, mem'.localFront[b], mem'.tail[b])
                      /\ Ahead(Size, mem'.front[b], mem'.localTail[b]) <= InUse(b)'
    BY <1>1, ShapeStays DEF SlotsInv
  <2>1. /\ InUse(b) <= Ahead(Size, mem.localFront[b], mem.tail[b])
        /\ Ahead(Size, mem.front[b], mem.localTail[b]) <= InUse(b)
    BY <1>2 DEF SlotsInv
  <2>2. CASE b # f
    BY <1>i, <1>m, <1>v, <2>1, <2>2
  <2>3. CASE b = f
    <3>1. PICK n \in Nat : n = Ahead(Size, mem.localFront[b], mem.tail[b])
      <4>1. mem.localFront[b] \in 0..(Size - 1) /\ mem.tail[b] \in 0..(Size - 1)
        BY <1>2, MemoryTyped
      <4>2. Ahead(Size, mem.localFront[b], mem.tail[b]) \in 0..(Size - 1)
        BY <4>1, RingFacts
      <4> QED
        BY <1>u, <4>2
    <3>2. Ahead(Size, mem'.front[b], mem'.localTail[b]) = Ahead(Size, i, l) - 1
      BY <1>l, <1>m, <1>v, <2>3
    <3>3. InUse(b)' <= n
      BY <1>i, <1>u, <2>1, <2>3, <3>1
    <3>4. Ahead(Size, i, l) - 1 <= InUse(f) - 1
      BY <1>l, <1>u
    <3> QED
      BY <1>i, <1>m, <2>3, <3>1, <3>2, <3>3, <3>4
  <2> QED
    BY <2>2, <2>3
<1>7. BlocksInv'
  <2> SUFFICES ASSUME NEW last \in Blocks, last = LastBlock
               PROVE  /\ \A b \in Blocks : /\ Place(b) > Place(last) => InUse(b)' = 0
                                           /\ 0 < Place(b) /\ Place(b) < Place(last) => InUse(b)' = Size - 1
                      /\ Place(last) > 0 => InUse(last)' > 0
                      /\ Published = Earlier(last)' + InUse(last)'
    BY <1>1, <1>n, <1>u, ShapeStays DEF BlocksInv
  <2>1. /\ \A b \in Blocks : /\ Place(b) > Place(last) => InUse(b) = 0
                             /\ 0 < Place(b) /\ Place(b) < Place(last) => InUse(b) = Size - 1
        /\ Place(last) > 0 => InUse(last) > 0
        /\ Published = Earlier(last) + InUse(last)
    BY <1>2 DEF BlocksInv
  <2>2. \A b \in Blocks : /\ Place(b) > Place(last) => InUse(b)' = 0
                          /\ 0 < Place(b) /\ Place(b) < Place(last) => InUse(b)' = Size - 1
    BY <1>i, <1>u, <2>1
  <2>3. Place(last) > 0 => InUse(last)' > 0
    BY <1>i, <1>u, <2>1
  <2>4. Earlier(last)' + InUse(last)' = Earlier(last) + InUse(last)
    BY <1>2, <1>e, <1>i, <1>u, EarlierTyped
  <2> QED
    BY <2>1, <2>2, <2>3, <2>4
<1>c. ContentInv'
  <2> SUFFICES ASSUME NEW b \in Blocks, NEW k \in 0..(Size - 1),
                      Ahead(Size, mem'.front[b], k) < InUse(b)'
               PROVE  mem.data[b][k] = Earlier(b)' + Ahead(Size, mem'.front[b], k) + 1
    BY <1>1, <1>3, <1>m, ShapeStays DEF ContentInv
  <2>1. CASE b # f
    <3>1. mem'.front[b] = mem.front[b] /\ InUse(b)' = InUse(b) /\ Earlier(b)' = Earlier(b)
      BY <1>e, <1>i, <1>v, <2>1
    <3>2. mem.data[b][k] = Earlier(b) + Ahead(Size, mem.front[b], k) + 1
      BY <1>1, <1>2, <2>1, <3>1 DEF ContentInv
    <3> QED
      BY <3>1, <3>2
  <2>2. CASE b = f
    <3>1. mem'.front[b] = Succ(i) /\ InUse(b)' = InUse(f) - 1 /\ Earlier(b)' = Earlier(f) + 1
      BY <1>e, <1>i, <1>v, <2>2
    <3>2. /\ Ahead(Size, Succ(i), k) = IF i = k THEN Size - 1 ELSE Ahead(Size, i, k) - 1
          /\ Ahead(Size, i, k) \in 0..(Size - 1)
      BY SlotAfter
    <3>3. i # k /\ Ahead(Size, Succ(i), k) = Ahead(Size, i, k) - 1 /\ Ahead(Size, i, k) < InUse(f)
      BY <1>u, <3>1, <3>2
    <3>4. mem.data[f][k] = Earlier(f) + Ahead(Size, i, k) + 1
      BY <1>1, <1>2, <3>3 DEF ContentInv
    <3>5. Earlier(f) \in Int /\ Ahead(Size, i, k) \in Int
      BY <1>2, <1>u, <3>2, EarlierTyped
    <3> QED
      BY <2>2, <3>1, <3>3, <3>4, <3>5
  <2> QED
    BY <2>1, <2>2
<1>8. ProducerInv'
  <2>0. PICK c \in Blocks, t \in Blocks : c = prod.block /\ t = mem.tailBlock
    BY <1>2, MemoryTyped
  <2>1. /\ prod.pc \in {"write", "publish", "move"} /\ c # t => c # f
        /\ prod.pc = "move" => c # t
    BY <1>1, <1>2, <2>0 DEF ProducerInv
  <2>2. prod.pc = "move" => InUse(c)' = 1
    BY <1>1, <1>2, <1>i, <2>0, <2>1 DEF ProducerInv
  <2>3. Place(t)' > 0 => InUse(t)' = InUse(t) /\ Place(t) > 0
    BY <1>i, <1>u
  <2>4. /\ prod.pc \in {"full", "ahead"} => prod.held >= Published' - Released'
    <3>1. Published \in Int /\ prod.held \in Int
      BY <1>2, MemoryTyped DEF QueueTypeOK
    <3> QED
      BY <1>2, <1>n, <3>1 DEF ProducerInv
  <2>5. \/ prod.pc = "ahead"
        \/ prod.pc \in {"write", "publish", "move"} /\ c # t
        => (Place(t) > 0 => InUse(t) = Size - 1)
    BY <1>2, <2>0 DEF ProducerInv
  <2>6. /\ Following(mem.tailBlock)' = Following(mem.tailBlock) /\ Place(mem.tailBlock)' = Place(t)'
        /\ InUse(mem.tailBlock)' = InUse(t)' /\ InUse(prod.block)' = InUse(c)'
    BY <1>1, <1>m, <2>0, ShapeStays DEF Following, Place, InUse
  <2> QED
    BY <1>1, <1>2, <1>m, <1>u, <2>0, <2>1, <2>2, <2>3, <2>4, <2>5, <2>6, ShapeStays DEF ProducerInv
<1>9. ConsumerInv'
  BY <1>2, <1>3 DEF ConsumerInv
<1>10. SignalInv'
  BY <1>1, <1>2, <1>3 DEF SignalInv, Holding, Asleep
<1> QED
  BY <1>5, <1>6, <1>7, <1>c, <1>8, <1>9, <1>10 DEF QueueInv

\* The reader goes on to the next block, whose element it knows of.
LEMMA AdvanceKeeps ==
  ASSUME shape \in Shapes, QueueInv, Advance, UNCHANGED <<shape, prod>>
  PROVE  QueueInv'
<1>2. QueueTypeOK /\ SlotsInv /\ BlocksInv /\ ContentInv /\ ProducerInv /\ ConsumerInv /\ SignalInv
  BY DEF QueueInv
<1>1. PICK f \in Blocks, g \in Blocks, t \in Blocks, last \in Blocks :
        /\ f = mem.frontBlock /\ g = Following(f) /\ t = mem.tailBlock /\ last = LastBlock
        /\ cons.pc = "advance" /\ sem' = sem /\ prod' = prod /\ shape' = shape
        /\ cons' = [cons EXCEPT !.pc = "read"]
        /\ mem' = [mem EXCEPT !.frontBlock = g, !.localTail[g] = mem.tail[g]]
  BY <1>2, MemoryTyped, RingFacts DEF Advance, FrontBlock
<1>3. cons'.pc = "read" /\ cons'.got = cons.got /\ cons'.taken = cons.taken
  BY <1>1, <1>2 DEF QueueTypeOK
<1>m. /\ mem' \in Memory /\ SlotsInv'
      /\ mem'.front = mem.front /\ mem'.tail = mem.tail /\ mem'.localFront = mem.localFront
      /\ mem'.frontBlock = g /\ mem'.tailBlock = t /\ mem'.data = mem.data
      /\ \A b \in Blocks : mem'.localTail[b] = IF b = g THEN mem.tail[b] ELSE mem.localTail[b]
  BY <1>1, <1>2, TailNoted
<1>5. QueueTypeOK'
  <2>1. cons' \in [pc : Holding \cup Asleep \cup {"idle", "again", "release"}, got : Int, taken : Int]
    BY <1>1, <1>2 DEF QueueTypeOK, Holding
  <2>2. Memory' = Memory /\ Blocks' = Blocks
    BY <1>1, ShapeStays DEF Memory, Positions
  <2> QED
    BY <1>1, <1>2, <1>m, <2>1, <2>2 DEF QueueTypeOK
<1>n. Released' = Released /\ Released \in Int /\ Published' = Published /\ LastBlock' = LastBlock
  BY <1>1, <1>2, <1>3, <1>m, MemoryTyped DEF Released, Published, LastBlock
<1>f. f # t /\ InUse(f) = 0 /\ last # f
  <2>1. f # t /\ InUse(f) = 0
    BY <1>1, <1>2 DEF ConsumerInv, FrontBlock
  <2>2. prod.pc = "move" => prod.block # f
    BY <1>1, <1>2 DEF ProducerInv
  <2> QED
    BY <1>1, <2>1, <2>2 DEF LastBlock
<1>u. /\ \A b \in Blocks : /\ InUse(b) \in Nat /\ Place(b) \in 0..(Count - 1)
                           /\ Place(b) = 0 <=> b = f
                           /\ InUse(b)' = InUse(b)
      /\ Size \in Nat /\ Size >= 2 /\ Size' = Size /\ Count \in Nat
  <2>1. \A b \in Blocks : InUse(b) \in 0..(Size - 1) /\ Place(b) \in 0..(Count - 1)
    BY <1>2, MemoryTyped
  <2>2. \A b \in Blocks : Place(b) = 0 <=> b = f
    BY <1>1, BlockAfter DEF Place
  <2>3. \A b \in Blocks : InUse(b)' = InUse(b)
    BY <1>1, <1>m, ShapeStays DEF InUse
  <2> QED
    BY <1>1, <2>1, <2>2, <2>3, QueueSizes, ShapeStays
\* Every block but the one that is left comes nearer.
<1>p. \A b \in Blocks : Place(b)' = IF b = f THEN Count - 1 ELSE Place(b) - 1
  <2> SUFFICES ASSUME NEW b \in Blocks PROVE Place(b)' = IF b = f THEN Count - 1 ELSE Place(b) - 1
    OBVIOUS
  <2>1. Ahead(Count, Following(f), b) = IF f = b THEN Count - 1 ELSE Ahead(Count, f, b) - 1
    BY BlockAfter
  <2>2. Place(b)' = Ahead(Count, g, b)
    BY <1>1, <1>m, ShapeStays DEF Place
  <2> QED
    BY <1>1, <2>1, <2>2 DEF Place
<1>g. g # f /\ Place(g) = 1
  <2>1. Following(f) # f
    <3>1. Following(f) = f <=> Ahead(Count, f, f) = Count - 1
      BY BlockAfter
    <3>2. Ahead(Count, f, f) = 0
      BY BlockAfter
    <3>3. Count - 1 # 0
      BY <1>f, <1>u
    <3> QED
      BY <3>1, <3>2, <3>3
  <2>2. Ahead(Count, f, Following(f)) = Ahead(Count, f, f) + 1 /\ Ahead(Count, f, f) = 0
    BY <2>1, BlockAfter
  <2> QED
    BY <1>1, <2>1, <2>2 DEF Place
<1>o. \A b, c \in Blocks : Place(b) = Place(c) => b = c
  BY <1>1, QueueSizes, AheadDiffers DEF Place, Blocks
<1>b. /\ \A b \in Blocks : /\ Place(b) > Place(last) => InUse(b) = 0
                           /\ 0 < Place(b) /\ Place(b) < Place(last) => InUse(b) = Size - 1
      /\ Place(last) > 0 /\ InUse(last) > 0
      /\ Published = Earlier(last) + InUse(last)
  <2>1. Place(last) > 0
    BY <1>f, <1>u
  <2> QED
    BY <1>1, <1>2, <2>1 DEF BlocksInv
<1>r. InUse(g) > 0 /\ (Place(last) > 1 => InUse(g) = Size - 1)
  <2>1. CASE Place(last) = 1
    BY <1>b, <1>g, <1>o, <2>1
  <2>2. CASE Place(last) > 1
    BY <1>b, <1>g, <1>u, <2>2
  <2> QED
    BY <1>b, <1>u, <2>1, <2>2
<1>e. \A b \in Blocks : InUse(b) > 0 => Earlier(b)' = Earlier(b)
  <2> SUFFICES ASSUME NEW b \in Blocks, InUse(b) > 0 PROVE Earlier(b)' = Earlier(b)
    OBVIOUS
  <2>1. b # f /\ Place(b) <= Place(last) /\ Place(b) >= 1
    BY <1>b, <1>f, <1>u
  <2>2. PICK k \in Nat, d \in Nat : k = Size - 1 /\ d = Place(b) - 1
    BY <1>u, <2>1, SMTT(30)
  <2>3. Earlier(b) = Released + d * k
    <3>1. Earlier(b) = Released + InUse(f) + d * k
      BY <1>1, <2>1, <2>2 DEF Earlier
    <3>2. d * k \in Nat
      BY Times
    <3> QED
      BY <1>f, <1>n, <3>1, <3>2
  <2>4. CASE b = g
    <3>1. d = 0 /\ 0 * k = 0
      BY <1>g, <2>2, <2>4, Times
    <3>2. Earlier(b)' = Released
      BY <1>m, <1>n, <2>4 DEF Earlier
    <3> QED
      BY <1>n, <2>3, <3>1, <3>2
  <2>5. CASE b # g
    <3>1. Place(b) > 1 /\ InUse(g) = k
      BY <1>g, <1>o, <1>r, <1>u, <2>1, <2>2, <2>5
    <3>2. PICK e \in Nat : e = d - 1
      <4>1. Place(b) \in Int
        BY <1>u
      <4>2. d > 0
        BY <2>2, <3>1, <4>1
      <4> QED
        BY <4>2
    <3>3. Earlier(b)' = Released + k + e * k
      <4>1. Earlier(b)' = Released' + InUse(mem.frontBlock)' + (Place(b)' - 1) * (Size' - 1)
        BY <1>m, <2>5 DEF Earlier
      <4>2. InUse(mem.frontBlock)' = InUse(g)'
        BY <1>m DEF InUse
      <4>3. Place(b)' - 1 = e
        BY <1>p, <1>u, <2>1, <2>2, <3>2
      <4>4. InUse(mem.frontBlock)' = k /\ Size' - 1 = k
        BY <1>n, <1>u, <2>2, <3>1, <4>2
      <4> QED
        BY <1>n, <4>1, <4>3, <4>4
    <3>4. (e + 1) * k = e * k + k /\ e * k \in Nat
      BY Times
    <3>5. d = e + 1
      BY <3>2
    <3> QED
      BY <1>n, <2>3, <3>3, <3>4, <3>5
  <2> QED
    BY <2>4, <2>5
<1>7. BlocksInv'
  <2>1. \A b \in Blocks : /\ Place(b)' > Place(last)' => InUse(b)' = 0
                          /\ 0 < Place(b)' /\ Place(b)' < Place(last)' => InUse(b)' = Size - 1
    <3> SUFFICES ASSUME NEW b \in Blocks
                 PROVE  /\ Place(b)' > Place(last)' => InUse(b) = 0
                        /\ 0 < Place(b)' /\ Place(b)' < Place(last)' => InUse(b) = Size - 1
      BY <1>u
    <3>1. Place(last)' = Place(last) - 1
      BY <1>f, <1>p
    <3>2. CASE b = f
      BY <1>f, <1>p, <1>u, <3>1, <3>2
    <3>3. CASE b # f
      BY <1>b, <1>p, <1>u, <3>1, <3>3, SMTT(30)
    <3> QED
      BY <3>2, <3>3
  <2>2. InUse(last)' > 0
    BY <1>b, <1>u
  <2>3. Published' = Earlier(last)' + InUse(last)'
    BY <1>b, <1>e, <1>n, <1>u
  <2>4. Blocks' = Blocks
    BY <1>1, ShapeStays
  <2> QED
    BY <1>1, <1>n, <1>u, <2>1, <2>2, <2>3, <2>4 DEF BlocksInv
<1>c. ContentInv'
  <2> SUFFICES ASSUME NEW b \in Blocks, NEW i \in 0..(Size - 1),
                      Ahead(Size, mem.front[b], i) < InUse(b)
               PROVE  mem.data[b][i] = Earlier(b)' + Ahead(Size, mem.front[b], i) + 1
    BY <1>1, <1>3, <1>m, <1>u, ShapeStays, SMTT(30) DEF ContentInv
  <2>1. mem.data[b][i] = Earlier(b) + Ahead(Size, mem.front[b], i) + 1
    BY <1>1, <1>2 DEF ContentInv
  <2>2. Ahead(Size, mem.front[b], i) \in Nat
    <3>1. PICK k \in 0..(Size - 1) : k = mem.front[b]
      BY <1>2, MemoryTyped
    <3>2. Ahead(Size, k, i) \in 0..(Size - 1)
      BY SlotAfter
    <3> QED
      BY <1>u, <3>1, <3>2
  <2>3. InUse(b) > 0
    BY <1>u, <2>2, SMTT(30)
  <2> QED
    BY <1>e, <2>1, <2>3
<1>8. ProducerInv'
  <2>1. prod.pc \in {"write", "publish", "move"} /\ prod.block # t => prod.block # g
    <3> SUFFICES ASSUME prod.pc \in {"write", "publish", "move"}, prod.block # t, prod.block = g
                 PROVE  FALSE
      OBVIOUS
    <3>1. g = Following(t) /\ g # f
      BY <1>1, <1>2 DEF ProducerInv
    <3>2. Ahead(Count, f, Following(t)) = Ahead(Count, f, t) + 1
      BY <3>1, BlockAfter
    <3>3. Place(g) = Place(t) + 1
      BY <1>1, <3>1, <3>2 DEF Place
    <3> QED
      BY <1>f, <1>g, <1>u, <3>3
  <2>2. Place(t)' > 0 => Place(t) > 0
    BY <1>f, <1>p, <1>u
  <2>3. /\ Following(mem.tailBlock)' = Following(mem.tailBlock) /\ Place(mem.tailBlock)' = Place(t)'
        /\ InUse(mem.tailBlock)' = InUse(t) /\ InUse(prod.block)' = InUse(prod.block)
    BY <1>1, <1>m, ShapeStays DEF Following, Place, InUse
  <2>4. \/ prod.pc = "ahead"
        \/ prod.pc \in {"write", "publish", "move"} /\ prod.block # t
        => (Place(t) > 0 => InUse(t) = Size - 1)
    BY <1>1, <1>2 DEF ProducerInv
  <2> QED
    BY <1>1, <1>2, <1>m, <1>n, <2>1, <2>2, <2>3, <2>4, ShapeStays DEF ProducerInv
<1>9. ConsumerInv'
  <2>1. Ahead(Size, mem'.front[g], mem'.localTail[g]) = InUse(g)
    BY <1>m DEF InUse
  <2> QED
    BY <1>1, <1>2, <1>3, <1>m, <1>r, <1>u, <2>1 DEF ConsumerInv, FrontBlock
<1>10. SignalInv'
  BY <1>1, <1>2, <1>3 DEF SignalInv, Holding, Asleep
<1> QED
  BY <1>5, <1>m, <1>7, <1>c, <1>8, <1>9, <1>10 DEF QueueInv

\* Every step of either thread keeps the invariant.
LEMMA QueueGoesOn ==
  ASSUME shape \in Shapes, QueueInv, QueueNext
  PROVE  shape' \in Shapes /\ QueueInv'
<1>1. CASE Producing
  <2>1. UNCHANGED <<shape, cons>> /\ ProducerThread
    BY <1>1 DEF Producing
  <2>2. QueueInv'
    BY <2>1, StartEnqueueKeeps, ReloadFrontKeeps, LookAheadKeeps, WriteElementKeeps, PublishElementKeeps,
       MoveToBlockKeeps, SignalKeeps DEF ProducerThread
  <2> QED
    BY <2>1, <2>2
<1>2. CASE Consuming
  <2>1. UNCHANGED <<shape, prod>> /\ ConsumerThread
    BY <1>2 DEF Consuming
  <2>2. QueueInv'
    BY <2>1, WaitKeeps, LookKeeps, AdvanceKeeps, ReadElementKeeps, ReleaseSlotKeeps DEF ConsumerThread
  <2> QED
    BY <2>1, <2>2
<1> QED
  BY <1>1, <1>2 DEF QueueNext

\* So does every step that leaves the queue alone.
LEMMA QueueStays ==
  ASSUME shape \in Shapes, QueueInv, UNCHANGED qvars
  PROVE  shape' \in Shapes /\ QueueInv'
<1>1. shape' = shape /\ mem' = mem /\ sem' = sem /\ prod' = prod /\ cons' = cons
  BY DEF qvars
<1>2. QueueTypeOK /\ SlotsInv /\ BlocksInv /\ ContentInv /\ ProducerInv /\ ConsumerInv /\ SignalInv
  BY DEF QueueInv
<1>3. Released' = Released /\ Published' = Published /\ LastBlock' = LastBlock
  BY <1>1 DEF Released, Published, LastBlock
<1>4. QueueTypeOK'
  BY <1>1, <1>2, ShapeStays, MemoryStays DEF QueueTypeOK
<1>5. SlotsInv' /\ BlocksInv' /\ ContentInv'
  BY <1>1, <1>2, <1>3, SlotsKept, BlocksKept, ContentKept
<1>6. ProducerInv' /\ ConsumerInv' /\ SignalInv'
  BY <1>1, <1>2, <1>3, ShapeStays DEF ProducerInv, ConsumerInv, SignalInv, Place, InUse, Following, FrontBlock
<1> QED
  BY <1>1, <1>4, <1>5, <1>6 DEF QueueInv

\* The invariant says what the run checks.
LEMMA QueueInvInOrder ==
  ASSUME shape \in Shapes, QueueInv
  PROVE  QueueInOrder
<1>1. QueueTypeOK /\ ProducerInv /\ ConsumerInv /\ SignalInv
  BY DEF QueueInv
<1>2. cons.pc # "empty"
  BY <1>1 DEF QueueTypeOK, Holding, Asleep
<1>3. SemaphoreInv
  <2>1. sem.count \in Int /\ sem.posts \in {0, 1}
    BY <1>1 DEF QueueTypeOK
  <2> QED
    BY <1>1, <2>1 DEF SemaphoreInv, SignalInv, Asleep
<1> QED
  BY <1>1, <1>2, <1>3 DEF QueueInOrder, QueueTypeOK, ProducerInv, ConsumerInv

(* The queue in the program of the clients: nothing else writes it.        *)
QueueSound == shape \in Shapes /\ QueueInv
LEMMA InitQueue == Init => QueueSound
BY QueueBegins DEF Init, QueueInit, QueueSound

\* A step is one of the queue's threads, or leaves the queue alone.
LEMMA NextQueue == QueueSound /\ [Next]_vars => QueueSound'
<1> SUFFICES ASSUME shape \in Shapes, QueueInv, [Next]_vars PROVE shape' \in Shapes /\ QueueInv'
  BY DEF QueueSound
<1>1. CASE QueueNext
  BY <1>1, QueueGoesOn
<1>2. CASE UNCHANGED qvars
  BY <1>2, QueueStays
<1>3. QueueNext \/ UNCHANGED qvars
  BY DEF Next, vars, Queue, Dashboard, Until, Reader, Server, Helper, Client, Scripted
<1> QED
  BY <1>1, <1>2, <1>3

(* Whatever the size of the blocks, the number of them and the number of   *)
(* elements, and however the two threads interleave: elements come out in  *)
(* the order they went in, each once; one that is signalled is found; the  *)
(* semaphore agrees; and an element is refused only when the queue holds   *)
(* as many as it was built for.                                            *)
THEOREM QueueIsInOrder == Spec => []QueueInOrder
<1>1. QueueSound => QueueInOrder
  BY QueueInvInOrder DEF QueueSound
<1> QED
  BY <1>1, InitQueue, NextQueue, PTL DEF Spec

-----------------------------------------------------------------------------
(* The dashboard client.  While no answer has come too late, the only line *)
(* on its way is the answer to what was sent last.                         *)
DashboardRequests == [ask : Asks, call : 0..MaxCalls]
DashboardAnswers == [ask : Asks, call : 0..MaxCalls, accepted : BOOLEAN, view : RobotViews]
Requests == Seq(DashboardRequests)
Lines == Seq(DashboardAnswers)
LastSaid == DashboardAnswers \cup {[call |-> 0]}
DashboardServer ==
    [up : BOOLEAN, live : BOOLEAN, mode : {"POWER_OFF", "IDLE", "RUNNING"},
     prog : {"STOPPED", "PLAYING", "PAUSED"}, loaded : {"another", "asked_for"},
     doing : Asks, inbox : Requests, out : Lines, said : LastSaid]
DashTypeOK == dash \in DashboardState /\ srv \in DashboardServer

\* What is asked: the request itself, or for the state it is to lead to.
AsksRightly ==
  dash.pc \in {"greeting", "send", "read"} =>
    \/ dash.ask = dash.cmd
    \/ dash.cmd = "connect"
    \/ dash.cmd \in Polled /\ dash.ask = Ask(dash.cmd)
NoLines == srv.inbox = <<>> /\ srv.out = <<>>
Asked == srv.inbox = <<[ask |-> dash.ask, call |-> dash.calls]>> /\ srv.out = <<>>
Told ==
  /\ srv.inbox = <<>> /\ srv.out = <<srv.said>>
  /\ srv.said \in DashboardAnswers
  /\ srv.said.ask = dash.ask /\ srv.said.call = dash.calls
  /\ dash.ask \notin Polled \cup Plain => srv.said.accepted
OneLine ==
  CASE dash.pc = "read" -> (srv.live /\ (Asked \/ Told)) \/ (~srv.live /\ NoLines)
    [] dash.pc = "greeting" -> srv.inbox = <<>> /\ Len(srv.out) <= 1
    [] OTHER -> NoLines
DashInv == DashTypeOK /\ AsksRightly /\ (~srv.live => NoLines) /\ (dash.sound => OneLine)
\* What no answer changes.
SameCall(d, e) ==
  e.sound = d.sound /\ e.cmd = d.cmd /\ e.calls = d.calls /\ e.policy = d.policy

LEMMA EndedIs ==
  ASSUME NEW d \in DashboardState, NEW ok \in BOOLEAN, NEW e, e = Ended(d, ok)
  PROVE  /\ e \in DashboardState /\ SameCall(d, e) /\ e.conn = d.conn
         /\ e.pc \in {"idle", "connect"}
         /\ e.pc = "idle" /\ e.ok => ok \/ d.cmd = "is_in_remote_control"
         /\ ok => e.pc = "idle" /\ e.ok
<1>1. PICK place : place = IF d.started \/ ok THEN "idle" ELSE "connect"
  OBVIOUS
<1>2. PICK told \in BOOLEAN : told = (ok \/ d.cmd = "is_in_remote_control")
  BY Zenon
<1>3. PICK started \in BOOLEAN : started = (d.started \/ ok)
  BY Zenon
<1>4. e = [d EXCEPT !.pc = place, !.ok = told, !.started = started]
  BY <1>1, <1>2, <1>3 DEF Ended
<1>5. place \in {"idle", "connect"} /\ (ok => place = "idle" /\ told)
  BY <1>1, <1>2
<1>6. told => ok \/ d.cmd = "is_in_remote_control"
  BY <1>2
<1> HIDE <1>1, <1>2, <1>3
<1>7. e \in DashboardState /\ e.pc = place /\ e.ok = told
      /\ e.sound = d.sound /\ e.cmd = d.cmd /\ e.calls = d.calls
      /\ e.conn = d.conn /\ e.policy = d.policy
  BY <1>4, <1>5, ZenonT(30) DEF DashboardState
<1> QED
  BY <1>5, <1>6, <1>7 DEF SameCall

LEMMA ThrownIs ==
  ASSUME NEW d \in DashboardState, NEW e, e = Thrown(d)
  PROVE  /\ e \in DashboardState /\ SameCall(d, e) /\ e.conn = d.conn
         /\ e.pc \in {"idle", "dead"} /\ ~e.ok
  BY ZenonT(30) DEF Thrown, DashboardState, SameCall

LEMMA AnsweredIs ==
  ASSUME NEW d \in DashboardState, NEW a \in DashboardAnswers, NEW e, e = Answered(d, a)
  PROVE  /\ e \in DashboardState /\ SameCall(d, e) /\ e.conn = d.conn
         /\ e.pc = "idle" /\ e.ok /\ e.data = a.view
<1>1. PICK f : f = Ended(d, TRUE)
  BY Zenon
<1>2. f \in DashboardState /\ SameCall(d, f) /\ f.conn = d.conn /\ f.pc = "idle" /\ f.ok
  BY <1>1, EndedIs, Zenon
<1>3. PICK view \in RobotViews : view = a.view
  BY DEF DashboardAnswers
<1>4. e = [f EXCEPT !.data = view]
  BY <1>1, <1>3 DEF Answered
<1> HIDE <1>1, <1>3
<1>5. /\ e \in DashboardState /\ SameCall(d, e) /\ e.conn = d.conn
      /\ e.pc = "idle" /\ e.ok /\ e.data = view
  BY <1>2, <1>4, ZenonT(30) DEF DashboardState, SameCall
<1> QED
  BY <1>3, <1>5

\* What becomes of the call when its request is answered ...
LEMMA RequestAnsweredIs ==
  ASSUME NEW d \in DashboardState, NEW a \in DashboardAnswers, NEW e, e = RequestAnswered(d, a)
  PROVE  /\ e \in DashboardState /\ SameCall(d, e)
         /\ e.pc \in {"idle", "connect", "send"}
         /\ e.pc = "send" => d.cmd \in Polled /\ e.ask = Ask(d.cmd)
         /\ e.pc = "idle" /\ e.ok /\ d.cmd \notin {"connect", "is_in_remote_control"} =>
              a.accepted /\ d.cmd \notin Polled /\ e.data = a.view
<1>1. CASE a.ask # d.ask \/ ~a.accepted
  <2>1. e = Ended(d, FALSE)
    BY <1>1, Zenon DEF RequestAnswered
  <2>2. /\ e \in DashboardState /\ SameCall(d, e) /\ e.pc \in {"idle", "connect"}
        /\ e.pc = "idle" /\ e.ok => d.cmd = "is_in_remote_control"
    BY <2>1, EndedIs, Zenon
  <2> QED
    BY <2>2
<1>2. CASE a.ask = d.ask /\ a.accepted /\ d.cmd = "connect"
  <2>1. PICK f : f = Ended(d, TRUE)
    BY Zenon
  <2>2. f \in DashboardState /\ SameCall(d, f) /\ f.pc = "idle"
    BY <2>1, EndedIs, Zenon
  <2> DEFINE known == [f EXCEPT !.version = "known"]
  <2> HIDE DEF known
  <2>3. d.cmd \notin Polled
    BY <1>2 DEF Polled, ModeCommands, SafetyCommands, ProgramCommands
  <2>4. e = known
    BY <1>2, <2>1, <2>3, Zenon DEF RequestAnswered, known
  <2>5. e \in DashboardState /\ SameCall(d, e) /\ e.pc = "idle"
    BY <2>2, <2>4, ZenonT(30) DEF DashboardState, SameCall, known
  <2> QED
    BY <1>2, <2>5
<1>3. CASE a.ask = d.ask /\ a.accepted /\ d.cmd # "connect" /\ d.cmd \in Polled
  <2>1. PICK ask : ask = Ask(d.cmd)
    OBVIOUS
  <2>2. e = [d EXCEPT !.pc = "send", !.ask = ask]
    BY <1>3, <2>1 DEF RequestAnswered
  <2>3. ask \in Asks
    <3>1. ask \in Queries
      BY <2>1 DEF Ask, Queries, StateQueries
    <3> QED
      BY <3>1, Zenon DEF Asks, DashboardCommands, InG5
  <2>4. e \in DashboardState /\ SameCall(d, e) /\ e.pc = "send" /\ e.ask = ask
    BY <2>2, <2>3, ZenonT(30) DEF DashboardState, SameCall
  <2> QED
    BY <1>3, <2>1, <2>4
<1>4. CASE a.ask = d.ask /\ a.accepted /\ d.cmd # "connect" /\ d.cmd \notin Polled
  <2>1. e = Answered(d, a)
    BY <1>4 DEF RequestAnswered
  <2>2. e \in DashboardState /\ SameCall(d, e) /\ e.pc = "idle" /\ e.data = a.view
    BY <2>1, AnsweredIs
  <2> QED
    BY <1>4, <2>2
<1> QED
  BY <1>1, <1>2, <1>3, <1>4

\* ... when the state is told that it is to lead to, or the questions are used up.
LEMMA OutOfTimeIs ==
  ASSUME NEW d \in DashboardState, NEW e, e = OutOfTime(d)
  PROVE  /\ e \in DashboardState /\ SameCall(d, e)
         /\ e.pc \in {"idle", "connect", "send"}
         /\ e.pc = "send" => e.ask = d.cmd
         /\ e.pc = "idle" /\ e.ok /\ d.cmd # "is_in_remote_control" => d.cmd = "stop"
<1>1. CASE d.cmd = "stop"
  <2>1. e = Ended(d, TRUE)
    BY <1>1 DEF OutOfTime
  <2>2. e \in DashboardState /\ SameCall(d, e) /\ e.pc = "idle"
    BY <2>1, EndedIs, Zenon
  <2> QED
    BY <1>1, <2>2
<1>2. CASE d.cmd = "power_on" /\ d.tries + 1 < MaxTries
  <2>1. e = [d EXCEPT !.pc = "send", !.ask = d.cmd, !.polls = 0, !.tries = @ + 1]
    BY <1>2 DEF OutOfTime
  <2>2. PICK n : n = d.tries + 1
    OBVIOUS
  <2>3. MaxTries \in Nat /\ MaxPolls \in Nat \ {0} /\ d.tries \in 0..(MaxTries - 1) /\ d.cmd \in DashboardCommands
    BY DashboardAssumption DEF DashboardState
  <2>4. n \in 0..(MaxTries - 1) /\ 0 \in 0..(MaxPolls - 1)
    BY <1>2, <2>2, <2>3
  <2>5. PICK cmd \in Asks : cmd = d.cmd
    BY <2>3, Zenon DEF Asks
  <2>6. PICK f : f = [d EXCEPT !.pc = "send", !.ask = cmd]
    OBVIOUS
  <2>7. e = [f EXCEPT !.polls = 0, !.tries = n]
    BY <2>1, <2>2, <2>5, <2>6, Zenon
  <2> HIDE <2>5
  <2>8. f \in DashboardState /\ SameCall(d, f) /\ f.pc = "send" /\ f.ask = cmd
    BY <2>6, Zenon DEF DashboardState, SameCall
  <2> HIDE <2>6
  <2>9. e \in DashboardState /\ SameCall(f, e) /\ e.pc = "send" /\ e.ask = cmd
    BY <2>4, <2>7, <2>8, ZenonT(30) DEF DashboardState, SameCall
  <2> QED
    BY <2>5, <2>8, <2>9 DEF SameCall
<1>3. CASE d.cmd # "stop" /\ ~(d.cmd = "power_on" /\ d.tries + 1 < MaxTries)
  <2>1. e = Ended(d, FALSE)
    BY <1>3, Zenon DEF OutOfTime
  <2>2. /\ e \in DashboardState /\ SameCall(d, e) /\ e.pc \in {"idle", "connect"}
        /\ e.pc = "idle" /\ e.ok => d.cmd = "is_in_remote_control"
    BY <2>1, EndedIs, Zenon
  <2> QED
    BY <2>2
<1> QED
  BY <1>1, <1>2, <1>3

PollEnds(d, a, e) ==
  /\ e \in DashboardState /\ SameCall(d, e)
  /\ e.pc \in {"idle", "connect", "send"}
  /\ e.pc = "send" => e.ask = d.ask \/ e.ask = d.cmd
  /\ e.pc = "idle" /\ e.ok /\ d.cmd # "is_in_remote_control" =>
       d.cmd = "stop" \/ (a.ask = d.ask /\ Wanted(d.cmd, a.view) /\ e.data = a.view)
LEMMA PollAnsweredIs ==
  ASSUME NEW d \in DashboardState, NEW a \in DashboardAnswers, NEW e, e = PollAnswered(d, a)
  PROVE  PollEnds(d, a, e)
<1>1. CASE a.ask = d.ask /\ Wanted(d.cmd, a.view)
  <2>1. e = Answered(d, a)
    BY <1>1, Zenon DEF PollAnswered
  <2>2. e \in DashboardState /\ SameCall(d, e) /\ e.pc = "idle" /\ e.data = a.view
    BY <2>1, AnsweredIs
  <2> QED
    BY <1>1, <2>2 DEF PollEnds
<1>2. CASE ~(a.ask = d.ask /\ Wanted(d.cmd, a.view)) /\ d.polls + 1 < MaxPolls
  <2>1. e = [d EXCEPT !.pc = "send", !.polls = @ + 1]
    BY <1>2 DEF PollAnswered
  <2>2. PICK n : n = d.polls + 1
    OBVIOUS
  <2>3. MaxPolls \in Nat /\ d.polls \in 0..(MaxPolls - 1)
    BY DashboardAssumption DEF DashboardState
  <2>4. n \in 0..(MaxPolls - 1)
    BY <1>2, <2>2, <2>3
  <2>5. e = [d EXCEPT !.pc = "send", !.polls = n]
    BY <2>1, <2>2
  <2>6. e \in DashboardState /\ SameCall(d, e) /\ e.pc = "send" /\ e.ask = d.ask
    BY <2>4, <2>5, ZenonT(30) DEF DashboardState, SameCall
  <2> QED
    BY <2>6 DEF PollEnds
<1>3. CASE ~(a.ask = d.ask /\ Wanted(d.cmd, a.view)) /\ ~(d.polls + 1 < MaxPolls)
  <2>1. e = OutOfTime(d)
    BY <1>3 DEF PollAnswered
  <2>2. /\ e \in DashboardState /\ SameCall(d, e) /\ e.pc \in {"idle", "connect", "send"}
        /\ e.pc = "send" => e.ask = d.cmd
        /\ e.pc = "idle" /\ e.ok /\ d.cmd # "is_in_remote_control" => d.cmd = "stop"
    BY <2>1, OutOfTimeIs
  <2> QED
    BY <2>2 DEF PollEnds
<1> QED
  BY <1>1, <1>2, <1>3

-----------------------------------------------------------------------------
\* The robot and its server.
LEMMA SaidIs ==
  ASSUME srv \in DashboardServer, NEW req \in DashboardRequests, NEW accepted \in BOOLEAN
  PROVE  /\ Said(req, accepted) \in DashboardAnswers
         /\ Said(req, accepted).ask = req.ask /\ Said(req, accepted).call = req.call
         /\ Said(req, accepted).accepted = accepted /\ Said(req, accepted).view = View(srv)
  BY DEF Said, View, DashboardServer, DashboardRequests, DashboardAnswers, RobotViews

LEMMA EffectIs ==
  ASSUME NEW s \in DashboardServer, NEW cmd, ~s.live => s.inbox = <<>> /\ s.out = <<>>,
         NEW e, e = Effect(s, cmd)
  PROVE  /\ e \in DashboardServer /\ e.said = s.said
         /\ ~e.live => e.inbox = <<>> /\ e.out = <<>>
         /\ e.live => s.live /\ e.inbox = s.inbox /\ e.out = s.out
<1>1. <<>> \in Requests /\ <<>> \in Lines
  BY DEF Requests, Lines
<1>2. \/ e = [s EXCEPT !.mode = "POWER_OFF", !.prog = "STOPPED"]
      \/ e = [s EXCEPT !.mode = "IDLE"]
      \/ e = [s EXCEPT !.mode = "RUNNING"]
      \/ e = [s EXCEPT !.prog = "STOPPED", !.loaded = "asked_for"]
      \/ e = [s EXCEPT !.prog = "PLAYING"]
      \/ e = [s EXCEPT !.prog = "PAUSED"]
      \/ e = [s EXCEPT !.prog = "STOPPED"]
      \/ e = [s EXCEPT !.live = FALSE, !.up = FALSE, !.inbox = <<>>, !.out = <<>>]
      \/ e = s
  BY DEF Effect
<1>3. CASE e = [s EXCEPT !.mode = "POWER_OFF", !.prog = "STOPPED"]
  BY <1>3, Zenon DEF DashboardServer
<1>4. CASE e = [s EXCEPT !.mode = "IDLE"]
  BY <1>4 DEF DashboardServer
<1>5. CASE e = [s EXCEPT !.mode = "RUNNING"]
  BY <1>5 DEF DashboardServer
<1>6. CASE e = [s EXCEPT !.prog = "STOPPED", !.loaded = "asked_for"]
  BY <1>6, Zenon DEF DashboardServer
<1>7. CASE e = [s EXCEPT !.prog = "PLAYING"]
  BY <1>7 DEF DashboardServer
<1>8. CASE e = [s EXCEPT !.prog = "PAUSED"]
  BY <1>8 DEF DashboardServer
<1>9. CASE e = [s EXCEPT !.prog = "STOPPED"]
  BY <1>9 DEF DashboardServer
<1>10. CASE e = [s EXCEPT !.live = FALSE, !.up = FALSE, !.inbox = <<>>, !.out = <<>>]
  BY <1>1, <1>10, Zenon DEF DashboardServer
<1>11. CASE e = s
  BY <1>11
<1> QED
  BY <1>2, <1>3, <1>4, <1>5, <1>6, <1>7, <1>8, <1>9, <1>10, <1>11

\* A line that is lost with the connection; the client's place is what it was.
LEMMA LinesKept ==
  ASSUME DashInv, DashTypeOK', ~srv'.live => NoLines',
         dash'.pc = dash.pc /\ dash'.cmd = dash.cmd /\ dash'.ask = dash.ask
           /\ dash'.calls = dash.calls /\ dash'.sound = dash.sound,
         srv'.live => srv.live /\ srv'.inbox = srv.inbox /\ srv'.out = srv.out,
         srv'.said = srv.said
  PROVE  DashInv'
<1>1. AsksRightly'
  BY DEF DashInv, AsksRightly
<1>2. ASSUME dash'.sound PROVE OneLine'
  <2>1. OneLine
    BY <1>2 DEF DashInv
  <2>2. CASE srv'.live
    <3>1. NoLines' <=> NoLines
      BY <2>2 DEF NoLines
    <3>2. (Asked' <=> Asked) /\ (Told' <=> Told)
      BY <2>2 DEF Asked, Told
    <3> QED
      BY <2>1, <2>2, <3>1, <3>2 DEF OneLine
  <2>3. CASE ~srv'.live
    <3>1. srv'.inbox = <<>> /\ srv'.out = <<>> /\ Len(<<>>) = 0
      BY <2>3 DEF NoLines
    <3> QED
      BY <2>3, <3>1 DEF OneLine, NoLines
  <2> QED
    BY <2>2, <2>3
<1> QED
  BY <1>1, <1>2 DEF DashInv

LEMMA TypeOf ==
  ASSUME DashInv
  PROVE  /\ dash \in DashboardState /\ srv \in DashboardServer
         /\ ~srv.live => srv.inbox = <<>> /\ srv.out = <<>>
         /\ dash.cmd \in DashboardCommands /\ dash.ask \in Asks /\ dash.calls \in 0..MaxCalls
         /\ dash.sound \in BOOLEAN
         /\ srv.inbox \in Seq(DashboardRequests) /\ srv.out \in Seq(DashboardAnswers)
  BY DEF DashInv, DashTypeOK, DashboardState, DashboardServer, NoLines, Requests, Lines

LEMMA CommandsAreAsked ==
  /\ DashboardCommands \subseteq Asks /\ "" \in Asks /\ "greeting" \in Asks
  /\ "connect" \in DashboardCommands /\ "PolyscopeVersion" \in Asks
<1>1. "PolyscopeVersion" \in Queries
  BY DEF Queries, ModelQueries
<1> QED
  BY <1>1, Zenon DEF Asks, DashboardCommands, InG5

\* A step that does not end a call keeps the property.
LEMMA NoEnd ==
  ASSUME dash' \in DashboardState,
         dash'.pc # "idle" \/ ~dash'.ok \/ dash.pc \in {"idle", "connect", "greeting"} \/ dash'.pc = dash.pc
  PROVE  OkStep
  BY DEF OkStep

LEMMA DoingIs ==
  ASSUME srv \in DashboardServer, NEW cmd \in Asks, NEW accepted
  PROVE  Doing(cmd, accepted) \in Asks
<1>1. srv.doing \in Asks
  BY DEF DashboardServer
<1> QED
  BY <1>1 DEF Doing

LEMMA AnswerRequestKeeps ==
  ASSUME DashInv, AnswerRequest
  PROVE  DashInv' /\ OkStep
<1>1. /\ dash \in DashboardState /\ srv \in DashboardServer /\ dash.sound \in BOOLEAN
      /\ srv.inbox \in Seq(DashboardRequests) /\ srv.out \in Seq(DashboardAnswers)
  BY TypeOf
<1>2. srv.live /\ srv.inbox # <<>> /\ dash' = dash
  BY DEF AnswerRequest
<1>3. PICK req : req = Head(srv.inbox)
  OBVIOUS
<1>4. req \in DashboardRequests /\ req.ask \in Asks
  <2>1. req \in DashboardRequests
    BY <1>1, <1>2, <1>3, HeadTailProperties
  <2> QED
    BY <2>1 DEF DashboardRequests
<1>5. PICK accepted \in BOOLEAN :
        /\ req.ask \notin Polled \cup Plain => accepted
        /\ srv' = [srv EXCEPT !.inbox = Tail(@), !.out = Append(@, Said(req, accepted)), !.said = Said(req, accepted),
                              !.doing = Doing(Said(req, accepted).ask, accepted)]
  <2>1. PICK S : S = IF req.ask \in Polled \cup Plain THEN BOOLEAN ELSE {TRUE}
    BY Zenon
  <2>2. PICK accepted \in S :
        srv' = [srv EXCEPT !.inbox = Tail(@), !.out = Append(@, Said(req, accepted)), !.said = Said(req, accepted),
                              !.doing = Doing(Said(req, accepted).ask, accepted)]
    BY <1>3, <2>1, Zenon DEF AnswerRequest
  <2>3. accepted \in BOOLEAN /\ (req.ask \notin Polled \cup Plain => accepted)
    BY <2>1, Zenon
  <2> QED
    BY <2>2, <2>3, Zenon
<1>6. PICK a : a = Said(req, accepted)
  OBVIOUS
<1>7. a \in DashboardAnswers /\ a.ask = req.ask /\ a.call = req.call /\ a.accepted = accepted
  BY <1>1, <1>4, <1>6, SaidIs
<1>8. PICK doing \in Asks : doing = Doing(a.ask, accepted)
  BY <1>1, <1>4, <1>7, DoingIs
<1>9. PICK inbox : inbox = Tail(srv.inbox)
  BY Zenon
<1>10. PICK out : out = Append(srv.out, a)
  BY Zenon
<1>11. inbox \in Requests /\ out \in Lines
  BY <1>1, <1>2, <1>7, <1>9, <1>10 DEF Requests, Lines
<1>12. srv' = [srv EXCEPT !.inbox = inbox, !.out = out, !.said = a, !.doing = doing]
  BY <1>5, <1>6, <1>8, <1>9, <1>10, Zenon
<1>13. a \in LastSaid
  BY <1>7 DEF LastSaid
<1>14. /\ srv' \in DashboardServer /\ srv'.live = srv.live /\ srv'.said = a
       /\ srv'.inbox = inbox /\ srv'.out = out
  BY <1>1, <1>8, <1>11, <1>12, <1>13, Zenon DEF DashboardServer
<1>15. DashTypeOK' /\ AsksRightly'
  BY <1>1, <1>2, <1>14 DEF DashInv, DashTypeOK, AsksRightly
<1>16. ASSUME dash.sound PROVE OneLine'
  <2>1. Asked /\ dash.pc = "read"
    BY <1>2, <1>16 DEF DashInv, OneLine, NoLines, Told
  <2>2. srv.inbox = <<[ask |-> dash.ask, call |-> dash.calls]>> /\ srv.out = <<>>
    BY <2>1 DEF Asked
  <2>3. req = [ask |-> dash.ask, call |-> dash.calls]
    BY <2>2, <1>3
  <2>4. inbox = <<>> /\ out = <<a>>
    BY <2>2, <1>1, <1>7, <1>9, <1>10
  <2>5. a.ask = dash.ask /\ a.call = dash.calls /\ (dash.ask \notin Polled \cup Plain => a.accepted)
    BY <2>3, <1>5, <1>7
  <2>6. Told'
    BY <2>4, <2>5, <1>2, <1>7, <1>14 DEF Told
  <2> QED
    BY <2>1, <2>6, <1>2, <1>14 DEF OneLine
<1>17. DashInv'
  BY <1>2, <1>14, <1>15, <1>16 DEF DashInv
<1> QED
  BY <1>1, <1>2, <1>17, NoEnd

LEMMA RobotActsKeeps ==
  ASSUME DashInv, RobotActs
  PROVE  DashInv' /\ OkStep
<1>1. dash \in DashboardState /\ srv \in DashboardServer /\ (~srv.live => srv.inbox = <<>> /\ srv.out = <<>>)
  BY TypeOf
<1>2. dash' = dash
  BY Zenon DEF RobotActs
<1>3. PICK e : (e = srv \/ e = Effect(srv, srv.doing)) /\ srv' = [e EXCEPT !.doing = ""]
  BY Zenon DEF RobotActs
<1>4. /\ e \in DashboardServer /\ e.said = srv.said
      /\ ~e.live => e.inbox = <<>> /\ e.out = <<>>
      /\ e.live => srv.live /\ e.inbox = srv.inbox /\ e.out = srv.out
  <2>1. CASE e = srv
    BY <1>1, <2>1
  <2>2. CASE e = Effect(srv, srv.doing)
    BY <1>1, <2>2, EffectIs
  <2> QED
    BY <1>3, <2>1, <2>2, Zenon
<1>5. /\ srv' \in DashboardServer /\ srv'.said = e.said /\ srv'.live = e.live
      /\ srv'.inbox = e.inbox /\ srv'.out = e.out
  <2>1. PICK none \in Asks : none = ""
    BY CommandsAreAsked, Zenon
  <2>2. srv' = [e EXCEPT !.doing = none]
    BY <1>3, <2>1, Zenon
  <2> QED
    BY <1>4, <2>2 DEF DashboardServer
<1>6. DashTypeOK' /\ (~srv'.live => NoLines')
  BY <1>1, <1>2, <1>4, <1>5 DEF DashTypeOK, NoLines
<1> QED
  BY <1>1, <1>2, <1>4, <1>5, <1>6, NoEnd, LinesKept

LEMMA ServerStartsKeeps ==
  ASSUME DashInv, ServerStarts
  PROVE  DashInv' /\ OkStep
<1>1. dash \in DashboardState /\ srv \in DashboardServer /\ (~srv.live => srv.inbox = <<>> /\ srv.out = <<>>)
  BY TypeOf
<1>2. dash' = dash
  BY DEF ServerStarts
<1>3. /\ srv' \in DashboardServer /\ srv'.said = srv.said /\ srv'.live = srv.live
      /\ srv'.inbox = srv.inbox /\ srv'.out = srv.out
  BY <1>1, Zenon DEF DashboardServer, ServerStarts
<1>4. DashTypeOK' /\ (~srv'.live => NoLines')
  BY <1>1, <1>2, <1>3 DEF DashTypeOK, NoLines
<1> QED
  BY <1>1, <1>2, <1>3, <1>4, NoEnd, LinesKept

LEMMA TroubleKeeps ==
  ASSUME DashInv, Trouble
  PROVE  DashInv' /\ OkStep
<1>1. dash \in DashboardState /\ srv \in DashboardServer /\ (~srv.live => srv.inbox = <<>> /\ srv.out = <<>>)
  BY TypeOf
<1>2. PICK n : n = dash.trouble + 1
  OBVIOUS
<1>3. n \in 0..MaxTrouble
  <2>1. dash.trouble \in 0..MaxTrouble /\ MaxTrouble \in Nat
    BY <1>1, DashboardAssumption DEF DashboardState
  <2>2. dash.trouble < MaxTrouble
    BY Zenon DEF Trouble
  <2> QED
    BY <1>2, <2>1, <2>2
<1>4. dash' = [dash EXCEPT !.trouble = n]
  BY <1>2 DEF Trouble
<1>5. /\ dash' \in DashboardState /\ dash'.pc = dash.pc /\ dash'.cmd = dash.cmd /\ dash'.ask = dash.ask
      /\ dash'.calls = dash.calls /\ dash'.sound = dash.sound
  BY <1>1, <1>3, <1>4, Zenon DEF DashboardState
<1>6. /\ srv' \in DashboardServer /\ srv'.said = srv.said
      /\ ~srv'.live => srv'.inbox = <<>> /\ srv'.out = <<>>
      /\ srv'.live => srv.live /\ srv'.inbox = srv.inbox /\ srv'.out = srv.out
  <2>1. CASE srv' = [srv EXCEPT !.live = FALSE, !.inbox = <<>>, !.out = <<>>]
    <3>1. <<>> \in Requests /\ <<>> \in Lines
      BY DEF Requests, Lines
    <3> QED
      BY <1>1, <2>1, <3>1, Zenon DEF DashboardServer
  <2>2. CASE srv' = Effect(srv, "power_off")
    BY <1>1, <2>2, EffectIs
  <2>3. CASE srv' = Effect(srv, "stop")
    BY <1>1, <2>3, EffectIs
  <2> QED
    BY <2>1, <2>2, <2>3 DEF Trouble
<1>7. DashTypeOK' /\ (~srv'.live => NoLines')
  BY <1>5, <1>6 DEF DashTypeOK, NoLines
<1> QED
  BY <1>5, <1>6, <1>7, NoEnd, LinesKept

LEMMA CallServiceKeeps ==
  ASSUME DashInv, NEW cmd \in Services, CallService(cmd)
  PROVE  DashInv' /\ OkStep
<1>1. /\ dash \in DashboardState /\ srv \in DashboardServer /\ dash.sound \in BOOLEAN
  BY TypeOf
<1>2. dash.pc = "idle" /\ dash.calls < MaxCalls /\ srv' = srv
  BY DEF CallService
<1>3. PICK d : d = [dash EXCEPT !.calls = @ + 1, !.cmd = cmd, !.ask = cmd, !.polls = 0, !.tries = 0]
  OBVIOUS
<1>4. d \in DashboardState /\ d.cmd = cmd /\ d.ask = cmd /\ d.sound = dash.sound
  <2>1. PICK n : n = dash.calls + 1
    OBVIOUS
  <2>2. n \in 0..MaxCalls /\ 0 \in 0..(MaxPolls - 1) /\ 0 \in 0..(MaxTries - 1)
    BY <1>1, <1>2, <2>1, DashboardAssumption DEF DashboardState
  <2>3. cmd \in DashboardCommands /\ cmd \in Asks
    BY DashboardAssumption, CommandsAreAsked, Zenon
  <2>4. PICK f : f = [dash EXCEPT !.calls = n, !.cmd = cmd, !.ask = cmd]
    OBVIOUS
  <2>5. d = [f EXCEPT !.polls = 0, !.tries = 0]
    BY <1>3, <2>1, <2>4, Zenon
  <2>6. f \in DashboardState /\ f.cmd = cmd /\ f.ask = cmd /\ f.sound = dash.sound
    BY <1>1, <2>2, <2>3, <2>4, Zenon DEF DashboardState
  <2> HIDE <2>4
  <2> QED
    BY <2>2, <2>5, <2>6, Zenon DEF DashboardState
<1>5. \/ dash' = [d EXCEPT !.pc = "connect"]
      \/ dash' = Ended(d, TRUE)
      \/ dash' = Thrown(d)
      \/ dash' = [d EXCEPT !.pc = "send"]
      \/ dash' = [d EXCEPT !.pc = "http"]
  BY <1>3, Zenon DEF CallService
<1>6. /\ dash' \in DashboardState /\ dash'.pc \in {"connect", "idle", "dead", "send", "http"}
      /\ dash'.sound = d.sound /\ dash'.cmd = d.cmd /\ (dash'.pc = "send" => dash'.ask = d.ask)
  <2>1. CASE dash' = [d EXCEPT !.pc = "connect"]
    BY <1>4, <2>1 DEF DashboardState
  <2>2. CASE dash' = Ended(d, TRUE)
    <3>1. PICK e : e = Ended(d, TRUE)
      BY Zenon
    <3>2. e \in DashboardState /\ SameCall(d, e) /\ e.pc = "idle"
      BY <1>4, <3>1, EndedIs, Zenon
    <3>3. dash' = e
      BY <2>2, <3>1
    <3> QED
      BY <3>2, <3>3 DEF SameCall
  <2>3. CASE dash' = Thrown(d)
    BY <1>4, <2>3, ThrownIs DEF SameCall
  <2>4. CASE dash' = [d EXCEPT !.pc = "send"]
    BY <1>4, <2>4 DEF DashboardState
  <2>5. CASE dash' = [d EXCEPT !.pc = "http"]
    BY <1>4, <2>5 DEF DashboardState
  <2> QED
    BY <1>5, <2>1, <2>2, <2>3, <2>4, <2>5, Zenon
<1>7. DashTypeOK' /\ AsksRightly'
  BY <1>1, <1>2, <1>4, <1>6 DEF DashTypeOK, AsksRightly
<1>8. ASSUME dash.sound PROVE OneLine'
  <2>1. NoLines
    BY <1>2, <1>8 DEF DashInv, OneLine
  <2>2. NoLines'
    BY <1>2, <2>1 DEF NoLines
  <2> QED
    BY <1>6, <2>2 DEF OneLine
<1>9. DashInv'
  BY <1>2, <1>4, <1>6, <1>7, <1>8 DEF DashInv, NoLines
<1> QED
  BY <1>2, <1>6, <1>9, NoEnd

\* The line that is sent first is not waited for again.
LEMMA ConnectKeeps ==
  ASSUME DashInv, Connect
  PROVE  DashInv' /\ OkStep
<1>1. dash \in DashboardState /\ srv \in DashboardServer /\ dash.sound \in BOOLEAN
  BY TypeOf
<1>2. dash.pc = "connect"
  BY DEF Connect
<1>3. CASE dash' = Ended(dash, FALSE) /\ srv' = srv
  <2>1. dash' \in DashboardState /\ dash'.pc \in {"idle", "connect"} /\ dash'.sound = dash.sound
    <3>1. PICK e : e = Ended(dash, FALSE)
      BY Zenon
    <3>2. e \in DashboardState /\ SameCall(dash, e) /\ e.pc \in {"idle", "connect"}
      BY <1>1, <3>1, EndedIs, Zenon
    <3>3. dash' = e
      BY <1>3, <3>1
    <3> QED
      BY <3>2, <3>3 DEF SameCall
  <2>2. DashTypeOK' /\ AsksRightly'
    BY <1>1, <1>3, <2>1, Zenon DEF DashTypeOK, AsksRightly
  <2>3. ASSUME dash.sound PROVE OneLine'
    <3>1. NoLines
      BY <1>2, <2>3 DEF DashInv, OneLine
    <3>2. NoLines'
      BY <1>3, <3>1 DEF NoLines
    <3> QED
      BY <2>1, <3>2 DEF OneLine
  <2> QED
    BY <1>2, <1>3, <2>1, <2>2, <2>3, NoEnd, Zenon DEF DashInv, NoLines
<1>4. CASE /\ dash' = [dash EXCEPT !.conn = "connected", !.sound = TRUE, !.pc = "greeting",
                                   !.cmd = "connect", !.ask = "PolyscopeVersion"]
           /\ srv' = [srv EXCEPT !.live = TRUE, !.inbox = <<>>,
                                 !.out = <<Said([ask |-> "greeting", call |-> 0], TRUE)>>]
  <2>1. PICK ask \in Asks : ask = "PolyscopeVersion"
    BY CommandsAreAsked, Zenon
  <2>2. PICK cmd \in DashboardCommands : cmd = "connect"
    BY CommandsAreAsked, Zenon
  <2>3. dash' = [dash EXCEPT !.conn = "connected", !.sound = TRUE, !.pc = "greeting", !.cmd = cmd, !.ask = ask]
    BY <1>4, <2>1, <2>2, Zenon
  <2>4. /\ dash' \in DashboardState /\ dash'.pc = "greeting" /\ dash'.cmd = cmd
    <3> HIDE <2>1, <2>2
    <3> QED
      BY <1>1, <2>3, Zenon DEF DashboardState
  <2>5. PICK a : a = Said([ask |-> "greeting", call |-> 0], TRUE)
    BY Zenon
  <2>6. a \in DashboardAnswers
    <3>1. PICK req : req = [ask |-> "greeting", call |-> 0]
      BY Zenon
    <3>2. req \in DashboardRequests
      <4>1. PICK word \in Asks : word = "greeting"
        BY CommandsAreAsked, Zenon
      <4>2. req = [ask |-> word, call |-> 0] /\ 0 \in 0..MaxCalls
        BY <3>1, <4>1, DashboardAssumption
      <4> QED
        BY <4>2 DEF DashboardRequests
    <3> QED
      BY <1>1, <2>5, <3>1, <3>2, SaidIs, Zenon
  <2>7. PICK out : out = <<a>>
    BY Zenon
  <2>8. out \in Lines /\ <<>> \in Requests /\ Len(out) = 1
    BY <2>6, <2>7 DEF Lines, Requests
  <2>9. srv' = [srv EXCEPT !.live = TRUE, !.inbox = <<>>, !.out = out]
    BY <1>4, <2>5, <2>7, Zenon
  <2>10. srv' \in DashboardServer /\ srv'.live /\ srv'.inbox = <<>> /\ srv'.out = out
    <3> HIDE <2>7
    <3> QED
      BY <1>1, <2>8, <2>9, Zenon DEF DashboardServer
  <2>11. DashTypeOK' /\ AsksRightly'
    BY <2>2, <2>4, <2>10 DEF DashTypeOK, AsksRightly
  <2>12. OneLine'
    <3>1. srv'.inbox = <<>> /\ srv'.out = out
      BY <2>10
    <3>2. Len(out) <= 1
      BY <2>8
    <3>3. srv'.inbox = <<>> /\ Len(srv'.out) <= 1
      BY <3>1, <3>2, Zenon
    <3> QED
      BY <2>4, <3>3, Zenon DEF OneLine
  <2> QED
    BY <1>2, <2>4, <2>10, <2>11, <2>12, NoEnd DEF DashInv
<1> QED
  BY <1>3, <1>4, Zenon DEF Connect

LEMMA ReadGreetingKeeps ==
  ASSUME DashInv, ReadGreeting
  PROVE  DashInv' /\ OkStep
<1>1. /\ dash \in DashboardState /\ srv \in DashboardServer /\ dash.sound \in BOOLEAN
      /\ srv.inbox \in Seq(DashboardRequests) /\ srv.out \in Seq(DashboardAnswers)
  BY TypeOf
<1>2. dash.pc = "greeting"
  BY DEF ReadGreeting
<1>3. CASE srv.out # <<>> /\ srv' = [srv EXCEPT !.out = Tail(@)] /\ dash' = [dash EXCEPT !.pc = "send"]
  <2>1. PICK out : out = Tail(srv.out)
    BY Zenon
  <2>2. out \in Lines
    BY <1>1, <1>3, <2>1, HeadTailProperties DEF Lines
  <2>3. srv' = [srv EXCEPT !.out = out]
    BY <1>3, <2>1
  <2>4. srv' \in DashboardServer /\ srv'.live = srv.live /\ srv'.inbox = srv.inbox /\ srv'.out = out
    BY <1>1, <2>2, <2>3, Zenon DEF DashboardServer
  <2>5. /\ dash' \in DashboardState /\ dash'.pc = "send" /\ dash'.cmd = dash.cmd
        /\ dash'.ask = dash.ask /\ dash'.sound = dash.sound
    BY <1>1, <1>3, Zenon DEF DashboardState
  <2>6. DashTypeOK' /\ AsksRightly'
    BY <1>2, <2>4, <2>5 DEF DashTypeOK, AsksRightly, DashInv
  <2>7. ASSUME dash.sound PROVE OneLine'
    <3>1. srv.inbox = <<>> /\ Len(srv.out) <= 1
      BY <1>2, <2>7 DEF DashInv, OneLine
    <3>2. out = <<>>
      BY <1>1, <1>3, <2>1, <3>1
    <3>3. NoLines'
      BY <2>4, <3>1, <3>2 DEF NoLines
    <3> QED
      BY <2>5, <3>3 DEF OneLine
  <2>8. ASSUME ~srv'.live PROVE NoLines'
    BY <1>3, <2>4, <2>8 DEF DashInv, NoLines
  <2> QED
    BY <1>2, <2>5, <2>6, <2>7, <2>8, NoEnd DEF DashInv
<1>4. CASE srv.live /\ srv' = srv /\ dash' = [dash EXCEPT !.trouble = @ + 1, !.sound = FALSE, !.pc = "connect"]
                    /\ dash.trouble < MaxTrouble
  <2>1. PICK n : n = dash.trouble + 1
    OBVIOUS
  <2>2. n \in 0..MaxTrouble
    <3>1. dash.trouble \in 0..MaxTrouble /\ MaxTrouble \in Nat
      BY <1>1, DashboardAssumption DEF DashboardState
    <3> QED
      BY <1>4, <2>1, <3>1
  <2>3. dash' = [dash EXCEPT !.trouble = n, !.sound = FALSE, !.pc = "connect"]
    BY <1>4, <2>1
  <2>4. dash' \in DashboardState /\ dash'.pc = "connect" /\ dash'.sound = FALSE
    BY <1>1, <2>2, <2>3, Zenon DEF DashboardState
  <2> QED
    BY <1>1, <1>2, <1>4, <2>4, NoEnd DEF DashInv, DashTypeOK, AsksRightly, NoLines
<1>5. CASE ~srv.live /\ dash' = [dash EXCEPT !.conn = "disconnected", !.pc = "connect"] /\ srv' = srv
  <2>1. dash' \in DashboardState /\ dash'.pc = "connect" /\ dash'.sound = dash.sound
    BY <1>1, <1>5, Zenon DEF DashboardState
  <2>2. NoLines'
    BY <1>5 DEF DashInv, NoLines
  <2> QED
    BY <1>1, <1>2, <1>5, <2>1, <2>2, NoEnd DEF DashInv, DashTypeOK, AsksRightly, OneLine
<1> QED
  BY <1>3, <1>4, <1>5, Zenon DEF ReadGreeting

LEMMA SendRequestKeeps ==
  ASSUME DashInv, SendRequest
  PROVE  DashInv' /\ OkStep
<1>1. /\ dash \in DashboardState /\ srv \in DashboardServer /\ dash.sound \in BOOLEAN
      /\ srv.inbox \in Seq(DashboardRequests) /\ srv.out \in Seq(DashboardAnswers)
      /\ dash.ask \in Asks /\ dash.calls \in 0..MaxCalls
  BY TypeOf
<1>2. dash.pc = "send" /\ (dash.sound => NoLines)
  BY DEF SendRequest, DashInv, OneLine
<1>3. CASE dash' = [dash EXCEPT !.pc = "read"]
           /\ srv' = IF srv.live THEN [srv EXCEPT !.inbox = Append(@, [ask |-> dash.ask, call |-> dash.calls])]
                     ELSE srv
  <2>1. /\ dash' \in DashboardState /\ dash'.pc = "read" /\ dash'.cmd = dash.cmd
        /\ dash'.ask = dash.ask /\ dash'.sound = dash.sound /\ dash'.calls = dash.calls
    BY <1>1, <1>3, Zenon DEF DashboardState
  <2>2. AsksRightly'
    BY <1>2, <2>1 DEF AsksRightly, DashInv
  <2>3. CASE srv.live
    <3>1. PICK req : req = [ask |-> dash.ask, call |-> dash.calls]
      BY Zenon
    <3>2. req \in DashboardRequests
      BY <1>1, <3>1 DEF DashboardRequests
    <3>3. PICK inbox : inbox = Append(srv.inbox, req)
      BY Zenon
    <3>4. inbox \in Requests
      BY <1>1, <3>2, <3>3 DEF Requests
    <3>5. srv' = [srv EXCEPT !.inbox = inbox]
      BY <1>3, <2>3, <3>1, <3>3, Zenon
    <3>6. srv' \in DashboardServer /\ srv'.live = srv.live /\ srv'.inbox = inbox /\ srv'.out = srv.out
      BY <1>1, <3>4, <3>5, Zenon DEF DashboardServer
    <3>7. ASSUME dash.sound PROVE OneLine'
      <4>1. inbox = <<req>> /\ srv.out = <<>>
        <5>1. srv.inbox = <<>> /\ srv.out = <<>>
          BY <1>2, <3>7 DEF NoLines
        <5>2. inbox = Append(<<>>, req)
          BY <3>3, <5>1
        <5> QED
          BY <5>1, <5>2
      <4>2. Asked'
        BY <2>1, <3>1, <3>6, <4>1 DEF Asked
      <4> QED
        BY <2>1, <2>3, <3>6, <4>2 DEF OneLine
    <3> QED
      BY <1>2, <2>1, <2>2, <2>3, <3>6, <3>7, NoEnd DEF DashInv, DashTypeOK
  <2>4. CASE ~srv.live
    <3>1. srv' = srv
      BY <1>3, <2>4, Zenon
    <3>2. NoLines'
      BY <2>4, <3>1 DEF DashInv, NoLines
    <3> QED
      BY <1>1, <1>2, <2>1, <2>2, <2>4, <3>1, <3>2, NoEnd DEF DashInv, DashTypeOK, OneLine
  <2> QED
    BY <2>3, <2>4
<1>4. CASE dash' = Thrown(dash) /\ srv' = srv
  <2>1. dash' \in DashboardState /\ dash'.pc \in {"idle", "dead"} /\ ~dash'.ok /\ dash'.sound = dash.sound
    BY <1>1, <1>4, ThrownIs DEF SameCall
  <2>2. NoLines' <=> NoLines
    BY <1>4 DEF NoLines
  <2> QED
    BY <1>1, <1>2, <1>4, <2>1, <2>2, NoEnd DEF DashInv, DashTypeOK, AsksRightly, OneLine
<1> QED
  BY <1>3, <1>4, Zenon DEF SendRequest

LEMMA ReceiveTimesOutKeeps ==
  ASSUME DashInv, ReceiveTimesOut
  PROVE  DashInv' /\ OkStep
<1>1. /\ dash \in DashboardState /\ srv \in DashboardServer /\ dash.sound \in BOOLEAN
  BY TypeOf
<1>2. PICK d : d = Thrown(dash)
  OBVIOUS
<1>3. d \in DashboardState /\ d.pc \in {"idle", "dead"} /\ ~d.ok /\ d.sound = dash.sound
  BY <1>1, <1>2, ThrownIs DEF SameCall
<1>4. d.trouble = dash.trouble
  BY <1>1, <1>2 DEF Thrown, DashboardState
<1>5. CASE srv.live /\ dash.trouble < MaxTrouble /\ srv' = srv
           /\ dash' = [Thrown(dash) EXCEPT !.sound = FALSE, !.trouble = @ + 1]
  <2>1. PICK n : n = d.trouble + 1
    OBVIOUS
  <2>2. n \in 0..MaxTrouble
    BY <1>1, <1>4, <1>5, <2>1, DashboardAssumption DEF DashboardState
  <2>3. dash' = [d EXCEPT !.sound = FALSE, !.trouble = n]
    BY <1>2, <1>5, <2>1, Zenon
  <2>4. dash' \in DashboardState /\ dash'.pc = d.pc /\ dash'.ok = d.ok /\ dash'.sound = FALSE
    BY <1>3, <2>2, <2>3, Zenon DEF DashboardState
  <2> QED
    BY <1>1, <1>3, <1>5, <2>4, NoEnd DEF DashInv, DashTypeOK, AsksRightly, NoLines
<1>6. CASE ~srv.live /\ srv' = srv /\ dash' = [Thrown(dash) EXCEPT !.conn = "disconnected"]
  <2>1. dash' = [d EXCEPT !.conn = "disconnected"]
    BY <1>2, <1>6, Zenon
  <2>2. dash' \in DashboardState /\ dash'.pc = d.pc /\ dash'.ok = d.ok /\ dash'.sound = dash.sound
    BY <1>3, <2>1 DEF DashboardState
  <2>3. NoLines'
    BY <1>6 DEF DashInv, NoLines
  <2> QED
    BY <1>1, <1>3, <1>6, <2>2, <2>3, NoEnd DEF DashInv, DashTypeOK, AsksRightly, OneLine
<1> QED
  BY <1>5, <1>6, Zenon DEF ReceiveTimesOut

\* What is polled has an effect to wait for; a question for it is only answered.
LEMMA AskIsQuery ==
  ASSUME NEW cmd
  PROVE  Ask(cmd) \notin Polled \cup Plain
<1>1. PICK ask : ask = Ask(cmd)
  OBVIOUS
<1>2. ask \in {"programState", "robotmode"}
  BY <1>1 DEF Ask
<1>3. ask \notin Polled
  BY <1>2 DEF Polled, ModeCommands, SafetyCommands, ProgramCommands
<1>4. ask \notin Plain
  BY <1>2 DEF Plain, Popups, Messages, SessionCommands, RoleCommands, Reports
<1> QED
  BY <1>1, <1>3, <1>4

LEMMA NothingWanted ==
  ASSUME NEW cmd, cmd \notin Polled, NEW v
  PROVE  Wanted(cmd, v)
<1>1. cmd \notin ModeCommands /\ cmd \notin SafetyCommands /\ cmd \notin ProgramCommands
  BY DEF Polled
<1>2. WantedMode(cmd, v)
  BY <1>1 DEF WantedMode, ModeCommands, SafetyCommands
<1>3. WantedProgram(cmd, v)
  BY <1>1 DEF WantedProgram, ProgramCommands
<1> QED
  BY <1>2, <1>3 DEF Wanted

LEMMA ReadAnswerKeeps ==
  ASSUME DashInv, ReadAnswer
  PROVE  DashInv' /\ OkStep
<1>1. /\ dash \in DashboardState /\ srv \in DashboardServer /\ dash.sound \in BOOLEAN
      /\ srv.inbox \in Seq(DashboardRequests) /\ srv.out \in Seq(DashboardAnswers)
  BY TypeOf
<1>2. dash.pc = "read" /\ srv.out # <<>>
  BY DEF ReadAnswer
<1>3. PICK a : a = Head(srv.out)
  OBVIOUS
<1>4. a \in DashboardAnswers
  BY <1>1, <1>2, <1>3, HeadTailProperties
<1>5. PICK d : d = IF dash.ask = dash.cmd \/ dash.cmd = "connect" THEN RequestAnswered(dash, a)
                   ELSE PollAnswered(dash, a)
  OBVIOUS
<1>6. PICK quits \in BOOLEAN : quits = (dash.cmd = "quit" /\ d.ok /\ d.pc = "idle")
  BY Zenon
<1>7. /\ dash' = IF quits THEN [d EXCEPT !.conn = "closed"] ELSE d
      /\ srv' = IF quits THEN [srv EXCEPT !.live = FALSE, !.inbox = <<>>, !.out = <<>>]
                ELSE [srv EXCEPT !.out = Tail(@)]
  BY <1>3, <1>5, <1>6, Zenon DEF ReadAnswer
<1>8. AsksRightly
  BY DEF DashInv
<1> DEFINE Success == a.accepted \/ (a.ask = dash.ask /\ dash.ask \notin Polled \cup Plain)
<1> DEFINE Shown == d.data = a.view /\ Wanted(dash.cmd, a.view)
<1>9. /\ d \in DashboardState /\ SameCall(dash, d) /\ d.pc \in {"idle", "connect", "send"}
      /\ d.pc = "send" => d.ask = d.cmd \/ (d.cmd \in Polled /\ d.ask = Ask(d.cmd))
      /\ d.pc = "idle" /\ d.ok /\ dash.cmd \notin {"connect", "is_in_remote_control"} =>
           /\ a.accepted \/ dash.ask \notin Polled \cup Plain
           /\ dash.cmd = "stop" \/ Shown
  <2>1. CASE dash.ask = dash.cmd \/ dash.cmd = "connect"
    <3>1. d = RequestAnswered(dash, a)
      BY <1>5, <2>1, Zenon
    <3>2. /\ d \in DashboardState /\ SameCall(dash, d)
          /\ d.pc \in {"idle", "connect", "send"}
          /\ d.pc = "send" => dash.cmd \in Polled /\ d.ask = Ask(dash.cmd)
          /\ d.pc = "idle" /\ d.ok /\ dash.cmd \notin {"connect", "is_in_remote_control"} =>
               a.accepted /\ dash.cmd \notin Polled /\ d.data = a.view
      BY <1>1, <1>4, <3>1, RequestAnsweredIs
    <3>3. dash.cmd \notin Polled => Wanted(dash.cmd, a.view)
      BY NothingWanted
    <3>4. d.cmd = dash.cmd
      BY <3>2 DEF SameCall
    <3> QED
      BY <3>2, <3>3, <3>4
  <2>2. CASE ~(dash.ask = dash.cmd \/ dash.cmd = "connect")
    <3>1. d = PollAnswered(dash, a)
      BY <1>5, <2>2, Zenon
    <3>2. /\ d \in DashboardState /\ SameCall(dash, d)
          /\ d.pc \in {"idle", "connect", "send"}
          /\ d.pc = "send" => d.ask = dash.ask \/ d.ask = dash.cmd
          /\ d.pc = "idle" /\ d.ok /\ dash.cmd # "is_in_remote_control" =>
               dash.cmd = "stop" \/ (a.ask = dash.ask /\ Wanted(dash.cmd, a.view) /\ d.data = a.view)
      <4>1. PollEnds(dash, a, d)
        BY <1>1, <1>4, <3>1, PollAnsweredIs
      <4> QED
        BY <4>1 DEF PollEnds
    <3>3. dash.cmd \in Polled /\ dash.ask = Ask(dash.cmd)
      BY <1>2, <1>8, <2>2 DEF AsksRightly
    <3>4. dash.ask \notin Polled \cup Plain
      BY <3>3, AskIsQuery
    <3>5. d.cmd = dash.cmd
      BY <3>2 DEF SameCall
    <3> QED
      BY <3>2, <3>3, <3>4, <3>5
  <2> QED
    BY <2>1, <2>2
<1> HIDE <1>5
<1>10. /\ dash' \in DashboardState /\ SameCall(dash, dash') /\ dash'.pc = d.pc /\ dash'.ask = d.ask
       /\ dash'.ok = d.ok /\ dash'.data = d.data
  <2>1. CASE quits
    <3>1. dash' = [d EXCEPT !.conn = "closed"]
      BY <1>7, <2>1, Zenon
    <3> QED
      BY <1>9, <3>1 DEF DashboardState, SameCall
  <2>2. CASE ~quits
    <3>1. dash' = d
      BY <1>7, <2>2, Zenon
    <3> QED
      BY <1>9, <3>1
  <2> QED
    BY <2>1, <2>2
<1>11. PICK out : out = Tail(srv.out)
  BY Zenon
<1>12. /\ srv' \in DashboardServer /\ srv'.said = srv.said
       /\ \/ srv'.inbox = <<>> /\ srv'.out = <<>>
          \/ srv'.live = srv.live /\ srv'.inbox = srv.inbox /\ srv'.out = out
  <2>1. <<>> \in Requests /\ <<>> \in Lines /\ out \in Lines
    BY <1>1, <1>2, <1>11, HeadTailProperties DEF Requests, Lines
  <2>2. CASE quits
    <3>1. srv' = [srv EXCEPT !.live = FALSE, !.inbox = <<>>, !.out = <<>>]
      BY <1>7, <2>2, Zenon
    <3> QED
      BY <1>1, <2>1, <3>1, Zenon DEF DashboardServer
  <2>3. CASE ~quits
    <3>1. srv' = [srv EXCEPT !.out = out]
      BY <1>7, <1>11, <2>3, Zenon
    <3> QED
      BY <1>1, <2>1, <3>1, Zenon DEF DashboardServer
  <2> QED
    BY <2>2, <2>3
<1>13. ASSUME dash.sound
       PROVE  /\ NoLines' /\ a = srv.said /\ srv.said.call = dash.calls
              /\ dash.ask \notin Polled \cup Plain => srv.said.accepted
  <2>1. Told
    BY <1>2, <1>13 DEF DashInv, OneLine, NoLines, Asked
  <2>2. srv.out = <<srv.said>> /\ srv.inbox = <<>> /\ srv.said \in DashboardAnswers
    BY <2>1 DEF Told
  <2>3. out = <<>> /\ a = srv.said
    BY <2>2, <1>3, <1>11
  <2>4. NoLines'
    BY <1>12, <2>2, <2>3 DEF NoLines
  <2> QED
    BY <2>1, <2>3, <2>4 DEF Told
<1>14. DashTypeOK'
  BY <1>10, <1>12 DEF DashTypeOK
<1>15. AsksRightly'
  <2>1. d.cmd = dash.cmd /\ dash'.cmd = dash.cmd
    BY <1>9, <1>10 DEF SameCall
  <2> QED
    BY <1>9, <1>10, <2>1 DEF AsksRightly
<1>16. ASSUME ~srv'.live PROVE NoLines'
  <2>1. CASE srv'.inbox = <<>> /\ srv'.out = <<>>
    BY <2>1 DEF NoLines
  <2>2. CASE srv'.live = srv.live
    <3>1. srv.out = <<>>
      BY <1>16, <2>2 DEF DashInv, NoLines
    <3> QED
      BY <1>2, <3>1
  <2> QED
    BY <1>12, <2>1, <2>2
<1>17. dash'.sound = dash.sound
  BY <1>10 DEF SameCall
<1>18. ASSUME dash.sound PROVE OneLine'
  BY <1>9, <1>10, <1>13, <1>18 DEF OneLine
<1>19. DashInv'
  BY <1>14, <1>15, <1>16, <1>17, <1>18 DEF DashInv
<1>20. ASSUME dash'.pc = "idle", dash'.ok, dash.sound, dash.cmd \notin {"connect", "is_in_remote_control"}
       PROVE  /\ srv.said'.call = dash.calls /\ srv.said'.accepted
              /\ dash.cmd # "stop" => dash'.data = srv.said.view /\ Wanted(dash.cmd, srv.said.view)
  <2>1. /\ a.accepted \/ dash.ask \notin Polled \cup Plain
        /\ dash.cmd = "stop" \/ (d.data = a.view /\ Wanted(dash.cmd, a.view))
    BY <1>9, <1>10, <1>20
  <2> QED
    BY <1>10, <1>12, <1>13, <1>20, <2>1
<1> QED
  BY <1>10, <1>19, <1>20 DEF OkStep

LEMMA HttpKeeps ==
  ASSUME DashInv, Http
  PROVE  DashInv' /\ OkStep
<1>1. /\ dash \in DashboardState /\ srv \in DashboardServer /\ dash.sound \in BOOLEAN
      /\ dash.cmd \in DashboardCommands /\ dash.calls \in 0..MaxCalls
  BY TypeOf
<1>2. dash.policy = "X" /\ dash.pc \in {"connect", "http"} /\ (dash.sound => NoLines)
  <2>1. dash.policy = "X" /\ dash.pc \in {"connect", "http"}
    BY Zenon DEF Http
  <2> QED
    BY <2>1 DEF DashInv, OneLine
<1>3. PICK refused : refused = Ended(dash, FALSE)
  BY Zenon
<1>4. /\ refused \in DashboardState /\ SameCall(dash, refused) /\ refused.pc \in {"idle", "connect"}
      /\ refused.pc = "idle" /\ refused.ok => dash.cmd = "is_in_remote_control"
  BY <1>1, <1>3, EndedIs, Zenon
\* The state of the server is told, and nothing is left on a line.
<1>5. ASSUME dash' \in DashboardState, srv' \in DashboardServer, dash'.sound = dash.sound,
             dash'.pc \in {"idle", "connect", "dead"},
             srv'.live = srv.live, srv'.inbox = srv.inbox, srv'.out = srv.out
      PROVE  DashInv'
  <2>1. NoLines' <=> NoLines
    BY <1>5 DEF NoLines
  <2> QED
    BY <1>2, <1>5, <2>1 DEF DashInv, DashTypeOK, AsksRightly, OneLine
<1>6. CASE srv' = srv /\ (dash' = Ended(dash, FALSE) \/ dash' = Thrown(dash))
  <2>1. CASE dash' = Ended(dash, FALSE)
    <3>1. dash' = refused
      BY <1>3, <2>1
    <3>2. /\ dash' \in DashboardState /\ SameCall(dash, dash') /\ dash'.pc \in {"idle", "connect"}
          /\ dash'.pc = "idle" /\ dash'.ok => dash.cmd = "is_in_remote_control"
      BY <1>4, <3>1
    <3>3. DashInv'
      BY <1>1, <1>5, <1>6, <3>2 DEF SameCall
    <3> QED
      BY <3>2, <3>3 DEF OkStep
  <2>2. CASE dash' = Thrown(dash)
    <3>1. /\ dash' \in DashboardState /\ SameCall(dash, dash') /\ dash'.pc \in {"idle", "dead"} /\ ~dash'.ok
      BY <1>1, <2>2, ThrownIs
    <3>2. DashInv'
      BY <1>1, <1>5, <1>6, <3>1 DEF SameCall
    <3> QED
      BY <3>1, <3>2, NoEnd
  <2> QED
    BY <1>6, <2>1, <2>2, Zenon
<1>7. ASSUME NEW ok \in BOOLEAN, NEW a, a = Said([ask |-> dash.cmd, call |-> dash.calls], ok),
             srv' = [srv EXCEPT !.said = a, !.doing = Doing(a.ask, ok /\ dash.cmd # "connect")],
             \/ /\ dash.pc = "connect"
                /\ \E api \in {"old", "new"} :
                      dash' = IF ok THEN [Ended(dash, TRUE) EXCEPT !.version = api] ELSE Ended(dash, FALSE)
             \/ dash.pc = "http" /\ dash' = IF ok THEN Answered(dash, a) ELSE Ended(dash, FALSE)
             \/ dash' = [dash EXCEPT !.pc = "dead"]
      PROVE  DashInv' /\ OkStep
  <2>1. PICK req : req = [ask |-> dash.cmd, call |-> dash.calls]
    BY Zenon
  <2>2. req \in DashboardRequests /\ req.ask = dash.cmd /\ req.call = dash.calls
    <3>1. PICK cmd \in Asks : cmd = dash.cmd
      BY <1>1, CommandsAreAsked, Zenon
    <3> QED
      BY <1>1, <2>1, <3>1 DEF DashboardRequests
  <2>3. a \in DashboardAnswers /\ a.ask = dash.cmd /\ a.call = dash.calls /\ a.accepted = ok
    BY <1>1, <1>7, <2>1, <2>2, SaidIs
  <2>4. a.ask \in Asks
    BY <1>1, <2>3, CommandsAreAsked, Zenon
  <2>5. PICK doing \in Asks : doing = Doing(a.ask, ok /\ dash.cmd # "connect")
    BY <1>1, <2>4, DoingIs
  <2>6. a \in LastSaid
    BY <2>3 DEF LastSaid
  <2>7. /\ srv' \in DashboardServer /\ srv'.said = a /\ srv'.live = srv.live
        /\ srv'.inbox = srv.inbox /\ srv'.out = srv.out
    <3>1. srv' = [srv EXCEPT !.said = a, !.doing = doing]
      BY <1>7, <2>5, Zenon
    <3> QED
      BY <1>1, <2>5, <2>6, <3>1, Zenon DEF DashboardServer
  <2>8. CASE dash.pc = "connect" /\ dash' \in DashboardState /\ SameCall(dash, dash')
             /\ dash'.pc \in {"idle", "connect"}
    <3>1. DashInv'
      BY <1>5, <2>7, <2>8 DEF SameCall
    <3> QED
      BY <2>8, <3>1, NoEnd
  <2>9. CASE ok /\ dash.pc = "connect" /\ \E api \in {"old", "new"} :
                                             dash' = [Ended(dash, TRUE) EXCEPT !.version = api]
    <3>1. PICK e : e = Ended(dash, TRUE)
      BY Zenon
    <3>2. e \in DashboardState /\ SameCall(dash, e) /\ e.pc = "idle"
      BY <1>1, <3>1, EndedIs, Zenon
    <3>3. PICK api \in {"old", "new"} : dash' = [e EXCEPT !.version = api]
      BY <2>9, <3>1, Zenon
    <3>4. dash' \in DashboardState /\ SameCall(dash, dash') /\ dash'.pc = "idle"
      BY <3>2, <3>3, Zenon DEF DashboardState, SameCall
    <3> QED
      BY <2>8, <2>9, <3>4, Zenon
  <2>10. CASE ok /\ dash' = Answered(dash, a)
    <3>1. PICK e : e = Answered(dash, a)
      OBVIOUS
    <3>2. e \in DashboardState /\ SameCall(dash, e) /\ e.pc = "idle" /\ e.data = a.view
      BY <1>1, <2>3, <3>1, AnsweredIs
    <3>3. dash' = e
      BY <2>10, <3>1
    <3>4. DashInv'
      BY <1>5, <2>7, <3>2, <3>3 DEF SameCall
    <3>5. srv.said'.call = dash.calls /\ srv.said'.accepted /\ dash.policy # "G5"
      BY <1>2, <2>3, <2>7, <2>10, Zenon
    <3> QED
      BY <3>2, <3>3, <3>4, <3>5 DEF OkStep
  <2>11. CASE dash' = Ended(dash, FALSE)
    <3>1. dash' = refused
      BY <1>3, <2>11
    <3>2. /\ dash' \in DashboardState /\ SameCall(dash, dash') /\ dash'.pc \in {"idle", "connect"}
          /\ dash'.pc = "idle" /\ dash'.ok => dash.cmd = "is_in_remote_control"
      BY <1>4, <3>1
    <3>3. DashInv'
      BY <1>5, <2>7, <3>2 DEF SameCall
    <3> QED
      BY <3>2, <3>3 DEF OkStep
  <2>12. CASE dash' = [dash EXCEPT !.pc = "dead"]
    <3>1. dash' \in DashboardState /\ dash'.sound = dash.sound /\ dash'.pc = "dead"
      BY <1>1, <2>12 DEF DashboardState
    <3>2. DashInv'
      BY <1>5, <2>7, <3>1
    <3> QED
      BY <3>1, <3>2, NoEnd
  <2>13. CASE ok
    BY <1>7, <2>9, <2>10, <2>12, <2>13, Zenon
  <2>14. CASE ~ok
    BY <1>7, <2>11, <2>12, <2>14, Zenon
  <2> QED
    BY <2>13, <2>14
<1>8. \/ srv' = srv /\ (dash' = Ended(dash, FALSE) \/ dash' = Thrown(dash))
      \/ \E ok \in BOOLEAN : \E a :
           /\ a = Said([ask |-> dash.cmd, call |-> dash.calls], ok)
           /\ srv' = [srv EXCEPT !.said = a, !.doing = Doing(a.ask, ok /\ dash.cmd # "connect")]
           /\ \/ /\ dash.pc = "connect"
                 /\ \E api \in {"old", "new"} :
                      dash' = IF ok THEN [Ended(dash, TRUE) EXCEPT !.version = api] ELSE Ended(dash, FALSE)
              \/ dash.pc = "http" /\ dash' = IF ok THEN Answered(dash, a) ELSE Ended(dash, FALSE)
              \/ dash' = [dash EXCEPT !.pc = "dead"]
  BY Zenon DEF Http
<1> QED
  BY <1>6, <1>7, <1>8, Zenon

LEMMA DashboardStep ==
  ASSUME DashInv, DashboardNext
  PROVE  DashInv' /\ OkStep
<1>1. ASSUME NEW cmd \in Services, CallService(cmd)
      PROVE  DashInv' /\ OkStep
  BY <1>1, CallServiceKeeps
<1> QED
  BY <1>1, AnswerRequestKeeps, RobotActsKeeps, ServerStartsKeeps, TroubleKeeps, ConnectKeeps,
     ReadGreetingKeeps, SendRequestKeeps, ReceiveTimesOutKeeps, ReadAnswerKeeps, HttpKeeps
     DEF DashboardNext, ClientStep

LEMMA DashboardStart ==
  ASSUME DashboardInit
  PROVE  DashInv
<1>1. PICK mode \in {"POWER_OFF", "RUNNING"}, up \in BOOLEAN :
          srv = [up |-> up, live |-> FALSE, mode |-> mode, prog |-> "STOPPED", loaded |-> "another",
                 doing |-> "", inbox |-> <<>>, out |-> <<>>, said |-> [call |-> 0]]
  BY Zenon DEF DashboardInit
<1>2. PICK policy \in Policies :
          dash = [policy |-> policy, version |-> "none", conn |-> "invalid", pc |-> "connect",
                  cmd |-> "connect", ask |-> "", polls |-> 0, tries |-> 0, ok |-> FALSE, data |-> View(srv),
                  started |-> FALSE, sound |-> TRUE, calls |-> 0, trouble |-> 0]
  BY Zenon DEF DashboardInit
<1>3. PICK none \in Asks : none = ""
  BY CommandsAreAsked, Zenon
<1>4. PICK connect \in DashboardCommands : connect = "connect"
  BY CommandsAreAsked, Zenon
<1>5. PICK said \in LastSaid : said = [call |-> 0]
  BY Zenon DEF LastSaid
<1>6. <<>> \in Requests /\ <<>> \in Lines
  BY DEF Requests, Lines
<1>7. srv \in DashboardServer /\ srv.live = FALSE /\ srv.inbox = <<>> /\ srv.out = <<>>
  <2>1. srv = [up |-> up, live |-> FALSE, mode |-> mode, prog |-> "STOPPED", loaded |-> "another",
               doing |-> none, inbox |-> <<>>, out |-> <<>>, said |-> said]
    BY <1>1, <1>3, <1>5, Zenon
  <2> HIDE <1>3, <1>5
  <2> QED
    BY <1>6, <2>1 DEF DashboardServer
<1>8. PICK view \in RobotViews : view = View(srv)
  BY <1>7, Zenon DEF View, RobotViews, DashboardServer
<1>9. 0 \in 0..MaxCalls /\ 0 \in 0..MaxTrouble /\ 0 \in 0..(MaxPolls - 1) /\ 0 \in 0..(MaxTries - 1)
  BY DashboardAssumption
<1>10. dash = [policy |-> policy, version |-> "none", conn |-> "invalid", pc |-> "connect",
               cmd |-> connect, ask |-> none, polls |-> 0, tries |-> 0, ok |-> FALSE, data |-> view,
               started |-> FALSE, sound |-> TRUE, calls |-> 0, trouble |-> 0]
  BY <1>2, <1>3, <1>4, <1>8, Zenon
<1> HIDE <1>3, <1>4, <1>8
<1>11. dash \in DashboardState /\ dash.pc = "connect"
  BY <1>9, <1>10 DEF DashboardState
<1> QED
  BY <1>7, <1>11 DEF DashInv, DashTypeOK, AsksRightly, NoLines, OneLine

LEMMA DashboardStays ==
  ASSUME DashInv, UNCHANGED dvars
  PROVE  DashInv'
<1>1. srv' = srv /\ dash' = dash
  BY DEF dvars
<1>2. (NoLines' <=> NoLines) /\ (Asked' <=> Asked) /\ (Told' <=> Told)
  BY <1>1 DEF NoLines, Asked, Told
<1> QED
  BY <1>1, <1>2 DEF DashInv, DashTypeOK, AsksRightly, OneLine

(* The dashboard client in the program of the clients: no other session    *)
(* touches it or its server.                                               *)
LEMMA InitDashboard == Init => DashInv
  BY DashboardStart DEF Init

LEMMA NextDashboard == DashInv /\ [Next]_vars => DashInv' /\ [OkStep]_dvars
<1> SUFFICES ASSUME DashInv, [Next]_vars PROVE DashInv' /\ (OkStep \/ UNCHANGED dvars)
  OBVIOUS
<1>1. CASE DashboardNext
  BY <1>1, DashboardStep
<1>2. CASE UNCHANGED dvars
  BY <1>2, DashboardStays
<1>3. DashboardNext \/ UNCHANGED dvars
  BY DEF Next, vars, Queue, Dashboard, Until, Reader, Server, Helper, Client, Scripted
<1> QED
  BY <1>1, <1>2, <1>3

(* Whatever services are called, however often, whatever the robot answers *)
(* or does on its own and whenever a connection breaks: as long as no      *)
(* answer of this connection has come too late, a service tells success    *)
(* only for the call the server has accepted, and one that waits for an    *)
(* effect only when the server has shown it.                               *)
THEOREM DashboardTellsTruly == Spec => OkIsTrue
<1>1. DashInv /\ [Next]_vars => DashInv'
  BY NextDashboard
<1>2. DashInv /\ [Next]_vars => [OkStep]_dvars
  BY NextDashboard
<1> QED
  BY <1>1, <1>2, InitDashboard, PTL DEF Spec, OkIsTrue
=============================================================================
