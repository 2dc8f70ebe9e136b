------------------------------ MODULE TcpServer ------------------------------
(***************************************************************************)
(* The TCP server under the interfaces the robot connects to: a worker     *)
(* thread waits with select(), takes connections in, reads and drops them, *)
(* and calls its owner back.  The reverse interface has room for one       *)
(* client and writes from another thread; the script sender has room for   *)
(* all and answers a request in the worker thread.  A file descriptor that *)
(* has been closed is given to the next connection.                        *)
(***************************************************************************)
EXTENDS Integers, FiniteSets

CONSTANT MaxConnections   \* bound: connections that are made

ASSUME TcpServerAssumption == MaxConnections \in Nat

VARIABLES
    tcp,       \* the connections, as their robot and the kernel see them
    server,    \* the server's worker and members, and who is shutting it down
    owner      \* the owner's client, and its thread that writes

tvars == <<tcp, server, owner>>

Connections == 1..MaxConnections
Request == "request_program"

Fds == 1..(MaxConnections + 1)
ServerState ==
    [max : {0, 1}, keepRunning : BOOLEAN, fd : Fds \cup {0}, clientFds : SUBSET Fds, active : SUBSET Fds,
     disconnected : SUBSET Fds, closing : {"no", "joining", "done"},
     pc : {"loop", "accept", "connected", "read", "disconnect", "disconnected", "ended"}]
Owner == [clientFd : Fds \cup {0}, pc : {"idle", "check", "send"}, fd : Fds \cup {0},
          meant : SUBSET Connections, late : BOOLEAN, stray : BOOLEAN]

ServerInit ==
    /\ tcp = [c \in Connections |-> [state |-> "out", fd |-> 0, sent |-> "", asked |-> FALSE, got |-> FALSE]]
    /\ \E max \in {0, 1} :
          server = [max |-> max, keepRunning |-> TRUE, pc |-> "loop", clientFds |-> {}, active |-> {},
                    disconnected |-> {}, fd |-> 0, closing |-> "no"]
    /\ owner = [clientFd |-> 0, pc |-> "idle", fd |-> 0, meant |-> {}, late |-> FALSE, stray |-> FALSE]

Held(c) == tcp[c].state \in {"open", "left"}
Holder(fd) == {c \in Connections : Held(c) /\ tcp[c].fd = fd}
FreeFd == CHOOSE fd \in 1..(MaxConnections + 1) :
              Holder(fd) = {} /\ \A lower \in 1..(fd - 1) : Holder(lower) # {}
ReverseInterface == server.max = 1

(***************************************************************************)
(* The robots: they connect, ask for the program in one piece or two, and  *)
(* leave.                                                                  *)
(***************************************************************************)
Robot(c) ==
    /\ \/ /\ tcp[c].state = "out" /\ server.closing # "done"
          /\ \A d \in 1..(c - 1) : tcp[d].state # "out"
          /\ tcp' = [tcp EXCEPT ![c].state = "backlog"]
       \/ /\ tcp[c].state = "open" /\ ~ReverseInterface /\ tcp[c].sent = "" /\ ~tcp[c].asked
          /\ \E sent \in {Request, "a part of it"} : tcp' = [tcp EXCEPT ![c].sent = sent, ![c].asked = sent = Request]
       \/ tcp[c].state \in {"backlog", "open"} /\ tcp' = [tcp EXCEPT ![c].state = "left"]
    /\ UNCHANGED <<server, owner>>

(***************************************************************************)
(* The worker: select() tells of what is there when it returns, and comes  *)
(* back after a second at the latest.                                      *)
(***************************************************************************)
Goes(pc) == server' = [server EXCEPT !.pc = pc]
Waiting == {c \in Connections : tcp[c].state = "backlog" \/ (tcp[c].state = "left" /\ tcp[c].fd = 0)}
Readable == {fd \in server.clientFds : \E c \in Holder(fd) : tcp[c].sent # "" \/ tcp[c].state = "left"}
(* The mutant does not look whether it is to stop.                         *)
RunsForever == TRUE
KeepsRunning == server.keepRunning
Spin ==
    /\ server.pc = "loop" /\ UNCHANGED <<tcp, owner>>
    /\ \/ ~KeepsRunning /\ Goes("ended")
       \/ /\ KeepsRunning /\ Waiting \cup Readable # {}
          /\ server' = [server EXCEPT !.pc = IF Waiting # {} THEN "accept" ELSE "read", !.active = Readable]
(* The mutant lets one connection in too many.                             *)
OneTooMany == server.max = 0 \/ Cardinality(server.clientFds) <= server.max
HasRoom == server.max = 0 \/ Cardinality(server.clientFds) < server.max
Accept ==
    /\ server.pc = "accept" /\ UNCHANGED owner
    /\ \E c \in Waiting : \A d \in Waiting : c <= d /\
          IF HasRoom
          THEN /\ server' = [server EXCEPT !.pc = "connected", !.clientFds = @ \cup {FreeFd}, !.fd = FreeFd]
               /\ tcp' = [tcp EXCEPT ![c].fd = FreeFd,
                                     ![c].state = IF tcp[c].state = "left" THEN "left" ELSE "open"]
          ELSE Goes("read") /\ tcp' = [tcp EXCEPT ![c].state = "refused"]
ConnectionCallback ==
    /\ server.pc = "connected" /\ Goes("read") /\ UNCHANGED tcp
    /\ owner' = IF ReverseInterface /\ owner.clientFd = 0 THEN [owner EXCEPT !.clientFd = server.fd] ELSE owner
ReadData ==
    /\ server.pc = "read" /\ server.active # {} /\ UNCHANGED owner
    /\ \E fd \in server.active, c \in Connections :
          /\ c \in Holder(fd)
          /\ LET answers == tcp[c].sent = Request
             IN  tcp' = [tcp EXCEPT ![c].sent = "", ![c].got = @ \/ answers]
          /\ server' = [server EXCEPT !.active = @ \ {fd},
                                      !.disconnected = IF tcp[c].sent = "" THEN @ \cup {fd} ELSE @]
AllRead == /\ server.pc = "read" /\ server.active = {} /\ UNCHANGED <<tcp, owner>>
           /\ Goes(IF server.disconnected = {} THEN "loop" ELSE "disconnect")
HandleDisconnect ==
    /\ server.pc = "disconnect"
    /\ \E fd \in server.disconnected :
          /\ server' = [server EXCEPT !.pc = "disconnected", !.fd = fd, !.clientFds = @ \ {fd},
                                      !.disconnected = @ \ {fd}]
          /\ tcp' = [c \in Connections |-> IF c \in Holder(fd) THEN [tcp[c] EXCEPT !.state = "ended"] ELSE tcp[c]]
          /\ owner' = [owner EXCEPT !.late = @ \/ (owner.pc # "idle" /\ owner.fd = fd)]
DisconnectionCallback ==
    /\ server.pc = "disconnected" /\ UNCHANGED tcp
    /\ Goes(IF server.disconnected = {} THEN "loop" ELSE "disconnect")
    /\ owner' = IF server.keepRunning THEN [owner EXCEPT !.clientFd = 0] ELSE owner
Worker == Spin \/ Accept \/ ConnectionCallback \/ ReadData \/ AllRead \/ HandleDisconnect \/ DisconnectionCallback

(***************************************************************************)
(* The thread that writes: what it looks at and what it then writes to are *)
(* not held together by a lock.  The one client connected is meant.        *)
(***************************************************************************)
StartWrite == /\ owner.pc = "idle" /\ owner.clientFd # 0 /\ UNCHANGED <<tcp, server>>
              /\ owner' = [owner EXCEPT !.pc = "check", !.fd = owner.clientFd, !.meant = Holder(owner.clientFd),
                               !.late = Holder(owner.clientFd) = {}, !.stray = FALSE]
CheckClient == /\ owner.pc = "check" /\ UNCHANGED <<tcp, server>>
               /\ owner' = [owner EXCEPT !.pc = IF owner.fd \in server.clientFds THEN "send" ELSE "idle"]
WriteUnchecked ==
    /\ owner.pc = "send" /\ UNCHANGED <<tcp, server>>
    /\ owner' = [owner EXCEPT !.pc = "idle", !.stray = ~(Holder(owner.fd) \subseteq owner.meant)]
Write == StartWrite \/ CheckClient \/ WriteUnchecked

(***************************************************************************)
(* shutdown(): the worker is told to stop, woken up and joined.            *)
(***************************************************************************)
Shutdown ==
    /\ UNCHANGED owner
    /\ \/ /\ server.closing = "no" /\ UNCHANGED tcp
          /\ server' = [server EXCEPT !.closing = "joining", !.keepRunning = FALSE]
       \/ /\ server.closing = "joining" /\ server.pc = "ended"
          /\ server' = [server EXCEPT !.closing = "done", !.clientFds = {}]
          /\ tcp' = [c \in Connections |-> IF Held(c) THEN [tcp[c] EXCEPT !.state = "ended"] ELSE tcp[c]]
ShutdownGoesOn == server.closing = "joining" /\ Shutdown

ServerNext == Worker \/ Write \/ Shutdown \/ \E c \in Connections : Robot(c)

-----------------------------------------------------------------------------
(* Until it is shut down, the client the reverse interface writes to is    *)
(* one the server holds, unless the owner is about to be told, and every   *)
(* client it holds is that one; a write reaches another client than the    *)
(* one connected when it began only when that one was dropped meanwhile,   *)
(* or already was without the owner having been told.                      *)
OwnerKnowsClient ==
    /\ server \in ServerState /\ owner \in Owner
    /\ (ReverseInterface /\ server.keepRunning) =>
          /\ owner.clientFd # 0 => \/ owner.clientFd \in server.clientFds
                                   \/ server.pc = "disconnected" /\ owner.clientFd = server.fd
          /\ \A fd \in server.clientFds : fd = owner.clientFd \/ (server.pc = "connected" /\ fd = server.fd)
    /\ owner.stray => owner.late

(* A robot that asks for the program in one piece gets it, unless it       *)
(* leaves or the server is shut down; and a shutdown ends.                 *)
ServerAnswers ==
    []<>(/\ server.closing # "joining"
         /\ \A c \in Connections : (tcp[c].asked /\ tcp[c].state = "open" /\ server.keepRunning) => tcp[c].got)
=============================================================================
