--------------------------- MODULE SuctionGripper ---------------------------
(***************************************************************************)
(* The ros2_control driver of the suction gripper                          *)
(* (suction_gripper_system.cpp), the serial line to the valve board and    *)
(* the firmware of the board (uart_control.ino).                           *)
(*                                                                         *)
(* A command is one text line, "pneumo1\n" or "pneumo0\n".  It is kept     *)
(* here as three pieces - the common prefix, the digit and the newline -   *)
(* because write(2) may take any part of it and because the firmware stops *)
(* waiting for the newline after one second: what matters is where a line  *)
(* can be cut.  A piece is the unit in which a line is sent.               *)
(***************************************************************************)
EXTENDS Naturals, Sequences

CONSTANTS
  InitialLevel,  \* initial_value of the state interface (0.0 or 1.0)
  MaxLines,      \* bound: complete lines waiting in the board's receive buffer
  MaxReplies     \* bound: reply lines waiting in the host's receive buffer

Level == {"0", "1"}         \* command_ >= 0.5 is "1", anything else "0"
Content == Level \cup {"empty", "prefix", "junk"}  \* what a (partial) line says
Reply == {"ready", "open", "closed", "unknown"}    \* the lines the firmware prints

ASSUME ConstantsAssumption ==
  /\ InitialLevel \in Level
  /\ MaxLines \in Nat \ {0}
  /\ MaxReplies \in Nat \ {0}

VARIABLES
  lifecycle,  \* lifecycle state of the component; "activating": inside on_activate
  fd,         \* fd_: "closed" (< 0), "live", or "dead" (the device went away)
  command,    \* command_, as the level write() derives from it
  state,      \* state_
  lastSent,   \* last_sent_logic_, "nan" when nothing has been sent
  sending,    \* the level whose line send_line() is writing, or "none"
  pos,        \* pieces of that line already handed over
  board,      \* "off", "booting" (boot loader, input is lost) or "running"
  lines,      \* complete lines the firmware has not read yet
  tail,       \* content of the unterminated line after them
  valve,      \* position of the relay: "1" open
  replies,    \* reply lines the host has not read yet
  disturbed   \* history: the board lost input, or a line was cut, since the
              \* latest line was begun

host == <<lifecycle, fd, command, state, lastSent, sending, pos>>
firmware == <<board, lines, tail, valve, replies>>
gripperVars == <<host, firmware, disturbed>>

Running == lifecycle \in {"inactive", "active"}  \* read() and write() are called
Idle == sending = "none"

-----------------------------------------------------------------------------
(* The serial line and the firmware.                                       *)

\* One more piece at the end of an unterminated line.
Extend(partial, piece) ==
  IF partial = "empty" /\ piece = "prefix" THEN "prefix"
  ELSE IF partial = "prefix" /\ piece \in Level THEN piece
  ELSE "junk"

\* Pieces 0, 1 and 2 of the line for a level; piece 2 is the newline.
Piece(level, i) == IF i = 0 THEN "prefix" ELSE level

\* The board receives piece i; the boot loader swallows it.
Receive(level, i) ==
  /\ disturbed' = (disturbed \/ board # "running")
  /\ IF board # "running" THEN UNCHANGED <<lines, tail>>
     ELSE IF i = 2 THEN /\ lines' = Append(lines, tail)
                        /\ tail' = "empty"
     ELSE /\ tail' = Extend(tail, Piece(level, i))
          /\ UNCHANGED lines

\* Serial.println: a full host buffer drops the reply.
Println(reply) == replies' = IF Len(replies) < MaxReplies THEN Append(replies, reply)
                                                        ELSE replies

\* The body of loop() for the text it has read.
Execute(content) ==
  \/ content \in Level /\ valve' = content /\ Println(IF content = "1" THEN "open" ELSE "closed")
  \/ content \in {"prefix", "junk"} /\ Println("unknown") /\ UNCHANGED valve
  \/ content = "empty" /\ UNCHANGED <<valve, replies>>

\* readStringUntil() returns a terminated line.
FirmwareLine ==
  /\ board = "running" /\ lines # <<>>
  /\ Execute(Head(lines))
  /\ lines' = Tail(lines)
  /\ UNCHANGED <<host, board, tail, disturbed>>

\* readStringUntil() gives up on the newline after its one-second timeout: the
\* text so far is taken for a command, and a line still being sent is cut.
FirmwareTimeout ==
  /\ board = "running" /\ lines = <<>> /\ tail # "empty"
  /\ Execute(tail)
  /\ tail' = "empty"
  /\ disturbed' = (disturbed \/ ~Idle)
  /\ UNCHANGED <<host, board, lines>>

\* Whatever stops the firmware loses its input and releases the relay.
StopFirmware(newBoard) ==
  /\ board' = newBoard
  /\ lines' = <<>> /\ tail' = "empty" /\ valve' = "0"
  /\ disturbed' = TRUE

Reset == board = "running" /\ StopFirmware("booting") /\ UNCHANGED <<host, replies>>

\* setup(): the relay is low and the banner is printed.
BootDone ==
  /\ board = "booting"
  /\ board' = "running"
  /\ Println("ready")
  /\ UNCHANGED <<host, lines, tail, valve, disturbed>>

\* The board is powered by the USB cable that carries the line.
Unplug ==
  /\ board # "off"
  /\ StopFirmware("off")
  /\ replies' = <<>>
  /\ fd' = IF fd = "live" THEN "dead" ELSE fd
  /\ UNCHANGED <<lifecycle, command, state, lastSent, sending, pos>>

Plug ==
  /\ board = "off" /\ board' = "booting"
  /\ UNCHANGED <<host, lines, tail, valve, replies, disturbed>>

-----------------------------------------------------------------------------
(* The driver.                                                             *)

\* The GPIO controller writes the command interface.
SetCommand(level) ==
  /\ Running /\ Idle
  /\ command' = level
  /\ UNCHANGED <<lifecycle, fd, state, lastSent, sending, pos, firmware, disturbed>>

\* open_uart(): raising DTR may reset the board; tcflush drops unread replies.
\* A failure makes on_configure return ERROR.
OnConfigure ==
  /\ lifecycle = "unconfigured"
  /\ \/ /\ board # "off"
        /\ lifecycle' = "inactive" /\ fd' = "live" /\ replies' = <<>>
        /\ \/ StopFirmware("booting")
           \/ UNCHANGED <<board, lines, tail, valve, disturbed>>
     \/ /\ lifecycle' = "finalized"
        /\ UNCHANGED <<fd, firmware, disturbed>>
  /\ UNCHANGED <<command, state, lastSent, sending, pos>>

OnCleanup ==
  /\ lifecycle = "inactive" /\ Idle
  /\ lifecycle' = "unconfigured" /\ fd' = "closed"
  /\ UNCHANGED <<command, state, lastSent, sending, pos, firmware, disturbed>>

\* send_line() starts on the line for the commanded level.
BeginLine ==
  /\ sending' = command
  /\ pos' = 0
  /\ disturbed' = (tail # "empty" \/ board # "running")

OnActivate ==
  /\ lifecycle = "inactive" /\ Idle
  /\ lifecycle' = "activating" /\ lastSent' = "nan"
  /\ BeginLine
  /\ UNCHANGED <<fd, command, state, firmware>>

OnDeactivate ==
  /\ lifecycle = "active" /\ Idle
  /\ lifecycle' = "inactive"
  /\ UNCHANGED <<fd, command, state, lastSent, sending, pos, firmware, disturbed>>

\* read(): every waiting line is parsed; only a bare echo of a command would
\* change state_, and an error of ::read() is only logged.
Echoed(reply) == IF reply = "pneumo1" THEN "1" ELSE IF reply = "pneumo0" THEN "0" ELSE "none"

ParseRx(old, rx) ==
  LET echoes == {i \in 1..Len(rx) : Echoed(rx[i]) # "none"}
  IN  IF echoes = {} THEN old
      ELSE Echoed(rx[CHOOSE i \in echoes : \A j \in echoes : j <= i])

Read ==
  /\ Running /\ Idle /\ replies # <<>>
  /\ state' = ParseRx(state, replies)
  /\ replies' = <<>>
  /\ UNCHANGED <<lifecycle, fd, command, lastSent, sending, pos, board, lines, tail,
                 valve, disturbed>>

\* Mutant of Write: the command that closes the valve is never new.
WriteRisingOnly ==
  /\ Running /\ Idle
  /\ lastSent = "nan" \/ (command = "1" /\ lastSent = "0")
  /\ Len(lines) < MaxLines
  /\ BeginLine
  /\ UNCHANGED <<lifecycle, fd, command, state, lastSent, firmware>>

\* write() with a level that differs from the one sent last.
Write ==
  /\ Running /\ Idle
  /\ lastSent = "nan" \/ command # lastSent
  /\ Len(lines) < MaxLines
  /\ BeginLine
  /\ UNCHANGED <<lifecycle, fd, command, state, lastSent, firmware>>

\* ::write() takes the next piece; after the last one write() returns OK.
SendPiece ==
  /\ ~Idle /\ fd = "live"
  /\ Len(lines) < MaxLines
  /\ Receive(sending, pos)
  /\ IF pos < 2
       THEN pos' = pos + 1 /\ UNCHANGED <<lifecycle, state, lastSent, sending>>
       ELSE /\ pos' = 0 /\ sending' = "none"
            /\ lastSent' = sending /\ state' = sending
            /\ lifecycle' = IF lifecycle = "activating" THEN "active" ELSE lifecycle
  /\ UNCHANGED <<fd, command, board, valve, replies>>

\* Mutant of SendFail: the level is remembered although its line is not out.
SendFailRemembered ==
  /\ ~Idle
  /\ sending' = "none" /\ pos' = 0 /\ lastSent' = sending /\ state' = sending
  /\ lifecycle' = IF lifecycle = "activating" THEN "active" ELSE lifecycle
  /\ UNCHANGED <<fd, command, firmware, disturbed>>

\* ::write() fails, on a dead descriptor always: write() returns ERROR, which
\* finalizes the component.
SendFail ==
  /\ ~Idle
  /\ sending' = "none" /\ pos' = 0
  /\ lifecycle' = "finalized"
  /\ UNCHANGED <<fd, command, state, lastSent, firmware, disturbed>>

\* The controller manager is killed and started again, on_init included.
Restart ==
  /\ lifecycle' = "unconfigured" /\ fd' = "closed"
  /\ command' = InitialLevel /\ state' = InitialLevel
  /\ lastSent' = "nan" /\ sending' = "none" /\ pos' = 0
  /\ UNCHANGED <<firmware, disturbed>>

-----------------------------------------------------------------------------
GripperInit ==
  /\ lifecycle = "unconfigured" /\ fd = "closed"
  /\ command = InitialLevel /\ state = InitialLevel
  /\ lastSent = "nan" /\ sending = "none" /\ pos = 0
  /\ board = "running" /\ lines = <<>> /\ tail = "empty" /\ valve = "0"
  /\ replies = <<>> /\ disturbed = FALSE

Firmware == FirmwareLine \/ FirmwareTimeout \/ BootDone
Environment == Reset \/ Unplug \/ Plug \/ Restart
Lifecycle == OnConfigure \/ OnCleanup \/ OnActivate \/ OnDeactivate
ControlLoop == Read \/ Write \/ SendPiece \/ SendFail \/ \E l \in Level : SetCommand(l)

GripperNext == Firmware \/ Environment \/ Lifecycle \/ ControlLoop

GripperSpec == GripperInit /\ [][GripperNext]_gripperVars

\* The control loop calls write() in every cycle and send_line() retries until
\* the line is out or fails; the firmware runs loop() for ever.
GripperFairness ==
  /\ WF_gripperVars(Write) /\ WF_gripperVars(SendPiece) /\ WF_gripperVars(fd = "dead" /\ SendFail)
  /\ WF_gripperVars(FirmwareLine) /\ WF_gripperVars(FirmwareTimeout) /\ WF_gripperVars(BootDone)

FairSpec == GripperSpec /\ GripperFairness

-----------------------------------------------------------------------------
TypeOK ==
  /\ lifecycle \in {"unconfigured", "inactive", "activating", "active", "finalized"}
  /\ fd \in {"closed", "live", "dead"}
  /\ command \in Level /\ state \in Level
  /\ lastSent \in Level \cup {"nan"}
  /\ sending \in Level \cup {"none"} /\ pos \in 0..2
  /\ board \in {"off", "booting", "running"}
  /\ lines \in Seq(Content) /\ tail \in Content /\ valve \in Level
  /\ replies \in Seq(Reply) /\ disturbed \in BOOLEAN

\* The position the valve has once the board has read everything sent to it.
Pending == IF lines = <<>> THEN valve ELSE lines[Len(lines)]

\* A running driver that is not in the middle of a line, and whose latest line
\* was neither cut nor lost, has told the board exactly what write() remembers
\* in last_sent_logic_: the level it will not send again is the valve's own.
LatestLineDelivered ==
  Running /\ Idle /\ lastSent # "nan" /\ ~disturbed => Pending = lastSent

\* The state interface shows the level that was sent last, whatever the board
\* has printed in the meantime and however late read() sees it: state_ is an
\* open-loop value, no reply of this firmware confirms or contradicts it.
StateIsLastSent == lastSent # "nan" => state = lastSent

\* The strengthening that makes the two invariants above inductive: send_line()
\* and the component's lifecycle agree, and as long as no input was lost or cut
\* the board's unterminated line is exactly what send_line() has handed over.
HandedOver == IF pos = 0 THEN "empty" ELSE IF pos = 1 THEN "prefix" ELSE sending

SendingInStep ==
  /\ Idle => pos = 0
  /\ ~Idle => lifecycle \in {"inactive", "activating", "active"}
  /\ lifecycle = "activating" => ~Idle
  /\ ~Idle /\ ~disturbed => board = "running" /\ tail = HandedOver

QuietInStep ==
  Idle /\ lifecycle # "finalized" /\ lastSent # "nan" /\ ~disturbed
    => board = "running" /\ tail = "empty" /\ Pending = lastSent

IInv == TypeOK /\ SendingInStep /\ QuietInStep /\ StateIsLastSent

\* Once the command stays, the component stays active and no input is lost or
\* cut any more, the valve settles on the command.
ValveSettles ==
  \A l \in Level :
    <>[](lifecycle = "active" /\ command = l /\ ~disturbed) => <>[](valve = l)
=============================================================================
