----------------------------- MODULE RtdeWriter -----------------------------
(***************************************************************************)
(* RTDEWriter: commands are stored in one of two data packages, each with  *)
(* a mask that says which fields the robot shall apply; a thread swaps the *)
(* packages, sends the one that was stored into and clears its masks.  A   *)
(* command is its number, a field whose mask is clear is 0.                *)
(***************************************************************************)
EXTENDS Integers

CONSTANTS
    Fields,     \* outputs with a mask of their own
    Commands    \* bound: commands that are given

ASSUME WriterAssumption == Commands \in Nat /\ Fields # {}

VARIABLES
    writer,     \* running_, new_data_available_, the thread's place, the two packages
    given,      \* the last command that was accepted for each field
    applied     \* the last command the robot has applied to each field

Clear == [f \in Fields |-> 0]
Packages == [Fields -> 0..Commands]
Writer == [running : BOOLEAN, new : BOOLEAN, at : {"none", "wait", "send"}, store : Packages,
           send : Packages, since : 1..(Commands + 1)]
RtdeWriterInit ==
    /\ writer = [running |-> FALSE, new |-> FALSE, at |-> "none", store |-> Clear, send |-> Clear,
                 since |-> 1]
    /\ given = Clear /\ applied = Clear

LastGiven == CHOOSE n \in 0..Commands : (\E f \in Fields : given[f] = n) /\ \A f \in Fields : given[f] <= n

(* sendStandardDigitalOutput() and the like set one field, sendPackage()   *)
(* replaces the whole package; both report success, running or not.        *)
SendField(f) ==
    /\ LastGiven < Commands
    /\ writer' = [writer EXCEPT !.store[f] = LastGiven + 1, !.new = TRUE]
    /\ given' = [given EXCEPT ![f] = LastGiven + 1]
    /\ UNCHANGED applied
SendPackage(masked) ==
    /\ LastGiven < Commands
    /\ LET n == LastGiven + 1
       IN  /\ writer' = [writer EXCEPT !.store = [f \in Fields |-> IF f \in masked THEN n ELSE 0],
                                       !.new = TRUE]
           /\ given' = [f \in Fields |-> IF f \in masked THEN n ELSE given[f]]
    /\ UNCHANGED applied

(* init(): the thread is started; what was stored before waits for the     *)
(* next command.  since is the first command of this run of the thread.    *)
Started(w) == [w EXCEPT !.running = TRUE, !.new = FALSE, !.at = "wait", !.since = LastGiven + 1]
Stopped(w) == [w EXCEPT !.running = FALSE]

Swap(w) == [w EXCEPT !.store = w.send, !.send = w.store, !.new = FALSE, !.at = "send"]
MasksKept(w) == [w EXCEPT !.at = "wait"]                              \* mutant: no resetMasks()
FlagReset(w) == [w EXCEPT !.send = Clear, !.at = "wait", !.new = FALSE] \* mutant: the flag is cleared after sending
Sent(w) == [w EXCEPT !.send = Clear, !.at = "wait"]

WriterSwaps ==
    /\ writer.at = "wait" /\ writer.running /\ writer.new
    /\ writer' = Swap(writer)
    /\ UNCHANGED <<given, applied>>
(* The package reaches the robot or the connection is gone: the result of  *)
(* write() is not looked at.                                               *)
WriterSends(arrives) ==
    /\ writer.at = "send"
    /\ writer' = Sent(writer)
    /\ applied' = IF arrives
                  THEN [f \in Fields |-> IF writer.send[f] # 0 THEN writer.send[f] ELSE applied[f]]
                  ELSE applied
    /\ UNCHANGED given
WriterEnds ==
    /\ writer.at = "wait" /\ ~writer.running
    /\ writer' = [writer EXCEPT !.at = "none"]
    /\ UNCHANGED <<given, applied>>
=============================================================================
