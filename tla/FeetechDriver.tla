--------------------------- MODULE FeetechDriver ---------------------------
(***************************************************************************)
(* The ros2_control driver of the Feetech servos and the half-duplex bus   *)
(* it talks over.  on_init() writes to one servo after the other and waits *)
(* for each acknowledgement; read() asks all of them at once and takes the *)
(* answers as they come; write() and on_deactivate() are broadcasts nobody *)
(* answers.  A position is a tick of the servo, the conversion to metres   *)
(* and back may lose a fraction of one.                                    *)
(***************************************************************************)
EXTENDS Integers, Sequences, FiniteSets

CONSTANTS
    Servos,         \* number of servos, in the order of joint_ids_
    Commanded,      \* joints with a command interface
    Ticks,          \* positions of a servo
    Midpoint,       \* kStsMidpoint
    ZeroTick,       \* the tick of the position 0.0 m
    MaxStarts       \* bound: times the driver is started

ASSUME FeetechAssumption ==
    /\ Servos \in Nat \ {0} /\ Commanded \subseteq 1..Servos
    /\ Ticks \subseteq Nat /\ Midpoint \in Ticks /\ ZeroTick \in Ticks /\ MaxStarts \in Nat

VARIABLES
    servo,      \* torque, EPROM lock, position and goal of each servo
    inbox,      \* answers in the input buffer that nobody has read: [id, tick]
    life,       \* the process and the lifecycle of the component
    step,       \* on_init(): the servo and the write it is at
    state,      \* state_hw_positions_
    cmd,        \* hw_positions_
    past        \* history: positions asked for last and held since the activation, whether
                \* an answer was ever late, nothing but the activation set a command,
                \* everything was written, the torque was ever switched off

vars == <<servo, inbox, life, step, state, cmd, past>>

Ids == 1..Servos
NaN == -1
Positions == [s \in Ids |-> servo[s].pos]

Unset == [s \in Ids |-> NaN]
AtZero == [s \in Ids |-> ZeroTick]
Nothing == [asked |-> Unset, held |-> Unset, late |-> FALSE, sound |-> FALSE, written |-> FALSE,
            slack |-> FALSE]

Init ==
    /\ servo \in [Ids -> [torque : {FALSE}, lock : BOOLEAN, pos : Ticks \ {ZeroTick}, goal : {ZeroTick}]]
    /\ inbox = <<>> /\ life = [at |-> "off", starts |-> 0] /\ step = [id |-> 1, do |-> "torque_off"]
    /\ state = AtZero /\ cmd = Unset
    /\ past = Nothing

Become(where) == life' = [life EXCEPT !.at = where]

-----------------------------------------------------------------------------
(* configure_joints_(): the writes to a servo, in order.                   *)
TorqueFirst(do, id) ==  \* mutant: the torque is switched on before the EPROM is locked
    CASE do = "torque_off" -> "unlock" [] do = "unlock" -> "parameters"
      [] do = "parameters" -> IF id \in Commanded THEN "torque_on" ELSE "lock"
      [] do = "torque_on" -> "lock"
      [] OTHER -> "done"
Following(do, id) ==
    CASE do = "torque_off" -> "unlock" [] do = "unlock" -> "parameters" [] do = "parameters" -> "lock"
      [] do = "lock" -> IF id \in Commanded THEN "torque_on" ELSE "done"
      [] OTHER -> "done"

(* What the servo does with a write.  It holds where it is when its torque *)
(* is switched on.                                                         *)
Written(v, do) ==
    CASE do = "torque_off" -> [v EXCEPT !.torque = FALSE]
      [] do = "unlock" -> [v EXCEPT !.lock = FALSE]
      [] do = "lock" -> [v EXCEPT !.lock = TRUE]
      [] do = "torque_on" -> [v EXCEPT !.torque = TRUE, !.goal = v.pos]
      [] OTHER -> v

GoesOn(acknowledged) == TRUE        \* mutant: the result of a write is not looked at
MayGoOn(acknowledged) == acknowledged

(* The write is lost, or its acknowledgement, or both arrive.              *)
Configure(heard, answered) ==
    /\ life.at = "init" /\ step.do # "done"
    /\ servo' = IF heard THEN [servo EXCEPT ![step.id] = Written(@, step.do)] ELSE servo
    /\ IF MayGoOn(heard /\ answered)
       THEN /\ UNCHANGED life
            /\ LET next == Following(step.do, step.id)
               IN  step' = IF next = "done" /\ step.id < Servos
                           THEN [id |-> step.id + 1, do |-> "torque_off"]
                           ELSE [step EXCEPT !.do = next]
       ELSE Become("failed") /\ UNCHANGED step
    /\ UNCHANGED <<inbox, state, cmd, past>>

(* init_transport_() and the YAML file, or validate_model_series_().       *)
OnInitFails ==
    /\ life.at = "init" /\ (step = [id |-> 1, do |-> "torque_off"] \/ step.do = "done")
    /\ Become("failed")
    /\ UNCHANGED <<servo, inbox, step, state, cmd, past>>
ValidateModelSeries ==
    /\ life.at = "init" /\ step.do = "done"
    /\ Become("inactive")
    /\ UNCHANGED <<servo, inbox, step, state, cmd, past>>

-----------------------------------------------------------------------------
(* sync_read(): the servos that hear the request answer in their order; an *)
(* answer that comes too late waits for the next read, and no answer is    *)
(* asked for its id.                                                       *)
Nth(of, i) == CHOOSE s \in of : Cardinality({r \in of : r <= s}) = i
Answers(of) == [i \in 1..Cardinality(of) |-> servo[Nth(of, i)].pos]
CollectedAnyway(all) ==     \* mutant: a timeout leaves the remaining joints as they are
    [ok |-> TRUE, data |-> [s \in Ids |-> IF s <= Len(all) THEN all[s] ELSE state[s]]]
Collected(all) ==
    IF Len(all) >= Servos THEN [ok |-> TRUE, data |-> [s \in Ids |-> all[s]]]
    ELSE [ok |-> FALSE, data |-> state]

SyncRead(answering, intime, ok) ==
    LET sent == Answers(answering)
        r == Collected(inbox \o SubSeq(sent, 1, intime))
        left == IF r.ok /\ Len(inbox) + intime > Servos
                THEN SubSeq(inbox \o sent, Servos + 1, Len(inbox) + intime) ELSE <<>>
    IN  /\ r.ok = ok
        /\ inbox' = left \o SubSeq(sent, intime + 1, Len(sent))
        /\ state' = r.data

Reads(ok) == \E answering \in SUBSET Ids : \E intime \in 0..Cardinality(answering) :
                /\ SyncRead(answering, intime, ok)
                /\ past' = [past EXCEPT !.asked = IF inbox' = <<>> /\ ok THEN Positions ELSE Unset,
                                        !.late = @ \/ inbox' # <<>>]

Read(ok) ==
    /\ life.at = "read" /\ Reads(ok)
    /\ Become(IF ok THEN "write" ELSE "finalized")
    /\ UNCHANGED <<servo, step, cmd>>

(* on_activate(): what read() returns is not looked at.                    *)
CommandKept(c, s) == [j \in Ids |-> IF c[j] = NaN THEN s[j] ELSE c[j]]  \* mutant: an old command is kept
InitialCommand(c, s) == s
OnActivate(ok) ==
    /\ life.at = "inactive"
    /\ \E answering \in SUBSET Ids : \E intime \in 0..Cardinality(answering) :
          SyncRead(answering, intime, ok)
    /\ cmd' = InitialCommand(cmd, state')
    /\ LET late == past.late \/ inbox' # <<>>
       IN  past' = [past EXCEPT !.held = IF ok /\ ~late THEN Positions ELSE Unset, !.late = late,
                                !.sound = ok /\ ~late, !.written = FALSE]
    /\ Become("read")
    /\ UNCHANGED <<servo, step>>

(* from_radians() cuts off what to_meters() and from_meters() have left of *)
(* the tick.                                                               *)
Rounded(t) == {t} \cup IF t > Midpoint THEN {t - 1} ELSE IF t < Midpoint THEN {t + 1} ELSE {}

(* The goals of one broadcast: each servo hears it or not.                 *)
Write ==
    /\ life.at = "write"
    /\ servo' \in [Ids -> {[v EXCEPT !.goal = g] : v \in {servo[s] : s \in Ids}, g \in Ticks}]
    /\ \A s \in Ids : \/ servo'[s] = servo[s]
                      \/ /\ s \in Commanded
                         /\ \E g \in Rounded(cmd[s]) : servo'[s] = [servo[s] EXCEPT !.goal = g]
    /\ past' = [past EXCEPT !.asked = Unset, !.written = \A s \in Commanded : servo'[s].goal \in Rounded(cmd[s])]
    /\ Become("read")
    /\ UNCHANGED <<inbox, step, state, cmd>>
(* The port is gone. *)
WriteFails == life.at = "write" /\ Become("finalized") /\ UNCHANGED <<servo, inbox, step, state, cmd, past>>

OnDeactivate(heard) ==
    /\ life.at = "read"
    /\ servo' = [s \in Ids |-> IF s \in heard THEN [servo[s] EXCEPT !.torque = FALSE] ELSE servo[s]]
    /\ past' = [past EXCEPT !.slack = TRUE, !.written = FALSE, !.sound = FALSE, !.held = Unset]
    /\ Become("inactive")
    /\ UNCHANGED <<inbox, step, state, cmd>>

-----------------------------------------------------------------------------
(* The controller, the arm, and the process.                               *)
SetCommand(s, t) ==
    /\ life.at = "write" /\ s \in Commanded
    /\ cmd' = [cmd EXCEPT ![s] = t]
    /\ past' = [past EXCEPT !.sound = FALSE, !.held = Unset]
    /\ UNCHANGED <<servo, inbox, life, step, state>>

Move(s) ==
    /\ servo[s].pos # servo[s].goal \/ ~servo[s].torque
    /\ \E p \in Ticks :
          /\ IF servo[s].torque
             THEN p = servo[s].pos + (IF servo[s].goal > servo[s].pos THEN 1 ELSE -1)
             ELSE p \in {servo[s].pos - 1, servo[s].pos + 1}
          /\ servo' = [servo EXCEPT ![s].pos = p]
    /\ UNCHANGED <<inbox, life, step, state, cmd, past>>

(* The process is killed anywhere and started again: the port is opened    *)
(* empty, the servos are as they were left.                                *)
Die ==
    /\ life.at # "off" /\ Become("off")
    /\ step' = [id |-> 1, do |-> "torque_off"]
    /\ inbox' = <<>> /\ state' = AtZero /\ cmd' = Unset /\ past' = Nothing
    /\ UNCHANGED servo
Start ==
    /\ life.at = "off" /\ life.starts < MaxStarts
    /\ life' = [at |-> "init", starts |-> life.starts + 1]
    /\ UNCHANGED <<servo, inbox, step, state, cmd, past>>

Next ==
    \/ Start \/ Die \/ OnInitFails \/ ValidateModelSeries \/ Write \/ WriteFails
    \/ \E heard, answered \in BOOLEAN : Configure(heard, answered)
    \/ \E ok \in BOOLEAN : Read(ok) \/ OnActivate(ok)
    \/ \E heard \in SUBSET Ids : OnDeactivate(heard)
    \/ \E s \in Ids : Move(s) \/ \E t \in Ticks : SetCommand(s, t)

Spec == Init /\ [][Next]_vars

-----------------------------------------------------------------------------
(* A servo never has torque while its EPROM can be written, wherever       *)
(* on_init() failed or was killed and whatever the next start does.        *)
EpromGuarded == \A s \in Ids : servo[s].torque => servo[s].lock

(* A component that came up has every servo locked and with the torque its *)
(* command interface needs, until it is deactivated for the first time.    *)
ComesUpConfigured ==
    life.at \in {"inactive", "read", "write"} /\ ~past.slack
        => \A s \in Ids : servo[s].lock /\ (servo[s].torque <=> s \in Commanded)

(* A successful read() has stored for each joint the position its own      *)
(* servo had when it was asked, unless an answer has ever come too late.   *)
ReadIsCurrent == life.at = "write" /\ ~past.late => state = past.asked

(* Activation does not move the arm: what is written before a controller   *)
(* commands anything is where the servos were, up to a tick, if they could *)
(* be read.                                                                *)
HoldsAtActivation ==
    past.written /\ past.sound
        => \A s \in Commanded : servo[s].goal - past.held[s] \in {-1, 0, 1}
=============================================================================
