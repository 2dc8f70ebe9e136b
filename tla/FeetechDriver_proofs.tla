------------------------ MODULE FeetechDriver_proofs ------------------------
(***************************************************************************)
(* For every number of servos and every choice of commanded joints: no     *)
(* servo has torque while its EPROM can be written, a component that came  *)
(* up has configured all of them, positions are read from the right servo  *)
(* and activation does not move the arm.                                   *)
(***************************************************************************)
EXTENDS FeetechDriver, FiniteSetTheorems, TLAPS

USE FeetechAssumption

-----------------------------------------------------------------------------
(* What the next write to a servo relies on, and what the servos before it *)
(* have been given.                                                        *)
ServoState == [torque : BOOLEAN, lock : BOOLEAN, pos : Ticks, goal : Ticks]
Writes == {"torque_off", "unlock", "parameters", "lock", "torque_on", "done"}
Places == {"off", "init", "failed", "inactive", "read", "write", "finalized"}

BusTypeOK == /\ servo \in [Ids -> ServoState]
             /\ step \in [id : Ids, do : Writes]
             /\ life \in [at : Places, starts : Nat]
             /\ DOMAIN past = {"asked", "held", "late", "sound", "written", "slack"}

Configured(v, s) == v.lock /\ (v.torque <=> s \in Commanded)

StepRelies ==
    life.at = "init" =>
        /\ step.do \in {"unlock", "parameters", "lock"} => ~servo[step.id].torque
        /\ step.do = "torque_on" =>
              servo[step.id].lock /\ ~servo[step.id].torque /\ step.id \in Commanded
        /\ step.do = "done" => step.id = Servos /\ Configured(servo[step.id], step.id)
        /\ \A s \in Ids : s < step.id => Configured(servo[s], s)

StepBegins == life.at = "off" => step = [id |-> 1, do |-> "torque_off"]

IInv == BusTypeOK /\ EpromGuarded /\ StepBegins /\ StepRelies /\ ComesUpConfigured

-----------------------------------------------------------------------------
\* What a write leaves of the other fields.
LEMMA WrittenState ==
  ASSUME NEW v \in ServoState, NEW do \in Writes
  PROVE  /\ Written(v, do) \in ServoState
         /\ do = "torque_off" => ~Written(v, do).torque /\ Written(v, do).lock = v.lock
         /\ do = "unlock" => ~Written(v, do).lock /\ Written(v, do).torque = v.torque
         /\ do = "parameters" => Written(v, do) = v
         /\ do = "lock" => Written(v, do).lock /\ Written(v, do).torque = v.torque
         /\ do = "torque_on" => Written(v, do).torque /\ Written(v, do).lock = v.lock
  BY DEF Written, ServoState, Writes

\* The order of the writes: the EPROM is opened after the torque is off and locked
\* before the torque is switched on, which a joint without commands never has.
LEMMA Order ==
  ASSUME NEW do \in Writes, NEW id \in Ids
  PROVE  /\ Following(do, id) \in Writes
         /\ Following(do, id) \in {"unlock", "parameters", "lock"}
               => do \in {"torque_off", "unlock", "parameters"}
         /\ Following(do, id) = "torque_on" => do = "lock" /\ id \in Commanded
         /\ Following(do, id) = "done" => do \in {"torque_on", "done"} \/ (do = "lock" /\ id \notin Commanded)
         /\ Following(do, id) # "torque_off"
  BY DEF Following, Writes

LEMMA InitInv == Init => IInv
<1> SUFFICES ASSUME Init PROVE IInv
  OBVIOUS
<1>1. servo \in [Ids -> ServoState] /\ \A s \in Ids : ~servo[s].torque
  BY DEF Init, ServoState
<1>2. step \in [id : Ids, do : Writes] /\ step = [id |-> 1, do |-> "torque_off"]
  BY DEF Init, Ids, Writes
<1>3. life \in [at : Places, starts : Nat] /\ life.at = "off"
  BY DEF Init, Places
<1>4. DOMAIN past = {"asked", "held", "late", "sound", "written", "slack"}
  BY DEF Init, Nothing
<1> QED
  BY <1>1, <1>2, <1>3, <1>4 DEF IInv, BusTypeOK, EpromGuarded, StepBegins, StepRelies, ComesUpConfigured

\* A step outside on_init() that leaves the servos' torque and lock.
LEMMA FlagsKept ==
  ASSUME IInv, BusTypeOK', UNCHANGED step,
         life' = life \/ life'.at \in {"failed", "finalized"}
           \/ (life.at \in {"inactive", "read", "write"} /\ life'.at \in {"inactive", "read", "write"}),
         past'.slack = past.slack,
         \A s \in Ids : servo'[s].torque = servo[s].torque /\ servo'[s].lock = servo[s].lock
  PROVE  IInv'
<1>1. EpromGuarded'
  BY DEF IInv, EpromGuarded
<1>2. StepBegins' /\ (life' # life => life'.at \notin {"off", "init"})
  BY DEF IInv, StepBegins
<1>3. step.id \in Ids
  BY DEF IInv, BusTypeOK
<1>4. StepRelies'
  BY <1>2, <1>3 DEF IInv, StepRelies, Configured
<1>5. ComesUpConfigured'
  BY <1>2 DEF IInv, ComesUpConfigured
<1> QED
  BY <1>1, <1>2, <1>4, <1>5 DEF IInv

LEMMA NextInv == IInv /\ [Next]_vars => IInv'
<1> SUFFICES ASSUME IInv, [Next]_vars PROVE IInv'
  OBVIOUS
<1>0. BusTypeOK /\ EpromGuarded /\ StepBegins /\ StepRelies /\ ComesUpConfigured
  BY DEF IInv
<1>1. ASSUME NEW heard \in BOOLEAN, NEW answered \in BOOLEAN, Configure(heard, answered)
      PROVE  IInv'
  <2>1. PICK id \in Ids, do \in Writes : step = [id |-> id, do |-> do]
    BY <1>0 DEF BusTypeOK
  <2>2. servo[id] \in ServoState /\ servo \in [Ids -> ServoState]
    BY <1>0 DEF BusTypeOK
  <2>3. life.at = "init" /\ do # "done"
    BY <1>1, <2>1 DEF Configure
  <2>4. /\ servo' \in [Ids -> ServoState]
        /\ \A s \in Ids \ {id} : servo'[s] = servo[s]
        /\ servo'[id] = IF heard THEN Written(servo[id], do) ELSE servo[id]
    BY <1>1, <2>1, <2>2, WrittenState DEF Configure
  <2>5. /\ do \in {"unlock", "parameters", "lock"} => ~servo[id].torque
        /\ do = "torque_on" => servo[id].lock /\ ~servo[id].torque /\ id \in Commanded
        /\ \A s \in Ids : s < id => Configured(servo[s], s)
    BY <1>0, <2>1, <2>3 DEF StepRelies
  <2>6. EpromGuarded'
    <3>1. servo[id].torque => servo[id].lock
      BY <1>0 DEF EpromGuarded
    <3>2. Written(servo[id], do).torque => Written(servo[id], do).lock
      BY <2>2, <2>3, <2>5, <3>1, WrittenState DEF Writes
    <3> QED
      BY <1>0, <2>4, <3>1, <3>2 DEF EpromGuarded
  <2>7. past' = past
    BY <1>1 DEF Configure
  <2>8. CASE ~(heard /\ answered)
    <3>1. life' = [life EXCEPT !.at = "failed"] /\ step' = step
      BY <1>1, <2>8 DEF Configure, MayGoOn, Become
    <3>2. BusTypeOK' /\ life'.at = "failed"
      BY <1>0, <2>4, <2>7, <3>1 DEF BusTypeOK, Places
    <3> QED
      BY <2>6, <3>2 DEF IInv, StepBegins, StepRelies, ComesUpConfigured
  <2>9. CASE heard /\ answered
    <3> DEFINE next == Following(do, id)
    <3>1. life' = life
      BY <1>1, <2>9 DEF Configure, MayGoOn
    <3>2. step' = IF next = "done" /\ id < Servos THEN [id |-> id + 1, do |-> "torque_off"]
                  ELSE [id |-> id, do |-> next]
      BY <1>1, <2>1, <2>9 DEF Configure, MayGoOn
    <3>3. next \in Writes
      BY Order
    <3>4. step' \in [id : Ids, do : Writes]
      BY <3>2, <3>3 DEF Ids, Writes
    <3>5. BusTypeOK'
      BY <1>0, <2>4, <2>7, <3>1, <3>4 DEF BusTypeOK
    <3>6. servo'[id] = Written(servo[id], do)
      BY <2>4, <2>9
    <3>7. next = "done" => Configured(servo'[id], id)
      BY <2>2, <2>3, <2>5, <3>6, Order, WrittenState DEF Configured
    <3>8. next \in {"unlock", "parameters", "lock"} => ~servo'[id].torque
      BY <2>2, <2>3, <2>5, <3>6, Order, WrittenState
    <3>9. next = "torque_on" => servo'[id].lock /\ ~servo'[id].torque /\ id \in Commanded
      BY <2>2, <2>3, <2>5, <3>6, Order, WrittenState
    <3>10. \A s \in Ids : s < id => Configured(servo'[s], s)
      BY <2>4, <2>5 DEF Ids
    <3>11. CASE next = "done" /\ id < Servos
      <4>1. step'.id = id + 1 /\ step'.do = "torque_off"
        BY <3>2, <3>11
      <4>2. \A s \in Ids : s < id + 1 => Configured(servo'[s], s)
        BY <3>7, <3>10, <3>11 DEF Ids
      <4>3. StepRelies'
        BY <4>1, <4>2 DEF StepRelies
      <4> QED
        BY <2>3, <2>6, <3>1, <3>5, <4>3 DEF IInv, StepBegins, ComesUpConfigured
    <3>12. CASE ~(next = "done" /\ id < Servos)
      <4>1. step'.id = id /\ step'.do = next
        BY <3>2, <3>12
      <4>2. next = "done" => id = Servos
        BY <3>12 DEF Ids
      <4>3. StepRelies'
        BY <3>7, <3>8, <3>9, <3>10, <4>1, <4>2 DEF StepRelies
      <4> QED
        BY <2>3, <2>6, <3>1, <3>5, <4>3 DEF IInv, StepBegins, ComesUpConfigured
    <3> QED
      BY <3>11, <3>12
  <2> QED
    BY <2>8, <2>9
<1>2. CASE Start
  <2>1. life' = [at |-> "init", starts |-> life.starts + 1] /\ life.starts \in Nat
    BY <1>0, <1>2 DEF Start, BusTypeOK
  <2>2. step = [id |-> 1, do |-> "torque_off"]
    BY <1>0, <1>2 DEF Start, StepBegins
  <2>3. UNCHANGED <<servo, step, past>>
    BY <1>2 DEF Start
  <2>4. BusTypeOK' /\ EpromGuarded'
    BY <1>0, <2>1, <2>3 DEF BusTypeOK, EpromGuarded, Places
  <2>5. StepRelies'
    BY <2>1, <2>2, <2>3 DEF StepRelies, Ids
  <2> QED
    BY <2>1, <2>4, <2>5 DEF IInv, StepBegins, ComesUpConfigured
<1>3. CASE Die
  <2>1. /\ life' = [life EXCEPT !.at = "off"] /\ step' = [id |-> 1, do |-> "torque_off"]
        /\ past' = Nothing /\ servo' = servo
    BY <1>3 DEF Die, Become
  <2>2. BusTypeOK' /\ life'.at = "off"
    BY <1>0, <2>1 DEF BusTypeOK, Places, Writes, Ids, Nothing
  <2> QED
    BY <1>0, <2>1, <2>2 DEF IInv, EpromGuarded, StepBegins, StepRelies, ComesUpConfigured
<1>4. CASE OnInitFails \/ WriteFails
  <2>1. \E at \in {"failed", "finalized"} : life' = [life EXCEPT !.at = at]
    BY <1>4 DEF OnInitFails, WriteFails, Become
  <2>2. UNCHANGED <<servo, step, past>>
    BY <1>4 DEF OnInitFails, WriteFails
  <2>3. BusTypeOK' /\ life'.at \in {"failed", "finalized"}
    BY <1>0, <2>1, <2>2 DEF BusTypeOK, Places
  <2> QED
    BY <2>2, <2>3, FlagsKept
<1>5. CASE ValidateModelSeries
  <2>1. life' = [life EXCEPT !.at = "inactive"] /\ UNCHANGED <<servo, step, past>>
    BY <1>5 DEF ValidateModelSeries, Become
  <2>2. BusTypeOK' /\ life'.at = "inactive"
    BY <1>0, <2>1 DEF BusTypeOK, Places
  <2>3. \A s \in Ids : Configured(servo[s], s)
    BY <1>0, <1>5 DEF ValidateModelSeries, StepRelies, Ids
  <2> QED
    BY <1>0, <2>1, <2>2, <2>3
    DEF IInv, EpromGuarded, StepBegins, StepRelies, ComesUpConfigured, Configured
<1>6. ASSUME NEW ok \in BOOLEAN, Read(ok) \/ OnActivate(ok) PROVE IInv'
  <2>1. UNCHANGED <<servo, step>>
    BY <1>6 DEF Read, OnActivate
  <2>2. /\ life.at \in {"inactive", "read"}
        /\ \E at \in {"read", "write", "finalized"} : life' = [life EXCEPT !.at = at]
    BY <1>6 DEF Read, OnActivate, Become
  <2>3. \E a, h, l, n, w : \/ past' = [past EXCEPT !.asked = a, !.late = l]
                          \/ past' = [past EXCEPT !.held = h, !.late = l, !.sound = n, !.written = w]
    <3>1. CASE Read(ok)
      BY <3>1, Zenon DEF Read, Reads
    <3>2. CASE OnActivate(ok)
      BY <3>2, Zenon DEF OnActivate
    <3> QED
      BY <1>6, <3>1, <3>2
  <2>4. DOMAIN past' = DOMAIN past /\ past'.slack = past.slack
    BY <1>0, <2>3 DEF BusTypeOK
  <2>5. BusTypeOK' /\ life'.at \in {"read", "write", "finalized"}
    BY <1>0, <2>1, <2>2, <2>4 DEF BusTypeOK, Places
  <2> QED
    BY <2>1, <2>2, <2>4, <2>5, FlagsKept
<1>7. CASE Write
  <2>1. /\ UNCHANGED step /\ life.at = "write" /\ life' = [life EXCEPT !.at = "read"]
    BY <1>7 DEF Write, Become
  <2>2. \E w : past' = [past EXCEPT !.asked = Unset, !.written = w]
    BY <1>7, Zenon DEF Write
  <2>3. DOMAIN past' = DOMAIN past /\ past'.slack = past.slack
    BY <1>0, <2>2 DEF BusTypeOK
  <2>4. \A s \in Ids : \/ servo'[s] = servo[s]
                       \/ \E g \in Rounded(cmd[s]) : servo'[s] = [servo[s] EXCEPT !.goal = g]
    BY <1>7 DEF Write
  <2>5. servo' \in [Ids -> ServoState]
    <3>1. \A s \in Ids : servo'[s] \in {[v EXCEPT !.goal = g] : v \in {servo[r] : r \in Ids}, g \in Ticks}
      BY <1>7 DEF Write
    <3>2. ASSUME NEW v \in ServoState, NEW g \in Ticks PROVE [v EXCEPT !.goal = g] \in ServoState
      BY DEF ServoState
    <3>3. \A s \in Ids : servo'[s] \in ServoState
      BY <1>0, <3>1, <3>2 DEF BusTypeOK
    <3>4. servo' = [s \in Ids |-> servo'[s]]
      BY <1>7 DEF Write
    <3> QED
      BY <3>3, <3>4
  <2>6. ASSUME NEW s \in Ids
        PROVE servo'[s].torque = servo[s].torque /\ servo'[s].lock = servo[s].lock
    BY <1>0, <2>4 DEF BusTypeOK, ServoState
  <2>7. BusTypeOK' /\ life'.at = "read"
    BY <1>0, <2>1, <2>3, <2>5 DEF BusTypeOK, Places
  <2> QED
    BY <2>1, <2>3, <2>6, <2>7, FlagsKept
<1>8. ASSUME NEW heard \in SUBSET Ids, OnDeactivate(heard) PROVE IInv'
  <2>1. UNCHANGED step /\ life' = [life EXCEPT !.at = "inactive"]
    BY <1>8 DEF OnDeactivate, Become
  <2>2. DOMAIN past' = DOMAIN past /\ past'.slack
    BY <1>0, <1>8 DEF OnDeactivate, BusTypeOK
  <2>3. /\ servo' \in [Ids -> ServoState]
        /\ \A s \in Ids : servo'[s] = servo[s] \/ servo'[s] = [servo[s] EXCEPT !.torque = FALSE]
    BY <1>0, <1>8 DEF OnDeactivate, BusTypeOK, ServoState
  <2>4. EpromGuarded'
    BY <1>0, <2>3 DEF EpromGuarded, BusTypeOK, ServoState
  <2>5. BusTypeOK' /\ life'.at = "inactive"
    BY <1>0, <2>1, <2>2, <2>3 DEF BusTypeOK, Places
  <2> QED
    BY <2>2, <2>4, <2>5 DEF IInv, StepBegins, StepRelies, ComesUpConfigured
<1>9. ASSUME NEW s \in Ids, Move(s) PROVE IInv'
  <2>1. UNCHANGED <<step, life, past>>
    BY <1>9 DEF Move
  <2>2. PICK p \in Ticks : servo' = [servo EXCEPT ![s].pos = p]
    BY <1>9 DEF Move
  <2>3. /\ servo' \in [Ids -> ServoState]
        /\ \A r \in Ids : servo'[r].torque = servo[r].torque /\ servo'[r].lock = servo[r].lock
    BY <1>0, <2>2 DEF BusTypeOK, ServoState
  <2>4. BusTypeOK'
    BY <1>0, <2>1, <2>3 DEF BusTypeOK
  <2> QED
    BY <2>1, <2>3, <2>4, FlagsKept
<1>10. ASSUME NEW s \in Ids, NEW t \in Ticks, SetCommand(s, t) PROVE IInv'
  <2>1. UNCHANGED <<servo, step, life>>
    BY <1>10 DEF SetCommand
  <2>2. DOMAIN past' = DOMAIN past /\ past'.slack = past.slack
    BY <1>0, <1>10 DEF SetCommand, BusTypeOK
  <2>3. BusTypeOK'
    BY <1>0, <2>1, <2>2 DEF BusTypeOK
  <2> QED
    BY <2>1, <2>2, <2>3, FlagsKept
<1>11. CASE UNCHANGED vars
  <2>1. UNCHANGED <<servo, step, life, past>>
    BY <1>11 DEF vars
  <2>2. BusTypeOK'
    BY <1>0, <2>1 DEF BusTypeOK
  <2> QED
    BY <2>1, <2>2, FlagsKept
<1> QED
  BY <1>1, <1>2, <1>3, <1>4, <1>5, <1>6, <1>7, <1>8, <1>9, <1>10, <1>11 DEF Next

(* The invariant: with the types, what the next write relies on and what   *)
(* the servos before it have been given.                                   *)
THEOREM InductiveInvariant == Spec => []IInv
<1> QED
  BY InitInv, NextInv, PTL DEF Spec

(* The EPROM of a servo with torque is locked, wherever on_init() failed   *)
(* or was killed.                                                          *)
THEOREM EpromIsGuarded == Spec => []EpromGuarded
<1>1. IInv => EpromGuarded
  BY DEF IInv
<1> QED
  BY <1>1, InductiveInvariant, PTL

(* on_init() succeeds only when every servo has been configured.           *)
THEOREM UpMeansConfigured == Spec => []ComesUpConfigured
<1>1. IInv => ComesUpConfigured
  BY DEF IInv
<1> QED
  BY <1>1, InductiveInvariant, PTL
-----------------------------------------------------------------------------
(* What read() has stored and what is held since the activation.           *)
Ring == [Ids -> Ticks \cup {NaN}]
PastTypeOK ==
    past \in [asked : Ring, held : Ring, late : BOOLEAN, sound : BOOLEAN, written : BOOLEAN, slack : BOOLEAN]

(* Only a late answer is ever left unread.                                 *)
NothingUnread == ~past.late => inbox = <<>>
(* The command is still the one of the activation.                         *)
SoundHolds ==
    past.sound => /\ life.at \notin {"off", "init", "failed"}
                  /\ cmd = past.held /\ past.held \in [Ids -> Ticks]

HoldInv == PastTypeOK /\ NothingUnread /\ SoundHolds /\ ReadIsCurrent /\ HoldsAtActivation

LEMMA HowMany == ASSUME NEW of \in SUBSET Ids PROVE Cardinality(of) \in Nat
<1>1. IsFiniteSet(Ids)
  BY FS_Interval DEF Ids
<1> QED
  BY <1>1, FS_Subset, FS_CardinalityType

\* All servos of the bus answer when as many answers are there as servos.
LEMMA EveryServo ==
  ASSUME NEW of \in SUBSET Ids, Cardinality(of) >= Servos
  PROVE  of = Ids /\ Cardinality(of) = Servos
<1>1. IsFiniteSet(Ids) /\ Cardinality(Ids) = Servos
  BY FS_Interval DEF Ids
<1>2. IsFiniteSet(of) /\ Cardinality(of) <= Cardinality(Ids)
      /\ (Cardinality(Ids) = Cardinality(of) => Ids = of)
  BY <1>1, FS_Subset
<1>3. Cardinality(of) \in Nat
  BY <1>2, FS_CardinalityType
<1> QED
  BY <1>1, <1>2, <1>3

\* The order of the answers is that of the ids.
LEMMA InOrder ==
  ASSUME NEW i \in Ids
  PROVE  Nth(Ids, i) = i
<1>1. ASSUME NEW s \in Ids PROVE Cardinality({r \in Ids : r <= s}) = s
  <2>1. {r \in Ids : r <= s} = 1..s
    BY DEF Ids
  <2>2. Cardinality(1..s) = s
    BY FS_Interval DEF Ids
  <2> QED
    BY <2>1, <2>2
<1>2. Cardinality({r \in Ids : r <= i}) = i
  BY <1>1
<1>3. \A s \in Ids : Cardinality({r \in Ids : r <= s}) = i => s = i
  BY <1>1
<1> QED
  BY <1>2, <1>3 DEF Nth

LEMMA AnswersOfAll ==
  ASSUME NEW of \in SUBSET Ids, Cardinality(of) \in Nat
  PROVE  /\ Answers(of) \in Seq({servo[Nth(of, i)].pos : i \in 1..Cardinality(of)})
         /\ Len(Answers(of)) = Cardinality(of)
         /\ Cardinality(of) >= Servos => \A s \in Ids : Answers(of)[s] = servo[s].pos
<1>1. /\ Answers(of) \in Seq({servo[Nth(of, i)].pos : i \in 1..Cardinality(of)})
      /\ Len(Answers(of)) = Cardinality(of)
  BY DEF Answers
<1>2. ASSUME Cardinality(of) >= Servos, NEW s \in Ids
      PROVE  Answers(of)[s] = servo[s].pos
  <2>1. of = Ids /\ s \in 1..Cardinality(of)
    BY <1>2, EveryServo DEF Ids
  <2>2. Answers(of)[s] = servo[Nth(Ids, s)].pos
    BY <2>1 DEF Answers
  <2> QED
    BY <2>2, InOrder
<1> QED
  BY <1>1, <1>2

\* A read that succeeds with nothing unread stores where the servos are.
LEMMA ReadTells ==
  ASSUME inbox = <<>>,
         \E answering \in SUBSET Ids : \E intime \in 0..Cardinality(answering) :
            SyncRead(answering, intime, TRUE)
  PROVE  state' = Positions
<1> PICK answering \in SUBSET Ids :
       \E intime \in 0..Cardinality(answering) : SyncRead(answering, intime, TRUE)
  OBVIOUS
<1> PICK intime \in 0..Cardinality(answering) : SyncRead(answering, intime, TRUE)
  OBVIOUS
<1>0. Cardinality(answering) \in Nat
  BY HowMany
<1> DEFINE sent == Answers(answering)
           all == inbox \o SubSeq(sent, 1, intime)
<1>1. /\ sent \in Seq({servo[Nth(answering, i)].pos : i \in 1..Cardinality(answering)})
      /\ Len(sent) = Cardinality(answering)
      /\ Cardinality(answering) >= Servos => \A s \in Ids : sent[s] = servo[s].pos
  BY <1>0, AnswersOfAll
<1>2. /\ Len(all) = intime
      /\ \A i \in 1..intime : all[i] = sent[i]
  <2> HIDE DEF sent
  <2>1. all = SubSeq(sent, 1, intime)
    BY <1>1
  <2> QED
    BY <1>1, <2>1
<1>3. Collected(all).ok = TRUE /\ state' = Collected(all).data
  BY DEF SyncRead
<1> HIDE DEF all, sent
<1>4. intime >= Servos /\ Collected(all).data = [s \in Ids |-> all[s]]
  BY <1>2, <1>3 DEF Collected
<1>5. ASSUME NEW s \in Ids PROVE all[s] = servo[s].pos
  BY <1>1, <1>2, <1>4 DEF Ids
<1> QED
  BY <1>3, <1>4, <1>5 DEF Positions

\* The rounding of the conversion to metres and back.
LEMMA WithinATick ==
  ASSUME NEW t \in Ticks, NEW g \in Rounded(t)
  PROVE  g - t \in {-1, 0, 1}
<1>1. t \in Nat /\ Midpoint \in Nat
  BY FeetechAssumption
<1> QED
  BY <1>1 DEF Rounded

LEMMA InitHold == Init => HoldInv
  BY DEF Init, Nothing, Unset, HoldInv, PastTypeOK, Ring, NothingUnread, SoundHolds,
         ReadIsCurrent, HoldsAtActivation

\* The steps that neither read nor write.
LEMMA HoldKept ==
  ASSUME HoldInv, UNCHANGED <<inbox, cmd, past>>,
         past.written /\ past.sound => \A s \in Ids : servo'[s].goal = servo[s].goal,
         life'.at = "write" => life.at = "write" /\ state' = state,
         life'.at \in {"off", "init", "failed"} => ~past.sound
  PROVE  HoldInv'
<1>1. PastTypeOK' /\ NothingUnread' /\ SoundHolds'
  BY DEF HoldInv, PastTypeOK, Ring, NothingUnread, SoundHolds
<1>2. ReadIsCurrent'
  BY DEF HoldInv, ReadIsCurrent
<1>3. Commanded \subseteq Ids
  BY FeetechAssumption DEF Ids
<1>4. HoldsAtActivation'
  BY <1>3 DEF HoldInv, HoldsAtActivation
<1> QED
  BY <1>1, <1>2, <1>4 DEF HoldInv

LEMMA NextHold == IInv /\ HoldInv /\ [Next]_vars => HoldInv'
<1> SUFFICES ASSUME IInv, HoldInv, [Next]_vars PROVE HoldInv'
  OBVIOUS
<1>0. BusTypeOK /\ PastTypeOK /\ NothingUnread /\ SoundHolds /\ ReadIsCurrent /\ HoldsAtActivation
  BY DEF IInv, HoldInv
<1>1. ASSUME NEW heard \in BOOLEAN, NEW answered \in BOOLEAN, Configure(heard, answered)
      PROVE  HoldInv'
  <2>1. life.at = "init" /\ UNCHANGED <<inbox, state, cmd, past>>
    BY <1>1 DEF Configure
  <2>2. ~past.sound /\ life'.at \in {"init", "failed"}
    BY <1>0, <1>1, <2>1 DEF Configure, SoundHolds, Become, BusTypeOK
  <2> QED
    BY <2>1, <2>2, HoldKept
<1>2. CASE Start
  <2>1. life.at = "off" /\ life'.at = "init" /\ UNCHANGED <<servo, inbox, state, cmd, past>>
    BY <1>2 DEF Start
  <2>2. ~past.sound
    BY <1>0, <2>1 DEF SoundHolds
  <2> QED
    BY <2>1, <2>2, HoldKept
<1>3. CASE Die
  <2>1. life'.at = "off" /\ past' = Nothing /\ inbox' = <<>>
    BY <1>0, <1>3 DEF Die, Become, BusTypeOK
  <2> QED
    BY <2>1 DEF Nothing, Unset, HoldInv, PastTypeOK, Ring, NothingUnread, SoundHolds,
                ReadIsCurrent, HoldsAtActivation
<1>4. CASE OnInitFails \/ ValidateModelSeries \/ WriteFails
  <2>1. /\ life.at = "init" \/ life'.at = "finalized"
        /\ life'.at \in {"failed", "inactive", "finalized"}
        /\ UNCHANGED <<servo, inbox, state, cmd, past>>
    BY <1>0, <1>4 DEF OnInitFails, ValidateModelSeries, WriteFails, Become, BusTypeOK
  <2>2. life'.at = "failed" => ~past.sound
    BY <1>0, <2>1 DEF SoundHolds
  <2> QED
    BY <2>1, <2>2, HoldKept
<1>5. ASSUME NEW ok \in BOOLEAN, Read(ok) PROVE HoldInv'
  <2>1. /\ \E answering \in SUBSET Ids : \E intime \in 0..Cardinality(answering) :
              SyncRead(answering, intime, ok)
        /\ past' = [past EXCEPT !.asked = IF inbox' = <<>> /\ ok THEN Positions ELSE Unset,
                                !.late = @ \/ inbox' # <<>>]
    BY <1>5, Zenon DEF Read, Reads
  <2>2. life'.at = IF ok THEN "write" ELSE "finalized"
    BY <1>0, <1>5 DEF Read, Become, BusTypeOK
  <2>3. life.at = "read" /\ UNCHANGED <<servo, cmd>>
    BY <1>5 DEF Read
  <2>4. /\ past'.asked = IF inbox' = <<>> /\ ok THEN Positions ELSE Unset
        /\ past'.late = (past.late \/ inbox' # <<>>)
        /\ past'.held = past.held /\ past'.sound = past.sound /\ past'.written = past.written
        /\ DOMAIN past' = DOMAIN past
    BY <1>0, <2>1 DEF PastTypeOK
  <2>5. Positions \in Ring /\ Unset \in Ring
    BY <1>0 DEF Positions, Unset, Ring, BusTypeOK, ServoState
  <2>6. PastTypeOK'
    <3>1. PICK a \in Ring, l \in BOOLEAN : past' = [past EXCEPT !.asked = a, !.late = l]
      BY <2>1, <2>5
    <3> QED
      BY <1>0, <3>1 DEF PastTypeOK, Ring, Ids
  <2>7. NothingUnread'
    BY <2>4 DEF NothingUnread
  <2>8. SoundHolds'
    BY <1>0, <2>2, <2>3, <2>4 DEF SoundHolds
  <2>9. HoldsAtActivation'
    BY <1>0, <2>3, <2>4 DEF HoldsAtActivation
  <2>10. ReadIsCurrent'
    <3> SUFFICES ASSUME life'.at = "write", ~past'.late PROVE state' = past'.asked
      BY DEF ReadIsCurrent
    <3>1. ok = TRUE /\ inbox' = <<>> /\ inbox = <<>>
      BY <1>0, <2>2, <2>4 DEF NothingUnread
    <3>2. past'.asked = Positions
      BY <2>4, <3>1
    <3>3. state' = Positions
      BY <2>1, <3>1, ReadTells
    <3> QED
      BY <3>2, <3>3
  <2> QED
    BY <2>6, <2>7, <2>8, <2>9, <2>10 DEF HoldInv
<1>6. ASSUME NEW ok \in BOOLEAN, OnActivate(ok) PROVE HoldInv'
  <2> DEFINE late == past.late \/ inbox' # <<>>
  <2>1. \E answering \in SUBSET Ids : \E intime \in 0..Cardinality(answering) :
           SyncRead(answering, intime, ok)
    BY <1>6 DEF OnActivate
  <2>2. /\ cmd' = state' /\ UNCHANGED servo
        /\ past' = [past EXCEPT !.held = IF ok /\ ~late THEN Positions ELSE Unset, !.late = late,
                                !.sound = ok /\ ~late, !.written = FALSE]
    BY <1>6, Zenon DEF OnActivate, InitialCommand
  <2>3. life'.at = "read"
    BY <1>0, <1>6 DEF OnActivate, Become, BusTypeOK
  <2>4. /\ past'.held = IF ok /\ ~late THEN Positions ELSE Unset
        /\ past'.late = late /\ past'.sound = (ok /\ ~late) /\ past'.written = FALSE
    BY <1>0, <2>2 DEF PastTypeOK
  <2>5. Positions \in [Ids -> Ticks] /\ Positions \in Ring /\ Unset \in Ring
    BY <1>0 DEF Positions, Unset, Ring, BusTypeOK, ServoState
  <2>6. PastTypeOK'
    <3>1. PICK h \in Ring, l \in BOOLEAN, n \in BOOLEAN :
             past' = [past EXCEPT !.held = h, !.late = l, !.sound = n, !.written = FALSE]
      BY <2>2, <2>5
    <3> QED
      BY <1>0, <3>1 DEF PastTypeOK, Ring, Ids
  <2>7. NothingUnread'
    BY <2>4 DEF NothingUnread
  <2>8. SoundHolds'
    <3> SUFFICES ASSUME past'.sound PROVE cmd' = past'.held /\ past'.held \in [Ids -> Ticks]
      BY <2>3 DEF SoundHolds
    <3>1. ok = TRUE /\ ~late
      BY <2>4
    <3>2. inbox = <<>>
      BY <1>0, <3>1 DEF NothingUnread
    <3>3. state' = Positions
      BY <2>1, <3>1, <3>2, ReadTells
    <3> QED
      BY <2>2, <2>4, <2>5, <3>1, <3>3
  <2> QED
    BY <2>3, <2>4, <2>6, <2>7, <2>8 DEF HoldInv, ReadIsCurrent, HoldsAtActivation
<1>7. CASE Write
  <2>1. life'.at = "read" /\ UNCHANGED <<inbox, cmd>> /\ life.at = "write"
    BY <1>0, <1>7 DEF Write, Become, BusTypeOK
  <2>2. /\ past' = [past EXCEPT !.asked = Unset,
                       !.written = \A s \in Commanded : servo'[s].goal \in Rounded(cmd[s])]
    BY <1>7, Zenon DEF Write
  <2>3. /\ past'.written = (\A s \in Commanded : servo'[s].goal \in Rounded(cmd[s]))
        /\ past'.held = past.held /\ past'.sound = past.sound /\ past'.late = past.late
    BY <1>0, <2>2 DEF PastTypeOK
  <2>4. PastTypeOK'
    <3>1. PICK w \in BOOLEAN : past' = [past EXCEPT !.asked = Unset, !.written = w]
      BY <2>2
    <3>2. Unset \in Ring
      BY DEF Unset, Ring
    <3> QED
      BY <1>0, <3>1, <3>2 DEF PastTypeOK, Ring, Ids
  <2>5. NothingUnread' /\ SoundHolds' /\ ReadIsCurrent'
    BY <1>0, <2>1, <2>3 DEF NothingUnread, SoundHolds, ReadIsCurrent
  <2>6. HoldsAtActivation'
    <3> SUFFICES ASSUME past'.written, past'.sound, NEW s \in Commanded
                 PROVE  servo'[s].goal - past'.held[s] \in {-1, 0, 1}
      BY DEF HoldsAtActivation
    <3>1. servo'[s].goal \in Rounded(cmd[s])
      BY <2>3
    <3>2. cmd = past'.held /\ cmd[s] \in Ticks
      BY <1>0, <2>3 DEF SoundHolds, Ids
    <3> QED
      BY <3>1, <3>2, WithinATick
  <2> QED
    BY <2>4, <2>5, <2>6 DEF HoldInv
<1>8. ASSUME NEW heard \in SUBSET Ids, OnDeactivate(heard) PROVE HoldInv'
  <2>1. life'.at = "inactive" /\ UNCHANGED inbox
    BY <1>0, <1>8 DEF OnDeactivate, Become, BusTypeOK
  <2>2. past' = [past EXCEPT !.slack = TRUE, !.written = FALSE, !.sound = FALSE, !.held = Unset]
    BY <1>8 DEF OnDeactivate
  <2>3. Unset \in Ring
    BY DEF Unset, Ring
  <2>4. PastTypeOK' /\ ~past'.sound /\ past'.late = past.late
    BY <1>0, <2>2, <2>3 DEF PastTypeOK, Ring, Ids
  <2> QED
    BY <1>0, <2>1, <2>4 DEF HoldInv, NothingUnread, SoundHolds, ReadIsCurrent, HoldsAtActivation
<1>9. ASSUME NEW s \in Ids, Move(s) PROVE HoldInv'
  <2>1. UNCHANGED <<inbox, life, state, cmd, past>>
    BY <1>9 DEF Move
  <2>2. PICK p \in Ticks : servo' = [servo EXCEPT ![s].pos = p]
    BY <1>9 DEF Move
  <2>3. \A r \in Ids : servo'[r].goal = servo[r].goal
    BY <1>0, <2>2 DEF BusTypeOK, ServoState
  <2>4. life'.at \in {"off", "init", "failed"} => ~past.sound
    BY <1>0, <2>1 DEF SoundHolds
  <2> QED
    BY <2>1, <2>3, <2>4, HoldKept
<1>10. ASSUME NEW s \in Ids, NEW t \in Ticks, SetCommand(s, t) PROVE HoldInv'
  <2>1. UNCHANGED <<inbox, life, state>>
    BY <1>10 DEF SetCommand
  <2>2. past' = [past EXCEPT !.sound = FALSE, !.held = Unset] /\ Unset \in Ring
    BY <1>10 DEF SetCommand, Unset, Ring
  <2>3. PastTypeOK' /\ ~past'.sound /\ past'.late = past.late /\ past'.asked = past.asked
    BY <1>0, <2>2 DEF PastTypeOK, Ring, Ids
  <2> QED
    BY <1>0, <2>1, <2>3 DEF HoldInv, NothingUnread, SoundHolds, ReadIsCurrent, HoldsAtActivation
<1>11. CASE UNCHANGED vars
  <2>1. life' = life /\ UNCHANGED <<servo, inbox, state, cmd, past>>
    BY <1>11 DEF vars
  <2>2. life'.at \in {"off", "init", "failed"} => ~past.sound
    BY <1>0, <2>1 DEF SoundHolds
  <2> QED
    BY <2>1, <2>2, HoldKept
<1> QED
  BY <1>1, <1>2, <1>3, <1>4, <1>5, <1>6, <1>7, <1>8, <1>9, <1>10, <1>11 DEF Next

THEOREM HoldInvariant == Spec => []HoldInv
<1> QED
  BY InitHold, NextHold, InductiveInvariant, PTL DEF Spec

(* read() has stored for each joint the position of its own servo, unless  *)
(* an answer has ever come too late.                                       *)
THEOREM ReadsAreCurrent == Spec => []ReadIsCurrent
<1>1. HoldInv => ReadIsCurrent
  BY DEF HoldInv
<1> QED
  BY <1>1, HoldInvariant, PTL

(* The first write of an activation does not move the arm by more than the *)
(* rounding of the conversion.                                             *)
THEOREM ActivationHolds == Spec => []HoldsAtActivation
<1>1. HoldInv => HoldsAtActivation
  BY DEF HoldInv
<1> QED
  BY <1>1, HoldInvariant, PTL
=============================================================================
