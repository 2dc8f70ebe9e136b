--------------------------- MODULE UrDriver_proofs ---------------------------
(***************************************************************************)
(* The driver and the robot program, for any goals, requests and bounds:   *)
(* an acknowledged request has been sent, the running flags of the         *)
(* hardware interface are the command modes of the active controllers, no  *)
(* two of which exclude each other, tool contact is reported only when the *)
(* robot has felt it, points are stored only where there is room, and a    *)
(* goal that is reported successful has been executed.                     *)
(***************************************************************************)
EXTENDS UrDriver, SequenceTheorems, TLAPS

-----------------------------------------------------------------------------
(* The services of GPIOController.  The async thread has work when a       *)
(* request is stored that it has not begun to forget; until a service has  *)
(* timed out that is the request that is waited for.                       *)
Pending(k) == gpio.cmd[k] # None /\ async # k
GpioHistory ==
    /\ \A k \in Kinds : Pending(k) => /\ k = gpio.kind /\ gpio.pc = "wait"
                                      /\ gpio.cmd[k] = gpio.request
                                      /\ gpio.flag[FlagOf(k)] = Waiting
    /\ gpio.pc = "store" => gpio.flag[FlagOf(gpio.kind)] = Waiting
    /\ gpio.pc = "wait" /\ gpio.flag[FlagOf(gpio.kind)] = 1 => gpio.sent = gpio.request
    /\ gpio.success => gpio.sent = gpio.request
GpioInv == gpio \in Gpio /\ (~gpio.timedOut => GpioHistory)

LEMMA GpioStarts == Init => GpioInv
<1> SUFFICES ASSUME Init PROVE GpioInv
  OBVIOUS
<1> DEFINE F == {FlagOf(k) : k \in Kinds}
<1>1. PICK d \in Kinds : d = CHOOSE k \in Kinds : TRUE
  BY GpioAssumption
<1>2. gpio = [cmd |-> [k \in Kinds |-> None], flag |-> [f \in F |-> 0], pc |-> "idle", kind |-> d,
              request |-> 0, sent |-> 0, timedOut |-> FALSE, success |-> FALSE]
  BY <1>1 DEF Init, GpioInit
<1>3. 0 \in Requests /\ 0 \in 0..Waiting /\ None \in Requests
  BY GpioAssumption DEF Requests, None, Waiting
<1>4. Gpio = [cmd : [Kinds -> Requests], flag : [F -> 0..Waiting],
              pc : {"idle", "store", "wait"}, kind : Kinds,
              request : Requests, sent : Requests, timedOut : BOOLEAN, success : BOOLEAN]
  BY DEF Gpio
<1> HIDE DEF F
<1>5. gpio \in Gpio
  BY <1>2, <1>3, <1>4
<1> QED
  BY <1>2, <1>5 DEF GpioInv, GpioHistory, Pending, None

LEMMA GpioTypes ==
  ASSUME GpioInv, GpioService \/ GpioAsync
  PROVE  gpio' \in Gpio
<1> USE DEF GpioInv
<1> DEFINE F == {FlagOf(k) : k \in Kinds}
<1>1. \A k \in Kinds : FlagOf(k) \in F
  OBVIOUS
<1>a. Gpio = [cmd : [Kinds -> Requests], flag : [F -> 0..Waiting],
              pc : {"idle", "store", "wait"}, kind : Kinds,
              request : Requests, sent : Requests, timedOut : BOOLEAN, success : BOOLEAN]
  BY DEF Gpio
<1>b. None \in Requests /\ Waiting \in 0..Waiting /\ \A ok : Flag(ok) \in 0..Waiting
  BY GpioAssumption DEF Requests, None, Waiting, Flag
<1> HIDE DEF F
<1>2. ASSUME NEW k \in Kinds, Reset(k) PROVE gpio' \in Gpio
  <2>1. PICK n \in Requests : gpio' = [gpio EXCEPT !.pc = "store", !.kind = k, !.request = n,
                                          !.flag[FlagOf(k)] = Waiting, !.success = FALSE]
    <3>1. gpio.request + 1 \in Requests
      BY <1>2, <1>a, GpioAssumption DEF Reset, Requests
    <3> QED
      BY <1>2, <3>1 DEF Reset
  <2>2. PICK f \in [F -> 0..Waiting] : gpio' = [gpio EXCEPT !.pc = "store", !.kind = k, !.request = n,
                                          !.flag = f, !.success = FALSE]
    BY <1>1, <1>a, <1>b, <2>1
  <2> QED
    BY <1>a, <2>2
<1>3. CASE Store
  BY <1>3, <1>a DEF Store
<1>4. CASE Reply \/ TimeOut
  BY <1>4, <1>a DEF Reply, TimeOut
<1>5. ASSUME NEW k \in Kinds, AsyncSend(k) PROVE gpio' \in Gpio
  <2>1. PICK ok \in Accepts(k) : gpio' = [gpio EXCEPT !.flag[FlagOf(k)] = Flag(ok),
                                             !.sent = IF ok THEN gpio.cmd[k] ELSE @]
    BY <1>5 DEF AsyncSend
  <2>2. PICK n \in Requests : gpio' = [gpio EXCEPT !.flag[FlagOf(k)] = Flag(ok), !.sent = n]
    BY <1>a, <2>1
  <2>3. PICK f \in [F -> 0..Waiting] : gpio' = [gpio EXCEPT !.flag = f, !.sent = n]
    BY <1>1, <1>a, <1>b, <2>2
  <2> QED
    BY <1>a, <2>3
<1>6. ASSUME NEW k \in Kinds, AsyncForget(k) PROVE gpio' \in Gpio
  BY <1>6, <1>a, <1>b DEF AsyncForget
<1> QED
  BY <1>2, <1>3, <1>4, <1>5, <1>6 DEF GpioService, GpioAsync

LEMMA GpioServiceHolds ==
  ASSUME GpioInv, GpioService
  PROVE  GpioInv'
<1>1. gpio' \in Gpio
  BY GpioTypes
<1> SUFFICES ASSUME ~gpio'.timedOut PROVE GpioHistory'
  BY <1>1 DEF GpioInv
<1> USE GpioAssumption
<1>2. ASSUME NEW k \in Kinds, Reset(k) PROVE GpioHistory'
  <2>1. /\ gpio.pc = "idle" /\ async' = async /\ gpio'.pc = "store" /\ gpio'.kind = k
        /\ ~gpio'.success /\ gpio'.timedOut = gpio.timedOut /\ gpio'.cmd = gpio.cmd
        /\ gpio'.flag[FlagOf(k)] = Waiting
    BY <1>2 DEF Reset, GpioInv, Gpio
  <2> QED
    BY <2>1 DEF GpioInv, GpioHistory, Pending
<1>3. CASE Store
  <2>1. /\ gpio.pc = "store" /\ async' = async /\ gpio'.pc = "wait" /\ gpio'.kind = gpio.kind
        /\ gpio'.success = gpio.success /\ gpio'.timedOut = gpio.timedOut
        /\ gpio'.cmd = [gpio.cmd EXCEPT ![gpio.kind] = gpio.request]
        /\ gpio'.flag = gpio.flag /\ gpio'.request = gpio.request /\ gpio'.sent = gpio.sent
    BY <1>3 DEF Store, GpioInv, Gpio
  <2>2. gpio.kind \in Kinds /\ DOMAIN gpio.cmd = Kinds
    BY DEF GpioInv, Gpio
  <2> QED
    BY <2>1, <2>2 DEF GpioInv, GpioHistory, Pending, Waiting
<1>4. CASE Reply
  <2>1. /\ gpio.pc = "wait" /\ async' = async /\ gpio'.pc = "idle" /\ gpio'.timedOut = gpio.timedOut
        /\ gpio'.cmd = gpio.cmd /\ gpio'.sent = gpio.sent /\ gpio'.request = gpio.request
        /\ gpio.flag[FlagOf(gpio.kind)] # Waiting
        /\ gpio'.success => gpio.flag[FlagOf(gpio.kind)] = 1
    BY <1>4 DEF Reply, GpioInv, Gpio
  <2> QED
    BY <2>1 DEF GpioInv, GpioHistory, Pending
<1>5. CASE TimeOut
  BY <1>5 DEF TimeOut, GpioInv, Gpio
<1> QED
  BY <1>2, <1>3, <1>4, <1>5 DEF GpioService

LEMMA GpioAsyncHolds ==
  ASSUME GpioInv, GpioAsync
  PROVE  GpioInv'
<1>1. gpio' \in Gpio
  BY GpioTypes
<1> SUFFICES ASSUME ~gpio'.timedOut PROVE GpioHistory'
  BY <1>1 DEF GpioInv
<1> USE GpioAssumption
<1>2. ASSUME NEW k \in Kinds, AsyncSend(k) PROVE GpioHistory'
  <2>1. PICK ok \in Accepts(k) : gpio' = [gpio EXCEPT !.flag[FlagOf(k)] = Flag(ok),
                                             !.sent = IF ok THEN gpio.cmd[k] ELSE @]
    BY <1>2 DEF AsyncSend
  <2>2. /\ async = "idle" /\ async' = k /\ gpio.cmd[k] # None
        /\ gpio'.pc = gpio.pc /\ gpio'.kind = gpio.kind /\ gpio'.request = gpio.request
        /\ gpio'.cmd = gpio.cmd /\ gpio'.success = gpio.success /\ gpio'.timedOut = gpio.timedOut
    BY <1>2, <2>1 DEF AsyncSend, GpioInv, Gpio
  <2>3. gpio'.flag[FlagOf(k)] = Flag(ok) /\ (ok => gpio'.sent = gpio.cmd[k]) /\ (~ok => gpio'.sent = gpio.sent)
    BY <2>1 DEF GpioInv, Gpio
  <2>4. k = gpio.kind /\ gpio.pc = "wait" /\ gpio.cmd[k] = gpio.request
    BY <2>2 DEF GpioInv, GpioHistory, Pending
  <2>5. \A l \in Kinds : gpio'.cmd[l] # None => l = k
    BY <2>2, <2>4 DEF GpioInv, GpioHistory, Pending
  <2> QED
    BY <2>2, <2>3, <2>4, <2>5 DEF GpioInv, GpioHistory, Pending, Flag
<1>3. ASSUME NEW k \in Kinds, AsyncForget(k) PROVE GpioHistory'
  <2>1. /\ async = k /\ async' = "idle" /\ gpio'.cmd = [gpio.cmd EXCEPT ![k] = None]
        /\ gpio'.pc = gpio.pc /\ gpio'.kind = gpio.kind /\ gpio'.request = gpio.request
        /\ gpio'.flag = gpio.flag /\ gpio'.success = gpio.success /\ gpio'.sent = gpio.sent
        /\ gpio'.timedOut = gpio.timedOut
    BY <1>3 DEF AsyncForget, GpioInv, Gpio
  <2>2. DOMAIN gpio.cmd = Kinds
    BY DEF GpioInv, Gpio
  <2> QED
    BY <2>1, <2>2 DEF GpioInv, GpioHistory, Pending
<1> QED
  BY <1>2, <1>3 DEF GpioAsync

\* The thread's other work is none of these requests.
LEMMA GpioKept ==
  ASSUME GpioInv, gpio' = gpio,
         async' \in {async, "idle", "enable", "activate", "abort", "friction"},
         async' = async \/ async \in {"idle", "enable", "activate", "abort", "friction"}
  PROVE  GpioInv'
BY GpioAssumption DEF GpioInv, GpioHistory, Pending

(***************************************************************************)
(* The friction model.  Scales are taken over once update() has stored     *)
(* them: from then on, unless a request was outstanding, the command the   *)
(* async thread may send is the one that was asked for.                    *)
(***************************************************************************)
TakenOver == frc.at \in {"wait", "forget"} \/ frc.async = Waiting \/ frc.result
FrictionHistory ==
    /\ frc.success \/ TakenOver => frc.cmd \in {0, frc.asked}
    /\ frc.async = Waiting /\ frc.flag = 1 => frc.sent = frc.asked
    /\ frc.result \/ frc.success => frc.sent = frc.asked
FrictionInv ==
    /\ frc \in Friction
    /\ frc.box = frc.asked
    /\ frc.at # "poll" => frc.change
    /\ frc.change => frc.box # 0
    /\ ~frc.outstanding => FrictionHistory

LEMMA FrictionStarts == Init => FrictionInv
BY FrictionAssumption DEF Init, FrictionInit, FrictionInv, Friction, Scales, Cmd, NoCmd, Waiting,
   TakenOver, FrictionHistory

LEMMA FrictionServiceHolds ==
  ASSUME FrictionInv, SetFriction \/ FrictionReply
  PROVE  FrictionInv'
<1> USE DEF FrictionInv
<1>1. CASE SetFriction
  <2>1. PICK n \in Scales : n = frc.asked + 1 /\ n # 0
    BY <1>1, FrictionAssumption DEF SetFriction, Friction, Scales
  <2>2. PICK o \in BOOLEAN : o = (frc.change \/ frc.result \/ frc.async = Waiting)
    OBVIOUS
  <2>3. frc' = [frc EXCEPT !.box = n, !.asked = n, !.change = TRUE, !.waits = TRUE,
                           !.success = FALSE, !.outstanding = o]
    BY <1>1, <2>1, <2>2 DEF SetFriction
  <2>4. frc' \in Friction
    BY <2>3 DEF Friction
  <2>5. /\ frc'.box = n /\ frc'.asked = n /\ frc'.change /\ ~frc'.success /\ frc'.outstanding = o
        /\ frc'.at = frc.at /\ frc'.async = frc.async /\ frc'.result = frc.result
    BY <2>3 DEF Friction
  <2> QED
    BY <2>1, <2>2, <2>4, <2>5 DEF FrictionHistory, TakenOver, Friction
<1>2. CASE FrictionReply
  BY <1>2 DEF FrictionReply, Friction, FrictionHistory, TakenOver
<1> QED
  BY <1>1, <1>2

LEMMA FrictionStepHolds ==
  ASSUME FrictionInv, FrictionStep
  PROVE  FrictionInv'
<1> USE DEF FrictionInv
<1>1. CASE FrictionPoll
  <2>1. PICK a \in {"poll", "store"} : /\ frc' = [ResultSeen(frc) EXCEPT !.at = a]
                                       /\ a = "store" => frc.change
    BY <1>1 DEF FrictionPoll
  <2>2. frc.at = "poll"
    BY <1>1 DEF FrictionPoll
  <2>3. CASE frc.async = Waiting /\ frc.flag # Waiting
    <3>1. PICK r \in BOOLEAN : r = (frc.flag = 1)
      OBVIOUS
    <3>2. frc' = [[frc EXCEPT !.async = frc.flag, !.result = r] EXCEPT !.at = a]
      BY <2>1, <2>3, <3>1 DEF ResultSeen
    <3>3. frc' = [frc EXCEPT !.async = frc.flag, !.result = r, !.at = a] /\ frc.flag \in Cmd
      BY <3>2 DEF Friction, Cmd, Waiting
    <3> QED
      BY <2>1, <2>2, <2>3, <3>1, <3>3 DEF Friction, FrictionHistory, TakenOver
  <2>4. CASE ~(frc.async = Waiting /\ frc.flag # Waiting)
    <3>1. frc' = [frc EXCEPT !.at = a]
      BY <2>1, <2>4 DEF ResultSeen
    <3> QED
      BY <2>1, <2>2, <3>1 DEF Friction, FrictionHistory, TakenOver
  <2> QED
    BY <2>3, <2>4
<1>2. CASE FrictionStore
  BY <1>2 DEF FrictionStore, Friction, FrictionHistory, TakenOver
<1>3. CASE FrictionWait
  <2>1. /\ frc.at = "wait" /\ Waiting \in 0..Waiting /\ Waiting \in Cmd /\ Waiting # 1
        /\ frc' = [frc EXCEPT !.at = "forget", !.flag = Waiting, !.async = Waiting, !.result = FALSE]
    BY <1>3 DEF FrictionWait, WaitsForThese, Waiting, Cmd
  <2>2. frc' \in Friction
    BY <2>1 DEF Friction
  <2>3. /\ frc'.at = "forget" /\ frc'.flag # 1 /\ frc'.async = Waiting /\ ~frc'.result
        /\ frc'.change = frc.change /\ frc'.box = frc.box /\ frc'.outstanding = frc.outstanding
        /\ frc'.cmd = frc.cmd /\ frc'.asked = frc.asked /\ frc'.sent = frc.sent
        /\ frc'.success = frc.success
    BY <2>1 DEF Friction
  <2> QED
    BY <2>1, <2>2, <2>3 DEF FrictionHistory, TakenOver
<1>4. CASE FrictionForget
  BY <1>4 DEF FrictionForget, Friction, FrictionHistory, TakenOver
<1> QED
  BY <1>1, <1>2, <1>3, <1>4 DEF FrictionStep

\* The switch of the controller, between two of its updates.
LEMMA FrictionSwitchHolds ==
  ASSUME FrictionInv, frc.at = "poll", FrictionActivate \/ FrictionDeactivate
  PROVE  FrictionInv'
<1> USE DEF FrictionInv
<1>1. CASE FrictionActivate
  <2>1. PICK b \in BOOLEAN : b = (frc.box # 0)
    OBVIOUS
  <2>2. frc' = [frc EXCEPT !.active = TRUE, !.change = b, !.result = FALSE, !.async = NoCmd]
    BY <1>1, <2>1 DEF FrictionActivate
  <2>3. NoCmd \in Cmd /\ NoCmd # Waiting
    BY DEF Cmd, NoCmd, Waiting
  <2>4. frc' \in Friction
    BY <2>1, <2>2, <2>3 DEF Friction
  <2>5. /\ frc'.at = "poll" /\ frc'.async # Waiting /\ ~frc'.result /\ frc'.change = b
        /\ frc'.box = frc.box /\ frc'.outstanding = frc.outstanding
        /\ frc'.cmd = frc.cmd /\ frc'.asked = frc.asked /\ frc'.sent = frc.sent
        /\ frc'.success = frc.success
    BY <2>2, <2>3 DEF Friction
  <2> QED
    BY <2>1, <2>4, <2>5 DEF FrictionHistory, TakenOver
<1>2. CASE FrictionDeactivate
  BY <1>2 DEF FrictionDeactivate, Friction, FrictionHistory, TakenOver
<1> QED
  BY <1>1, <1>2

LEMMA FrictionAsyncHolds ==
  ASSUME FrictionInv, FrictionAsync
  PROVE  FrictionInv'
<1> USE DEF FrictionInv
<1>1. CASE FrictionSend
  <2>1. PICK ok \in BOOLEAN : frc' = [frc EXCEPT !.flag = Flag(ok), !.sent = IF ok THEN frc.cmd ELSE @]
    BY <1>1 DEF FrictionSend
  <2>2. PICK n \in Scales : /\ n = IF ok THEN frc.cmd ELSE frc.sent
                            /\ frc' = [frc EXCEPT !.flag = Flag(ok), !.sent = n]
    BY <2>1 DEF Friction
  <2>a. Flag(ok) \in 0..Waiting /\ (Flag(ok) = 1 <=> ok)
    BY DEF Flag, Waiting
  <2>3. frc.cmd # 0
    BY <1>1 DEF FrictionSend
  <2> QED
    BY <2>2, <2>3, <2>a DEF Friction, FrictionHistory, TakenOver
<1>2. CASE FrictionSent
  BY <1>2, FrictionAssumption DEF FrictionSent, Friction, FrictionHistory, TakenOver, Scales
<1> QED
  BY <1>1, <1>2 DEF FrictionAsync

(***************************************************************************)
(* update() of the friction model is between two of its three stores only  *)
(* while its cycle is in the update: a switch finds it polling.            *)
(***************************************************************************)
PhaseInv == /\ DOMAIN rt = {"phase", "seen"}
            /\ session # "friction" \/ rt.phase # "update" => frc.at = "poll"
RequestsInv == GpioInv /\ FrictionInv /\ PhaseInv

\* The steps that touch neither the requests nor the friction model.
LEMMA RequestsKept ==
  ASSUME RequestsInv, UNCHANGED <<gpio, async, setup>>, DOMAIN rt' = {"phase", "seen"},
         rt'.phase = "update" \/ rt'.phase = rt.phase \/ session # "friction"
         \/ (rt.phase # "update" /\ rt'.phase # "update"),
         rt'.phase # rt.phase => session # "friction" \/ rt.phase # "update"
  PROVE  RequestsInv'
<1>1. frc' = frc /\ session' = session /\ gpio' = gpio /\ async' = async
  BY DEF setup
<1>2. GpioInv'
  BY <1>1 DEF RequestsInv, GpioInv, GpioHistory, Pending
<1>3. FrictionInv'
  BY <1>1 DEF RequestsInv, FrictionInv, FrictionHistory, TakenOver
<1> QED
  BY <1>1, <1>2, <1>3 DEF RequestsInv, PhaseInv

LEMMA RequestsKeptByAll ==
  ASSUME RequestsInv, UNCHANGED <<gpio, async, session, frc, rt>>
  PROVE  RequestsInv'
BY DEF RequestsInv, GpioInv, GpioHistory, Pending, FrictionInv, FrictionHistory, TakenOver, PhaseInv

LEMMA CycleHolds ==
  ASSUME RequestsInv, Switch \/ Update \/ Write \/ \E fresh \in BOOLEAN : Read(fresh)
  PROVE  RequestsInv'
<1>1. CASE Switch
  <2>1. UNCHANGED <<gpio, async, setup>> /\ \E x : rt' = [rt EXCEPT !.seen = x]
    BY <1>1 DEF Switch
  <2>2. DOMAIN rt' = {"phase", "seen"} /\ rt'.phase = rt.phase
    BY <2>1 DEF RequestsInv, PhaseInv
  <2> QED
    BY <2>1, <2>2, RequestsKept
<1>2. CASE Update
  <2>1. UNCHANGED <<gpio, async, setup>> /\ session # "friction" /\ \E x : rt' = [phase |-> "write", seen |-> x]
    BY <1>2 DEF Update
  <2> QED
    BY <2>1, RequestsKept
<1>3. CASE Write
  <2>1. /\ UNCHANGED <<gpio, async, setup>> /\ rt.phase = "write" /\ rt' = [phase |-> "read", seen |-> 0]
    BY <1>3 DEF Write, ctrls
  <2> QED
    BY <2>1, RequestsKept
<1>4. ASSUME NEW fresh \in BOOLEAN, Read(fresh) PROVE RequestsInv'
  <2>1. /\ UNCHANGED <<gpio, async, setup>> /\ rt.phase = "read" /\ \E x : rt' = [phase |-> "update", seen |-> x]
    BY <1>4 DEF Read, ctrls
  <2> QED
    BY <2>1, RequestsKept
<1> QED
  BY <1>1, <1>2, <1>3, <1>4

LEMMA ClientsHold ==
  ASSUME RequestsInv, Clients
  PROVE  RequestsInv'
<1>1. CASE session = "gpio" /\ GpioService /\ UNCHANGED setup
  <2>1. UNCHANGED <<session, frc, rt>>
    BY <1>1 DEF setup, GpioService, Reply, TimeOut, Store, Reset, others
  <2> QED
    BY <1>1, <2>1, GpioServiceHolds
    DEF RequestsInv, FrictionInv, FrictionHistory, TakenOver, PhaseInv
<1>2. CASE UNCHANGED <<gpio, async, session, frc, rt>>
  BY <1>2, RequestsKeptByAll
<1>3. UNCHANGED <<gpio, async, session, frc, rt>> \/ (session = "gpio" /\ GpioService /\ UNCHANGED setup)
  <2>1. CASE session = "trajectory" /\ Clients
    BY <2>1 DEF Clients, setup, PassthroughServer, AcceptGoal, AcceptGoalHandle, AcceptDone, CancelGoal, CancelDone
  <2>2. CASE session = "contact" /\ Clients
    BY <2>2 DEF Clients, setup, ToolContactServer, AcceptContact, AcceptContactHandle, ForgetContact, CancelContact
  <2>3. CASE session = "freedrive" /\ Clients
    BY <2>3 DEF Clients, setup, FreedriveTimeout, FreedriveMessage
  <2>4. CASE session = "force" /\ Clients
    BY <2>4 DEF Clients, setup, ReturnForceMode, CallForceMode
  <2> QED
    BY <2>1, <2>2, <2>3, <2>4 DEF Clients
<1> QED
  BY <1>1, <1>2, <1>3

LEMMA FrictionModelHolds ==
  ASSUME RequestsInv, FrictionModel
  PROVE  RequestsInv'
<1>1. session = "friction" /\ gpio' = gpio /\ session' = session /\ FrictionInv /\ GpioInv
  BY DEF FrictionModel, RequestsInv
<1>2. CASE FrictionService
  <2>1. async' = async /\ rt' = rt /\ FrictionInv'
    BY <1>1, <1>2, FrictionServiceHolds DEF FrictionService
  <2>2. frc'.at = frc.at
    BY <1>1, <1>2 DEF FrictionService, SetFriction, FrictionReply, FrictionInv, Friction
  <2> QED
    BY <1>1, <2>1, <2>2, GpioKept DEF RequestsInv, PhaseInv
<1>3. CASE FrictionAsync
  <2>1. /\ rt' = rt /\ FrictionInv'
        /\ \/ async = "idle" /\ async' = "friction"
           \/ async = "friction" /\ async' = "idle"
    BY <1>1, <1>3, FrictionAsyncHolds
       DEF FrictionModel, FrictionService, FrictionAsync, FrictionCycle, FrictionSend, FrictionSent
  <2>2. frc'.at = frc.at
    BY <1>1, <1>3 DEF FrictionAsync, FrictionSend, FrictionSent, FrictionInv, Friction
  <2> QED
    BY <1>1, <2>1, <2>2, GpioKept DEF RequestsInv, PhaseInv
<1>4. CASE FrictionCycle
  <2>1. async' = async
    BY <1>4 DEF FrictionCycle
  <2>2. CASE /\ IF frc.active THEN FrictionStep ELSE UNCHANGED frc
             /\ rt' = IF frc'.at = "poll" THEN [phase |-> "write", seen |-> hw.pt.state] ELSE rt
             /\ rt.phase = "update"
    <3>1. FrictionInv'
      BY <1>1, <2>2, FrictionStepHolds DEF FrictionInv, FrictionHistory, TakenOver
    <3>2. PhaseInv'
      <4>1. CASE frc'.at = "poll"
        BY <2>2, <4>1 DEF PhaseInv
      <4>2. CASE frc'.at # "poll"
        BY <1>1, <2>2, <4>2 DEF RequestsInv, PhaseInv
      <4> QED
        BY <4>1, <4>2
    <3> QED
      BY <1>1, <2>1, <3>1, <3>2, GpioKept DEF RequestsInv
  <2>3. CASE /\ rt.phase = "write" /\ rt' = rt
             /\ (frc.active /\ FrictionDeactivate) \/ (~frc.active /\ FrictionActivate)
    <3>1. frc.at = "poll"
      BY <2>3 DEF RequestsInv, PhaseInv
    <3>2. FrictionInv'
      BY <1>1, <2>3, <3>1, FrictionSwitchHolds
    <3>3. frc'.at = frc.at
      BY <1>1, <2>3 DEF FrictionInv, Friction, FrictionDeactivate, FrictionActivate
    <3> QED
      BY <1>1, <2>1, <2>3, <3>1, <3>2, <3>3, GpioKept DEF RequestsInv, PhaseInv
  <2> QED
    BY <1>4, <2>2, <2>3 DEF FrictionCycle
<1> QED
  BY <1>2, <1>3, <1>4 DEF FrictionModel

LEMMA AsyncHolds ==
  ASSUME RequestsInv, Async
  PROVE  RequestsInv'
<1>1. GpioInv /\ UNCHANGED <<session, frc>>
  BY DEF Async, setup, RequestsInv
<1>2. FrictionInv'
  BY <1>1 DEF RequestsInv, FrictionInv, FrictionHistory, TakenOver
<1>3. CASE FreedriveAsync /\ UNCHANGED gpio
  <2>1. /\ rt' = rt
        /\ async' \in {async, "idle", "enable", "activate", "abort", "friction"}
        /\ async \in {"idle", "enable", "activate", "abort", "friction"}
    BY <1>3 DEF FreedriveAsync, AsyncEnable, AsyncEnabled, AsyncActivated, AsyncAbort, AsyncAborted
  <2> QED
    BY <1>1, <1>2, <1>3, <2>1, GpioKept DEF RequestsInv, PhaseInv
<1>4. CASE GpioAsync
  <2>1. rt' = rt
    BY <1>4 DEF GpioAsync, AsyncSend, AsyncForget, others
  <2> QED
    BY <1>1, <1>2, <1>4, <2>1, GpioAsyncHolds DEF RequestsInv, PhaseInv
<1> QED
  BY <1>3, <1>4 DEF Async

LEMMA RequestsHold ==
  ASSUME RequestsInv, [Next]_vars
  PROVE  RequestsInv'
<1>1. CASE Clients
  BY <1>1, ClientsHold
<1>2. CASE FrictionModel
  BY <1>2, FrictionModelHolds
<1>3. CASE Async
  BY <1>3, AsyncHolds
<1>4. CASE Switch \/ Update \/ Write \/ \E fresh \in BOOLEAN : Read(fresh)
  BY <1>4, CycleHolds
<1>5. CASE Executor \/ Pendant \/ Workers \/ Robot \/ \E on, off : RequestSwitch(on, off)
  <2>1. UNCHANGED <<gpio, async, session, frc>>
    BY <1>5 DEF Executor, ByExecutor, Pendant, Workers, Robot, RequestSwitch, ctrls, setup
  <2>2. UNCHANGED rt
    BY <1>5 DEF Executor, ByExecutor, Pendant, Workers, Robot, RequestSwitch, Callbacks, ResultsCoalesced,
                ContactsCoalesced, ProgramConnected, ProgramDisconnected, TrajectoryDoneAbort,
                TrajectoryDoneState, ToolContactDone
  <2> QED
    BY <2>1, <2>2, RequestsKeptByAll
<1>6. CASE UNCHANGED vars
  BY <1>6, RequestsKeptByAll DEF vars, driver, ctrls, setup
<1> QED
  BY <1>1, <1>2, <1>3, <1>4, <1>5, <1>6 DEF Next

\* Until a service of GPIOController has timed out, success tells that the
\* hardware interface has sent the very request that is answered; and friction
\* scales that are acknowledged have been sent, unless an earlier request was
\* outstanding when they came (waitForAsyncCommand(), checkAsyncIO()).
THEOREM RequestsAreSent == Spec => []AckIsMine
<1>1. Init => RequestsInv
  BY GpioStarts, FrictionStarts DEF RequestsInv, PhaseInv, Init, HardwareInit, FrictionInit
<1>2. RequestsInv /\ [Next]_vars => RequestsInv'
  BY RequestsHold
<1>3. RequestsInv => AckIsMine
  BY DEF RequestsInv, GpioInv, GpioHistory, FrictionInv, FrictionHistory, AckIsMine, ScalesAreSent
<1> QED
  BY <1>1, <1>2, <1>3, PTL DEF Spec

-----------------------------------------------------------------------------
(***************************************************************************)
(* The running flags.  What the steps of the cycle do to the members of    *)
(* the hardware interface leaves the flags and the switch that is prepared *)
(* alone; a switch that is performed carries out what was prepared.        *)
(***************************************************************************)
HardwareKeys == {"modes", "start", "stop", "program", "playing", "fresh", "crashed", "pt", "tc", "fd", "fm"}
Keeps(h, k) == /\ DOMAIN h = HardwareKeys /\ DOMAIN k = HardwareKeys
               /\ k.modes = h.modes /\ k.start = h.start /\ k.stop = h.stop

LEMMA KeepsOn ==
  ASSUME NEW h, NEW k, NEW l, Keeps(h, k), Keeps(k, l)
  PROVE  Keeps(h, l)
BY DEF Keeps

LEMMA KeepsIs ==
  ASSUME NEW h, DOMAIN h = HardwareKeys
  PROVE  /\ Keeps(h, h)
         /\ \A x : Keeps(h, [h EXCEPT !.program = x])
BY DEF Keeps, HardwareKeys

\* The steps of the controllers.
LEMMA HandOverKeeps ==
  ASSUME NEW h, NEW c, DOMAIN h = HardwareKeys
  PROVE  Keeps(h, HandOver(h, c).h)
<1>1. CASE c.index < Points[c.goal]
  BY <1>1 DEF HandOver, Keeps, HardwareKeys
<1>2. CASE c.index = Points[c.goal] /\ ~(c.index < Points[c.goal])
  BY <1>2 DEF HandOver, Keeps, HardwareKeys
<1>3. CASE c.index # Points[c.goal] /\ ~(c.index < Points[c.goal])
  BY <1>3 DEF HandOver, Keeps, HardwareKeys
<1> QED
  BY <1>1, <1>2, <1>3

LEMMA PassthroughKeeps ==
  ASSUME NEW h, NEW c, NEW seen, DOMAIN h = HardwareKeys, NEW p \in PassthroughUpdate(h, c, seen)
  PROVE  Keeps(h, p.h)
<1>1. Keeps(h, HandOver(h, c).h) /\ Keeps(h, h)
  BY HandOverKeeps, KeepsIs
<1>2. \A r : Keeps(h, Ended(h, c, r).h)
  BY DEF Ended, Keeps, HardwareKeys
<1>3. PICK a, b, d : /\ a = [h EXCEPT !.pt.state = 6, !.pt.size = Points[c.goal]]
                     /\ b = [h EXCEPT !.pt.abort = 1]
                     /\ d = [h EXCEPT !.pt.state = 0, !.pt.abort = 0]
  OBVIOUS
<1>4. Keeps(h, a) /\ Keeps(h, b) /\ Keeps(h, d)
  BY <1>3 DEF Keeps, HardwareKeys
<1>5. CASE c.goal # NoGoal /\ c.active
  <2>1. p \in {HandOver(h, c), [h |-> a, c |-> c], [h |-> h, c |-> c]} \/ \E r : p = Ended(h, c, r)
    BY <1>3, <1>5 DEF PassthroughUpdate
  <2> QED
    BY <1>1, <1>2, <1>4, <2>1
<1>6. CASE ~(c.goal # NoGoal /\ c.active)
  <2>1. p.h \in {h, b, d}
    BY <1>3, <1>6 DEF PassthroughUpdate
  <2> QED
    BY <1>1, <1>4, <2>1
<1> QED
  BY <1>5, <1>6

LEMMA PassthroughStopKeeps ==
  ASSUME NEW h, NEW c, DOMAIN h = HardwareKeys
  PROVE  Keeps(h, PassthroughDeactivate(h, c).h)
<1>1. PICK a : a = [h EXCEPT !.pt.abort = 1]
  OBVIOUS
<1>2. Keeps(h, a) /\ Keeps(h, [a EXCEPT !.crashed = TRUE]) /\ Keeps(h, [a EXCEPT !.pt.state = 0])
  BY <1>1 DEF Keeps, HardwareKeys
<1> QED
  BY <1>1, <1>2 DEF PassthroughDeactivate

LEMMA ContactKeeps ==
  ASSUME NEW h, NEW c, DOMAIN h = HardwareKeys
  PROVE  Keeps(h, ToolContactUpdate(h, c).h) /\ Keeps(h, ToolContactActivate(h))
<1>1. \A k : Keeps(h, k) => Keeps(h, [k EXCEPT !.tc.set = 5]) /\ Keeps(h, Standby(k))
  BY DEF Keeps, HardwareKeys, Standby
<1>2. Keeps(h, ToolContactActivate(h))
  BY DEF ToolContactActivate, Keeps, HardwareKeys
<1>3. PICK r : r = Requested(h, c)
  OBVIOUS
<1>4. Keeps(h, r.h)
  BY <1>3 DEF Requested, Keeps, HardwareKeys
<1>5. ToolContactUpdate(h, c).h \in {r.h, [r.h EXCEPT !.tc.set = 5], Standby(r.h)}
  BY <1>3 DEF ToolContactUpdate
<1> QED
  BY <1>1, <1>2, <1>4, <1>5

LEMMA OthersKeep ==
  ASSUME NEW h, NEW c, DOMAIN h = HardwareKeys
  PROVE  /\ Keeps(h, FreedriveUpdate(h, c).h) /\ Keeps(h, FreedriveActivate(h, c).h)
         /\ Keeps(h, ForceModeUpdate(h, c).h) /\ Keeps(h, ForceModeDeactivate(h))
<1>1. Keeps(h, FreedriveUpdate(h, c).h)
  BY DEF FreedriveUpdate, Keeps, HardwareKeys
<1>2. Keeps(h, FreedriveActivate(h, c).h)
  BY DEF FreedriveActivate, Keeps, HardwareKeys
<1>3. Keeps(h, ForceModeUpdate(h, c).h)
  BY DEF ForceModeUpdate, Keeps, HardwareKeys
<1>4. Keeps(h, ForceModeDeactivate(h))
  BY DEF ForceModeDeactivate, Keeps, HardwareKeys
<1> QED
  BY <1>1, <1>2, <1>3, <1>4

\* The two sides of the driver a step of write() takes and returns.
Sides(s) == DOMAIN s = {"h", "n"} /\ DOMAIN s.h = HardwareKeys
Step(s, t) == Sides(s) /\ Sides(t) /\ Keeps(s.h, t.h)

LEMMA StepOn ==
  ASSUME NEW s, NEW t, NEW u, Step(s, t), Step(t, u)
  PROVE  Step(s, u)
BY DEF Step, Keeps

LEMMA StepIs ==
  ASSUME NEW s, Sides(s)
  PROVE  /\ Step(s, s)
         /\ \A x : Step(s, [s EXCEPT !.n = x])
         /\ \A k : Keeps(s.h, k) => Step(s, [s EXCEPT !.h = k])
BY KeepsIs DEF Step, Sides, Keeps

LEMMA TellIs ==
  ASSUME NEW s, Sides(s), NEW mode, NEW arg, NEW n
  PROVE  Step(s, Tell(s, mode, arg, n)) /\ Tell(s, mode, arg, n).h = s.h
<1>1. PICK x : Tell(s, mode, arg, n) = [s EXCEPT !.n = x]
  BY DEF Tell
<1> QED
  BY <1>1, StepIs DEF Sides

LEMMA ScriptIs ==
  ASSUME NEW s, Sides(s), NEW c
  PROVE  Step(s, Script(s, c)) /\ Script(s, c).h = s.h
<1>1. PICK x : Script(s, c) = [s EXCEPT !.n = x]
  BY DEF Script
<1> QED
  BY <1>1, StepIs DEF Sides

LEMMA ForceIs ==
  ASSUME NEW s, Sides(s)
  PROVE  Step(s, StopForceMode(s)) /\ Step(s, StartForceMode(s)) /\ Step(s, ForceControl(s))
<1>2. Step(s, StopForceMode(s))
  <2>1. PICK t : t = Script(s, "end_force")
    OBVIOUS
  <2>2. PICK v : v = [t EXCEPT !.h.fm.async = Flag(HasClient(s.n))]
    OBVIOUS
  <2>3. PICK u : u = [v EXCEPT !.h.fm.disable = NoCmd]
    OBVIOUS
  <2>a. Step(s, t)
    BY <2>1, ScriptIs
  <2>b. Step(t, v)
    BY <2>a, <2>2 DEF Step, Sides, Keeps, HardwareKeys
  <2>c. Step(v, u)
    BY <2>b, <2>3 DEF Step, Sides, Keeps, HardwareKeys
  <2>4. Step(s, u)
    BY <2>a, <2>b, <2>c, StepOn
  <2> QED
    BY <2>1, <2>2, <2>3, <2>4 DEF StopForceMode
<1>3. Step(s, StartForceMode(s))
  <2>1. PICK t : t = Script(s, "start_force")
    OBVIOUS
  <2>2. PICK v : v = [t EXCEPT !.h.fm.async = Flag(HasClient(s.n))]
    OBVIOUS
  <2>3. PICK u : u = [v EXCEPT !.h.fm.params = FALSE]
    OBVIOUS
  <2>a. Step(s, t)
    BY <2>1, ScriptIs
  <2>b. Step(t, v)
    BY <2>a, <2>2 DEF Step, Sides, Keeps, HardwareKeys
  <2>c. Step(v, u)
    BY <2>b, <2>3 DEF Step, Sides, Keeps, HardwareKeys
  <2>4. Step(s, u)
    BY <2>a, <2>b, <2>c, StepOn
  <2> QED
    BY <2>1, <2>2, <2>3, <2>4 DEF StartForceMode
<1>4. ForceControl(s) \in {StartForceMode(s), StopForceMode(s), s}
  BY DEF ForceControl
<1> QED
  BY <1>2, <1>3, <1>4, StepIs

LEMMA ContactIs ==
  ASSUME NEW s, Sides(s)
  PROVE  Step(s, Contact(s))
<1>1. \A t, k : Sides(t) /\ Keeps(t.h, k) => Step(t, [t EXCEPT !.h = k])
  BY StepIs
<1>2. CASE s.h.tc.set = 2
  <2>1. PICK t : t = Script(s, "start_tool")
    OBVIOUS
  <2>2. PICK k : k = IF HasClient(s.n) THEN ContactStarted(t.h) ELSE [t.h EXCEPT !.tc.state = 4]
    OBVIOUS
  <2>3. Step(s, t) /\ Keeps(t.h, k)
    BY <2>1, <2>2, ScriptIs DEF Step, Sides, Keeps, ContactStarted, HardwareKeys
  <2>4. CheckToolContact(s) = [t EXCEPT !.h = k]
    BY <1>2, <2>1, <2>2 DEF CheckToolContact
  <2> QED
    BY <1>1, <2>3, <2>4, StepIs, StepOn DEF Contact, Step
<1>3. CASE s.h.tc.set = 5
  <2>1. PICK t, x : t = Script(s, "end_tool") /\ x = IF HasClient(s.n) THEN 6 ELSE 7
    OBVIOUS
  <2>2. PICK u : u = [t EXCEPT !.h.tc.state = x]
    OBVIOUS
  <2>3. Step(s, t) /\ Step(t, u)
    BY <2>1, <2>2, ScriptIs DEF Step, Sides, Keeps, HardwareKeys
  <2>4. CheckToolContact(s) = u
    BY <1>3, <2>1, <2>2 DEF CheckToolContact
  <2> QED
    BY <2>3, <2>4, StepIs, StepOn DEF Contact
<1>4. CASE s.h.tc.set \notin {2, 5}
  <2>1. PICK u : u = [s EXCEPT !.h.tc.state = s.h.tc.set]
    OBVIOUS
  <2>2. Step(s, u)
    BY <2>1 DEF Step, Sides, Keeps, HardwareKeys
  <2>3. CheckToolContact(s) = u
    BY <1>4, <2>1 DEF CheckToolContact
  <2> QED
    BY <2>2, <2>3, StepIs DEF Contact
<1> QED
  BY <1>2, <1>3, <1>4

LEMMA TakePointIs ==
  ASSUME NEW s, Sides(s)
  PROVE  Step(s, TakePoint(s))
<1>1. PICK got : got = [s.h.pt EXCEPT !.abort = 0, !.state = 1, !.received = @ + 1,
                            !.vec = [@ EXCEPT ![s.h.pt.received + 1] = s.h.pt.point]]
  OBVIOUS
<1>2. PICK a, b, c : /\ a = [s EXCEPT !.h.crashed = TRUE]
                     /\ b = [s EXCEPT !.h.pt = [got EXCEPT !.started = TRUE]]
                     /\ c = [s EXCEPT !.h.pt = got]
  OBVIOUS
<1>3. Step(s, a) /\ Step(s, b) /\ Step(s, c)
  BY <1>2 DEF Step, Sides, Keeps, HardwareKeys
<1>4. Step(s, Tell(b, "forward", "start", Announced(got)))
  BY <1>3, TellIs, StepOn DEF Step
<1>5. TakePoint(s) \in {a, c, Tell(b, "forward", "start", Announced(got))}
  BY <1>1, <1>2 DEF TakePoint
<1> QED
  BY <1>3, <1>4, <1>5

LEMMA TransferIs ==
  ASSUME NEW s, Sides(s), NEW seen
  PROVE  Step(s, Transfer(s, seen))
<1>1. PICK a, b, c : /\ a = [s EXCEPT !.h.pt = [@ EXCEPT !.vec = [i \in 1..s.h.pt.size |-> NoPoint],
                                             !.received = 0, !.sent = 0, !.started = FALSE, !.state = 1]]
                     /\ b = [s EXCEPT !.h.pt.abort = 0, !.h.pt.state = 4]
                     /\ c = [s EXCEPT !.h.pt.vec = <<>>]
  OBVIOUS
<1>2. Step(s, a) /\ Step(s, c)
  BY <1>1 DEF Step, Sides, Keeps, HardwareKeys
<1>3. Step(s, b)
  <2>1. PICK d : d = [s EXCEPT !.h.pt.abort = 0]
    OBVIOUS
  <2>2. Step(s, d)
    BY <2>1 DEF Step, Sides, Keeps, HardwareKeys
  <2>3. b = [d EXCEPT !.h.pt.state = 4]
    BY <1>1, <2>1
  <2>4. Step(d, b)
    BY <2>2, <2>3 DEF Step, Sides, Keeps, HardwareKeys
  <2> QED
    BY <2>2, <2>4, StepOn
<1>4. Step(s, Tell(s, "forward", "cancel", 0)) /\ Step(s, TakePoint(s)) /\ Step(s, s)
  BY TellIs, TakePointIs, StepIs
<1>5. Transfer(s, seen) \in {a, b, c, s, Tell(s, "forward", "cancel", 0), TakePoint(s)}
  BY <1>1 DEF Transfer
<1> QED
  BY <1>2, <1>3, <1>4, <1>5

LEMMA SendTakenIs ==
  ASSUME NEW s, Sides(s)
  PROVE  Step(s, SendTaken(s))
<1>1. PICK a, b, c, d : /\ a = [s EXCEPT !.h.pt.abort = 1]
                        /\ b = [a EXCEPT !.h.pt.state = 5]
                        /\ c = [s EXCEPT !.n = SendPoints(@, SubSeq(s.h.pt.vec, s.h.pt.sent + 1, s.h.pt.received))]
                        /\ d = [c EXCEPT !.h.pt.sent = s.h.pt.received]
  OBVIOUS
<1>2. Step(s, a)
  BY <1>1 DEF Step, Sides, Keeps, HardwareKeys
<1>3. Step(a, b)
  BY <1>1, <1>2 DEF Step, Sides, Keeps, HardwareKeys
<1>4. Step(s, c)
  BY <1>1, StepIs
<1>5. Step(c, d)
  BY <1>1, <1>4 DEF Step, Sides, Keeps, HardwareKeys
<1>6. SendTaken(s) \in {s, b, d}
  BY <1>1 DEF SendTaken
<1> QED
  BY <1>2, <1>3, <1>4, <1>5, <1>6, StepIs, StepOn

LEMMA MotionIs ==
  ASSUME NEW s, Sides(s), NEW seen
  PROVE  Step(s, Motion(s, seen))
<1>1. \A mode, arg : Step(s, Tell(s, mode, arg, 0))
  BY TellIs
<1>2. Step(s, CheckPassthrough(Tell(s, "forward", "noop", 0), seen))
  <2>1. PICK t : t = Tell(s, "forward", "noop", 0)
    OBVIOUS
  <2>2. PICK u : u = Transfer(t, seen)
    OBVIOUS
  <2>3. Step(s, t) /\ Step(t, u) /\ Step(u, SendTaken(u))
    BY <1>1, <2>1, <2>2, TransferIs, SendTakenIs DEF Step
  <2>4. Step(s, SendTaken(u))
    BY <2>3, StepOn
  <2> QED
    BY <2>1, <2>2, <2>4 DEF CheckPassthrough
<1>3. Motion(s, seen) \in {CheckPassthrough(Tell(s, "forward", "noop", 0), seen),
                           Tell(s, "servoj", "", 0), Tell(s, "speedj", "", 0), Tell(s, "torque", "", 0),
                           Tell(s, "freedrive", "noop", 0), Tell(s, "idle", "", 0)}
  BY DEF Motion
<1> QED
  BY <1>1, <1>2, <1>3

LEMMA WrittenIs ==
  ASSUME NEW s, Sides(s), NEW seen
  PROVE  Step(s, Written(s, seen))
<1>1. PICK t, u, v, w : /\ t = Motion(s, seen) /\ u = ForceControl(t) /\ v = Contact(u)
                        /\ w = [v EXCEPT !.h.fresh = FALSE]
  OBVIOUS
<1>2. Step(s, t) /\ Step(t, u) /\ Step(u, v)
  BY <1>1, MotionIs, ForceIs, ContactIs DEF Step
<1>3. Step(v, w)
  BY <1>1, <1>2 DEF Step, Sides, Keeps, HardwareKeys
<1>4. Step(s, w)
  BY <1>2, <1>3, StepOn
<1> QED
  BY <1>1, <1>4 DEF Written

LEMMA PerformIs ==
  ASSUME NEW s, Sides(s)
  PROVE  Step(s, PerformStarts(PerformStops(s)))
<1>1. \A t : Sides(t) => Step(t, PerformStarts(t))
  <2> SUFFICES ASSUME NEW t, Sides(t) PROVE Step(t, PerformStarts(t))
    OBVIOUS
  <2>1. PICK a : a = IF "passthrough" \in t.h.start THEN [t EXCEPT !.h.pt.abort = 0] ELSE t
    OBVIOUS
  <2>2. PICK b : b = IF "freedrive" \in t.h.start THEN [a EXCEPT !.h.fd.activated = FALSE] ELSE a
    OBVIOUS
  <2>3. Step(t, a)
    BY <2>1 DEF Step, Sides, Keeps, HardwareKeys
  <2>4. Step(a, b)
    BY <2>2, <2>3 DEF Step, Sides, Keeps, HardwareKeys
  <2>5. Step(t, b)
    BY <2>3, <2>4, StepOn
  <2> QED
    BY <2>1, <2>2, <2>5 DEF PerformStarts
<1>2. Step(s, PerformStops(s))
  <2> DEFINE a == IF "force" \in s.h.stop THEN StopForceMode(s) ELSE s
             b == IF "passthrough" \in s.h.stop
                  THEN [a EXCEPT !.h.pt.abort = 1, !.h.pt.vec = <<>>] ELSE a
             c == IF "freedrive" \in s.h.stop
                  THEN [b EXCEPT !.h.fd.activated = FALSE, !.h.fd.abort = 1] ELSE b
             d == IF "tool_contact" \in s.h.stop
                  THEN [Script(c, "end_tool") EXCEPT !.h.tc.result = 3] ELSE c
  <2>1. PerformStops(s) = d
    BY DEF PerformStops
  <2>2. b \in {a, [a EXCEPT !.h.pt.abort = 1, !.h.pt.vec = <<>>]}
    OBVIOUS
  <2>3. c \in {b, [b EXCEPT !.h.fd.activated = FALSE, !.h.fd.abort = 1]}
    OBVIOUS
  <2>4. d \in {c, [Script(c, "end_tool") EXCEPT !.h.tc.result = 3]}
    OBVIOUS
  <2>5. Step(s, a)
    BY ForceIs, StepIs
  <2> HIDE DEF a, b, c, d
  <2>6. Step(a, b)
    <3>1. PICK x : x = [a EXCEPT !.h.pt.abort = 1]
      OBVIOUS
    <3>2. PICK y : y = [x EXCEPT !.h.pt.vec = <<>>]
      OBVIOUS
    <3>3. Step(a, x)
      BY <2>5, <3>1 DEF Step, Sides, Keeps, HardwareKeys
    <3>4. Step(x, y)
      BY <3>2, <3>3 DEF Step, Sides, Keeps, HardwareKeys
    <3>5. Step(a, y)
      BY <3>3, <3>4, StepOn
    <3> QED
      BY <2>2, <2>5, <3>1, <3>2, <3>5, StepIs DEF Step
  <2>7. Step(b, c)
    <3>1. PICK x : x = [b EXCEPT !.h.fd.activated = FALSE]
      OBVIOUS
    <3>2. PICK y : y = [x EXCEPT !.h.fd.abort = 1]
      OBVIOUS
    <3>3. Step(b, x)
      BY <2>6, <3>1 DEF Step, Sides, Keeps, HardwareKeys
    <3>4. Step(x, y)
      BY <3>2, <3>3 DEF Step, Sides, Keeps, HardwareKeys
    <3>5. Step(b, y)
      BY <3>3, <3>4, StepOn
    <3> QED
      BY <2>3, <2>6, <3>1, <3>2, <3>5, StepIs DEF Step
  <2>8. Step(c, d)
    <3>1. PICK x : x = Script(c, "end_tool")
      OBVIOUS
    <3>2. PICK y : y = [x EXCEPT !.h.tc.result = 3]
      OBVIOUS
    <3>3. Step(c, x)
      BY <2>7, <3>1, ScriptIs DEF Step
    <3>4. Step(x, y)
      BY <3>2, <3>3 DEF Step, Sides, Keeps, HardwareKeys
    <3>5. Step(c, y)
      BY <3>3, <3>4, StepOn
    <3> QED
      BY <2>4, <2>7, <3>1, <3>2, <3>5, StepIs DEF Step
  <2>9. Step(s, d)
    BY <2>5, <2>6, <2>7, <2>8, StepOn
  <2> QED
    BY <2>1, <2>9
<1> QED
  BY <1>1, <1>2, StepOn DEF Step

\* What perform_command_mode_switch() leaves running after a switch that
\* prepare_command_mode_switch() has accepted.
LEMMA TogetherIs ==
  ASSUME NEW m, NEW o, {m, o} \in Together
  PROVE  "tool_contact" \in {m, o} \/ "force" \in {m, o}
BY DEF Together

LEMMA ExcludeEachOther ==
  ASSUME NEW S, \A m \in S : Compatible(m, S)
  PROVE  /\ \A m \in S \cap JointModes, o \in S \cap JointModes : m = o
         /\ S \cap JointModes # {} => "passthrough" \notin S /\ "freedrive" \notin S
BY TogetherIs DEF Compatible, JointModes

LEMMA CompatibleAfter ==
  ASSUME NEW running, NEW start, NEW stop, NEW torque, Prepared(running, start, stop, torque),
         \A m \in running : Compatible(m, running)
  PROVE  \A m \in (running \ stop) \cup start : Compatible(m, (running \ stop) \cup start)
<1>1. \A m, o : {m, o} = {o, m}
  OBVIOUS
<1> QED
  BY <1>1 DEF Prepared, Compatible

LEMMA PerformedIs ==
  ASSUME NEW running \in SUBSET Modes, NEW start \in SUBSET Modes, NEW stop \in SUBSET Modes, NEW torque,
         Prepared(running, start, stop, torque), \A m \in running : Compatible(m, running)
  PROVE  Performed(running, start, stop) = (running \ stop) \cup start
<1> DEFINE all == (running \ stop) \cup start
           rest == running \ stop
<1>1. /\ \A m \in all \cap JointModes, o \in all \cap JointModes : m = o
      /\ all \cap JointModes # {} => "passthrough" \notin all /\ "freedrive" \notin all
  BY CompatibleAfter, ExcludeEachOther
<1>2. CASE start \cap JointModes = {}
  <2>1. JointStart(rest, start) = rest
    BY <1>2 DEF JointStart
  <2>2. start \ JointModes = start
    BY <1>2
  <2>3. start \cap {"passthrough", "freedrive"} # {} => rest \ JointModes = rest
    BY <1>1
  <2> QED
    BY <2>1, <2>2, <2>3 DEF Performed
<1>3. CASE start \cap JointModes # {}
  <2>1. PICK f \in JointModes : f = CASE "position" \in start -> "position"
                        [] "position" \notin start /\ "velocity" \in start -> "velocity"
                        [] OTHER -> "effort"
    BY DEF JointModes
  <2>2. f \in start
    BY <1>3, <2>1 DEF JointModes
  <2>3. start \cap JointModes = {f} /\ all \cap JointModes = {f}
    BY <1>1, <2>2
  <2>4. JointStart(rest, start) = (rest \ (JointModes \cup {"passthrough"})) \cup {f}
    BY <1>3, <2>1 DEF JointStart
  <2>5. start \cap {"passthrough", "freedrive"} = {} /\ "passthrough" \notin rest
    BY <1>1, <2>3
  <2> QED
    BY <2>2, <2>3, <2>4, <2>5 DEF Performed
<1> QED
  BY <1>2, <1>3

(***************************************************************************)
(* The invariant: between the two halves of a switch what is prepared is   *)
(* what the controller manager was asked for, and it may be performed.     *)
(***************************************************************************)
Manager == [active : SUBSET Modes, on : SUBSET Modes, off : SUBSET Modes, asked : BOOLEAN]
FlagsInv ==
    /\ DOMAIN hw = HardwareKeys
    /\ cm \in Manager
    /\ hw.modes = cm.active /\ hw.start = cm.on /\ hw.stop = cm.off
    /\ \A m \in hw.modes : Compatible(m, hw.modes)
    /\ cm.asked => Prepared(hw.modes, cm.on, cm.off, Torque)
    /\ ~cm.asked => cm.on = {} /\ cm.off = {}

LEMMA FlagsKept ==
  ASSUME FlagsInv, Keeps(hw, hw'), cm' = cm
  PROVE  FlagsInv'
BY DEF FlagsInv, Keeps

LEMMA RequestSwitchKeeps ==
  ASSUME FlagsInv, NEW on \in {A \in SUBSET Controllers : Cardinality(A) <= 2},
         NEW off \in SUBSET cm.active, RequestSwitch(on, off)
  PROVE  FlagsInv'
<1>1. on \in SUBSET Modes /\ off \in SUBSET Modes
  BY DEF Controllers, Modes, FlagsInv, Manager
<1>2. /\ hw' = [hw EXCEPT !.start = on, !.stop = off]
      /\ cm' = [cm EXCEPT !.on = on, !.off = off, !.asked = TRUE]
      /\ Prepared(hw.modes, on, off, Torque)
  BY DEF RequestSwitch
<1>3. cm' \in Manager /\ cm'.active = cm.active /\ cm'.on = on /\ cm'.off = off /\ cm'.asked
  BY <1>1, <1>2 DEF FlagsInv, Manager
<1>4. DOMAIN hw' = HardwareKeys /\ hw'.modes = hw.modes /\ hw'.start = on /\ hw'.stop = off
  BY <1>2 DEF FlagsInv, HardwareKeys
<1> QED
  BY <1>2, <1>3, <1>4 DEF FlagsInv

LEMMA SwitchKeeps ==
  ASSUME FlagsInv, Switch
  PROVE  FlagsInv'
<1> DEFINE s0 == [h |-> hw, n |-> net]
           all == (hw.modes \ hw.stop) \cup hw.start
           s == PerformSwitch(s0)
           p == IF "passthrough" \in cm.off THEN PassthroughDeactivate(s.h, ptc)
                ELSE [h |-> s.h, c |-> ptc]
           m == IF "force" \in cm.off THEN ForceModeDeactivate(p.h) ELSE p.h
           t == IF "tool_contact" \in cm.on THEN ToolContactActivate(m) ELSE m
           f == IF "freedrive" \in cm.on THEN FreedriveActivate(t, fdc)
                ELSE [h |-> t, c |-> IF "freedrive" \in cm.off THEN FreedriveDeactivate(fdc) ELSE fdc]
<1>1. hw' = f.h /\ cm.asked
  BY DEF Switch
<1>2. cm' = [cm EXCEPT !.active = (cm.active \ cm.off) \cup cm.on, !.on = {}, !.off = {}, !.asked = FALSE]
  BY DEF Switch
<1>3. Step(s0, PerformStarts(PerformStops(s0)))
  BY PerformIs DEF Sides, FlagsInv
<1>4. Performed(hw.modes, hw.start, hw.stop) = all /\ \A x \in all : Compatible(x, all)
  BY <1>1, PerformedIs, CompatibleAfter DEF FlagsInv, Manager
<1>5. DOMAIN s.h = HardwareKeys /\ s.h.modes = all /\ s.h.start = {} /\ s.h.stop = {}
  <2>1. PICK u : u = PerformStarts(PerformStops(s0))
    OBVIOUS
  <2>2. s = [u EXCEPT !.h.modes = all, !.h.start = {}, !.h.stop = {}]
    BY <1>4, <2>1 DEF PerformSwitch
  <2>3. PICK k : k = [u.h EXCEPT !.modes = all]
    OBVIOUS
  <2>4. PICK l : l = [k EXCEPT !.start = {}]
    OBVIOUS
  <2>5. s.h = [l EXCEPT !.stop = {}]
    BY <1>3, <2>1, <2>2, <2>3, <2>4 DEF Step, Sides
  <2>6. DOMAIN u.h = HardwareKeys
    BY <1>3, <2>1 DEF Step, Sides
  <2>7. DOMAIN k = HardwareKeys /\ k.modes = all
    BY <2>3, <2>6 DEF HardwareKeys
  <2>8. DOMAIN l = HardwareKeys /\ l.modes = all /\ l.start = {}
    BY <2>4, <2>7 DEF HardwareKeys
  <2> HIDE DEF all, s
  <2> QED
    BY <2>5, <2>8 DEF HardwareKeys
<1> HIDE DEF s
<1>6. Keeps(s.h, p.h)
  BY <1>5, PassthroughStopKeeps, KeepsIs
<1> HIDE DEF p
<1>7. Keeps(s.h, m)
  BY <1>6, OthersKeep, KeepsOn DEF Keeps
<1> HIDE DEF m
<1>8. Keeps(s.h, t)
  BY <1>7, ContactKeeps, KeepsOn DEF Keeps
<1> HIDE DEF t
<1>9. Keeps(s.h, f.h)
  BY <1>8, OthersKeep, KeepsOn DEF Keeps
<1>10. DOMAIN hw' = HardwareKeys /\ hw'.modes = all /\ hw'.start = {} /\ hw'.stop = {}
  BY <1>1, <1>5, <1>9 DEF Keeps
<1>11. cm' \in Manager /\ cm'.active = all /\ cm'.on = {} /\ cm'.off = {} /\ ~cm'.asked
  BY <1>2 DEF FlagsInv, Manager
<1> QED
  BY <1>4, <1>10, <1>11 DEF FlagsInv

LEMMA UpdateKeeps ==
  ASSUME FlagsInv, Update
  PROVE  FlagsInv'
<1> DEFINE T(p) == IF "tool_contact" \in cm.active THEN ToolContactUpdate(p.h, tcc)
                   ELSE [h |-> p.h, c |-> tcc]
           F(p) == IF "freedrive" \in cm.active THEN FreedriveUpdate(T(p).h, fdc)
                   ELSE [h |-> T(p).h, c |-> fdc]
           M(p) == IF "force" \in cm.active THEN ForceModeUpdate(F(p).h, fmc)
                   ELSE [h |-> F(p).h, c |-> fmc]
           P(seen) == IF "passthrough" \in cm.active THEN PassthroughUpdate(hw, ptc, seen)
                      ELSE {[h |-> hw, c |-> ptc]}
<1>0. \E seen \in {rt.seen, hw.pt.state} : \E p \in P(seen) : hw' = M(p).h
  BY DEF Update
<1> PICK seen \in {rt.seen, hw.pt.state} : \E p \in P(seen) : hw' = M(p).h
  BY <1>0
<1> PICK p \in P(seen) : hw' = M(p).h
  OBVIOUS
<1>1. Keeps(hw, p.h)
  <2>1. CASE "passthrough" \in cm.active
    <3>1. p \in PassthroughUpdate(hw, ptc, seen)
      BY <2>1
    <3> QED
      BY <3>1, PassthroughKeeps DEF FlagsInv
  <2>2. CASE "passthrough" \notin cm.active
    <3>1. p = [h |-> hw, c |-> ptc]
      BY <2>2
    <3> QED
      BY <3>1, KeepsIs DEF FlagsInv
  <2> QED
    BY <2>1, <2>2
<1>2. Keeps(hw, T(p).h)
  BY <1>1, ContactKeeps, KeepsOn DEF Keeps
<1> HIDE DEF T, P
<1>3. Keeps(hw, F(p).h)
  BY <1>2, OthersKeep, KeepsOn DEF Keeps
<1> HIDE DEF F
<1>4. Keeps(hw, M(p).h)
  BY <1>3, OthersKeep, KeepsOn DEF Keeps
<1> HIDE DEF M
<1>5. cm' = cm
  BY DEF Update
<1> QED
  BY <1>4, <1>5, FlagsKept

LEMMA WriteKeeps ==
  ASSUME FlagsInv, Write
  PROVE  FlagsInv'
<1> DEFINE s0 == [h |-> hw, n |-> net]
<1>1. PICK seen : hw' = (IF MaySend THEN Written(s0, seen) ELSE s0).h
  BY DEF Write
<1>2. Step(s0, Written(s0, seen)) /\ Step(s0, s0)
  BY WrittenIs, StepIs DEF FlagsInv, Sides
<1>3. Keeps(hw, hw')
  BY <1>1, <1>2 DEF Step
<1>4. cm' = cm
  BY DEF Write
<1> QED
  BY <1>3, <1>4, FlagsKept

LEMMA ReadKeeps ==
  ASSUME FlagsInv, NEW fresh \in BOOLEAN, Read(fresh)
  PROVE  FlagsInv'
<1>1. Keeps(hw, hw')
  BY DEF Read, FlagsInv, Keeps, HardwareKeys
<1>2. cm' = cm
  BY DEF Read
<1> QED
  BY <1>1, <1>2, FlagsKept

LEMMA OthersKeepFlags ==
  ASSUME FlagsInv, Executor \/ Pendant \/ Clients \/ FrictionModel \/ Async \/ Workers \/ Robot
  PROVE  FlagsInv'
<1>1. cm' = cm
  BY DEF Executor, ByExecutor, Pendant, Clients, FrictionModel, Async, Workers, Robot, setup
<1>2. Keeps(hw, hw)
  BY KeepsIs DEF FlagsInv
<1>3. CASE Executor \/ Pendant \/ Robot
  BY <1>1, <1>2, <1>3, FlagsKept DEF Executor, ByExecutor, Pendant, Robot
<1>4. CASE Clients
  <2>1. hw' = hw
    BY <1>4 DEF Clients, PassthroughServer, AcceptGoal, AcceptGoalHandle, AcceptDone, CancelGoal, CancelDone,
       ToolContactServer, AcceptContact, AcceptContactHandle, ForgetContact, CancelContact, FreedriveTimeout,
       FreedriveMessage, ReturnForceMode, CallForceMode, GpioService, Reply, TimeOut, Store, Reset
  <2> QED
    BY <1>1, <1>2, <2>1, FlagsKept
<1>5. CASE FrictionModel
  <2>1. hw' = hw
    BY <1>5 DEF FrictionModel, FrictionService, FrictionAsync, FrictionCycle, frictionless
  <2> QED
    BY <1>1, <1>2, <2>1, FlagsKept
<1>6. CASE Async
  <2>1. CASE GpioAsync
    <3>1. hw' = hw \/ hw' = [hw EXCEPT !.program = FALSE]
      BY <2>1 DEF GpioAsync, AsyncSend, AsyncForget
    <3> QED
      BY <1>1, <1>2, <3>1, KeepsIs, FlagsKept DEF FlagsInv
  <2>2. CASE FreedriveAsync
    <3>1. CASE AsyncEnabled
      BY <1>1, <3>1, FlagsKept DEF AsyncEnabled, FlagsInv, Keeps, HardwareKeys
    <3>2. CASE AsyncActivated
      BY <1>1, <3>2, FlagsKept DEF AsyncActivated, FlagsInv, Keeps, HardwareKeys
    <3>3. CASE AsyncAborted
      BY <1>1, <3>3, FlagsKept DEF AsyncAborted, FlagsInv, Keeps, HardwareKeys
    <3>4. CASE AsyncEnable \/ AsyncAbort
      BY <1>1, <1>2, <3>4, FlagsKept DEF AsyncEnable, AsyncAbort
    <3> QED
      BY <2>2, <3>1, <3>2, <3>3, <3>4 DEF FreedriveAsync
  <2> QED
    BY <1>6, <2>1, <2>2 DEF Async
<1>7. CASE Workers
  <2>1. CASE ResultsCoalesced \/ ContactsCoalesced
    BY <1>1, <1>2, <2>1, FlagsKept DEF ResultsCoalesced, ContactsCoalesced
  <2>2. CASE ProgramConnected \/ ProgramDisconnected
    BY <1>1, <2>2, FlagsKept DEF ProgramConnected, ProgramDisconnected, FlagsInv, Keeps, HardwareKeys
  <2>3. CASE TrajectoryDoneAbort
    BY <1>1, <2>3, FlagsKept DEF TrajectoryDoneAbort, FlagsInv, Keeps, HardwareKeys
  <2>4. CASE TrajectoryDoneState
    BY <1>1, <2>4, FlagsKept DEF TrajectoryDoneState, FlagsInv, Keeps, HardwareKeys
  <2>5. CASE ToolContactDone
    BY <1>1, <2>5, FlagsKept DEF ToolContactDone, FlagsInv, Keeps, HardwareKeys
  <2> QED
    BY <1>7, <2>1, <2>2, <2>3, <2>4, <2>5 DEF Workers, Callbacks
<1> QED
  BY <1>3, <1>4, <1>5, <1>6, <1>7

LEMMA FlagsStep ==
  ASSUME FlagsInv, [Next]_vars
  PROVE  FlagsInv'
<1>1. CASE UNCHANGED vars
  BY <1>1 DEF FlagsInv, vars, driver
<1>2. CASE Next
  BY <1>2, RequestSwitchKeeps, SwitchKeeps, ReadKeeps, UpdateKeeps, WriteKeeps, OthersKeepFlags DEF Next
<1> QED
  BY <1>1, <1>2

LEMMA FlagsStart == Init => FlagsInv
  BY DEF Init, HardwareInit, FlagsInv, HardwareKeys, Manager

\* Between switches the running flags of the hardware interface are the modes
\* of the active controllers, and no two of them exclude each other, whatever
\* the robot, the sockets and the clients do between prepare_ and
\* perform_command_mode_switch().
THEOREM FlagsFollow == Spec => []FlagsFollowControllers
<1>1. FlagsInv => FlagsFollowControllers
  BY DEF FlagsInv, FlagsFollowControllers
<1> QED
  BY <1>1, FlagsStart, FlagsStep, PTL DEF Spec

-----------------------------------------------------------------------------
(***************************************************************************)
(* Tool contact.  As long as nothing was cancelled and nothing failed, the *)
(* commands under way to the robot program end a detection before they     *)
(* start one, an answer is under way only where contact was detected, and  *)
(* the state of the interface says whether the last command is a start.    *)
(***************************************************************************)
ContactCommands == {"start_tool", "end_tool"}
RobotKeys == {"on", "mode", "left", "thread", "run", "freedrive", "tool", "touched", "force"}
NetKeys == {"peer", "rev", "trj", "res", "scr", "ans"}
GoalKeys == {"goal", "accepting", "enable", "abort", "active", "reset", "status"}

\* The command c is under way.
Ahead(q, c) == \E i \in DOMAIN q : q[i] = c
\* Once every command has been read, the program detects contact.
Armed == IF net.scr = <<>> THEN robot.tool ELSE net.scr[Len(net.scr)] = "start_tool"
\* Contact was detected, and no end of it is under way.
Detected == robot.tool /\ robot.mode = "contact" /\ ~Ahead(net.scr, "end_tool")
\* The next update() answers the goal.
Due == hw.tc.state = 3 /\ hw.tc.result = 0

OrderInv ==
    /\ robot.tool /\ Ahead(net.scr, "end_tool") => robot.mode = "contact"
    /\ ~robot.tool => \A i, j \in DOMAIN net.scr :
                         i < j /\ net.scr[i] = "start_tool" => net.scr[j] = "start_tool"
    /\ \A i, j, k \in DOMAIN net.scr :
          i < j /\ j < k /\ net.scr[i] = "end_tool" /\ net.scr[j] = "start_tool"
             => net.scr[k] = "start_tool"
    /\ Armed <=> hw.tc.state = 3
AnswerInv ==
    /\ net.ans \in {<<>>, <<"success">>}
    /\ net.ans # <<>> => hw.tc.state = 3 /\ Detected /\ ~Due
    /\ Due => Detected
    /\ hw.tc.state = 3 => /\ hw.tc.set \in {2, 5} /\ hw.tc.result \in {0, 3}
                          /\ hw.tc.set = 5 => hw.tc.result = 0
                          /\ "tool_contact" \in cm.active
    /\ tcc.status = "accepted" /\ (net.ans # <<>> \/ Due) => robot.touched
LinkInv ==
    /\ net.peer # "going" /\ (net.peer = "coming" => robot.on)
    /\ hw.program => net.peer = "up"
CleanInv == OrderInv /\ AnswerInv /\ LinkInv /\ ~tcc.abort

\* What the session leaves alone, and the types of what it does not.
ContactFrame ==
    /\ cm.active \cup cm.on \cup cm.off \subseteq {"tool_contact"}
    /\ cm.on \cap cm.active = {}
    /\ hw.fm = Exported.fm
    /\ \A k \in Kinds : gpio.cmd[k] = None
    /\ DOMAIN gpio = {"cmd", "flag", "pc", "kind", "request", "sent", "timedOut", "success"}
    /\ DOMAIN gpio.cmd = Kinds
    /\ net.scr \in Seq(ContactCommands)
    /\ robot.tool \in BOOLEAN
    /\ DOMAIN robot = RobotKeys /\ DOMAIN net = NetKeys /\ DOMAIN hw.tc = {"set", "state", "result"}
    /\ hw.tc.set # 3
ContactSession == ContactFrame /\ (clean => CleanInv)
ContactInv == /\ DOMAIN tcc = GoalKeys
              /\ IF session = "contact" THEN ContactSession ELSE tcc.status # "accepted"

\* What the invariant sees of the robot, of the sockets and of the driver.
RobotSeen == <<robot.on, robot.mode, robot.tool, robot.touched, DOMAIN robot>>
NetSeen == <<net.scr, net.ans, net.peer, DOMAIN net>>
DriverSeen == <<hw.tc, hw.program, hw.fm, cm.active, tcc.status, tcc.abort>>

LEMMA ContactStarts == Init => ContactInv
<1> SUFFICES ASSUME Init PROVE ContactInv
  OBVIOUS
<1>1. DOMAIN tcc = GoalKeys /\ tcc.status = "none" /\ ~tcc.abort
  BY DEF Init, ToolContactInit, GoalKeys
<1>2. /\ robot.tool = FALSE /\ DOMAIN robot = RobotKeys
      /\ net.scr = <<>> /\ net.ans = <<>> /\ net.peer = "none" /\ DOMAIN net = NetKeys
  BY DEF Init, ExternalControlInit, RobotKeys, NetKeys
<1>3. hw.tc = [set |-> 0, state |-> 0, result |-> NoCmd] /\ hw.fm = Exported.fm /\ ~hw.program
  BY DEF Init, HardwareInit, Exported
<1>4. cm.active = {} /\ cm.on = {} /\ cm.off = {}
  BY DEF Init
<1>5. /\ gpio.cmd = [k \in Kinds |-> None]
      /\ DOMAIN gpio = {"cmd", "flag", "pc", "kind", "request", "sent", "timedOut", "success"}
  BY DEF Init, GpioInit
<1>6. ContactFrame
  <2>1. net.scr \in Seq(ContactCommands)
    BY <1>2
  <2>2. robot.tool \in BOOLEAN
    BY <1>2
  <2>3. DOMAIN gpio.cmd = Kinds /\ \A k \in Kinds : gpio.cmd[k] = None
    BY <1>5
  <2>4. DOMAIN hw.tc = {"set", "state", "result"} /\ hw.tc.set # 3
    BY <1>3
  <2> QED
    BY <1>2, <1>3, <1>4, <1>5, <2>1, <2>2, <2>3, <2>4 DEF ContactFrame
<1>7. CleanInv
  BY <1>1, <1>2, <1>3 DEF CleanInv, OrderInv, AnswerInv, LinkInv, Armed, Due, Detected, Ahead
<1> QED
  BY <1>1, <1>6, <1>7 DEF ContactInv, ContactSession

LEMMA ContactUnseen ==
  ASSUME ContactSession, RobotSeen' = RobotSeen, NetSeen' = NetSeen, DriverSeen' = DriverSeen,
         cm'.on \cup cm'.off \subseteq {"tool_contact"}, cm'.on \cap cm'.active = {},
         \A k \in Kinds : gpio'.cmd[k] = None, DOMAIN gpio' = DOMAIN gpio, DOMAIN gpio'.cmd = DOMAIN gpio.cmd,
         clean' => clean
  PROVE  ContactSession'
<1>1. /\ robot'.on = robot.on /\ robot'.mode = robot.mode /\ robot'.tool = robot.tool
      /\ robot'.touched = robot.touched /\ DOMAIN robot' = DOMAIN robot
  BY DEF RobotSeen
<1>2. net'.scr = net.scr /\ net'.ans = net.ans /\ net'.peer = net.peer /\ DOMAIN net' = DOMAIN net
  BY DEF NetSeen
<1>3. /\ hw'.tc = hw.tc /\ hw'.program = hw.program /\ hw'.fm = hw.fm /\ cm'.active = cm.active
      /\ tcc'.status = tcc.status /\ tcc'.abort = tcc.abort
  BY DEF DriverSeen
<1>4. ContactFrame'
  BY <1>1, <1>2, <1>3 DEF ContactSession, ContactFrame
<1>5. OrderInv => OrderInv'
  BY <1>1, <1>2, <1>3 DEF OrderInv, Armed, Ahead
<1>6. AnswerInv => AnswerInv'
  BY <1>1, <1>2, <1>3 DEF AnswerInv, Detected, Due, Ahead
<1>7. LinkInv => LinkInv'
  BY <1>1, <1>2, <1>3 DEF LinkInv
<1> QED
  BY <1>3, <1>4, <1>5, <1>6, <1>7 DEF ContactSession, CleanInv

LEMMA ContactControllers ==
  ASSUME session = "contact"
  PROVE  Controllers = {"tool_contact"}
BY DEF Controllers

LEMMA RequestKeepsContact ==
  ASSUME ContactInv, FlagsInv, session = "contact", NEW on \in {A \in SUBSET Controllers : Cardinality(A) <= 2},
         NEW off \in SUBSET cm.active, RequestSwitch(on, off)
  PROVE  ContactSession'
<1>1. ContactSession
  BY DEF ContactInv
<1>2. on \subseteq {"tool_contact"} /\ off \subseteq {"tool_contact"} /\ on \cap cm.active = {}
  BY <1>1, ContactControllers DEF ContactSession, ContactFrame, RequestSwitch
<1>3. hw' = [hw EXCEPT !.start = on, !.stop = off] /\ cm' = [cm EXCEPT !.on = on, !.off = off, !.asked = TRUE]
  BY DEF RequestSwitch
<1>4. hw'.tc = hw.tc /\ hw'.fm = hw.fm /\ hw'.program = hw.program
  BY <1>3 DEF FlagsInv, HardwareKeys
<1>5. cm'.active = cm.active /\ cm'.on = on /\ cm'.off = off
  BY <1>3 DEF FlagsInv, Manager
<1>6. robot' = robot /\ net' = net /\ clean' = clean /\ tcc' = tcc /\ gpio' = gpio
  BY DEF RequestSwitch, ctrls
<1>7. \A k \in Kinds : gpio.cmd[k] = None
  BY <1>1 DEF ContactSession, ContactFrame
<1> QED
  BY <1>1, <1>2, <1>4, <1>5, <1>6, <1>7, ContactUnseen DEF RobotSeen, NetSeen, DriverSeen

LEMMA ReadKeepsContact ==
  ASSUME ContactInv, FlagsInv, session = "contact", NEW fresh \in BOOLEAN, Read(fresh)
  PROVE  ContactSession'
<1>1. ContactSession
  BY DEF ContactInv
<1>2. hw' = [hw EXCEPT !.fresh = @ \/ fresh, !.playing = IF fresh THEN robot.on ELSE @]
  BY DEF Read
<1>3. hw'.tc = hw.tc /\ hw'.fm = hw.fm /\ hw'.program = hw.program
  BY <1>2 DEF FlagsInv, HardwareKeys
<1>4. robot' = robot /\ net' = net /\ clean' = clean /\ tcc' = tcc /\ gpio' = gpio /\ cm' = cm
  BY DEF Read, ctrls
<1>5. cm.on \cup cm.off \subseteq {"tool_contact"} /\ cm.on \cap cm.active = {}
  BY <1>1 DEF ContactSession, ContactFrame
<1>6. \A k \in Kinds : gpio.cmd[k] = None
  BY <1>1 DEF ContactSession, ContactFrame
<1> QED
  BY <1>1, <1>3, <1>4, <1>5, <1>6, ContactUnseen DEF RobotSeen, NetSeen, DriverSeen

\* A switch of the only controller: what it leaves of the interface.
LEMMA SwitchOfContact ==
  ASSUME ContactInv, FlagsInv, session = "contact", Switch
  PROVE  /\ hw'.fm = hw.fm /\ hw'.program = hw.program /\ DOMAIN hw'.tc = DOMAIN hw.tc
         /\ hw'.tc.set \in {1, hw.tc.set}
         /\ cm.off = {} /\ cm.on = {} => hw'.tc = hw.tc
         /\ cm.off = {} /\ cm.on # {} => hw'.tc = [hw.tc EXCEPT !.set = 1]
         /\ net' \in {net, SendScript(net, "end_tool")} /\ (cm.off = {} => net' = net)
<1> DEFINE s0 == [h |-> hw, n |-> net]
           s == PerformSwitch(s0)
           p == IF "passthrough" \in cm.off THEN PassthroughDeactivate(s.h, ptc)
                ELSE [h |-> s.h, c |-> ptc]
           m == IF "force" \in cm.off THEN ForceModeDeactivate(p.h) ELSE p.h
           t == IF "tool_contact" \in cm.on THEN ToolContactActivate(m) ELSE m
           f == IF "freedrive" \in cm.on THEN FreedriveActivate(t, fdc)
                ELSE [h |-> t, c |-> IF "freedrive" \in cm.off THEN FreedriveDeactivate(fdc) ELSE fdc]
<1>1. /\ cm.on \subseteq {"tool_contact"} /\ cm.off \subseteq {"tool_contact"}
      /\ hw.start = cm.on /\ hw.stop = cm.off /\ DOMAIN hw = HardwareKeys
      /\ DOMAIN hw.tc = {"set", "state", "result"}
  BY DEF ContactInv, ContactSession, ContactFrame, FlagsInv
<1>2. hw' = f.h /\ net' = s.n
  BY DEF Switch
<1>3. hw' = IF "tool_contact" \in cm.on THEN ToolContactActivate(s.h) ELSE s.h
  <2>1. p = [h |-> s.h, c |-> ptc]
    BY <1>1
  <2>2. m = s.h
    BY <1>1, <2>1
  <2>3. f.h = t
    BY <1>1
  <2> QED
    BY <1>2, <2>2, <2>3
<1> DEFINE e == Script(s0, "end_tool")
           u == IF "tool_contact" \in cm.off THEN [e EXCEPT !.h.tc.result = 3] ELSE s0
<1>4. PerformStarts(PerformStops(s0)) = u
  <2>1. PerformStops(s0) = u
    <3>1. /\ "force" \notin s0.h.stop /\ "passthrough" \notin s0.h.stop /\ "freedrive" \notin s0.h.stop
          /\ s0.h.stop = cm.off
      BY <1>1
    <3> HIDE DEF s0
    <3> QED
      BY <3>1 DEF PerformStops
  <2>2. u.h.start = hw.start
    <3>1. e.h = hw
      BY DEF Script
    <3> QED
      BY <1>1, <3>1 DEF HardwareKeys, Script
  <2> HIDE DEF u
  <2> QED
    BY <1>1, <2>1, <2>2 DEF PerformStarts
<1>5. /\ DOMAIN u = {"h", "n"} /\ DOMAIN u.h = HardwareKeys /\ u.h.fm = hw.fm /\ u.h.program = hw.program
      /\ u.h.tc = IF "tool_contact" \in cm.off THEN [hw.tc EXCEPT !.result = 3] ELSE hw.tc
      /\ u.n = IF "tool_contact" \in cm.off THEN SendScript(net, "end_tool") ELSE net
  BY <1>1 DEF Script, HardwareKeys
<1> HIDE DEF u, e
<1>6. PICK x : s = [u EXCEPT !.h.modes = x, !.h.start = {}, !.h.stop = {}]
  BY <1>4 DEF PerformSwitch
<1>7. /\ DOMAIN s.h = HardwareKeys /\ s.h.fm = hw.fm /\ s.h.program = hw.program /\ s.h.tc = u.h.tc /\ s.n = u.n
  <2>1. PICK k : k = [u.h EXCEPT !.modes = x]
    OBVIOUS
  <2>2. PICK l : l = [k EXCEPT !.start = {}]
    OBVIOUS
  <2>3. s.h = [l EXCEPT !.stop = {}] /\ s.n = u.n
    BY <1>5, <1>6, <2>1, <2>2
  <2>4. DOMAIN k = HardwareKeys /\ k.fm = hw.fm /\ k.program = hw.program /\ k.tc = u.h.tc
    BY <1>5, <2>1 DEF HardwareKeys
  <2>5. DOMAIN l = HardwareKeys /\ l.fm = hw.fm /\ l.program = hw.program /\ l.tc = u.h.tc
    BY <2>2, <2>4 DEF HardwareKeys
  <2> HIDE DEF s
  <2> QED
    BY <2>3, <2>5 DEF HardwareKeys
<1> HIDE DEF s
<1>8. /\ hw'.fm = hw.fm /\ hw'.program = hw.program
      /\ hw'.tc = IF "tool_contact" \in cm.on THEN [u.h.tc EXCEPT !.set = 1] ELSE u.h.tc
  BY <1>3, <1>7 DEF ToolContactActivate, HardwareKeys
<1>9. CASE cm.off = {}
  BY <1>1, <1>2, <1>5, <1>7, <1>8, <1>9
<1>10. CASE cm.off # {}
  <2>1. u.h.tc = [hw.tc EXCEPT !.result = 3]
    BY <1>1, <1>5, <1>10
  <2>2. hw'.tc = u.h.tc \/ hw'.tc = [u.h.tc EXCEPT !.set = 1]
    BY <1>8
  <2>3. DOMAIN u.h.tc = DOMAIN hw.tc /\ u.h.tc.set = hw.tc.set
    BY <1>1, <2>1
  <2>4. DOMAIN hw'.tc = DOMAIN hw.tc /\ hw'.tc.set \in {1, hw.tc.set}
    BY <1>1, <2>2, <2>3
  <2>5. net' \in {net, SendScript(net, "end_tool")}
    BY <1>2, <1>5, <1>7
  <2> QED
    BY <1>8, <1>10, <2>4, <2>5
<1> QED
  BY <1>9, <1>10

LEMMA ScriptReaches ==
  ASSUME NEW n, DOMAIN n = NetKeys, NEW c \in ContactCommands, n.scr \in Seq(ContactCommands)
  PROVE  LET k == SendScript(n, c) IN
           /\ DOMAIN k = NetKeys /\ k.scr \in Seq(ContactCommands)
           /\ k.ans = n.ans /\ k.peer = n.peer
           /\ k.scr = IF n.peer = "up" THEN Append(n.scr, c) ELSE n.scr
BY DEF SendScript, NetKeys

LEMMA SwitchKeepsContact ==
  ASSUME ContactInv, FlagsInv, session = "contact", Switch
  PROVE  ContactSession'
<1>1. ContactSession /\ DOMAIN tcc = GoalKeys
  BY DEF ContactInv
<1>2. /\ hw'.fm = hw.fm /\ hw'.program = hw.program /\ DOMAIN hw'.tc = DOMAIN hw.tc
      /\ hw'.tc.set \in {1, hw.tc.set}
      /\ cm.off = {} /\ cm.on = {} => hw'.tc = hw.tc
      /\ cm.off = {} /\ cm.on # {} => hw'.tc = [hw.tc EXCEPT !.set = 1]
      /\ net' \in {net, SendScript(net, "end_tool")} /\ (cm.off = {} => net' = net)
  BY SwitchOfContact
<1>3. cm.on \subseteq {"tool_contact"} /\ cm.off \subseteq {"tool_contact"}
  BY <1>1 DEF ContactSession, ContactFrame
<1>4. cm'.active = (cm.active \ cm.off) \cup cm.on /\ cm'.on = {} /\ cm'.off = {}
  BY DEF Switch, FlagsInv, Manager
<1>5. /\ robot' = robot /\ gpio' = gpio
      /\ tcc' = IF "tool_contact" \in cm.off THEN ToolContactDeactivate(tcc) ELSE tcc
  BY DEF Switch
<1>6. cm.off # {} => clean' = FALSE
  BY <1>3 DEF Switch, Upset
<1>7. cm.off = {} => clean' = clean
  BY <1>3 DEF Switch
<1>8. ContactFrame'
  <2>1. net'.scr \in Seq(ContactCommands) /\ DOMAIN net' = NetKeys
    BY <1>1, <1>2, ScriptReaches DEF ContactSession, ContactFrame, ContactCommands
  <2> QED
    BY <1>1, <1>2, <1>3, <1>4, <1>5, <2>1 DEF ContactSession, ContactFrame
<1>9. CASE cm.off = {} /\ clean
  <2>1. net' = net /\ tcc' = tcc /\ CleanInv
    BY <1>1, <1>2, <1>5, <1>9 DEF ContactSession
  <2>2. CASE cm.on = {}
    <3>1. hw'.tc = hw.tc /\ cm'.active = cm.active
      BY <1>2, <1>4, <1>9, <2>2
    <3>2. OrderInv'
      BY <1>5, <2>1, <3>1 DEF CleanInv, OrderInv, Armed, Ahead
    <3>3. AnswerInv'
      BY <1>5, <2>1, <3>1 DEF CleanInv, AnswerInv, Detected, Due, Ahead
    <3> QED
      BY <1>2, <1>5, <1>8, <2>1, <3>2, <3>3 DEF CleanInv, LinkInv, ContactSession
  <2>3. CASE cm.on # {}
    <3>1. hw'.tc = [hw.tc EXCEPT !.set = 1] /\ hw'.tc.state = hw.tc.state /\ hw'.tc.result = hw.tc.result
      BY <1>1, <1>2, <1>9, <2>3 DEF ContactSession, ContactFrame
    <3>2. hw.tc.state # 3
      BY <1>1, <1>3, <2>1, <2>3 DEF CleanInv, AnswerInv, ContactSession, ContactFrame
    <3>3. OrderInv'
      BY <1>5, <2>1, <3>1 DEF CleanInv, OrderInv, Armed, Ahead
    <3>4. AnswerInv'
      BY <1>5, <2>1, <3>1, <3>2 DEF CleanInv, AnswerInv, Detected, Due, Ahead
    <3> QED
      BY <1>2, <1>5, <1>8, <2>1, <3>3, <3>4 DEF CleanInv, LinkInv, ContactSession
  <2> QED
    BY <2>2, <2>3
<1> QED
  BY <1>6, <1>7, <1>8, <1>9 DEF ContactSession

\* ToolContactController::update(): it only stores into tool_contact_set_state_,
\* and it reports success only when the result of the robot is contact.
ContactTold(u) ==
    /\ u.h.fm = hw.fm /\ u.h.program = hw.program /\ DOMAIN u.h = HardwareKeys
    /\ DOMAIN u.h.tc = DOMAIN hw.tc /\ u.h.tc.state = hw.tc.state /\ u.h.tc.result = hw.tc.result
    /\ u.h.tc.set \in {1, 2, 5, hw.tc.set}
    /\ DOMAIN u.c = GoalKeys
ContactAnswers(u) ==
    /\ u.c.status \in {tcc.status, "succeeded", "aborted"}
    /\ u.c.status = "succeeded" => tcc.status = "succeeded" \/ Due
    /\ ~u.c.abort
    /\ Due => u.h.tc.set = 5
    /\ hw.tc.state = 3 /\ hw.tc.result = 3 /\ ~tcc.abort => u.h.tc.set \in {2, hw.tc.set}

LEMMA AnsweredIs ==
  ASSUME NEW c, DOMAIN c = GoalKeys, NEW how
  PROVE  /\ DOMAIN Answered(c, how) = GoalKeys
         /\ Answered(c, how).status \in {c.status, how}
         /\ Answered(c, how).abort = c.abort
BY DEF Answered, GoalKeys

LEMMA ContactUpdateIs ==
  ASSUME DOMAIN hw = HardwareKeys, DOMAIN hw.tc = {"set", "state", "result"}, DOMAIN tcc = GoalKeys
  PROVE  ContactTold(ToolContactUpdate(hw, tcc)) /\ ContactAnswers(ToolContactUpdate(hw, tcc))
<1>1. PICK r : r = Requested(hw, tcc)
  OBVIOUS
<1>2. PICK h, c : h = r.h /\ c = r.c
  OBVIOUS
<1>3. /\ DOMAIN h = HardwareKeys /\ h.fm = hw.fm /\ h.program = hw.program
      /\ DOMAIN h.tc = DOMAIN hw.tc /\ h.tc.state = hw.tc.state /\ h.tc.result = hw.tc.result
      /\ h.tc.set \in {2, 5, hw.tc.set} /\ (~tcc.abort => h.tc.set \in {2, hw.tc.set})
  BY <1>1, <1>2 DEF Requested, HardwareKeys
<1>4. DOMAIN c = GoalKeys /\ c.status = tcc.status /\ ~c.abort
  BY <1>1, <1>2 DEF Requested, GoalKeys
<1>5. PICK e, f : e = [h EXCEPT !.tc.set = 5] /\ f = Standby(h)
  OBVIOUS
<1>6. /\ DOMAIN e = HardwareKeys /\ e.fm = hw.fm /\ e.program = hw.program
      /\ DOMAIN e.tc = DOMAIN hw.tc /\ e.tc.state = hw.tc.state /\ e.tc.result = hw.tc.result /\ e.tc.set = 5
  BY <1>3, <1>5 DEF HardwareKeys
<1>7. /\ DOMAIN f = HardwareKeys /\ f.fm = hw.fm /\ f.program = hw.program
      /\ DOMAIN f.tc = DOMAIN hw.tc /\ f.tc.state = hw.tc.state /\ f.tc.result = hw.tc.result /\ f.tc.set = 1
  BY <1>3, <1>5 DEF HardwareKeys, Standby
<1>8. PICK a, s : a = Answered(c, "aborted") /\ s = Answered(c, "succeeded")
  OBVIOUS
<1>9. /\ DOMAIN a = GoalKeys /\ a.status \in {tcc.status, "aborted"} /\ ~a.abort
      /\ DOMAIN s = GoalKeys /\ s.status \in {tcc.status, "succeeded"} /\ ~s.abort
  BY <1>4, <1>8, AnsweredIs
<1>10. \A k, x : DOMAIN k = GoalKeys => /\ DOMAIN [k EXCEPT !.active = x] = GoalKeys
                                        /\ [k EXCEPT !.active = x].status = k.status
                                        /\ [k EXCEPT !.active = x].abort = k.abort
  BY DEF GoalKeys
<1>11. PICK u : u = ToolContactUpdate(hw, tcc)
  OBVIOUS
<1>12. CASE Due
  <2>1. u.h = e /\ u.c = [s EXCEPT !.active = FALSE]
    BY <1>1, <1>2, <1>3, <1>5, <1>8, <1>11, <1>12 DEF ToolContactUpdate, Due
  <2>2. DOMAIN u.c = GoalKeys /\ u.c.status = s.status /\ u.c.abort = s.abort
    BY <1>9, <1>10, <2>1
  <2>3. hw.tc.result # 3
    BY <1>12 DEF Due
  <2> QED
    BY <1>6, <1>9, <1>11, <1>12, <2>1, <2>2, <2>3 DEF ContactTold, ContactAnswers
<1>13. CASE ~Due
  <2>1. u.h \in {h, f} /\ (hw.tc.state = 3 /\ hw.tc.result = 3 => u.h = h)
    BY <1>1, <1>2, <1>3, <1>5, <1>11, <1>13 DEF ToolContactUpdate, Due
  <2>2. u.c \in {c, a, [c EXCEPT !.active = TRUE], [c EXCEPT !.active = FALSE], [a EXCEPT !.active = FALSE]}
    BY <1>1, <1>2, <1>3, <1>8, <1>11, <1>13 DEF ToolContactUpdate, Due
  <2>3. DOMAIN u.c = GoalKeys /\ u.c.status \in {tcc.status, "aborted"} /\ ~u.c.abort
    <3>1. CASE u.c \in {c, a}
      BY <1>4, <1>9, <3>1
    <3>2. CASE u.c \in {[c EXCEPT !.active = TRUE], [c EXCEPT !.active = FALSE], [a EXCEPT !.active = FALSE]}
      <4>1. PICK k \in {c, a} : \E x \in BOOLEAN : u.c = [k EXCEPT !.active = x]
        BY <3>2
      <4>2. DOMAIN k = GoalKeys /\ k.status \in {tcc.status, "aborted"} /\ ~k.abort
        BY <1>4, <1>9, <4>1
      <4> QED
        BY <1>10, <4>1, <4>2
    <3> QED
      BY <2>2, <3>1, <3>2
  <2>4. ContactTold(u)
    BY <1>3, <1>7, <2>1, <2>3 DEF ContactTold
  <2>5. hw.tc.state = 3 /\ hw.tc.result = 3 /\ ~tcc.abort => u.h.tc.set \in {2, hw.tc.set}
    BY <1>3, <2>1
  <2> QED
    BY <1>11, <1>13, <2>3, <2>4, <2>5 DEF ContactAnswers
<1> QED
  BY <1>12, <1>13

LEMMA UpdateOfContact ==
  ASSUME ContactInv, FlagsInv, session = "contact", Update
  PROVE  \/ hw' = hw /\ tcc' = tcc
         \/ LET u == ToolContactUpdate(hw, tcc) IN hw' = u.h /\ tcc' = u.c
<1>1. cm.active \subseteq {"tool_contact"}
  BY DEF ContactInv, ContactSession, ContactFrame
<1> DEFINE u == ToolContactUpdate(hw, tcc)
           T(p) == IF "tool_contact" \in cm.active THEN ToolContactUpdate(p.h, tcc)
                   ELSE [h |-> p.h, c |-> tcc]
           F(p) == IF "freedrive" \in cm.active THEN FreedriveUpdate(T(p).h, fdc)
                   ELSE [h |-> T(p).h, c |-> fdc]
           M(p) == IF "force" \in cm.active THEN ForceModeUpdate(F(p).h, fmc)
                   ELSE [h |-> F(p).h, c |-> fmc]
           P(seen) == IF "passthrough" \in cm.active THEN PassthroughUpdate(hw, ptc, seen)
                      ELSE {[h |-> hw, c |-> ptc]}
<1>2. \E seen \in {rt.seen, hw.pt.state} : \E p \in P(seen) : hw' = M(p).h /\ tcc' = T(p).c
  BY DEF Update
<1>3. \A seen : P(seen) = {[h |-> hw, c |-> ptc]}
  BY <1>1
<1> DEFINE q == [h |-> hw, c |-> ptc]
<1>4. hw' = M(q).h /\ tcc' = T(q).c
  <2> HIDE DEF M, T, P
  <2> QED
    BY <1>2, <1>3
<1>5. F(q).h = T(q).h /\ M(q).h = F(q).h
  BY <1>1
<1>6. q.h = hw
  OBVIOUS
<1>7. T(q) = IF "tool_contact" \in cm.active THEN u ELSE [h |-> hw, c |-> tcc]
  BY <1>6
<1> HIDE DEF F, M, T, q, u
<1> QED
  BY <1>4, <1>5, <1>7 DEF u

LEMMA UpdateKeepsContact ==
  ASSUME ContactInv, FlagsInv, session = "contact", Update
  PROVE  ContactSession' /\ DOMAIN tcc' = GoalKeys
<1>1. ContactSession /\ DOMAIN tcc = GoalKeys /\ DOMAIN hw = HardwareKeys
  BY DEF ContactInv, FlagsInv
<1>2. robot' = robot /\ net' = net /\ gpio' = gpio /\ cm' = cm /\ clean' = clean
  BY DEF Update
<1>3. CASE hw' = hw /\ tcc' = tcc
  <2>1. /\ cm.on \cup cm.off \subseteq {"tool_contact"} /\ cm.on \cap cm.active = {}
        /\ \A k \in Kinds : gpio.cmd[k] = None
    BY <1>1 DEF ContactSession, ContactFrame
  <2> QED
    BY <1>1, <1>2, <1>3, <2>1, ContactUnseen DEF RobotSeen, NetSeen, DriverSeen
<1>4. ASSUME NEW u, u = ToolContactUpdate(hw, tcc), hw' = u.h, tcc' = u.c
      PROVE  ContactSession' /\ DOMAIN tcc' = GoalKeys
  <2>1. ContactTold(u) /\ ContactAnswers(u)
    BY <1>1, <1>4, ContactUpdateIs DEF ContactSession, ContactFrame
  <2>2. ContactFrame'
    BY <1>1, <1>2, <1>4, <2>1 DEF ContactSession, ContactFrame, ContactTold
  <2>3. ASSUME CleanInv PROVE CleanInv'
    <3>1. hw'.tc.state = hw.tc.state /\ hw'.tc.result = hw.tc.result /\ hw'.program = hw.program /\ ~tcc'.abort
      BY <1>4, <2>1 DEF ContactTold, ContactAnswers
    <3>2. OrderInv'
      BY <1>2, <2>3, <3>1 DEF CleanInv, OrderInv, Armed, Ahead
    <3>3. LinkInv'
      BY <1>2, <2>3, <3>1 DEF CleanInv, LinkInv
    <3>4. tcc'.status = "accepted" => tcc.status = "accepted"
      BY <1>4, <2>1 DEF ContactAnswers
    <3>5. hw.tc.state = 3 => hw'.tc.set \in {2, 5} /\ (hw'.tc.set = 5 => hw'.tc.result = 0)
      <4>1. CASE Due
        BY <1>4, <2>1, <3>1, <4>1 DEF ContactAnswers, Due
      <4>2. CASE hw.tc.state = 3 /\ ~Due
        <5>1. hw.tc.result = 3 /\ hw.tc.set = 2
          BY <2>3, <4>2 DEF CleanInv, AnswerInv, Due
        <5> QED
          BY <1>4, <2>1, <2>3, <4>2, <5>1 DEF ContactAnswers, CleanInv
      <4> QED
        BY <4>1, <4>2
    <3>6. AnswerInv'
      BY <1>2, <2>3, <3>1, <3>4, <3>5 DEF CleanInv, AnswerInv, Detected, Due, Ahead
    <3> QED
      BY <3>1, <3>2, <3>3, <3>6 DEF CleanInv
  <2> QED
    BY <1>1, <1>2, <1>4, <2>1, <2>2, <2>3 DEF ContactSession, ContactTold
<1> QED
  BY <1>1, <1>3, <1>4, UpdateOfContact

\* check_tool_contact_controller(): what write() stores and sends.
Sent(c) == IF net.peer = "up" THEN Append(net.scr, c) ELSE net.scr
ContactLeft == hw'.tc = hw.tc /\ net'.scr = net.scr
ContactBegun == hw.tc.set = 2 /\ net'.scr = Sent("start_tool")
                /\ hw'.tc = IF HasClient(net) THEN [hw.tc EXCEPT !.state = 3, !.result = 3]
                            ELSE [hw.tc EXCEPT !.state = 4]
ContactOver == hw.tc.set = 5 /\ net'.scr = Sent("end_tool")
               /\ hw'.tc = [hw.tc EXCEPT !.state = IF HasClient(net) THEN 6 ELSE 7]
ContactFollows == hw.tc.set \notin {2, 5} /\ net'.scr = net.scr /\ hw'.tc = [hw.tc EXCEPT !.state = hw.tc.set]

LEMMA WriteOfContact ==
  ASSUME ContactInv, FlagsInv, session = "contact", Write
  PROVE  /\ hw'.fm = hw.fm /\ hw'.program = hw.program
         /\ net'.ans = net.ans /\ net'.peer = net.peer /\ DOMAIN net' = NetKeys
         /\ \/ ContactLeft
            \/ hw.program /\ "tool_contact" \in cm.active /\ (ContactBegun \/ ContactOver \/ ContactFollows)
<1>1. /\ hw.modes = cm.active /\ cm.active \subseteq {"tool_contact"} /\ DOMAIN hw = HardwareKeys
      /\ ~hw.fm.params /\ hw.fm.disable = NoCmd /\ DOMAIN net = NetKeys
      /\ DOMAIN hw.tc = {"set", "state", "result"}
  BY DEF ContactInv, ContactSession, ContactFrame, FlagsInv, Exported
<1> DEFINE s0 == [h |-> hw, n |-> net]
<1>2. PICK seen : LET s == IF MaySend THEN Written(s0, seen) ELSE s0 IN hw' = s.h /\ net' = s.n
  BY DEF Write
<1>3. CASE ~MaySend
  BY <1>1, <1>2, <1>3 DEF ContactLeft
<1>4. CASE MaySend
  <2>1. hw' = Written(s0, seen).h /\ net' = Written(s0, seen).n
    BY <1>2, <1>4
  <2>a. PICK idle : idle = Command("idle", "", 0)
    BY Zenon
  <2>2. PICK k : k = SendReverse(net, idle)
    OBVIOUS
  <2>3. /\ DOMAIN k = NetKeys /\ k.scr = net.scr /\ k.ans = net.ans /\ k.peer = net.peer
    BY <1>1, <2>2 DEF SendReverse, NetKeys
  <2>4. PICK t : t = [h |-> hw, n |-> k]
    OBVIOUS
  <2>5. Motion(s0, seen) = t
    <3>1. s0.h.modes = cm.active
      BY <1>1
    <3>2. Tell(s0, "idle", "", 0) = t
      <4>1. Tell(s0, "idle", "", 0) = [s0 EXCEPT !.n = SendReverse(@, idle)]
        BY <2>a, Zenon DEF Tell
      <4>2. [s0 EXCEPT !.n = SendReverse(@, idle)] = t
        BY <2>2, <2>4
      <4> QED
        BY <4>1, <4>2, Zenon
    <3>3. "position" \notin s0.h.modes /\ "velocity" \notin s0.h.modes /\ "effort" \notin s0.h.modes
          /\ "freedrive" \notin s0.h.modes /\ "passthrough" \notin s0.h.modes
      BY <1>1, <3>1
    <3> HIDE DEF s0
    <3> QED
      BY <3>2, <3>3, Zenon DEF Motion
  <2>6. ForceControl(t) = t
    BY <1>1, <2>4 DEF ForceControl
  <2>7. PICK v : v = Contact(t)
    OBVIOUS
  <2>8. Written(s0, seen) = [v EXCEPT !.h.fresh = FALSE]
    BY <2>5, <2>6, <2>7 DEF Written
  <2>9. ASSUME NEW h, NEW n, v = [h |-> h, n |-> n], DOMAIN h = HardwareKeys
        PROVE  hw'.fm = h.fm /\ hw'.program = h.program /\ hw'.tc = h.tc /\ net' = n
    BY <2>1, <2>8, <2>9 DEF HardwareKeys
  <2>10. HasClient(k) <=> HasClient(net)
    BY <2>3 DEF HasClient
  <2>11. ASSUME NEW c PROVE Script(t, c) = [h |-> hw, n |-> SendScript(k, c)]
                            /\ SendScript(k, c).scr = Sent(c)
                            /\ SendScript(k, c).ans = net.ans /\ SendScript(k, c).peer = net.peer
                            /\ DOMAIN SendScript(k, c) = NetKeys
    <3>1. Script(t, c) = [h |-> hw, n |-> SendScript(k, c)]
      BY <2>4 DEF Script
    <3> QED
      BY <2>3, <3>1 DEF SendScript, NetKeys, Sent
  <2>12. CASE "tool_contact" \notin cm.active
    <3>1. v = [h |-> hw, n |-> k]
      BY <1>1, <2>4, <2>7, <2>12 DEF Contact
    <3> QED
      BY <1>1, <2>3, <2>9, <3>1 DEF ContactLeft
  <2>13. CASE "tool_contact" \in cm.active /\ hw.tc.set = 2
    <3>1. PICK h : h = IF HasClient(net) THEN ContactStarted(hw) ELSE [hw EXCEPT !.tc.state = 4]
      OBVIOUS
    <3>2. v = [h |-> h, n |-> SendScript(k, "start_tool")]
      <4>1. v = [Script(t, "start_tool") EXCEPT
                            !.h = IF HasClient(k) THEN ContactStarted(@) ELSE [@ EXCEPT !.tc.state = 4]]
        BY <1>1, <2>4, <2>7, <2>13 DEF Contact, CheckToolContact
      <4> QED
        BY <2>10, <2>11, <3>1, <4>1
    <3>3. /\ DOMAIN h = HardwareKeys /\ h.fm = hw.fm /\ h.program = hw.program
          /\ h.tc = IF HasClient(net) THEN [hw.tc EXCEPT !.state = 3, !.result = 3]
                            ELSE [hw.tc EXCEPT !.state = 4]
      BY <1>1, <3>1 DEF HardwareKeys, ContactStarted
    <3>4. hw.program
      BY <1>4 DEF MaySend
    <3>5. hw'.fm = h.fm /\ hw'.program = h.program /\ hw'.tc = h.tc /\ net' = SendScript(k, "start_tool")
      BY <2>9, <3>2, <3>3
    <3> QED
      BY <2>11, <2>13, <3>3, <3>4, <3>5 DEF ContactBegun
  <2>14. CASE "tool_contact" \in cm.active /\ hw.tc.set = 5
    <3>1. PICK h, x : x = (IF HasClient(net) THEN 6 ELSE 7) /\ h = [hw EXCEPT !.tc.state = x]
      OBVIOUS
    <3>2. v = [h |-> h, n |-> SendScript(k, "end_tool")]
      <4>1. v = [Script(t, "end_tool") EXCEPT !.h.tc.state = x]
        BY <1>1, <2>4, <2>7, <2>10, <2>14, <3>1 DEF Contact, CheckToolContact
      <4> QED
        BY <2>11, <3>1, <4>1
    <3>3. /\ DOMAIN h = HardwareKeys /\ h.fm = hw.fm /\ h.program = hw.program
          /\ h.tc = [hw.tc EXCEPT !.state = x]
      BY <1>1, <3>1 DEF HardwareKeys
    <3>4. hw.program
      BY <1>4 DEF MaySend
    <3>5. hw'.fm = h.fm /\ hw'.program = h.program /\ hw'.tc = h.tc /\ net' = SendScript(k, "end_tool")
      BY <2>9, <3>2, <3>3
    <3> QED
      BY <2>11, <2>14, <3>1, <3>3, <3>4, <3>5 DEF ContactOver
  <2>15. CASE "tool_contact" \in cm.active /\ hw.tc.set \notin {2, 5}
    <3>1. PICK h : h = [hw EXCEPT !.tc.state = hw.tc.set]
      OBVIOUS
    <3>2. v = [h |-> h, n |-> k]
      BY <1>1, <2>4, <2>7, <2>15, <3>1 DEF Contact, CheckToolContact
    <3>3. /\ DOMAIN h = HardwareKeys /\ h.fm = hw.fm /\ h.program = hw.program
          /\ h.tc = [hw.tc EXCEPT !.state = hw.tc.set]
      BY <1>1, <3>1 DEF HardwareKeys
    <3>4. hw.program
      BY <1>4 DEF MaySend
    <3> QED
      BY <2>3, <2>9, <2>15, <3>2, <3>3, <3>4 DEF ContactFollows
  <2> QED
    BY <2>12, <2>13, <2>14, <2>15
<1> QED
  BY <1>3, <1>4

LEMMA AppendIs ==
  ASSUME NEW q \in Seq(ContactCommands), NEW c \in ContactCommands
  PROVE  /\ Append(q, c) \in Seq(ContactCommands) /\ Append(q, c) # <<>>
         /\ Len(Append(q, c)) = Len(q) + 1 /\ Append(q, c)[Len(q) + 1] = c
         /\ DOMAIN q = 1..Len(q) /\ DOMAIN Append(q, c) = 1..(Len(q) + 1) /\ Len(q) \in Nat
         /\ \A i \in 1..Len(q) : Append(q, c)[i] = q[i] /\ q[i] \in ContactCommands
OBVIOUS

LEMMA BegunKeepsOrder ==
  ASSUME CleanInv, net.scr \in Seq(ContactCommands), net.peer = "up", ContactBegun, hw'.tc.state = 3,
         robot' = robot
  PROVE  OrderInv' /\ (Ahead(net'.scr, "end_tool") <=> Ahead(net.scr, "end_tool"))
<1> DEFINE q == net.scr
           a == Append(q, "start_tool")
<1>1. net'.scr = a
  BY DEF ContactBegun, Sent
<1>2. /\ a # <<>> /\ Len(a) = Len(q) + 1 /\ a[Len(q) + 1] = "start_tool"
      /\ DOMAIN q = 1..Len(q) /\ DOMAIN a = 1..(Len(q) + 1) /\ Len(q) \in Nat
      /\ \A i \in 1..Len(q) : a[i] = q[i]
  BY AppendIs DEF ContactCommands
<1>3. OrderInv
  BY DEF CleanInv
<1> HIDE DEF a
<1>4. Ahead(a, "end_tool") <=> Ahead(q, "end_tool")
  BY <1>2 DEF Ahead
<1>5. ~robot.tool => \A i, j \in DOMAIN a : i < j /\ a[i] = "start_tool" => a[j] = "start_tool"
  BY <1>2, <1>3 DEF OrderInv
<1>6. \A i, j, k \in DOMAIN a :
          i < j /\ j < k /\ a[i] = "end_tool" /\ a[j] = "start_tool" => a[k] = "start_tool"
  BY <1>2, <1>3 DEF OrderInv
<1>7. Armed'
  BY <1>1, <1>2 DEF Armed
<1> QED
  BY <1>1, <1>3, <1>4, <1>5, <1>6, <1>7 DEF OrderInv

LEMMA OverKeepsOrder ==
  ASSUME CleanInv, net.scr \in Seq(ContactCommands), net.peer = "up", ContactOver, hw'.tc.state = 6,
         robot' = robot
  PROVE  OrderInv' /\ net.ans = <<>>
<1> DEFINE q == net.scr
           a == Append(q, "end_tool")
<1>1. net'.scr = a
  BY DEF ContactOver, Sent
<1>2. /\ a # <<>> /\ Len(a) = Len(q) + 1 /\ a[Len(q) + 1] = "end_tool"
      /\ DOMAIN q = 1..Len(q) /\ DOMAIN a = 1..(Len(q) + 1) /\ Len(q) \in Nat
      /\ \A i \in 1..Len(q) : a[i] = q[i] /\ q[i] \in ContactCommands
  BY AppendIs DEF ContactCommands
<1>3. OrderInv /\ AnswerInv
  BY DEF CleanInv
<1> HIDE DEF a
<1>4. CASE hw.tc.state = 3
  <2>1. Due /\ Detected /\ net.ans = <<>>
    BY <1>3, <1>4 DEF ContactOver, AnswerInv, Due
  <2>2. robot.tool /\ robot.mode = "contact" /\ \A i \in 1..Len(q) : q[i] # "end_tool"
    BY <1>2, <2>1 DEF Detected, Ahead
  <2>3. ~Armed'
    BY <1>1, <1>2 DEF Armed
  <2>4. \A i, j \in DOMAIN a : i < j => a[i] # "end_tool"
    BY <1>2, <2>2
  <2> QED
    BY <1>1, <1>2, <2>1, <2>2, <2>3, <2>4 DEF OrderInv
<1>5. CASE hw.tc.state # 3
  <2>1. net.ans = <<>> /\ ~Armed /\ ~Armed'
    BY <1>1, <1>2, <1>3, <1>5 DEF AnswerInv, OrderInv, Armed
  <2>2. q # <<>> => Len(q) \in 1..Len(q) /\ q[Len(q)] = "end_tool"
    BY <1>2, <2>1 DEF Armed, ContactCommands
  <2>3. q = <<>> => ~robot.tool /\ Len(q) = 0
    BY <2>1 DEF Armed
  <2>a. robot.tool => q # <<>> /\ Ahead(q, "end_tool")
    BY <1>2, <2>2, <2>3 DEF Ahead
  <2>4. robot.tool => robot.mode = "contact"
    BY <1>3, <2>a DEF OrderInv
  <2>b. \A i \in 1..Len(q) : /\ q # <<>> /\ Len(q) \in 1..Len(q) /\ q[Len(q)] = "end_tool"
                             /\ q[i] = "start_tool" => i < Len(q)
    <3> SUFFICES ASSUME NEW i \in 1..Len(q)
                 PROVE  /\ q # <<>> /\ Len(q) \in 1..Len(q) /\ q[Len(q)] = "end_tool"
                        /\ q[i] = "start_tool" => i < Len(q)
      OBVIOUS
    <3>1. q # <<>> /\ Len(q) \in 1..Len(q) /\ q[Len(q)] = "end_tool"
      BY <1>2, <2>2, <2>3
    <3>2. i = Len(q) \/ i < Len(q)
      BY <1>2
    <3> QED
      BY <3>1, <3>2
  <2>5. ~robot.tool => \A i \in 1..Len(q) : q[i] # "start_tool"
    <3>1. ~robot.tool => \A i, j \in 1..Len(q) : i < j /\ q[i] = "start_tool" => q[j] = "start_tool"
      BY <1>2, <1>3 DEF OrderInv
    <3> QED
      BY <2>b, <3>1
  <2>6. \A i, j \in 1..Len(q) : i < j /\ q[i] = "end_tool" => q[j] # "start_tool"
    <3>1. \A i, j, k \in 1..Len(q) :
             i < j /\ j < k /\ q[i] = "end_tool" /\ q[j] = "start_tool" => q[k] = "start_tool"
      BY <1>2, <1>3 DEF OrderInv
    <3> QED
      BY <2>b, <3>1
  <2>7. ~robot.tool => \A i, j \in DOMAIN a : i < j /\ a[i] = "start_tool" => a[j] = "start_tool"
    BY <1>2, <2>5
  <2>8. \A i, j, k \in DOMAIN a :
          i < j /\ j < k /\ a[i] = "end_tool" /\ a[j] = "start_tool" => a[k] = "start_tool"
    BY <1>2, <2>6
  <2> QED
    BY <1>1, <2>1, <2>4, <2>7, <2>8 DEF OrderInv
<1> QED
  BY <1>4, <1>5

LEMMA WriteKeepsContact ==
  ASSUME ContactInv, FlagsInv, session = "contact", Write
  PROVE  ContactSession'
<1>1. ContactSession
  BY DEF ContactInv
<1>2. robot' = robot /\ gpio' = gpio /\ cm' = cm /\ clean' = clean /\ tcc' = tcc
  BY DEF Write, ctrls
<1>3. /\ hw'.fm = hw.fm /\ hw'.program = hw.program
      /\ net'.ans = net.ans /\ net'.peer = net.peer /\ DOMAIN net' = NetKeys
      /\ \/ ContactLeft
         \/ hw.program /\ "tool_contact" \in cm.active /\ (ContactBegun \/ ContactOver \/ ContactFollows)
  BY WriteOfContact
<1>4. CASE ContactLeft
  <2>1. /\ cm.on \cup cm.off \subseteq {"tool_contact"} /\ cm.on \cap cm.active = {}
        /\ \A k \in Kinds : gpio.cmd[k] = None /\ DOMAIN net = NetKeys
    BY <1>1 DEF ContactSession, ContactFrame
  <2> QED
    BY <1>1, <1>2, <1>3, <1>4, <2>1, ContactUnseen
    DEF RobotSeen, NetSeen, DriverSeen, ContactLeft, ContactSession, ContactFrame
<1>5. CASE hw.program /\ "tool_contact" \in cm.active /\ (ContactBegun \/ ContactOver \/ ContactFollows)
  <2>1. DOMAIN hw.tc = {"set", "state", "result"} /\ net.scr \in Seq(ContactCommands) /\ hw.tc.set # 3
    BY <1>1 DEF ContactSession, ContactFrame
  <2>2. DOMAIN hw'.tc = {"set", "state", "result"} /\ hw'.tc.set = hw.tc.set
    BY <1>5, <2>1 DEF ContactBegun, ContactOver, ContactFollows
  <2>3. net'.scr \in Seq(ContactCommands)
    <3>1. \A c \in ContactCommands : Append(net.scr, c) \in Seq(ContactCommands)
      BY <2>1, AppendIs
    <3>2. \A c \in ContactCommands : Sent(c) \in Seq(ContactCommands)
      BY <2>1, <3>1 DEF Sent
    <3>3. "start_tool" \in ContactCommands /\ "end_tool" \in ContactCommands
      BY DEF ContactCommands
    <3> QED
      BY <1>5, <2>1, <3>2, <3>3 DEF ContactBegun, ContactOver, ContactFollows
  <2>4. ContactFrame'
    BY <1>1, <1>2, <1>3, <2>1, <2>2, <2>3 DEF ContactSession, ContactFrame
  <2>5. ASSUME CleanInv PROVE CleanInv'
    <3>1. LinkInv' /\ ~tcc'.abort
      BY <1>2, <1>3, <2>5 DEF CleanInv, LinkInv
    <3>2. net.peer = "up" /\ HasClient(net)
      BY <1>5, <2>5 DEF CleanInv, LinkInv, HasClient
    <3>3. CASE ContactBegun
      <4>1. hw'.tc.state = 3 /\ hw'.tc.result = 3 /\ hw'.tc.set = 2
        BY <2>1, <3>2, <3>3 DEF ContactBegun
      <4>2. OrderInv' /\ (Ahead(net'.scr, "end_tool") <=> Ahead(net.scr, "end_tool"))
        BY <1>2, <2>1, <2>5, <3>2, <3>3, <4>1, BegunKeepsOrder
      <4>3. ~Due' /\ (Detected' <=> Detected)
        BY <1>2, <4>1, <4>2 DEF Due, Detected
      <4>4. AnswerInv'
        BY <1>2, <1>3, <1>5, <2>5, <4>1, <4>3 DEF CleanInv, AnswerInv
      <4> QED
        BY <3>1, <4>2, <4>4 DEF CleanInv
    <3>4. CASE ContactOver
      <4>1. hw'.tc.state = 6
        BY <2>1, <3>2, <3>4 DEF ContactOver
      <4>2. OrderInv' /\ net.ans = <<>>
        BY <1>2, <2>1, <2>5, <3>2, <3>4, <4>1, OverKeepsOrder
      <4>3. AnswerInv'
        BY <1>3, <4>1, <4>2 DEF AnswerInv, Due
      <4> QED
        BY <3>1, <4>2, <4>3 DEF CleanInv
    <3>5. CASE ContactFollows
      <4>1. hw.tc.state # 3 /\ hw'.tc.state # 3
        BY <2>1, <2>5, <3>5 DEF ContactFollows, CleanInv, AnswerInv
      <4>2. OrderInv'
        BY <1>2, <2>5, <3>5, <4>1 DEF ContactFollows, CleanInv, OrderInv, Armed
      <4>3. AnswerInv'
        BY <1>3, <2>5, <4>1 DEF CleanInv, AnswerInv, Due
      <4> QED
        BY <3>1, <4>2, <4>3 DEF CleanInv
    <3> QED
      BY <1>5, <3>3, <3>4, <3>5
  <2> QED
    BY <1>1, <1>2, <2>4, <2>5 DEF ContactSession
<1> QED
  BY <1>3, <1>4, <1>5

LEMMA ClientKeepsContact ==
  ASSUME ContactInv, session = "contact", Clients
  PROVE  ContactSession' /\ DOMAIN tcc' = GoalKeys
<1>1. ContactSession /\ DOMAIN tcc = GoalKeys
  BY DEF ContactInv
<1>2. gpio' = gpio /\ cm' = cm /\ (AcceptContactHandle \/ ForgetContact \/ CancelContact \/ AcceptContact)
  BY DEF Clients, ToolContactServer
<1>3. net' = net /\ hw' = hw
  BY <1>2 DEF AcceptContactHandle, ForgetContact, CancelContact, AcceptContact
<1>4. DOMAIN tcc' = GoalKeys
  <2>1. CASE CancelContact
    BY <1>1, <2>1, AnsweredIs DEF CancelContact
  <2> QED
    BY <1>1, <1>2, <2>1 DEF AcceptContactHandle, ForgetContact, AcceptContact, GoalKeys
<1>5. CASE AcceptContactHandle \/ ForgetContact
  <2>1. robot' = robot /\ clean' = clean /\ tcc'.status = tcc.status /\ tcc'.abort = tcc.abort
    BY <1>1, <1>5 DEF AcceptContactHandle, ForgetContact, GoalKeys
  <2>2. /\ cm.on \cup cm.off \subseteq {"tool_contact"} /\ cm.on \cap cm.active = {}
        /\ \A k \in Kinds : gpio.cmd[k] = None
    BY <1>1 DEF ContactSession, ContactFrame
  <2> QED
    BY <1>1, <1>2, <1>3, <1>4, <2>1, <2>2, ContactUnseen DEF RobotSeen, NetSeen, DriverSeen
<1>6. CASE CancelContact
  <2>1. robot' = robot /\ ~clean'
    BY <1>6 DEF CancelContact, Upset
  <2> QED
    BY <1>1, <1>2, <1>3, <1>4, <2>1 DEF ContactSession, ContactFrame
<1>7. CASE AcceptContact
  <2>1. /\ robot' = [robot EXCEPT !.touched = FALSE] /\ clean' = (clean /\ hw.tc.state # 3)
        /\ tcc'.status = "accepted" /\ ~tcc'.abort
    BY <1>1, <1>7 DEF AcceptContact, GoalKeys
  <2>2. robot'.on = robot.on /\ robot'.mode = robot.mode /\ robot'.tool = robot.tool /\ DOMAIN robot' = RobotKeys
    BY <1>1, <2>1 DEF ContactSession, ContactFrame, RobotKeys
  <2>3. ContactFrame'
    BY <1>1, <1>2, <1>3, <2>2 DEF ContactSession, ContactFrame
  <2>4. ASSUME CleanInv, hw.tc.state # 3 PROVE CleanInv'
    <3>1. OrderInv'
      BY <1>3, <2>2, <2>4 DEF CleanInv, OrderInv, Armed, Ahead
    <3>2. AnswerInv'
      BY <1>3, <2>4 DEF CleanInv, AnswerInv, Due
    <3> QED
      BY <1>3, <2>1, <2>2, <2>4, <3>1, <3>2 DEF CleanInv, LinkInv
  <2> QED
    BY <1>1, <1>4, <2>1, <2>3, <2>4 DEF ContactSession
<1> QED
  BY <1>2, <1>5, <1>6, <1>7

LEMMA AsyncKeepsContact ==
  ASSUME ContactInv, FlagsInv, session = "contact", Async
  PROVE  ContactSession' /\ tcc' = tcc
<1>1. ContactSession
  BY DEF ContactInv
<1>2. tcc' = tcc /\ cm' = cm /\ robot' = robot /\ clean' = clean
  BY DEF Async, FreedriveAsync, AsyncEnable, AsyncEnabled, AsyncActivated, AsyncAbort, AsyncAborted,
         GpioAsync, AsyncSend, AsyncForget, others
<1>3. /\ cm.on \cup cm.off \subseteq {"tool_contact"} /\ cm.on \cap cm.active = {}
      /\ \A k \in Kinds : gpio.cmd[k] = None
      /\ DOMAIN net = NetKeys /\ DOMAIN gpio.cmd = Kinds
      /\ DOMAIN gpio = {"cmd", "flag", "pc", "kind", "request", "sent", "timedOut", "success"}
  BY <1>1 DEF ContactSession, ContactFrame
<1>4. CASE GpioAsync
  <2>1. PICK k \in Kinds : AsyncForget(k)
    BY <1>3, <1>4 DEF GpioAsync, AsyncSend
  <2>2. gpio' = [gpio EXCEPT !.cmd[k] = None] /\ net' = net /\ hw' = hw
    BY <2>1 DEF AsyncForget
  <2>3. gpio'.cmd = [gpio.cmd EXCEPT ![k] = None] /\ DOMAIN gpio' = DOMAIN gpio
    BY <1>3, <2>2
  <2>4. DOMAIN gpio'.cmd = DOMAIN gpio.cmd /\ \A m \in Kinds : gpio'.cmd[m] = None
    BY <1>3, <2>3
  <2> QED
    BY <1>1, <1>2, <1>3, <2>2, <2>3, <2>4, ContactUnseen DEF RobotSeen, NetSeen, DriverSeen
<1>5. CASE FreedriveAsync /\ gpio' = gpio
  <2>1. hw'.tc = hw.tc /\ hw'.fm = hw.fm /\ hw'.program = hw.program
    BY <1>5 DEF FreedriveAsync, AsyncEnable, AsyncEnabled, AsyncActivated, AsyncAbort, AsyncAborted,
                FlagsInv, HardwareKeys
  <2>2. \A c : LET k == SendReverse(net, c) IN
               k.scr = net.scr /\ k.ans = net.ans /\ k.peer = net.peer /\ DOMAIN k = DOMAIN net
    BY <1>3 DEF SendReverse, NetKeys
  <2>3. net' = net \/ \E c : net' = SendReverse(net, c)
    BY <1>5 DEF FreedriveAsync, AsyncEnable, AsyncEnabled, AsyncActivated, AsyncAbort, AsyncAborted
  <2>4. net'.scr = net.scr /\ net'.ans = net.ans /\ net'.peer = net.peer /\ DOMAIN net' = DOMAIN net
    BY <2>2, <2>3
  <2> QED
    BY <1>1, <1>2, <1>3, <1>5, <2>1, <2>4, ContactUnseen DEF RobotSeen, NetSeen, DriverSeen
<1> QED
  BY <1>2, <1>4, <1>5 DEF Async

LEMMA WorkerKeepsContact ==
  ASSUME ContactInv, FlagsInv, session = "contact", Workers
  PROVE  ContactSession' /\ tcc' = tcc
<1>1. ContactSession /\ DOMAIN net = NetKeys /\ DOMAIN hw.tc = {"set", "state", "result"}
  BY DEF ContactInv, ContactSession, ContactFrame
<1>2. tcc' = tcc /\ cm' = cm /\ robot' = robot /\ clean' = clean /\ gpio' = gpio
  BY DEF Workers, Callbacks, ProgramConnected, ProgramDisconnected, TrajectoryDoneAbort, TrajectoryDoneState,
         ToolContactDone, ResultsCoalesced, ContactsCoalesced, ctrls
<1>3. CASE TrajectoryDoneAbort \/ TrajectoryDoneState \/ ResultsCoalesced
  <2>1. hw'.tc = hw.tc /\ hw'.fm = hw.fm /\ hw'.program = hw.program
    BY <1>3 DEF TrajectoryDoneAbort, TrajectoryDoneState, ResultsCoalesced, FlagsInv, HardwareKeys
  <2>2. net'.scr = net.scr /\ net'.ans = net.ans /\ net'.peer = net.peer /\ DOMAIN net' = DOMAIN net
    BY <1>1, <1>3 DEF TrajectoryDoneAbort, TrajectoryDoneState, ResultsCoalesced, NetKeys
  <2>3. /\ cm.on \cup cm.off \subseteq {"tool_contact"} /\ cm.on \cap cm.active = {}
        /\ \A k \in Kinds : gpio.cmd[k] = None
    BY <1>1 DEF ContactSession, ContactFrame
  <2> QED
    BY <1>1, <1>2, <2>1, <2>2, <2>3, ContactUnseen DEF RobotSeen, NetSeen, DriverSeen
<1>4. CASE ProgramConnected
  <2>1. hw'.tc = hw.tc /\ hw'.fm = hw.fm
    BY <1>4 DEF ProgramConnected, FlagsInv, HardwareKeys
  <2>2. /\ net'.scr = net.scr /\ net'.ans = net.ans /\ DOMAIN net' = NetKeys /\ net.peer = "coming"
        /\ net'.peer = IF robot.on THEN "up" ELSE "going"
    BY <1>1, <1>4 DEF ProgramConnected, NetKeys
  <2>3. ContactFrame'
    BY <1>1, <1>2, <2>1, <2>2 DEF ContactSession, ContactFrame
  <2>4. ASSUME CleanInv PROVE CleanInv'
    <3>1. OrderInv'
      BY <1>2, <2>1, <2>2, <2>4 DEF CleanInv, OrderInv, Armed, Ahead
    <3>2. AnswerInv'
      BY <1>2, <2>1, <2>2, <2>4 DEF CleanInv, AnswerInv, Detected, Due, Ahead
    <3>3. LinkInv'
      BY <2>2, <2>4 DEF CleanInv, LinkInv
    <3> QED
      BY <1>2, <2>4, <3>1, <3>2, <3>3 DEF CleanInv
  <2> QED
    BY <1>1, <1>2, <2>3, <2>4 DEF ContactSession
<1>5. CASE ProgramDisconnected
  <2>1. hw'.tc = hw.tc /\ hw'.fm = hw.fm
    BY <1>5 DEF ProgramDisconnected, FlagsInv, HardwareKeys
  <2>2. net'.scr = net.scr /\ net'.ans = net.ans /\ DOMAIN net' = NetKeys /\ net.peer = "going"
    BY <1>1, <1>5 DEF ProgramDisconnected, NetKeys
  <2>3. ContactFrame'
    BY <1>1, <1>2, <2>1, <2>2 DEF ContactSession, ContactFrame
  <2> QED
    BY <1>1, <1>2, <2>2, <2>3 DEF ContactSession, CleanInv, LinkInv
<1>6. CASE ToolContactDone
  <2>1. /\ hw'.tc = [hw.tc EXCEPT !.result = IF Head(net.ans) = "success" THEN 0 ELSE 1]
        /\ hw'.fm = hw.fm /\ hw'.program = hw.program
    BY <1>6 DEF ToolContactDone, FlagsInv, HardwareKeys
  <2>2. /\ net.ans # <<>> /\ net'.ans = Tail(net.ans) /\ net'.scr = net.scr /\ net'.peer = net.peer
        /\ DOMAIN net' = NetKeys
    BY <1>1, <1>6 DEF ToolContactDone, NetKeys
  <2>3. hw'.tc.state = hw.tc.state /\ hw'.tc.set = hw.tc.set /\ DOMAIN hw'.tc = DOMAIN hw.tc
    BY <1>1, <2>1
  <2>4. ContactFrame'
    BY <1>1, <1>2, <2>1, <2>2, <2>3 DEF ContactSession, ContactFrame
  <2>5. ASSUME CleanInv PROVE CleanInv'
    <3>1. OrderInv'
      BY <1>2, <2>2, <2>3, <2>5 DEF CleanInv, OrderInv, Armed, Ahead
    <3>2. LinkInv'
      BY <1>2, <2>1, <2>2, <2>5 DEF CleanInv, LinkInv
    <3>3. net.ans = <<"success">> /\ hw.tc.state = 3 /\ Detected
      BY <2>2, <2>5 DEF CleanInv, AnswerInv
    <3>4. net'.ans = <<>> /\ hw'.tc.result = 0
      <4>1. Tail(net.ans) = <<>> /\ Head(net.ans) = "success"
        BY <3>3
      <4> QED
        BY <1>1, <2>1, <2>2, <4>1
    <3>5. Detected' /\ (tcc.status = "accepted" => robot'.touched)
      BY <1>2, <2>2, <2>5, <3>3 DEF CleanInv, AnswerInv, Detected, Ahead
    <3>6. AnswerInv'
      BY <1>2, <2>3, <2>5, <3>3, <3>4, <3>5 DEF CleanInv, AnswerInv, Due
    <3> QED
      BY <1>2, <2>5, <3>1, <3>2, <3>6 DEF CleanInv
  <2> QED
    BY <1>1, <1>2, <2>4, <2>5 DEF ContactSession
<1>7. CASE ContactsCoalesced
  <2>1. /\ hw' = hw /\ Len(net.ans) >= 2 /\ net'.scr = net.scr /\ DOMAIN net' = NetKeys
    BY <1>1, <1>7 DEF ContactsCoalesced, NetKeys
  <2>2. ContactFrame'
    BY <1>1, <1>2, <2>1 DEF ContactSession, ContactFrame
  <2>3. ~CleanInv
    <3>1. Len(<<>>) = 0
      OBVIOUS
    <3>2. Len(<<"success">>) = 1
      OBVIOUS
    <3>3. net.ans # <<>> /\ net.ans # <<"success">>
      <4>1. ~(0 >= 2) /\ ~(1 >= 2)
        OBVIOUS
      <4> QED
        BY <2>1, <3>1, <3>2, <4>1, Zenon
    <3> QED
      BY <3>3 DEF CleanInv, AnswerInv
  <2> QED
    BY <1>1, <1>2, <2>2, <2>3 DEF ContactSession
<1> QED
  BY <1>2, <1>3, <1>4, <1>5, <1>6, <1>7 DEF Workers, Callbacks

\* The program and the pendant.  Only a command of the script socket, the
\* detection and a change of mode touch what the invariant is about.
LEMMA HaltKeepsContact ==
  ASSUME ContactSession, session = "contact", robot' = Halted, net' = Closed(net), ~clean',
         hw' = hw, cm' = cm, gpio' = gpio
  PROVE  ContactSession'
<1>1. DOMAIN robot = RobotKeys /\ DOMAIN net = NetKeys
  BY DEF ContactSession, ContactFrame
<1>2. DOMAIN robot' = RobotKeys /\ robot'.tool = FALSE
  BY <1>1 DEF Halted, RobotKeys
<1>3. DOMAIN net' = NetKeys /\ net'.scr = <<>>
  BY <1>1 DEF Closed, NetKeys
<1>4. net'.scr \in Seq(ContactCommands)
  BY <1>3
<1>5. robot'.tool \in BOOLEAN
  BY <1>2
<1> QED
  BY <1>2, <1>3, <1>4, <1>5 DEF ContactSession, ContactFrame

LEMMA PendantKeepsContact ==
  ASSUME ContactInv, session = "contact", Pendant
  PROVE  ContactSession' /\ tcc' = tcc
<1>1. ContactSession /\ DOMAIN robot = RobotKeys /\ DOMAIN net = NetKeys
  BY DEF ContactInv, ContactSession, ContactFrame
<1>2. hw' = hw /\ cm' = cm /\ gpio' = gpio /\ tcc' = tcc
  BY DEF Pendant, ctrls
<1>3. CASE StopProgram \/ ReceiveTimeout
  <2>1. robot' = Halted /\ net' = Closed(net) /\ ~clean'
    BY <1>3 DEF StopProgram, ReceiveTimeout, Upset
  <2> QED
    BY <1>1, <1>2, <2>1, HaltKeepsContact
<1>4. CASE StartProgram
  <2>1. /\ robot'.mode = robot.mode /\ robot'.tool = robot.tool /\ robot'.touched = robot.touched
        /\ robot'.on /\ DOMAIN robot' = RobotKeys
    BY <1>1, <1>4 DEF StartProgram, RobotKeys
  <2>2. /\ net'.scr = net.scr /\ net'.ans = net.ans /\ net'.peer = "coming" /\ net.peer = "none"
        /\ DOMAIN net' = NetKeys /\ clean' = clean
    BY <1>1, <1>4 DEF StartProgram, NetKeys
  <2>3. ContactFrame'
    BY <1>1, <1>2, <2>1, <2>2 DEF ContactSession, ContactFrame
  <2>4. ASSUME CleanInv PROVE CleanInv'
    <3>1. OrderInv'
      BY <1>2, <2>1, <2>2, <2>4 DEF CleanInv, OrderInv, Armed, Ahead
    <3>2. AnswerInv'
      BY <1>2, <2>1, <2>2, <2>4 DEF CleanInv, AnswerInv, Detected, Due, Ahead
    <3>3. LinkInv'
      BY <1>2, <2>1, <2>2, <2>4 DEF CleanInv, LinkInv
    <3> QED
      BY <1>2, <2>4, <3>1, <3>2, <3>3 DEF CleanInv
  <2> QED
    BY <1>1, <1>2, <2>2, <2>3, <2>4 DEF ContactSession
<1> QED
  BY <1>2, <1>3, <1>4 DEF Pendant

LEMMA DetectKeepsContact ==
  ASSUME ContactInv, session = "contact", DetectContact, hw' = hw, cm' = cm, gpio' = gpio, tcc' = tcc
  PROVE  ContactSession'
<1>1. ContactSession /\ DOMAIN robot = RobotKeys /\ DOMAIN net = NetKeys
  BY DEF ContactInv, ContactSession, ContactFrame
<1>2. /\ robot.on /\ robot.tool /\ robot.mode # "contact"
      /\ robot'.on = robot.on /\ robot'.tool = robot.tool /\ robot'.mode = "contact" /\ robot'.touched
      /\ DOMAIN robot' = RobotKeys /\ clean' = clean
  BY <1>1 DEF DetectContact, RobotKeys
<1>3. /\ net'.scr = net.scr /\ net'.ans = Append(net.ans, "success") /\ net'.peer = net.peer
      /\ DOMAIN net' = NetKeys
  BY <1>1 DEF DetectContact, NetKeys
<1>4. ContactFrame'
  BY <1>1, <1>2, <1>3 DEF ContactSession, ContactFrame
<1>5. ASSUME CleanInv PROVE CleanInv'
  <2>1. ~Ahead(net.scr, "end_tool") /\ net.ans = <<>> /\ ~Due
    BY <1>2, <1>5 DEF CleanInv, OrderInv, AnswerInv, Detected
  <2>2. net'.ans = <<"success">>
    BY <1>3, <2>1
  <2>3. Armed
    <3>1. net.scr # <<>> => Len(net.scr) \in DOMAIN net.scr /\ net.scr[Len(net.scr)] \in ContactCommands
      BY <1>1 DEF ContactSession, ContactFrame
    <3> QED
      BY <1>2, <2>1, <3>1 DEF Armed, Ahead, ContactCommands
  <2>4. hw.tc.state = 3
    BY <1>5, <2>3 DEF CleanInv, OrderInv
  <2>5. Detected' /\ ~Due'
    BY <1>2, <1>3, <2>1 DEF Detected, Due, Ahead
  <2>6. OrderInv'
    BY <1>2, <1>3, <1>5, <2>1 DEF CleanInv, OrderInv, Armed, Ahead
  <2>7. AnswerInv'
    BY <1>2, <1>5, <2>2, <2>4, <2>5 DEF CleanInv, AnswerInv
  <2>8. LinkInv'
    BY <1>2, <1>3, <1>5 DEF CleanInv, LinkInv
  <2> QED
    BY <1>5, <2>6, <2>7, <2>8 DEF CleanInv
<1> QED
  BY <1>1, <1>2, <1>4, <1>5 DEF ContactSession

LEMMA TailIs ==
  ASSUME NEW q \in Seq(ContactCommands), q # <<>>
  PROVE  /\ Head(q) = q[1] /\ Head(q) \in ContactCommands /\ Tail(q) \in Seq(ContactCommands)
         /\ Len(q) \in Nat /\ Len(q) >= 1 /\ Len(Tail(q)) = Len(q) - 1
         /\ DOMAIN q = 1..Len(q) /\ DOMAIN Tail(q) = 1..(Len(q) - 1)
         /\ \A i \in 1..(Len(q) - 1) : Tail(q)[i] = q[i + 1]
         /\ (Tail(q) = <<>> <=> Len(q) = 1)
<1>1. /\ Head(q) = q[1] /\ Head(q) \in ContactCommands /\ Tail(q) \in Seq(ContactCommands)
      /\ Len(q) \in Nat /\ Len(q) >= 1 /\ Len(Tail(q)) = Len(q) - 1
      /\ DOMAIN q = 1..Len(q) /\ DOMAIN Tail(q) = 1..(Len(q) - 1)
      /\ \A i \in 1..(Len(q) - 1) : Tail(q)[i] = q[i + 1]
  OBVIOUS
<1>2. Tail(q) = <<>> <=> Len(q) = 1
  BY <1>1, EmptySeq
<1> QED
  BY <1>1, <1>2

\* A command that is read: an end closes what was detected, a start begins
\* anew; no end is left behind a start.
LEMMA ScriptKeepsOrder ==
  ASSUME OrderInv, net.scr \in Seq(ContactCommands), net.scr # <<>>, net'.scr = Tail(net.scr),
         robot.tool \in BOOLEAN, robot'.mode = robot.mode, robot'.tool <=> Head(net.scr) = "start_tool",
         hw' = hw
  PROVE  OrderInv'
<1> DEFINE q == net.scr
           r == Tail(q)
           n == Len(q)
<1>1. /\ Head(q) = q[1] /\ Head(q) \in ContactCommands /\ r \in Seq(ContactCommands)
      /\ n \in Nat /\ n >= 1 /\ Len(r) = n - 1
      /\ DOMAIN q = 1..n /\ DOMAIN r = 1..(n - 1)
      /\ \A i \in 1..(n - 1) : r[i] = q[i + 1]
      /\ (r = <<>> <=> n = 1)
  BY TailIs
<1> HIDE DEF r, n
<1>2. \A i, j, k \in 1..n : i < j /\ j < k /\ q[i] = "end_tool" /\ q[j] = "start_tool" => q[k] = "start_tool"
  BY <1>1 DEF OrderInv
<1>3. \A i, j, k \in 1..(n - 1) : i < j /\ j < k /\ r[i] = "end_tool" /\ r[j] = "start_tool"
                                    => r[k] = "start_tool"
  <2> SUFFICES ASSUME NEW i \in 1..(n - 1), NEW j \in 1..(n - 1), NEW k \in 1..(n - 1), i < j, j < k,
                      r[i] = "end_tool", r[j] = "start_tool"
               PROVE  r[k] = "start_tool"
    OBVIOUS
  <2>1. /\ i + 1 \in 1..n /\ j + 1 \in 1..n /\ k + 1 \in 1..n /\ i + 1 < j + 1 /\ j + 1 < k + 1
    BY <1>1
  <2>2. r[i] = q[i + 1] /\ r[j] = q[j + 1] /\ r[k] = q[k + 1]
    BY <1>1
  <2> QED
    BY <1>2, <2>1, <2>2
<1>4. Armed' <=> Armed
  <2>0. Armed <=> q[n] = "start_tool"
    BY DEF Armed, n
  <2>3. Armed' <=> IF r = <<>> THEN robot'.tool ELSE r[Len(r)] = "start_tool"
    BY DEF Armed, r
  <2>1. CASE n = 1
    BY <1>1, <2>0, <2>1, <2>3
  <2>2. CASE n > 1
    <3>1. r # <<>> /\ r[Len(r)] = q[n]
      BY <1>1, <2>2
    <3> QED
      BY <2>0, <2>3, <3>1
  <2> QED
    BY <1>1, <2>1, <2>2
<1>5. CASE q[1] = "start_tool"
  <2>1. robot'.tool
    BY <1>1, <1>5
  <2>a. \A i \in 1..(n - 1) : i + 1 \in 1..n /\ 1 < i + 1
    BY <1>1
  <2>2. Ahead(r, "end_tool") => Ahead(q, "end_tool")
    BY <1>1, <2>a DEF Ahead
  <2>3. ~robot.tool => ~Ahead(r, "end_tool")
    <3>1. ~robot.tool => \A j \in 1..n : 1 < j => q[j] = "start_tool"
      <4>1. 1 \in 1..n
        BY <1>1
      <4>2. ~robot.tool => \A i, j \in 1..n : i < j /\ q[i] = "start_tool" => q[j] = "start_tool"
        BY <1>1 DEF OrderInv
      <4> QED
        BY <1>5, <4>1, <4>2
    <3> QED
      BY <1>1, <2>a, <3>1 DEF Ahead
  <2>4. robot'.tool /\ Ahead(r, "end_tool") => robot'.mode = "contact"
    BY <2>2, <2>3 DEF OrderInv
  <2> QED
    <3>1. OrderInv' <=> /\ robot'.tool /\ Ahead(r, "end_tool") => robot'.mode = "contact"
                        /\ ~robot'.tool => \A i, j \in DOMAIN r :
                               i < j /\ r[i] = "start_tool" => r[j] = "start_tool"
                        /\ \A i, j, k \in DOMAIN r : i < j /\ j < k /\ r[i] = "end_tool" /\ r[j] = "start_tool"
                               => r[k] = "start_tool"
                        /\ (Armed' <=> hw'.tc.state = 3)
      BY DEF OrderInv, r
    <3> QED
      BY <1>1, <1>3, <1>4, <2>1, <2>4, <3>1 DEF OrderInv
<1>6. CASE q[1] = "end_tool"
  <2>1. ~robot'.tool
    BY <1>1, <1>6
  <2>2. \A i, j \in 1..(n - 1) : i < j /\ r[i] = "start_tool" => r[j] = "start_tool"
    <3> SUFFICES ASSUME NEW i \in 1..(n - 1), NEW j \in 1..(n - 1), i < j, r[i] = "start_tool"
                 PROVE  r[j] = "start_tool"
      OBVIOUS
    <3>1. /\ 1 \in 1..n /\ i + 1 \in 1..n /\ j + 1 \in 1..n /\ 1 < i + 1 /\ i + 1 < j + 1
      BY <1>1
    <3>2. r[i] = q[i + 1] /\ r[j] = q[j + 1]
      BY <1>1
    <3> QED
      BY <1>2, <1>6, <3>1, <3>2
  <2> QED
    <3>1. OrderInv' <=> /\ robot'.tool /\ Ahead(r, "end_tool") => robot'.mode = "contact"
                        /\ ~robot'.tool => \A i, j \in DOMAIN r :
                               i < j /\ r[i] = "start_tool" => r[j] = "start_tool"
                        /\ \A i, j, k \in DOMAIN r : i < j /\ j < k /\ r[i] = "end_tool" /\ r[j] = "start_tool"
                               => r[k] = "start_tool"
                        /\ (Armed' <=> hw'.tc.state = 3)
      BY DEF OrderInv, r
    <3> QED
      BY <1>1, <1>3, <1>4, <2>1, <2>2, <3>1 DEF OrderInv
<1> QED
  BY <1>1, <1>5, <1>6 DEF ContactCommands

LEMMA ScriptKeepsContact ==
  ASSUME ContactInv, session = "contact", RunScriptCommand, hw' = hw, cm' = cm, gpio' = gpio, tcc' = tcc
  PROVE  ContactSession'
<1>1. /\ ContactSession /\ DOMAIN robot = RobotKeys /\ DOMAIN net = NetKeys
      /\ net.scr \in Seq(ContactCommands) /\ net.scr # <<>> /\ robot.tool \in BOOLEAN
  BY DEF ContactInv, ContactSession, ContactFrame, RunScriptCommand
<1> DEFINE c == Head(net.scr)
           refused == c = "end_tool" /\ robot.mode # "contact"
<1>2. c \in ContactCommands /\ Tail(net.scr) \in Seq(ContactCommands)
  BY <1>1, TailIs
<1>3. /\ robot'.on = robot.on /\ robot'.mode = robot.mode /\ robot'.touched = robot.touched
      /\ DOMAIN robot' = RobotKeys /\ robot'.tool = ((robot.tool \/ c = "start_tool") /\ c # "end_tool")
  BY <1>1 DEF RunScriptCommand, RobotKeys
<1>4. robot'.tool = (c = "start_tool")
  <2>1. CASE c = "start_tool"
    BY <1>3, <2>1
  <2>2. CASE c = "end_tool"
    BY <1>3, <2>2
  <2> QED
    BY <1>2, <2>1, <2>2 DEF ContactCommands
<1>5. /\ net'.scr = Tail(net.scr) /\ net'.peer = net.peer /\ DOMAIN net' = NetKeys
      /\ clean' = (clean /\ ~refused) /\ (~refused => net'.ans = net.ans)
  BY <1>1 DEF RunScriptCommand, NetKeys
<1> HIDE DEF c
<1>6. robot'.tool \in BOOLEAN
  BY <1>4
<1>7. ContactFrame'
  BY <1>1, <1>2, <1>3, <1>5, <1>6 DEF ContactSession, ContactFrame
<1>8. ASSUME CleanInv, ~refused PROVE CleanInv'
  <2>1. OrderInv'
    <3>1. robot'.tool <=> Head(net.scr) = "start_tool"
      BY <1>4 DEF c
    <3> QED
      BY <1>1, <1>3, <1>5, <1>8, <3>1, ScriptKeepsOrder DEF CleanInv
  <2>2. Detected => Detected'
    <3>1. SUFFICES ASSUME Detected PROVE Detected'
      OBVIOUS
    <3>2. c # "end_tool" /\ ~Ahead(Tail(net.scr), "end_tool")
      BY <1>1, <3>1, TailIs DEF Detected, Ahead, c
    <3> QED
      BY <1>2, <1>3, <1>4, <1>5, <3>1, <3>2 DEF Detected, ContactCommands
  <2>3. AnswerInv'
    BY <1>3, <1>5, <1>8, <2>2 DEF CleanInv, AnswerInv, Due
  <2>4. LinkInv'
    BY <1>3, <1>5, <1>8 DEF CleanInv, LinkInv
  <2> QED
    BY <1>8, <2>1, <2>3, <2>4 DEF CleanInv
<1> QED
  BY <1>1, <1>5, <1>7, <1>8 DEF ContactSession

LEMMA ReadCommandKeepsContact ==
  ASSUME ContactInv, session = "contact", ReadCommand, hw' = hw, cm' = cm, gpio' = gpio, tcc' = tcc
  PROVE  ContactSession'
<1>1. ContactSession /\ DOMAIN robot = RobotKeys /\ DOMAIN net = NetKeys
  BY DEF ContactInv, ContactSession, ContactFrame
<1>2. /\ robot'.on = robot.on /\ robot'.tool = robot.tool /\ robot'.touched = robot.touched
      /\ DOMAIN robot' = RobotKeys
      /\ robot.tool /\ robot.mode = "contact" => robot'.mode = "contact"
  BY <1>1 DEF ReadCommand, RobotKeys
<1>3. /\ net'.scr = net.scr /\ net'.ans = net.ans /\ net'.peer = net.peer /\ DOMAIN net' = NetKeys
      /\ clean' => clean
  BY <1>1 DEF ReadCommand, NetKeys
<1>4. ContactFrame'
  BY <1>1, <1>2, <1>3 DEF ContactSession, ContactFrame
<1>5. ASSUME CleanInv PROVE CleanInv'
  <2>1. OrderInv'
    BY <1>2, <1>3, <1>5 DEF CleanInv, OrderInv, Armed, Ahead
  <2>2. Detected => Detected'
    BY <1>2, <1>3 DEF Detected, Ahead
  <2>3. AnswerInv'
    BY <1>2, <1>3, <1>5, <2>2 DEF CleanInv, AnswerInv, Due
  <2>4. LinkInv'
    BY <1>2, <1>3, <1>5 DEF CleanInv, LinkInv
  <2> QED
    BY <1>5, <2>1, <2>3, <2>4 DEF CleanInv
<1> QED
  BY <1>1, <1>3, <1>4, <1>5 DEF ContactSession

LEMMA RobotKeepsContact ==
  ASSUME ContactInv, session = "contact", Robot
  PROVE  ContactSession' /\ tcc' = tcc
<1>1. ContactSession /\ DOMAIN robot = RobotKeys /\ DOMAIN net = NetKeys
  BY DEF ContactInv, ContactSession, ContactFrame
<1>2. hw' = hw /\ cm' = cm /\ gpio' = gpio /\ tcc' = tcc
  BY DEF Robot, ctrls
<1>3. CASE ExecutePoint \/ PointTimeout \/ FinishTrajectory
  <2>1. /\ robot'.on = robot.on /\ robot'.tool = robot.tool /\ robot'.touched = robot.touched
        /\ robot'.mode = robot.mode /\ DOMAIN robot' = RobotKeys
    BY <1>1, <1>3 DEF ExecutePoint, PointTimeout, PointMissing, FinishTrajectory, RobotKeys
  <2>2. /\ net'.scr = net.scr /\ net'.ans = net.ans /\ net'.peer = net.peer /\ DOMAIN net' = NetKeys
        /\ clean' => clean
    BY <1>1, <1>3 DEF ExecutePoint, PointTimeout, PointMissing, FinishTrajectory, NetKeys
  <2>3. /\ cm.on \cup cm.off \subseteq {"tool_contact"} /\ cm.on \cap cm.active = {}
        /\ \A k \in Kinds : gpio.cmd[k] = None
    BY <1>1 DEF ContactSession, ContactFrame
  <2> QED
    BY <1>1, <1>2, <2>1, <2>2, <2>3, ContactUnseen DEF RobotSeen, NetSeen, DriverSeen
<1>4. CASE RunScriptCommand
  BY <1>2, <1>4, ScriptKeepsContact
<1>5. CASE DetectContact
  BY <1>2, <1>5, DetectKeepsContact
<1>6. CASE ReadCommand
  BY <1>2, <1>6, ReadCommandKeepsContact
<1> QED
  BY <1>2, <1>3, <1>4, <1>5, <1>6 DEF Robot, RobotStep

\* The other sessions never have a goal of this kind.
LEMMA OthersHaveNoGoal ==
  ASSUME DOMAIN tcc = GoalKeys, session # "contact", tcc.status # "accepted", [Next]_vars
  PROVE  session' = session /\ DOMAIN tcc' = GoalKeys /\ tcc'.status # "accepted"
<1>1. session' = session
  BY DEF Next, vars, setup, Executor, ByExecutor, Pendant, RequestSwitch, Switch, Read, Update, Write, Clients,
         FrictionModel, Async, Workers, Robot
<1>2. CASE Switch
  <2>1. tcc' \in {tcc, ToolContactDeactivate(tcc)}
    BY <1>2 DEF Switch
  <2>2. PICK c : c = Answered(tcc, "aborted")
    OBVIOUS
  <2>3. DOMAIN c = GoalKeys /\ c.status \in {tcc.status, "aborted"}
    BY <2>2, AnsweredIs
  <2>4. ToolContactDeactivate(tcc) = [c EXCEPT !.active = FALSE]
    BY <2>2 DEF ToolContactDeactivate
  <2>5. DOMAIN ToolContactDeactivate(tcc) = GoalKeys /\ ToolContactDeactivate(tcc).status = c.status
    BY <2>3, <2>4 DEF GoalKeys
  <2> QED
    BY <1>1, <2>1, <2>3, <2>5
<1>3. CASE Update
  <2>1. PICK h : tcc' = tcc \/ tcc' = ToolContactUpdate(h, tcc).c
    BY <1>3 DEF Update
  <2>2. PICK c, a, s : c = Requested(h, tcc).c /\ a = Answered(c, "aborted") /\ s = Answered(c, "succeeded")
    OBVIOUS
  <2>3. DOMAIN c = GoalKeys /\ c.status = tcc.status
    BY <2>2 DEF Requested, GoalKeys
  <2>4. /\ DOMAIN a = GoalKeys /\ a.status \in {tcc.status, "aborted"}
        /\ DOMAIN s = GoalKeys /\ s.status \in {tcc.status, "succeeded"}
    BY <2>2, <2>3, AnsweredIs
  <2>5. ToolContactUpdate(h, tcc).c \in {c, a, [c EXCEPT !.active = TRUE], [c EXCEPT !.active = FALSE],
                                         [a EXCEPT !.active = FALSE], [s EXCEPT !.active = FALSE]}
    BY <2>2 DEF ToolContactUpdate
  <2>6. \A k : DOMAIN k = GoalKeys => \A x : /\ DOMAIN [k EXCEPT !.active = x] = GoalKeys
                                             /\ [k EXCEPT !.active = x].status = k.status
    BY DEF GoalKeys
  <2>7. PICK k \in {c, a, s} : ToolContactUpdate(h, tcc).c = k
                                 \/ \E x : ToolContactUpdate(h, tcc).c = [k EXCEPT !.active = x]
    BY <2>5
  <2>8. /\ DOMAIN ToolContactUpdate(h, tcc).c = GoalKeys
        /\ ToolContactUpdate(h, tcc).c.status \in {tcc.status, "aborted", "succeeded"}
    <3>1. DOMAIN k = GoalKeys /\ k.status \in {tcc.status, "aborted", "succeeded"}
      BY <2>3, <2>4
    <3>2. CASE ToolContactUpdate(h, tcc).c = k
      BY <3>1, <3>2
    <3>3. CASE ToolContactUpdate(h, tcc).c # k
      <4>1. PICK x : ToolContactUpdate(h, tcc).c = [k EXCEPT !.active = x]
        BY <2>7, <3>3
      <4> QED
        BY <2>6, <3>1, <4>1
    <3> QED
      BY <3>2, <3>3
  <2> QED
    BY <1>1, <2>1, <2>8
<1>4. CASE ~Switch /\ ~Update
  <2>1. tcc' = tcc
    BY <1>4 DEF Next, vars, ctrls, Executor, ByExecutor, Pendant, RequestSwitch, Read, Write, Clients,
                FrictionModel, FrictionService, FrictionAsync, FrictionCycle, frictionless, Async, Workers, Robot
  <2> QED
    BY <1>1, <2>1
<1> QED
  BY <1>2, <1>3, <1>4

LEMMA ContactStep ==
  ASSUME FlagsInv, ContactInv, [Next]_vars
  PROVE  ContactInv'
<1>1. CASE session # "contact"
  BY <1>1, OthersHaveNoGoal DEF ContactInv
<1>2. CASE session = "contact"
  <2>1. ASSUME session' = session, ContactSession', DOMAIN tcc' = GoalKeys PROVE ContactInv'
    BY <1>2, <2>1 DEF ContactInv
  <2>2. session' = session
    BY DEF Next, vars, setup, Executor, ByExecutor, Pendant, RequestSwitch, Switch, Read, Update, Write, Clients,
           FrictionModel, Async, Workers, Robot
  <2>3. DOMAIN tcc = GoalKeys /\ ContactSession
    BY <1>2 DEF ContactInv
  <2>4. CASE UNCHANGED vars
    <3>1. robot' = robot /\ net' = net /\ hw' = hw /\ cm' = cm /\ tcc' = tcc /\ gpio' = gpio /\ clean' = clean
      BY <2>4 DEF vars, driver, ctrls
    <3>2. /\ cm.on \cup cm.off \subseteq {"tool_contact"} /\ cm.on \cap cm.active = {}
          /\ \A k \in Kinds : gpio.cmd[k] = None
      BY <2>3 DEF ContactSession, ContactFrame
    <3> QED
      BY <2>1, <2>2, <2>3, <3>1, <3>2, ContactUnseen DEF RobotSeen, NetSeen, DriverSeen
  <2>5. ASSUME NEW on \in {A \in SUBSET Controllers : Cardinality(A) <= 2}, NEW off \in SUBSET cm.active,
               RequestSwitch(on, off)
        PROVE  ContactInv'
    <3>1. tcc' = tcc
      BY <2>5 DEF RequestSwitch, ctrls
    <3> QED
      BY <1>2, <2>1, <2>2, <2>3, <2>5, <3>1, RequestKeepsContact
  <2>6. CASE Switch
    <3>1. DOMAIN tcc' = GoalKeys
      <4>1. tcc' \in {tcc, ToolContactDeactivate(tcc)}
        BY <2>6 DEF Switch
      <4>2. DOMAIN ToolContactDeactivate(tcc) = GoalKeys
        BY <2>3, AnsweredIs DEF ToolContactDeactivate
      <4> QED
        BY <2>3, <4>1, <4>2
    <3> QED
      BY <1>2, <2>1, <2>2, <2>6, <3>1, SwitchKeepsContact
  <2>7. ASSUME NEW fresh \in BOOLEAN, Read(fresh) PROVE ContactInv'
    <3>1. tcc' = tcc
      BY <2>7 DEF Read, ctrls
    <3> QED
      BY <1>2, <2>1, <2>2, <2>3, <2>7, <3>1, ReadKeepsContact
  <2>8. CASE Update
    BY <1>2, <2>1, <2>2, <2>8, UpdateKeepsContact
  <2>9. CASE Write
    <3>1. tcc' = tcc
      BY <2>9 DEF Write, ctrls
    <3> QED
      BY <1>2, <2>1, <2>2, <2>3, <2>9, <3>1, WriteKeepsContact
  <2>10. CASE Clients
    BY <1>2, <2>1, <2>2, <2>10, ClientKeepsContact
  <2>11. CASE Async
    BY <1>2, <2>1, <2>2, <2>3, <2>11, AsyncKeepsContact
  <2>12. CASE Workers
    BY <1>2, <2>1, <2>2, <2>3, <2>12, WorkerKeepsContact
  <2>13. CASE Robot
    BY <1>2, <2>1, <2>2, <2>3, <2>13, RobotKeepsContact
  <2>14. CASE Pendant
    BY <1>2, <2>1, <2>2, <2>3, <2>14, PendantKeepsContact
  <2>15. ~Executor /\ ~FrictionModel
    BY <1>2 DEF Executor, ByExecutor, FrictionModel
  <2> QED
    BY <2>4, <2>5, <2>6, <2>7, <2>8, <2>9, <2>10, <2>11, <2>12, <2>13, <2>14, <2>15 DEF Next
<1> QED
  BY <1>1, <1>2

\* A goal is reported successful by update() alone, and only when the
\* robot's result is contact.
ContactFelt == tcc.status = "accepted" /\ tcc'.status = "succeeded" /\ clean => robot.touched
LEMMA SuccessIsFelt ==
  ASSUME FlagsInv, ContactInv, [Next]_vars
  PROVE  ContactFelt
<1> SUFFICES ASSUME tcc.status = "accepted", tcc'.status = "succeeded", clean PROVE robot.touched
  BY DEF ContactFelt
<1>1. session = "contact" /\ ContactSession /\ CleanInv /\ DOMAIN tcc = GoalKeys
  BY DEF ContactInv, ContactSession
<1>2. CASE Update
  <2>1. PICK u : u = ToolContactUpdate(hw, tcc)
    OBVIOUS
  <2>2. tcc' = tcc \/ tcc' = u.c
    BY <1>1, <1>2, <2>1, UpdateOfContact
  <2>3. ContactAnswers(u)
    BY <1>1, <2>1, ContactUpdateIs DEF FlagsInv, ContactSession, ContactFrame
  <2>4. Due
    BY <2>2, <2>3 DEF ContactAnswers
  <2> QED
    BY <1>1, <2>4 DEF CleanInv, AnswerInv
<1>3. CASE Switch
  <2>1. tcc' = tcc \/ tcc' = ToolContactDeactivate(tcc)
    BY <1>3 DEF Switch
  <2>2. PICK c : c = Answered(tcc, "aborted")
    OBVIOUS
  <2>3. DOMAIN c = GoalKeys /\ c.status \in {tcc.status, "aborted"}
    BY <1>1, <2>2, AnsweredIs
  <2>4. ToolContactDeactivate(tcc).status = c.status
    BY <2>2, <2>3 DEF ToolContactDeactivate, GoalKeys
  <2> QED
    BY <2>1, <2>3, <2>4
<1>4. CASE Clients
  <2>1. AcceptContactHandle \/ ForgetContact \/ CancelContact \/ AcceptContact
    BY <1>1, <1>4 DEF Clients, ToolContactServer
  <2>2. CASE CancelContact
    <3>1. PICK c : c = Answered(tcc, "canceled")
      OBVIOUS
    <3>2. DOMAIN c = GoalKeys /\ c.status \in {tcc.status, "canceled"}
      BY <1>1, <3>1, AnsweredIs
    <3>3. tcc' = [c EXCEPT !.reset = TRUE, !.abort = TRUE, !.enable = FALSE]
      BY <2>2, <3>1 DEF CancelContact
    <3>4. tcc'.status = c.status
      BY <3>2, <3>3 DEF GoalKeys
    <3> QED
      BY <3>2, <3>4
  <2>3. CASE ~CancelContact
    BY <1>1, <2>1, <2>3 DEF AcceptContactHandle, ForgetContact, AcceptContact, GoalKeys
  <2> QED
    BY <2>2, <2>3
<1>5. CASE ~Update /\ ~Switch /\ ~Clients
  <2>1. tcc' = tcc
    BY <1>1, <1>5 DEF Next, vars, ctrls, Executor, ByExecutor, Pendant, RequestSwitch, Read, Write,
                FrictionModel, Async, Workers, Robot
  <2> QED
    BY <2>1
<1> QED
  BY <1>2, <1>3, <1>4, <1>5

\* While nothing was cancelled, tool contact is reported only when the robot
\* has felt one since the goal was accepted: no answer of an earlier
\* detection is left, under way or stored, when a goal's own begins.
THEOREM ContactIsFelt == Spec => ContactIsReal
<1>1. Init => FlagsInv /\ ContactInv
  BY FlagsStart, ContactStarts
<1>2. FlagsInv /\ ContactInv /\ [Next]_vars => FlagsInv' /\ ContactInv'
  BY FlagsStep, ContactStep
<1>3. FlagsInv /\ ContactInv /\ [Next]_vars => [ContactFelt]_vars
  BY SuccessIsFelt
<1>4. [][ContactFelt]_vars <=> ContactIsReal
  BY PTL DEF ContactIsReal, ContactFelt
<1> QED
  BY <1>1, <1>2, <1>3, <1>4, PTL DEF Spec

-----------------------------------------------------------------------------
(***************************************************************************)
(* The transfer of a trajectory.  First the types, which hold in every     *)
(* session: of the hardware interface as a whole it is enough to look at   *)
(* the part a step writes.                                                 *)
(***************************************************************************)
LEMMA HardwareIs ==
  ASSUME NEW h \in Hardware
  PROVE  /\ DOMAIN h = HardwareKeys
         /\ \A p \in PassthroughMembers : [h EXCEPT !.pt = p] \in Hardware
         /\ \A c \in ContactMembers : [h EXCEPT !.tc = c] \in Hardware
         /\ \A d \in FreedriveMembers : [h EXCEPT !.fd = d] \in Hardware
         /\ \A f \in ForceMembers : [h EXCEPT !.fm = f] \in Hardware
         /\ \A b \in BOOLEAN : /\ [h EXCEPT !.crashed = b] \in Hardware
                               /\ [h EXCEPT !.program = b] \in Hardware
                               /\ [h EXCEPT !.fresh = b] \in Hardware
                               /\ [h EXCEPT !.playing = b] \in Hardware
         /\ \A S \in SUBSET Modes : /\ [h EXCEPT !.modes = S] \in Hardware
                                    /\ [h EXCEPT !.start = S] \in Hardware
                                    /\ [h EXCEPT !.stop = S] \in Hardware
         /\ h.pt \in PassthroughMembers /\ h.tc \in ContactMembers
         /\ h.fd \in FreedriveMembers /\ h.fm \in ForceMembers
BY DEF Hardware, HardwareKeys

LEMMA ContactMembersAre ==
  ASSUME NEW c \in ContactMembers
  PROVE  /\ \A i \in 0..7 : [c EXCEPT !.set = i] \in ContactMembers /\ [c EXCEPT !.state = i] \in ContactMembers
         /\ \A i \in -1..3 : [c EXCEPT !.result = i] \in ContactMembers
         /\ c.set \in 0..7
BY DEF ContactMembers, NoCmd

LEMMA FreedriveMembersAre ==
  ASSUME NEW c \in FreedriveMembers
  PROVE  /\ \A i \in Cmd : /\ [c EXCEPT !.enable = i] \in FreedriveMembers
                           /\ [c EXCEPT !.abort = i] \in FreedriveMembers
                           /\ [c EXCEPT !.async = i] \in FreedriveMembers
         /\ \A b \in BOOLEAN : [c EXCEPT !.activated = b] \in FreedriveMembers
BY DEF FreedriveMembers

LEMMA ForceMembersAre ==
  ASSUME NEW c \in ForceMembers
  PROVE  /\ \A i \in Cmd : /\ [c EXCEPT !.disable = i] \in ForceMembers
                           /\ [c EXCEPT !.async = i] \in ForceMembers
         /\ \A b \in BOOLEAN : [c EXCEPT !.params = b] \in ForceMembers
BY DEF ForceMembers

LEMMA CmdIs == /\ NoCmd \in Cmd /\ 0 \in Cmd /\ 1 \in Cmd /\ Waiting \in Cmd
               /\ \A b : Flag(b) \in Cmd
BY DEF Cmd, Flag, NoCmd, Waiting

\* What the robot program's sockets carry: commands down the reverse socket,
\* points down the trajectory socket, results up.
GoalPoint == Goals \X Nat
Target == IF session = "motion" THEN MotionTypes ELSE GoalPoint
Args == {"", "start", "stop", "cancel", "noop"}
Commands == [mode : ControlModes, arg : Args, n : Nat]
Peers == {"none", "coming", "up", "going"}
Results == {"success", "failure", "canceled"}
Lines(n, points) == /\ DOMAIN n = NetKeys
                    /\ n.peer \in Peers /\ n.rev \in Seq(Commands)
                    /\ n.trj \in Seq(points) /\ n.res \in Seq(Results)
SameLines(n, m) == /\ DOMAIN n = NetKeys /\ DOMAIN m = NetKeys
                   /\ m.peer = n.peer /\ m.rev = n.rev /\ m.trj = n.trj /\ m.res = n.res

LEMMA ArgsAre == "" \in Args /\ "start" \in Args /\ "stop" \in Args /\ "cancel" \in Args /\ "noop" \in Args
BY Zenon DEF Args

LEMMA LinesStay ==
  ASSUME NEW n, NEW m, NEW points, Lines(n, points), SameLines(n, m)
  PROVE  Lines(m, points)
BY DEF Lines, SameLines

LEMMA CommandIs ==
  ASSUME NEW mode \in ControlModes, NEW arg \in Args, NEW k \in Nat
  PROVE  Command(mode, arg, k) \in Commands
BY DEF Commands, Command

LEMMA ReverseIs ==
  ASSUME NEW n, NEW points, Lines(n, points), NEW c \in Commands
  PROVE  LET m == SendReverse(n, c)
         IN  /\ Lines(m, points)
             /\ m.peer = n.peer /\ m.trj = n.trj /\ m.res = n.res /\ m.scr = n.scr /\ m.ans = n.ans
             /\ m.rev = IF n.peer = "up" THEN Append(n.rev, c) ELSE n.rev
<1> DEFINE m == SendReverse(n, c)
<1>2. CASE n.peer = "up"
  <2>1. PICK q : q = Append(n.rev, c)
    OBVIOUS
  <2>2. q \in Seq(Commands)
    BY <2>1 DEF Lines
  <2>3. m = [n EXCEPT !.rev = q]
    BY <1>2, <2>1 DEF SendReverse
  <2> HIDE DEF m
  <2> QED
    BY <1>2, <2>1, <2>2, <2>3 DEF Lines, NetKeys, m
<1>3. CASE n.peer # "up"
  BY <1>3 DEF SendReverse
<1> QED
  BY <1>2, <1>3

LEMMA PointsAre ==
  ASSUME NEW n, NEW points, Lines(n, points), NEW q \in Seq(points)
  PROVE  LET m == SendPoints(n, q)
         IN  /\ Lines(m, points)
             /\ m.peer = n.peer /\ m.rev = n.rev /\ m.res = n.res /\ m.scr = n.scr /\ m.ans = n.ans
             /\ m.trj = IF n.peer = "up" THEN n.trj \o q ELSE n.trj
<1> DEFINE m == SendPoints(n, q)
<1>2. CASE n.peer = "up"
  <2>1. PICK r : r = n.trj \o q
    OBVIOUS
  <2>2. r \in Seq(points)
    BY <2>1 DEF Lines
  <2>3. m = [n EXCEPT !.trj = r]
    BY <1>2, <2>1 DEF SendPoints
  <2> HIDE DEF m
  <2> QED
    BY <1>2, <2>1, <2>2, <2>3 DEF Lines, NetKeys, m
<1>3. CASE n.peer # "up"
  BY <1>3 DEF SendPoints
<1> QED
  BY <1>2, <1>3

LEMMA ScriptsAre ==
  ASSUME NEW n, DOMAIN n = NetKeys, NEW c
  PROVE  SameLines(n, SendScript(n, c))
BY DEF SendScript, SameLines, NetKeys

(***************************************************************************)
(* What one cycle makes of the transfer.                                   *)
(***************************************************************************)
\* What has been taken over are points, and all of it has been sent, if the
\* trajectory was started, or else nothing.
Sound(p) ==
    /\ p.vec # <<>> => /\ p.received <= Len(p.vec)
                       /\ \A i \in 1..p.received : p.vec[i] \in GoalPoint
    /\ p.started => p.sent = p.received
    /\ ~p.started => p.sent = 0

Emptied(p) == [p EXCEPT !.vec = [i \in 1..p.size |-> NoPoint], !.received = 0, !.sent = 0,
                        !.started = FALSE, !.state = 1]
Taken(p, begun) == [p EXCEPT !.abort = 0, !.state = 1, !.received = p.received + 1,
                             !.vec = [p.vec EXCEPT ![p.received + 1] = p.point],
                             !.started = begun, !.sent = IF begun THEN p.received + 1 ELSE p.sent]
Complete(p) == [p EXCEPT !.abort = 0, !.state = 4]

Start(p) == Command("forward", "start", Len(p.vec))
Cancel == Command("forward", "cancel", 0)
\* The messages of a cycle that takes a point over.
Handed(n, p, begun) ==
    IF begun THEN SendPoints(IF p.started THEN n ELSE SendReverse(n, Start(p)),
                             SubSeq(Taken(p, begun).vec, p.sent + 1, p.received + 1))
    ELSE n

Transferred(s, t, seen) ==
    LET p == s.h.pt
        Becomes(q) == t.h = [s.h EXCEPT !.pt = q]
    IN  \/ t.h = s.h /\ t.n = s.n
        \/ p.abort = 1 /\ seen # 0 /\ t.h = s.h /\ t.n = SendReverse(s.n, Cancel)
        \/ seen = 6 /\ p.size # Len(p.vec) /\ Becomes(Emptied(p)) /\ t.n = s.n
        \/ seen = 2 /\ p.received >= Len(p.vec) /\ t.h = [s.h EXCEPT !.crashed = TRUE] /\ t.n = s.n
        \/ /\ seen = 2 /\ p.received < Len(p.vec)
           /\ \E begun \in BOOLEAN : /\ p.started => begun
                                     /\ Becomes(Taken(p, begun)) /\ t.n = Handed(s.n, p, begun)
        \/ seen = 3 /\ Becomes(Complete(p)) /\ t.n = s.n
        \/ seen = 4 /\ p.sent = Len(p.vec) /\ Becomes([p EXCEPT !.vec = <<>>]) /\ t.n = s.n

LEMMA PassthroughFields ==
  ASSUME NEW p \in PassthroughMembers
  PROVE  /\ DOMAIN p = {"state", "abort", "size", "point", "vec", "received", "sent", "started", "late"}
         /\ p.received \in Nat /\ p.sent \in Nat /\ p.started \in BOOLEAN /\ p.size \in Nat
         /\ p.vec \in Seq(Seq(Nat)) /\ p.point \in Seq(Nat) /\ p.state \in 0..6 /\ p.abort \in {0, 1}
BY DEF PassthroughMembers

LEMMA NothingLeft ==
  ASSUME NEW s, s.h.pt \in PassthroughMembers, Sound(s.h.pt)
  PROVE  SendTaken(s) = s
<1>1. s.h.pt.started => s.h.pt.sent = s.h.pt.received /\ s.h.pt.received \in Nat
  BY PassthroughFields DEF Sound
<1>2. ~(s.h.pt.started /\ s.h.pt.sent <= Len(s.h.pt.vec) /\ s.h.pt.sent < s.h.pt.received)
  BY <1>1
<1> QED
  BY <1>2 DEF SendTaken

LEMMA TakenIs ==
  ASSUME NEW p \in PassthroughMembers, NEW begun \in BOOLEAN,
         p.received < Len(p.vec)
  PROVE  LET q == Taken(p, begun) IN
         /\ q \in PassthroughMembers
         /\ q.abort = 0 /\ q.state = 1 /\ q.received = p.received + 1 /\ q.started = begun
         /\ q.vec = [p.vec EXCEPT ![p.received + 1] = p.point] /\ Len(q.vec) = Len(p.vec)
         /\ q.sent = IF begun THEN p.received + 1 ELSE p.sent
         /\ q.size = p.size /\ q.point = p.point /\ q.late = p.late
<1> DEFINE v == [p.vec EXCEPT ![p.received + 1] = p.point]
           x == IF begun THEN p.received + 1 ELSE p.sent
           r == p.received + 1
<1>1. v \in Seq(Seq(Nat)) /\ Len(v) = Len(p.vec)
  BY PassthroughFields
<1>2. x \in Nat /\ r \in Nat
  BY PassthroughFields
<1>3. Taken(p, begun) = [p EXCEPT !.abort = 0, !.state = 1, !.received = r, !.vec = v, !.started = begun, !.sent = x]
  BY DEF Taken
<1> HIDE DEF v, x, r
<1>4. PICK q : q = Taken(p, begun)
  OBVIOUS
<1>5. /\ q.abort = 0 /\ q.state = 1 /\ q.received = r /\ q.started = begun
      /\ q.vec = v /\ q.sent = x
      /\ q.size = p.size /\ q.point = p.point /\ q.late = p.late
  BY <1>3, <1>4, PassthroughFields
<1>6. PICK a : a = [p EXCEPT !.abort = 0, !.state = 1]
  OBVIOUS
<1>7. a \in PassthroughMembers
  <2>1. 0 \in {0, 1} /\ 1 \in 0..6
    OBVIOUS
  <2> QED
    BY <1>6, <2>1, ZenonT(30) DEF PassthroughMembers
<1>8. PICK b : b = [a EXCEPT !.received = r, !.vec = v]
  OBVIOUS
<1>9. b \in PassthroughMembers
  BY <1>1, <1>2, <1>7, <1>8, ZenonT(30) DEF PassthroughMembers
<1>10. q = [b EXCEPT !.started = begun, !.sent = x]
  BY <1>3, <1>4, <1>6, <1>8, PassthroughFields
<1>11. q \in PassthroughMembers
  BY <1>2, <1>9, <1>10, ZenonT(30) DEF PassthroughMembers
<1> QED
  BY <1>1, <1>4, <1>5, <1>11 DEF v, x, r

LEMMA PointTaken ==
  ASSUME NEW s, DOMAIN s = {"h", "n"}, s.h \in Hardware, Sound(s.h.pt), s.h.pt.received < Len(s.h.pt.vec)
  PROVE  \E begun \in BOOLEAN :
           /\ s.h.pt.started => begun
           /\ SendTaken(TakePoint(s)).h = [s.h EXCEPT !.pt = Taken(s.h.pt, begun)]
           /\ SendTaken(TakePoint(s)).n = Handed(s.n, s.h.pt, begun)
<1> DEFINE p == s.h.pt
<1>1. PICK got : got = [p EXCEPT !.abort = 0, !.state = 1, !.received = p.received + 1,
                            !.vec = [p.vec EXCEPT ![p.received + 1] = p.point]]
  OBVIOUS
<1>2. PICK begun \in BOOLEAN : begun <=> p.started \/ Enough(got)
  OBVIOUS
<1>3. p \in PassthroughMembers /\ p.received \in Nat /\ p.sent \in Nat /\ p.started \in BOOLEAN
  BY HardwareIs, PassthroughFields
<1>4. /\ got.received = p.received + 1 /\ got.started = p.started /\ got.sent = p.sent
      /\ got.vec = [p.vec EXCEPT ![p.received + 1] = p.point] /\ Len(got.vec) = Len(p.vec)
  BY <1>1, <1>3, PassthroughFields
<1>5. ~(p.received >= Len(p.vec))
  BY <1>3, PassthroughFields
<1>6. PICK q : q = Taken(p, begun)
  OBVIOUS
<1>7. CASE begun
  <2>1. PICK n : n = IF p.started THEN s.n ELSE SendReverse(s.n, Start(p))
    OBVIOUS
  <2>2. PICK k : k = [got EXCEPT !.started = TRUE]
    OBVIOUS
  <2>3. PICK t : t = TakePoint(s)
    OBVIOUS
  <2>4. t.h = [s.h EXCEPT !.pt = k] /\ t.n = n /\ DOMAIN t = {"h", "n"}
    <3>1. CASE p.started
      <4>1. k = got
        <5>1. got.started = TRUE /\ DOMAIN got = DOMAIN p /\ "started" \in DOMAIN p
          BY <1>1, <1>3, <3>1, PassthroughFields
        <5>2. got = [f \in DOMAIN p |-> got[f]]
          BY <1>1, PassthroughFields, <1>3
        <5> QED
          BY <2>2, <5>1, <5>2
      <4>2. t = [s EXCEPT !.h.pt = got]
        BY <1>1, <1>4, <1>5, <2>3, <3>1 DEF TakePoint
      <4> QED
        BY <2>1, <3>1, <4>1, <4>2
    <3>2. CASE ~p.started
      <4>1. Enough(got) /\ ~p.started
        BY <1>2, <1>7, <3>2
      <4>2. t = Tell([s EXCEPT !.h.pt = k], "forward", "start", Announced(got))
        BY <1>1, <1>5, <2>2, <2>3, <4>1 DEF TakePoint
      <4>3. PICK u : u = [s EXCEPT !.h.pt = k]
        OBVIOUS
      <4>4. u.n = s.n /\ u.h = [s.h EXCEPT !.pt = k] /\ DOMAIN u = {"h", "n"}
        BY <4>3
      <4>5. PICK m : m = SendReverse(s.n, Start(p))
        OBVIOUS
      <4>6. t = [u EXCEPT !.n = m]
        BY <1>4, <4>2, <4>3, <4>4, <4>5 DEF Tell, Announced, Start
      <4> QED
        BY <2>1, <3>2, <4>4, <4>5, <4>6
    <3> QED
      BY <3>1, <3>2
  <2>5. /\ t.h.pt = k /\ k.started /\ k.received = p.received + 1 /\ k.sent = p.sent
        /\ k.vec = got.vec
    BY <1>1, <1>3, <1>4, <2>2, <2>4, HardwareIs, PassthroughFields DEF HardwareKeys
  <2>6. p.sent <= Len(k.vec) /\ p.sent < p.received + 1 /\ k.vec # <<>>
    <3>1. Len(k.vec) = Len(p.vec) /\ p.received < Len(p.vec) /\ Len(p.vec) \in Nat
      BY <1>3, <1>4, <2>5, PassthroughFields
    <3>2. p.sent = p.received \/ p.sent = 0
      BY <1>3 DEF Sound
    <3>3. k.vec # <<>>
      BY <1>3, <3>1
    <3> QED
      BY <1>3, <3>1, <3>2, <3>3
  <2>7. PICK w : w = SendPoints(n, SubSeq(k.vec, p.sent + 1, p.received + 1))
    OBVIOUS
  <2>8. SendTaken(t) = [t EXCEPT !.n = w, !.h.pt.sent = p.received + 1]
    BY <2>4, <2>5, <2>6, <2>7 DEF SendTaken
  <2>9. SendTaken(t).n = w /\ SendTaken(t).h = [t.h EXCEPT !.pt.sent = p.received + 1]
    BY <2>4, <2>8
  <2>10. q = [k EXCEPT !.sent = p.received + 1]
    BY <1>1, <1>3, <1>6, <1>7, <2>2, PassthroughFields DEF Taken
  <2>11. SendTaken(t).h = [s.h EXCEPT !.pt = q]
    BY <2>4, <2>5, <2>9, <2>10, HardwareIs DEF HardwareKeys
  <2>12. w = Handed(s.n, p, begun)
    <3>1. Taken(p, begun).vec = k.vec
      BY <1>3, <1>4, <2>5, TakenIs
    <3> QED
      BY <1>7, <2>1, <2>7, <3>1 DEF Handed
  <2> QED
    BY <1>2, <1>6, <2>3, <2>9, <2>11, <2>12
<1>8. CASE ~begun
  <2>1. ~p.started /\ ~Enough(got)
    BY <1>2, <1>8
  <2>2. TakePoint(s) = [s EXCEPT !.h.pt = got]
    BY <1>1, <1>5, <2>1 DEF TakePoint
  <2>3. PICK t : t = [s EXCEPT !.h.pt = got]
    OBVIOUS
  <2>4. t.h = [s.h EXCEPT !.pt = got] /\ t.n = s.n
    BY <2>3
  <2>5. t.h.pt = got /\ ~got.started
    BY <1>4, <2>1, <2>4, HardwareIs DEF HardwareKeys
  <2>6. SendTaken(t) = t
    BY <2>5 DEF SendTaken
  <2>7. q = got
    BY <1>1, <1>3, <1>6, <1>8, <2>1, PassthroughFields DEF Taken
  <2> QED
    BY <1>6, <1>8, <2>1, <2>2, <2>3, <2>4, <2>6, <2>7 DEF Handed
<1> QED
  BY <1>7, <1>8

LEMMA OutcomesAre ==
  ASSUME NEW p \in PassthroughMembers, Sound(p)
  PROVE  /\ Emptied(p) \in PassthroughMembers /\ Sound(Emptied(p)) /\ ~Emptied(p).started
         /\ Emptied(p).point = p.point /\ Emptied(p).state = 1 /\ Emptied(p).received = 0
         /\ Len(Emptied(p).vec) = p.size
         /\ Complete(p) \in PassthroughMembers /\ Sound(Complete(p))
         /\ Complete(p).point = p.point /\ Complete(p).state = 4
         /\ [p EXCEPT !.vec = <<>>] \in PassthroughMembers /\ Sound([p EXCEPT !.vec = <<>>])
         /\ \A a \in {0, 1} : [p EXCEPT !.abort = a] \in PassthroughMembers /\ Sound([p EXCEPT !.abort = a])
         /\ \A i \in 0..6 : [p EXCEPT !.state = i] \in PassthroughMembers /\ Sound([p EXCEPT !.state = i])
<1> DEFINE v == [i \in 1..p.size |-> NoPoint]
<1>0. PICK e : e = <<>>
  OBVIOUS
<1>1. NoPoint \in Seq(Nat) /\ e \in Seq(Seq(Nat)) /\ e = <<>>
  BY <1>0 DEF NoPoint
<1>2. v \in Seq(Seq(Nat)) /\ Len(v) = p.size
  <2>1. PICK S : S = Seq(Nat)
    OBVIOUS
  <2>2. PICK k \in Nat : k = p.size
    BY PassthroughFields
  <2>3. v = [i \in 1..k |-> e] /\ e \in S
    BY <1>1, <2>1, <2>2 DEF NoPoint
  <2>4. [i \in 1..k |-> e] \in Seq(S) /\ Len([i \in 1..k |-> e]) = k
    BY <2>3
  <2> QED
    BY <2>1, <2>2, <2>3, <2>4
<1>n. 0 \in {0, 1} /\ 1 \in 0..6 /\ 4 \in 0..6 /\ 0 \in Nat /\ FALSE \in BOOLEAN
  OBVIOUS
<1>3. PICK a : a = [p EXCEPT !.vec = v, !.received = 0]
  OBVIOUS
<1>4. Emptied(p) = [a EXCEPT !.sent = 0, !.started = FALSE, !.state = 1]
  BY <1>3, PassthroughFields DEF Emptied
<1> HIDE DEF v
<1>5. a \in PassthroughMembers
  BY <1>2, <1>3, <1>n, ZenonT(30) DEF PassthroughMembers
<1>6. PICK b : b = [a EXCEPT !.sent = 0, !.started = FALSE]
  OBVIOUS
<1>7. b \in PassthroughMembers
  BY <1>5, <1>6, <1>n, ZenonT(30) DEF PassthroughMembers
<1>8. Emptied(p) = [b EXCEPT !.state = 1]
  BY <1>4, <1>6
<1>9. Emptied(p) \in PassthroughMembers
  BY <1>7, <1>8, <1>n, ZenonT(30) DEF PassthroughMembers
<1>10. PICK q : q = Emptied(p)
  OBVIOUS
<1>11. /\ q.vec = v /\ q.received = 0 /\ q.sent = 0 /\ q.started = FALSE
       /\ q.point = p.point /\ q.state = 1
  BY <1>3, <1>4, <1>10, PassthroughFields
<1>12. Sound(q) /\ Len(q.vec) = p.size /\ ~q.started
  BY <1>2, <1>11, PassthroughFields DEF Sound
<1>13. PICK c : c = [p EXCEPT !.abort = 0]
  OBVIOUS
<1>14. c \in PassthroughMembers
  BY <1>13, <1>n, ZenonT(30) DEF PassthroughMembers
<1>15. Complete(p) = [c EXCEPT !.state = 4]
  BY <1>13 DEF Complete
<1>16. Complete(p) \in PassthroughMembers
  BY <1>14, <1>15, <1>n, ZenonT(30) DEF PassthroughMembers
<1>17. Sound(Complete(p)) /\ Complete(p).point = p.point /\ Complete(p).state = 4
  BY <1>13, <1>15, PassthroughFields DEF Sound
<1>18. [p EXCEPT !.vec = <<>>] \in PassthroughMembers /\ Sound([p EXCEPT !.vec = <<>>])
  <2>1. [p EXCEPT !.vec = e] \in PassthroughMembers
    BY <1>1, ZenonT(30) DEF PassthroughMembers
  <2>2. Sound([p EXCEPT !.vec = e])
    BY <1>1, PassthroughFields DEF Sound
  <2> QED
    BY <1>1, <2>1, <2>2
<1>19. ASSUME NEW x \in {0, 1} PROVE [p EXCEPT !.abort = x] \in PassthroughMembers /\ Sound([p EXCEPT !.abort = x])
  <2>1. [p EXCEPT !.abort = x] \in PassthroughMembers
    BY ZenonT(30) DEF PassthroughMembers
  <2>2. Sound([p EXCEPT !.abort = x])
    BY PassthroughFields DEF Sound
  <2> QED
    BY <2>1, <2>2
<1>20. ASSUME NEW x \in 0..6 PROVE [p EXCEPT !.state = x] \in PassthroughMembers /\ Sound([p EXCEPT !.state = x])
  <2>1. [p EXCEPT !.state = x] \in PassthroughMembers
    BY ZenonT(30) DEF PassthroughMembers
  <2>2. Sound([p EXCEPT !.state = x])
    BY PassthroughFields DEF Sound
  <2> QED
    BY <2>1, <2>2
<1> QED
  BY <1>9, <1>10, <1>11, <1>12, <1>16, <1>17, <1>18, <1>19, <1>20

LEMMA SoundTaken ==
  ASSUME NEW p \in PassthroughMembers, Sound(p), NEW begun \in BOOLEAN, p.started => begun,
         p.received < Len(p.vec), p.point \in GoalPoint
  PROVE  /\ Sound(Taken(p, begun))
         /\ SubSeq(Taken(p, begun).vec, p.sent + 1, p.received + 1) \in Seq(GoalPoint)
<1>1. PICK q : q = Taken(p, begun)
  OBVIOUS
<1>2. /\ q \in PassthroughMembers
      /\ q.received = p.received + 1 /\ q.started = begun
      /\ q.vec = [p.vec EXCEPT ![p.received + 1] = p.point] /\ Len(q.vec) = Len(p.vec)
      /\ q.sent = IF begun THEN p.received + 1 ELSE p.sent
  BY <1>1, TakenIs
<1>3. PICK r \in Nat : r = p.received
  BY PassthroughFields
<1>4. PICK n \in Nat : n = Len(p.vec)
  BY PassthroughFields
<1>5. r < n /\ p.vec # <<>>
  BY <1>3, <1>4
<1>6. \A i \in 1..r + 1 : q.vec[i] \in GoalPoint
  <2> SUFFICES ASSUME NEW i \in 1..r + 1 PROVE q.vec[i] \in GoalPoint
    OBVIOUS
  <2>1. i \in DOMAIN p.vec
    BY <1>4, <1>5, PassthroughFields
  <2>2. CASE i = r + 1
    BY <1>2, <1>3, <2>1, <2>2
  <2>3. CASE i # r + 1
    BY <1>2, <1>3, <1>5, <2>1, <2>3 DEF Sound
  <2> QED
    BY <2>2, <2>3
<1>7. Sound(q)
  <2>1. q.received <= Len(q.vec) /\ \A i \in 1..q.received : q.vec[i] \in GoalPoint
    BY <1>2, <1>3, <1>4, <1>5, <1>6
  <2>2. begun => q.sent = q.received
    BY <1>2
  <2>3. ~begun => q.sent = 0
    BY <1>2 DEF Sound
  <2> QED
    BY <1>2, <2>1, <2>2, <2>3 DEF Sound
<1>8. SubSeq(q.vec, p.sent + 1, r + 1) \in Seq(GoalPoint)
  <2>1. PICK v : v = q.vec
    OBVIOUS
  <2>2. p.sent \in Nat /\ (p.sent = r \/ p.sent = 0)
    BY <1>3, PassthroughFields DEF Sound
  <2>3. v \in Seq(Seq(Nat)) /\ Len(v) = n
    BY <1>2, <1>4, <2>1, PassthroughFields
  <2>4. PICK m \in Nat : m = p.sent
    BY <2>2
  <2>5. \A i \in m + 1..r + 1 : v[i] \in GoalPoint
    BY <1>6, <2>1, <2>4
  <2>6. m + 1 \in Int /\ r + 1 \in Int
    OBVIOUS
  <2>7. SubSeq(v, m + 1, r + 1) \in Seq(GoalPoint)
    BY <2>5, <2>6, SubSeqProperties
  <2> QED
    BY <2>1, <2>4, <2>7
<1> QED
  BY <1>1, <1>3, <1>7, <1>8

\* Both sides of the driver, as the steps of write() take and return them.
WholeSides(s) == DOMAIN s = {"h", "n"} /\ s.h \in Hardware

LEMMA CheckIs ==
  ASSUME NEW s, WholeSides(s), Sound(s.h.pt), NEW seen \in 0..6
  PROVE  Transferred(s, CheckPassthrough(s, seen), seen)
<1> USE DEF WholeSides
<1> DEFINE p == s.h.pt
<1>1. /\ p \in PassthroughMembers /\ DOMAIN s.h = HardwareKeys
      /\ \A q \in PassthroughMembers : [s.h EXCEPT !.pt = q].pt = q
  BY HardwareIs DEF HardwareKeys
<1>2. p.abort \in {0, 1}
  BY <1>1, PassthroughFields
<1>3. ASSUME NEW q \in PassthroughMembers, Sound(q), NEW u, u = [s EXCEPT !.h.pt = q]
      PROVE  /\ SendTaken(u) = u
             /\ u.h = [s.h EXCEPT !.pt = q] /\ u.n = s.n
  <2>1. u.h = [s.h EXCEPT !.pt = q] /\ u.n = s.n
    BY <1>3
  <2>2. u.h.pt = q
    BY <1>1, <2>1
  <2> QED
    BY <1>3, <2>1, <2>2, NothingLeft
<1>4. CASE p.abort = 1 /\ seen # 0
  <2>1. PICK u : u = Tell(s, "forward", "cancel", 0)
    OBVIOUS
  <2>2. Transfer(s, seen) = u
    BY <1>4, <2>1 DEF Transfer
  <2>3. u.h = s.h /\ u.n = SendReverse(s.n, Cancel)
    BY <2>1 DEF Tell, Cancel
  <2>4. SendTaken(u) = u
    BY <1>1, <2>3, NothingLeft
  <2> QED
    BY <1>4, <2>2, <2>3, <2>4 DEF Transferred, CheckPassthrough
<1>5. CASE ~(p.abort = 1) /\ seen = 6 /\ p.size # Len(p.vec)
  <2>1. PICK q : q = Emptied(p)
    OBVIOUS
  <2>2. q \in PassthroughMembers /\ Sound(q)
    BY <1>1, <2>1, OutcomesAre
  <2>3. PICK u : u = [s EXCEPT !.h.pt = q]
    OBVIOUS
  <2>4. Transfer(s, seen) = u
    <3>1. Transfer(s, seen) = [s EXCEPT !.h.pt = [@ EXCEPT !.vec = [i \in 1..p.size |-> NoPoint], !.received = 0,
                                             !.sent = 0, !.started = FALSE, !.state = 1]]
      BY <1>5 DEF Transfer
    <3> QED
      BY <2>1, <2>3, <3>1 DEF Emptied
  <2> QED
    BY <1>3, <1>5, <2>1, <2>2, <2>3, <2>4 DEF Transferred, CheckPassthrough
<1>6. CASE ~(p.abort = 1) /\ seen = 2 /\ p.received >= Len(p.vec)
  <2>1. PICK u : u = [s EXCEPT !.h.crashed = TRUE]
    OBVIOUS
  <2>2. Transfer(s, seen) = u
    BY <1>6, <2>1 DEF Transfer, TakePoint
  <2>3. u.h = [s.h EXCEPT !.crashed = TRUE] /\ u.n = s.n /\ u.h.pt = p
    BY <1>1, <2>1 DEF HardwareKeys
  <2>4. SendTaken(u) = u
    BY <1>1, <2>3, NothingLeft
  <2> QED
    BY <1>6, <2>2, <2>3, <2>4 DEF Transferred, CheckPassthrough
<1>7. CASE ~(p.abort = 1) /\ seen = 2 /\ ~(p.received >= Len(p.vec))
  <2>1. Transfer(s, seen) = TakePoint(s)
    BY <1>7 DEF Transfer
  <2>2. p.received < Len(p.vec)
    BY <1>1, <1>7, PassthroughFields
  <2>3. PICK begun \in BOOLEAN :
           /\ p.started => begun
           /\ SendTaken(TakePoint(s)).h = [s.h EXCEPT !.pt = Taken(p, begun)]
           /\ SendTaken(TakePoint(s)).n = Handed(s.n, p, begun)
    BY <2>2, PointTaken
  <2> QED
    BY <1>7, <2>1, <2>2, <2>3 DEF Transferred, CheckPassthrough
<1>8. CASE ~(p.abort = 1) /\ seen = 3
  <2>1. PICK q : q = Complete(p)
    OBVIOUS
  <2>2. q \in PassthroughMembers /\ Sound(q)
    BY <1>1, <2>1, OutcomesAre
  <2>3. PICK u : u = [s EXCEPT !.h.pt = q]
    OBVIOUS
  <2>4. PICK v : v = [s EXCEPT !.h.pt.abort = 0, !.h.pt.state = 4]
    OBVIOUS
  <2>5. Transfer(s, seen) = v
    BY <1>8, <2>4 DEF Transfer
  <2>6. v = u
    <3>1. PICK a : a = [p EXCEPT !.abort = 0]
      OBVIOUS
    <3>2. PICK h : h = [s.h EXCEPT !.pt = a]
      OBVIOUS
    <3>3. PICK w : w = [s EXCEPT !.h = h]
      OBVIOUS
    <3>4. w.h.pt = a /\ w.h = h /\ w.n = s.n /\ DOMAIN w = {"h", "n"}
      BY <1>1, <3>2, <3>3 DEF HardwareKeys
    <3>5. v = [w EXCEPT !.h = [h EXCEPT !.pt = [a EXCEPT !.state = 4]]]
      BY <2>4, <3>1, <3>2, <3>3, <3>4
    <3>6. [a EXCEPT !.state = 4] = q
      BY <2>1, <3>1 DEF Complete
    <3>7. [h EXCEPT !.pt = q] = [s.h EXCEPT !.pt = q]
      BY <3>2
    <3>8. v = [w EXCEPT !.h = [s.h EXCEPT !.pt = q]]
      BY <3>5, <3>6, <3>7
    <3>9. u = [s EXCEPT !.h = [s.h EXCEPT !.pt = q]]
      BY <2>3
    <3> QED
      BY <3>3, <3>8, <3>9
  <2> QED
    BY <1>3, <1>8, <2>1, <2>2, <2>3, <2>5, <2>6 DEF Transferred, CheckPassthrough
<1>9. CASE ~(p.abort = 1) /\ seen = 4 /\ p.sent = Len(p.vec)
  <2>1. PICK q : q = [p EXCEPT !.vec = <<>>]
    OBVIOUS
  <2>2. q \in PassthroughMembers /\ Sound(q)
    BY <1>1, <2>1, OutcomesAre
  <2>3. PICK u : u = [s EXCEPT !.h.pt = q]
    OBVIOUS
  <2>4. Transfer(s, seen) = u
    BY <1>9, <2>1, <2>3 DEF Transfer
  <2> QED
    BY <1>3, <1>9, <2>1, <2>2, <2>3, <2>4 DEF Transferred, CheckPassthrough
<1>10. CASE /\ ~(p.abort = 1 /\ seen # 0) /\ ~(~(p.abort = 1) /\ seen = 6 /\ p.size # Len(p.vec))
            /\ ~(~(p.abort = 1) /\ seen \in {2, 3})
            /\ ~(~(p.abort = 1) /\ seen = 4 /\ p.sent = Len(p.vec))
  <2>1. Transfer(s, seen) = s
    BY <1>10 DEF Transfer
  <2>2. SendTaken(s) = s
    BY <1>1, NothingLeft
  <2> QED
    BY <2>1, <2>2 DEF Transferred, CheckPassthrough
<1> QED
  BY <1>4, <1>5, <1>6, <1>7, <1>8, <1>9, <1>10

\* A transfer keeps the types on both sides.
LEMMA TransferredIs ==
  ASSUME NEW s, WholeSides(s), Sound(s.h.pt), NEW t, NEW seen, Transferred(s, t, seen),
         seen = 2 => s.h.pt.point \in GoalPoint
  PROVE  /\ t.h \in Hardware /\ Sound(t.h.pt) /\ t.h.pt.point = s.h.pt.point
         /\ Lines(s.n, GoalPoint) => Lines(t.n, GoalPoint)
<1> USE DEF WholeSides
<1> DEFINE p == s.h.pt
<1>1. p \in PassthroughMembers /\ DOMAIN s.h = HardwareKeys
  BY HardwareIs
<1>2. ASSUME NEW q \in PassthroughMembers, Sound(q), q.point = p.point, t.h = [s.h EXCEPT !.pt = q]
      PROVE  t.h \in Hardware /\ Sound(t.h.pt) /\ t.h.pt.point = s.h.pt.point
  <2>1. t.h.pt = q
    BY <1>1, <1>2 DEF HardwareKeys
  <2> QED
    BY <1>2, <2>1, HardwareIs
<1>3. CASE t.h = s.h /\ t.n = s.n
  BY <1>3
<1>4. CASE t.h = s.h /\ t.n = SendReverse(s.n, Cancel)
  <2>1. Cancel \in Commands
    BY CommandIs, ArgsAre DEF Cancel, ControlModes
  <2>2. Lines(s.n, GoalPoint) => Lines(t.n, GoalPoint)
    BY <1>4, <2>1, ReverseIs
  <2> QED
    BY <1>4, <2>2
<1>5. CASE t.h = [s.h EXCEPT !.pt = Emptied(p)] /\ t.n = s.n
  BY <1>1, <1>2, <1>5, OutcomesAre
<1>6. CASE t.h = [s.h EXCEPT !.crashed = TRUE] /\ t.n = s.n
  <2>1. t.h.pt = p
    BY <1>1, <1>6 DEF HardwareKeys
  <2>2. t.h \in Hardware
    BY <1>6, HardwareIs
  <2> QED
    BY <1>6, <2>1, <2>2
<1>7. ASSUME seen = 2, p.received < Len(p.vec), NEW begun \in BOOLEAN, p.started => begun,
             t.h = [s.h EXCEPT !.pt = Taken(p, begun)], t.n = Handed(s.n, p, begun)
      PROVE  /\ t.h \in Hardware /\ Sound(t.h.pt) /\ t.h.pt.point = s.h.pt.point
             /\ Lines(s.n, GoalPoint) => Lines(t.n, GoalPoint)
  <2>1. /\ Taken(p, begun) \in PassthroughMembers /\ Taken(p, begun).point = p.point
        /\ Sound(Taken(p, begun))
    BY <1>1, <1>7, TakenIs, SoundTaken
  <2>2. PICK w : w = SubSeq(Taken(p, begun).vec, p.sent + 1, p.received + 1)
    OBVIOUS
  <2>3. w \in Seq(GoalPoint)
    BY <1>1, <1>7, <2>2, SoundTaken
  <2>4. Start(p) \in Commands
    <3>1. PICK k \in Nat : k = Len(p.vec)
      BY <1>1, PassthroughFields
    <3>2. "forward" \in ControlModes /\ "start" \in Args
      BY ArgsAre, Zenon DEF ControlModes
    <3>3. Command("forward", "start", k) \in Commands
      BY <3>2, CommandIs, Zenon
    <3> QED
      BY <3>1, <3>3 DEF Start
  <2>5. ASSUME Lines(s.n, GoalPoint) PROVE Lines(t.n, GoalPoint)
    <3>1. PICK m : m = IF p.started THEN s.n ELSE SendReverse(s.n, Start(p))
      OBVIOUS
    <3>2. Lines(m, GoalPoint)
      BY <2>4, <2>5, <3>1, ReverseIs
    <3>3. Lines(SendPoints(m, w), GoalPoint)
      BY <2>3, <3>2, PointsAre
    <3> QED
      BY <1>7, <2>2, <2>5, <3>1, <3>3 DEF Handed
  <2> QED
    BY <1>2, <1>7, <2>1, <2>5
<1>8. CASE t.h = [s.h EXCEPT !.pt = Complete(p)] /\ t.n = s.n
  BY <1>1, <1>2, <1>8, OutcomesAre
<1>9. CASE t.h = [s.h EXCEPT !.pt = [p EXCEPT !.vec = <<>>]] /\ t.n = s.n
  <2>1. [p EXCEPT !.vec = <<>>].point = p.point
    BY <1>1, PassthroughFields
  <2> QED
    BY <1>1, <1>2, <1>9, <2>1, OutcomesAre
<1> QED
  BY <1>3, <1>4, <1>5, <1>6, <1>7, <1>8, <1>9 DEF Transferred

\* A step beside the transfer.
Aside(s, t) == /\ WholeSides(t) /\ SameLines(s.n, t.n)
               /\ t.h.pt = s.h.pt /\ t.h.crashed = s.h.crashed

LEMMA AsideOn ==
  ASSUME NEW s, NEW t, NEW u, Aside(s, t), Aside(t, u)
  PROVE  Aside(s, u)
BY DEF Aside, SameLines

LEMMA AsideIs ==
  ASSUME NEW s, WholeSides(s), DOMAIN s.n = NetKeys
  PROVE  /\ Aside(s, s)
         /\ \A c : Aside(s, Script(s, c)) /\ Script(s, c).h = s.h
         /\ \A f \in ForceMembers : Aside(s, [s EXCEPT !.h.fm = f])
         /\ \A f \in ContactMembers : Aside(s, [s EXCEPT !.h.tc = f])
         /\ \A f \in FreedriveMembers : Aside(s, [s EXCEPT !.h.fd = f])
<1>0. DOMAIN s.h = HardwareKeys
  BY HardwareIs DEF WholeSides
<1>1. SameLines(s.n, s.n)
  BY DEF SameLines
<1>2. Aside(s, s)
  BY <1>1 DEF Aside
<1>3. ASSUME NEW c PROVE Aside(s, Script(s, c)) /\ Script(s, c).h = s.h
  <2>1. PICK m : m = SendScript(s.n, c)
    OBVIOUS
  <2>2. Script(s, c) = [s EXCEPT !.n = m]
    BY <2>1 DEF Script
  <2>3. SameLines(s.n, m)
    BY <2>1, ScriptsAre
  <2> QED
    BY <2>2, <2>3 DEF Aside, WholeSides
<1>4. ASSUME NEW k \in Hardware, NEW u, u = [s EXCEPT !.h = k], k.pt = s.h.pt, k.crashed = s.h.crashed
      PROVE  Aside(s, u)
  BY <1>1, <1>4 DEF Aside, WholeSides
<1>5. ASSUME NEW f \in ForceMembers PROVE Aside(s, [s EXCEPT !.h.fm = f])
  <2>1. PICK k : k = [s.h EXCEPT !.fm = f]
    OBVIOUS
  <2>2. k \in Hardware /\ k.pt = s.h.pt /\ k.crashed = s.h.crashed
    BY <1>0, <2>1, HardwareIs DEF WholeSides, HardwareKeys
  <2> QED
    BY <1>4, <2>1, <2>2
<1>6. ASSUME NEW f \in ContactMembers PROVE Aside(s, [s EXCEPT !.h.tc = f])
  <2>1. PICK k : k = [s.h EXCEPT !.tc = f]
    OBVIOUS
  <2>2. k \in Hardware /\ k.pt = s.h.pt /\ k.crashed = s.h.crashed
    BY <1>0, <2>1, HardwareIs DEF WholeSides, HardwareKeys
  <2> QED
    BY <1>4, <2>1, <2>2
<1>7. ASSUME NEW f \in FreedriveMembers PROVE Aside(s, [s EXCEPT !.h.fd = f])
  <2>1. PICK k : k = [s.h EXCEPT !.fd = f]
    OBVIOUS
  <2>2. k \in Hardware /\ k.pt = s.h.pt /\ k.crashed = s.h.crashed
    BY <1>0, <2>1, HardwareIs DEF WholeSides, HardwareKeys
  <2> QED
    BY <1>4, <2>1, <2>2
<1> QED
  BY <1>2, <1>3, <1>5, <1>6, <1>7

LEMMA ForceAside ==
  ASSUME NEW s, WholeSides(s), DOMAIN s.n = NetKeys
  PROVE  Aside(s, StopForceMode(s)) /\ Aside(s, ForceControl(s))
<1>1. PICK x \in Cmd : x = Flag(HasClient(s.n))
  BY CmdIs
<1>2. NoCmd \in Cmd /\ FALSE \in BOOLEAN
  BY CmdIs
<1>3. Aside(s, StopForceMode(s))
  <2>1. PICK t : t = Script(s, "end_force")
    OBVIOUS
  <2>2. Aside(s, t) /\ WholeSides(t) /\ DOMAIN t.n = NetKeys
    BY <2>1, AsideIs DEF Aside, SameLines
  <2>3. PICK f : f = [t.h.fm EXCEPT !.async = x]
    OBVIOUS
  <2>4. PICK g : g = [f EXCEPT !.disable = NoCmd]
    OBVIOUS
  <2>5. t.h.fm \in ForceMembers
    BY <2>2, HardwareIs DEF WholeSides
  <2>6. f \in ForceMembers
    BY <1>1, <2>3, <2>5, ForceMembersAre
  <2>7. g \in ForceMembers
    BY <1>2, <2>4, <2>6, ForceMembersAre
  <2>8. PICK u : u = [t EXCEPT !.h.fm = g]
    OBVIOUS
  <2>9. u = [t EXCEPT !.h.fm.async = x, !.h.fm.disable = NoCmd]
    <3>1. PICK h : h = [t.h EXCEPT !.fm = f]
      OBVIOUS
    <3>2. h.fm = f
      BY <2>2, <3>1, HardwareIs DEF WholeSides, HardwareKeys
    <3>3. PICK v : v = [t EXCEPT !.h = h]
      OBVIOUS
    <3>4. v.h = h
      BY <2>2, <3>3 DEF WholeSides
    <3>5. [t EXCEPT !.h.fm.async = x, !.h.fm.disable = NoCmd] = [v EXCEPT !.h = [h EXCEPT !.fm = g]]
      BY <2>3, <2>4, <3>1, <3>2, <3>3, <3>4
    <3>6. [h EXCEPT !.fm = g] = [t.h EXCEPT !.fm = g]
      BY <3>1
    <3>7. u = [t EXCEPT !.h = [t.h EXCEPT !.fm = g]]
      BY <2>8
    <3> QED
      BY <3>3, <3>5, <3>6, <3>7
  <2>10. Aside(t, u)
    BY <2>2, <2>7, <2>8, AsideIs
  <2>11. StopForceMode(s) = u
    BY <1>1, <2>1, <2>9 DEF StopForceMode
  <2> QED
    BY <2>2, <2>10, <2>11, AsideOn
<1>4. Aside(s, StartForceMode(s))
  <2>1. PICK t : t = Script(s, "start_force")
    OBVIOUS
  <2>2. Aside(s, t) /\ WholeSides(t) /\ DOMAIN t.n = NetKeys
    BY <2>1, AsideIs DEF Aside, SameLines
  <2>3. PICK f : f = [t.h.fm EXCEPT !.async = x]
    OBVIOUS
  <2>4. PICK g : g = [f EXCEPT !.params = FALSE]
    OBVIOUS
  <2>5. t.h.fm \in ForceMembers
    BY <2>2, HardwareIs DEF WholeSides
  <2>6. f \in ForceMembers
    BY <1>1, <2>3, <2>5, ForceMembersAre
  <2>7. g \in ForceMembers
    BY <1>2, <2>4, <2>6, ForceMembersAre
  <2>8. PICK u : u = [t EXCEPT !.h.fm = g]
    OBVIOUS
  <2>9. u = [t EXCEPT !.h.fm.async = x, !.h.fm.params = FALSE]
    <3>1. PICK h : h = [t.h EXCEPT !.fm = f]
      OBVIOUS
    <3>2. h.fm = f
      BY <2>2, <3>1, HardwareIs DEF WholeSides, HardwareKeys
    <3>3. PICK v : v = [t EXCEPT !.h = h]
      OBVIOUS
    <3>4. v.h = h
      BY <2>2, <3>3 DEF WholeSides
    <3>5. [t EXCEPT !.h.fm.async = x, !.h.fm.params = FALSE] = [v EXCEPT !.h = [h EXCEPT !.fm = g]]
      BY <2>3, <2>4, <3>1, <3>2, <3>3, <3>4
    <3>6. [h EXCEPT !.fm = g] = [t.h EXCEPT !.fm = g]
      BY <3>1
    <3>7. u = [t EXCEPT !.h = [t.h EXCEPT !.fm = g]]
      BY <2>8
    <3> QED
      BY <3>3, <3>5, <3>6, <3>7
  <2>10. Aside(t, u)
    BY <2>2, <2>7, <2>8, AsideIs
  <2>11. StartForceMode(s) = u
    BY <1>1, <2>1, <2>9 DEF StartForceMode
  <2> QED
    BY <2>2, <2>10, <2>11, AsideOn
<1> QED
  BY <1>3, <1>4, AsideIs DEF ForceControl

LEMMA ContactAside ==
  ASSUME NEW s, WholeSides(s), DOMAIN s.n = NetKeys
  PROVE  Aside(s, Contact(s))
<1>0. PICK c \in ContactMembers : c = s.h.tc
  BY HardwareIs DEF WholeSides
<1>1. ASSUME NEW x \in 0..7, NEW t, Aside(s, t), t.h = s.h
      PROVE  Aside(s, [t EXCEPT !.h.tc.state = x])
  <2>1. PICK f : f = [c EXCEPT !.state = x]
    OBVIOUS
  <2>2. f \in ContactMembers
    BY <1>0, <1>1, <2>1, ContactMembersAre
  <2>3. [t EXCEPT !.h.tc.state = x] = [t EXCEPT !.h.tc = f]
    BY <1>0, <1>1, <2>1
  <2>4. Aside(t, [t EXCEPT !.h.tc = f])
    BY <1>1, <2>2, AsideIs DEF Aside, SameLines
  <2> QED
    BY <1>1, <2>3, <2>4, AsideOn
<1>2. CASE s.h.tc.set = 2
  <2>1. PICK t : t = Script(s, "start_tool")
    OBVIOUS
  <2>2. Aside(s, t) /\ t.h = s.h /\ WholeSides(t) /\ DOMAIN t.n = NetKeys
    BY <2>1, AsideIs DEF Aside, SameLines
  <2>3. CASE HasClient(s.n)
    <3>1. PICK f : f = [c EXCEPT !.state = 3]
      OBVIOUS
    <3>2. PICK g : g = [f EXCEPT !.result = 3]
      OBVIOUS
    <3>n. 3 \in 0..7 /\ 3 \in -1..3
      OBVIOUS
    <3>3. f \in ContactMembers
      BY <3>1, <3>n, ContactMembersAre
    <3>4. g \in ContactMembers
      BY <3>2, <3>3, <3>n, ContactMembersAre
    <3>5. PICK k : k = [s.h EXCEPT !.tc = g]
      OBVIOUS
    <3>6. ContactStarted(s.h) = k
      BY <1>0, <3>1, <3>2, <3>5, <2>2, HardwareIs DEF ContactStarted, WholeSides, HardwareKeys
    <3>7. CheckToolContact(s) = [t EXCEPT !.h = k]
      BY <1>2, <2>1, <2>2, <2>3, <3>6 DEF CheckToolContact
    <3>8. [t EXCEPT !.h = k] = [t EXCEPT !.h.tc = g]
      BY <2>2, <3>5
    <3>9. Aside(t, [t EXCEPT !.h.tc = g])
      BY <2>2, <3>4, AsideIs
    <3> QED
      BY <2>2, <3>7, <3>8, <3>9, AsideOn, AsideIs DEF Contact
  <2>4. CASE ~HasClient(s.n)
    <3>1. CheckToolContact(s) = [t EXCEPT !.h.tc.state = 4]
      BY <1>2, <2>1, <2>4 DEF CheckToolContact
    <3> QED
      BY <1>1, <2>2, <3>1, AsideIs DEF Contact
  <2> QED
    BY <2>3, <2>4
<1>3. CASE s.h.tc.set = 5
  <2>1. PICK t, x : t = Script(s, "end_tool") /\ x = IF HasClient(s.n) THEN 6 ELSE 7
    OBVIOUS
  <2>2. Aside(s, t) /\ t.h = s.h /\ x \in 0..7
    BY <2>1, AsideIs
  <2>3. CheckToolContact(s) = [t EXCEPT !.h.tc.state = x]
    BY <1>3, <2>1 DEF CheckToolContact
  <2> QED
    BY <1>1, <2>2, <2>3, AsideIs DEF Contact
<1>4. CASE s.h.tc.set \notin {2, 5}
  <2>1. PICK x \in 0..7 : x = s.h.tc.set
    BY <1>0, ContactMembersAre
  <2>2. CheckToolContact(s) = [s EXCEPT !.h.tc.state = x]
    BY <1>4, <2>1 DEF CheckToolContact
  <2> QED
    BY <1>1, <2>2, AsideIs DEF Contact
<1> QED
  BY <1>2, <1>3, <1>4

\* What a switch makes of the transfer: the abort flag changes, and what was
\* taken over is dropped when the transfer stops.
Swapped(h, k) ==
    /\ k.pt.state = h.pt.state /\ k.pt.point = h.pt.point /\ k.pt.size = h.pt.size
    /\ k.pt.received = h.pt.received /\ k.pt.sent = h.pt.sent
    /\ k.pt.started = h.pt.started /\ k.pt.late = h.pt.late
    /\ k.crashed = h.crashed /\ Sound(k.pt)
Apart(s, t) == WholeSides(t) /\ SameLines(s.n, t.n) /\ Swapped(s.h, t.h)

LEMMA ApartIs ==
  ASSUME NEW s, WholeSides(s), DOMAIN s.n = NetKeys, Sound(s.h.pt), NEW t
  PROVE  /\ Aside(s, t) => Apart(s, t) /\ t.h.pt.vec = s.h.pt.vec
         /\ \A u : Apart(s, t) /\ Apart(t, u) => Apart(s, u)
         /\ Apart(s, t) => DOMAIN t.n = NetKeys /\ Sound(t.h.pt) /\ WholeSides(t)
BY DEF Aside, Apart, Swapped, SameLines

LEMMA SwapIs ==
  ASSUME NEW s, WholeSides(s), DOMAIN s.n = NetKeys, Sound(s.h.pt),
         NEW q \in PassthroughMembers, Sound(q), NEW t, t = [s EXCEPT !.h.pt = q],
         q.state = s.h.pt.state, q.point = s.h.pt.point, q.size = s.h.pt.size,
         q.received = s.h.pt.received, q.sent = s.h.pt.sent,
         q.started = s.h.pt.started, q.late = s.h.pt.late
  PROVE  Apart(s, t) /\ t.h.pt = q
<1>0. DOMAIN s.h = HardwareKeys
  BY HardwareIs DEF WholeSides
<1>1. PICK k : k = [s.h EXCEPT !.pt = q]
  OBVIOUS
<1>2. k \in Hardware /\ k.pt = q /\ k.crashed = s.h.crashed
  BY <1>0, <1>1, HardwareIs DEF WholeSides, HardwareKeys
<1>3. t.h = k /\ t.n = s.n /\ DOMAIN t = {"h", "n"}
  BY <1>1 DEF WholeSides
<1> QED
  BY <1>2, <1>3 DEF Apart, Swapped, SameLines, WholeSides

LEMMA AbortIs ==
  ASSUME NEW s, WholeSides(s), DOMAIN s.n = NetKeys, Sound(s.h.pt), NEW x \in {0, 1}
  PROVE  LET t == [s EXCEPT !.h.pt.abort = x]
             u == [s EXCEPT !.h.pt.abort = x, !.h.pt.vec = <<>>]
         IN  Apart(s, t) /\ Apart(s, u) /\ t.h.pt.vec = s.h.pt.vec
<1> DEFINE p == s.h.pt
<1>0. p \in PassthroughMembers
  BY HardwareIs DEF WholeSides
<1>1. PICK q : q = [p EXCEPT !.abort = x]
  OBVIOUS
<1>2. /\ q \in PassthroughMembers /\ Sound(q) /\ q.vec = p.vec
      /\ q.state = p.state /\ q.point = p.point /\ q.size = p.size /\ q.received = p.received
      /\ q.sent = p.sent /\ q.started = p.started /\ q.late = p.late
  BY <1>0, <1>1, OutcomesAre, PassthroughFields
<1>3. PICK r : r = [q EXCEPT !.vec = <<>>]
  OBVIOUS
<1>4. /\ r \in PassthroughMembers /\ Sound(r)
      /\ r.state = p.state /\ r.point = p.point /\ r.size = p.size /\ r.received = p.received
      /\ r.sent = p.sent /\ r.started = p.started /\ r.late = p.late
  BY <1>2, <1>3, OutcomesAre, PassthroughFields
<1>5. PICK t : t = [s EXCEPT !.h.pt.abort = x]
  OBVIOUS
<1>6. t = [s EXCEPT !.h.pt = q]
  BY <1>1, <1>5
<1>7. Apart(s, t) /\ t.h.pt = q
  BY <1>2, <1>6, SwapIs
<1>8. PICK u : u = [t EXCEPT !.h.pt = r]
  OBVIOUS
<1>9. Apart(t, u)
  BY <1>2, <1>4, <1>7, <1>8, SwapIs, ApartIs
<1>10. u = [s EXCEPT !.h.pt.abort = x, !.h.pt.vec = <<>>]
  <2>1. u = [t EXCEPT !.h.pt.vec = <<>>]
    BY <1>3, <1>7, <1>8
  <2> QED
    BY <1>5, <2>1
<1>11. Apart(s, u)
  BY <1>7, <1>9, ApartIs
<1> QED
  BY <1>2, <1>5, <1>7, <1>10, <1>11

LEMMA StopsApart ==
  ASSUME NEW s, WholeSides(s), DOMAIN s.n = NetKeys, Sound(s.h.pt)
  PROVE  /\ Apart(s, PerformStops(s))
         /\ "passthrough" \notin s.h.stop => PerformStops(s).h.pt.vec = s.h.pt.vec
<1> DEFINE a == IF "force" \in s.h.stop THEN StopForceMode(s) ELSE s
           b == IF "passthrough" \in s.h.stop
                THEN [a EXCEPT !.h.pt.abort = 1, !.h.pt.vec = <<>>] ELSE a
           c == IF "freedrive" \in s.h.stop
                THEN [b EXCEPT !.h.fd.activated = FALSE, !.h.fd.abort = 1] ELSE b
           d == IF "tool_contact" \in s.h.stop
                THEN [Script(c, "end_tool") EXCEPT !.h.tc.result = 3] ELSE c
<1>1. PerformStops(s) = d
  BY DEF PerformStops
<1>2. Aside(s, a)
  BY ForceAside, AsideIs
<1>3. Apart(s, a) /\ a.h.pt.vec = s.h.pt.vec /\ DOMAIN a.n = NetKeys /\ Sound(a.h.pt) /\ WholeSides(a)
  BY <1>2, ApartIs
<1>4. b \in {a, [a EXCEPT !.h.pt.abort = 1, !.h.pt.vec = <<>>]} /\ ("passthrough" \notin s.h.stop => b = a)
  OBVIOUS
<1>5. c \in {b, [b EXCEPT !.h.fd.activated = FALSE, !.h.fd.abort = 1]}
  OBVIOUS
<1>6. d \in {c, [Script(c, "end_tool") EXCEPT !.h.tc.result = 3]}
  OBVIOUS
<1> HIDE DEF a, b, c, d
<1>7. Apart(a, b)
  <2>1. Apart(a, [a EXCEPT !.h.pt.abort = 1, !.h.pt.vec = <<>>])
    BY <1>3, AbortIs
  <2>2. Apart(a, a)
    BY <1>3, ApartIs, AsideIs
  <2> QED
    BY <1>4, <2>1, <2>2
<1>8. DOMAIN b.n = NetKeys /\ Sound(b.h.pt) /\ WholeSides(b)
  BY <1>3, <1>7, ApartIs
<1>9. Aside(b, c)
  <2>1. PICK f : f = [b.h.fd EXCEPT !.activated = FALSE]
    OBVIOUS
  <2>2. PICK g : g = [f EXCEPT !.abort = 1]
    OBVIOUS
  <2>3. b.h.fd \in FreedriveMembers
    BY <1>8, HardwareIs DEF WholeSides
  <2>n. FALSE \in BOOLEAN /\ 1 \in Cmd
    BY CmdIs
  <2>4. f \in FreedriveMembers
    BY <2>1, <2>3, <2>n, FreedriveMembersAre
  <2>5. g \in FreedriveMembers
    BY <2>2, <2>4, <2>n, FreedriveMembersAre
  <2>6. PICK x : x = [b EXCEPT !.h.fd.activated = FALSE]
    OBVIOUS
  <2>7. x = [b EXCEPT !.h.fd = f]
    BY <2>1, <2>6
  <2>8. Aside(b, x) /\ x.h.fd = f /\ WholeSides(x) /\ DOMAIN x.n = NetKeys
    <3>1. x.h = [b.h EXCEPT !.fd = f]
      BY <1>8, <2>7 DEF WholeSides
    <3>2. x.h.fd = f
      BY <1>8, <3>1, HardwareIs DEF WholeSides, HardwareKeys
    <3> QED
      BY <1>8, <2>4, <2>7, <3>2, AsideIs DEF Aside, SameLines
  <2>9. PICK y : y = [x EXCEPT !.h.fd.abort = 1]
    OBVIOUS
  <2>10. y = [x EXCEPT !.h.fd = g]
    BY <2>2, <2>8, <2>9
  <2>11. Aside(x, y)
    BY <2>5, <2>8, <2>10, AsideIs
  <2>12. y = [b EXCEPT !.h.fd.activated = FALSE, !.h.fd.abort = 1]
    BY <2>6, <2>9
  <2>13. Aside(b, y)
    BY <2>8, <2>11, AsideOn
  <2>14. Aside(b, b)
    BY <1>8, AsideIs
  <2> QED
    BY <1>5, <2>12, <2>13, <2>14
<1>10. Apart(b, c) /\ c.h.pt.vec = b.h.pt.vec /\ DOMAIN c.n = NetKeys /\ Sound(c.h.pt) /\ WholeSides(c)
  BY <1>8, <1>9, ApartIs
<1>11. Aside(c, d)
  <2>1. PICK x : x = Script(c, "end_tool")
    OBVIOUS
  <2>2. Aside(c, x) /\ WholeSides(x) /\ DOMAIN x.n = NetKeys
    BY <1>10, <2>1, AsideIs DEF Aside, SameLines
  <2>3. PICK f : f = [x.h.tc EXCEPT !.result = 3]
    OBVIOUS
  <2>4. f \in ContactMembers
    <3>1. 3 \in -1..3
      OBVIOUS
    <3> QED
      BY <2>2, <2>3, <3>1, HardwareIs, ContactMembersAre DEF WholeSides
  <2>5. PICK y : y = [x EXCEPT !.h.tc = f]
    OBVIOUS
  <2>6. y = [x EXCEPT !.h.tc.result = 3]
    BY <2>3, <2>5
  <2>7. Aside(c, y)
    BY <2>2, <2>4, <2>5, AsideIs, AsideOn
  <2>8. Aside(c, c)
    BY <1>10, AsideIs
  <2> QED
    BY <1>6, <2>1, <2>6, <2>7, <2>8
<1>12. Apart(c, d) /\ d.h.pt.vec = c.h.pt.vec
  BY <1>10, <1>11, ApartIs
<1>13. Apart(s, b) /\ ("passthrough" \notin s.h.stop => b.h.pt.vec = s.h.pt.vec)
  BY <1>3, <1>4, <1>7, ApartIs
<1>14. Apart(s, c)
  BY <1>10, <1>13, ApartIs
<1>15. Apart(s, d)
  BY <1>12, <1>14, ApartIs
<1> QED
  BY <1>1, <1>10, <1>12, <1>13, <1>15

LEMMA StartsApart ==
  ASSUME NEW s, WholeSides(s), DOMAIN s.n = NetKeys, Sound(s.h.pt)
  PROVE  Apart(s, PerformStarts(s)) /\ PerformStarts(s).h.pt.vec = s.h.pt.vec
<1>1. PICK a : a = IF "passthrough" \in s.h.start THEN [s EXCEPT !.h.pt.abort = 0] ELSE s
  OBVIOUS
<1>2. Apart(s, a) /\ a.h.pt.vec = s.h.pt.vec
  <2>1. Apart(s, [s EXCEPT !.h.pt.abort = 0]) /\ [s EXCEPT !.h.pt.abort = 0].h.pt.vec = s.h.pt.vec
    BY AbortIs
  <2>2. Apart(s, s)
    BY ApartIs, AsideIs
  <2> QED
    BY <1>1, <2>1, <2>2
<1>3. WholeSides(a) /\ DOMAIN a.n = NetKeys /\ Sound(a.h.pt)
  BY <1>2, ApartIs
<1>4. PICK f : f = [a.h.fd EXCEPT !.activated = FALSE]
  OBVIOUS
<1>5. f \in FreedriveMembers
  BY <1>3, <1>4, HardwareIs, FreedriveMembersAre DEF WholeSides
<1>6. PICK b : b = [a EXCEPT !.h.fd = f]
  OBVIOUS
<1>7. b = [a EXCEPT !.h.fd.activated = FALSE]
  BY <1>4, <1>6
<1>8. Aside(a, b) /\ Aside(a, a)
  BY <1>3, <1>5, <1>6, AsideIs
<1>9. Apart(a, b) /\ Apart(a, a) /\ b.h.pt.vec = a.h.pt.vec
  BY <1>3, <1>8, ApartIs
<1>10. PerformStarts(s) \in {a, b}
  BY <1>1, <1>7 DEF PerformStarts
<1>11. Apart(s, a) /\ Apart(s, b)
  BY <1>2, <1>9, ApartIs
<1> QED
  BY <1>2, <1>9, <1>10, <1>11

\* The controllers' part: what is not the transfer stays beside it.
Beside(h, k) == k \in Hardware /\ k.pt = h.pt /\ k.crashed = h.crashed

LEMMA BesideOn ==
  ASSUME NEW h, NEW k, NEW l, Beside(h, k), Beside(k, l)
  PROVE  Beside(h, l)
BY DEF Beside

LEMMA BesideIs ==
  ASSUME NEW h \in Hardware
  PROVE  /\ Beside(h, h)
         /\ \A c \in ContactMembers : Beside(h, [h EXCEPT !.tc = c]) /\ [h EXCEPT !.tc = c].tc = c
         /\ \A d \in FreedriveMembers : Beside(h, [h EXCEPT !.fd = d]) /\ [h EXCEPT !.fd = d].fd = d
         /\ \A f \in ForceMembers : Beside(h, [h EXCEPT !.fm = f]) /\ [h EXCEPT !.fm = f].fm = f
         /\ \A b \in BOOLEAN : /\ Beside(h, [h EXCEPT !.program = b])
                               /\ Beside(h, [h EXCEPT !.fresh = b])
                               /\ Beside(h, [h EXCEPT !.playing = b])
         /\ \A S \in SUBSET Modes : /\ Beside(h, [h EXCEPT !.modes = S])
                                    /\ Beside(h, [h EXCEPT !.start = S])
                                    /\ Beside(h, [h EXCEPT !.stop = S])
<1>1. DOMAIN h = HardwareKeys
  BY HardwareIs
<1> QED
  BY <1>1, HardwareIs DEF Beside, HardwareKeys

LEMMA SetIs ==
  ASSUME NEW h \in Hardware, NEW x \in 0..7
  PROVE  Beside(h, [h EXCEPT !.tc.set = x])
<1>1. PICK f : f = [h.tc EXCEPT !.set = x]
  OBVIOUS
<1>2. f \in ContactMembers
  BY <1>1, HardwareIs, ContactMembersAre
<1>3. [h EXCEPT !.tc.set = x] = [h EXCEPT !.tc = f]
  BY <1>1
<1> QED
  BY <1>2, <1>3, BesideIs

LEMMA ToolContactAre ==
  ASSUME NEW c \in ToolContact
  PROVE  /\ \A b \in BOOLEAN : /\ [c EXCEPT !.goal = b] \in ToolContact
                               /\ [c EXCEPT !.accepting = b] \in ToolContact
                               /\ [c EXCEPT !.enable = b] \in ToolContact
                               /\ [c EXCEPT !.abort = b] \in ToolContact
                               /\ [c EXCEPT !.active = b] \in ToolContact
                               /\ [c EXCEPT !.reset = b] \in ToolContact
         /\ \A r \in {"none", "accepted", "succeeded", "aborted", "canceled"} :
               [c EXCEPT !.status = r] \in ToolContact
BY DEF ToolContact

LEMMA AnsweredTyped ==
  ASSUME NEW c \in ToolContact, NEW r \in {"succeeded", "aborted", "canceled"}
  PROVE  Answered(c, r) \in ToolContact
<1>1. PICK d : d = [c EXCEPT !.status = r]
  OBVIOUS
<1>2. d \in ToolContact
  BY <1>1, ToolContactAre
<1>3. [c EXCEPT !.status = r, !.reset = TRUE] = [d EXCEPT !.reset = TRUE]
  BY <1>1
<1>4. [d EXCEPT !.reset = TRUE] \in ToolContact
  BY <1>2, ToolContactAre
<1> QED
  BY <1>3, <1>4 DEF Answered

LEMMA ToolContactTyped ==
  ASSUME NEW h \in Hardware, NEW c \in ToolContact
  PROVE  /\ Beside(h, ToolContactUpdate(h, c).h) /\ ToolContactUpdate(h, c).c \in ToolContact
         /\ ToolContactDeactivate(c) \in ToolContact
         /\ Beside(h, ToolContactActivate(h))
<1>0. 5 \in 0..7 /\ 2 \in 0..7 /\ 1 \in 0..7
  OBVIOUS
<1>s. \A k \in Hardware : /\ Beside(k, [k EXCEPT !.tc.set = 5]) /\ Beside(k, [k EXCEPT !.tc.set = 2])
                          /\ Beside(k, [k EXCEPT !.tc.set = 1])
  BY <1>0, SetIs
<1>1. PICK g, d : g = Requested(h, c).h /\ d = Requested(h, c).c
  OBVIOUS
<1>2. Beside(h, g) /\ g \in Hardware
  <2>1. g \in {h, [h EXCEPT !.tc.set = 5], [h EXCEPT !.tc.set = 2]}
    BY <1>1 DEF Requested
  <2> QED
    <3>0. Beside(h, h) /\ Beside(h, [h EXCEPT !.tc.set = 5]) /\ Beside(h, [h EXCEPT !.tc.set = 2])
      BY <1>s DEF Beside
    <3>1. Beside(h, g)
      BY <2>1, <3>0
    <3> QED
      BY <3>1 DEF Beside
<1>3. d \in ToolContact
  <2>1. PICK e : e = [c EXCEPT !.abort = FALSE]
    OBVIOUS
  <2>2. d = [e EXCEPT !.enable = FALSE]
    BY <1>1, <2>1 DEF Requested
  <2> QED
    BY <2>1, <2>2, ToolContactAre
<1>4. Beside(h, g) /\ Beside(h, [g EXCEPT !.tc.set = 5]) /\ Beside(h, Standby(g))
  BY <1>2, <1>s, BesideOn DEF Standby
<1>5. ToolContactUpdate(h, c).h \in {g, [g EXCEPT !.tc.set = 5], Standby(g)}
  BY <1>1 DEF ToolContactUpdate
<1>6. ToolContactUpdate(h, c).c \in {[Answered(d, "succeeded") EXCEPT !.active = FALSE],
                                     [Answered(d, "aborted") EXCEPT !.active = FALSE],
                                     [d EXCEPT !.active = TRUE], [d EXCEPT !.active = FALSE],
                                     Answered(d, "aborted"), d}
  BY <1>1 DEF ToolContactUpdate
<1>7. ToolContactUpdate(h, c).c \in ToolContact
  BY <1>3, <1>6, AnsweredTyped, ToolContactAre
<1>8. ToolContactDeactivate(c) \in ToolContact
  BY AnsweredTyped, ToolContactAre DEF ToolContactDeactivate
<1> QED
  BY <1>4, <1>5, <1>7, <1>8, <1>s DEF ToolContactActivate

LEMMA FreedriveTyped ==
  ASSUME NEW h \in Hardware, NEW c \in Freedrive
  PROVE  /\ Beside(h, FreedriveUpdate(h, c).h) /\ FreedriveUpdate(h, c).c \in Freedrive
         /\ FreedriveDeactivate(c) \in Freedrive
         /\ Beside(h, FreedriveActivate(h, c).h) /\ FreedriveActivate(h, c).c \in Freedrive
<1>0. 1 \in Cmd /\ 0 \in Cmd /\ Waiting \in Cmd
  BY CmdIs
<1>1. \A x \in Cmd : Beside(h, [h EXCEPT !.fd.abort = x])
  <2> SUFFICES ASSUME NEW x \in Cmd PROVE Beside(h, [h EXCEPT !.fd.abort = x])
    OBVIOUS
  <2>1. PICK f : f = [h.fd EXCEPT !.abort = x]
    OBVIOUS
  <2>2. [h EXCEPT !.fd.abort = x] = [h EXCEPT !.fd = f] /\ f \in FreedriveMembers
    BY <2>1, HardwareIs, FreedriveMembersAre
  <2> QED
    BY <2>2, BesideIs
<1>2. \A x \in Cmd : Beside(h, [h EXCEPT !.fd.enable = x])
  <2> SUFFICES ASSUME NEW x \in Cmd PROVE Beside(h, [h EXCEPT !.fd.enable = x])
    OBVIOUS
  <2>1. PICK f : f = [h.fd EXCEPT !.enable = x]
    OBVIOUS
  <2>2. [h EXCEPT !.fd.enable = x] = [h EXCEPT !.fd = f] /\ f \in FreedriveMembers
    BY <2>1, HardwareIs, FreedriveMembersAre
  <2> QED
    BY <2>2, BesideIs
<1>3. \A k \in Hardware : Beside(k, [k EXCEPT !.fd.async = Waiting])
  <2> SUFFICES ASSUME NEW k \in Hardware PROVE Beside(k, [k EXCEPT !.fd.async = Waiting])
    OBVIOUS
  <2>1. PICK f : f = [k.fd EXCEPT !.async = Waiting]
    OBVIOUS
  <2>2. [k EXCEPT !.fd.async = Waiting] = [k EXCEPT !.fd = f] /\ f \in FreedriveMembers
    BY <1>0, <2>1, HardwareIs, FreedriveMembersAre
  <2> QED
    BY <2>2, BesideIs
<1>4. PICK a, b : a = [h EXCEPT !.fd.abort = 1] /\ b = [h EXCEPT !.fd.enable = 1]
  OBVIOUS
<1>5. Beside(h, a) /\ Beside(h, b)
  BY <1>0, <1>1, <1>2, <1>4
<1>6. Beside(h, [a EXCEPT !.fd.async = Waiting]) /\ Beside(h, [b EXCEPT !.fd.async = Waiting])
  BY <1>3, <1>5, BesideOn DEF Beside
<1>7. FreedriveUpdate(h, c).h \in {h, [a EXCEPT !.fd.async = Waiting], [b EXCEPT !.fd.async = Waiting]}
  <2>1. /\ [h EXCEPT !.fd.enable = 1, !.fd.async = Waiting] = [b EXCEPT !.fd.async = Waiting]
        /\ [h EXCEPT !.fd.abort = 1, !.fd.async = Waiting] = [a EXCEPT !.fd.async = Waiting]
    BY <1>4
  <2> QED
    BY <2>1 DEF FreedriveUpdate
<1>8. \A b1 \in BOOLEAN, d \in Freedrive : /\ [d EXCEPT !.active = b1] \in Freedrive
                                          /\ [d EXCEPT !.change = b1] \in Freedrive
                                          /\ [d EXCEPT !.timer = b1] \in Freedrive
  BY DEF Freedrive
<1>9. FreedriveUpdate(h, c).c \in {c, [c EXCEPT !.active = FALSE], [c EXCEPT !.change = FALSE]}
  BY DEF FreedriveUpdate
<1>10. FreedriveUpdate(h, c).c \in Freedrive
  BY <1>8, <1>9
<1>11. PICK d : d = [c EXCEPT !.active = FALSE]
  OBVIOUS
<1>12. /\ FreedriveDeactivate(c) = [d EXCEPT !.timer = FALSE]
       /\ FreedriveActivate(h, c).c = [d EXCEPT !.change = FALSE]
  BY <1>11 DEF FreedriveDeactivate, FreedriveActivate
<1>d. d \in Freedrive
  BY <1>8, <1>11
<1>13. FreedriveDeactivate(c) \in Freedrive /\ FreedriveActivate(h, c).c \in Freedrive
  BY <1>8, <1>12, <1>d
<1>14. Beside(h, FreedriveActivate(h, c).h)
  BY <1>0, <1>1 DEF FreedriveActivate
<1> QED
  BY <1>6, <1>7, <1>10, <1>13, <1>14, BesideIs

LEMMA ForceModeTyped ==
  ASSUME NEW h \in Hardware, NEW c \in ForceMode
  PROVE  /\ Beside(h, ForceModeUpdate(h, c).h) /\ ForceModeUpdate(h, c).c \in ForceMode
         /\ ForceModeActivate(c) \in ForceMode
         /\ Beside(h, ForceModeDeactivate(h))
<1>0. 1 \in Cmd /\ NoCmd \in Cmd /\ Waiting \in Cmd
  BY CmdIs
<1>1. Beside(h, [h EXCEPT !.fm.disable = 1])
  <2>1. PICK f : f = [h.fm EXCEPT !.disable = 1]
    OBVIOUS
  <2>2. [h EXCEPT !.fm.disable = 1] = [h EXCEPT !.fm = f] /\ f \in ForceMembers
    BY <1>0, <2>1, HardwareIs, ForceMembersAre
  <2> QED
    BY <2>2, BesideIs
<1>2. Beside(h, [h EXCEPT !.fm.params = TRUE])
  <2>1. PICK f : f = [h.fm EXCEPT !.params = TRUE]
    OBVIOUS
  <2>2. [h EXCEPT !.fm.params = TRUE] = [h EXCEPT !.fm = f] /\ f \in ForceMembers
    BY <1>0, <2>1, HardwareIs, ForceMembersAre
  <2> QED
    BY <2>2, BesideIs
<1>3. \A k \in Hardware : Beside(k, [k EXCEPT !.fm.async = Waiting])
  <2> SUFFICES ASSUME NEW k \in Hardware PROVE Beside(k, [k EXCEPT !.fm.async = Waiting])
    OBVIOUS
  <2>1. PICK f : f = [k.fm EXCEPT !.async = Waiting]
    OBVIOUS
  <2>2. [k EXCEPT !.fm.async = Waiting] = [k EXCEPT !.fm = f] /\ f \in ForceMembers
    BY <1>0, <2>1, HardwareIs, ForceMembersAre
  <2> QED
    BY <2>2, BesideIs
<1>4. PICK a, b : a = [h EXCEPT !.fm.disable = 1] /\ b = [h EXCEPT !.fm.params = TRUE]
  OBVIOUS
<1>5. Beside(h, [a EXCEPT !.fm.async = Waiting]) /\ Beside(h, [b EXCEPT !.fm.async = Waiting])
  BY <1>1, <1>2, <1>3, <1>4, BesideOn DEF Beside
<1>6. ForceModeUpdate(h, c).h \in {h, [a EXCEPT !.fm.async = Waiting], [b EXCEPT !.fm.async = Waiting]}
  <2>1. /\ [h EXCEPT !.fm.disable = 1, !.fm.async = Waiting] = [a EXCEPT !.fm.async = Waiting]
        /\ [h EXCEPT !.fm.params = TRUE, !.fm.async = Waiting] = [b EXCEPT !.fm.async = Waiting]
    BY <1>4
  <2> QED
    BY <2>1 DEF ForceModeUpdate
<1>7. \A d \in ForceMode : /\ \A x \in Cmd : [d EXCEPT !.async = x] \in ForceMode
                           /\ \A b1 \in BOOLEAN : /\ [d EXCEPT !.change = b1] \in ForceMode
                                                  /\ [d EXCEPT !.active = b1] \in ForceMode
  BY DEF ForceMode
<1>8. PICK d, e, i : /\ d = [c EXCEPT !.async = Waiting] /\ e = [c EXCEPT !.active = FALSE]
                     /\ i = [e EXCEPT !.change = FALSE]
  OBVIOUS
<1>9. d \in ForceMode /\ i \in ForceMode
  BY <1>0, <1>7, <1>8
<1>10. h.fm.async \in Cmd
  BY HardwareIs DEF ForceMembers
<1>11. ForceModeUpdate(h, c).c \in {[c EXCEPT !.async = h.fm.async], [d EXCEPT !.change = FALSE]}
  BY <1>8 DEF ForceModeUpdate
<1>12. ForceModeActivate(c) = [i EXCEPT !.async = NoCmd]
  BY <1>8 DEF ForceModeActivate
<1>13. ForceModeUpdate(h, c).c \in ForceMode /\ ForceModeActivate(c) \in ForceMode
  <2>1. [c EXCEPT !.async = h.fm.async] \in ForceMode
    BY <1>7, <1>10
  <2>2. [d EXCEPT !.change = FALSE] \in ForceMode
    BY <1>7, <1>9
  <2>3. [i EXCEPT !.async = NoCmd] \in ForceMode
    BY <1>0, <1>7, <1>9
  <2> QED
    BY <1>11, <1>12, <2>1, <2>2, <2>3
<1>14. Beside(h, ForceModeUpdate(h, c).h)
  BY <1>5, <1>6, BesideIs
<1> QED
  BY <1>1, <1>13, <1>14 DEF ForceModeDeactivate

\* What update() makes of the transfer and of its controller.
Outcomes == {"succeeded", "aborted"}
HandedOver(h, c, seen, r) ==
    LET p == h.pt
        Becomes(q) == r.h = [h EXCEPT !.pt = q]
    IN  \/ r.c = c /\ r.h = h
        \/ /\ c.goal # NoGoal /\ c.active
           /\ seen = 5 \/ (seen # 0 /\ p.abort = 1)
           /\ Becomes([p EXCEPT !.state = 0])
           /\ \E x \in Outcomes : /\ r.c = [c EXCEPT !.active = FALSE, !.status[c.goal] = x]
                                  /\ x = "succeeded" => seen = 5
        \/ /\ c.goal # NoGoal /\ c.active /\ seen = 0 /\ c.index = 0
           /\ Becomes([p EXCEPT !.state = 6, !.size = Points[c.goal]]) /\ r.c = c
        \/ /\ c.goal # NoGoal /\ c.active /\ seen = 1 /\ c.index < Points[c.goal]
           /\ Becomes([p EXCEPT !.point = <<c.goal, c.index + 1>>, !.state = 2])
           /\ r.c = [c EXCEPT !.index = c.index + 1]
        \/ /\ c.goal # NoGoal /\ c.active /\ seen = 1 /\ c.index = Points[c.goal]
           /\ Becomes([p EXCEPT !.state = 3]) /\ r.c = c
        \/ /\ ~(c.goal # NoGoal /\ c.active) /\ seen \notin {0, 5}
           /\ Becomes([p EXCEPT !.abort = 1]) /\ r.c = c
        \/ /\ ~(c.goal # NoGoal /\ c.active) /\ seen = 5
           /\ Becomes([p EXCEPT !.state = 0, !.abort = 0]) /\ r.c = c

LEMMA PassthroughAre ==
  ASSUME NEW c \in Passthrough
  PROVE  /\ DOMAIN c = {"goal", "active", "index", "accepting", "cancelling", "status"}
         /\ c.goal \in Handles /\ c.active \in BOOLEAN /\ c.index \in Nat /\ c.accepting \in Handles
         /\ c.cancelling \in BOOLEAN
         /\ \A b \in BOOLEAN : /\ [c EXCEPT !.active = b] \in Passthrough
                               /\ [c EXCEPT !.cancelling = b] \in Passthrough
         /\ \A g \in Handles : /\ [c EXCEPT !.goal = g] \in Passthrough
                               /\ [c EXCEPT !.accepting = g] \in Passthrough
         /\ \A i \in Nat : [c EXCEPT !.index = i] \in Passthrough
         /\ \A g : \A x \in {"none", "accepted", "succeeded", "aborted", "canceled"} :
                [c EXCEPT !.status[g] = x] \in Passthrough
BY DEF Passthrough

LEMMA GoalsAre ==
  ASSUME NEW g \in Goals
  PROVE  g \in Nat /\ g # NoGoal /\ Points[g] \in Nat /\ Points[g] > 0 /\ Lead[g] \in Nat
BY DriverAssumption DEF NoGoal

LEMMA HandedOverIs ==
  ASSUME NEW h \in Hardware, NEW c, NEW seen, NEW r \in PassthroughUpdate(h, c, seen)
  PROVE  HandedOver(h, c, seen, r)
<1> DEFINE p == h.pt
<1>0. Verdicts = Outcomes /\ "aborted" \in Outcomes
  BY DEF Verdicts, Outcomes
<1>1. CASE c.goal # NoGoal /\ c.active
  <2>1. CASE seen # 0 /\ p.abort = 1 /\ c.index > 0
    <3>1. r = Ended(h, c, "aborted")
      BY <1>1, <2>1 DEF PassthroughUpdate
    <3>2. r.h = [h EXCEPT !.pt = [p EXCEPT !.state = 0]]
          /\ r.c = [c EXCEPT !.active = FALSE, !.status[c.goal] = "aborted"]
      BY <3>1 DEF Ended
    <3> QED
      BY <1>0, <1>1, <2>1, <3>2 DEF HandedOver
  <2>2. CASE ~(seen # 0 /\ p.abort = 1 /\ c.index > 0) /\ seen = 0 /\ c.index = 0
    <3>1. r = [h |-> [h EXCEPT !.pt.state = 6, !.pt.size = Points[c.goal]], c |-> c]
      BY <1>1, <2>2 DEF PassthroughUpdate
    <3>2. [h EXCEPT !.pt.state = 6, !.pt.size = Points[c.goal]]
          = [h EXCEPT !.pt = [p EXCEPT !.state = 6, !.size = Points[c.goal]]]
      BY HardwareIs DEF HardwareKeys
    <3> QED
      BY <1>1, <2>2, <3>1, <3>2 DEF HandedOver
  <2>3. CASE ~(seen # 0 /\ p.abort = 1 /\ c.index > 0) /\ seen = 1
    <3>1. r = HandOver(h, c)
      BY <1>1, <2>3 DEF PassthroughUpdate
    <3>2. CASE c.index < Points[c.goal]
      <4>1. r = [h |-> [h EXCEPT !.pt.point = <<c.goal, c.index + 1>>, !.pt.state = 2],
                 c |-> [c EXCEPT !.index = c.index + 1]]
        BY <3>1, <3>2 DEF HandOver
      <4>2. [h EXCEPT !.pt.point = <<c.goal, c.index + 1>>, !.pt.state = 2]
            = [h EXCEPT !.pt = [p EXCEPT !.point = <<c.goal, c.index + 1>>, !.state = 2]]
        BY HardwareIs DEF HardwareKeys
      <4> QED
        BY <1>1, <2>3, <3>2, <4>1, <4>2 DEF HandedOver
    <3>3. CASE ~(c.index < Points[c.goal]) /\ c.index = Points[c.goal]
      <4>1. r = [h |-> [h EXCEPT !.pt.state = 3], c |-> c]
        BY <3>1, <3>3 DEF HandOver
      <4>2. [h EXCEPT !.pt.state = 3] = [h EXCEPT !.pt = [p EXCEPT !.state = 3]]
        OBVIOUS
      <4> QED
        BY <1>1, <2>3, <3>3, <4>1, <4>2 DEF HandedOver
    <3>4. CASE ~(c.index < Points[c.goal]) /\ c.index # Points[c.goal]
      BY <3>1, <3>4 DEF HandOver, HandedOver
    <3> QED
      BY <3>2, <3>3, <3>4
  <2>4. CASE ~(seen # 0 /\ p.abort = 1 /\ c.index > 0) /\ seen = 5
    <3>1. PICK x \in Outcomes : r = Ended(h, c, x)
      BY <1>0, <1>1, <2>4 DEF PassthroughUpdate
    <3>2. /\ r.h = [h EXCEPT !.pt = [p EXCEPT !.state = 0]]
          /\ r.c = [c EXCEPT !.active = FALSE, !.status[c.goal] = x]
      BY <3>1 DEF Ended
    <3> QED
      BY <1>1, <2>4, <3>2 DEF HandedOver
  <2>5. CASE /\ ~(seen # 0 /\ p.abort = 1 /\ c.index > 0)
             /\ ~(seen = 0 /\ c.index = 0) /\ seen # 1 /\ seen # 5
    <3>1. r = [h |-> h, c |-> c]
      BY <1>1, <2>5 DEF PassthroughUpdate
    <3> QED
      BY <3>1 DEF HandedOver
  <2> QED
    BY <2>1, <2>2, <2>3, <2>4, <2>5
<1>2. CASE ~(c.goal # NoGoal /\ c.active)
  <2>0. r.c = c /\ r.h = CASE seen \notin {0, 5} -> [h EXCEPT !.pt.abort = 1]
                   [] seen = 5 -> [h EXCEPT !.pt.state = 0, !.pt.abort = 0]
                   [] OTHER -> h
    BY <1>2 DEF PassthroughUpdate
  <2>1. CASE seen \notin {0, 5}
    <3>1. r.h = [h EXCEPT !.pt = [p EXCEPT !.abort = 1]]
      BY <2>0, <2>1
    <3> QED
      BY <1>2, <2>0, <2>1, <3>1 DEF HandedOver
  <2>2. CASE seen = 5
    <3>1. r.h = [h EXCEPT !.pt.state = 0, !.pt.abort = 0]
      BY <2>0, <2>2
    <3>2. [h EXCEPT !.pt.state = 0, !.pt.abort = 0] = [h EXCEPT !.pt = [p EXCEPT !.state = 0, !.abort = 0]]
      BY HardwareIs DEF HardwareKeys
    <3> QED
      BY <1>2, <2>0, <2>2, <3>1, <3>2 DEF HandedOver
  <2>3. CASE seen = 0
    BY <2>0, <2>3 DEF HandedOver
  <2> QED
    BY <2>1, <2>2, <2>3
<1> QED
  BY <1>1, <1>2

LEMMA HandedOverTyped ==
  ASSUME NEW h \in Hardware, Sound(h.pt), NEW c \in Passthrough, NEW seen \in 0..6, NEW r,
         HandedOver(h, c, seen, r)
  PROVE  /\ r.h \in Hardware /\ Sound(r.h.pt) /\ r.c \in Passthrough
         /\ r.h.pt.state = 2 => r.h.pt.point \in GoalPoint \/ (r.h.pt.point = h.pt.point /\ h.pt.state = 2)
<1> DEFINE p == h.pt
<1>1. p \in PassthroughMembers /\ DOMAIN h = HardwareKeys
  BY HardwareIs
<1>2. ASSUME NEW q \in PassthroughMembers, r.h = [h EXCEPT !.pt = q]
      PROVE  r.h \in Hardware /\ r.h.pt = q
  BY <1>1, <1>2, HardwareIs DEF HardwareKeys
<1>n. 0 \in 0..6 /\ 6 \in 0..6 /\ 2 \in 0..6 /\ 3 \in 0..6 /\ 0 \in {0, 1} /\ 1 \in {0, 1}
  OBVIOUS
<1>3. \A q \in PassthroughMembers, i \in 0..6 : Sound(q) => LET s == [q EXCEPT !.state = i] IN
          s \in PassthroughMembers /\ Sound(s) /\ s.state = i /\ s.point = q.point
  <2> SUFFICES ASSUME NEW q \in PassthroughMembers, NEW i \in 0..6, Sound(q), NEW s, s = [q EXCEPT !.state = i]
               PROVE  s \in PassthroughMembers /\ Sound(s) /\ s.state = i /\ s.point = q.point
    OBVIOUS
  <2>1. s.state = i /\ s.point = q.point
    BY PassthroughFields
  <2> QED
    BY <2>1, OutcomesAre
<1>4. CASE r.c = c /\ r.h = h
  BY <1>4
<1>5. ASSUME c.goal # NoGoal, c.active, NEW x \in Outcomes, r.h = [h EXCEPT !.pt = [p EXCEPT !.state = 0]],
             r.c = [c EXCEPT !.active = FALSE, !.status[c.goal] = x]
      PROVE  r.h \in Hardware /\ Sound(r.h.pt) /\ r.c \in Passthrough /\ r.h.pt.state = 0
  <2>1. PICK d : d = [c EXCEPT !.active = FALSE]
    OBVIOUS
  <2>2. d \in Passthrough /\ d.goal = c.goal /\ r.c = [d EXCEPT !.status[c.goal] = x]
    BY <1>5, <2>1, PassthroughAre
  <2>3. r.c \in Passthrough
    <3>1. x \in {"none", "accepted", "succeeded", "aborted", "canceled"}
      BY <1>5 DEF Outcomes
    <3>2. [d EXCEPT !.status[c.goal] = x] \in Passthrough
      BY <2>2, <3>1, PassthroughAre
    <3> QED
      BY <2>2, <3>2
  <2>4. PICK s : s = [p EXCEPT !.state = 0]
    OBVIOUS
  <2>5. s \in PassthroughMembers /\ Sound(s) /\ s.state = 0
    BY <1>1, <1>3, <1>n, <2>4
  <2>6. r.h \in Hardware /\ r.h.pt = s
    BY <1>2, <1>5, <2>4, <2>5
  <2> QED
    BY <2>3, <2>5, <2>6
<1>6. CASE /\ c.goal # NoGoal /\ r.c = c
           /\ r.h = [h EXCEPT !.pt = [p EXCEPT !.state = 6, !.size = Points[c.goal]]]
  <2>1. Points[c.goal] \in Nat
    BY <1>6, PassthroughAre, GoalsAre DEF Handles
  <2>2. PICK s : s = [p EXCEPT !.size = Points[c.goal]]
    OBVIOUS
  <2>3. s \in PassthroughMembers
    BY <1>1, <2>1, <2>2, ZenonT(30) DEF PassthroughMembers
  <2>4. Sound(s)
    BY <1>1, <2>2, PassthroughFields DEF Sound
  <2>5. PICK t : t = [s EXCEPT !.state = 6]
    OBVIOUS
  <2>6. t \in PassthroughMembers /\ Sound(t) /\ t.state = 6
    BY <1>3, <1>n, <2>3, <2>4, <2>5
  <2>7. r.h = [h EXCEPT !.pt = t]
    BY <1>6, <2>2, <2>5
  <2>8. r.h \in Hardware /\ r.h.pt = t
    BY <1>2, <2>6, <2>7
  <2> QED
    BY <1>6, <2>6, <2>8
<1>7. CASE /\ c.goal # NoGoal /\ r.c = [c EXCEPT !.index = c.index + 1]
           /\ r.h = [h EXCEPT !.pt = [p EXCEPT !.point = <<c.goal, c.index + 1>>, !.state = 2]]
  <2>1. PICK g \in Goals, i \in Nat : g = c.goal /\ i = c.index + 1
    <3>1. c.goal \in Goals
      BY <1>7, PassthroughAre DEF Handles
    <3>2. c.index + 1 \in Nat
      BY PassthroughAre
    <3> QED
      BY <3>1, <3>2
  <2>2. <<g, i>> \in GoalPoint /\ <<g, i>> \in Seq(Nat)
    BY GoalsAre DEF GoalPoint
  <2>3. PICK s : s = [p EXCEPT !.point = <<g, i>>]
    OBVIOUS
  <2>4. s \in PassthroughMembers
    BY <1>1, <2>2, <2>3, ZenonT(30) DEF PassthroughMembers
  <2>5. Sound(s) /\ s.point = <<g, i>>
    BY <1>1, <2>3, PassthroughFields DEF Sound
  <2>6. PICK t : t = [s EXCEPT !.state = 2]
    OBVIOUS
  <2>7. t \in PassthroughMembers /\ Sound(t) /\ t.state = 2 /\ t.point = <<g, i>>
    BY <1>3, <1>n, <2>4, <2>5, <2>6
  <2>8. r.h = [h EXCEPT !.pt = t]
    BY <1>7, <2>1, <2>3, <2>6
  <2>9. r.h \in Hardware /\ r.h.pt = t
    BY <1>2, <2>7, <2>8
  <2>10. r.c \in Passthrough
    <3>1. r.c = [c EXCEPT !.index = i]
      BY <1>7, <2>1
    <3> QED
      BY <3>1, PassthroughAre
  <2> QED
    BY <2>2, <2>7, <2>9, <2>10
<1>8. CASE r.c = c /\ r.h = [h EXCEPT !.pt = [p EXCEPT !.state = 3]]
  <2>1. PICK s : s = [p EXCEPT !.state = 3]
    OBVIOUS
  <2>2. s \in PassthroughMembers /\ Sound(s) /\ s.state = 3
    BY <1>1, <1>3, <1>n, <2>1
  <2>3. r.h \in Hardware /\ r.h.pt = s
    BY <1>2, <1>8, <2>1, <2>2
  <2> QED
    BY <1>8, <2>2, <2>3
<1>9. CASE r.c = c /\ r.h = [h EXCEPT !.pt = [p EXCEPT !.abort = 1]]
  <2>1. PICK s : s = [p EXCEPT !.abort = 1]
    OBVIOUS
  <2>2. s \in PassthroughMembers /\ Sound(s) /\ s.point = p.point /\ s.state = p.state
    BY <1>1, <1>n, <2>1, OutcomesAre, PassthroughFields
  <2>3. r.h \in Hardware /\ r.h.pt = s
    BY <1>2, <1>9, <2>1, <2>2
  <2> QED
    BY <1>9, <2>2, <2>3
<1>10. CASE r.c = c /\ r.h = [h EXCEPT !.pt = [p EXCEPT !.state = 0, !.abort = 0]]
  <2>1. PICK s : s = [p EXCEPT !.abort = 0]
    OBVIOUS
  <2>2. s \in PassthroughMembers /\ Sound(s)
    BY <1>1, <1>n, <2>1, OutcomesAre
  <2>3. PICK t : t = [s EXCEPT !.state = 0]
    OBVIOUS
  <2>4. t \in PassthroughMembers /\ Sound(t) /\ t.state = 0
    BY <1>3, <1>n, <2>2, <2>3
  <2>5. [p EXCEPT !.state = 0, !.abort = 0] = t
    BY <1>1, <2>1, <2>3, PassthroughFields
  <2>6. r.h \in Hardware /\ r.h.pt = t
    BY <1>2, <1>10, <2>4, <2>5
  <2> QED
    BY <1>10, <2>4, <2>6
<1>11. \/ r.c = c /\ r.h = h
       \/ /\ c.goal # NoGoal /\ c.active
          /\ \E x \in Outcomes : /\ r.h = [h EXCEPT !.pt = [p EXCEPT !.state = 0]]
                                 /\ r.c = [c EXCEPT !.active = FALSE, !.status[c.goal] = x]
       \/ /\ c.goal # NoGoal /\ r.c = c
          /\ r.h = [h EXCEPT !.pt = [p EXCEPT !.state = 6, !.size = Points[c.goal]]]
       \/ /\ c.goal # NoGoal /\ r.c = [c EXCEPT !.index = c.index + 1]
          /\ r.h = [h EXCEPT !.pt = [p EXCEPT !.point = <<c.goal, c.index + 1>>, !.state = 2]]
       \/ r.c = c /\ r.h = [h EXCEPT !.pt = [p EXCEPT !.state = 3]]
       \/ r.c = c /\ r.h = [h EXCEPT !.pt = [p EXCEPT !.abort = 1]]
       \/ r.c = c /\ r.h = [h EXCEPT !.pt = [p EXCEPT !.state = 0, !.abort = 0]]
  BY DEF HandedOver
<1> QED
  <2>1. CASE c.goal # NoGoal /\ c.active
          /\ \E x \in Outcomes : /\ r.h = [h EXCEPT !.pt = [p EXCEPT !.state = 0]]
                                 /\ r.c = [c EXCEPT !.active = FALSE, !.status[c.goal] = x]
    <3>1. PICK x \in Outcomes : /\ r.h = [h EXCEPT !.pt = [p EXCEPT !.state = 0]]
                                /\ r.c = [c EXCEPT !.active = FALSE, !.status[c.goal] = x]
      BY <2>1
    <3>2. r.h \in Hardware /\ Sound(r.h.pt) /\ r.c \in Passthrough /\ r.h.pt.state = 0
      BY <1>5, <2>1, <3>1
    <3> QED
      BY <3>2
  <2> QED
    BY <1>4, <1>6, <1>7, <1>8, <1>9, <1>10, <1>11, <2>1

\* The members keep their types, and a point is offered only by the state
\* that tells so.
Members ==
    /\ hw \in Hardware /\ Sound(hw.pt)
    /\ DOMAIN rt = {"phase", "seen"} /\ rt.seen \in 0..6
    /\ hw.pt.state = 2 \/ rt.seen = 2 => hw.pt.point \in GoalPoint
    /\ ptc \in Passthrough /\ tcc \in ToolContact /\ fdc \in Freedrive /\ fmc \in ForceMode

LEMMA DeactivateIs ==
  ASSUME NEW h \in Hardware, Sound(h.pt), NEW c \in Passthrough, NEW r, r = PassthroughDeactivate(h, c)
  PROVE  /\ r.h \in Hardware /\ Sound(r.h.pt) /\ r.c \in Passthrough
         /\ r.h.pt.point = h.pt.point /\ r.h.pt.state \in {h.pt.state, 0}
         /\ ~c.active => r.c = c /\ Swapped(h, r.h)
<1> DEFINE p == h.pt
<1>0. p \in PassthroughMembers /\ DOMAIN h = HardwareKeys
  BY HardwareIs
<1>n. 1 \in {0, 1} /\ 0 \in 0..6 /\ TRUE \in BOOLEAN
  OBVIOUS
<1>1. PICK q : q = [p EXCEPT !.abort = 1]
  OBVIOUS
<1>2. /\ q \in PassthroughMembers /\ Sound(q) /\ q.state = p.state /\ q.point = p.point
      /\ q.size = p.size /\ q.received = p.received /\ q.sent = p.sent /\ q.started = p.started /\ q.late = p.late
  BY <1>0, <1>1, <1>n, OutcomesAre, PassthroughFields
<1>3. PICK a : a = [h EXCEPT !.pt = q]
  OBVIOUS
<1>4. a = [h EXCEPT !.pt.abort = 1] /\ a \in Hardware /\ a.pt = q /\ a.crashed = h.crashed
  BY <1>0, <1>1, <1>2, <1>3, HardwareIs DEF HardwareKeys
<1>5. CASE ~c.active
  <2>1. r = [h |-> a, c |-> c]
    BY <1>4, <1>5 DEF PassthroughDeactivate
  <2>2. r.h = a /\ r.c = c
    BY <2>1
  <2> QED
    BY <1>2, <1>4, <2>2 DEF Swapped
<1>6. CASE c.active /\ c.goal = NoGoal
  <2>1. r = [h |-> [a EXCEPT !.crashed = TRUE], c |-> c]
    BY <1>4, <1>6 DEF PassthroughDeactivate
  <2>2. [a EXCEPT !.crashed = TRUE] \in Hardware /\ [a EXCEPT !.crashed = TRUE].pt = q
    BY <1>4, <1>n, HardwareIs DEF HardwareKeys
  <2>3. PICK b : b = [a EXCEPT !.crashed = TRUE]
    OBVIOUS
  <2>4. r.h = b /\ r.c = c
    BY <2>1, <2>3
  <2> QED
    BY <1>2, <1>6, <2>2, <2>3, <2>4
<1>7. CASE c.active /\ c.goal # NoGoal
  <2>1. r = [h |-> [a EXCEPT !.pt.state = 0],
             c |-> [c EXCEPT !.goal = NoGoal, !.active = FALSE, !.status[c.goal] = "aborted"]]
    BY <1>4, <1>7 DEF PassthroughDeactivate
  <2>2. PICK s : s = [q EXCEPT !.state = 0]
    OBVIOUS
  <2>3. s \in PassthroughMembers /\ Sound(s) /\ s.state = 0 /\ s.point = p.point
    BY <1>2, <1>n, <2>2, OutcomesAre, PassthroughFields
  <2>4. [a EXCEPT !.pt.state = 0] = [a EXCEPT !.pt = s]
    BY <1>4, <2>2
  <2>5. [a EXCEPT !.pt = s] \in Hardware /\ [a EXCEPT !.pt = s].pt = s
    BY <1>4, <2>3, HardwareIs DEF HardwareKeys
  <2>6. PICK d : d = [c EXCEPT !.goal = NoGoal]
    OBVIOUS
  <2>7. PICK e : e = [d EXCEPT !.active = FALSE]
    OBVIOUS
  <2>8. NoGoal \in Handles /\ FALSE \in BOOLEAN
    BY DEF Handles
  <2>9. d \in Passthrough
    BY <2>6, <2>8, PassthroughAre
  <2>10. e \in Passthrough
    BY <2>7, <2>8, <2>9, PassthroughAre
  <2>11. "aborted" \in {"none", "accepted", "succeeded", "aborted", "canceled"}
    OBVIOUS
  <2>12. [e EXCEPT !.status[c.goal] = "aborted"] \in Passthrough
    BY <2>10, <2>11, PassthroughAre
  <2>13. [c EXCEPT !.goal = NoGoal, !.active = FALSE, !.status[c.goal] = "aborted"]
         = [e EXCEPT !.status[c.goal] = "aborted"]
    BY <2>6, <2>7
  <2>14. PICK k : k = [a EXCEPT !.pt = s]
    OBVIOUS
  <2>15. r.h = k /\ r.c = [e EXCEPT !.status[c.goal] = "aborted"]
    BY <2>1, <2>4, <2>13, <2>14
  <2> QED
    BY <1>7, <2>3, <2>5, <2>12, <2>14, <2>15
<1> QED
  BY <1>5, <1>6, <1>7

LEMMA PerformApart ==
  ASSUME NEW s, WholeSides(s), DOMAIN s.n = NetKeys, Sound(s.h.pt)
  PROVE  /\ Apart(s, PerformSwitch(s))
         /\ "passthrough" \notin s.h.stop => PerformSwitch(s).h.pt.vec = s.h.pt.vec
<1>1. PICK t : t = PerformStops(s)
  OBVIOUS
<1>2. PICK u : u = PerformStarts(t)
  OBVIOUS
<1>3. Apart(s, t) /\ DOMAIN t.n = NetKeys /\ Sound(t.h.pt) /\ WholeSides(t)
  BY <1>1, StopsApart, ApartIs
<1>4. Apart(t, u) /\ u.h.pt.vec = t.h.pt.vec
  BY <1>2, <1>3, StartsApart
<1>5. Apart(s, u) /\ WholeSides(u)
  BY <1>3, <1>4, ApartIs DEF Apart
<1>6. PICK M : M = Performed(s.h.modes, s.h.start, s.h.stop)
  OBVIOUS
<1>7. M \in SUBSET Modes
  <2>1. s.h.modes \in SUBSET Modes /\ s.h.start \in SUBSET Modes
    BY DEF WholeSides, Hardware
  <2>2. \A x, y : x \in SUBSET Modes /\ y \in SUBSET Modes => JointStart(x, y) \in SUBSET Modes
    BY DEF JointStart, JointModes, Modes
  <2> QED
    BY <1>6, <2>1, <2>2 DEF Performed
<1>8. PICK k : k = [u.h EXCEPT !.modes = M]
  OBVIOUS
<1>9. PICK l : l = [k EXCEPT !.start = {}]
  OBVIOUS
<1>10. PICK m : m = [l EXCEPT !.stop = {}]
  OBVIOUS
<1>11. {} \in SUBSET Modes
  OBVIOUS
<1>12. Beside(u.h, k) /\ k \in Hardware
  BY <1>5, <1>7, <1>8, BesideIs DEF WholeSides, Beside
<1>13. Beside(k, l) /\ l \in Hardware
  BY <1>9, <1>11, <1>12, BesideIs DEF Beside
<1>14. Beside(l, m)
  BY <1>10, <1>11, <1>13, BesideIs
<1>15. PICK v : v = PerformSwitch(s)
  OBVIOUS
<1>16. v = [u EXCEPT !.h.modes = M, !.h.start = {}, !.h.stop = {}]
  BY <1>1, <1>2, <1>6, <1>15 DEF PerformSwitch
<1>17. v.h = m /\ v.n = u.n /\ DOMAIN v = {"h", "n"}
  BY <1>5, <1>8, <1>9, <1>10, <1>16 DEF WholeSides
<1>18. Beside(u.h, v.h)
  BY <1>12, <1>13, <1>14, <1>17, BesideOn
<1>19. Apart(s, v)
  BY <1>5, <1>17, <1>18 DEF Apart, WholeSides, Beside, Swapped
<1>20. v.h.pt.vec = t.h.pt.vec
  BY <1>4, <1>18 DEF Beside
<1> QED
  BY <1>1, <1>15, <1>19, <1>20, StopsApart

LEMMA SwitchIs ==
  ASSUME Members, DOMAIN net = NetKeys, Switch
  PROVE  /\ Members' /\ SameLines(net, net')
         /\ rt' = [phase |-> "write", seen |-> hw'.pt.state]
         /\ "passthrough" \notin cm.off \/ ~ptc.active => ptc' = ptc /\ Swapped(hw, hw')
         /\ "passthrough" \notin cm.off \cup hw.stop => hw'.pt.vec = hw.pt.vec
<1> DEFINE s0 == [h |-> hw, n |-> net]
           s == PerformSwitch(s0)
           p == IF "passthrough" \in cm.off THEN PassthroughDeactivate(s.h, ptc)
                ELSE [h |-> s.h, c |-> ptc]
           m == IF "force" \in cm.off THEN ForceModeDeactivate(p.h) ELSE p.h
           t == IF "tool_contact" \in cm.on THEN ToolContactActivate(m) ELSE m
           f == IF "freedrive" \in cm.on THEN FreedriveActivate(t, fdc)
                ELSE [h |-> t, c |-> IF "freedrive" \in cm.off THEN FreedriveDeactivate(fdc) ELSE fdc]
<1>1. /\ hw' = f.h /\ net' = s.n /\ rt' = [rt EXCEPT !.seen = f.h.pt.state] /\ rt.phase = "write"
      /\ ptc' = p.c /\ fdc' = f.c
      /\ tcc' = IF "tool_contact" \in cm.off THEN ToolContactDeactivate(tcc) ELSE tcc
      /\ fmc' = IF "force" \in cm.on THEN ForceModeActivate(fmc) ELSE fmc
  BY DEF Switch
<1>2. WholeSides(s0) /\ s0.h = hw /\ s0.n = net
  BY DEF WholeSides, Members
<1>3. Apart(s0, s) /\ ("passthrough" \notin hw.stop => s.h.pt.vec = hw.pt.vec)
  BY <1>2, PerformApart DEF Members
<1>4. s.h \in Hardware /\ SameLines(net, s.n) /\ Swapped(hw, s.h)
  BY <1>2, <1>3 DEF Apart, WholeSides
<1> HIDE DEF s
<1>5. /\ p.h \in Hardware /\ Sound(p.h.pt) /\ p.c \in Passthrough
      /\ p.h.pt.point = s.h.pt.point /\ p.h.pt.state \in {s.h.pt.state, 0}
      /\ "passthrough" \notin cm.off \/ ~ptc.active => p.c = ptc /\ Swapped(s.h, p.h)
      /\ "passthrough" \notin cm.off => p.h.pt.vec = s.h.pt.vec
  <2>1. Sound(s.h.pt)
    BY <1>4 DEF Swapped
  <2>2. CASE "passthrough" \in cm.off
    <3>1. PICK r : r = PassthroughDeactivate(s.h, ptc)
      OBVIOUS
    <3>2. p = r
      BY <2>2, <3>1
    <3> QED
      BY <1>4, <2>1, <2>2, <3>1, <3>2, DeactivateIs DEF Members
  <2>3. CASE "passthrough" \notin cm.off
    <3>1. p.h = s.h /\ p.c = ptc
      BY <2>3
    <3> QED
      BY <1>4, <2>1, <2>3, <3>1 DEF Members, Swapped
  <2> QED
    BY <2>2, <2>3
<1> HIDE DEF p
<1>6. Beside(p.h, m)
  BY <1>5, ForceModeTyped, BesideIs DEF Members
<1>7. Beside(p.h, t)
  <2>1. m \in Hardware
    BY <1>6 DEF Beside
  <2> HIDE DEF m
  <2>2. Beside(m, t)
    BY <2>1, ToolContactTyped, BesideIs DEF Members
  <2> QED
    BY <1>6, <2>2, BesideOn
<1>8. Beside(p.h, f.h) /\ f.c \in Freedrive
  <2>1. t \in Hardware
    BY <1>7 DEF Beside
  <2> HIDE DEF t
  <2>2. Beside(t, f.h) /\ f.c \in Freedrive
    BY <2>1, FreedriveTyped, BesideIs DEF Members
  <2> QED
    BY <1>7, <2>2, BesideOn
<1> HIDE DEF f
<1>9. tcc' \in ToolContact /\ fmc' \in ForceMode
  BY <1>1, <1>4, ToolContactTyped, ForceModeTyped DEF Members
<1>10. hw' \in Hardware /\ hw'.pt = p.h.pt /\ hw'.crashed = p.h.crashed
  BY <1>1, <1>8 DEF Beside
<1>11. rt' = [phase |-> "write", seen |-> hw'.pt.state]
  BY <1>1 DEF Members
<1>12. hw'.pt.state \in 0..6
  BY <1>10, HardwareIs, PassthroughFields
<1>13. hw'.pt.state = 2 => hw'.pt.point \in GoalPoint
  BY <1>4, <1>5, <1>10 DEF Swapped, Members
<1>14. Members'
  BY <1>1, <1>5, <1>8, <1>9, <1>10, <1>11, <1>12, <1>13 DEF Members
<1>15. "passthrough" \notin cm.off \/ ~ptc.active => ptc' = ptc /\ Swapped(hw, hw')
  BY <1>1, <1>4, <1>5, <1>10 DEF Swapped
<1> QED
  BY <1>1, <1>3, <1>4, <1>5, <1>10, <1>11, <1>14, <1>15

LEMMA UpdateIs ==
  ASSUME Members, Update
  PROVE  /\ Members' /\ net' = net /\ rt.phase = "update"
         /\ rt' = [phase |-> "write", seen |-> hw'.pt.state]
         /\ \E seen \in {rt.seen, hw.pt.state} : \E r :
               /\ HandedOver(hw, ptc, seen, r) /\ ("passthrough" \notin cm.active => r.h = hw /\ r.c = ptc)
               /\ Beside(r.h, hw') /\ ptc' = r.c
<1> DEFINE P(seen) == IF "passthrough" \in cm.active THEN PassthroughUpdate(hw, ptc, seen)
                      ELSE {[h |-> hw, c |-> ptc]}
           T(p) == IF "tool_contact" \in cm.active THEN ToolContactUpdate(p.h, tcc)
                   ELSE [h |-> p.h, c |-> tcc]
           F(p) == IF "freedrive" \in cm.active THEN FreedriveUpdate(T(p).h, fdc)
                   ELSE [h |-> T(p).h, c |-> fdc]
           M(p) == IF "force" \in cm.active THEN ForceModeUpdate(F(p).h, fmc)
                   ELSE [h |-> F(p).h, c |-> fmc]
<1>0. rt.phase = "update" /\ net' = net
  BY DEF Update
<1>s. PICK seen \in {rt.seen, hw.pt.state} : \E p \in P(seen) :
          /\ hw' = M(p).h /\ ptc' = p.c /\ tcc' = T(p).c /\ fdc' = F(p).c /\ fmc' = M(p).c
          /\ rt' = [phase |-> "write", seen |-> M(p).h.pt.state]
  <2>1. \E seen \in {rt.seen, hw.pt.state} : \E p \in P(seen) :
          /\ hw' = M(p).h /\ ptc' = p.c /\ tcc' = T(p).c /\ fdc' = F(p).c /\ fmc' = M(p).c
          /\ rt' = [phase |-> "write", seen |-> M(p).h.pt.state]
    BY DEF Update
  <2> HIDE DEF P, T, F, M
  <2> QED
    BY <2>1
<1>1. PICK p \in P(seen) :
          /\ hw' = M(p).h /\ ptc' = p.c /\ tcc' = T(p).c /\ fdc' = F(p).c /\ fmc' = M(p).c
          /\ rt' = [phase |-> "write", seen |-> M(p).h.pt.state]
  <2> HIDE DEF P, T, F, M
  <2> QED
    BY <1>s
<1>2. PICK h, c : h = p.h /\ c = p.c
  OBVIOUS
<1>3. seen \in 0..6
  BY HardwareIs, PassthroughFields DEF Members
<1>4. HandedOver(hw, ptc, seen, p) /\ ("passthrough" \notin cm.active => h = hw /\ c = ptc)
  <2>1. CASE "passthrough" \in cm.active
    <3>1. p \in PassthroughUpdate(hw, ptc, seen)
      BY <2>1
    <3> QED
      BY <2>1, <3>1, HandedOverIs DEF Members
  <2>2. CASE "passthrough" \notin cm.active
    <3>1. p = [h |-> hw, c |-> ptc]
      BY <2>2
    <3> QED
      BY <1>2, <3>1 DEF HandedOver
  <2> QED
    BY <2>1, <2>2
<1>5. /\ h \in Hardware /\ Sound(h.pt) /\ c \in Passthrough
      /\ h.pt.state = 2 => h.pt.point \in GoalPoint
  <2>1. /\ p.h \in Hardware /\ Sound(p.h.pt) /\ p.c \in Passthrough
        /\ p.h.pt.state = 2 => p.h.pt.point \in GoalPoint \/ (p.h.pt.point = hw.pt.point /\ hw.pt.state = 2)
    BY <1>3, <1>4, HandedOverTyped DEF Members
  <2> QED
    BY <1>2, <2>1 DEF Members
<1>6. Beside(h, T(p).h) /\ T(p).c \in ToolContact
  BY <1>2, <1>5, ToolContactTyped, BesideIs DEF Members
<1>7. T(p).h \in Hardware
  BY <1>6 DEF Beside
<1>8. PICK a : a = T(p).h
  OBVIOUS
<1>9. Beside(a, F(p).h) /\ F(p).c \in Freedrive
  <2>1. F(p) = IF "freedrive" \in cm.active THEN FreedriveUpdate(a, fdc) ELSE [h |-> a, c |-> fdc]
    BY <1>8
  <2> HIDE DEF F, T
  <2> QED
    BY <1>7, <1>8, <2>1, FreedriveTyped, BesideIs DEF Members
<1>10. PICK b : b = F(p).h
  OBVIOUS
<1>11. Beside(b, M(p).h) /\ M(p).c \in ForceMode
  <2>1. M(p) = IF "force" \in cm.active THEN ForceModeUpdate(b, fmc) ELSE [h |-> b, c |-> fmc]
    BY <1>10
  <2> HIDE DEF F, T, M
  <2> QED
    BY <1>9, <1>10, <2>1, ForceModeTyped, BesideIs DEF Members, Beside
<1> HIDE DEF P, T, F, M
<1>12. Beside(h, hw')
  BY <1>1, <1>6, <1>8, <1>9, <1>10, <1>11, BesideOn
<1>13. hw' \in Hardware /\ hw'.pt = h.pt /\ rt' = [phase |-> "write", seen |-> hw'.pt.state]
  BY <1>1, <1>12 DEF Beside
<1>14. hw'.pt.state \in 0..6
  BY <1>13, HardwareIs, PassthroughFields
<1>15. Members'
  BY <1>1, <1>2, <1>5, <1>6, <1>9, <1>11, <1>13, <1>14 DEF Members
<1>16. Beside(p.h, hw') /\ ("passthrough" \notin cm.active => p.h = hw /\ p.c = ptc)
  BY <1>2, <1>4, <1>12
<1> QED
  BY <1>0, <1>1, <1>4, <1>13, <1>15, <1>16

\* One motion command: for the passthrough mode it is followed by what the
\* transfer makes of this cycle.
Followed(s, t, seen) ==
    /\ DOMAIN t = {"h", "n"}
    /\ \/ /\ t.h = s.h
          /\ \E c \in Commands : /\ t.n = SendReverse(s.n, c) /\ c.arg # "start" /\ c.arg # "cancel"
                                 /\ s.h.modes \subseteq {"passthrough"} => c.mode = "idle"
          /\ s.h.modes # {"passthrough"}
       \/ /\ "passthrough" \in s.h.modes
          /\ \E u : /\ u.h = s.h /\ u.n = SendReverse(s.n, Command("forward", "noop", 0))
                    /\ WholeSides(u) /\ Transferred(u, t, seen)

LEMMA MotionFollows ==
  ASSUME NEW s, WholeSides(s), Sound(s.h.pt), NEW seen \in 0..6
  PROVE  Followed(s, Motion(s, seen), seen)
<1> DEFINE h == s.h
           t == Motion(s, seen)
<1>0. DOMAIN t = {"h", "n"}
  BY MotionIs, HardwareIs DEF WholeSides, Sides, Step
<1>a. PICK e : e = ""
  BY Zenon
<1>b. PICK a, b, c, d, f : /\ a = Tell(s, "servoj", e, 0) /\ b = Tell(s, "speedj", e, 0)
                           /\ c = Tell(s, "torque", e, 0) /\ d = Tell(s, "freedrive", "noop", 0)
                           /\ f = Tell(s, "idle", e, 0)
  OBVIOUS
<1>c. PICK g : g = CheckPassthrough(Tell(s, "forward", "noop", 0), seen)
  OBVIOUS
<1>d. t = CASE "position" \in h.modes -> a
            [] "velocity" \in h.modes -> b
            [] "effort" \in h.modes -> c
            [] h.modes \cap JointModes = {} /\ "freedrive" \in h.modes /\ h.fd.activated -> d
            [] h.modes \cap JointModes = {} /\ "passthrough" \in h.modes -> g
            [] OTHER -> f
  BY <1>a, <1>b, <1>c, Zenon DEF Motion
<1> HIDE DEF t
<1>e. /\ t \in {a, b, c, d, f} \/ (t = g /\ "passthrough" \in h.modes)
      /\ h.modes = {"passthrough"} => t = g
      /\ h.modes = {} => t = f
  <2>1. t \in {a, b, c, d, f} \/ (t = g /\ "passthrough" \in h.modes)
    BY <1>d
  <2>2. ASSUME h.modes \subseteq {"passthrough"}
        PROVE  /\ "position" \notin h.modes /\ "velocity" \notin h.modes /\ "effort" \notin h.modes
               /\ "freedrive" \notin h.modes /\ h.modes \cap JointModes = {}
    BY <2>2 DEF JointModes
  <2>3. h.modes = {"passthrough"} => t = g
    BY <1>d, <2>2
  <2>4. h.modes = {} => t = f
    BY <1>d, <2>2
  <2> QED
    BY <2>1, <2>3, <2>4
<1>1. CASE t = g /\ "passthrough" \in h.modes
  <2>1. PICK u : u = Tell(s, "forward", "noop", 0)
    OBVIOUS
  <2>2. t = CheckPassthrough(u, seen)
    BY <1>1, <1>c, <2>1
  <2>3. u.h = s.h /\ u.n = SendReverse(s.n, Command("forward", "noop", 0)) /\ WholeSides(u)
    BY <2>1 DEF Tell, WholeSides
  <2>4. Transferred(u, t, seen)
    BY <2>2, <2>3, CheckIs
  <2> QED
    BY <1>0, <1>1, <2>3, <2>4 DEF t, Followed
<1>2. CASE ~(t = g /\ "passthrough" \in h.modes)
  <2>1. PICK modes : modes = {"servoj", "speedj", "torque", "freedrive", "idle"}
    OBVIOUS
  <2>2. t \in {a, b, c, d, f} /\ h.modes # {"passthrough"} /\ (h.modes = {} => t = f)
    BY <1>2, <1>e
  <2>3. PICK mode \in modes, arg \in {e, "noop"} :
            /\ t = Tell(s, mode, arg, 0) /\ (h.modes \subseteq {"passthrough"} => mode = "idle" /\ arg = e)
    <3>1. \A m \in modes, n \in {e, "noop"} : t = Tell(s, m, n, 0)
              => (\E mode \in modes, arg \in {e, "noop"} : t = Tell(s, mode, arg, 0))
      OBVIOUS
    <3>2. h.modes \subseteq {"passthrough"} => h.modes = {}
      BY <2>2
    <3> QED
      BY <1>b, <2>1, <2>2, <3>1, <3>2
  <2>4. mode \in ControlModes
    BY <2>1, <2>3 DEF ControlModes
  <2>5. arg \in Args /\ arg # "start" /\ arg # "cancel"
    <3>1. e \in Args /\ "noop" \in Args /\ e # "start" /\ e # "cancel"
      BY <1>a, ArgsAre, Zenon
    <3> QED
      BY <2>3, <3>1
  <2>6. PICK k \in Commands : k = Command(mode, arg, 0) /\ k.mode = mode /\ k.arg = arg
    <3>1. Command(mode, arg, 0) \in Commands
      BY <2>4, <2>5, CommandIs
    <3> QED
      BY <3>1 DEF Command
  <2>7. t.h = s.h /\ t.n = SendReverse(s.n, k)
    <3>1. t = [s EXCEPT !.n = SendReverse(s.n, k)]
      BY <2>3, <2>6 DEF Tell
    <3> QED
      BY <3>1 DEF WholeSides
  <2> QED
    BY <1>0, <2>2, <2>3, <2>5, <2>6, <2>7 DEF t, Followed
<1> QED
  BY <1>1, <1>2 DEF t

\* A transfer never asks for a point: the controller does.
LEMMA NotOffered ==
  ASSUME NEW s, WholeSides(s), NEW t, NEW seen, Transferred(s, t, seen)
  PROVE  t.h.pt.state = 2 => s.h.pt.state = 2
<1> DEFINE p == s.h.pt
<1>1. p \in PassthroughMembers /\ DOMAIN s.h = HardwareKeys
  BY HardwareIs DEF WholeSides
<1>2. CASE t.h = s.h
  BY <1>2
<1>3. ASSUME NEW q, q.state = 2 => p.state = 2, t.h = [s.h EXCEPT !.pt = q]
      PROVE  t.h.pt.state = 2 => s.h.pt.state = 2
  <2>1. t.h.pt = q
    BY <1>1, <1>3 DEF HardwareKeys
  <2> QED
    BY <1>3, <2>1
<1>4. CASE t.h = [s.h EXCEPT !.crashed = TRUE]
  <2>1. t.h.pt = p
    BY <1>1, <1>4 DEF HardwareKeys
  <2> QED
    BY <2>1
<1>5. Emptied(p).state = 1 /\ Complete(p).state = 4 /\ [p EXCEPT !.vec = <<>>].state = p.state
  BY <1>1, PassthroughFields DEF Emptied, Complete
<1>6. \A begun : Taken(p, begun).state = 1
  BY <1>1, PassthroughFields DEF Taken
<1>7. Emptied(p).state # 2 /\ Complete(p).state # 2 /\ \A begun : Taken(p, begun).state # 2
  BY <1>5, <1>6
<1> QED
  BY <1>2, <1>3, <1>4, <1>5, <1>7 DEF Transferred

LEMMA MotionTyped ==
  ASSUME NEW s, WholeSides(s), Sound(s.h.pt), NEW seen \in 0..6, Lines(s.n, GoalPoint),
         seen = 2 => s.h.pt.point \in GoalPoint, NEW t, t = Motion(s, seen)
  PROVE  /\ WholeSides(t) /\ Sound(t.h.pt) /\ t.h.pt.point = s.h.pt.point /\ Lines(t.n, GoalPoint)
         /\ t.h.pt.state = 2 => s.h.pt.state = 2
<1>0. Followed(s, t, seen)
  BY MotionFollows
<1>1. CASE t.h = s.h /\ \E c \in Commands : t.n = SendReverse(s.n, c)
  BY <1>0, <1>1, ReverseIs DEF WholeSides, Followed
<1>2. CASE \E u : /\ u.h = s.h /\ u.n = SendReverse(s.n, Command("forward", "noop", 0))
                 /\ WholeSides(u) /\ Transferred(u, t, seen)
  <2>1. PICK u : /\ u.h = s.h /\ u.n = SendReverse(s.n, Command("forward", "noop", 0))
                 /\ WholeSides(u) /\ Transferred(u, t, seen)
    BY <1>2
  <2>2. Command("forward", "noop", 0) \in Commands
    <3>1. "forward" \in ControlModes /\ "noop" \in Args
      BY ArgsAre, Zenon DEF ControlModes
    <3> QED
      BY <3>1, CommandIs
  <2>3. Lines(u.n, GoalPoint)
    BY <2>1, <2>2, ReverseIs
  <2>4. /\ t.h \in Hardware /\ Sound(t.h.pt) /\ t.h.pt.point = u.h.pt.point
        /\ Lines(t.n, GoalPoint)
    BY <2>1, <2>3, TransferredIs
  <2>5. t.h.pt.state = 2 => u.h.pt.state = 2
    BY <2>1, NotOffered
  <2> QED
    BY <1>0, <2>1, <2>4, <2>5 DEF WholeSides, Followed
<1> QED
  BY <1>0, <1>1, <1>2 DEF Followed

LEMMA WriteIs ==
  ASSUME Members, Lines(net, GoalPoint), Write
  PROVE  /\ Members' /\ Lines(net', GoalPoint)
         /\ rt.phase = "write" /\ rt' = [phase |-> "read", seen |-> 0] /\ ptc' = ptc
         /\ \/ hw' = hw /\ net' = net /\ ~MaySend
            \/ MaySend /\ \E seen \in {rt.seen, hw.pt.state} :
                  Aside(Motion([h |-> hw, n |-> net], seen), [h |-> hw', n |-> net'])
<1> DEFINE s == [h |-> hw, n |-> net]
<1>1. PICK seen \in {rt.seen, hw.pt.state} :
          /\ hw' = (IF MaySend THEN Written(s, seen) ELSE s).h
          /\ net' = (IF MaySend THEN Written(s, seen) ELSE s).n
  BY DEF Write
<1>2. /\ rt.phase = "write" /\ rt' = [phase |-> "read", seen |-> 0]
      /\ ptc' = ptc /\ tcc' = tcc /\ fdc' = fdc /\ fmc' = fmc
  BY DEF Write, ctrls
<1>3. 0 \in 0..6 /\ 0 # 2
  OBVIOUS
<1>4. CASE ~MaySend
  <2>1. hw' = hw /\ net' = net
    BY <1>1, <1>4
  <2>2. Members'
    BY <1>2, <1>3, <2>1 DEF Members
  <2> QED
    BY <1>2, <1>4, <2>1, <2>2
<1>5. CASE MaySend
  <2>1. PICK t : t = Motion(s, seen)
    OBVIOUS
  <2>2. WholeSides(s) /\ s.h = hw /\ s.n = net
    BY DEF WholeSides, Members
  <2>3. seen \in 0..6 /\ (seen = 2 => hw.pt.point \in GoalPoint)
    BY HardwareIs, PassthroughFields DEF Members
  <2>4. /\ WholeSides(t) /\ Sound(t.h.pt) /\ t.h.pt.point = hw.pt.point /\ Lines(t.n, GoalPoint)
        /\ t.h.pt.state = 2 => hw.pt.state = 2
    BY <2>1, <2>2, <2>3, MotionTyped DEF Members
  <2>5. PICK u : u = ForceControl(t)
    OBVIOUS
  <2>6. Aside(t, u) /\ WholeSides(u) /\ DOMAIN u.n = NetKeys
    BY <2>4, <2>5, ForceAside DEF Lines, Aside, SameLines
  <2>7. PICK v : v = Contact(u)
    OBVIOUS
  <2>8. Aside(u, v) /\ WholeSides(v)
    BY <2>6, <2>7, ContactAside DEF Aside
  <2>9. PICK k : k = [v.h EXCEPT !.fresh = FALSE]
    OBVIOUS
  <2>10. Beside(v.h, k)
    BY <2>8, <2>9, BesideIs DEF WholeSides
  <2>11. hw' = k /\ net' = v.n
    <3>1. Written(s, seen) = [v EXCEPT !.h.fresh = FALSE]
      BY <2>1, <2>5, <2>7 DEF Written
    <3>2. [v EXCEPT !.h.fresh = FALSE].h = k /\ [v EXCEPT !.h.fresh = FALSE].n = v.n
      BY <2>8, <2>9 DEF WholeSides
    <3> QED
      BY <1>1, <1>5, <3>1, <3>2
  <2>12. Aside(t, v)
    BY <2>6, <2>8, AsideOn
  <2>13. PICK w : w = [h |-> hw', n |-> net']
    OBVIOUS
  <2>14. Aside(t, w)
    BY <2>10, <2>11, <2>12, <2>13 DEF Aside, Beside, WholeSides, SameLines
  <2>15. w.h = hw' /\ w.n = net'
    BY <2>13
  <2>16. hw' \in Hardware /\ hw'.pt = t.h.pt /\ SameLines(t.n, net')
    BY <2>14, <2>15 DEF Aside, WholeSides
  <2>17. Lines(net', GoalPoint)
    BY <2>4, <2>16, LinesStay
  <2>18. Members'
    <3>1. Sound(hw'.pt) /\ (hw'.pt.state = 2 => hw'.pt.point \in GoalPoint)
      BY <2>4, <2>16 DEF Members
    <3>2. DOMAIN rt' = {"phase", "seen"} /\ rt'.seen = 0
      BY <1>2
    <3> QED
      BY <1>2, <1>3, <2>16, <3>1, <3>2 DEF Members
  <2> QED
    BY <1>2, <1>5, <2>1, <2>13, <2>14, <2>17, <2>18
<1> QED
  BY <1>4, <1>5

(***************************************************************************)
(* The robot program and what lies on its sockets keep their types.        *)
(***************************************************************************)
Typed(points) == /\ Lines(net, points)
                 /\ robot \in RobotProgram(points) /\ robot.left \in Nat

LEMMA RobotFields ==
  ASSUME NEW points, NEW r \in RobotProgram(points)
  PROVE  /\ DOMAIN r = {"on", "mode", "left", "thread", "run", "freedrive", "tool", "touched", "force"}
         /\ r.on \in BOOLEAN /\ r.mode \in ControlModes /\ r.left \in Int /\ r.thread \in BOOLEAN
         /\ r.run \in Seq(points) /\ r.freedrive \in BOOLEAN /\ r.tool \in BOOLEAN
         /\ r.touched \in BOOLEAN /\ r.force \in BOOLEAN
BY DEF RobotProgram

LEMMA RobotKept ==
  ASSUME NEW points, NEW r \in RobotProgram(points)
  PROVE  /\ \A b \in BOOLEAN : /\ [r EXCEPT !.on = b] \in RobotProgram(points)
                               /\ [r EXCEPT !.thread = b] \in RobotProgram(points)
                               /\ [r EXCEPT !.freedrive = b] \in RobotProgram(points)
                               /\ [r EXCEPT !.tool = b] \in RobotProgram(points)
                               /\ [r EXCEPT !.touched = b] \in RobotProgram(points)
                               /\ [r EXCEPT !.force = b] \in RobotProgram(points)
         /\ \A m \in ControlModes : [r EXCEPT !.mode = m] \in RobotProgram(points)
         /\ \A l \in Nat : /\ [r EXCEPT !.left = l] \in RobotProgram(points)
                          /\ [r EXCEPT !.left = l].left = l
         /\ \A q \in Seq(points) : [r EXCEPT !.run = q] \in RobotProgram(points)
BY DEF RobotProgram

LEMMA QueueIs ==
  ASSUME NEW S, NEW q \in Seq(S), q # <<>>
  PROVE  Head(q) \in S /\ Tail(q) \in Seq(S) /\ Len(Tail(q)) = Len(q) - 1
BY HeadTailProperties

LEMMA DrainedIs ==
  ASSUME NEW S, NEW q \in Seq(S), NEW left \in Nat
  PROVE  Drained(q, left) \in Seq(S)
<1>1. left + 1 \in Int /\ Len(q) \in Int /\ \A i \in (left + 1)..Len(q) : q[i] \in S
  OBVIOUS
<1> QED
  BY <1>1, SubSeqProperties DEF Drained

\* The lines after a step: the queues it leaves.
LEMMA LinesAre ==
  ASSUME NEW n, NEW points, Lines(n, points), NEW peer \in Peers, NEW rev \in Seq(Commands),
         NEW trj \in Seq(points), NEW res \in Seq(Results), NEW scr, NEW ans
  PROVE  /\ Lines([n EXCEPT !.peer = peer], points)
         /\ Lines([n EXCEPT !.res = res], points)
         /\ Lines([n EXCEPT !.trj = trj], points)
         /\ Lines([n EXCEPT !.rev = rev, !.trj = trj, !.res = res], points)
         /\ Lines([n EXCEPT !.rev = rev, !.trj = trj, !.scr = scr, !.peer = peer], points)
         /\ Lines([n EXCEPT !.ans = ans, !.trj = trj], points)
         /\ Lines([n EXCEPT !.scr = scr, !.ans = ans], points)
         /\ Lines([n EXCEPT !.ans = ans], points)
BY DEF Lines, NetKeys

LEMMA NoQueue ==
  ASSUME NEW S
  PROVE  <<>> \in Seq(S)
OBVIOUS

LEMMA PeersAre == "none" \in Peers /\ "coming" \in Peers /\ "up" \in Peers /\ "going" \in Peers
BY Zenon DEF Peers

LEMMA ResultsAre ==
  ASSUME NEW q \in Seq(Results), NEW r \in Results
  PROVE  Append(q, r) \in Seq(Results)
OBVIOUS

LEMMA PendantTyped ==
  ASSUME NEW points, Typed(points), StartProgram \/ StopProgram \/ ReceiveTimeout
  PROVE  Typed(points)'
<1> USE DEF Typed
<1>1. CASE StartProgram
  <2>1. robot' = [robot EXCEPT !.on = TRUE] /\ net' = [net EXCEPT !.peer = "coming"]
    BY <1>1 DEF StartProgram
  <2>2. robot' \in RobotProgram(points) /\ robot'.left = robot.left
    BY <2>1 DEF RobotProgram
  <2>3. Lines(net', points)
    BY <2>1, LinesAre, PeersAre, NoQueue
  <2> QED
    BY <2>2, <2>3
<1>2. CASE StopProgram \/ ReceiveTimeout
  <2>1. robot' = Halted /\ net' = Closed(net)
    BY <1>2 DEF StopProgram, ReceiveTimeout
  <2>2. robot' \in RobotProgram(points) /\ robot'.left = 0
    <3>1. PICK m \in ControlModes : m = "uninitialized"
      BY DEF ControlModes
    <3>2. robot' = [robot EXCEPT !.on = FALSE, !.mode = m, !.left = 0, !.thread = FALSE,
                        !.freedrive = FALSE, !.tool = FALSE, !.force = FALSE]
      BY <2>1, <3>1 DEF Halted
    <3>3. PICK a, b, c : /\ a = [robot EXCEPT !.on = FALSE]
                         /\ b = [a EXCEPT !.mode = m]
                         /\ c = [b EXCEPT !.left = 0]
      OBVIOUS
    <3>4. PICK d, e, f : /\ d = [c EXCEPT !.thread = FALSE]
                         /\ e = [d EXCEPT !.freedrive = FALSE]
                         /\ f = [e EXCEPT !.tool = FALSE]
      OBVIOUS
    <3>5. robot' = [f EXCEPT !.force = FALSE]
      BY <3>2, <3>3, <3>4
    <3>6. FALSE \in BOOLEAN /\ 0 \in Nat
      OBVIOUS
    <3>a. a \in RobotProgram(points)
      BY <3>3, RobotKept
    <3>b. b \in RobotProgram(points)
      BY <3>1, <3>3, <3>a, RobotKept
    <3>7. c \in RobotProgram(points) /\ c.left = 0
      BY <3>3, <3>6, <3>b, RobotKept
    <3>d. d \in RobotProgram(points)
      BY <3>4, <3>7, RobotKept
    <3>e. e \in RobotProgram(points)
      BY <3>4, <3>d, RobotKept
    <3>f. f \in RobotProgram(points)
      BY <3>4, <3>e, RobotKept
    <3>8. robot' \in RobotProgram(points)
      BY <3>5, <3>f, RobotKept
    <3>9. robot'.left = c.left
      BY <3>4, <3>5, <3>7, RobotFields
    <3> QED
      BY <3>7, <3>8, <3>9
  <2>3. Lines(net', points)
    <3>1. PICK p \in Peers : p = IF net.peer = "up" THEN "going" ELSE net.peer
      BY PeersAre DEF Lines
    <3>2. net' = [net EXCEPT !.rev = <<>>, !.trj = <<>>, !.scr = <<>>, !.peer = p]
      BY <2>1, <3>1 DEF Closed
    <3>3. Lines([net EXCEPT !.rev = <<>>, !.trj = <<>>, !.scr = <<>>, !.peer = p], points)
      <4>1. net.res \in Seq(Results) /\ <<>> \in Seq(Commands) /\ <<>> \in Seq(points)
        BY DEF Lines
      <4> QED
        BY <4>1, LinesAre
    <3> QED
      BY <3>2, <3>3
  <2> QED
    BY <2>2, <2>3
<1> QED
  BY <1>1, <1>2

LEMMA ReadCommandTyped ==
  ASSUME NEW points, Typed(points), ReadCommand
  PROVE  Typed(points)'
<1> DEFINE c == Head(net.rev)
           switch == c.mode # robot.mode
           left == switch /\ robot.mode = "forward"
           mode == IF switch /\ ~(robot.mode = "contact" /\ robot.tool) THEN c.mode ELSE robot.mode
           start == mode = "forward" /\ c.arg = "start"
           cancel == mode = "forward" /\ c.arg = "cancel"
           kill == left \/ start \/ cancel
           canceled == cancel \/ (left /\ robot.left > 0)
<1>1. /\ net.rev # <<>>
      /\ robot' = [robot EXCEPT !.mode = mode, !.thread = start \/ (@ /\ ~kill),
                                !.left = IF start THEN c.n ELSE IF kill THEN 0 ELSE @,
                                !.run = IF start THEN <<>> ELSE @,
                                !.freedrive = FreedriveAfter(switch, mode, c.arg)]
      /\ net' = [net EXCEPT !.rev = Tail(@), !.trj = IF kill THEN Drained(@, robot.left) ELSE @,
                            !.res = IF canceled THEN Append(@, "canceled") ELSE @]
  BY DEF ReadCommand
<1>2. c \in Commands /\ Tail(net.rev) \in Seq(Commands)
  BY <1>1, QueueIs DEF Typed, Lines
<1>3. /\ mode \in ControlModes /\ (start => c.n \in Nat)
      /\ (IF start THEN c.n ELSE IF kill THEN 0 ELSE robot.left) \in Nat
      /\ (IF start THEN <<>> ELSE robot.run) \in Seq(points)
  BY <1>2, RobotFields DEF Typed, Commands
<1>4. (start \/ (robot.thread /\ ~kill)) \in BOOLEAN /\ FreedriveAfter(switch, mode, c.arg) \in BOOLEAN
  BY DEF FreedriveAfter
<1>5. /\ (IF kill THEN Drained(net.trj, robot.left) ELSE net.trj) \in Seq(points)
      /\ (IF canceled THEN Append(net.res, "canceled") ELSE net.res) \in Seq(Results)
  <2>1. Drained(net.trj, robot.left) \in Seq(points)
    BY DrainedIs DEF Typed, Lines
  <2>2. "canceled" \in Results
    BY DEF Results
  <2>3. Append(net.res, "canceled") \in Seq(Results)
    BY <2>2, ResultsAre DEF Typed, Lines
  <2> HIDE DEF kill, canceled
  <2> QED
    BY <2>1, <2>3 DEF Typed, Lines
<1> HIDE DEF mode, start, kill, canceled, switch, c
<1>6. Lines(net', points)
  <2>1. net.peer \in Peers
    BY DEF Typed, Lines
  <2> QED
    BY <1>1, <1>2, <1>5, <2>1, LinesAre DEF Typed
<1>7. PICK f \in BOOLEAN, t \in BOOLEAN, l \in Nat, r \in Seq(points) :
         robot' = [robot EXCEPT !.mode = mode, !.thread = t, !.left = l, !.run = r, !.freedrive = f]
  BY <1>1, <1>3, <1>4
<1>8. robot' \in RobotProgram(points) /\ robot'.left = l
  <2>1. PICK a, b, d : /\ a = [robot EXCEPT !.mode = mode]
                       /\ b = [a EXCEPT !.thread = t]
                       /\ d = [b EXCEPT !.left = l]
    OBVIOUS
  <2>2. PICK e : e = [d EXCEPT !.run = r]
    OBVIOUS
  <2>3. robot' = [e EXCEPT !.freedrive = f]
    BY <1>7, <2>1, <2>2
  <2>a. a \in RobotProgram(points)
    BY <1>3, <2>1, RobotKept DEF Typed
  <2>b. b \in RobotProgram(points)
    BY <2>1, <2>a, RobotKept
  <2>4. d \in RobotProgram(points) /\ d.left = l
    BY <2>1, <2>b, RobotKept
  <2>5. e \in RobotProgram(points)
    BY <2>2, <2>4, RobotKept
  <2>6. robot' \in RobotProgram(points)
    BY <2>3, <2>5, RobotKept
  <2>7. robot'.left = d.left
    BY <2>2, <2>3, <2>4, RobotFields
  <2> QED
    BY <2>4, <2>6, <2>7
<1> QED
  BY <1>6, <1>7, <1>8 DEF Typed

LEMMA PointsTyped ==
  ASSUME NEW points, Typed(points), ExecutePoint \/ PointMissing \/ FinishTrajectory
  PROVE  Typed(points)'
<1> USE DEF Typed
<1>0. "failure" \in Results /\ "success" \in Results
  BY DEF Results
<1>1. CASE ExecutePoint
  <2>1. /\ robot.left > 0 /\ net.trj # <<>>
        /\ robot' = [robot EXCEPT !.left = @ - 1, !.run = IF clean THEN Append(@, Head(net.trj)) ELSE <<>>]
        /\ net' = [net EXCEPT !.trj = Tail(@)]
    BY <1>1 DEF ExecutePoint
  <2>2. Head(net.trj) \in points /\ Tail(net.trj) \in Seq(points)
    BY <2>1, QueueIs DEF Lines
  <2>3. PICK r \in Seq(points) : r = IF clean THEN Append(robot.run, Head(net.trj)) ELSE <<>>
    <3>1. robot.run \in Seq(points)
      BY RobotFields
    <3>2. PICK p \in points : p = Head(net.trj)
      BY <2>2
    <3>3. Append(robot.run, p) \in Seq(points) /\ <<>> \in Seq(points)
      BY <3>1
    <3> QED
      BY <3>2, <3>3
  <2>4. PICK l \in Nat : l = robot.left - 1
    BY <2>1
  <2>5. PICK a : a = [robot EXCEPT !.left = l]
    OBVIOUS
  <2>6. robot' = [a EXCEPT !.run = r]
    BY <2>1, <2>3, <2>4, <2>5
  <2>a. a \in RobotProgram(points) /\ a.left = l
    BY <2>5, RobotKept
  <2>b. robot' \in RobotProgram(points)
    BY <2>3, <2>6, <2>a, RobotKept
  <2>7. robot' \in RobotProgram(points) /\ robot'.left = l
    BY <2>6, <2>a, <2>b, RobotFields
  <2>8. Lines([net EXCEPT !.trj = Tail(net.trj)], points)
    BY <2>2, LinesAre, PeersAre, NoQueue
  <2> QED
    BY <2>1, <2>7, <2>8
<1>2. CASE PointMissing
  <2>1. /\ robot.left > 0
        /\ robot' = [robot EXCEPT !.left = @ - 1, !.thread = FALSE]
        /\ net' = [net EXCEPT !.res = Append(@, "failure")]
    BY <1>2 DEF PointMissing
  <2>2. PICK l \in Nat : l = robot.left - 1
    BY <2>1
  <2>3. PICK a : a = [robot EXCEPT !.left = l]
    OBVIOUS
  <2>4. robot' = [a EXCEPT !.thread = FALSE]
    BY <2>1, <2>2, <2>3
  <2>a. a \in RobotProgram(points) /\ a.left = l
    BY <2>3, RobotKept
  <2>b. robot' \in RobotProgram(points)
    BY <2>4, <2>a, RobotKept
  <2>5. robot' \in RobotProgram(points) /\ robot'.left = l
    BY <2>4, <2>a, <2>b, RobotFields
  <2>6. Append(net.res, "failure") \in Seq(Results)
    BY <1>0, ResultsAre DEF Lines
  <2>7. Lines([net EXCEPT !.res = Append(net.res, "failure")], points)
    BY <2>6, LinesAre, PeersAre, NoQueue
  <2> QED
    BY <2>1, <2>5, <2>7
<1>3. CASE FinishTrajectory
  <2>1. /\ robot' = [robot EXCEPT !.thread = FALSE]
        /\ net' = [net EXCEPT !.res = Append(@, "success")]
    BY <1>3 DEF FinishTrajectory
  <2>a. robot' \in RobotProgram(points)
    BY <2>1, RobotKept DEF Typed
  <2>b. robot'.left = robot.left
    BY <2>1, RobotFields DEF Typed
  <2>2. robot' \in RobotProgram(points) /\ robot'.left = robot.left
    BY <2>a, <2>b
  <2>3. Append(net.res, "success") \in Seq(Results)
    BY <1>0, ResultsAre DEF Lines
  <2>4. Lines([net EXCEPT !.res = Append(net.res, "success")], points)
    BY <2>3, LinesAre, PeersAre, NoQueue
  <2> QED
    BY <2>1, <2>2, <2>4
<1> QED
  BY <1>1, <1>2, <1>3

LEMMA ContactTyped ==
  ASSUME NEW points, Typed(points), DetectContact \/ RunScriptCommand
  PROVE  Typed(points)'
<1> USE DEF Typed
<1>1. CASE DetectContact
  <2>1. /\ robot' = [robot EXCEPT !.mode = "contact", !.freedrive = FALSE, !.touched = TRUE,
                                  !.thread = FALSE, !.left = 0]
        /\ net' = [net EXCEPT !.ans = Append(@, "success"), !.trj = Drained(@, robot.left)]
    BY <1>1 DEF DetectContact
  <2>2. PICK a, b, c : /\ a = [robot EXCEPT !.mode = "contact"]
                       /\ b = [a EXCEPT !.freedrive = FALSE]
                       /\ c = [b EXCEPT !.touched = TRUE]
    OBVIOUS
  <2>3. PICK d : d = [c EXCEPT !.thread = FALSE]
    OBVIOUS
  <2>4. robot' = [d EXCEPT !.left = 0]
    BY <2>1, <2>2, <2>3
  <2>5. "contact" \in ControlModes /\ FALSE \in BOOLEAN /\ TRUE \in BOOLEAN /\ 0 \in Nat
    BY DEF ControlModes
  <2>a. a \in RobotProgram(points)
    BY <2>2, <2>5, RobotKept
  <2>b. b \in RobotProgram(points)
    BY <2>2, <2>a, RobotKept
  <2>6. c \in RobotProgram(points)
    BY <2>2, <2>b, RobotKept
  <2>d. d \in RobotProgram(points)
    BY <2>3, <2>6, RobotKept
  <2>7. robot' \in RobotProgram(points) /\ robot'.left = 0
    BY <2>4, <2>5, <2>d, RobotKept
  <2>8. Drained(net.trj, robot.left) \in Seq(points)
    BY DrainedIs DEF Lines
  <2>9. \A x : Lines([net EXCEPT !.ans = x, !.trj = Drained(net.trj, robot.left)], points)
    BY <2>8, LinesAre, PeersAre, NoQueue
  <2>10. Lines(net', points)
    BY <2>1, <2>9
  <2> QED
    BY <2>7, <2>10
<1>2. CASE RunScriptCommand
  <2>1. PICK x, y, p, q :
           /\ robot' = [robot EXCEPT !.force = (@ \/ p = "start_force") /\ p # "end_force",
                                     !.tool = (@ \/ p = "start_tool") /\ p # "end_tool"]
           /\ net' = [net EXCEPT !.scr = x, !.ans = y]
    BY <1>2 DEF RunScriptCommand
  <2>2. PICK f \in BOOLEAN, t \in BOOLEAN : robot' = [robot EXCEPT !.force = f, !.tool = t]
    BY <2>1
  <2>3. PICK a : a = [robot EXCEPT !.force = f]
    OBVIOUS
  <2>4. robot' = [a EXCEPT !.tool = t]
    BY <2>2, <2>3
  <2>a. a \in RobotProgram(points) /\ a.left = robot.left
    <3>1. a \in RobotProgram(points)
      BY <2>3, RobotKept
    <3>2. a.left = robot.left
      BY <2>3, RobotFields
    <3> QED
      BY <3>1, <3>2
  <2>b. robot' \in RobotProgram(points)
    BY <2>4, <2>a, RobotKept
  <2>5. robot' \in RobotProgram(points) /\ robot'.left = robot.left
    BY <2>4, <2>a, <2>b, RobotFields
  <2>6. Lines([net EXCEPT !.scr = x, !.ans = y], points)
    BY LinesAre, PeersAre, NoQueue
  <2> QED
    BY <2>1, <2>5, <2>6
<1> QED
  BY <1>1, <1>2

LEMMA RobotTyped ==
  ASSUME NEW points, Typed(points), RobotStep
  PROVE  Typed(points)'
BY ReadCommandTyped, PointsTyped, ContactTyped DEF RobotStep, PointTimeout

(***************************************************************************)
(* The steps that leave the transfer alone.                                *)
(***************************************************************************)
Around == /\ Beside(hw, hw') /\ rt' = rt /\ ptc' = ptc /\ (clean' => clean) /\ session' = session
Cast == tcc \in ToolContact /\ fdc \in Freedrive /\ fmc \in ForceMode

LEMMA AroundIs ==
  ASSUME Members, Around, Cast'
  PROVE  Members'
BY DEF Members, Around, Cast, Beside

LEMMA RequestSwitchAround ==
  ASSUME Members, Typed(GoalPoint), FlagsInv, NEW on \in SUBSET Controllers, NEW off \in SUBSET cm.active,
         RequestSwitch(on, off)
  PROVE  Around /\ Cast' /\ Typed(GoalPoint)'
<1>1. on \in SUBSET Modes /\ off \in SUBSET Modes
  BY DEF Controllers, Modes, FlagsInv, Manager
<1>2. /\ hw' = [hw EXCEPT !.start = on, !.stop = off]
      /\ UNCHANGED <<robot, net, clean, rt, ptc, tcc, fdc, fmc, session>>
  BY DEF RequestSwitch, ctrls, setup
<1>3. PICK k : k = [hw EXCEPT !.start = on]
  OBVIOUS
<1>4. hw' = [k EXCEPT !.stop = off]
  BY <1>2, <1>3
<1>5. Beside(hw, k) /\ k \in Hardware
  BY <1>1, <1>3, BesideIs DEF Members, Beside
<1>6. Beside(k, hw')
  BY <1>1, <1>4, <1>5, BesideIs
<1>7. Beside(hw, hw')
  BY <1>5, <1>6, BesideOn
<1> QED
  BY <1>2, <1>7 DEF Around, Cast, Members, Typed

LEMMA RobotAround ==
  ASSUME Members, Typed(GoalPoint), Robot \/ Pendant
  PROVE  Around /\ Cast' /\ Typed(GoalPoint)'
<1>1. UNCHANGED <<hw, rt, ptc, tcc, fdc, fmc, session>>
  BY DEF Robot, Pendant, ctrls, setup
<1>2. clean' => clean
  BY DEF Robot, RobotStep, ReadCommand, ExecutePoint, PointTimeout, FinishTrajectory, DetectContact,
     RunScriptCommand, Pendant, StartProgram, StopProgram, ReceiveTimeout, Upset
<1>3. Typed(GoalPoint)'
  BY RobotTyped, PendantTyped DEF Robot, Pendant
<1> QED
  BY <1>1, <1>2, <1>3, BesideIs DEF Around, Cast, Members

LEMMA WorkersAround ==
  ASSUME Members, Typed(GoalPoint), UNCHANGED <<ctrls, async, setup, cm>>,
         ProgramConnected \/ ProgramDisconnected \/ ToolContactDone \/ ResultsCoalesced \/ ContactsCoalesced
  PROVE  Around /\ Cast' /\ Typed(GoalPoint)'
<1>1. /\ UNCHANGED <<rt, ptc, session, robot, clean>> /\ Cast'
  BY DEF ctrls, setup, Cast, Members, ProgramConnected, ProgramDisconnected, ToolContactDone, ResultsCoalesced,
     ContactsCoalesced
<1>2. Lines(net, GoalPoint)
  BY DEF Typed
<1>3. CASE ProgramConnected \/ ProgramDisconnected
  <2>1. PICK p \in Peers : net' = [net EXCEPT !.peer = p]
    BY <1>3, PeersAre DEF ProgramConnected, ProgramDisconnected
  <2>2. Lines(net', GoalPoint)
    BY <1>2, <2>1, LinesAre, NoQueue
  <2>3. PICK b \in BOOLEAN : hw' = [hw EXCEPT !.program = b]
    BY <1>3 DEF ProgramConnected, ProgramDisconnected
  <2>4. Beside(hw, hw')
    BY <2>3, BesideIs DEF Members
  <2> QED
    BY <1>1, <2>2, <2>4 DEF Around, Typed
<1>4. CASE ToolContactDone
  <2>1. PICK q : net' = [net EXCEPT !.ans = q]
    BY <1>4 DEF ToolContactDone
  <2>2. Lines(net', GoalPoint)
    BY <1>2, <2>1, LinesAre, NoQueue, PeersAre
  <2>3. PICK x \in -1..3 : hw' = [hw EXCEPT !.tc.result = x]
    <3>1. 0 \in -1..3 /\ 1 \in -1..3
      OBVIOUS
    <3> QED
      BY <1>4, <3>1 DEF ToolContactDone
  <2>4. PICK c : c = [hw.tc EXCEPT !.result = x]
    OBVIOUS
  <2>5. c \in ContactMembers
    BY <2>3, <2>4, HardwareIs, ContactMembersAre DEF Members
  <2>6. hw' = [hw EXCEPT !.tc = c]
    BY <2>3, <2>4
  <2>7. Beside(hw, hw')
    BY <2>5, <2>6, BesideIs DEF Members
  <2> QED
    BY <1>1, <2>2, <2>7 DEF Around, Typed
<1>5. CASE ResultsCoalesced
  <2>1. Len(net.res) >= 2 /\ net' = [net EXCEPT !.res = Tail(Tail(@))] /\ hw' = hw
    BY <1>5 DEF ResultsCoalesced
  <2>2. Tail(net.res) \in Seq(Results) /\ Len(Tail(net.res)) >= 1
    BY <1>2, <2>1, QueueIs DEF Lines
  <2>3. Tail(Tail(net.res)) \in Seq(Results)
    <3>1. \A q \in Seq(Results) : Len(q) >= 1 => q # <<>>
      OBVIOUS
    <3>2. Tail(net.res) # <<>>
      BY <2>2, <3>1
    <3> QED
      BY <2>2, <3>2, QueueIs
  <2>4. Lines(net', GoalPoint)
    BY <1>2, <2>1, <2>3, LinesAre, NoQueue, PeersAre
  <2> QED
    BY <1>1, <2>1, <2>4, BesideIs DEF Around, Typed, Members
<1>6. CASE ContactsCoalesced
  <2>1. PICK q : net' = [net EXCEPT !.ans = q] /\ hw' = hw
    BY <1>6 DEF ContactsCoalesced
  <2>2. Lines(net', GoalPoint)
    BY <1>2, <2>1, LinesAre, NoQueue, PeersAre
  <2> QED
    BY <1>1, <2>1, <2>2, BesideIs DEF Around, Typed, Members
<1> QED
  BY <1>3, <1>4, <1>5, <1>6
LEMMA AsyncAround ==
  ASSUME Members, Typed(GoalPoint), Async
  PROVE  Around /\ Cast' /\ Typed(GoalPoint)'
<1>1. UNCHANGED <<rt, ptc, session, robot, clean, tcc, fmc, fdc>>
  BY DEF Async, setup, FreedriveAsync, AsyncEnable, AsyncEnabled, AsyncActivated, AsyncAbort, AsyncAborted,
     GpioAsync, AsyncSend, AsyncForget, others
<1>2. Lines(net, GoalPoint) /\ Cast'
  BY <1>1 DEF Typed, Cast, Members
<1>3. ASSUME Lines(net', GoalPoint), Beside(hw, hw')
      PROVE  Around /\ Cast' /\ Typed(GoalPoint)'
  BY <1>1, <1>2, <1>3 DEF Around, Typed
<1>4. Beside(hw, hw)
  BY BesideIs DEF Members
<1>5. CASE AsyncEnable \/ AsyncAbort
  <2>1. PICK arg \in {"start", "stop"} : net' = SendReverse(net, Command("freedrive", arg, 0)) /\ hw' = hw
    BY <1>5 DEF AsyncEnable, AsyncAbort
  <2>2. Command("freedrive", arg, 0) \in Commands
    <3>1. "freedrive" \in ControlModes /\ arg \in Args
      BY ArgsAre DEF ControlModes
    <3> QED
      BY <3>1, CommandIs
  <2>3. Lines(net', GoalPoint)
    BY <1>2, <2>1, <2>2, ReverseIs
  <2> QED
    BY <1>3, <1>4, <2>1, <2>3
<1>6. \A x \in Cmd : x = x
  OBVIOUS
<1>7. ASSUME NEW x \in Cmd, NEW y \in Cmd, NEW z \in Cmd, NEW b \in BOOLEAN, net' = net,
             hw' \in {[hw EXCEPT !.fd.async = x, !.fd.enable = y],
                     [hw EXCEPT !.fd.activated = b],
                     [hw EXCEPT !.fd.async = x, !.fd.activated = b, !.fd.abort = z]}
      PROVE  Around /\ Cast' /\ Typed(GoalPoint)'
  <2>1. PICK d \in FreedriveMembers : d = hw.fd
    BY HardwareIs DEF Members
  <2>2. PICK e : e = [d EXCEPT !.async = x]
    OBVIOUS
  <2>3. PICK f : f = [e EXCEPT !.enable = y]
    OBVIOUS
  <2>4. PICK g : g = [d EXCEPT !.activated = b]
    OBVIOUS
  <2>5. PICK i : i = [e EXCEPT !.activated = b]
    OBVIOUS
  <2>6. PICK j : j = [i EXCEPT !.abort = z]
    OBVIOUS
  <2>7. e \in FreedriveMembers /\ g \in FreedriveMembers
    BY <2>1, <2>2, <2>4, FreedriveMembersAre
  <2>8. f \in FreedriveMembers
    BY <2>3, <2>7, FreedriveMembersAre
  <2>9. i \in FreedriveMembers
    BY <2>5, <2>7, FreedriveMembersAre
  <2>10. j \in FreedriveMembers
    BY <2>6, <2>9, FreedriveMembersAre
  <2>11. hw' \in {[hw EXCEPT !.fd = f], [hw EXCEPT !.fd = g], [hw EXCEPT !.fd = j]}
    BY <1>7, <2>1, <2>2, <2>3, <2>4, <2>5, <2>6
  <2>12. Beside(hw, hw')
    BY <2>7, <2>8, <2>10, <2>11, BesideIs DEF Members
  <2> QED
    BY <1>2, <1>3, <1>7, <2>12
<1>8. NoCmd \in Cmd /\ Flag(HasClient(net)) \in Cmd /\ 0 \in Cmd
  BY CmdIs
<1>9. CASE AsyncEnabled
  BY <1>7, <1>8, <1>9 DEF AsyncEnabled
<1>10. CASE AsyncActivated
  BY <1>7, <1>8, <1>10 DEF AsyncActivated
<1>11. CASE AsyncAborted
  BY <1>7, <1>8, <1>11 DEF AsyncAborted
<1>12. CASE GpioAsync
  <2>1. (hw' = hw \/ hw' = [hw EXCEPT !.program = FALSE]) /\ (net' = net \/ \E k \in Kinds : net' = SendScript(net, k))
    BY <1>12 DEF GpioAsync, AsyncSend, AsyncForget
  <2>h. hw \in Hardware /\ FALSE \in BOOLEAN
    BY DEF Members
  <2>i. Beside(hw, hw) /\ Beside(hw, [hw EXCEPT !.program = FALSE])
    BY <2>h, BesideIs
  <2>2. Beside(hw, hw')
    BY <2>1, <2>i
  <2>3. \A k : Lines(SendScript(net, k), GoalPoint)
    BY <1>2, ScriptsAre, LinesStay DEF Lines
  <2> QED
    BY <1>2, <1>3, <2>1, <2>2, <2>3
<1> QED
  BY <1>5, <1>9, <1>10, <1>11, <1>12 DEF Async, FreedriveAsync

\* The requests of the other controllers' users.
LEMMA ClientsAround ==
  ASSUME Members, Typed(GoalPoint), Clients, session # "trajectory"
  PROVE  Around /\ Cast' /\ Typed(GoalPoint)'
<1>1. CASE /\ session = "contact"
           /\ ToolContactServer \/ AcceptContact
           /\ UNCHANGED <<ptc, fdc, fmc, gpio, async, setup, cm>>
  <2>1. /\ UNCHANGED <<hw, rt, ptc, fdc, fmc, session, net>> /\ (clean' => clean)
    <3>1. UNCHANGED <<hw, rt, ptc, fdc, fmc, session, net>>
      BY <1>1 DEF ToolContactServer, AcceptContact, AcceptContactHandle, ForgetContact, CancelContact, setup
    <3>2. CASE AcceptContact
      BY <3>1, <3>2, Zenon DEF AcceptContact
    <3>3. CASE ToolContactServer
      BY <3>1, <3>3 DEF ToolContactServer, AcceptContactHandle, ForgetContact, CancelContact, Upset
    <3> QED
      BY <1>1, <3>1, <3>2, <3>3
  <2>2. robot' = robot \/ robot' = [robot EXCEPT !.touched = FALSE]
    BY <1>1 DEF ToolContactServer, AcceptContact, AcceptContactHandle, ForgetContact, CancelContact
  <2>3. robot' \in RobotProgram(GoalPoint) /\ robot'.left = robot.left
    <3>a. [robot EXCEPT !.touched = FALSE] \in RobotProgram(GoalPoint) /\ robot \in RobotProgram(GoalPoint)
      BY RobotKept DEF Typed
    <3>1. robot' \in RobotProgram(GoalPoint)
      BY <2>2, <3>a
    <3>2. robot'.left = robot.left
      BY <2>2, RobotFields DEF Typed
    <3> QED
      BY <3>1, <3>2
  <2>4. PICK a \in {"accepted"} : TRUE
    OBVIOUS
  <2>5. a \in {"none", "accepted", "succeeded", "aborted", "canceled"}
    BY <2>4
  <2>6. CASE AcceptContact
    <3>1. tcc' = [tcc EXCEPT !.enable = TRUE, !.abort = FALSE, !.accepting = TRUE, !.status = "accepted"]
      BY <2>6 DEF AcceptContact
    <3>2. PICK b : b = [tcc EXCEPT !.enable = TRUE]
      OBVIOUS
    <3>3. PICK c : c = [b EXCEPT !.abort = FALSE]
      OBVIOUS
    <3>4. PICK d : d = [c EXCEPT !.accepting = TRUE]
      OBVIOUS
    <3>5. tcc' = [d EXCEPT !.status = a]
      BY <2>4, <3>1, <3>2, <3>3, <3>4
    <3>6. b \in ToolContact
      BY <3>2, ToolContactAre DEF Members
    <3>7. c \in ToolContact
      BY <3>3, <3>6, ToolContactAre
    <3>8. d \in ToolContact
      BY <3>4, <3>7, ToolContactAre
    <3> QED
      BY <2>1, <2>3, <2>5, <3>5, <3>8, ToolContactAre, BesideIs DEF Around, Cast, Typed, Members
  <2>7. CASE AcceptContactHandle \/ ForgetContact
    <3>1. PICK x, y : /\ x = [tcc EXCEPT !.goal = y] /\ y \in BOOLEAN
                      /\ tcc' = [x EXCEPT !.accepting = FALSE] \/ tcc' = [x EXCEPT !.reset = FALSE]
      <4>1. CASE AcceptContactHandle
        <5>1. tcc' = [[tcc EXCEPT !.goal = TRUE] EXCEPT !.accepting = FALSE]
          BY <4>1 DEF AcceptContactHandle, Members, ToolContact
        <5> QED
          BY <5>1
      <4>2. CASE ForgetContact
        <5>1. tcc' = [[tcc EXCEPT !.goal = FALSE] EXCEPT !.reset = FALSE]
          BY <4>2 DEF ForgetContact
        <5> QED
          BY <5>1
      <4> QED
        BY <2>7, <4>1, <4>2
    <3>2. x \in ToolContact
      BY <3>1, ToolContactAre DEF Members
    <3>3. tcc' \in ToolContact
      BY <3>1, <3>2, ToolContactAre
    <3> QED
      BY <2>1, <2>3, <3>3, BesideIs DEF Around, Cast, Typed, Members
  <2>8. CASE CancelContact
    <3>1. PICK x : x = Answered(tcc, "canceled")
      OBVIOUS
    <3>2. tcc' = [x EXCEPT !.reset = TRUE, !.abort = TRUE, !.enable = FALSE]
      BY <2>8, <3>1 DEF CancelContact
    <3>3. PICK c : c = [x EXCEPT !.reset = TRUE]
      OBVIOUS
    <3>4. PICK d : d = [c EXCEPT !.abort = TRUE]
      OBVIOUS
    <3>5. tcc' = [d EXCEPT !.enable = FALSE]
      BY <3>2, <3>3, <3>4
    <3>6. x \in ToolContact
      BY <3>1, AnsweredTyped DEF Members
    <3>7. c \in ToolContact
      BY <3>3, <3>6, ToolContactAre
    <3>8. d \in ToolContact
      BY <3>4, <3>7, ToolContactAre
    <3>9. tcc' \in ToolContact
      BY <3>5, <3>8, ToolContactAre
    <3> QED
      BY <2>1, <2>3, <3>9, BesideIs DEF Around, Cast, Typed, Members
  <2> QED
    BY <1>1, <2>6, <2>7, <2>8 DEF ToolContactServer
<1>2. CASE /\ session = "freedrive"
           /\ FreedriveTimeout \/ \E on \in BOOLEAN : FreedriveMessage(on)
           /\ UNCHANGED <<ptc, tcc, fmc, gpio, setup, cm>>
  <2>1. /\ UNCHANGED <<hw, rt, ptc, tcc, fmc, session, net, robot, clean>>
    BY <1>2 DEF FreedriveTimeout, FreedriveMessage, setup
  <2>2. fdc' \in Freedrive
    <3>1. CASE FreedriveTimeout
      <4>1. PICK b \in BOOLEAN : b <=> fdc.change \/ fdc.active
        OBVIOUS
      <4>2. fdc' = [active |-> FALSE, change |-> b, timer |-> FALSE]
        BY <3>1, <4>1 DEF FreedriveTimeout, Members, Freedrive
      <4> QED
        BY <4>2 DEF Freedrive
    <3>2. CASE \E on \in BOOLEAN : FreedriveMessage(on)
      BY <3>2 DEF FreedriveMessage, Members, Freedrive
    <3> QED
      BY <1>2, <3>1, <3>2
  <2> QED
    BY <2>1, <2>2, BesideIs DEF Around, Cast, Typed, Members
<1>3. CASE /\ session = "force"
           /\ ReturnForceMode \/ \E on \in BOOLEAN : CallForceMode(on)
           /\ UNCHANGED <<ptc, tcc, fdc, gpio, async, setup, cm>>
  <2>1. /\ UNCHANGED <<hw, rt, ptc, tcc, fdc, session, net, robot, clean>>
    BY <1>3 DEF ReturnForceMode, CallForceMode, setup
  <2>2. fmc' \in ForceMode
    BY <1>3 DEF ReturnForceMode, CallForceMode, Members, ForceMode
  <2> QED
    BY <2>1, <2>2, BesideIs DEF Around, Cast, Typed, Members
<1>4. CASE /\ session = "gpio" /\ GpioService
           /\ UNCHANGED <<ptc, tcc, fmc, setup, cm>>
  <2>1. /\ UNCHANGED <<hw, rt, ptc, tcc, fdc, fmc, session, net, robot, clean>>
    BY <1>4 DEF GpioService, Reply, TimeOut, Store, Reset, others, setup
  <2> QED
    BY <2>1, BesideIs DEF Around, Cast, Typed, Members
<1> QED
  BY <1>1, <1>2, <1>3, <1>4 DEF Clients

\* The friction model beside the cycle.
LEMMA FrictionAround ==
  ASSUME Members, Typed(GoalPoint), FrictionModel, rt' = rt
  PROVE  Around /\ Cast' /\ Typed(GoalPoint)'
<1>1. UNCHANGED <<hw, rt, ptc, tcc, fdc, fmc, session, robot, clean>>
  BY DEF FrictionModel, FrictionService, FrictionAsync, FrictionCycle, frictionless
<1>2. net' = net \/ net' = SendScript(net, "friction")
  BY DEF FrictionModel, FrictionService, FrictionAsync, FrictionCycle, FrictionSend, FrictionSent
<1>3. Lines(net', GoalPoint)
  BY <1>2, ScriptsAre, LinesStay DEF Typed, Lines
<1> QED
  BY <1>1, <1>3, BesideIs DEF Around, Cast, Typed, Members

\* What a goal's client does to the controller, by its fields.
LEMMA GoalClients ==
  ASSUME Members, PassthroughServer \/ \E g \in Goals : AcceptGoal(g)
  PROVE  /\ ptc' \in Passthrough /\ UNCHANGED <<robot, net, hw, rt>>
         /\ \/ /\ ptc.accepting = NoGoal /\ ~ptc.active /\ ~ptc.cancelling
               /\ ptc'.accepting # NoGoal /\ ptc'.index = 0 /\ ptc'.active = ptc.active
               /\ ptc'.goal = ptc.goal /\ ptc'.cancelling = ptc.cancelling
               /\ clean' => clean \/ AtRest
            \/ /\ ptc.accepting # NoGoal /\ ptc'.goal = ptc.accepting /\ ptc'.accepting = ptc.accepting
               /\ ptc'.index = ptc.index /\ ptc'.active = ptc.active /\ ptc'.cancelling = ptc.cancelling
               /\ clean' = clean
            \/ /\ ptc.accepting # NoGoal /\ ptc.goal = ptc.accepting /\ ptc'.goal = ptc.goal
               /\ ptc'.accepting = NoGoal /\ ptc'.index = ptc.index /\ ptc'.active
               /\ ptc'.cancelling = ptc.cancelling /\ clean' = clean
            \/ ~clean'
            \/ ptc.cancelling /\ clean' = clean
<1>0. ptc \in Passthrough
  BY DEF Members
<1>s. "accepted" \in {"none", "accepted", "succeeded", "aborted", "canceled"}
      /\ "canceled" \in {"none", "accepted", "succeeded", "aborted", "canceled"}
  OBVIOUS
<1>1. ASSUME NEW g \in Goals, AcceptGoal(g)
      PROVE  /\ ptc' \in Passthrough /\ UNCHANGED <<robot, net, hw, rt>>
             /\ ptc.accepting = NoGoal /\ ~ptc.active /\ ~ptc.cancelling
             /\ ptc'.accepting # NoGoal /\ ptc'.index = 0 /\ ptc'.active = ptc.active
             /\ ptc'.goal = ptc.goal /\ ptc'.cancelling = ptc.cancelling
             /\ clean' => clean \/ AtRest
  <2>1. /\ ptc' = [ptc EXCEPT !.accepting = g, !.index = 0, !.status[g] = "accepted"]
        /\ ptc.accepting = NoGoal /\ ~ptc.active /\ ~ptc.cancelling
        /\ UNCHANGED <<robot, net, hw, rt>>
    BY <1>1 DEF AcceptGoal
  <2>2. clean' => clean \/ AtRest
    <3> HIDE DEF AtRest
    <3>1. clean' = (clean \/ AtRest)
      BY <1>1 DEF AcceptGoal
    <3> QED
      BY <3>1, Zenon
  <2>3. PICK a : a = [ptc EXCEPT !.accepting = g]
    OBVIOUS
  <2>4. PICK b : b = [a EXCEPT !.index = 0]
    OBVIOUS
  <2>5. ptc' = [b EXCEPT !.status[g] = "accepted"]
    BY <2>1, <2>3, <2>4
  <2>6. g \in Handles /\ 0 \in Nat /\ g # NoGoal
    BY GoalsAre DEF Handles
  <2>7. a \in Passthrough
    BY <1>0, <2>3, <2>6, PassthroughAre
  <2>8. b \in Passthrough
    BY <2>4, <2>6, <2>7, PassthroughAre
  <2>9. ptc' \in Passthrough
    BY <1>s, <2>5, <2>8, PassthroughAre
  <2>10. /\ ptc'.accepting = g /\ ptc'.index = 0 /\ ptc'.active = ptc.active
         /\ ptc'.goal = ptc.goal /\ ptc'.cancelling = ptc.cancelling
    BY <1>0, <2>1, PassthroughAre
  <2> QED
    BY <2>1, <2>2, <2>6, <2>9, <2>10
<1>2. ASSUME AcceptGoalHandle
      PROVE  /\ ptc' \in Passthrough /\ UNCHANGED <<robot, net, hw, rt>>
             /\ ptc.accepting # NoGoal /\ ptc'.goal = ptc.accepting /\ ptc'.accepting = ptc.accepting
             /\ ptc'.index = ptc.index /\ ptc'.active = ptc.active /\ ptc'.cancelling = ptc.cancelling
             /\ clean' = clean
  <2>1. /\ ptc.accepting # NoGoal /\ ptc' = [ptc EXCEPT !.goal = ptc.accepting]
        /\ UNCHANGED <<robot, net, clean, hw, rt>>
    BY <1>2 DEF AcceptGoalHandle
  <2>2. ptc' \in Passthrough
    BY <1>0, <2>1, PassthroughAre
  <2> QED
    BY <1>0, <2>1, <2>2, PassthroughAre
<1>3. ASSUME AcceptDone
      PROVE  /\ ptc' \in Passthrough /\ UNCHANGED <<robot, net, hw, rt>>
             /\ ptc.accepting # NoGoal /\ ptc.goal = ptc.accepting /\ ptc'.goal = ptc.goal
             /\ ptc'.accepting = NoGoal /\ ptc'.index = ptc.index /\ ptc'.active
             /\ ptc'.cancelling = ptc.cancelling /\ clean' = clean
  <2>1. /\ ptc.accepting # NoGoal /\ ptc.goal = ptc.accepting
        /\ ptc' = [ptc EXCEPT !.accepting = NoGoal, !.active = TRUE]
        /\ UNCHANGED <<robot, net, clean, hw, rt>>
    BY <1>3 DEF AcceptDone
  <2>2. PICK a : a = [ptc EXCEPT !.accepting = NoGoal]
    OBVIOUS
  <2>3. ptc' = [a EXCEPT !.active = TRUE]
    BY <2>1, <2>2
  <2>4. a \in Passthrough
    BY <1>0, <2>2, PassthroughAre DEF Handles
  <2>5. ptc' \in Passthrough
    BY <2>3, <2>4, PassthroughAre
  <2>6. /\ ptc'.goal = ptc.goal /\ ptc'.accepting = NoGoal /\ ptc'.index = ptc.index /\ ptc'.active
        /\ ptc'.cancelling = ptc.cancelling
    BY <1>0, <2>1, PassthroughAre
  <2> QED
    BY <2>1, <2>5, <2>6
<1>4. ASSUME CancelGoal
      PROVE  ptc' \in Passthrough /\ UNCHANGED <<robot, net, hw, rt>> /\ ~clean'
  <2>1. /\ ptc' = [ptc EXCEPT !.goal = NoGoal, !.status[ptc.goal] = "canceled", !.cancelling = TRUE]
        /\ UNCHANGED <<robot, net, hw, rt>> /\ ~clean'
    BY <1>4 DEF CancelGoal, Upset
  <2>2. PICK a : a = [ptc EXCEPT !.goal = NoGoal]
    OBVIOUS
  <2>3. PICK b : b = [a EXCEPT !.status[ptc.goal] = "canceled"]
    OBVIOUS
  <2>4. ptc' = [b EXCEPT !.cancelling = TRUE]
    BY <2>1, <2>2, <2>3
  <2>5. a \in Passthrough
    BY <1>0, <2>2, PassthroughAre DEF Handles
  <2>6. b \in Passthrough
    BY <1>s, <2>3, <2>5, PassthroughAre
  <2>7. ptc' \in Passthrough
    BY <2>4, <2>6, PassthroughAre
  <2> QED
    BY <2>1, <2>7
<1>5. ASSUME CancelDone
      PROVE  ptc' \in Passthrough /\ UNCHANGED <<robot, net, hw, rt>> /\ ptc.cancelling /\ clean' = clean
  <2>1. /\ ptc.cancelling /\ ptc' = [ptc EXCEPT !.active = FALSE, !.cancelling = FALSE]
        /\ UNCHANGED <<robot, net, clean, hw, rt>>
    BY <1>5 DEF CancelDone
  <2>2. PICK a : a = [ptc EXCEPT !.active = FALSE]
    OBVIOUS
  <2>3. ptc' = [a EXCEPT !.cancelling = FALSE]
    BY <2>1, <2>2
  <2>4. a \in Passthrough
    BY <1>0, <2>2, PassthroughAre
  <2>5. ptc' \in Passthrough
    BY <2>3, <2>4, PassthroughAre
  <2> QED
    BY <2>1, <2>5
<1>6. CASE \E g \in Goals : AcceptGoal(g)
  BY <1>1, <1>6, Zenon
<1>7. CASE AcceptGoalHandle
  BY <1>2, <1>7, Zenon
<1>8. CASE AcceptDone
  BY <1>3, <1>8, Zenon
<1>9. CASE CancelGoal
  BY <1>4, <1>9, Zenon
<1>10. CASE CancelDone
  BY <1>5, <1>10, Zenon
<1> QED
  BY <1>6, <1>7, <1>8, <1>9, <1>10 DEF PassthroughServer

\* The worker of the trajectory server stores the result, then the state.
LEMMA TrajectoryDoneIs ==
  ASSUME Members, Typed(GoalPoint), TrajectoryDoneAbort \/ TrajectoryDoneState, UNCHANGED <<ctrls, async, setup, cm>>
  PROVE  /\ Members' /\ Typed(GoalPoint)' /\ UNCHANGED <<rt, ptc, session, clean>>
         /\ hw'.pt.state \in {hw.pt.state, 5} /\ hw'.pt.size = hw.pt.size /\ hw'.pt.received = hw.pt.received
         /\ hw'.pt.vec = hw.pt.vec /\ hw'.crashed = hw.crashed
<1> DEFINE p == hw.pt
<1>1. p \in PassthroughMembers /\ DOMAIN hw = HardwareKeys /\ Sound(p)
  BY HardwareIs DEF Members
<1>2. UNCHANGED <<rt, ptc, tcc, fdc, fmc, session, clean, robot>>
  BY DEF TrajectoryDoneAbort, TrajectoryDoneState, ctrls, setup
<1>3. ASSUME NEW q \in PassthroughMembers, Sound(q), q.state \in {p.state, 5}, q.point = p.point,
             q.size = p.size, q.received = p.received, q.vec = p.vec, hw' = [hw EXCEPT !.pt = q]
      PROVE  /\ Members' /\ UNCHANGED <<rt, ptc, session, clean>>
             /\ hw'.pt.state \in {hw.pt.state, 5} /\ hw'.pt.size = hw.pt.size /\ hw'.pt.received = hw.pt.received
             /\ hw'.pt.vec = hw.pt.vec /\ hw'.crashed = hw.crashed
  <2>1. hw'.pt = q /\ hw'.crashed = hw.crashed
    BY <1>1, <1>3 DEF HardwareKeys
  <2>2. hw' \in Hardware
    BY <1>3, HardwareIs DEF Members
  <2>3. q.state = 2 => p.state = 2
    BY <1>3
  <2>4. Members'
    BY <1>2, <1>3, <2>1, <2>2, <2>3 DEF Members
  <2> QED
    BY <1>2, <1>3, <2>1, <2>4
<1>n. TRUE \in BOOLEAN /\ FALSE \in BOOLEAN /\ 5 \in 0..6
  OBVIOUS
<1>4. ASSUME NEW q \in PassthroughMembers, NEW b \in BOOLEAN
      PROVE  /\ [q EXCEPT !.late = b] \in PassthroughMembers
             /\ Sound(q) => Sound([q EXCEPT !.late = b])
  <2>1. PICK r : r = [q EXCEPT !.late = b]
    OBVIOUS
  <2>2. r \in PassthroughMembers
    BY <2>1, ZenonT(30) DEF PassthroughMembers
  <2>3. /\ r.vec = q.vec /\ r.received = q.received /\ r.started = q.started /\ r.sent = q.sent
    BY <2>1, PassthroughFields
  <2>4. Sound(q) => Sound(r)
    BY <2>3 DEF Sound
  <2> QED
    BY <2>1, <2>2, <2>4
<1>5. CASE TrajectoryDoneAbort
  <2>1. PICK x \in {0, 1} : hw' = [hw EXCEPT !.pt.abort = x, !.pt.late = TRUE]
    BY <1>5 DEF TrajectoryDoneAbort, Flag
  <2>2. PICK a : a = [p EXCEPT !.abort = x]
    OBVIOUS
  <2>3. PICK q : q = [a EXCEPT !.late = TRUE]
    OBVIOUS
  <2>4. a \in PassthroughMembers /\ Sound(a)
    BY <1>1, <2>2, OutcomesAre
  <2>5. q \in PassthroughMembers /\ Sound(q)
    BY <1>4, <1>n, <2>3, <2>4
  <2>6. hw' = [hw EXCEPT !.pt = q]
    BY <2>1, <2>2, <2>3
  <2>7. /\ q.state = p.state /\ q.point = p.point /\ q.size = p.size /\ q.received = p.received
        /\ q.vec = p.vec
    BY <1>1, <2>2, <2>3, PassthroughFields
  <2>8. net.res # <<>> /\ net' = [net EXCEPT !.res = Tail(@)]
    BY <1>5 DEF TrajectoryDoneAbort
  <2>9. Tail(net.res) \in Seq(Results)
    BY <2>8, QueueIs DEF Typed, Lines
  <2>10. Lines(net', GoalPoint)
    BY <2>8, <2>9, LinesAre, NoQueue, PeersAre DEF Typed
  <2>11. Typed(GoalPoint)'
    BY <1>2, <2>10 DEF Typed
  <2> QED
    BY <1>3, <2>5, <2>6, <2>7, <2>11
<1>6. CASE TrajectoryDoneState
  <2>1. hw' = [hw EXCEPT !.pt.state = 5, !.pt.late = FALSE] /\ net' = net
    BY <1>6 DEF TrajectoryDoneState
  <2>2. PICK a : a = [p EXCEPT !.state = 5]
    OBVIOUS
  <2>3. PICK q : q = [a EXCEPT !.late = FALSE]
    OBVIOUS
  <2>4. a \in PassthroughMembers /\ Sound(a)
    BY <1>1, <1>n, <2>2, OutcomesAre
  <2>5. q \in PassthroughMembers /\ Sound(q)
    BY <1>4, <1>n, <2>3, <2>4
  <2>6. hw' = [hw EXCEPT !.pt = q]
    BY <2>1, <2>2, <2>3
  <2>7. /\ q.state = 5 /\ q.point = p.point /\ q.size = p.size /\ q.received = p.received
        /\ q.vec = p.vec
    BY <1>1, <2>2, <2>3, PassthroughFields
  <2>8. Typed(GoalPoint)'
    BY <1>2, <2>1 DEF Typed
  <2> QED
    BY <1>3, <2>5, <2>6, <2>7, <2>8
<1> QED
  BY <1>5, <1>6

LEMMA ReadIs ==
  ASSUME Members, Typed(GoalPoint), NEW fresh \in BOOLEAN, Read(fresh)
  PROVE  /\ Members' /\ Typed(GoalPoint)' /\ UNCHANGED <<ptc, session, clean>> /\ Beside(hw, hw')
         /\ rt' = [phase |-> "update", seen |-> hw.pt.state]
<1>1. /\ UNCHANGED <<robot, net, ptc, tcc, fdc, fmc, session, clean>>
      /\ rt' = [phase |-> "update", seen |-> hw.pt.state]
      /\ hw' = [hw EXCEPT !.fresh = @ \/ fresh, !.playing = IF fresh THEN robot.on ELSE @]
  BY DEF Read, ctrls, setup
<1>2. PICK f \in BOOLEAN, b \in BOOLEAN : hw' = [hw EXCEPT !.fresh = f, !.playing = b]
  <2>1. hw.playing \in BOOLEAN /\ robot.on \in BOOLEAN
    BY RobotFields DEF Typed, Members, Hardware
  <2>2. (hw.fresh \/ fresh) \in BOOLEAN /\ (IF fresh THEN robot.on ELSE hw.playing) \in BOOLEAN
    BY <2>1
  <2> QED
    BY <1>1, <2>2
<1>3. PICK k : k = [hw EXCEPT !.fresh = f]
  OBVIOUS
<1>4. hw' = [k EXCEPT !.playing = b]
  BY <1>2, <1>3
<1>5. Beside(hw, k) /\ k \in Hardware
  BY <1>3, BesideIs DEF Members, Beside
<1>6. Beside(hw, hw')
  BY <1>4, <1>5, BesideIs, BesideOn
<1>7. hw.pt.state \in 0..6
  BY HardwareIs, PassthroughFields DEF Members
<1>8. DOMAIN rt' = {"phase", "seen"} /\ rt'.seen = hw.pt.state
  BY <1>1
<1>9. Members' /\ Typed(GoalPoint)'
  BY <1>1, <1>6, <1>7, <1>8 DEF Members, Beside, Typed
<1> QED
  BY <1>1, <1>6, <1>9

LEMMA FrictionCycleIs ==
  ASSUME Members, Typed(GoalPoint), FrictionModel, rt' # rt
  PROVE  /\ Members' /\ Typed(GoalPoint)' /\ UNCHANGED <<hw, ptc, session, clean>> /\ session = "friction"
         /\ rt' = [phase |-> "write", seen |-> hw.pt.state]
<1>1. /\ UNCHANGED <<robot, net, hw, ptc, tcc, fdc, fmc, session, clean>> /\ session = "friction"
      /\ rt' = [phase |-> "write", seen |-> hw.pt.state]
  BY DEF FrictionModel, FrictionService, FrictionAsync, FrictionCycle, frictionless
<1>2. hw.pt.state \in 0..6
  BY HardwareIs, PassthroughFields DEF Members
<1>3. DOMAIN rt' = {"phase", "seen"} /\ rt'.seen = hw.pt.state
  BY <1>1
<1> QED
  BY <1>1, <1>2, <1>3 DEF Members, Typed

(***************************************************************************)
(* The executor of session motion: what it writes are types of primitives. *)
(***************************************************************************)
Sequenced(e) == /\ "motion" \in DOMAIN e /\ "written" \in DOMAIN e
                /\ e.motion \in Seq(Primitive) /\ e.written \in Nat

LEMMA SequencedIs ==
  ASSUME NEW e, Sequenced(e)
  PROVE  /\ \A x : Sequenced([e EXCEPT !.pc = x])
         /\ \A x : Sequenced([e EXCEPT !.running = x])
         /\ \A x : Sequenced([e EXCEPT !.cancel = x])
         /\ \A x : Sequenced([e EXCEPT !.result = x])
         /\ \A x : Sequenced([e EXCEPT !.user = x])
         /\ \A x : Sequenced([e EXCEPT !.missed = x])
         /\ \A x : Sequenced([e EXCEPT !.success = x])
         /\ \A x : Sequenced([e EXCEPT !.canceled = x])
         /\ \A x : Sequenced([e EXCEPT !.n = x])
         /\ \A x \in Seq(Primitive) : Sequenced([e EXCEPT !.motion = x])
         /\ \A x \in Nat : Sequenced([e EXCEPT !.written = x])
BY DEF Sequenced

LEMMA MotionTypeIs ==
  ASSUME NEW p \in Primitive
  PROVE  MotionType(p) \in MotionTypes
<1>1. p.move \in Moves /\ p.target \in {"joints", "pose"} /\ p.via \in {"none", "joints", "pose"}
  BY DEF Primitive
<1>2. PICK e : e = ""
  BY Zenon
<1>3. PICK S : S = {e, "POSE", "JOINT", "POSE_JOINT", "JOINT_POSE"}
  OBVIOUS
<1>4. \A s \in S : <<p.move, s>> \in MotionTypes
  BY <1>1, <1>2, <1>3, Zenon DEF MotionTypes
<1>5. JointType(p) \in MotionTypes
  <2>1. JointType(p) = IF p.target = "pose" THEN <<p.move, "POSE">> ELSE <<p.move, e>>
    BY <1>2, Zenon DEF JointType
  <2> QED
    BY <1>3, <1>4, <2>1
<1>6. LinearType(p) \in MotionTypes
  <2>1. LinearType(p) = IF p.target = "joints" THEN <<p.move, "JOINT">> ELSE <<p.move, e>>
    BY <1>2, Zenon DEF LinearType
  <2> QED
    BY <1>3, <1>4, <2>1
<1>7. CircleType(p) \in MotionTypes
  <2>1. CircleType(p) = CASE p.target = "pose" /\ p.via = "pose" -> <<p.move, e>>
                          [] p.target = "joints" /\ p.via = "joints" -> <<p.move, "JOINT">>
                          [] p.target = "pose" /\ p.via = "joints" -> <<p.move, "POSE_JOINT">>
                          [] OTHER -> <<p.move, "JOINT_POSE">>
    BY <1>2, Zenon DEF CircleType
  <2> QED
    BY <1>3, <1>4, <2>1
<1>8. OptimalType(p) \in MotionTypes
  BY <1>5, <1>6 DEF OptimalType
<1>9. \/ p.move \in {"MOVEJ", "SPLINE"} \/ p.move \in {"MOVEL", "MOVEP"} \/ p.move = "MOVEC"
      \/ p.move \in Optimal
  BY <1>1 DEF Moves, Optimal
<1> HIDE DEF MotionTypes
<1> QED
  BY <1>5, <1>6, <1>7, <1>8, <1>9 DEF MotionType

LEMMA SentTyped ==
  ASSUME NEW n, NEW points, Lines(n, points), NEW mode \in ControlModes, NEW arg \in Args, NEW k \in Nat
  PROVE  Lines(SendReverse(n, Command(mode, arg, k)), points)
BY CommandIs, ReverseIs

LEMMA ExecutorTyped ==
  ASSUME Typed(MotionTypes), Sequenced(ex), Executor
  PROVE  Typed(MotionTypes)' /\ Sequenced(ex')
<1> DEFINE A == \/ ExecutingThread \/ CancellingThread \/ Worker \/ TrajResultsIgnored
                \/ RobotReads \/ RobotMoves \/ CancelMotion
                \/ \E m \in Motions : ExecuteMotion(m)
<1>a. A
  BY DEF Executor, ByExecutor
<1>b. Lines(net, MotionTypes)
  BY DEF Typed
<1>c. ASSUME robot' = robot, Lines(net', MotionTypes), Sequenced(ex')
      PROVE  Typed(MotionTypes)' /\ Sequenced(ex')
  BY <1>c DEF Typed
<1>d. "forward" \in ControlModes /\ "idle" \in ControlModes
  BY DEF ControlModes
<1>e. PICK e \in Args : e = ""
  BY ArgsAre
<1>f. "noop" \in Args /\ "start" \in Args /\ "cancel" \in Args /\ 0 \in Nat
  BY ArgsAre
<1>1. ASSUME NEW m \in Motions, ExecuteMotion(m)
      PROVE  Typed(MotionTypes)' /\ Sequenced(ex')
  <2>1. m \in Seq(Primitive) /\ Len(m) \in Nat
    BY ExecutorAssumption
  <2>2. PICK g, h, i : /\ g = [ex EXCEPT !.motion = m] /\ h = [g EXCEPT !.written = 0]
                       /\ i = [h EXCEPT !.n = ex.n + 1]
    OBVIOUS
  <2>3. i = [ex EXCEPT !.motion = m, !.written = 0, !.n = @ + 1]
    BY <2>2
  <2>4. Sequenced(g)
    BY <2>1, <2>2, SequencedIs
  <2>5. Sequenced(h)
    BY <1>f, <2>2, <2>4, SequencedIs
  <2>6. Sequenced(i)
    BY <2>2, <2>5, SequencedIs
  <2>7. robot' = robot
    BY <1>1 DEF ExecuteMotion, Stay
  <2>8. CASE HasClient(net)
    <3>1. net' = SendReverse(net, Command("forward", "start", Len(m))) /\ ex' = [i EXCEPT !.pc = "points"]
      BY <1>1, <2>3, <2>8 DEF ExecuteMotion, To
    <3> QED
      BY <1>b, <1>c, <1>d, <1>f, <2>1, <2>6, <2>7, <3>1, SequencedIs, SentTyped
  <2>9. CASE ~HasClient(net)
    <3>1. /\ net' = net
          /\ ex' = [[i EXCEPT !.result = "failure"] EXCEPT !.pc = "idle", !.success = FALSE, !.missed = FALSE]
      BY <1>1, <2>3, <2>9 DEF ExecuteMotion, Returns
    <3>2. PICK j, k, l : /\ j = [i EXCEPT !.result = "failure"] /\ k = [j EXCEPT !.pc = "idle"]
                         /\ l = [k EXCEPT !.success = FALSE]
      OBVIOUS
    <3>3. ex' = [l EXCEPT !.missed = FALSE]
      BY <3>1, <3>2
    <3>4. Sequenced(j)
      BY <2>6, <3>2, SequencedIs
    <3>5. Sequenced(k)
      BY <3>2, <3>4, SequencedIs
    <3>6. Sequenced(l)
      BY <3>2, <3>5, SequencedIs
    <3>7. Sequenced(ex')
      BY <3>3, <3>6, SequencedIs
    <3> QED
      BY <1>b, <1>c, <2>7, <3>1, <3>7
  <2> QED
    BY <2>8, <2>9
<1>2. CASE WritePoint
  <2>1. /\ ex.written < Len(ex.motion) /\ robot' = robot
        /\ net' = WriteMotionPrimitive(net, ex.motion[ex.written + 1])
        /\ ex' = [ex EXCEPT !.written = ex.written + 1]
    BY <1>2 DEF WritePoint, Stay
  <2>2. ex.motion[ex.written + 1] \in Primitive /\ ex.written + 1 \in Nat
    BY <2>1 DEF Sequenced
  <2>3. PICK t \in MotionTypes : t = MotionType(ex.motion[ex.written + 1])
    BY <2>2, MotionTypeIs
  <2>4. <<t>> \in Seq(MotionTypes)
    OBVIOUS
  <2>5. net' = net \/ net' = SendPoints(net, <<t>>)
    BY <2>1, <2>3 DEF WriteMotionPrimitive
  <2>6. Lines(net', MotionTypes)
    BY <1>b, <2>4, <2>5, PointsAre
  <2> QED
    BY <1>c, <2>1, <2>2, <2>6, SequencedIs
<1>3. CASE SetRunning \/ ClearCancel \/ LoopEnds
  <2>1. robot' = robot /\ net' = net
    BY <1>3 DEF SetRunning, ClearCancel, LoopEnds, Stay
  <2>2. \/ ex' = [[ex EXCEPT !.running = TRUE] EXCEPT !.pc = "uncancel"]
        \/ ex' = [[ex EXCEPT !.cancel = FALSE] EXCEPT !.pc = "loop"]
        \/ ex' = [ex EXCEPT !.pc = "finish"]
    BY <1>3 DEF SetRunning, ClearCancel, LoopEnds, To
  <2>3. Sequenced([ex EXCEPT !.running = TRUE]) /\ Sequenced([ex EXCEPT !.cancel = FALSE])
    BY SequencedIs
  <2>4. PICK f : Sequenced(f) /\ \E pc : ex' = [f EXCEPT !.pc = pc]
    BY <2>2, <2>3
  <2>5. Sequenced(ex')
    <3>1. PICK pc : ex' = [f EXCEPT !.pc = pc]
      BY <2>4
    <3>2. Sequenced([f EXCEPT !.pc = pc])
      BY <2>4, SequencedIs
    <3> QED
      BY <3>1, <3>2
  <2> QED
    BY <1>b, <1>c, <2>1, <2>5
<1>4. CASE Noop
  <2>1. robot' = robot /\ ex' = ex /\ net' = SendReverse(net, Command("forward", "noop", 0))
    BY <1>4 DEF Noop, Stay
  <2> QED
    BY <1>b, <1>c, <1>d, <1>f, <2>1, SentTyped
<1>5. CASE FinishMotion
  <2>1. robot' = robot /\ (net' = net \/ net' = SendReverse(net, Command("idle", e, 0)))
    BY <1>5, <1>e DEF FinishMotion, Stay
  <2>2. PICK b : ex' = [ex EXCEPT !.pc = "idle", !.success = b, !.missed = FALSE]
    BY <1>5 DEF FinishMotion, Returns
  <2>3. PICK k, l : k = [ex EXCEPT !.pc = "idle"] /\ l = [k EXCEPT !.success = b]
    OBVIOUS
  <2>4. ex' = [l EXCEPT !.missed = FALSE]
    BY <2>2, <2>3
  <2>5. Sequenced(k)
    BY <2>3, SequencedIs
  <2>6. Sequenced(l)
    BY <2>3, <2>5, SequencedIs
  <2>7. Sequenced(ex')
    BY <2>4, <2>6, SequencedIs
  <2> QED
    BY <1>b, <1>c, <1>d, <1>e, <1>f, <2>1, <2>7, SentTyped
<1>6. CASE CancelMotion \/ CancelRequested \/ WaitForCancel \/ CancelReturns
  <2>1. robot' = robot /\ (net' = net \/ net' = SendReverse(net, Command("forward", "cancel", 0)))
    BY <1>6 DEF CancelMotion, CancelRequested, WaitForCancel, CancelReturns, Stay
  <2>2. \E u, x : \/ ex' = [[ex EXCEPT !.user = u] EXCEPT !.cancel = x]
                 \/ ex' = [ex EXCEPT !.user = u]
                 \/ ex' = [[ex EXCEPT !.user = u] EXCEPT !.canceled = x]
    <3>1. CASE CancelMotion
      <4>1. ex' = [[ex EXCEPT !.user = "check"] EXCEPT !.cancel = TRUE]
        BY <3>1 DEF CancelMotion
      <4> QED
        BY <4>1
    <3>2. CASE CancelRequested
      <4>1. ex' = [ex EXCEPT !.user = "lock"] \/ ex' = [[ex EXCEPT !.user = "idle"] EXCEPT !.canceled = FALSE]
        BY <3>2 DEF CancelRequested
      <4> QED
        BY <4>1
    <3>3. CASE WaitForCancel
      BY <3>3 DEF WaitForCancel
    <3>4. CASE CancelReturns
      <4>1. PICK x : ex' = [[ex EXCEPT !.user = "idle"] EXCEPT !.canceled = x]
        BY <3>4 DEF CancelReturns
      <4> QED
        BY <4>1
    <3> QED
      BY <1>6, <3>1, <3>2, <3>3, <3>4
  <2>3. PICK u, x : \/ ex' = [[ex EXCEPT !.user = u] EXCEPT !.cancel = x]
                    \/ ex' = [ex EXCEPT !.user = u]
                    \/ ex' = [[ex EXCEPT !.user = u] EXCEPT !.canceled = x]
    BY <2>2
  <2>4. PICK f : f = [ex EXCEPT !.user = u]
    OBVIOUS
  <2>5. Sequenced(f)
    BY <2>4, SequencedIs
  <2>6. ex' = [f EXCEPT !.cancel = x] \/ ex' = f \/ ex' = [f EXCEPT !.canceled = x]
    BY <2>3, <2>4
  <2>7. Sequenced(ex')
    <3>1. Sequenced([f EXCEPT !.cancel = x]) /\ Sequenced([f EXCEPT !.canceled = x])
      BY <2>5, SequencedIs
    <3> QED
      BY <2>5, <2>6, <3>1
  <2> QED
    BY <1>b, <1>c, <1>d, <1>f, <2>1, <2>7, SentTyped
<1>7. CASE Worker \/ TrajResultsIgnored
  <2>1. robot' = robot
    BY <1>7 DEF Worker, TrajDoneCallback, TrajDisconnectCallback, TrajConnectCallback, TrajResultsIgnored, Stay
  <2>2. \A f, u : Sequenced(f) => Sequenced([f EXCEPT !.user = u])
    BY SequencedIs
  <2>3. \A f, b : Sequenced(f) => Sequenced([f EXCEPT !.missed = b]) /\ Sequenced([f EXCEPT !.running = b])
    BY SequencedIs
  <2>4. \A f, r : Sequenced(f) => Sequenced([f EXCEPT !.result = r])
    BY SequencedIs
  <2>5. \A f : Sequenced(f) => Sequenced(Notified(f))
    BY <2>2 DEF Notified
  <2>6. \A f, r : Sequenced(f) => Sequenced(Stored(f, r))
    <3>1. \A f, r : Stored(f, r) = [[Notified(f) EXCEPT !.result = r] EXCEPT !.running = FALSE]
      BY DEF Stored
    <3> QED
      BY <2>3, <2>4, <2>5, <3>1
  <2>7. \A f : Sequenced(f) => Sequenced(TooEarly(f))
    BY <2>3 DEF TooEarly
  <2>8. CASE TrajDoneCallback
    <3>1. net.res # <<>> /\ net' = [net EXCEPT !.res = Tail(@)]
      BY <2>8 DEF TrajDoneCallback
    <3>2. \E f : ex' = TooEarly(f) /\ (f = ex \/ \E r : f = Stored(ex, r))
      BY <2>8 DEF TrajDoneCallback
    <3>3. Sequenced(ex')
      BY <2>6, <2>7, <3>2
    <3>4. Tail(net.res) \in Seq(Results)
      BY <1>b, <3>1, QueueIs DEF Lines
    <3>5. Lines(net', MotionTypes)
      BY <1>b, <3>1, <3>4, LinesAre, NoQueue, PeersAre
    <3> QED
      BY <1>c, <2>1, <3>3, <3>5
  <2>9. CASE TrajDisconnectCallback \/ TrajConnectCallback
    <3>1. PICK p \in Peers : net' = [net EXCEPT !.peer = p]
      BY <2>9, PeersAre DEF TrajDisconnectCallback, TrajConnectCallback
    <3>2. ex' = ex \/ \E f : ex' = TooEarly(f) /\ (f = Notified(ex) \/ f = Stored(ex, "failure"))
      BY <2>9 DEF TrajDisconnectCallback, TrajConnectCallback, Disconnected
    <3>3. Sequenced(ex')
      BY <2>5, <2>6, <2>7, <3>2
    <3>4. Lines(net', MotionTypes)
      BY <1>b, <3>1, LinesAre, NoQueue
    <3> QED
      BY <1>c, <2>1, <3>3, <3>4
  <2>10. CASE TrajResultsIgnored
    <3>1. Len(net.res) >= 2 /\ net' = [net EXCEPT !.res = Tail(Tail(@))]
      BY <2>10 DEF TrajResultsIgnored
    <3>2. PICK b : ex' = [ex EXCEPT !.missed = b]
      BY <2>10 DEF TrajResultsIgnored
    <3>3. Sequenced(ex')
      BY <3>2, SequencedIs
    <3>4. Tail(net.res) \in Seq(Results) /\ Len(Tail(net.res)) >= 1
      BY <1>b, <3>1, QueueIs DEF Lines
    <3>5. \A q \in Seq(Results) : Len(q) >= 1 => q # <<>>
      OBVIOUS
    <3>6. Tail(net.res) # <<>>
      BY <3>4, <3>5
    <3>7. Tail(Tail(net.res)) \in Seq(Results)
      BY <3>4, <3>6, QueueIs
    <3>8. Lines(net', MotionTypes)
      BY <1>b, <3>1, <3>7, LinesAre, NoQueue, PeersAre
    <3> QED
      BY <1>c, <2>1, <3>3, <3>8
  <2> QED
    BY <1>7, <2>8, <2>9, <2>10 DEF Worker
<1>8. CASE RobotReads \/ RobotMoves
  BY <1>8, ReadCommandTyped, PointsTyped DEF RobotReads, RobotMoves
<1> QED
  BY <1>a, <1>1, <1>2, <1>3, <1>4, <1>5, <1>6, <1>7, <1>8 DEF ExecutingThread, CancellingThread

(***************************************************************************)
(* There is room for every point: how far the hand-over has come, seen     *)
(* from both sides of it.                                                  *)
(***************************************************************************)
FitsAt(h, c, state) ==
    /\ state = 0 => c.index = 0
    /\ state = 6 => c.index = 0 /\ h.pt.size = Points[c.goal]
    /\ state = 1 => /\ h.pt.received = c.index /\ Len(h.pt.vec) = Points[c.goal]
                    /\ c.index <= Points[c.goal]
    /\ state = 2 => /\ c.index = h.pt.received + 1 /\ Len(h.pt.vec) = Points[c.goal]
                    /\ c.index <= Points[c.goal]
HasRoom(h, c, r) ==
    /\ ~h.crashed /\ ~c.cancelling
    /\ r.phase # "read" => h.pt.state \in {r.seen, 5}
    /\ r.phase = "read" => r.seen = 0
    /\ c.accepting # NoGoal => ~c.active /\ c.index = 0
    /\ c.active => /\ c.goal # NoGoal /\ FitsAt(h, c, h.pt.state)
                   /\ r.phase # "read" => FitsAt(h, c, r.seen)
    /\ ~c.active => h.pt.state \in {0, 5} /\ r.seen \in {0, 5}
\* Controllers are at rest in the sessions that are not about them.
Inert == ~ptc.active /\ ptc.accepting = NoGoal /\ ~ptc.cancelling
Room == /\ session # "trajectory" => Inert
        /\ clean => HasRoom(hw, ptc, rt)

\* The sides of the hand-over that HasRoom looks at.
Level(h, k) == /\ k.pt.size = h.pt.size /\ k.pt.received = h.pt.received
               /\ k.pt.vec = h.pt.vec /\ k.crashed = h.crashed

LEMMA LevelFits ==
  ASSUME NEW h, NEW k, Level(h, k), NEW c, NEW state, FitsAt(h, c, state)
  PROVE  FitsAt(k, c, state)
BY DEF Level, FitsAt

LEMMA AroundRoom ==
  ASSUME Room, Around
  PROVE  Room'
<1>1. Level(hw, hw') /\ hw'.pt.state = hw.pt.state
  BY DEF Around, Beside, Level
<1>2. HasRoom(hw, ptc, rt) => HasRoom(hw', ptc, rt)
  BY <1>1, LevelFits DEF HasRoom, Level
<1> QED
  BY <1>2 DEF Room, Around, Inert

LEMMA ReadRoom ==
  ASSUME Room, Beside(hw, hw'), rt' = [phase |-> "update", seen |-> hw.pt.state],
         UNCHANGED <<ptc, session, clean>>
  PROVE  Room'
<1>1. Level(hw, hw') /\ hw'.pt.state = hw.pt.state
  BY DEF Beside, Level
<1>2. rt'.phase = "update" /\ rt'.seen = hw.pt.state
  OBVIOUS
<1>3. HasRoom(hw, ptc, rt) => HasRoom(hw', ptc, rt')
  BY <1>1, <1>2, LevelFits DEF HasRoom, Level
<1> QED
  BY <1>3 DEF Room, Inert

LEMMA FrictionCycleRoom ==
  ASSUME Room, UNCHANGED <<hw, ptc, session, clean>>, rt' = [phase |-> "write", seen |-> hw.pt.state]
  PROVE  Room'
<1>1. rt'.phase = "write" /\ rt'.seen = hw.pt.state
  OBVIOUS
<1>2. HasRoom(hw, ptc, rt) => HasRoom(hw, ptc, rt')
  BY <1>1 DEF HasRoom
<1> QED
  BY <1>2 DEF Room, Inert

LEMMA TrajectoryDoneRoom ==
  ASSUME Room, UNCHANGED <<rt, ptc, session, clean>>, Level(hw, hw'), hw'.pt.state \in {hw.pt.state, 5}
  PROVE  Room'
<1>1. FitsAt(hw', ptc, 5)
  BY DEF FitsAt
<1>2. HasRoom(hw, ptc, rt) => HasRoom(hw', ptc, rt)
  BY <1>1, LevelFits DEF HasRoom, Level
<1> QED
  BY <1>2 DEF Room, Inert

LEMMA ClientsRoom ==
  ASSUME Room, Members, ~hw.crashed, session = "trajectory", session' = session,
         PassthroughServer \/ \E g \in Goals : AcceptGoal(g)
  PROVE  Room'
<1>1. hw' = hw /\ rt' = rt
  BY GoalClients
<1>2. SUFFICES ASSUME clean' PROVE HasRoom(hw, ptc', rt)
  BY <1>1 DEF Room
<1>3. CASE /\ ptc.accepting = NoGoal /\ ~ptc.active /\ ~ptc.cancelling
           /\ ptc'.accepting # NoGoal /\ ptc'.index = 0 /\ ptc'.active = ptc.active
           /\ ptc'.goal = ptc.goal /\ ptc'.cancelling = ptc.cancelling
           /\ clean' => clean \/ AtRest
  <2>1. CASE clean
    BY <1>3, <2>1 DEF Room, HasRoom
  <2>2. CASE AtRest
    <3>1. hw.pt.state = 0 /\ rt.seen = 0
      BY <2>2 DEF AtRest
    <3> QED
      BY <1>3, <3>1 DEF HasRoom
  <2> QED
    BY <1>2, <1>3, <2>1, <2>2
<1>4. CASE /\ ptc.accepting # NoGoal /\ ptc'.goal = ptc.accepting /\ ptc'.accepting = ptc.accepting
           /\ ptc'.index = ptc.index /\ ptc'.active = ptc.active /\ ptc'.cancelling = ptc.cancelling
           /\ clean' = clean
  BY <1>2, <1>4 DEF Room, HasRoom
<1>5. CASE /\ ptc.accepting # NoGoal /\ ptc.goal = ptc.accepting /\ ptc'.goal = ptc.goal
           /\ ptc'.accepting = NoGoal /\ ptc'.index = ptc.index /\ ptc'.active
           /\ ptc'.cancelling = ptc.cancelling /\ clean' = clean
  <2>1. HasRoom(hw, ptc, rt)
    BY <1>2, <1>5 DEF Room
  <2>2. ptc'.index = 0 /\ hw.pt.state \in {0, 5} /\ rt.seen \in {0, 5}
    BY <1>5, <2>1 DEF HasRoom
  <2>3. FitsAt(hw, ptc', hw.pt.state) /\ FitsAt(hw, ptc', rt.seen)
    BY <2>2 DEF FitsAt
  <2> QED
    BY <1>5, <2>1, <2>3 DEF HasRoom
<1>6. CASE ptc.cancelling /\ clean' = clean
  BY <1>2, <1>6 DEF Room, HasRoom
<1> QED
  BY <1>2, <1>3, <1>4, <1>5, <1>6, GoalClients

LEMMA SwitchRoom ==
  ASSUME Room, Members, FlagsInv, DOMAIN net = NetKeys, Switch
  PROVE  Room'
<1>1. /\ rt' = [phase |-> "write", seen |-> hw'.pt.state]
      /\ "passthrough" \notin cm.off \/ ~ptc.active => ptc' = ptc /\ Swapped(hw, hw')
      /\ "passthrough" \notin cm.off \cup hw.stop => hw'.pt.vec = hw.pt.vec
  BY SwitchIs
<1>2. rt'.phase = "write" /\ rt'.seen = hw'.pt.state
  BY <1>1
<1>3. session' = session /\ hw.stop = cm.off
  BY DEF Switch, setup, FlagsInv
<1>4. clean' => clean /\ (session = "trajectory" => "passthrough" \notin cm.off)
  BY DEF Switch, Upset
<1>5. CASE session # "trajectory"
  <2>1. Inert /\ ptc' = ptc /\ Swapped(hw, hw')
    BY <1>1, <1>5 DEF Room, Inert
  <2>2. clean => HasRoom(hw', ptc, rt')
    BY <1>2, <2>1 DEF Room, HasRoom, Inert, Swapped
  <2> QED
    BY <1>3, <1>4, <1>5, <2>1, <2>2 DEF Room, Inert
<1>6. CASE session = "trajectory"
  <2> SUFFICES ASSUME clean' PROVE HasRoom(hw', ptc', rt')
    BY <1>3, <1>6 DEF Room
  <2>1. ptc' = ptc /\ Level(hw, hw') /\ hw'.pt.state = hw.pt.state /\ HasRoom(hw, ptc, rt)
    BY <1>1, <1>3, <1>4, <1>6 DEF Room, Swapped, Level
  <2> QED
    BY <1>2, <2>1, LevelFits DEF HasRoom, Level
<1> QED
  BY <1>5, <1>6

LEMMA UpdateRoom ==
  ASSUME Room, Members, Update
  PROVE  Room'
<1>1. /\ rt.phase = "update" /\ rt' = [phase |-> "write", seen |-> hw'.pt.state]
      /\ UNCHANGED <<session, clean>>
  BY UpdateIs DEF Update, setup
<1>2. rt'.phase = "write" /\ rt'.seen = hw'.pt.state
  BY <1>1
<1>s. PICK seen \in {rt.seen, hw.pt.state} :
         \E r : HandedOver(hw, ptc, seen, r) /\ Beside(r.h, hw') /\ ptc' = r.c
  BY UpdateIs
<1>3. PICK r : HandedOver(hw, ptc, seen, r) /\ Beside(r.h, hw') /\ ptc' = r.c
  BY <1>s
<1> DEFINE h == r.h
           p == hw.pt
<1>4. Level(h, hw') /\ hw'.pt.state = h.pt.state
  BY <1>3 DEF Beside, Level
<1>5. p \in PassthroughMembers /\ DOMAIN hw = HardwareKeys /\ ptc \in Passthrough
  BY HardwareIs DEF Members
<1>6. session # "trajectory" => ptc' = ptc
  BY <1>3 DEF HandedOver, Room, Inert
<1>7. ASSUME NEW q, h = [hw EXCEPT !.pt = q]
      PROVE  h.pt = q /\ h.crashed = hw.crashed
  BY <1>5, <1>7 DEF HardwareKeys
<1> SUFFICES ASSUME clean PROVE HasRoom(hw', ptc', rt')
  BY <1>1, <1>6 DEF Room, Inert
<1>8. HasRoom(hw, ptc, rt)
  BY DEF Room
<1>9. ptc.active => ptc.goal # NoGoal /\ FitsAt(hw, ptc, seen) /\ ptc.accepting = NoGoal
  BY <1>1, <1>s, <1>8 DEF HasRoom
<1>10. ~ptc.active => seen \in {0, 5}
  BY <1>s, <1>8 DEF HasRoom
<1> HIDE DEF h
<1>11. ASSUME ~h.crashed, ~r.c.cancelling, r.c.accepting # NoGoal => ~r.c.active /\ r.c.index = 0,
              r.c.active => r.c.goal # NoGoal /\ FitsAt(h, r.c, h.pt.state),
              ~r.c.active => h.pt.state \in {0, 5}
       PROVE  HasRoom(hw', ptc', rt')
  <2>1. /\ ptc' = r.c /\ hw'.pt.state = h.pt.state /\ ~hw'.crashed
        /\ \A state : FitsAt(h, r.c, state) => FitsAt(hw', r.c, state)
    BY <1>3, <1>4, <1>11, LevelFits DEF Level
  <2> QED
    BY <1>2, <1>11, <2>1 DEF HasRoom
<1>12. CASE r.c = ptc /\ h = hw
  BY <1>8, <1>11, <1>12 DEF HasRoom
<1>13. ASSUME ptc.active, h = [hw EXCEPT !.pt = [p EXCEPT !.state = 0]],
              NEW x, r.c = [ptc EXCEPT !.active = FALSE, !.status[ptc.goal] = x]
       PROVE  HasRoom(hw', ptc', rt')
  <2>1. r.c.active = FALSE /\ r.c.accepting = ptc.accepting /\ r.c.cancelling = ptc.cancelling
    BY <1>5, <1>13, PassthroughAre
  <2>2. h.pt.state = 0 /\ h.crashed = hw.crashed
    BY <1>5, <1>7, <1>13, PassthroughFields
  <2> QED
    BY <1>8, <1>9, <1>11, <1>13, <2>1, <2>2 DEF HasRoom
<1>14. CASE /\ ptc.active /\ seen = 0 /\ ptc.index = 0 /\ r.c = ptc
            /\ h = [hw EXCEPT !.pt = [p EXCEPT !.state = 6, !.size = Points[ptc.goal]]]
  <2> DEFINE q == [p EXCEPT !.state = 6, !.size = Points[ptc.goal]]
  <2>3. q.state = 6 /\ q.size = Points[ptc.goal]
    BY <1>5 DEF PassthroughMembers
  <2>4. h = [hw EXCEPT !.pt = q]
    BY <1>14
  <2> HIDE DEF q
  <2>5. h.pt = q /\ h.crashed = hw.crashed
    BY <1>7, <2>4
  <2>1. h.pt.state = 6 /\ h.pt.size = Points[ptc.goal] /\ h.crashed = hw.crashed
    BY <2>3, <2>5
  <2>2. FitsAt(h, ptc, 6)
    BY <1>14, <2>1 DEF FitsAt
  <2> QED
    BY <1>8, <1>9, <1>11, <1>14, <2>1, <2>2 DEF HasRoom
<1>15. CASE /\ ptc.active /\ seen = 1 /\ ptc.index < Points[ptc.goal]
            /\ h = [hw EXCEPT !.pt = [p EXCEPT !.point = <<ptc.goal, ptc.index + 1>>, !.state = 2]]
            /\ r.c = [ptc EXCEPT !.index = ptc.index + 1]
  <2> DEFINE q == [p EXCEPT !.point = <<ptc.goal, ptc.index + 1>>, !.state = 2]
  <2>6. q.state = 2 /\ q.received = p.received /\ q.vec = p.vec
    BY <1>5 DEF PassthroughMembers
  <2>7. h = [hw EXCEPT !.pt = q]
    BY <1>15
  <2> HIDE DEF q
  <2>8. h.pt = q /\ h.crashed = hw.crashed
    BY <1>7, <2>7
  <2>1. /\ h.pt.state = 2 /\ h.pt.received = p.received /\ h.pt.vec = p.vec /\ h.crashed = hw.crashed
    BY <2>6, <2>8
  <2>2. /\ r.c.index = ptc.index + 1 /\ r.c.goal = ptc.goal /\ r.c.active = ptc.active
        /\ r.c.accepting = ptc.accepting /\ r.c.cancelling = ptc.cancelling
    BY <1>5, <1>15, PassthroughAre
  <2>3. p.received = ptc.index /\ Len(p.vec) = Points[ptc.goal]
    BY <1>9, <1>15 DEF FitsAt
  <2>4. Points[ptc.goal] \in Nat /\ ptc.index \in Nat
    BY <1>5, <1>9, <1>15, PassthroughAre, GoalsAre DEF Handles
  <2>5. FitsAt(h, r.c, 2)
    BY <1>15, <2>1, <2>2, <2>3, <2>4 DEF FitsAt
  <2> QED
    BY <1>8, <1>9, <1>11, <1>15, <2>1, <2>2, <2>5 DEF HasRoom
<1>16. CASE /\ ptc.active /\ r.c = ptc /\ h = [hw EXCEPT !.pt = [p EXCEPT !.state = 3]]
  <2>1. h.pt.state = 3 /\ h.crashed = hw.crashed
    BY <1>5, <1>7, <1>16, PassthroughFields
  <2>2. FitsAt(h, ptc, 3)
    BY DEF FitsAt
  <2> QED
    BY <1>8, <1>9, <1>11, <1>16, <2>1, <2>2 DEF HasRoom
<1>17. ~(~(ptc.goal # NoGoal /\ ptc.active) /\ seen \notin {0, 5})
  BY <1>9, <1>10
<1>18. CASE /\ ~(ptc.goal # NoGoal /\ ptc.active) /\ r.c = ptc
            /\ h = [hw EXCEPT !.pt = [p EXCEPT !.state = 0, !.abort = 0]]
  <2>1. h.pt.state = 0 /\ h.crashed = hw.crashed
    BY <1>5, <1>7, <1>18, PassthroughFields
  <2>2. ~ptc.active
    BY <1>9, <1>18
  <2> QED
    BY <1>8, <1>11, <1>18, <2>1, <2>2 DEF HasRoom
<1> QED
  BY <1>3, <1>12, <1>13, <1>14, <1>15, <1>16, <1>17, <1>18 DEF HandedOver, h

LEMMA WriteRoom ==
  ASSUME Room, Members, Lines(net, GoalPoint), Write
  PROVE  Room'
<1>1. /\ rt.phase = "write" /\ rt' = [phase |-> "read", seen |-> 0] /\ ptc' = ptc
      /\ UNCHANGED <<session, clean>>
  BY WriteIs DEF Write, setup
<1>2. rt'.phase = "read" /\ rt'.seen = 0
  BY <1>1
<1> DEFINE p == hw.pt
<1>3. p \in PassthroughMembers /\ DOMAIN hw = HardwareKeys /\ ptc \in Passthrough
  BY HardwareIs DEF Members
<1> SUFFICES ASSUME clean PROVE HasRoom(hw', ptc, rt')
  BY <1>1 DEF Room, Inert
<1>4. HasRoom(hw, ptc, rt)
  BY DEF Room
<1>5. ASSUME ~hw'.crashed, ptc.active => FitsAt(hw', ptc, hw'.pt.state),
             ~ptc.active => hw'.pt.state \in {0, 5}
      PROVE  HasRoom(hw', ptc, rt')
  BY <1>2, <1>4, <1>5 DEF HasRoom
<1>6. ASSUME hw'.pt = hw.pt, hw'.crashed = hw.crashed PROVE HasRoom(hw', ptc, rt')
  BY <1>4, <1>5, <1>6, LevelFits DEF HasRoom, Level
<1>7. CASE hw' = hw
  BY <1>6, <1>7
<1>8. ASSUME NEW seen \in {rt.seen, hw.pt.state}, NEW t, NEW u, u.h = hw, Transferred(u, t, seen),
             hw'.pt = t.h.pt, hw'.crashed = t.h.crashed
      PROVE  HasRoom(hw', ptc, rt')
  <2>1. ptc.active => ptc.goal # NoGoal /\ FitsAt(hw, ptc, seen)
    BY <1>1, <1>4, <1>8 DEF HasRoom
  <2>2. ~ptc.active => seen \in {0, 5}
    BY <1>4, <1>8 DEF HasRoom
  <2>3. ASSUME NEW q, t.h = [hw EXCEPT !.pt = q]
        PROVE  hw'.pt = q /\ hw'.crashed = hw.crashed
    <3>1. t.h.pt = q /\ t.h.crashed = hw.crashed
      BY <1>3, <2>3 DEF HardwareKeys
    <3> QED
      BY <1>8, <3>1
  <2>4. CASE t.h = hw
    BY <1>6, <1>8, <2>4
  <2>5. CASE seen = 6 /\ t.h = [hw EXCEPT !.pt = Emptied(p)]
    <3>1. Emptied(p).state = 1 /\ Emptied(p).received = 0 /\ Len(Emptied(p).vec) = p.size
      BY <1>3, OutcomesAre DEF Members
    <3>2. hw'.pt = Emptied(p) /\ hw'.crashed = hw.crashed
      BY <2>3, <2>5
    <3>3. ptc.active /\ ptc.index = 0 /\ p.size = Points[ptc.goal] /\ ptc.goal # NoGoal
      BY <2>1, <2>2, <2>5 DEF FitsAt
    <3>4. Points[ptc.goal] \in Nat
      BY <1>3, <3>3, PassthroughAre, GoalsAre DEF Handles
    <3>5. FitsAt(hw', ptc, 1)
      BY <3>1, <3>2, <3>3, <3>4 DEF FitsAt
    <3> QED
      BY <1>4, <1>5, <3>1, <3>2, <3>3, <3>5 DEF HasRoom
  <2>6. ~(seen = 2 /\ p.received >= Len(p.vec))
    <3> SUFFICES ASSUME seen = 2, p.received >= Len(p.vec) PROVE FALSE
      OBVIOUS
    <3>1. ptc.active /\ ptc.index = p.received + 1 /\ Len(p.vec) = Points[ptc.goal]
          /\ ptc.index <= Points[ptc.goal]
      BY <2>1, <2>2 DEF FitsAt
    <3>2. p.received \in Nat /\ Len(p.vec) \in Nat
      BY <1>3, PassthroughFields
    <3> QED
      BY <3>1, <3>2
  <2>7. ASSUME seen = 2, p.received < Len(p.vec), NEW begun \in BOOLEAN,
               t.h = [hw EXCEPT !.pt = Taken(p, begun)]
        PROVE  HasRoom(hw', ptc, rt')
    <3>1. /\ Taken(p, begun).state = 1 /\ Taken(p, begun).received = p.received + 1
          /\ Len(Taken(p, begun).vec) = Len(p.vec)
      BY <1>3, <2>7, TakenIs
    <3>2. hw'.pt = Taken(p, begun) /\ hw'.crashed = hw.crashed
      BY <2>3, <2>7
    <3>3. /\ ptc.active /\ ptc.index = p.received + 1 /\ Len(p.vec) = Points[ptc.goal]
          /\ ptc.index <= Points[ptc.goal]
      BY <2>1, <2>2, <2>7 DEF FitsAt
    <3>4. FitsAt(hw', ptc, 1)
      BY <3>1, <3>2, <3>3 DEF FitsAt
    <3> QED
      BY <1>4, <1>5, <3>1, <3>2, <3>3, <3>4 DEF HasRoom
  <2>8. CASE seen = 3 /\ t.h = [hw EXCEPT !.pt = Complete(p)]
    <3>a. Complete(p).state = 4
      BY <1>3, OutcomesAre DEF Members
    <3>b. hw'.pt = Complete(p) /\ hw'.crashed = hw.crashed
      BY <2>3, <2>8
    <3>1. hw'.pt.state = 4 /\ hw'.crashed = hw.crashed
      BY <3>a, <3>b
    <3>2. FitsAt(hw', ptc, 4) /\ ptc.active
      BY <2>2, <2>8 DEF FitsAt
    <3> QED
      BY <1>4, <1>5, <3>1, <3>2 DEF HasRoom
  <2>9. CASE seen = 4 /\ t.h = [hw EXCEPT !.pt = [p EXCEPT !.vec = <<>>]]
    <3>1. [p EXCEPT !.vec = <<>>].state = p.state
      BY <1>3, PassthroughFields
    <3>2. hw'.pt.state = p.state /\ hw'.crashed = hw.crashed
      BY <2>3, <2>9, <3>1
    <3>3. p.state \in {4, 5} /\ ptc.active
      BY <1>1, <1>4, <1>8, <2>2, <2>9 DEF HasRoom
    <3>4. FitsAt(hw', ptc, 4) /\ FitsAt(hw', ptc, 5)
      BY DEF FitsAt
    <3> QED
      BY <1>4, <1>5, <3>2, <3>3, <3>4 DEF HasRoom
  <2> QED
    BY <1>8, <2>4, <2>5, <2>6, <2>7, <2>8, <2>9 DEF Transferred
<1>9. CASE hw' # hw
  <2>1. PICK seen \in {rt.seen, hw.pt.state} :
           Aside(Motion([h |-> hw, n |-> net], seen), [h |-> hw', n |-> net'])
    BY <1>9, WriteIs
  <2>2. PICK s : s = [h |-> hw, n |-> net]
    OBVIOUS
  <2>3. s.h = hw /\ s.n = net /\ WholeSides(s) /\ Sound(s.h.pt)
    BY <2>2 DEF WholeSides, Members
  <2>4. seen \in 0..6
    BY <1>3, PassthroughFields DEF Members
  <2>5. PICK t : t = Motion(s, seen)
    OBVIOUS
  <2>6. Followed(s, t, seen)
    BY <2>3, <2>4, <2>5, MotionFollows
  <2>7. hw'.pt = t.h.pt /\ hw'.crashed = t.h.crashed
    BY <2>1, <2>2, <2>5 DEF Aside
  <2>8. CASE t.h = s.h
    BY <1>6, <2>3, <2>7, <2>8
  <2>9. CASE \E u : u.h = s.h /\ Transferred(u, t, seen)
    <3>1. PICK u : u.h = s.h /\ Transferred(u, t, seen)
      BY <2>9
    <3> QED
      BY <1>8, <2>3, <2>7, <3>1
  <2> QED
    BY <2>6, <2>8, <2>9 DEF Followed
<1> QED
  BY <1>7, <1>9

(***************************************************************************)
(* Types, and room for the points: all steps together.                     *)
(***************************************************************************)
Setting == /\ Members
           /\ IF session = "motion" THEN Typed(MotionTypes) /\ Sequenced(ex) ELSE Typed(GoalPoint)

LEMMA SettingStarts == Init => Setting /\ Room
<1> SUFFICES ASSUME Init PROVE Setting /\ Room
  OBVIOUS
<1>1. /\ hw = [modes |-> {}, program |-> FALSE, playing |-> FALSE, fresh |-> FALSE,
               start |-> {}, stop |-> {}, crashed |-> FALSE,
               pt |-> Exported.pt, tc |-> Exported.tc, fd |-> Exported.fd, fm |-> Exported.fm]
      /\ rt = [phase |-> "read", seen |-> 0]
  BY DEF Init, HardwareInit
<1>2. /\ hw.pt = Exported.pt /\ hw.tc = Exported.tc /\ hw.fd = Exported.fd /\ hw.fm = Exported.fm
      /\ ~hw.crashed
  BY <1>1
<1>3. PICK p : p = Exported.pt
  OBVIOUS
<1>4. p = [state |-> 0, abort |-> 0, size |-> 0, point |-> NoPoint, vec |-> <<>>,
           received |-> 0, sent |-> 0, started |-> FALSE, late |-> FALSE]
  BY <1>3 DEF Exported
<1>5. Sound(p) /\ p.state = 0
  BY <1>4 DEF Sound
<1>6. p \in PassthroughMembers
  <2>1. NoPoint \in Seq(Nat) /\ <<>> \in Seq(Seq(Nat))
    BY NoQueue DEF NoPoint
  <2>2. 0 \in 0..6 /\ 0 \in {0, 1} /\ 0 \in Nat
    OBVIOUS
  <2> QED
    BY <1>4, <2>1, <2>2, ZenonT(30) DEF PassthroughMembers
<1>7. Exported.tc \in ContactMembers /\ Exported.fd \in FreedriveMembers /\ Exported.fm \in ForceMembers
  BY DEF Exported, ContactMembers, FreedriveMembers, ForceMembers, NoCmd, Cmd
<1>8. hw \in Hardware
  BY <1>1, <1>3, <1>6, <1>7 DEF Hardware
<1>9. DOMAIN rt = {"phase", "seen"} /\ rt.seen = 0 /\ rt.phase = "read"
  BY <1>1
<1>10. /\ ptc \in Passthrough /\ ~ptc.active /\ ptc.accepting = NoGoal /\ ~ptc.cancelling
  BY DEF Init, PassthroughInit, Passthrough, Handles
<1>11. tcc \in ToolContact /\ fdc \in Freedrive
  BY DEF Init, ToolContactInit, ToolContact, FreedriveInit, Freedrive
<1>12. fmc \in ForceMode
  BY DEF Init, ForceModeInit, ForceMode, NoCmd, Cmd
<1>13. Members
  BY <1>2, <1>3, <1>5, <1>8, <1>9, <1>10, <1>11, <1>12 DEF Members
<1>14. ASSUME NEW points PROVE Typed(points)
  <2>1. /\ robot = [on |-> FALSE, mode |-> "uninitialized", left |-> 0, thread |-> FALSE, run |-> <<>>,
                    freedrive |-> FALSE, tool |-> FALSE, touched |-> FALSE, force |-> FALSE]
        /\ net = [peer |-> "none", rev |-> <<>>, trj |-> <<>>, res |-> <<>>, scr |-> <<>>, ans |-> <<>>]
    BY DEF Init, ExternalControlInit
  <2>2. robot \in RobotProgram(points) /\ robot.left = 0
    BY <2>1, NoQueue DEF RobotProgram, ControlModes
  <2>3. Lines(net, points)
    BY <2>1, NoQueue, PeersAre DEF Lines, NetKeys
  <2> QED
    BY <2>2, <2>3 DEF Typed
<1>15. Sequenced(ex)
  BY NoQueue DEF Init, ExecutorInit, NoMotion, Sequenced
<1>16. Room
  BY <1>2, <1>3, <1>5, <1>9, <1>10 DEF Room, Inert, HasRoom
<1> QED
  BY <1>13, <1>14, <1>15, <1>16 DEF Setting

LEMMA Stands ==
  ASSUME UNCHANGED <<robot, net, clean, hw, rt, ptc, tcc, fdc, fmc, session, ex>>
  PROVE  (Setting => Setting') /\ (Room => Room')
BY DEF Setting, Members, Typed, Room, Inert

\* The library's executor: nothing of the hardware interface moves.
LEMMA ExecutorSettles ==
  ASSUME Setting, Room, session = "motion", Executor \/ Pendant
  PROVE  Setting' /\ Room'
<1>1. UNCHANGED <<hw, rt, ptc, tcc, fdc, fmc, session>>
  BY DEF Executor, ByExecutor, Pendant, ctrls, setup
<1>2. clean' => clean
  <2>1. CASE Pendant
    BY <2>1 DEF Pendant, StartProgram, StopProgram, ReceiveTimeout, Upset
  <2>2. CASE Executor
    BY <2>2 DEF Executor, ByExecutor, ExecutingThread, CancellingThread, Worker, TrajResultsIgnored, RobotReads,
           RobotMoves, CancelMotion, ExecuteMotion, WritePoint, SetRunning, ClearCancel, Noop, LoopEnds, FinishMotion,
           CancelRequested, WaitForCancel, CancelReturns, TrajDoneCallback, TrajDisconnectCallback,
           TrajConnectCallback, Stay, Upset, ReadCommand, ExecutePoint, FinishTrajectory, PointMissing
  <2> QED
    BY <2>1, <2>2
<1>3. Room'
  BY <1>1, <1>2 DEF Room, Inert
<1>4. Typed(MotionTypes) /\ Sequenced(ex) /\ Members
  BY DEF Setting
<1>5. Typed(MotionTypes)' /\ Sequenced(ex')
  <2>1. CASE Pendant
    <3>1. ex' = ex /\ (StartProgram \/ StopProgram \/ ReceiveTimeout)
      BY <2>1 DEF Pendant, setup
    <3> QED
      BY <1>4, <3>1, PendantTyped
  <2>2. CASE Executor
    BY <1>4, <2>2, ExecutorTyped
  <2> QED
    BY <2>1, <2>2
<1>6. Members'
  BY <1>1, <1>4 DEF Members
<1> QED
  BY <1>1, <1>3, <1>5, <1>6 DEF Setting

LEMMA SettingStep ==
  ASSUME Setting, Room, FlagsInv, [Next]_vars
  PROVE  Setting' /\ Room'
<1>1. CASE UNCHANGED vars
  BY <1>1, Stands DEF vars, driver, ctrls, setup
<1>2. CASE session = "motion" /\ Next
  BY <1>2, ExecutorSettles DEF Next, Executor, Pendant
<1>3. CASE session # "motion" /\ Next
  <2>1. Members /\ Typed(GoalPoint) /\ Lines(net, GoalPoint) /\ DOMAIN net = NetKeys /\ ~hw.crashed
    BY <1>3 DEF Setting, Typed, Lines, Next
  <2>2. session' = session
    BY <1>3 DEF Next, setup, Executor, ByExecutor, Pendant, RequestSwitch, Switch, Read, Update, Write, Clients,
           FrictionModel, Async, Workers, Robot
  <2>3. ASSUME Members', Typed(GoalPoint)', Room' PROVE Setting' /\ Room'
    BY <1>3, <2>2, <2>3 DEF Setting
  <2>4. ASSUME Around, Cast', Typed(GoalPoint)' PROVE Setting' /\ Room'
    <3>1. Members'
      BY <2>1, <2>4, AroundIs
    <3>2. Room'
      BY <2>4, AroundRoom
    <3> QED
      BY <2>3, <2>4, <3>1, <3>2
  <2>5. ASSUME NEW on \in {A \in SUBSET Controllers : Cardinality(A) <= 2}, NEW off \in SUBSET cm.active,
               RequestSwitch(on, off)
        PROVE  Setting' /\ Room'
    BY <2>1, <2>4, <2>5, RequestSwitchAround
  <2>6. CASE Switch
    <3>1. Members' /\ SameLines(net, net')
      BY <2>1, <2>6, SwitchIs
    <3>2. robot' = robot
      BY <2>6 DEF Switch
    <3>3. Typed(GoalPoint)'
      BY <2>1, <3>1, <3>2, LinesStay DEF Typed
    <3>4. Room'
      BY <2>1, <2>6, SwitchRoom
    <3> QED
      BY <2>3, <3>1, <3>3, <3>4
  <2>7. ASSUME NEW fresh \in BOOLEAN, Read(fresh) PROVE Setting' /\ Room'
    <3>1. /\ Members' /\ Typed(GoalPoint)' /\ UNCHANGED <<ptc, session, clean>> /\ Beside(hw, hw')
          /\ rt' = [phase |-> "update", seen |-> hw.pt.state]
      BY <2>1, <2>7, ReadIs
    <3> QED
      BY <2>3, <3>1, ReadRoom
  <2>8. CASE Update
    <3>1. Members' /\ net' = net
      BY <2>1, <2>8, UpdateIs
    <3>2. robot' = robot
      BY <2>8 DEF Update
    <3>3. Typed(GoalPoint)'
      BY <2>1, <3>1, <3>2 DEF Typed
    <3> QED
      BY <2>1, <2>3, <2>8, <3>1, <3>3, UpdateRoom
  <2>9. CASE Write
    <3>1. Members' /\ Lines(net', GoalPoint)
      BY <2>1, <2>9, WriteIs
    <3>2. robot' = robot
      BY <2>9 DEF Write
    <3>3. Typed(GoalPoint)'
      BY <2>1, <3>1, <3>2 DEF Typed
    <3> QED
      BY <2>1, <2>3, <2>9, <3>1, <3>3, WriteRoom
  <2>10. CASE Clients /\ session = "trajectory"
    <3>1. /\ PassthroughServer \/ \E g \in Goals : AcceptGoal(g)
          /\ UNCHANGED <<tcc, fdc, fmc>>
      BY <2>10 DEF Clients
    <3>2. ptc' \in Passthrough /\ UNCHANGED <<robot, net, hw, rt>>
      BY <2>1, <3>1, GoalClients
    <3>3. Members' /\ Typed(GoalPoint)'
      BY <2>1, <3>1, <3>2 DEF Members, Typed
    <3>4. Room'
      BY <2>1, <2>2, <2>10, <3>1, ClientsRoom
    <3> QED
      BY <2>3, <3>3, <3>4
  <2>11. CASE Clients /\ session # "trajectory"
    BY <2>1, <2>4, <2>11, ClientsAround
  <2>12. CASE FrictionModel /\ rt' = rt
    BY <2>1, <2>4, <2>12, FrictionAround
  <2>13. CASE FrictionModel /\ rt' # rt
    <3>1. /\ Members' /\ Typed(GoalPoint)' /\ UNCHANGED <<hw, ptc, session, clean>>
          /\ rt' = [phase |-> "write", seen |-> hw.pt.state]
      BY <2>1, <2>13, FrictionCycleIs
    <3> QED
      BY <2>3, <3>1, FrictionCycleRoom
  <2>14. CASE Async
    BY <2>1, <2>4, <2>14, AsyncAround
  <2>15. CASE Workers
    <3>1. UNCHANGED <<ctrls, async, setup, cm>>
      BY <2>15 DEF Workers
    <3>2. CASE TrajectoryDoneAbort \/ TrajectoryDoneState
      <4>1. /\ Members' /\ Typed(GoalPoint)' /\ UNCHANGED <<rt, ptc, session, clean>>
            /\ hw'.pt.state \in {hw.pt.state, 5} /\ Level(hw, hw')
        BY <2>1, <3>1, <3>2, TrajectoryDoneIs DEF Level
      <4> QED
        BY <2>3, <4>1, TrajectoryDoneRoom
    <3>3. CASE ProgramConnected \/ ProgramDisconnected \/ ToolContactDone \/ ResultsCoalesced \/ ContactsCoalesced
      BY <2>1, <2>4, <3>1, <3>3, WorkersAround
    <3> QED
      BY <2>15, <3>2, <3>3 DEF Workers, Callbacks
  <2>16. CASE Robot \/ Pendant
    BY <2>1, <2>4, <2>16, RobotAround
  <2>17. ~Executor
    BY <1>3 DEF Executor, ByExecutor
  <2> QED
    BY <1>3, <2>5, <2>6, <2>7, <2>8, <2>9, <2>10, <2>11, <2>12, <2>13, <2>14, <2>15, <2>16, <2>17 DEF Next
<1> QED
  BY <1>1, <1>2, <1>3

\* The hardware interface stores a point only where there is room for it,
\* though the size, the points and the state are handed over through scalars
\* that the controller and the two threads of the interface write in turn
\* (PassthroughTrajectoryController::update(), check_passthrough_trajectory_
\* controller()); and the driver's and the program's state keeps its type.
THEOREM PointsHaveRoom == Spec => []PointsFit
<1> DEFINE Inv == Setting /\ Room /\ FlagsInv /\ RequestsInv
<1>1. Init => Inv
  BY SettingStarts, FlagsStart, GpioStarts, FrictionStarts
     DEF RequestsInv, PhaseInv, Init, HardwareInit, FrictionInit
<1>2. Inv /\ [Next]_vars => Inv'
  BY SettingStep, FlagsStep, RequestsHold
<1>3. Inv => PointsFit
  <2> SUFFICES ASSUME Setting, Room, RequestsInv PROVE PointsFit
    OBVIOUS
  <2>1. gpio \in Gpio /\ frc \in Friction
    BY DEF RequestsInv, GpioInv, FrictionInv
  <2>2. DriverTypeOK
    <3>1. robot \in RobotProgram(IF session = "motion" THEN MotionTypes ELSE Goals \X Nat)
      BY DEF Setting, Typed, GoalPoint
    <3> QED
      BY <2>1, <3>1 DEF DriverTypeOK, Setting, Members
  <2>3. ASSUME clean, hw.pt.state = 2 PROVE hw.pt.received < Len(hw.pt.vec)
    <3>1. HasRoom(hw, ptc, rt)
      BY <2>3 DEF Room
    <3>2. ptc.active /\ FitsAt(hw, ptc, 2)
      BY <2>3, <3>1 DEF HasRoom
    <3>3. /\ ptc.index = hw.pt.received + 1 /\ Len(hw.pt.vec) = Points[ptc.goal]
          /\ ptc.index <= Points[ptc.goal]
      BY <3>2 DEF FitsAt
    <3>4. hw.pt.received \in Nat
      BY HardwareIs DEF Setting, Members, PassthroughMembers
    <3> QED
      BY <3>3, <3>4
  <2> QED
    BY <2>2, <2>3 DEF PointsFit, Room, HasRoom
<1> QED
  BY <1>1, <1>2, <1>3, PTL DEF Spec

-----------------------------------------------------------------------------
(***************************************************************************)
(* What the robot executes.  First the sequences: the points of a goal, in *)
(* order, and the queues they travel through.                              *)
(***************************************************************************)
UpTo(g, n) == [i \in 1..n |-> <<g, i>>]

LEMMA UpToIs ==
  ASSUME NEW g \in Goals, NEW n \in Nat
  PROVE  /\ UpTo(g, n) \in Seq(GoalPoint) /\ Len(UpTo(g, n)) = n
         /\ \A i \in 1..n : UpTo(g, n)[i] = <<g, i>>
<1>1. \A i \in 1..n : <<g, i>> \in GoalPoint
  BY DEF GoalPoint
<1>2. UpTo(g, n) \in [1..n -> GoalPoint]
  BY <1>1 DEF UpTo
<1>3. UpTo(g, n) \in Seq(GoalPoint)
  BY <1>2, SeqDef
<1>4. DOMAIN UpTo(g, n) = 1..n
  BY DEF UpTo
<1>5. Len(UpTo(g, n)) = n
  BY <1>3, <1>4, LenProperties
<1> QED
  BY <1>3, <1>5 DEF UpTo

LEMMA SamePoints ==
  ASSUME NEW g \in Goals, NEW n \in Nat, NEW q \in Seq(GoalPoint), Len(q) = n, \A i \in 1..n : q[i] = <<g, i>>
  PROVE  q = UpTo(g, n)
<1>1. PICK r \in Seq(GoalPoint) : r = UpTo(g, n)
  BY UpToIs
<1>2. Len(r) = n /\ \A i \in 1..n : r[i] = <<g, i>>
  BY <1>1, UpToIs
<1>3. q = r
  BY <1>2, SeqEqual
<1> QED
  BY <1>1, <1>3

LEMMA NonePoints ==
  ASSUME NEW g \in Goals
  PROVE  UpTo(g, 0) = <<>>
<1>1. PICK e : e = <<>>
  OBVIOUS
<1>2. e \in Seq(GoalPoint) /\ Len(e) = 0
  BY <1>1, EmptySeq
<1>3. \A i \in 1..0 : e[i] = <<g, i>>
  OBVIOUS
<1>4. 0 \in Nat
  OBVIOUS
<1> QED
  BY <1>1, <1>2, <1>3, <1>4, SamePoints

\* One point more, and what of the vector is sent.
LEMMA OneMore ==
  ASSUME NEW g \in Goals, NEW n \in Nat, NEW q, q = <<<<g, n + 1>>>>
  PROVE  q \in Seq(GoalPoint) /\ UpTo(g, n) \o q = UpTo(g, n + 1)
<1>1. <<g, n + 1>> \in GoalPoint
  BY DEF GoalPoint
<1>2. q \in Seq(GoalPoint) /\ Len(q) = 1 /\ q[1] = <<g, n + 1>>
  BY <1>1
<1>3. PICK r \in Seq(GoalPoint) : r = UpTo(g, n)
  BY UpToIs
<1>4. Len(r) = n /\ \A i \in 1..n : r[i] = <<g, i>>
  BY <1>3, UpToIs
<1>5. PICK s : s = r \o q
  OBVIOUS
<1>6. /\ s \in Seq(GoalPoint) /\ Len(s) = n + 1
      /\ \A i \in 1..(n + 1) : s[i] = IF i <= n THEN r[i] ELSE q[i - n]
  BY <1>2, <1>4, <1>5, ConcatProperties
<1>7. \A i \in 1..(n + 1) : s[i] = <<g, i>>
  <2> SUFFICES ASSUME NEW i \in 1..(n + 1) PROVE s[i] = <<g, i>>
    OBVIOUS
  <2>1. CASE i <= n
    BY <1>4, <1>6, <2>1
  <2>2. CASE ~(i <= n)
    <3>1. i = n + 1 /\ i - n = 1
      BY <2>2
    <3> QED
      BY <1>2, <1>6, <2>2, <3>1
  <2> QED
    BY <2>1, <2>2
<1>8. s = UpTo(g, n + 1)
  BY <1>6, <1>7, SamePoints
<1> QED
  BY <1>2, <1>3, <1>5, <1>8

LEMMA SentIs ==
  ASSUME NEW g \in Goals, NEW n \in Nat, NEW v, \A i \in 1..n : v[i] = <<g, i>>
  PROVE  /\ SubSeq(v, 1, n) = UpTo(g, n)
         /\ n > 0 => SubSeq(v, n, n) = <<<<g, n>>>>
<1>0. \A i \in 1..n : v[i] \in GoalPoint
  BY DEF GoalPoint
<1>1. SubSeq(v, 1, n) = UpTo(g, n)
  <2>1. PICK s : s = SubSeq(v, 1, n)
    OBVIOUS
  <2>2. /\ s \in Seq(GoalPoint) /\ Len(s) = n
        /\ \A i \in 1..n : s[i] = v[1 + i - 1]
    BY <1>0, <2>1, SubSeqProperties
  <2>3. \A i \in 1..n : s[i] = <<g, i>>
    BY <2>2
  <2> QED
    BY <2>1, <2>2, <2>3, SamePoints
<1>2. n > 0 => SubSeq(v, n, n) = <<<<g, n>>>>
  <2> SUFFICES ASSUME n > 0 PROVE SubSeq(v, n, n) = <<<<g, n>>>>
    OBVIOUS
  <2>1. PICK s : s = SubSeq(v, n, n)
    OBVIOUS
  <2>2. \A i \in n..n : v[i] \in GoalPoint
    BY <1>0
  <2>3. s \in Seq(GoalPoint) /\ Len(s) = 1 /\ s[1] = v[n]
    <3>1. /\ s \in Seq(GoalPoint) /\ Len(s) = IF n <= n THEN n - n + 1 ELSE 0
          /\ \A i \in 1..(n - n + 1) : s[i] = v[n + i - 1]
      BY <2>1, <2>2, SubSeqProperties
    <3> QED
      BY <3>1
  <2>4. PICK t : t = <<<<g, n>>>>
    OBVIOUS
  <2>5. t \in Seq(GoalPoint) /\ Len(t) = 1 /\ t[1] = <<g, n>>
    <3>1. <<g, n>> \in GoalPoint
      BY DEF GoalPoint
    <3> QED
      BY <2>4, <3>1
  <2>6. s = t
    <3>1. \A i \in 1..Len(s) : s[i] = t[i]
      BY <2>3, <2>5
    <3> QED
      BY <2>3, <2>5, <3>1, SeqEqual
  <2> QED
    BY <2>1, <2>4, <2>6
<1> QED
  BY <1>1, <1>2

\* A point passes from the socket into what has been executed.
LEMMA PointMoves ==
  ASSUME NEW S, NEW run \in Seq(S), NEW trj \in Seq(S), trj # <<>>
  PROVE  /\ Append(run, Head(trj)) \o Tail(trj) = run \o trj
         /\ Len(Append(run, Head(trj))) = Len(run) + 1
<1>1. Head(trj) \in S /\ Tail(trj) \in Seq(S) /\ Len(trj) \in Nat /\ Len(trj) > 0
      /\ Len(Tail(trj)) = Len(trj) - 1 /\ Head(trj) = trj[1]
      /\ \A i \in 1..(Len(trj) - 1) : Tail(trj)[i] = trj[i + 1]
  OBVIOUS
<1>2. PICK a, t : a = Append(run, Head(trj)) /\ t = Tail(trj)
  OBVIOUS
<1>3. /\ a \in Seq(S) /\ Len(a) = Len(run) + 1 /\ Len(run) \in Nat
      /\ \A i \in 1..Len(run) : a[i] = run[i]
      /\ a[Len(run) + 1] = trj[1]
  BY <1>1, <1>2
<1>4. PICK x, y : x = a \o t /\ y = run \o trj
  OBVIOUS
<1>5. /\ x \in Seq(S) /\ Len(x) = Len(run) + 1 + (Len(trj) - 1)
      /\ \A i \in 1..(Len(run) + 1 + (Len(trj) - 1)) :
             x[i] = IF i <= Len(run) + 1 THEN a[i] ELSE t[i - (Len(run) + 1)]
  BY <1>1, <1>2, <1>3, <1>4, ConcatProperties
<1>6. /\ y \in Seq(S) /\ Len(y) = Len(run) + Len(trj)
      /\ \A i \in 1..(Len(run) + Len(trj)) : y[i] = IF i <= Len(run) THEN run[i] ELSE trj[i - Len(run)]
  BY <1>4, ConcatProperties
<1>7. \A i \in 1..Len(x) : x[i] = y[i]
  <2> SUFFICES ASSUME NEW i \in 1..Len(x) PROVE x[i] = y[i]
    OBVIOUS
  <2>0. i \in 1..(Len(run) + Len(trj)) /\ Len(run) \in Nat /\ Len(trj) \in Nat
    BY <1>1, <1>3, <1>5
  <2>a. i \in 1..(Len(run) + 1 + (Len(trj) - 1))
    BY <2>0
  <2>b. /\ x[i] = IF i <= Len(run) + 1 THEN a[i] ELSE t[i - (Len(run) + 1)]
        /\ y[i] = IF i <= Len(run) THEN run[i] ELSE trj[i - Len(run)]
    BY <1>5, <1>6, <2>0, <2>a
  <2>1. CASE i <= Len(run)
    <3>1. x[i] = a[i] /\ y[i] = run[i] /\ i \in 1..Len(run)
      BY <2>0, <2>b, <2>1
    <3> QED
      BY <1>3, <3>1
  <2>2. CASE i = Len(run) + 1
    <3>1. i - Len(run) = 1 /\ ~(i <= Len(run)) /\ i <= Len(run) + 1
      BY <2>0, <2>2
    <3>2. y[i] = trj[1] /\ x[i] = a[i]
      BY <2>b, <3>1
    <3> QED
      BY <1>3, <2>2, <3>2
  <2>3. CASE i > Len(run) + 1
    <3>1. PICK j \in 1..(Len(trj) - 1) : j = i - (Len(run) + 1)
      <4>1. i - (Len(run) + 1) \in 1..(Len(trj) - 1)
        BY <2>0, <2>3
      <4> QED
        BY <4>1
    <3>2. x[i] = t[j] /\ y[i] = trj[j + 1]
      <4>1. i - Len(run) = j + 1 /\ ~(i <= Len(run) + 1) /\ ~(i <= Len(run))
        BY <2>0, <2>3, <3>1
      <4> QED
        BY <2>b, <3>1, <4>1
    <3> QED
      BY <1>1, <1>2, <3>1, <3>2
  <2> QED
    BY <2>0, <2>1, <2>2, <2>3
<1>8. Len(x) = Len(y)
  BY <1>1, <1>3, <1>5, <1>6
<1>9. x = y
  BY <1>5, <1>6, <1>7, <1>8, SeqEqual
<1> QED
  BY <1>2, <1>3, <1>4, <1>9

\* The last point has been executed.
LEMMA AllExecuted ==
  ASSUME NEW g \in Goals, NEW k \in Nat, NEW n \in Nat, k <= n,
         NEW run \in Seq(GoalPoint), NEW trj \in Seq(GoalPoint), run \o trj = UpTo(g, k), Len(run) = n
  PROVE  trj = <<>> /\ run = UpTo(g, n) /\ k = n
<1>1. Len(run \o trj) = n + Len(trj) /\ Len(trj) \in Nat
  BY ConcatProperties, LenProperties
<1>2. Len(UpTo(g, k)) = k
  BY UpToIs
<1>3. Len(trj) = 0 /\ k = n
  BY <1>1, <1>2
<1>4. trj = <<>>
  BY <1>3, EmptySeq
<1>5. run \o trj = run
  BY <1>4, ConcatEmptySeq
<1> QED
  BY <1>3, <1>4, <1>5

LEMMA Joined ==
  ASSUME NEW S, NEW a \in Seq(S), NEW b \in Seq(S), NEW c \in Seq(S)
  PROVE  a \o (b \o c) = (a \o b) \o c
BY ConcatAssociative, SMTT(30)

\* A queue with one more at its end, and with its first taken.
LEMMA QueueEnds ==
  ASSUME NEW S, NEW q \in Seq(S), NEW x \in S
  PROVE  /\ DOMAIN q = 1..Len(q) /\ Len(q) \in Nat
         /\ DOMAIN Append(q, x) = 1..(Len(q) + 1)
         /\ Append(q, x)[Len(q) + 1] = x
         /\ \A i \in 1..Len(q) : Append(q, x)[i] = q[i]
OBVIOUS

LEMMA QueueStarts ==
  ASSUME NEW S, NEW q \in Seq(S), q # <<>>
  PROVE  /\ DOMAIN q = 1..Len(q) /\ Len(q) \in Nat /\ Len(q) >= 1
         /\ Head(q) = q[1] /\ Head(q) \in S
         /\ DOMAIN Tail(q) = 1..(Len(q) - 1)
         /\ \A i \in 1..(Len(q) - 1) : Tail(q)[i] = q[i + 1]
OBVIOUS

(***************************************************************************)
(* A trajectory from the controller to the robot.  h, c and r are the      *)
(* driver's side: the interface's members, the controller's and what the   *)
(* cycle has loaded; n and b are the sockets and the robot program.        *)
(***************************************************************************)
NoStart(n) == \A i \in DOMAIN n.rev : n.rev[i].arg # "start"
NotDone(h, r, n) == n.res = <<>> /\ ~h.pt.late /\ h.pt.state # 5 /\ r.seen # 5

\* Nothing is under way to the robot, which is at rest.
Quiet(h, c, r, n, b) ==
    /\ NoStart(n) /\ NotDone(h, r, n) /\ ~b.thread /\ b.left = 0 /\ n.trj = <<>>
    /\ c.active /\ h.pt.started => h.pt.state \in {0, 6} /\ r.seen \in {0, 6}
\* The start has been sent: it waits to be read, the points run, or all ran.
Begun(h, c, r) ==
    /\ c.active /\ h.pt.started /\ h.pt.state \notin {0, 6}
    /\ r.phase # "read" => r.seen \notin {0, 6}
StartWaits(n, k) ==
    \E i \in DOMAIN n.rev :
       /\ n.rev[i] = Command("forward", "start", k)
       /\ \A j \in DOMAIN n.rev : /\ j # i => n.rev[j].arg # "start"
                                  /\ j > i => n.rev[j].mode = "forward"
Starting(h, c, r, n, b) ==
    /\ Begun(h, c, r) /\ NotDone(h, r, n) /\ ~b.thread /\ b.left = 0
    /\ n.trj = UpTo(c.goal, h.pt.sent) /\ StartWaits(n, Points[c.goal])
Running(h, c, r, n, b) ==
    /\ Begun(h, c, r) /\ NotDone(h, r, n) /\ NoStart(n) /\ b.thread
    /\ b.mode = "forward" /\ \A i \in DOMAIN n.rev : n.rev[i].mode = "forward"
    /\ b.run \o n.trj = UpTo(c.goal, h.pt.sent) /\ b.left = Points[c.goal] - Len(b.run)
Finished(h, c, r, n, b) ==
    /\ Begun(h, c, r) /\ NoStart(n) /\ ~b.thread /\ b.left = 0 /\ n.trj = <<>>
    /\ b.run = UpTo(c.goal, Points[c.goal]) /\ h.pt.received = Points[c.goal]
    /\ n.res # <<>> => n.res = <<"success">> /\ ~h.pt.late
    /\ n.res # <<>> \/ h.pt.late => h.pt.state # 5 /\ r.seen # 5
Stage(h, c, r, n, b) ==
    \/ Quiet(h, c, r, n, b) \/ Starting(h, c, r, n, b)
    \/ Running(h, c, r, n, b) \/ Finished(h, c, r, n, b)

\* What has been handed over are the goal's points, in order.
Content(h, c) ==
    c.active /\ h.pt.state \in 1..5 =>
       /\ h.pt.received <= Points[c.goal]
       /\ h.pt.vec # <<>> => \A i \in 1..h.pt.received : h.pt.vec[i] = <<c.goal, i>>
       /\ h.pt.state = 2 => h.pt.point = <<c.goal, c.index>>
\* The driver knows whether a program reads what it sends.
Linked(h, n, b) == /\ n.peer # "going" /\ (n.peer = "coming" => b.on)
                   /\ h.program => n.peer = "up"
Ordered == /\ Stage(hw, ptc, rt, net, robot) /\ Content(hw, ptc) /\ Linked(hw, net, robot)
           /\ hw.pt.abort = 0 /\ \A i \in DOMAIN net.rev : net.rev[i].arg # "cancel"
           /\ ptc.active \/ ptc.accepting # NoGoal => "passthrough" \in cm.active

\* The other modes rest in the session.
Alone == /\ cm.active \cup cm.on \cup cm.off \subseteq {"passthrough"}
         /\ hw.fm = Exported.fm /\ hw.fd = Exported.fd
         /\ async = "idle" /\ \A k \in Kinds : gpio.cmd[k] = None
         /\ net.scr = <<>> /\ ~robot.tool
GoalInv == session = "trajectory" => Alone /\ (clean => Ordered)

\* What a stage looks at.
LEMMA StageStays ==
  ASSUME NEW h, NEW k, NEW c, NEW r, NEW n, NEW m, NEW b, NEW d,
         k.pt.state = h.pt.state, k.pt.late = h.pt.late, k.pt.started = h.pt.started,
         k.pt.sent = h.pt.sent, k.pt.received = h.pt.received, m.rev = n.rev, m.trj = n.trj, m.res = n.res,
         d.thread = b.thread, d.left = b.left, d.mode = b.mode, d.run = b.run,
         Stage(h, c, r, n, b)
  PROVE  Stage(k, c, r, m, d)
<1>1. CASE Quiet(h, c, r, n, b)
  BY <1>1 DEF Stage, Quiet, NoStart, NotDone
<1>2. CASE Starting(h, c, r, n, b)
  BY <1>2 DEF Stage, Starting, Begun, NotDone, StartWaits
<1>3. CASE Running(h, c, r, n, b)
  BY <1>3 DEF Stage, Running, Begun, NoStart, NotDone
<1>4. CASE Finished(h, c, r, n, b)
  BY <1>4 DEF Stage, Finished, Begun, NoStart
<1> QED
  BY <1>1, <1>2, <1>3, <1>4 DEF Stage

\* The cycle loads the state that is there, or is over.
LEMMA StageLoaded ==
  ASSUME NEW h, NEW c, NEW r, NEW s, NEW n, NEW b,
         s.seen = h.pt.state \/ (s.phase = "read" /\ s.seen = 0),
         Stage(h, c, r, n, b)
  PROVE  Stage(h, c, s, n, b)
<1>1. CASE Quiet(h, c, r, n, b)
  BY <1>1 DEF Stage, Quiet, NotDone
<1>2. CASE Starting(h, c, r, n, b)
  BY <1>2 DEF Stage, Starting, Begun, NotDone
<1>3. CASE Running(h, c, r, n, b)
  BY <1>3 DEF Stage, Running, Begun, NotDone
<1>4. CASE Finished(h, c, r, n, b)
  BY <1>4 DEF Stage, Finished, Begun
<1> QED
  BY <1>1, <1>2, <1>3, <1>4 DEF Stage

LEMMA OrderedStays ==
  ASSUME Ordered, hw'.pt = hw.pt, hw'.program = hw.program,
         UNCHANGED <<robot, net, ptc>>, cm.active \subseteq cm'.active,
         rt' = rt \/ rt'.seen = hw.pt.state
  PROVE  Ordered'
<1>1. Stage(hw', ptc, rt, net, robot)
  BY StageStays DEF Ordered
<1>2. Stage(hw', ptc, rt', net, robot)
  BY <1>1, StageLoaded
<1> QED
  BY <1>2 DEF Ordered, Content, Linked

LEMMA RequestSwitchOrdered ==
  ASSUME Members, FlagsInv, Alone, clean => Ordered, session = "trajectory",
         NEW on \in SUBSET Controllers, NEW off \in SUBSET cm.active, RequestSwitch(on, off)
  PROVE  Alone' /\ (clean' => Ordered')
<1>1. DOMAIN hw = HardwareKeys /\ cm \in Manager
  BY DEF FlagsInv
<1>2. /\ hw' = [hw EXCEPT !.start = on, !.stop = off]
      /\ cm' = [cm EXCEPT !.on = on, !.off = off, !.asked = TRUE]
      /\ UNCHANGED <<robot, net, clean, rt, ptc, gpio, async>>
  BY DEF RequestSwitch, ctrls
<1>3. hw'.pt = hw.pt /\ hw'.program = hw.program /\ hw'.fm = hw.fm /\ hw'.fd = hw.fd
  BY <1>1, <1>2 DEF HardwareKeys
<1>4. cm'.active = cm.active /\ cm'.on = on /\ cm'.off = off
  BY <1>1, <1>2 DEF Manager
<1>5. on \subseteq {"passthrough"}
  BY DEF Controllers
<1>6. Alone'
  BY <1>2, <1>3, <1>4, <1>5 DEF Alone
<1> QED
  BY <1>2, <1>3, <1>4, <1>6, OrderedStays

LEMMA ReadOrdered ==
  ASSUME Members, FlagsInv, Alone, clean => Ordered, NEW fresh \in BOOLEAN, Read(fresh)
  PROVE  Alone' /\ (clean' => Ordered')
<1>1. DOMAIN hw = HardwareKeys
  BY DEF FlagsInv
<1>2. UNCHANGED <<robot, net, clean, ptc, gpio, async, cm>>
  BY DEF Read, ctrls
<1>3. hw'.pt = hw.pt /\ hw'.program = hw.program /\ hw'.fm = hw.fm /\ hw'.fd = hw.fd
  BY <1>1 DEF Read, HardwareKeys
<1>4. rt'.seen = hw.pt.state
  BY DEF Read
<1> QED
  BY <1>2, <1>3, <1>4, OrderedStays DEF Alone

\* No request of another mode is there for the async thread.
LEMMA AsyncRests ==
  ASSUME Alone
  PROVE  ~Async
<1>1. hw.fd.enable = NoCmd /\ hw.fd.activated = FALSE
  BY DEF Alone, Exported
<1>2. ~FreedriveAsync
  BY <1>1 DEF Alone, FreedriveAsync, AsyncEnable, AsyncEnabled, AsyncActivated, AsyncAbort, AsyncAborted
<1>3. ~GpioAsync
  BY GpioAssumption DEF Alone, GpioAsync, AsyncSend, AsyncForget
<1> QED
  BY <1>2, <1>3 DEF Async

\* The workers of the servers.
LEMMA LinkOrdered ==
  ASSUME Members, FlagsInv, Alone, clean => Ordered, UNCHANGED <<ctrls, async, setup, cm>>,
         ProgramConnected \/ ProgramDisconnected \/ ToolContactDone \/ ContactsCoalesced,
         DOMAIN net = NetKeys
  PROVE  Alone' /\ (clean' => Ordered')
<1>1. DOMAIN hw = HardwareKeys
  BY DEF FlagsInv
<1>2. UNCHANGED <<robot, clean, rt, ptc, gpio, async, cm>>
  BY DEF ProgramConnected, ProgramDisconnected, ToolContactDone, ContactsCoalesced, ctrls
<1>3. hw'.pt = hw.pt /\ hw'.fm = hw.fm /\ hw'.fd = hw.fd
  BY <1>1 DEF ProgramConnected, ProgramDisconnected, ToolContactDone, ContactsCoalesced, HardwareKeys
<1>4. net'.rev = net.rev /\ net'.trj = net.trj /\ net'.res = net.res /\ net'.scr = net.scr
  BY DEF ProgramConnected, ProgramDisconnected, ToolContactDone, ContactsCoalesced, NetKeys
<1>5. Alone'
  BY <1>2, <1>3, <1>4 DEF Alone
<1>6. ASSUME clean PROVE Ordered'
  <2>1. Ordered
    BY <1>6
  <2>2. Stage(hw', ptc', rt', net', robot')
    BY <1>2, <1>3, <1>4, <2>1, StageStays DEF Ordered
  <2>3. Linked(hw', net', robot')
    <3>1. CASE ProgramConnected
      BY <1>1, <2>1, <3>1 DEF Ordered, Linked, ProgramConnected, HardwareKeys, NetKeys
    <3>2. ~ProgramDisconnected
      BY <2>1 DEF Ordered, Linked, ProgramDisconnected
    <3>3. CASE ToolContactDone \/ ContactsCoalesced
      <4>1. hw'.program = hw.program /\ net'.peer = net.peer /\ robot' = robot
        BY <1>1, <3>3 DEF ToolContactDone, ContactsCoalesced, HardwareKeys, NetKeys
      <4> QED
        BY <2>1, <4>1 DEF Ordered, Linked
    <3> QED
      BY <3>1, <3>2, <3>3
  <2> QED
    BY <1>2, <1>3, <1>4, <2>1, <2>2, <2>3 DEF Ordered, Content
<1> QED
  BY <1>2, <1>5, <1>6

LEMMA ResultOrdered ==
  ASSUME Members, FlagsInv, Alone, clean => Ordered, UNCHANGED <<ctrls, async, setup, cm>>,
         TrajectoryDoneAbort \/ TrajectoryDoneState \/ ResultsCoalesced, Lines(net, GoalPoint)
  PROVE  Alone' /\ (clean' => Ordered')
<1>1. DOMAIN hw = HardwareKeys /\ DOMAIN net = NetKeys /\ hw.pt \in PassthroughMembers
  BY HardwareIs DEF FlagsInv, Lines, Members
<1>2. UNCHANGED <<robot, clean, rt, ptc, gpio, async, cm>>
  BY DEF TrajectoryDoneAbort, TrajectoryDoneState, ResultsCoalesced, ctrls
<1>3. hw'.program = hw.program /\ hw'.fm = hw.fm /\ hw'.fd = hw.fd
  BY <1>1 DEF TrajectoryDoneAbort, TrajectoryDoneState, ResultsCoalesced, HardwareKeys
<1>4. net'.rev = net.rev /\ net'.trj = net.trj /\ net'.peer = net.peer /\ net'.scr = net.scr
  BY <1>1 DEF TrajectoryDoneAbort, TrajectoryDoneState, ResultsCoalesced, NetKeys
<1>5. Alone'
  BY <1>2, <1>3, <1>4 DEF Alone
<1>7. net.res # <<>> \/ hw.pt.late
  <2>1. Len(net.res) >= 2 => net.res # <<>>
    <3>1. net.res \in Seq(Results)
      BY DEF Lines
    <3>2. \A q \in Seq(Results) : Len(q) >= 2 => q # <<>>
      OBVIOUS
    <3> QED
      BY <3>1, <3>2
  <2> QED
    BY <2>1 DEF TrajectoryDoneAbort, TrajectoryDoneState, ResultsCoalesced
<1>6. ASSUME clean PROVE Ordered'
  <2>1. Ordered
    BY <1>6
  <2>2. net.res # <<>> \/ hw.pt.late => Finished(hw, ptc, rt, net, robot)
    <3>1. NotDone(hw, rt, net) => net.res = <<>> /\ ~hw.pt.late
      BY DEF NotDone
    <3>2. ~NotDone(hw, rt, net) => Finished(hw, ptc, rt, net, robot)
      BY <2>1 DEF Ordered, Stage, Quiet, Starting, Running
    <3> QED
      BY <3>1, <3>2
  <2>3. net.res # <<>> => Head(net.res) = "success" /\ Tail(net.res) = <<>> /\ Len(net.res) = 1
    <3>1. PICK r : r = "success"
      OBVIOUS
    <3>2. net.res # <<>> => net.res = <<r>>
      BY <2>2, <3>1 DEF Finished
    <3>3. Head(<<r>>) = r /\ Tail(<<r>>) = <<>> /\ Len(<<r>>) = 1
      OBVIOUS
    <3> QED
      BY <3>1, <3>2, <3>3
  <2>4. ~ResultsCoalesced
    <3>1. net.res \in Seq(Results) /\ (net.res # <<>> => Len(net.res) = 1)
      BY <2>3 DEF Lines
    <3>2. \A q \in Seq(Results) : Len(q) >= 2 => q # <<>>
      OBVIOUS
    <3>3. PICK n : n = Len(net.res)
      OBVIOUS
    <3>4. n >= 2 => n = 1
      BY <3>1, <3>2, <3>3
    <3>5. ~(n >= 2)
      BY <3>4
    <3> QED
      BY <3>3, <3>5 DEF ResultsCoalesced
  <2>5. ASSUME Finished(hw', ptc', rt', net', robot'), hw'.pt.abort = 0,
               hw'.pt.state \in {5, hw.pt.state}, hw'.pt.received = hw.pt.received, hw'.pt.vec = hw.pt.vec,
               hw'.pt.point = hw.pt.point
        PROVE  Ordered'
    <3>1. hw'.pt.state = 5 => hw.pt.state \in 1..5
      <4>1. hw.pt.state \in 0..6
        BY <1>1, PassthroughFields
      <4>2. hw'.pt.state \notin {0, 6}
        BY <2>5 DEF Finished, Begun
      <4>3. net.res # <<>> \/ hw.pt.late \/ hw'.pt.state = hw.pt.state
        BY <2>5, <1>7
      <4>4. net.res # <<>> \/ hw.pt.late => hw.pt.state \notin {0, 6}
        BY <2>2 DEF Finished, Begun
      <4> QED
        BY <4>1, <4>2, <4>3, <4>4
    <3>2. Content(hw', ptc)
      <4>1. ASSUME ptc.active, hw'.pt.state \in 1..5
            PROVE  /\ hw'.pt.received <= Points[ptc.goal]
                   /\ hw'.pt.vec # <<>> => \A i \in 1..hw'.pt.received : hw'.pt.vec[i] = <<ptc.goal, i>>
                   /\ hw'.pt.state = 2 => hw'.pt.point = <<ptc.goal, ptc.index>>
        <5>1. hw.pt.state \in 1..5
          BY <2>5, <3>1, <4>1
        <5> QED
          BY <2>1, <2>5, <4>1, <5>1 DEF Ordered, Content
      <4> QED
        BY <4>1 DEF Content
    <3>3. Stage(hw', ptc, rt, net', robot) /\ Linked(hw', net', robot)
      BY <1>2, <1>3, <1>4, <2>1, <2>5 DEF Ordered, Stage, Linked
    <3> QED
      BY <1>2, <1>4, <2>1, <2>5, <3>2, <3>3 DEF Ordered
  <2>6. CASE TrajectoryDoneAbort
    <3>1. net.res # <<>> /\ ~hw.pt.late
      BY <2>6 DEF TrajectoryDoneAbort
    <3>2. Head(net.res) # "failure"
      BY <2>3, <3>1
    <3>3. Flag(Head(net.res) = "failure") = 0
      BY <3>2 DEF Flag
    <3>4. net'.res = <<>>
      BY <1>1, <2>3, <2>6, <3>1 DEF TrajectoryDoneAbort, NetKeys
    <3>5. hw' = [hw EXCEPT !.pt.abort = 0, !.pt.late = TRUE]
      BY <2>6, <3>3 DEF TrajectoryDoneAbort
    <3>6. PICK q : q = [hw.pt EXCEPT !.abort = 0, !.late = TRUE]
      OBVIOUS
    <3>7. hw'.pt = q
      BY <1>1, <3>5, <3>6 DEF HardwareKeys
    <3>8. /\ q.abort = 0 /\ q.late = TRUE /\ q.state = hw.pt.state /\ q.received = hw.pt.received
          /\ q.vec = hw.pt.vec /\ q.point = hw.pt.point /\ q.started = hw.pt.started
      BY <1>1, <3>6, PassthroughFields
    <3>9. Finished(hw', ptc', rt', net', robot')
      BY <1>2, <1>4, <2>2, <3>1, <3>4, <3>7, <3>8 DEF Finished, Begun, NoStart
    <3> QED
      BY <2>5, <3>7, <3>8, <3>9
  <2>7. CASE TrajectoryDoneState
    <3>1. hw.pt.late /\ net' = net
      BY <2>7 DEF TrajectoryDoneState
    <3>2. hw' = [hw EXCEPT !.pt.state = 5, !.pt.late = FALSE]
      BY <2>7 DEF TrajectoryDoneState
    <3>3. PICK q : q = [hw.pt EXCEPT !.state = 5, !.late = FALSE]
      OBVIOUS
    <3>4. hw'.pt = q
      BY <1>1, <3>2, <3>3 DEF HardwareKeys
    <3>5. /\ q.abort = hw.pt.abort /\ q.late = FALSE /\ q.state = 5 /\ q.received = hw.pt.received
          /\ q.vec = hw.pt.vec /\ q.point = hw.pt.point /\ q.started = hw.pt.started
      BY <1>1, <3>3, PassthroughFields
    <3>6. Finished(hw', ptc', rt', net', robot')
      BY <1>2, <2>2, <3>1, <3>4, <3>5 DEF Finished, Begun, NoStart
    <3> QED
      BY <2>1, <2>5, <3>4, <3>5, <3>6 DEF Ordered
  <2> QED
    BY <2>4, <2>6, <2>7
<1> QED
  BY <1>2, <1>5, <1>6

LEMMA PendantOrdered ==
  ASSUME Members, FlagsInv, Alone, clean => Ordered, session = "trajectory", Pendant, Typed(GoalPoint)
  PROVE  Alone' /\ (clean' => Ordered')
<1>1. DOMAIN hw = HardwareKeys /\ DOMAIN net = NetKeys
  BY DEF FlagsInv, Typed, Lines
<1>2. UNCHANGED <<hw, rt, ptc, gpio, async, cm>>
  BY DEF Pendant, ctrls
<1>3. CASE StartProgram
  <2>1. /\ net'.rev = net.rev /\ net'.trj = net.trj /\ net'.res = net.res /\ net'.scr = net.scr
        /\ net'.peer = "coming" /\ net.peer = "none"
    BY <1>1, <1>3 DEF StartProgram, NetKeys
  <2>2. /\ robot'.on = TRUE /\ robot'.thread = robot.thread /\ robot'.left = robot.left
        /\ robot'.mode = robot.mode /\ robot'.run = robot.run /\ robot'.tool = robot.tool
    BY <1>3, RobotFields DEF StartProgram, Typed
  <2>3. clean' = clean
    BY <1>3 DEF StartProgram
  <2>4. Alone'
    BY <1>2, <2>1, <2>2 DEF Alone
  <2>5. ASSUME Ordered PROVE Ordered'
    <3>1. Stage(hw', ptc', rt', net', robot')
      BY <1>2, <2>1, <2>2, <2>5, StageStays DEF Ordered
    <3>2. Linked(hw', net', robot')
      BY <1>2, <2>1, <2>2, <2>5 DEF Ordered, Linked
    <3> QED
      BY <1>2, <2>1, <2>5, <3>1, <3>2 DEF Ordered
  <2> QED
    BY <2>3, <2>4, <2>5
<1>4. CASE StopProgram
  <2>1. net'.scr = <<>> /\ robot'.tool = FALSE /\ clean' = FALSE
    BY <1>1, <1>4, RobotFields DEF StopProgram, Halted, Closed, Upset, NetKeys, Typed
  <2> QED
    BY <1>2, <2>1 DEF Alone
<1> QED
  BY <1>3, <1>4 DEF Pendant

\* A switch in the session: of the other modes nothing moves.
LEMMA PerformAlone ==
  ASSUME NEW s, WholeSides(s), s.h.start \cup s.h.stop \subseteq {"passthrough"}, NEW t, t = PerformSwitch(s)
  PROVE  /\ t.n = s.n /\ t.h.fm = s.h.fm /\ t.h.fd = s.h.fd /\ t.h.program = s.h.program
         /\ s.h.stop = {} /\ s.h.pt.abort = 0 => t.h.pt.abort = 0
<1>0. DOMAIN s = {"h", "n"} /\ DOMAIN s.h = HardwareKeys /\ s.h.pt \in PassthroughMembers
  BY HardwareIs DEF WholeSides
<1>1. "force" \notin s.h.stop /\ "freedrive" \notin s.h.stop \cup s.h.start /\ "tool_contact" \notin s.h.stop
  OBVIOUS
<1>2. PICK a : a = PerformStops(s)
  OBVIOUS
<1>3. a = IF "passthrough" \in s.h.stop THEN [s EXCEPT !.h.pt.abort = 1, !.h.pt.vec = <<>>] ELSE s
  BY <1>1, <1>2 DEF PerformStops
<1>4. PICK q : q = [s.h.pt EXCEPT !.abort = 1, !.vec = <<>>]
  OBVIOUS
<1>5. a = s \/ a = [s EXCEPT !.h = [s.h EXCEPT !.pt = q]]
  BY <1>3, <1>4
<1>6. /\ DOMAIN a = {"h", "n"} /\ a.n = s.n /\ DOMAIN a.h = HardwareKeys
      /\ a.h.fm = s.h.fm /\ a.h.fd = s.h.fd /\ a.h.program = s.h.program /\ a.h.start = s.h.start
      /\ s.h.stop = {} => a = s
  BY <1>0, <1>3, <1>5 DEF HardwareKeys
<1>7. PICK b : b = PerformStarts(a)
  OBVIOUS
<1>8. b = IF "passthrough" \in a.h.start THEN [a EXCEPT !.h.pt.abort = 0] ELSE a
  BY <1>1, <1>6, <1>7 DEF PerformStarts
<1>9. PICK r : r = [a.h.pt EXCEPT !.abort = 0]
  OBVIOUS
<1>10. b = a \/ b = [a EXCEPT !.h = [a.h EXCEPT !.pt = r]]
  BY <1>8, <1>9
<1>11. s.h.stop = {} => r.abort = 0
  BY <1>0, <1>6, <1>9, PassthroughFields
<1>12. /\ DOMAIN b = {"h", "n"} /\ b.n = s.n /\ DOMAIN b.h = HardwareKeys
       /\ b.h.fm = s.h.fm /\ b.h.fd = s.h.fd /\ b.h.program = s.h.program
       /\ s.h.stop = {} /\ s.h.pt.abort = 0 => b.h.pt.abort = 0
  BY <1>6, <1>10, <1>11 DEF HardwareKeys
<1>13. PICK M : M = Performed(s.h.modes, s.h.start, s.h.stop)
  OBVIOUS
<1>14. t = [b EXCEPT !.h = [b.h EXCEPT !.modes = M, !.start = {}, !.stop = {}]]
  BY <1>2, <1>7, <1>12, <1>13 DEF PerformSwitch
<1>15. PICK k : k = [b.h EXCEPT !.modes = M, !.start = {}, !.stop = {}]
  OBVIOUS
<1>16. k.fm = b.h.fm /\ k.fd = b.h.fd /\ k.program = b.h.program /\ k.pt = b.h.pt
  BY <1>12, <1>15 DEF HardwareKeys
<1>17. t.h = k /\ t.n = b.n
  BY <1>12, <1>14, <1>15
<1> QED
  BY <1>12, <1>16, <1>17

LEMMA DeactivateAlone ==
  ASSUME NEW h \in Hardware, NEW c, NEW r, r = PassthroughDeactivate(h, c)
  PROVE  r.h.fm = h.fm /\ r.h.fd = h.fd /\ r.h.program = h.program
<1>0. DOMAIN h = HardwareKeys
  BY HardwareIs
<1>1. PICK a : a = [h EXCEPT !.pt.abort = 1]
  OBVIOUS
<1>2. DOMAIN a = HardwareKeys /\ a.fm = h.fm /\ a.fd = h.fd /\ a.program = h.program
  BY <1>0, <1>1 DEF HardwareKeys
<1>3. PICK b, d : b = [a EXCEPT !.crashed = TRUE] /\ d = [a EXCEPT !.pt.state = 0]
  OBVIOUS
<1>4. \A k \in {a, b, d} : k.fm = h.fm /\ k.fd = h.fd /\ k.program = h.program
  BY <1>2, <1>3 DEF HardwareKeys
<1>5. r.h \in {a, b, d}
  BY <1>1, <1>3 DEF PassthroughDeactivate
<1> QED
  BY <1>4, <1>5

LEMMA SwitchAlone ==
  ASSUME Members, FlagsInv, Alone, Typed(GoalPoint), Switch
  PROVE  /\ net' = net /\ hw'.fm = hw.fm /\ hw'.fd = hw.fd /\ hw'.program = hw.program
         /\ cm.off = {} /\ hw.pt.abort = 0 => hw'.pt.abort = 0
         /\ cm'.active = (cm.active \ cm.off) \cup cm.on /\ cm'.on = {} /\ cm'.off = {}
<1>1. PICK s0 : s0 = [h |-> hw, n |-> net]
  OBVIOUS
<1>2. PICK s : s = PerformSwitch(s0)
  OBVIOUS
<1>3. PICK p : p = IF "passthrough" \in cm.off THEN PassthroughDeactivate(s.h, ptc) ELSE [h |-> s.h, c |-> ptc]
  OBVIOUS
<1>4. "force" \notin cm.off /\ "tool_contact" \notin cm.on /\ "freedrive" \notin cm.on
  BY DEF Alone
<1>5. hw' = p.h /\ net' = s.n
  BY <1>1, <1>2, <1>3, <1>4 DEF Switch
<1>6. WholeSides(s0) /\ s0.h = hw /\ s0.n = net
  BY <1>1 DEF WholeSides, Members
<1>7. s0.h.start \cup s0.h.stop \subseteq {"passthrough"} /\ s0.h.stop = cm.off
  BY <1>6 DEF FlagsInv, Alone
<1>8. /\ s.n = net /\ s.h.fm = hw.fm /\ s.h.fd = hw.fd /\ s.h.program = hw.program
      /\ cm.off = {} /\ hw.pt.abort = 0 => s.h.pt.abort = 0
  BY <1>2, <1>6, <1>7, PerformAlone
<1>9. s.h \in Hardware
  <2>1. DOMAIN s0.n = NetKeys /\ Sound(s0.h.pt)
    BY <1>6 DEF Typed, Lines, Members
  <2>2. Apart(s0, s)
    BY <1>2, <1>6, <2>1, PerformApart
  <2> QED
    BY <2>2 DEF Apart, WholeSides
<1>10. p.h.fm = s.h.fm /\ p.h.fd = s.h.fd /\ p.h.program = s.h.program
  BY <1>3, <1>9, DeactivateAlone
<1>11. cm.off = {} => p.h = s.h
  BY <1>3
<1>12. cm' = [cm EXCEPT !.active = (cm.active \ cm.off) \cup cm.on, !.on = {}, !.off = {}, !.asked = FALSE]
  BY DEF Switch
<1>13. cm'.active = (cm.active \ cm.off) \cup cm.on /\ cm'.on = {} /\ cm'.off = {}
  BY <1>12 DEF FlagsInv, Manager
<1> QED
  BY <1>5, <1>8, <1>10, <1>11, <1>13

LEMMA SwitchOrdered ==
  ASSUME Members, FlagsInv, Alone, clean => Ordered, session = "trajectory", Typed(GoalPoint), Switch
  PROVE  Alone' /\ (clean' => Ordered')
<1>0. DOMAIN net = NetKeys
  BY DEF Typed, Lines
<1>1. UNCHANGED <<robot, gpio, async>>
  BY DEF Switch
<1>2. Alone'
  BY <1>1, SwitchAlone DEF Alone
<1>3. ASSUME clean' PROVE Ordered'
  <2>1. clean /\ "passthrough" \notin cm.off
    BY <1>3 DEF Switch, Upset
  <2>2. Ordered /\ cm.off = {} /\ hw.stop = {}
    BY <1>3, <2>1 DEF Alone, FlagsInv
  <2>3. ptc' = ptc /\ Swapped(hw, hw') /\ hw'.pt.vec = hw.pt.vec /\ rt'.seen = hw'.pt.state
    BY <1>0, <2>1, <2>2, SwitchIs
  <2>4. Stage(hw', ptc, rt, net, robot)
    BY <2>2, <2>3, StageStays DEF Ordered, Swapped
  <2>5. Stage(hw', ptc', rt', net', robot')
    BY <1>1, <2>3, <2>4, StageLoaded, SwitchAlone
  <2>6. Content(hw', ptc') /\ Linked(hw', net', robot')
    BY <1>1, <2>2, <2>3, SwitchAlone DEF Ordered, Content, Linked, Swapped
  <2> QED
    BY <2>2, <2>3, <2>5, <2>6, SwitchAlone DEF Ordered
<1> QED
  BY <1>2, <1>3

\* What update() stores is of the transfer alone.
LEMMA HandedAlone ==
  ASSUME NEW h \in Hardware, NEW c, NEW seen, NEW r, HandedOver(h, c, seen, r)
  PROVE  r.h.fm = h.fm /\ r.h.fd = h.fd /\ r.h.program = h.program
<1>0. DOMAIN h = HardwareKeys
  BY HardwareIs
<1>1. \A q : LET k == [h EXCEPT !.pt = q] IN k.fm = h.fm /\ k.fd = h.fd /\ k.program = h.program
  BY <1>0 DEF HardwareKeys
<1>2. r.h = h \/ \E q : r.h = [h EXCEPT !.pt = q]
  BY DEF HandedOver
<1> QED
  BY <1>1, <1>2

LEMMA UpdateAlone ==
  ASSUME Members, Alone, Update
  PROVE  /\ \E seen \in {rt.seen, hw.pt.state} : \E r :
               HandedOver(hw, ptc, seen, r) /\ hw' = r.h /\ ptc' = r.c
         /\ hw'.fm = hw.fm /\ hw'.fd = hw.fd /\ hw'.program = hw.program
<1>1. "tool_contact" \notin cm.active /\ "freedrive" \notin cm.active /\ "force" \notin cm.active
  BY DEF Alone
<1>2. \E seen \in {rt.seen, hw.pt.state} :
      \E p \in IF "passthrough" \in cm.active THEN PassthroughUpdate(hw, ptc, seen)
               ELSE {[h |-> hw, c |-> ptc]} : hw' = p.h /\ ptc' = p.c
  BY <1>1 DEF Update
<1>3. PICK seen \in {rt.seen, hw.pt.state} :
      \E p \in IF "passthrough" \in cm.active THEN PassthroughUpdate(hw, ptc, seen)
               ELSE {[h |-> hw, c |-> ptc]} : hw' = p.h /\ ptc' = p.c
  BY <1>2
<1>4. PICK p \in IF "passthrough" \in cm.active THEN PassthroughUpdate(hw, ptc, seen)
                 ELSE {[h |-> hw, c |-> ptc]} : hw' = p.h /\ ptc' = p.c
  BY <1>3
<1>5. hw \in Hardware
  BY DEF Members
<1>6. HandedOver(hw, ptc, seen, p)
  <2>1. CASE "passthrough" \in cm.active
    <3>1. p \in PassthroughUpdate(hw, ptc, seen)
      BY <2>1
    <3> QED
      BY <1>5, <3>1, HandedOverIs
  <2>2. CASE "passthrough" \notin cm.active
    <3>1. p = [h |-> hw, c |-> ptc]
      BY <2>2
    <3>2. p.h = hw /\ p.c = ptc
      BY <3>1
    <3> QED
      BY <3>2 DEF HandedOver
  <2> QED
    BY <2>1, <2>2
<1>7. hw'.fm = hw.fm /\ hw'.fd = hw.fd /\ hw'.program = hw.program
  BY <1>4, <1>5, <1>6, HandedAlone
<1> QED
  BY <1>3, <1>4, <1>6, <1>7

\* The stages a loaded state excludes.
LEMMA StageSeen ==
  ASSUME NEW h, NEW c, NEW r, NEW n, NEW b, Stage(h, c, r, n, b),
         NEW seen \in {r.seen, h.pt.state}, r.phase # "read"
  PROVE  /\ seen = 5 => Finished(h, c, r, n, b) /\ n.res = <<>> /\ ~h.pt.late
         /\ h.pt.state = 5 => Finished(h, c, r, n, b) /\ n.res = <<>> /\ ~h.pt.late
         /\ seen \in {0, 6} => Quiet(h, c, r, n, b)
         /\ seen \notin {0, 6} /\ c.active /\ h.pt.started => ~Quiet(h, c, r, n, b)
         /\ ~(c.active /\ h.pt.started) => Quiet(h, c, r, n, b)
<1>1. CASE Quiet(h, c, r, n, b)
  BY <1>1 DEF Quiet, NotDone
<1>2. CASE Starting(h, c, r, n, b)
  BY <1>2 DEF Starting, Begun, NotDone, Quiet
<1>3. CASE Running(h, c, r, n, b)
  BY <1>3 DEF Running, Begun, NotDone, Quiet
<1>4. CASE Finished(h, c, r, n, b)
  BY <1>4 DEF Finished, Begun, Quiet
<1> QED
  BY <1>1, <1>2, <1>3, <1>4 DEF Stage

\* What is under way goes on while the controller hands points over.
LEMMA StageGoesOn ==
  ASSUME NEW h, NEW k, NEW c, NEW d, NEW r, NEW s, NEW n, NEW b,
         k.pt.state \in 1..4, s.seen = k.pt.state, d.active = c.active, d.goal = c.goal,
         k.pt.late = h.pt.late, k.pt.started = h.pt.started,
         k.pt.sent = h.pt.sent, k.pt.received = h.pt.received,
         Stage(h, c, r, n, b), Quiet(h, c, r, n, b) => ~(c.active /\ h.pt.started)
  PROVE  Stage(k, d, s, n, b)
<1>0. k.pt.state \notin {0, 5, 6} /\ s.seen \notin {0, 5, 6}
  OBVIOUS
<1>1. CASE Quiet(h, c, r, n, b)
  BY <1>0, <1>1 DEF Stage, Quiet, NotDone
<1>2. CASE Starting(h, c, r, n, b)
  BY <1>0, <1>2 DEF Stage, Starting, Begun, NotDone
<1>3. CASE Running(h, c, r, n, b)
  BY <1>0, <1>3 DEF Stage, Running, Begun, NotDone
<1>4. CASE Finished(h, c, r, n, b)
  BY <1>0, <1>4 DEF Stage, Finished, Begun
<1> QED
  BY <1>1, <1>2, <1>3, <1>4 DEF Stage

LEMMA UpdateOrdered ==
  ASSUME Members, FlagsInv, Room, Alone, clean => Ordered, session = "trajectory", Typed(GoalPoint), Update
  PROVE  Alone' /\ (clean' => Ordered')
<1>1. UNCHANGED <<robot, net, clean, gpio, async, cm>>
  BY DEF Update
<1>2. Alone'
  BY <1>1, UpdateAlone DEF Alone
<1> SUFFICES ASSUME clean PROVE Ordered'
  BY <1>1, <1>2
<1>3. Ordered /\ HasRoom(hw, ptc, rt)
  BY DEF Room
<1>4. rt.phase = "update" /\ rt'.seen = hw'.pt.state
  BY UpdateIs
<1>5. PICK seen \in {rt.seen, hw.pt.state} : \E r : HandedOver(hw, ptc, seen, r) /\ hw' = r.h /\ ptc' = r.c
  BY UpdateAlone
<1>6. PICK r : HandedOver(hw, ptc, seen, r) /\ hw' = r.h /\ ptc' = r.c
  BY <1>5
<1> DEFINE p == hw.pt
<1>7. p \in PassthroughMembers /\ DOMAIN hw = HardwareKeys /\ ptc \in Passthrough
  BY HardwareIs DEF Members
<1>8. ASSUME NEW q, hw' = [hw EXCEPT !.pt = q] PROVE hw'.pt = q
  BY <1>7, <1>8 DEF HardwareKeys
<1>9. Stage(hw, ptc, rt, net, robot) /\ Linked(hw', net', robot')
  BY <1>1, <1>3, UpdateAlone DEF Ordered, Linked
<1>10. ptc.active => /\ ptc.goal # NoGoal /\ FitsAt(hw, ptc, seen) /\ ptc.accepting = NoGoal
                     /\ "passthrough" \in cm.active
  BY <1>3, <1>4, <1>5 DEF HasRoom, Ordered
<1>11. ~ptc.active => seen \in {0, 5}
  BY <1>3, <1>5 DEF HasRoom
<1>12. /\ seen = 5 => Finished(hw, ptc, rt, net, robot) /\ net.res = <<>> /\ ~p.late
       /\ p.state = 5 => Finished(hw, ptc, rt, net, robot)
       /\ seen \in {0, 6} => Quiet(hw, ptc, rt, net, robot)
       /\ seen = 1 => ~(Quiet(hw, ptc, rt, net, robot) /\ ptc.active /\ p.started)
  BY <1>4, <1>5, <1>9, StageSeen
<1>13. ASSUME Stage(hw', ptc', rt', net, robot), Content(hw', ptc'), hw'.pt.abort = 0,
              ptc'.active \/ ptc'.accepting # NoGoal => "passthrough" \in cm.active
       PROVE  Ordered'
  BY <1>1, <1>3, <1>9, <1>13 DEF Ordered
<1>14. CASE hw' = hw /\ ptc' = ptc
  <2>1. Stage(hw', ptc', rt', net, robot)
    BY <1>4, <1>9, <1>14, StageLoaded
  <2> QED
    BY <1>3, <1>13, <1>14, <2>1 DEF Ordered
<1>15. ASSUME ptc.active, seen = 5 \/ p.abort = 1, hw' = [hw EXCEPT !.pt = [p EXCEPT !.state = 0]],
              NEW x, ptc' = [ptc EXCEPT !.active = FALSE, !.status[ptc.goal] = x]
       PROVE  Ordered'
  <2>0. /\ DOMAIN ptc = {"goal", "active", "index", "accepting", "cancelling", "status"}
        /\ ptc.accepting = NoGoal
    BY <1>7, <1>10, <1>15, PassthroughAre
  <2>1. ptc'.active = FALSE /\ ptc'.accepting = NoGoal
    BY <1>15, <2>0
  <2>2. hw'.pt.state = 0 /\ hw'.pt.late = p.late /\ hw'.pt.abort = p.abort
    <3>1. PICK q : q = [p EXCEPT !.state = 0]
      OBVIOUS
    <3>2. q.state = 0 /\ q.late = p.late /\ q.abort = p.abort
      BY <1>7, <3>1, PassthroughFields
    <3>3. hw'.pt = q
      BY <1>8, <1>15, <3>1
    <3> QED
      BY <3>2, <3>3
  <2>3. p.abort = 0 /\ seen = 5
    BY <1>3, <1>15 DEF Ordered
  <2>4. Quiet(hw', ptc', rt', net, robot)
    BY <1>4, <1>12, <2>1, <2>2, <2>3 DEF Finished, Quiet, NotDone
  <2> QED
    BY <1>13, <2>1, <2>2, <2>3, <2>4 DEF Stage, Content
<1>16. CASE /\ ptc.active /\ seen = 0 /\ ptc' = ptc
            /\ hw' = [hw EXCEPT !.pt = [p EXCEPT !.state = 6, !.size = Points[ptc.goal]]]
  <2>1. PICK q : q = [p EXCEPT !.state = 6, !.size = Points[ptc.goal]]
    OBVIOUS
  <2>2. q.state = 6 /\ q.late = p.late /\ q.abort = p.abort /\ q.started = p.started
    BY <1>7, <2>1, PassthroughFields
  <2>3. hw'.pt = q
    BY <1>8, <1>16, <2>1
  <2>4. Quiet(hw', ptc', rt', net, robot)
    BY <1>4, <1>12, <1>16, <2>2, <2>3 DEF Quiet, NotDone
  <2>5. Content(hw', ptc')
    BY <2>2, <2>3 DEF Content
  <2> QED
    BY <1>3, <1>10, <1>13, <1>16, <2>2, <2>3, <2>4, <2>5 DEF Stage, Ordered
<1>17. ASSUME ptc.active, seen = 1, NEW q, hw' = [hw EXCEPT !.pt = q], q.state \in {2, 3},
              q.late = p.late, q.abort = p.abort, q.started = p.started, q.sent = p.sent,
              q.received = p.received, q.vec = p.vec, ptc'.active = ptc.active, ptc'.goal = ptc.goal,
              q.state = 2 => q.point = <<ptc'.goal, ptc'.index>> /\ ptc.index < Points[ptc.goal]
       PROVE  Ordered'
  <2>1. hw'.pt = q
    BY <1>8, <1>17
  <2>2. Stage(hw', ptc', rt', net, robot)
    <3>1. hw'.pt.state \in 1..4 /\ rt'.seen = hw'.pt.state
      BY <1>4, <1>17, <2>1
    <3>2. Quiet(hw, ptc, rt, net, robot) => ~(ptc.active /\ p.started)
      BY <1>12, <1>17
    <3>3. /\ hw'.pt.late = hw.pt.late /\ hw'.pt.started = hw.pt.started
          /\ hw'.pt.sent = hw.pt.sent /\ hw'.pt.received = hw.pt.received
      BY <1>17, <2>1
    <3>4. ptc'.active = ptc.active /\ ptc'.goal = ptc.goal
      BY <1>17
    <3> QED
      BY <1>9, <3>1, <3>2, <3>3, <3>4, StageGoesOn
  <2>3. p.received = ptc.index /\ ptc.index <= Points[ptc.goal]
    BY <1>10, <1>17 DEF FitsAt
  <2>4. p.state \in {1, 5}
    BY <1>3, <1>4, <1>5, <1>17 DEF HasRoom
  <2>5. Content(hw', ptc')
    BY <1>3, <1>17, <2>1, <2>3, <2>4 DEF Ordered, Content
  <2> QED
    BY <1>3, <1>10, <1>13, <1>17, <2>1, <2>2, <2>5 DEF Ordered
<1>18. CASE /\ ptc.active /\ seen = 1 /\ ptc.index < Points[ptc.goal]
            /\ hw' = [hw EXCEPT !.pt = [p EXCEPT !.point = <<ptc.goal, ptc.index + 1>>, !.state = 2]]
            /\ ptc' = [ptc EXCEPT !.index = ptc.index + 1]
  <2>1. PICK x : x = <<ptc.goal, ptc.index + 1>>
    OBVIOUS
  <2>2. PICK q : q = [p EXCEPT !.point = x, !.state = 2]
    OBVIOUS
  <2>3. /\ q.state = 2 /\ q.late = p.late /\ q.abort = p.abort /\ q.started = p.started /\ q.sent = p.sent
        /\ q.received = p.received /\ q.vec = p.vec /\ q.point = x
    BY <1>7, <2>2, PassthroughFields
  <2>4. ptc'.active = ptc.active /\ ptc'.goal = ptc.goal /\ ptc'.index = ptc.index + 1
    BY <1>7, <1>18, PassthroughAre
  <2>5. x = <<ptc'.goal, ptc'.index>>
    BY <2>1, <2>4
  <2>6. q.state \in {2, 3} /\ hw' = [hw EXCEPT !.pt = q]
    BY <1>18, <2>1, <2>2, <2>3
  <2> QED
    BY <1>17, <1>18, <2>3, <2>4, <2>5, <2>6
<1>19. CASE ptc.active /\ seen = 1 /\ ptc' = ptc /\ hw' = [hw EXCEPT !.pt = [p EXCEPT !.state = 3]]
  <2>1. PICK q : q = [p EXCEPT !.state = 3]
    OBVIOUS
  <2>2. /\ q.state = 3 /\ q.late = p.late /\ q.abort = p.abort /\ q.started = p.started /\ q.sent = p.sent
        /\ q.received = p.received /\ q.vec = p.vec
    BY <1>7, <2>1, PassthroughFields
  <2>3. q.state \in {2, 3} /\ q.state # 2
    BY <2>2
  <2>4. hw' = [hw EXCEPT !.pt = q] /\ ptc'.active = ptc.active /\ ptc'.goal = ptc.goal
    BY <1>19, <2>1
  <2> QED
    BY <1>17, <1>19, <2>2, <2>3, <2>4
<1>20. ~(~(ptc.goal # NoGoal /\ ptc.active) /\ seen \notin {0, 5})
  BY <1>10, <1>11
<1>21. ~(~(ptc.goal # NoGoal /\ ptc.active) /\ seen = 5)
  BY <1>10, <1>12 DEF Finished, Begun
<1> QED
  BY <1>6, <1>14, <1>15, <1>16, <1>18, <1>19, <1>20, <1>21 DEF HandedOver

LEMMA ClientsOrdered ==
  ASSUME Members, Room, Alone, clean => Ordered, UNCHANGED <<gpio, async, cm>>,
         PassthroughServer \/ ("passthrough" \in cm.active /\ \E g \in Goals : AcceptGoal(g))
  PROVE  Alone' /\ (clean' => Ordered')
<1>1. UNCHANGED <<robot, net, hw, rt>>
  BY GoalClients
<1>2. Alone'
  BY <1>1 DEF Alone
<1> SUFFICES ASSUME clean' PROVE Ordered'
  BY <1>2
<1>3. Linked(hw', net', robot') /\ hw'.pt.abort = 0 /\ (\A i \in DOMAIN net'.rev : net'.rev[i].arg # "cancel")
      <=> Linked(hw, net, robot) /\ hw.pt.abort = 0 /\ (\A i \in DOMAIN net.rev : net.rev[i].arg # "cancel")
  BY <1>1 DEF Linked
<1>4. ASSUME "passthrough" \in cm.active, Stage(hw, ptc', rt, net, robot), Content(hw, ptc'), Linked(hw, net, robot),
             hw.pt.abort = 0, \A i \in DOMAIN net.rev : net.rev[i].arg # "cancel"
      PROVE  Ordered'
  BY <1>1, <1>4 DEF Ordered, Linked
<1>5. CASE "passthrough" \in cm.active /\ \E g \in Goals : AcceptGoal(g)
  <2>1. PICK g \in Goals : AcceptGoal(g)
    BY <1>5
  <2>a. DOMAIN ptc = {"goal", "active", "index", "accepting", "cancelling", "status"} /\ ~ptc.active
    BY <2>1, PassthroughAre DEF AcceptGoal, Members
  <2>b. ptc' = [ptc EXCEPT !.accepting = g, !.index = 0, !.status[g] = "accepted"]
    BY <2>1 DEF AcceptGoal
  <2>2. ptc'.active = FALSE /\ ~ptc.active /\ ptc'.goal = ptc.goal
    <3>1. ptc'.active = ptc.active /\ ptc'.goal = ptc.goal
      BY <2>a, <2>b
    <3>2. ptc.active \in BOOLEAN
      BY PassthroughAre DEF Members
    <3> QED
      BY <2>a, <3>1, <3>2
  <2>3. Content(hw, ptc')
    BY <2>2 DEF Content
  <2>4. CASE clean
    <3>1. Ordered
      BY <2>4
    <3>2. Quiet(hw, ptc, rt, net, robot)
      BY <2>2, <3>1 DEF Ordered, Stage, Starting, Running, Finished, Begun
    <3>3. Stage(hw, ptc', rt, net, robot)
      BY <2>2, <3>2 DEF Quiet, Stage
    <3> QED
      BY <1>4, <1>5, <2>3, <3>1, <3>3 DEF Ordered
  <2>5. CASE AtRest
    <3>1. PICK e : e = <<>>
      OBVIOUS
    <3>2. net.rev = e /\ DOMAIN e = {}
      BY <2>5, <3>1 DEF AtRest
    <3>3. Quiet(hw, ptc', rt, net, robot)
      BY <2>2, <2>5, <3>2 DEF AtRest, Quiet, NoStart, NotDone
    <3>4. Linked(hw, net, robot) /\ hw.pt.abort = 0
      BY <2>5 DEF AtRest, Linked
    <3> QED
      BY <1>4, <1>5, <2>3, <3>2, <3>3, <3>4 DEF Stage
  <2>6. clean \/ AtRest
    <3> HIDE DEF AtRest
    <3>1. clean' = (clean \/ AtRest)
      BY <2>1 DEF AcceptGoal
    <3> QED
      BY <3>1, Zenon
  <2> QED
    BY <2>4, <2>5, <2>6
<1>6. CASE AcceptGoalHandle
  <2>1. clean /\ ptc.accepting # NoGoal /\ ptc' = [ptc EXCEPT !.goal = ptc.accepting]
    BY <1>6 DEF AcceptGoalHandle
  <2>2. Ordered /\ ~ptc.active /\ "passthrough" \in cm.active
    BY <2>1 DEF Room, HasRoom, Ordered
  <2>3. ptc'.active = FALSE
    BY <2>1, <2>2, PassthroughAre DEF Members
  <2>4. Quiet(hw, ptc, rt, net, robot)
    BY <2>2 DEF Ordered, Stage, Starting, Running, Finished, Begun
  <2>5. Stage(hw, ptc', rt, net, robot) /\ Content(hw, ptc')
    BY <2>3, <2>4 DEF Quiet, Stage, Content
  <2> QED
    BY <1>4, <2>2, <2>5 DEF Ordered
<1>7. CASE AcceptDone
  <2>1. clean /\ ptc.accepting # NoGoal
    BY <1>7 DEF AcceptDone
  <2>2. Ordered /\ ~ptc.active /\ "passthrough" \in cm.active /\ hw.pt.state \in {0, 5} /\ rt.seen \in {0, 5}
    BY <2>1 DEF Room, HasRoom, Ordered
  <2>3. Quiet(hw, ptc, rt, net, robot)
    BY <2>2 DEF Ordered, Stage, Starting, Running, Finished, Begun
  <2>4. hw.pt.state = 0 /\ rt.seen = 0
    BY <2>2, <2>3 DEF Quiet, NotDone
  <2>5. Stage(hw, ptc', rt, net, robot) /\ Content(hw, ptc')
    BY <2>3, <2>4 DEF Quiet, Stage, Content
  <2> QED
    BY <1>4, <2>2, <2>5 DEF Ordered
<1>8. ~CancelGoal
  BY DEF CancelGoal, Upset
<1>9. ~CancelDone
  <2>1. CancelDone => clean /\ ptc.cancelling
    BY DEF CancelDone
  <2> QED
    BY <2>1 DEF Room, HasRoom
<1> QED
  BY <1>5, <1>6, <1>7, <1>8, <1>9 DEF PassthroughServer

\* What reading a command leaves of the sockets and the program.
LEMMA ReadCommandIs ==
  ASSUME Typed(GoalPoint), ReadCommand, ~robot.tool, Head(net.rev).arg # "cancel", clean'
  PROVE  /\ net.rev # <<>> /\ net'.rev = Tail(net.rev) /\ net'.res = net.res /\ clean
         /\ net'.peer = net.peer /\ net'.scr = net.scr /\ robot'.on = robot.on /\ robot'.tool = robot.tool
         /\ Head(net.rev).arg # "start" =>
              /\ robot'.run = robot.run
              /\ \/ robot'.thread = robot.thread /\ robot'.left = robot.left /\ net'.trj = net.trj
                 \/ robot'.thread = FALSE /\ robot'.left = 0 /\ net'.trj = Drained(net.trj, robot.left)
              /\ Head(net.rev).mode = "forward" /\ robot.mode = "forward" =>
                    /\ robot'.mode = "forward" /\ robot'.left = robot.left
                    /\ robot'.thread = robot.thread /\ net'.trj = net.trj
         /\ Head(net.rev).mode = "forward" /\ Head(net.rev).arg = "start" =>
              /\ robot'.mode = "forward" /\ robot'.thread = TRUE /\ robot'.left = Head(net.rev).n
              /\ robot'.run = <<>> /\ net'.trj = Drained(net.trj, robot.left)
<1> DEFINE c == Head(net.rev)
           switch == c.mode # robot.mode
           left == switch /\ robot.mode = "forward"
           mode == IF switch /\ ~(robot.mode = "contact" /\ robot.tool) THEN c.mode ELSE robot.mode
           start == mode = "forward" /\ c.arg = "start"
           cancel == mode = "forward" /\ c.arg = "cancel"
           kill == left \/ start \/ cancel
           canceled == cancel \/ (left /\ robot.left > 0)
<1>1. /\ net.rev # <<>>
      /\ robot' = [robot EXCEPT !.mode = mode, !.thread = start \/ (@ /\ ~kill),
                                !.left = IF start THEN c.n ELSE IF kill THEN 0 ELSE @,
                                !.run = IF start THEN <<>> ELSE @,
                                !.freedrive = FreedriveAfter(switch, mode, c.arg)]
      /\ net' = [net EXCEPT !.rev = Tail(@), !.trj = IF kill THEN Drained(@, robot.left) ELSE @,
                            !.res = IF canceled THEN Append(@, "canceled") ELSE @]
      /\ clean' = (clean /\ ~canceled)
  BY DEF ReadCommand
<1>2. clean /\ ~canceled
  <2> HIDE DEF canceled
  <2> QED
    BY <1>1, Zenon
<1>3. ~cancel /\ mode = c.mode
  OBVIOUS
<1>4. robot.thread \in BOOLEAN
  BY RobotFields DEF Typed
<1> DEFINE th == start \/ (robot.thread /\ ~kill)
           l == IF start THEN c.n ELSE IF kill THEN 0 ELSE robot.left
           ru == IF start THEN <<>> ELSE robot.run
           tr == IF kill THEN Drained(net.trj, robot.left) ELSE net.trj
<1>5. /\ c.arg # "start" => /\ ru = robot.run
                            /\ \/ th = robot.thread /\ l = robot.left /\ tr = net.trj
                               \/ th = FALSE /\ l = 0 /\ tr = Drained(net.trj, robot.left)
                            /\ c.mode = "forward" /\ robot.mode = "forward" =>
                                  mode = "forward" /\ l = robot.left /\ th = robot.thread /\ tr = net.trj
      /\ c.mode = "forward" /\ c.arg = "start" =>
           mode = "forward" /\ th = TRUE /\ l = c.n /\ ru = <<>> /\ tr = Drained(net.trj, robot.left)
  BY <1>3, <1>4
<1>6. /\ robot'.mode = mode /\ robot'.thread = th /\ robot'.left = l /\ robot'.run = ru
      /\ robot'.on = robot.on /\ robot'.tool = robot.tool
  <2>1. DOMAIN robot = {"on", "mode", "left", "thread", "run", "freedrive", "tool", "touched", "force"}
    BY RobotFields DEF Typed
  <2> HIDE DEF mode, start, kill, switch, c
  <2> QED
    BY <1>1, <2>1
<1>7. /\ net'.rev = Tail(net.rev) /\ net'.trj = tr /\ net'.res = net.res
      /\ net'.peer = net.peer /\ net'.scr = net.scr
  <2>1. DOMAIN net = NetKeys
    BY DEF Typed, Lines
  <2> HIDE DEF mode, start, kill, switch, c, canceled
  <2> QED
    BY <1>1, <1>2, <2>1 DEF NetKeys
<1> QED
  BY <1>1, <1>2, <1>5, <1>6, <1>7

LEMMA DrainedAll ==
  ASSUME NEW S, NEW q \in Seq(S)
  PROVE  Drained(q, 0) = q
<1>1. PICK r : r = SubSeq(q, 1, Len(q))
  OBVIOUS
<1>2. Len(q) \in Nat /\ \A i \in 1..Len(q) : q[i] \in S
  OBVIOUS
<1>3. /\ r \in Seq(S) /\ Len(r) = IF 1 <= Len(q) THEN Len(q) - 1 + 1 ELSE 0
      /\ \A i \in 1..(Len(q) - 1 + 1) : r[i] = q[1 + i - 1]
  BY <1>1, <1>2, SubSeqProperties
<1>4. Len(r) = Len(q) /\ \A i \in 1..Len(r) : r[i] = q[i]
  BY <1>2, <1>3
<1>5. r = q
  BY <1>3, <1>4, SeqEqual
<1>6. 0 + 1 = 1
  OBVIOUS
<1> QED
  BY <1>1, <1>5, <1>6 DEF Drained

LEMMA ReadCommandOrdered ==
  ASSUME Members, Typed(GoalPoint), Alone, Ordered, clean', ReadCommand,
         UNCHANGED <<hw, rt, ptc, cm>>
  PROVE  Ordered'
<1>0. net.rev \in Seq(Commands) /\ net.rev # <<>> /\ net.trj \in Seq(GoalPoint)
  BY DEF Typed, Lines, ReadCommand
<1>1. /\ DOMAIN net.rev = 1..Len(net.rev) /\ Len(net.rev) \in Nat /\ Len(net.rev) >= 1
      /\ Head(net.rev) = net.rev[1]
      /\ DOMAIN Tail(net.rev) = 1..(Len(net.rev) - 1)
      /\ \A i \in 1..(Len(net.rev) - 1) : Tail(net.rev)[i] = net.rev[i + 1]
  BY <1>0, QueueStarts
<1>2. 1 \in DOMAIN net.rev
  BY <1>1
<1>3. Head(net.rev).arg # "cancel" /\ ~robot.tool
  BY <1>1, <1>2 DEF Ordered, Alone
<1>4. net'.rev = Tail(net.rev) /\ net'.res = net.res /\ net'.peer = net.peer /\ robot'.on = robot.on
  BY <1>3, ReadCommandIs
<1>5. \A j \in DOMAIN net'.rev : j + 1 \in DOMAIN net.rev /\ net'.rev[j] = net.rev[j + 1]
  BY <1>1, <1>4
<1>6. Drained(net.trj, 0) = net.trj
  BY <1>0, DrainedAll
<1>7. ASSUME Stage(hw, ptc, rt, net', robot') PROVE Ordered'
  BY <1>4, <1>5, <1>7 DEF Ordered, Linked
<1>8. NoStart(net) => NoStart(net') /\ Head(net.rev).arg # "start"
  BY <1>1, <1>2, <1>5 DEF NoStart
<1>9. ASSUME NoStart(net), ~robot.thread, robot.left = 0
      PROVE  ~robot'.thread /\ robot'.left = 0 /\ net'.trj = net.trj /\ robot'.run = robot.run
  BY <1>3, <1>6, <1>8, <1>9, ReadCommandIs
<1>10. CASE Quiet(hw, ptc, rt, net, robot)
  <2>1. Quiet(hw, ptc, rt, net', robot')
    BY <1>4, <1>8, <1>9, <1>10 DEF Quiet, NotDone
  <2> QED
    BY <1>7, <2>1 DEF Stage
<1>11. CASE Finished(hw, ptc, rt, net, robot)
  <2>1. Finished(hw, ptc, rt, net', robot')
    BY <1>4, <1>8, <1>9, <1>11 DEF Finished
  <2> QED
    BY <1>7, <2>1 DEF Stage
<1>12. CASE Running(hw, ptc, rt, net, robot)
  <2>1. Head(net.rev).mode = "forward" /\ Head(net.rev).arg # "start"
    BY <1>1, <1>2, <1>8, <1>12 DEF Running
  <2>2. /\ robot'.mode = "forward" /\ robot'.left = robot.left /\ robot'.thread = robot.thread
        /\ net'.trj = net.trj /\ robot'.run = robot.run
    BY <1>3, <1>12, <2>1, ReadCommandIs DEF Running
  <2>3. Running(hw, ptc, rt, net', robot')
    BY <1>4, <1>5, <1>8, <1>12, <2>2 DEF Running, NotDone
  <2> QED
    BY <1>7, <2>3 DEF Stage
<1>13. CASE Starting(hw, ptc, rt, net, robot)
  <2>1. PICK i \in DOMAIN net.rev :
           /\ net.rev[i] = Command("forward", "start", Points[ptc.goal])
           /\ \A j \in DOMAIN net.rev : /\ j # i => net.rev[j].arg # "start"
                                        /\ j > i => net.rev[j].mode = "forward"
    BY <1>13 DEF Starting, StartWaits
  <2>2. CASE i = 1
    <3>1. /\ Head(net.rev).mode = "forward" /\ Head(net.rev).arg = "start"
          /\ Head(net.rev).n = Points[ptc.goal]
      BY <1>1, <2>1, <2>2 DEF Command
    <3>2. /\ robot'.mode = "forward" /\ robot'.thread = TRUE /\ robot'.left = Points[ptc.goal]
          /\ robot'.run = <<>> /\ net'.trj = Drained(net.trj, robot.left)
      BY <1>3, <3>1, ReadCommandIs
    <3>3. net'.trj = net.trj /\ robot.left = 0
      BY <1>6, <1>13, <3>2 DEF Starting
    <3>4. \A j \in DOMAIN net'.rev : net'.rev[j].arg # "start" /\ net'.rev[j].mode = "forward"
      <4> SUFFICES ASSUME NEW j \in DOMAIN net'.rev
                   PROVE  net'.rev[j].arg # "start" /\ net'.rev[j].mode = "forward"
        OBVIOUS
      <4>1. j + 1 \in DOMAIN net.rev /\ net'.rev[j] = net.rev[j + 1]
        BY <1>5
      <4>2. j + 1 > i /\ j + 1 # i
        BY <1>1, <1>4, <2>2
      <4> QED
        BY <2>1, <4>1, <4>2
    <3>5. PICK e \in Seq(GoalPoint) : e = <<>> /\ Len(e) = 0
      BY EmptySeq
    <3>6. e \o net.trj = net.trj
      BY <1>0, <3>5, ConcatEmptySeq
    <3>7. Points[ptc.goal] = Points[ptc.goal] - Len(e)
      <4>1. Points[ptc.goal] \in Int
        BY <1>1, <1>2, <2>1, <2>2 DEF Typed, Lines, Commands, Command
      <4> QED
        BY <3>5, <4>1
    <3>8. Running(hw, ptc, rt, net', robot')
      BY <1>4, <1>13, <3>2, <3>3, <3>4, <3>5, <3>6, <3>7 DEF Running, Starting, NoStart, NotDone
    <3> QED
      BY <1>7, <3>8 DEF Stage
  <2>3. CASE i # 1
    <3>1. Head(net.rev).arg # "start"
      BY <1>1, <1>2, <2>1, <2>3
    <3>2. ~robot'.thread /\ robot'.left = 0 /\ net'.trj = net.trj /\ robot'.run = robot.run
      BY <1>3, <1>6, <1>13, <3>1, ReadCommandIs DEF Starting
    <3>3. PICK k \in DOMAIN net'.rev : k + 1 = i
      <4>1. i - 1 \in DOMAIN net'.rev /\ (i - 1) + 1 = i
        BY <1>1, <1>4, <2>3
      <4> QED
        BY <4>1
    <3>4. \A j \in DOMAIN net'.rev : (j # k => j + 1 # i) /\ (j > k => j + 1 > i)
      BY <1>1, <1>4, <3>3
    <3>5. StartWaits(net', Points[ptc.goal])
      BY <1>5, <2>1, <3>3, <3>4 DEF StartWaits
    <3>6. Starting(hw, ptc, rt, net', robot')
      BY <1>4, <1>13, <3>2, <3>5 DEF Starting, NotDone
    <3> QED
      BY <1>7, <3>6 DEF Stage
  <2> QED
    BY <2>2, <2>3
<1> QED
  BY <1>10, <1>11, <1>12, <1>13 DEF Ordered, Stage

\* The points of a started trajectory are those of its goal.
LEMMA SentWithin ==
  ASSUME Members, Ordered, Begun(hw, ptc, rt)
  PROVE  /\ ptc.goal # NoGoal => ptc.goal \in Goals /\ Points[ptc.goal] \in Nat
         /\ hw.pt.sent \in Nat /\ hw.pt.sent = hw.pt.received /\ hw.pt.sent <= Points[ptc.goal]
<1>1. hw.pt \in PassthroughMembers /\ ptc.goal \in Handles
  BY HardwareIs, PassthroughAre DEF Members
<1>2. hw.pt.sent \in Nat /\ hw.pt.state \in 0..6
  BY <1>1, PassthroughFields
<1>3. hw.pt.sent = hw.pt.received
  BY DEF Begun, Members, Sound
<1>4. hw.pt.state = 5 \/ hw.pt.state \in 1..4
  BY <1>2 DEF Begun
<1>5. hw.pt.received <= Points[ptc.goal]
  BY <1>4 DEF Ordered, Content, Begun
<1> QED
  BY <1>1, <1>2, <1>3, <1>5, GoalsAre DEF Handles

LEMMA ThreadOrdered ==
  ASSUME Members, Room, Typed(GoalPoint), Alone, clean, Ordered,
         ExecutePoint \/ FinishTrajectory, UNCHANGED <<hw, rt, ptc, cm>>
  PROVE  Ordered' /\ net'.scr = net.scr /\ robot'.tool = robot.tool
<1>1. robot.thread
  BY DEF ExecutePoint, FinishTrajectory
<1>2. Running(hw, ptc, rt, net, robot)
  BY <1>1 DEF Ordered, Stage, Quiet, Starting, Finished
<1>3. Begun(hw, ptc, rt) /\ ptc.goal # NoGoal
  BY <1>2 DEF Running, Begun, Room, HasRoom
<1>4. ptc.goal \in Goals /\ Points[ptc.goal] \in Nat
      /\ hw.pt.sent \in Nat /\ hw.pt.sent = hw.pt.received /\ hw.pt.sent <= Points[ptc.goal]
  BY <1>3, SentWithin
<1>5. /\ DOMAIN net = NetKeys /\ net.trj \in Seq(GoalPoint) /\ robot.run \in Seq(GoalPoint) /\ robot.left \in Nat
      /\ DOMAIN robot = {"on", "mode", "left", "thread", "run", "freedrive", "tool", "touched", "force"}
  BY RobotFields DEF Typed, Lines
<1>6. Len(robot.run) \in Nat
  BY <1>5
<1>7. CASE ExecutePoint
  <2>1. /\ net.trj # <<>> /\ robot.left > 0
        /\ robot' = [robot EXCEPT !.left = @ - 1, !.run = Append(robot.run, Head(net.trj))]
        /\ net' = [net EXCEPT !.trj = Tail(@)]
    BY <1>7 DEF ExecutePoint
  <2>2. /\ robot'.run = Append(robot.run, Head(net.trj)) /\ robot'.left = robot.left - 1
        /\ robot'.thread = robot.thread /\ robot'.mode = robot.mode /\ robot'.tool = robot.tool /\ robot'.on = robot.on
    BY <1>5, <2>1
  <2>3. /\ net'.trj = Tail(net.trj) /\ net'.rev = net.rev /\ net'.res = net.res /\ net'.scr = net.scr
        /\ net'.peer = net.peer
    BY <1>5, <2>1 DEF NetKeys
  <2>4. robot'.run \o net'.trj = robot.run \o net.trj /\ Len(robot'.run) = Len(robot.run) + 1
    <3>1. PICK S : S = GoalPoint
      OBVIOUS
    <3>2. PICK run \in Seq(S), trj \in Seq(S) : run = robot.run /\ trj = net.trj
      BY <1>5, <3>1
    <3>3. /\ Append(run, Head(trj)) \o Tail(trj) = run \o trj
          /\ Len(Append(run, Head(trj))) = Len(run) + 1
      BY <2>1, <3>2, PointMoves
    <3> QED
      BY <2>2, <2>3, <3>2, <3>3
  <2>5. robot'.left = Points[ptc.goal] - Len(robot'.run)
    BY <1>2, <1>4, <1>6, <2>2, <2>4 DEF Running
  <2>6. Running(hw, ptc, rt, net', robot')
    BY <1>2, <2>2, <2>3, <2>4, <2>5 DEF Running, NoStart, NotDone
  <2> QED
    BY <2>2, <2>3, <2>6 DEF Ordered, Stage, Linked
<1>8. CASE FinishTrajectory
  <2>1. /\ robot.left = 0 /\ robot' = [robot EXCEPT !.thread = FALSE]
        /\ net' = [net EXCEPT !.res = Append(@, "success")]
    BY <1>8 DEF FinishTrajectory
  <2>2. /\ robot'.run = robot.run /\ robot'.left = 0
        /\ robot'.thread = FALSE /\ robot'.tool = robot.tool /\ robot'.on = robot.on
    BY <1>5, <2>1
  <2>3. /\ net'.trj = net.trj /\ net'.rev = net.rev /\ net'.res = Append(net.res, "success")
        /\ net'.scr = net.scr /\ net'.peer = net.peer
    BY <1>5, <2>1 DEF NetKeys
  <2>4. Len(robot.run) = Points[ptc.goal] /\ robot.run \o net.trj = UpTo(ptc.goal, hw.pt.sent)
    BY <1>2, <1>4, <1>6, <2>1 DEF Running
  <2>5. net.trj = <<>> /\ robot.run = UpTo(ptc.goal, Points[ptc.goal]) /\ hw.pt.sent = Points[ptc.goal]
    BY <1>4, <1>5, <2>4, AllExecuted
  <2>6. net'.res = <<"success">>
    <3>1. PICK e, x : e = <<>> /\ x = "success"
      OBVIOUS
    <3>2. Append(e, x) = <<x>>
      BY <3>1
    <3>3. net.res = e
      BY <1>2, <3>1 DEF Running, NotDone
    <3> QED
      BY <2>3, <3>1, <3>2, <3>3
  <2>7. Finished(hw, ptc, rt, net', robot')
    BY <1>2, <1>4, <2>2, <2>3, <2>5, <2>6 DEF Running, Finished, NoStart, NotDone
  <2> QED
    BY <2>2, <2>3, <2>7 DEF Ordered, Stage, Linked
<1> QED
  BY <1>7, <1>8

\* A command that neither starts nor cancels is sent.
LEMMA CommandKeeps ==
  ASSUME NEW h, NEW c, NEW r, NEW n, NEW b, n.rev \in Seq(Commands), NEW m, NEW x \in Commands,
         m.rev = Append(n.rev, x), m.trj = n.trj, m.res = n.res, x.arg # "start"
  PROVE  /\ NoStart(n) => NoStart(m)
         /\ Quiet(h, c, r, n, b) => Quiet(h, c, r, m, b)
         /\ x.mode = "forward" /\ Stage(h, c, r, n, b) => Stage(h, c, r, m, b)
<1>1. /\ DOMAIN n.rev = 1..Len(n.rev) /\ Len(n.rev) \in Nat
      /\ DOMAIN m.rev = 1..(Len(n.rev) + 1)
      /\ m.rev[Len(n.rev) + 1] = x
      /\ \A i \in 1..Len(n.rev) : m.rev[i] = n.rev[i]
  BY QueueEnds
<1>2. \A i \in DOMAIN m.rev : (i \in DOMAIN n.rev /\ m.rev[i] = n.rev[i]) \/ m.rev[i] = x
  BY <1>1
<1>3. NoStart(n) => NoStart(m)
  BY <1>2 DEF NoStart
<1>4. Quiet(h, c, r, n, b) => Quiet(h, c, r, m, b)
  BY <1>3 DEF Quiet, NotDone
<1>5. x.mode = "forward" /\ StartWaits(n, Points[c.goal]) => StartWaits(m, Points[c.goal])
  <2> SUFFICES ASSUME x.mode = "forward", StartWaits(n, Points[c.goal]) PROVE StartWaits(m, Points[c.goal])
    OBVIOUS
  <2>1. PICK i \in DOMAIN n.rev :
           /\ n.rev[i] = Command("forward", "start", Points[c.goal])
           /\ \A j \in DOMAIN n.rev : /\ j # i => n.rev[j].arg # "start"
                                      /\ j > i => n.rev[j].mode = "forward"
    BY DEF StartWaits
  <2>2. i \in DOMAIN m.rev /\ m.rev[i] = n.rev[i]
    BY <1>1
  <2>3. \A j \in DOMAIN m.rev : (j # i => m.rev[j].arg # "start") /\ (j > i => m.rev[j].mode = "forward")
    BY <1>2, <2>1
  <2> QED
    BY <2>1, <2>2, <2>3 DEF StartWaits
<1>6. x.mode = "forward" /\ Starting(h, c, r, n, b) => Starting(h, c, r, m, b)
  BY <1>5 DEF Starting, NotDone
<1>7. x.mode = "forward" /\ Running(h, c, r, n, b) => Running(h, c, r, m, b)
  BY <1>2, <1>3 DEF Running, NotDone
<1>8. Finished(h, c, r, n, b) => Finished(h, c, r, m, b)
  BY <1>3 DEF Finished
<1> QED
  BY <1>3, <1>4, <1>6, <1>7, <1>8 DEF Stage

\* What write() makes of the other modes' members and of the script socket.
SameApart(s, t) == /\ DOMAIN t = {"h", "n"} /\ DOMAIN t.n = NetKeys /\ t.n.scr = s.n.scr
                   /\ DOMAIN t.h = HardwareKeys /\ t.h.modes = s.h.modes
                   /\ t.h.fm = s.h.fm /\ t.h.fd = s.h.fd /\ t.h.program = s.h.program

LEMMA SendsApart ==
  ASSUME NEW n, DOMAIN n = NetKeys, NEW c, NEW q
  PROVE  /\ DOMAIN SendReverse(n, c) = NetKeys /\ SendReverse(n, c).scr = n.scr
         /\ DOMAIN SendPoints(n, q) = NetKeys /\ SendPoints(n, q).scr = n.scr
BY DEF SendReverse, SendPoints, NetKeys

LEMMA MotionApart ==
  ASSUME NEW s, WholeSides(s), DOMAIN s.n = NetKeys, NEW t, NEW seen, Followed(s, t, seen)
  PROVE  SameApart(s, t)
<1>0. DOMAIN s.h = HardwareKeys
  BY HardwareIs DEF WholeSides
<1>1. \A q : LET k == [s.h EXCEPT !.pt = q]
             IN  /\ DOMAIN k = HardwareKeys /\ k.modes = s.h.modes
                 /\ k.fm = s.h.fm /\ k.fd = s.h.fd /\ k.program = s.h.program
  BY <1>0 DEF HardwareKeys
<1>2. LET k == [s.h EXCEPT !.crashed = TRUE]
      IN  /\ DOMAIN k = HardwareKeys /\ k.modes = s.h.modes
          /\ k.fm = s.h.fm /\ k.fd = s.h.fd /\ k.program = s.h.program
  BY <1>0 DEF HardwareKeys
<1>3. DOMAIN t = {"h", "n"}
  BY DEF Followed
<1>4. ASSUME t.h = s.h \/ t.h = [s.h EXCEPT !.crashed = TRUE] \/ \E q : t.h = [s.h EXCEPT !.pt = q],
             DOMAIN t.n = NetKeys, t.n.scr = s.n.scr
      PROVE  SameApart(s, t)
  <2>1. CASE t.h = s.h
    BY <1>0, <1>3, <1>4, <2>1 DEF SameApart
  <2>2. CASE t.h = [s.h EXCEPT !.crashed = TRUE]
    BY <1>2, <1>3, <1>4, <2>2 DEF SameApart
  <2>3. ASSUME NEW q, t.h = [s.h EXCEPT !.pt = q] PROVE SameApart(s, t)
    BY <1>1, <1>3, <1>4, <2>3 DEF SameApart
  <2> QED
    BY <1>4, <2>1, <2>2, <2>3
<1>5. CASE t.h = s.h /\ \E c \in Commands : t.n = SendReverse(s.n, c)
  BY <1>4, <1>5, SendsApart
<1>6. ASSUME NEW u, u.h = s.h, u.n = SendReverse(s.n, Command("forward", "noop", 0)), Transferred(u, t, seen)
      PROVE  SameApart(s, t)
  <2>1. DOMAIN u.n = NetKeys /\ u.n.scr = s.n.scr
    BY <1>6, SendsApart
  <2>2. t.h = s.h \/ t.h = [s.h EXCEPT !.crashed = TRUE] \/ \E q : t.h = [s.h EXCEPT !.pt = q]
    BY <1>6 DEF Transferred
  <2>3. t.n = u.n \/ t.n = SendReverse(u.n, Cancel) \/ \E begun \in BOOLEAN : t.n = Handed(u.n, u.h.pt, begun)
    BY <1>6 DEF Transferred
  <2>4. \A begun \in BOOLEAN : DOMAIN Handed(u.n, u.h.pt, begun) = NetKeys /\ Handed(u.n, u.h.pt, begun).scr = u.n.scr
    <3> SUFFICES ASSUME NEW begun \in BOOLEAN, NEW z, z = Handed(u.n, u.h.pt, begun)
                 PROVE  DOMAIN z = NetKeys /\ z.scr = u.n.scr
      OBVIOUS
    <3>1. PICK v : v = IF u.h.pt.started THEN u.n ELSE SendReverse(u.n, Start(u.h.pt))
      OBVIOUS
    <3>2. DOMAIN v = NetKeys /\ v.scr = u.n.scr
      BY <2>1, <3>1, SendsApart
    <3>3. PICK q : q = SubSeq(Taken(u.h.pt, begun).vec, u.h.pt.sent + 1, u.h.pt.received + 1)
      OBVIOUS
    <3>4. z = IF begun THEN SendPoints(v, q) ELSE u.n
      BY <3>1, <3>3 DEF Handed
    <3> QED
      BY <2>1, <3>2, <3>4, SendsApart
  <2> QED
    BY <1>4, <2>1, <2>2, <2>3, <2>4, SendsApart
<1> QED
  BY <1>5, <1>6 DEF Followed

LEMMA WriteAlone ==
  ASSUME Members, FlagsInv, Alone, Typed(GoalPoint), Write
  PROVE  /\ UNCHANGED <<robot, clean, gpio, async, cm, ptc>> /\ rt.phase = "write"
         /\ rt'.phase = "read" /\ rt'.seen = 0
         /\ hw'.fm = hw.fm /\ hw'.fd = hw.fd /\ hw'.program = hw.program /\ net'.scr = net.scr
         /\ \/ hw' = hw /\ net' = net
            \/ /\ hw.program
               /\ \E seen \in {rt.seen, hw.pt.state} : \E s : \E t :
                     /\ s.h = hw /\ s.n = net /\ WholeSides(s) /\ Followed(s, t, seen)
                     /\ hw'.pt = t.h.pt /\ net' = t.n
<1>1. /\ UNCHANGED <<robot, clean, gpio, async, cm, ptc>> /\ rt.phase = "write"
      /\ rt'.phase = "read" /\ rt'.seen = 0
  BY DEF Write, ctrls
<1>2. PICK s : s = [h |-> hw, n |-> net]
  OBVIOUS
<1>3. s.h = hw /\ s.n = net /\ WholeSides(s) /\ Sound(s.h.pt) /\ DOMAIN s.n = NetKeys
  BY <1>2 DEF WholeSides, Members, Typed, Lines
<1>4. PICK seen \in {rt.seen, hw.pt.state} :
          /\ hw' = (IF MaySend THEN Written(s, seen) ELSE s).h
          /\ net' = (IF MaySend THEN Written(s, seen) ELSE s).n
  BY <1>2 DEF Write
<1>5. CASE ~MaySend
  <2>1. hw' = hw /\ net' = net
    BY <1>3, <1>4, <1>5
  <2> QED
    BY <1>1, <2>1
<1>6. CASE MaySend
  <2>1. seen \in 0..6
    BY HardwareIs, PassthroughFields DEF Members
  <2>2. PICK t : t = Motion(s, seen)
    OBVIOUS
  <2>3. Followed(s, t, seen)
    BY <1>3, <2>1, <2>2, MotionFollows
  <2>4. SameApart(s, t)
    BY <1>3, <2>3, MotionApart
  <2>5. ForceControl(t) = t
    <3>1. t.h.fm = Exported.fm
      BY <1>3, <2>4 DEF SameApart, Alone
    <3>2. Exported.fm.params = FALSE /\ Exported.fm.disable = NoCmd
      BY DEF Exported
    <3> QED
      BY <3>1, <3>2 DEF ForceControl
  <2>6. Contact(t) = t
    <3>1. "tool_contact" \notin t.h.modes
      BY <1>3, <2>4 DEF SameApart, Alone, FlagsInv
    <3> QED
      BY <3>1 DEF Contact
  <2>7. Written(s, seen) = [t EXCEPT !.h.fresh = FALSE]
    BY <2>2, <2>5, <2>6 DEF Written
  <2>8. PICK k : k = [t.h EXCEPT !.fresh = FALSE]
    OBVIOUS
  <2>9. hw' = k /\ net' = t.n
    BY <1>4, <1>6, <2>4, <2>7, <2>8 DEF SameApart
  <2>10. /\ hw'.fm = hw.fm /\ hw'.fd = hw.fd /\ hw'.program = hw.program /\ net'.scr = net.scr
         /\ hw'.pt = t.h.pt
    BY <1>3, <2>4, <2>8, <2>9 DEF SameApart, HardwareKeys
  <2>11. hw.program
    BY <1>6 DEF MaySend
  <2> QED
    BY <1>1, <1>3, <2>3, <2>9, <2>10, <2>11
<1> QED
  BY <1>5, <1>6

\* The start of a trajectory, and its first points.
LEMMA StartSent ==
  ASSUME NEW n, NEW m, n.rev \in Seq(Commands), NEW k \in Nat, NoStart(n),
         m.rev = Append(n.rev, Command("forward", "start", k))
  PROVE  /\ StartWaits(m, k)
         /\ (\A i \in DOMAIN n.rev : n.rev[i].arg # "cancel") => \A i \in DOMAIN m.rev : m.rev[i].arg # "cancel"
<1>1. PICK x : x = Command("forward", "start", k)
  OBVIOUS
<1>2. x \in Commands /\ x.arg = "start" /\ x.arg # "cancel"
  <2>1. "forward" \in ControlModes /\ "start" \in Args
    BY ArgsAre, Zenon DEF ControlModes
  <2>2. x \in Commands
    BY <1>1, <2>1, CommandIs
  <2>3. x.arg = "start"
    BY <1>1 DEF Command
  <2> QED
    BY <2>2, <2>3
<1>3. /\ DOMAIN n.rev = 1..Len(n.rev) /\ Len(n.rev) \in Nat
      /\ DOMAIN m.rev = 1..(Len(n.rev) + 1)
      /\ m.rev[Len(n.rev) + 1] = x
      /\ \A i \in 1..Len(n.rev) : m.rev[i] = n.rev[i]
  BY <1>1, <1>2, QueueEnds
<1>4. PICK i \in DOMAIN m.rev : i = Len(n.rev) + 1
  BY <1>3
<1>5. \A j \in DOMAIN m.rev : /\ j # i => j \in DOMAIN n.rev /\ m.rev[j] = n.rev[j]
                              /\ ~(j > i)
  BY <1>3, <1>4
<1>6. m.rev[i] = x
  BY <1>3, <1>4
<1>7. StartWaits(m, k)
  BY <1>1, <1>5, <1>6 DEF StartWaits, NoStart
<1> QED
  BY <1>2, <1>5, <1>6, <1>7

\* The stage a cycle leaves when it takes a point over: the point follows
\* those that are under way, or the trajectory is started.
\* A cycle takes a point of goal g over: the sides of the driver before and
\* after it, and the robot program.
Taking(h, k, c, r, s, n, m, b, begun, g) ==
    /\ Stage(h, c, r, n, b) /\ h.pt \in PassthroughMembers /\ Sound(h.pt) /\ k.pt = Taken(h.pt, begun)
    /\ h.pt.started => begun
    /\ m = Handed(n, h.pt, begun)
    /\ Lines(n, GoalPoint) /\ n.peer = "up" /\ b.run \in Seq(GoalPoint)
    /\ c.active /\ c.goal = g /\ h.pt.state = 2 /\ r.phase # "read" /\ r.seen = 2
    /\ s.phase = "read" /\ s.seen = 0
    /\ Len(h.pt.vec) = Points[g] /\ h.pt.received < Points[g]
    /\ \A i \in 1..h.pt.received : h.pt.vec[i] = <<g, i>>
    /\ h.pt.point = <<g, h.pt.received + 1>>
    /\ \A i \in DOMAIN n.rev : n.rev[i].arg # "cancel"

LEMMA TakenStage ==
  ASSUME NEW h, NEW k, NEW c, NEW r, NEW s, NEW n, NEW m, NEW b, NEW begun \in BOOLEAN, NEW g \in Goals,
         Taking(h, k, c, r, s, n, m, b, begun, g)
  PROVE  /\ Stage(k, c, s, m, b)
         /\ \A i \in DOMAIN m.rev : m.rev[i].arg # "cancel"
         /\ m.peer = n.peer
<1> DEFINE p == h.pt
           q == Taken(p, begun)
           e == p.received + 1
<1>a. /\ Stage(h, c, r, n, b) /\ p \in PassthroughMembers /\ Sound(p) /\ k.pt = q
      /\ p.started => begun
      /\ m = Handed(n, p, begun) /\ \A i \in DOMAIN n.rev : n.rev[i].arg # "cancel"
  BY DEF Taking
<1>b. c.active /\ c.goal = g /\ p.state = 2 /\ r.phase # "read" /\ r.seen = 2 /\ s.phase = "read" /\ s.seen = 0
  BY DEF Taking
<1>c. /\ Len(p.vec) = Points[g] /\ p.received < Points[g]
      /\ \A i \in 1..p.received : p.vec[i] = <<g, i>>
      /\ p.point = <<g, p.received + 1>>
  BY DEF Taking
<1>d. Lines(n, GoalPoint) /\ n.peer = "up" /\ b.run \in Seq(GoalPoint)
  BY DEF Taking
<1>1. p.received \in Nat /\ p.sent \in Nat /\ p.started \in BOOLEAN /\ p.received < Len(p.vec) /\ p.vec \in Seq(Seq(Nat))
  BY <1>a, <1>c, PassthroughFields
<1>2. /\ q.abort = 0 /\ q.state = 1 /\ q.received = e /\ q.started = begun
      /\ q.vec = [p.vec EXCEPT ![e] = p.point] /\ Len(q.vec) = Len(p.vec)
      /\ q.sent = IF begun THEN e ELSE p.sent
      /\ q.late = p.late
  BY <1>1, <1>a, TakenIs
<1>3. k.pt = q
  BY <1>a
<1>4. e \in Nat /\ e > 0 /\ \A i \in 1..e : q.vec[i] = <<g, i>>
  <2>1. e \in Nat /\ e > 0 /\ e \in 1..Len(p.vec) /\ Len(p.vec) \in Nat /\ DOMAIN p.vec = 1..Len(p.vec)
    <3>1. PICK N \in Nat : N = Len(p.vec) /\ DOMAIN p.vec = 1..N
      BY <1>1
    <3>2. e \in Nat /\ e > 0 /\ e \in 1..N
      BY <1>1, <3>1
    <3> QED
      BY <3>1, <3>2
  <2> SUFFICES ASSUME NEW i \in 1..e PROVE q.vec[i] = <<g, i>>
    BY <2>1
  <2>2. CASE i = e
    BY <1>2, <1>c, <2>1, <2>2
  <2>3. CASE i # e
    <3>1. i \in 1..p.received /\ i \in DOMAIN p.vec
      BY <1>1, <2>1, <2>3
    <3>2. q.vec[i] = p.vec[i]
      BY <1>2, <2>1, <2>3, <3>1
    <3> QED
      BY <1>c, <3>1, <3>2
  <2> QED
    BY <2>2, <2>3
<1>5. SubSeq(q.vec, 1, e) = UpTo(g, e) /\ SubSeq(q.vec, e, e) = <<<<g, e>>>>
  BY <1>4, SentIs
<1>6. ASSUME NEW x \in Seq(GoalPoint), NEW v, Lines(v, GoalPoint), v.peer = "up", v.trj = n.trj, v.res = n.res,
             m = SendPoints(v, x)
      PROVE  m.peer = n.peer /\ m.rev = v.rev /\ m.res = n.res /\ m.trj = n.trj \o x
  <2>1. PICK w : w = SendPoints(v, x)
    OBVIOUS
  <2>2. w.peer = v.peer /\ w.rev = v.rev /\ w.res = v.res /\ w.trj = v.trj \o x
    BY <1>6, <2>1, PointsAre
  <2> QED
    BY <1>6, <1>d, <2>1, <2>2
<1>7. s.phase = "read" /\ s.seen # 5 /\ k.pt.state \notin {0, 5, 6}
  BY <1>2, <1>3, <1>b
<1> HIDE DEF p, q, e
<1>8. CASE ~begun
  <2>1. m = n /\ ~p.started
    BY <1>8, <1>a DEF Handed, p
  <2>2. Quiet(h, c, r, n, b)
    BY <1>a, <2>1 DEF Stage, Starting, Running, Finished, Begun, p
  <2>3. Quiet(k, c, s, m, b)
    BY <1>2, <1>3, <1>7, <1>8, <2>1, <2>2 DEF Quiet, NotDone, p
  <2> QED
    BY <1>a, <2>1, <2>3 DEF Stage
<1>9. CASE begun /\ ~p.started
  <2>1. Quiet(h, c, r, n, b)
    BY <1>9, <1>a DEF Stage, Starting, Running, Finished, Begun, p
  <2>2. p.sent = 0
    BY <1>9, <1>a DEF Sound
  <2>3. Start(p) = Command("forward", "start", Points[g]) /\ Points[g] \in Nat
    BY <1>c, GoalsAre DEF Start
  <2>4. PICK v : v = SendReverse(n, Start(p))
    OBVIOUS
  <2>5. Start(p) \in Commands
    <3>1. "forward" \in ControlModes /\ "start" \in Args
      BY ArgsAre, Zenon DEF ControlModes
    <3> QED
      BY <2>3, <3>1, CommandIs
  <2>6. Lines(v, GoalPoint) /\ v.peer = "up" /\ v.trj = n.trj /\ v.res = n.res /\ v.rev = Append(n.rev, Start(p))
    <3>1. PICK y \in Commands : y = Start(p)
      BY <2>5
    <3>2. v = SendReverse(n, y)
      BY <2>4, <3>1
    <3>3. Lines(v, GoalPoint) /\ v.peer = n.peer /\ v.trj = n.trj /\ v.res = n.res /\ v.rev = Append(n.rev, y)
      BY <1>d, <3>2, ReverseIs
    <3> QED
      BY <1>d, <3>1, <3>3
  <2>7. PICK x : x = UpTo(g, e)
    OBVIOUS
  <2>8. x \in Seq(GoalPoint)
    BY <1>4, <2>7, UpToIs
  <2>9. m = SendPoints(v, x)
    <3>1. p.sent + 1 = 1
      BY <2>2
    <3> QED
      BY <1>5, <1>9, <1>a, <2>4, <2>7, <3>1 DEF Handed, q, e, p
  <2>10. m.peer = n.peer /\ m.rev = v.rev /\ m.res = n.res /\ m.trj = n.trj \o x
    BY <1>6, <2>6, <2>8, <2>9
  <2>11. m.trj = UpTo(g, e)
    <3>1. PICK z : z = <<>>
      OBVIOUS
    <3>2. n.trj = z /\ z \in Seq(GoalPoint)
      BY <2>1, <3>1, NoQueue DEF Quiet
    <3>3. z \o x = x
      BY <2>8, <3>1, ConcatEmptySeq
    <3> QED
      BY <2>7, <2>10, <3>2, <3>3
  <2>12. n.rev \in Seq(Commands) /\ NoStart(n)
    BY <1>d, <2>1 DEF Lines, Quiet
  <2>13. StartWaits(m, Points[g]) /\ \A i \in DOMAIN m.rev : m.rev[i].arg # "cancel"
    <3>1. m.rev = Append(n.rev, Command("forward", "start", Points[g]))
      BY <2>3, <2>6, <2>10
    <3>2. PICK N \in Nat : N = Points[g]
      BY <2>3
    <3>3. m.rev = Append(n.rev, Command("forward", "start", N))
      BY <3>1, <3>2
    <3> QED
      <4>1. StartWaits(m, N)
        BY <2>12, <3>2, <3>3, StartSent
      <4>2. \A i \in DOMAIN m.rev : m.rev[i].arg # "cancel"
        <5>1. PICK a : a <=> \A i \in DOMAIN n.rev : n.rev[i].arg # "cancel"
          OBVIOUS
        <5>2. a
          BY <1>a, <5>1
        <5> QED
          BY <2>12, <3>2, <3>3, <5>1, <5>2, StartSent, Zenon
      <4> QED
        BY <3>2, <4>1, <4>2
  <2>14. Starting(k, c, s, m, b)
    BY <1>2, <1>3, <1>7, <1>9, <1>b, <2>1, <2>6, <2>10, <2>11, <2>13 DEF p, Starting, Begun, Quiet, NotDone
  <2> QED
    BY <2>10, <2>13, <2>14 DEF Stage
<1>10. CASE p.started
  <2>1. p.sent = p.received
    BY <1>10, <1>a DEF Sound
  <2>2. PICK x : x = <<<<g, e>>>>
    OBVIOUS
  <2>3. x \in Seq(GoalPoint) /\ UpTo(g, p.received) \o x = UpTo(g, e)
    BY <1>1, <2>2, OneMore DEF e, p
  <2>4. m = SendPoints(n, x)
    BY <1>5, <1>10, <1>a, <2>1, <2>2 DEF Handed, q, e, p
  <2>5. m.peer = n.peer /\ m.rev = n.rev /\ m.res = n.res /\ m.trj = n.trj \o x
    BY <1>6, <1>d, <2>3, <2>4
  <2>6. k.pt.sent = e /\ k.pt.started /\ k.pt.late = p.late
    BY <1>2, <1>3, <1>10, <1>a
  <2>7. CASE Starting(h, c, r, n, b)
    <3>1. m.trj = UpTo(g, e)
      BY <1>b, <2>1, <2>3, <2>5, <2>7 DEF Starting, p
    <3>2. Starting(k, c, s, m, b)
      <4>1. StartWaits(m, Points[g])
        BY <1>b, <2>5, <2>7 DEF Starting, StartWaits
      <4>2. Begun(k, c, s) /\ NotDone(k, s, m)
        BY <1>7, <1>b, <2>5, <2>6, <2>7 DEF p, Starting, Begun, NotDone
      <4> QED
        BY <1>b, <2>6, <2>7, <3>1, <4>1, <4>2 DEF Starting
    <3> QED
      BY <1>a, <2>5, <3>2 DEF Stage
  <2>8. CASE Running(h, c, r, n, b)
    <3>1. b.run \o n.trj = UpTo(g, p.received)
      BY <1>b, <2>1, <2>8 DEF Running, p
    <3>2. n.trj \in Seq(GoalPoint)
      BY <1>d DEF Lines
    <3>3. b.run \o m.trj = (b.run \o n.trj) \o x
      <4>1. PICK y \in Seq(GoalPoint), t \in Seq(GoalPoint) : y = b.run /\ t = n.trj
        BY <1>d, <3>2
      <4>2. y \o (t \o x) = (y \o t) \o x
        <5>1. PICK S : S = GoalPoint
          OBVIOUS
        <5>2. y \in Seq(S) /\ t \in Seq(S) /\ x \in Seq(S)
          BY <2>3, <5>1
        <5> QED
          BY <5>2, Joined
      <4> QED
        BY <2>5, <4>1, <4>2
    <3>4. b.run \o m.trj = UpTo(g, e)
      BY <2>3, <3>1, <3>3
    <3>5. Running(k, c, s, m, b)
      <4>1. Begun(k, c, s) /\ NotDone(k, s, m)
        BY <1>7, <1>b, <2>5, <2>6, <2>8 DEF p, Running, Begun, NotDone
      <4>2. NoStart(m) /\ \A i \in DOMAIN m.rev : m.rev[i].mode = "forward"
        BY <2>5, <2>8 DEF Running, NoStart
      <4> QED
        BY <1>b, <2>6, <2>8, <3>4, <4>1, <4>2 DEF p, Running
    <3> QED
      BY <1>a, <2>5, <3>5 DEF Stage
  <2>9. ~Quiet(h, c, r, n, b)
    BY <1>10, <1>b DEF Quiet, p
  <2>10. ~Finished(h, c, r, n, b)
    BY <1>1, <1>b, <1>c DEF Finished, p
  <2> QED
    BY <1>a, <2>7, <2>8, <2>9, <2>10 DEF Stage, p
<1> QED
  BY <1>1, <1>8, <1>9, <1>10

\* The commands of write() that are neither a start nor a cancel.
LEMMA NoopIs ==
  ASSUME NEW c, c = Command("forward", "noop", 0)
  PROVE  c \in Commands /\ c.arg # "start" /\ c.arg # "cancel" /\ c.mode = "forward"
<1>1. "forward" \in ControlModes /\ "noop" \in Args
  BY ArgsAre, Zenon DEF ControlModes
<1>2. c \in Commands
  BY <1>1, CommandIs
<1>3. c.arg = "noop" /\ c.mode = "forward"
  BY DEF Command
<1> QED
  BY <1>2, <1>3

\* What the transfer makes of a cycle in which the noop has been sent: one
\* outcome of Transferred after the other.
LEMMA TransferOrdered ==
  ASSUME Members, FlagsInv, HasRoom(hw, ptc, rt), Ordered, Typed(GoalPoint), NEW seen \in {rt.seen, hw.pt.state},
         UNCHANGED <<robot, cm, ptc>>, rt.phase = "write", rt'.phase = "read", rt'.seen = 0,
         hw.program, hw'.program = hw.program,
         NEW u, u.h = hw, u.n = SendReverse(net, Command("forward", "noop", 0)), WholeSides(u),
         NEW t, Transferred(u, t, seen), hw'.pt = t.h.pt, net' = t.n
  PROVE  Ordered'
<1> DEFINE p == hw.pt
           n == u.n
<1>1. p \in PassthroughMembers /\ DOMAIN hw = HardwareKeys /\ ptc \in Passthrough
  BY HardwareIs DEF Members
<1>2. net.peer = "up" /\ Lines(net, GoalPoint)
  BY DEF Ordered, Linked, Typed
<1>3. PICK x : x = Command("forward", "noop", 0)
  OBVIOUS
<1>4. x \in Commands /\ x.arg # "start" /\ x.arg # "cancel" /\ x.mode = "forward"
  BY <1>3, NoopIs
<1>5. /\ Lines(n, GoalPoint) /\ n.peer = "up" /\ n.trj = net.trj /\ n.res = net.res /\ n.rev = Append(net.rev, x)
  <2>1. n = SendReverse(net, x)
    BY <1>3
  <2> HIDE DEF n
  <2> QED
    BY <1>2, <1>4, <2>1, ReverseIs
<1>6. net.rev \in Seq(Commands)
  BY <1>2 DEF Lines
<1> HIDE DEF n
<1>7. Stage(hw, ptc, rt, n, robot) /\ (Quiet(hw, ptc, rt, net, robot) => Quiet(hw, ptc, rt, n, robot))
  BY <1>4, <1>5, <1>6, CommandKeeps DEF Ordered
<1>8. \A i \in DOMAIN n.rev : n.rev[i].arg # "cancel"
  <2>1. /\ DOMAIN net.rev = 1..Len(net.rev) /\ Len(net.rev) \in Nat
        /\ DOMAIN n.rev = 1..(Len(net.rev) + 1)
        /\ n.rev[Len(net.rev) + 1] = x
        /\ \A i \in 1..Len(net.rev) : n.rev[i] = net.rev[i]
    BY <1>4, <1>5, <1>6, QueueEnds
  <2>2. \A i \in DOMAIN n.rev : (i \in DOMAIN net.rev /\ n.rev[i] = net.rev[i]) \/ n.rev[i] = x
    BY <2>1
  <2> QED
    BY <1>4, <2>2 DEF Ordered
<1>9. Transferred(u, t, seen) /\ u.h = hw /\ u.n = n
  BY DEF n
<1>10. ptc.active => /\ ptc.goal \in Goals /\ FitsAt(hw, ptc, seen) /\ Points[ptc.goal] \in Nat
  <2>1. ptc.active => ptc.goal # NoGoal /\ FitsAt(hw, ptc, seen) /\ ptc.goal \in Handles
    BY <1>1, PassthroughAre DEF HasRoom
  <2> QED
    BY <2>1, GoalsAre DEF Handles
<1>11. /\ ~ptc.active => seen \in {0, 5} /\ hw.pt.state \in {0, 5}
       /\ hw.pt.state \in {rt.seen, 5}
  BY DEF HasRoom
<1>12. /\ p.state = 5 => Finished(hw, ptc, rt, n, robot)
       /\ seen \in {0, 6} => Quiet(hw, ptc, rt, n, robot)
       /\ seen \notin {0, 6} /\ ptc.active /\ p.started => ~Quiet(hw, ptc, rt, n, robot)
  BY <1>7, StageSeen
<1>13. ASSUME NEW m, net' = m, m.peer = "up", Stage(hw', ptc, rt', m, robot),
              \A i \in DOMAIN m.rev : m.rev[i].arg # "cancel", Content(hw', ptc), hw'.pt.abort = 0
       PROVE  Ordered'
  BY <1>13 DEF Ordered, Linked
<1>14. ASSUME NEW q, net' = n, hw'.pt = q, q.late = p.late, q.started = p.started, q.sent = p.sent,
              q.received = p.received, q.abort = 0, q.point = p.point,
              q.vec = p.vec \/ q.vec = <<>>,
              q.state = p.state \/ (q.state = 4 /\ seen = 3)
       PROVE  Ordered'
  <2>1. ASSUME q.state = p.state PROVE Stage(hw', ptc, rt', n, robot)
    <3>1. Stage(hw', ptc, rt, n, robot)
      BY <1>7, <1>14, <2>1, StageStays
    <3> QED
      BY <3>1, StageLoaded
  <2>2. ASSUME q.state = 4, seen = 3 PROVE Stage(hw', ptc, rt', n, robot)
    <3>1. PICK s : s = [phase |-> "read", seen |-> 4]
      OBVIOUS
    <3>2. s.seen = 4 /\ s.phase = "read"
      BY <3>1
    <3>3. hw'.pt.state = 4 /\ 4 \in 1..4 /\ s.seen = hw'.pt.state
      BY <1>14, <2>2, <3>2
    <3>4. Quiet(hw, ptc, rt, n, robot) => ~(ptc.active /\ p.started)
      BY <1>12, <2>2
    <3>5. Stage(hw', ptc, s, n, robot)
      BY <1>7, <1>14, <3>3, <3>4, StageGoesOn
    <3> QED
      BY <3>5, StageLoaded
  <2>3. Stage(hw', ptc, rt', n, robot)
    BY <1>14, <2>1, <2>2
  <2>4. q.state \in 1..5 => p.state \in 1..5
    BY <1>11, <1>14
  <2>5. q.state = 2 => p.state = 2
    BY <1>14
  <2>6. Content(hw', ptc)
    BY <1>14, <2>4, <2>5 DEF Ordered, Content
  <2> QED
    BY <1>5, <1>8, <1>13, <1>14, <2>3, <2>6
<1>15. p.abort = 0
  BY DEF Ordered
<1>16. ASSUME NEW q, t.h = [hw EXCEPT !.pt = q] PROVE hw'.pt = q
  <2>1. t.h.pt = q
    BY <1>1, <1>16 DEF HardwareKeys
  <2> QED
    BY <2>1
<1>17. CASE t.h = hw /\ t.n = n
  BY <1>14, <1>15, <1>17
<1>18. CASE seen = 6 /\ t.h = [hw EXCEPT !.pt = Emptied(p)] /\ t.n = n
  <2>1. PICK v : v = [i \in 1..p.size |-> NoPoint]
    OBVIOUS
  <2>2. PICK q : q = [p EXCEPT !.vec = v, !.received = 0, !.sent = 0, !.started = FALSE, !.state = 1]
    OBVIOUS
  <2>3. q.abort = p.abort /\ q.state = 1 /\ q.received = 0 /\ q.started = FALSE /\ q.late = p.late
    BY <1>1, <2>2, PassthroughFields
  <2>4. hw'.pt = q
    BY <1>16, <1>18, <2>1, <2>2 DEF Emptied
  <2>5. Quiet(hw', ptc, rt', n, robot)
    BY <1>12, <1>18, <2>3, <2>4 DEF Quiet, NotDone
  <2>6. Content(hw', ptc)
    <3>1. \A i \in 1..q.received : FALSE
      BY <2>3
    <3>2. ptc.active => q.received <= Points[ptc.goal]
      BY <1>10, <2>3
    <3> QED
      BY <2>3, <2>4, <3>1, <3>2 DEF Content
  <2>7. Stage(hw', ptc, rt', n, robot)
    BY <2>5 DEF Stage
  <2>8. hw'.pt.abort = 0
    BY <1>15, <2>3, <2>4
  <2> QED
    BY <1>5, <1>8, <1>13, <1>18, <2>6, <2>7, <2>8
<1>19. CASE seen = 3 /\ t.h = [hw EXCEPT !.pt = Complete(p)] /\ t.n = n
  <2>1. PICK q : q = [p EXCEPT !.abort = 0, !.state = 4]
    OBVIOUS
  <2>2. /\ q.abort = 0 /\ q.state = 4 /\ q.received = p.received /\ q.started = p.started /\ q.late = p.late
        /\ q.sent = p.sent /\ q.vec = p.vec /\ q.point = p.point
    BY <1>1, <2>1, PassthroughFields
  <2>3. hw'.pt = q
    BY <1>16, <1>19, <2>1 DEF Complete
  <2> QED
    BY <1>14, <1>19, <2>2, <2>3
<1>20. CASE t.h = [hw EXCEPT !.pt = [p EXCEPT !.vec = <<>>]] /\ t.n = n
  <2>1. PICK q : q = [p EXCEPT !.vec = <<>>]
    OBVIOUS
  <2>2. /\ q.abort = p.abort /\ q.state = p.state /\ q.received = p.received /\ q.started = p.started /\ q.late = p.late
        /\ q.sent = p.sent /\ q.vec = <<>> /\ q.point = p.point
    BY <1>1, <2>1, PassthroughFields
  <2>3. hw'.pt = q
    BY <1>16, <1>20, <2>1
  <2> QED
    BY <1>14, <1>15, <1>20, <2>2, <2>3
<1>21. ASSUME seen = 2 PROVE /\ ptc.active /\ ptc.goal \in Goals /\ p.state = 2 /\ rt.seen = 2
                             /\ ptc.index = p.received + 1 /\ Len(p.vec) = Points[ptc.goal]
                             /\ p.received < Points[ptc.goal] /\ p.received < Len(p.vec)
  <2>1. ptc.active
    BY <1>11, <1>21
  <2>2. /\ ptc.index = p.received + 1 /\ Len(p.vec) = Points[ptc.goal] /\ ptc.index <= Points[ptc.goal]
        /\ ptc.goal \in Goals /\ Points[ptc.goal] \in Nat
    BY <1>10, <1>21, <2>1 DEF FitsAt
  <2>3. p.received \in Nat
    BY <1>1, PassthroughFields
  <2>4. p.received < Points[ptc.goal]
    BY <2>2, <2>3
  <2>5. p.state # 5
    BY <1>12, <2>2, <2>3, <2>4 DEF Finished
  <2>6. p.state = 2 /\ rt.seen = 2
    BY <1>11, <1>21, <2>5
  <2> QED
    BY <2>1, <2>2, <2>4, <2>6
<1>22. ASSUME seen = 2, NEW begun \in BOOLEAN, p.started => begun, t.h = [hw EXCEPT !.pt = Taken(p, begun)],
              t.n = Handed(n, p, begun)
       PROVE  Ordered'
  <2>1. PICK g \in Goals : g = ptc.goal
    BY <1>21, <1>22
  <2>2. hw'.pt = Taken(p, begun)
    BY <1>16, <1>22
  <2>3. /\ ptc.active /\ p.state = 2 /\ rt.seen = 2 /\ ptc.index = p.received + 1 /\ Len(p.vec) = Points[g]
        /\ p.received < Points[g] /\ p.received < Len(p.vec)
    BY <1>21, <1>22, <2>1
  <2>4. p.received \in Nat /\ p.received + 1 > 0
    BY <1>1, PassthroughFields
  <2>5. /\ \A i \in 1..p.received : p.vec[i] = <<g, i>>
        /\ p.point = <<g, p.received + 1>>
    <3>1. p.state \in 1..5 /\ p.vec # <<>>
      <4>1. \A q \in Seq(Seq(Nat)) : Len(q) > 0 => q # <<>>
        OBVIOUS
      <4>2. p.vec \in Seq(Seq(Nat)) /\ Len(p.vec) > 0
        BY <1>1, <2>3, <2>4, PassthroughFields
      <4>3. p.vec # <<>>
        BY <4>1, <4>2
      <4> QED
        BY <2>3, <4>3
    <3> QED
      BY <2>1, <2>3, <3>1 DEF Ordered, Content
  <2>6. robot.run \in Seq(GoalPoint)
    BY RobotFields DEF Typed
  <2>7. Sound(p)
    BY DEF Members
  <2>8. PICK m : m = net'
    OBVIOUS
  <2>9. m = Handed(n, p, begun)
    BY <1>22, <2>8
  <2>10. Taking(hw, hw', ptc, rt, rt', n, m, robot, begun, g)
    BY <1>1, <1>5, <1>7, <1>8, <1>22, <2>1, <2>2, <2>3, <2>5, <2>6, <2>7, <2>9 DEF Taking
  <2>11. Stage(hw', ptc, rt', m, robot) /\ (\A i \in DOMAIN m.rev : m.rev[i].arg # "cancel") /\ m.peer = n.peer
    BY <2>10, TakenStage
  <2>12. PICK q : q = Taken(p, begun)
    OBVIOUS
  <2>13. /\ q.abort = 0 /\ q.state = 1 /\ q.received = p.received + 1
         /\ q.vec = [p.vec EXCEPT ![p.received + 1] = p.point]
    BY <1>1, <2>3, <2>12, TakenIs
  <2>14. \A i \in 1..(p.received + 1) : q.vec[i] = <<g, i>>
    <3> SUFFICES ASSUME NEW i \in 1..(p.received + 1) PROVE q.vec[i] = <<g, i>>
      OBVIOUS
    <3>1. DOMAIN p.vec = 1..Len(p.vec) /\ Len(p.vec) \in Nat
      BY <1>1, PassthroughFields
    <3>2. p.received + 1 \in DOMAIN p.vec
      BY <2>3, <2>4, <3>1
    <3>3. CASE i = p.received + 1
      BY <2>5, <2>13, <3>2, <3>3
    <3>4. CASE i # p.received + 1
      <4>1. i \in 1..p.received /\ i \in DOMAIN p.vec
        BY <2>3, <2>4, <3>1, <3>4
      <4>2. q.vec[i] = p.vec[i]
        BY <2>13, <3>4, <4>1
      <4> QED
        BY <2>5, <4>1, <4>2
    <3> QED
      BY <3>3, <3>4
  <2>15. p.received + 1 <= Points[g]
    BY <1>10, <2>1, <2>3, <2>4
  <2>16. Content(hw', ptc)
    BY <2>1, <2>2, <2>12, <2>13, <2>14, <2>15 DEF Content
  <2> QED
    BY <1>5, <1>13, <2>2, <2>8, <2>11, <2>12, <2>13, <2>16
<1>23. \/ t.h = hw /\ t.n = n
       \/ p.abort = 1
       \/ seen = 6 /\ t.h = [hw EXCEPT !.pt = Emptied(p)] /\ t.n = n
       \/ seen = 2 /\ p.received >= Len(p.vec)
       \/ seen = 2 /\ \E begun \in BOOLEAN : /\ p.started => begun
                                           /\ t.h = [hw EXCEPT !.pt = Taken(p, begun)]
                                           /\ t.n = Handed(n, p, begun)
       \/ seen = 3 /\ t.h = [hw EXCEPT !.pt = Complete(p)] /\ t.n = n
       \/ t.h = [hw EXCEPT !.pt = [p EXCEPT !.vec = <<>>]] /\ t.n = n
  BY <1>9 DEF Transferred
<1>24. ~(seen = 2 /\ p.received >= Len(p.vec))
  <2>1. Len(p.vec) \in Nat /\ p.received \in Nat
    BY <1>1, PassthroughFields
  <2> QED
    BY <1>21, <2>1
<1>25. p.abort # 1
  BY <1>15
<1>26. ASSUME seen = 2, NEW begun \in BOOLEAN, p.started => begun, t.h = [hw EXCEPT !.pt = Taken(p, begun)],
              t.n = Handed(n, p, begun)
       PROVE  Ordered'
  BY <1>22, <1>26
<1> QED
  BY <1>17, <1>18, <1>19, <1>20, <1>23, <1>24, <1>25, <1>26

\* A command of a cycle in which nothing is transferred.
LEMMA IdleOrdered ==
  ASSUME Ordered, Typed(GoalPoint), ~ptc.active, rt.phase = "write",
         UNCHANGED <<robot, cm, ptc>>, rt'.phase = "read", rt'.seen = 0,
         hw.program, hw'.program = hw.program, hw'.pt = hw.pt,
         NEW c \in Commands, c.arg # "start", c.arg # "cancel", net' = SendReverse(net, c)
  PROVE  Ordered'
<1>1. net.peer = "up" /\ Lines(net, GoalPoint) /\ net.rev \in Seq(Commands)
  BY DEF Ordered, Linked, Typed, Lines
<1> PICK m : m = net'
  OBVIOUS
<1>2. /\ m.peer = "up" /\ m.trj = net.trj /\ m.res = net.res /\ m.rev = Append(net.rev, c)
  <2>1. PICK k : k = SendReverse(net, c)
    OBVIOUS
  <2>2. k.peer = net.peer /\ k.trj = net.trj /\ k.res = net.res
    BY <1>1, <2>1, ReverseIs
  <2>3. k.rev = IF net.peer = "up" THEN Append(net.rev, c) ELSE net.rev
    BY <1>1, <2>1, ReverseIs
  <2>4. m = k
    BY <2>1
  <2> QED
    BY <1>1, <2>2, <2>3, <2>4
<1>3. Quiet(hw, ptc, rt, net, robot)
  BY DEF Ordered, Stage, Starting, Running, Finished, Begun
<1>4. Quiet(hw, ptc, rt, m, robot)
  BY <1>1, <1>2, <1>3, CommandKeeps
<1>5. Stage(hw', ptc, rt, m, robot)
  <2>1. Stage(hw, ptc, rt, m, robot)
    BY <1>4 DEF Stage
  <2> QED
    BY <2>1, StageStays
<1>6. Stage(hw', ptc, rt', m, robot)
  BY <1>5, StageLoaded
<1>7. \A i \in DOMAIN m.rev : m.rev[i].arg # "cancel"
  <2>1. /\ DOMAIN net.rev = 1..Len(net.rev) /\ Len(net.rev) \in Nat
        /\ DOMAIN m.rev = 1..(Len(net.rev) + 1)
        /\ m.rev[Len(net.rev) + 1] = c
        /\ \A i \in 1..Len(net.rev) : m.rev[i] = net.rev[i]
    BY <1>1, <1>2, QueueEnds
  <2>2. \A i \in DOMAIN m.rev : (i \in DOMAIN net.rev /\ m.rev[i] = net.rev[i]) \/ m.rev[i] = c
    BY <2>1
  <2> QED
    BY <2>2 DEF Ordered
<1> QED
  BY <1>2, <1>6, <1>7 DEF Ordered, Linked, Content

\* write() of the control cycle.
LEMMA WriteOrdered ==
  ASSUME Members, FlagsInv, Room, Alone, clean => Ordered, session = "trajectory", Typed(GoalPoint), Write
  PROVE  Alone' /\ (clean' => Ordered')
<1>1. /\ UNCHANGED <<robot, clean, gpio, async, cm, ptc>> /\ rt.phase = "write"
      /\ rt'.phase = "read" /\ rt'.seen = 0
      /\ hw'.fm = hw.fm /\ hw'.fd = hw.fd /\ hw'.program = hw.program /\ net'.scr = net.scr
      /\ \/ hw' = hw /\ net' = net
         \/ /\ hw.program
            /\ \E seen \in {rt.seen, hw.pt.state} : \E s : \E t :
                  /\ s.h = hw /\ s.n = net /\ WholeSides(s) /\ Followed(s, t, seen)
                  /\ hw'.pt = t.h.pt /\ net' = t.n
  BY WriteAlone
<1>2. Alone'
  BY <1>1 DEF Alone
<1>3. ASSUME clean PROVE Ordered'
  <2>1. Ordered /\ HasRoom(hw, ptc, rt)
    BY <1>3 DEF Room
  <2>2. CASE hw' = hw /\ net' = net
    <3>1. Stage(hw', ptc', rt', net', robot')
      BY <1>1, <2>1, <2>2, StageLoaded DEF Ordered
    <3> QED
      BY <1>1, <2>1, <2>2, <3>1 DEF Ordered
  <2>3. ASSUME hw.program, NEW seen \in {rt.seen, hw.pt.state}, NEW s, NEW t,
               s.h = hw, s.n = net, WholeSides(s), Followed(s, t, seen), hw'.pt = t.h.pt, net' = t.n
        PROVE  Ordered'
    <3>1. ASSUME t.h = s.h, NEW c \in Commands, t.n = SendReverse(net, c), c.arg # "start", c.arg # "cancel",
                 hw.modes # {"passthrough"}
          PROVE  Ordered'
      <4>1. hw.modes \subseteq {"passthrough"} /\ hw.modes = cm.active
        BY DEF Alone, FlagsInv
      <4>2. "passthrough" \notin cm.active
        BY <3>1, <4>1
      <4>3. ~ptc.active
        BY <2>1, <4>2 DEF Ordered
      <4>4. net' = SendReverse(net, c) /\ hw'.pt = hw.pt
        BY <2>3, <3>1
      <4> QED
        BY <1>1, <2>1, <2>3, <3>1, <4>3, <4>4, IdleOrdered
    <3>2. ASSUME NEW u, u.h = hw, u.n = SendReverse(net, Command("forward", "noop", 0)), WholeSides(u),
                 Transferred(u, t, seen)
          PROVE  Ordered'
      BY <1>1, <2>1, <2>3, <3>2, TransferOrdered
    <3> QED
      BY <2>3, <3>1, <3>2 DEF Followed
  <2> QED
    BY <1>1, <2>2, <2>3
<1> QED
  BY <1>1, <1>2, <1>3

\* The steps of the robot program.
LEMMA RobotOrdered ==
  ASSUME Members, FlagsInv, Room, Alone, clean => Ordered, session = "trajectory", Typed(GoalPoint), Robot
  PROVE  Alone' /\ (clean' => Ordered')
<1>1. UNCHANGED <<hw, rt, ptc, gpio, async, cm>> /\ RobotStep
  BY DEF Robot, ctrls
<1>2. /\ DOMAIN net = NetKeys
      /\ DOMAIN robot = {"on", "mode", "left", "thread", "run", "freedrive", "tool", "touched", "force"}
  BY RobotFields DEF Typed, Lines
<1>3. ASSUME net'.scr = net.scr, robot'.tool = robot.tool PROVE Alone'
  BY <1>1, <1>3 DEF Alone
<1>4. CASE ReadCommand
  <2>3. robot'.tool = robot.tool
    BY <1>2, <1>4 DEF ReadCommand
  <2>4. net'.scr = net.scr
    BY <1>2, <1>4 DEF ReadCommand, NetKeys
  <2>5. clean' => clean
    BY <1>4, Zenon DEF ReadCommand
  <2> QED
    BY <1>1, <1>3, <1>4, <2>3, <2>4, <2>5, ReadCommandOrdered
<1>5. CASE ExecutePoint \/ FinishTrajectory
  <2>1. clean' = clean
    BY <1>5 DEF ExecutePoint, FinishTrajectory
  <2>2. net'.scr = net.scr /\ robot'.tool = robot.tool
    BY <1>2, <1>5 DEF ExecutePoint, FinishTrajectory, NetKeys
  <2> QED
    BY <1>1, <1>3, <1>5, <2>1, <2>2, ThreadOrdered
<1>6. CASE PointTimeout
  <2>1. ~clean' /\ net'.scr = net.scr /\ robot'.tool = robot.tool
    BY <1>2, <1>6 DEF PointTimeout, PointMissing, NetKeys
  <2> QED
    BY <1>3, <2>1
<1>7. ~DetectContact /\ ~RunScriptCommand
  BY DEF Alone, DetectContact, RunScriptCommand
<1> QED
  BY <1>1, <1>4, <1>5, <1>6, <1>7 DEF RobotStep

LEMMA GoalStarts == Init => GoalInv
<1> SUFFICES ASSUME Init, session = "trajectory" PROVE GoalInv
  BY DEF GoalInv
<1> PICK e : e = <<>>
  OBVIOUS
<1>1. /\ hw.pt = Exported.pt /\ hw.fd = Exported.fd /\ hw.fm = Exported.fm /\ hw.program = FALSE
      /\ rt.phase = "read" /\ rt.seen = 0
  BY DEF Init, HardwareInit
<1>2. /\ robot.thread = FALSE /\ robot.left = 0 /\ robot.tool = FALSE
      /\ net.rev = e /\ net.trj = e /\ net.res = e /\ net.scr = e /\ net.peer = "none"
  BY DEF Init, ExternalControlInit
<1>3. ptc.active = FALSE /\ ptc.accepting = NoGoal
  BY DEF Init, PassthroughInit
<1>4. cm.active = {} /\ cm.on = {} /\ cm.off = {} /\ async = "idle"
  BY DEF Init
<1>5. \A k \in Kinds : gpio.cmd[k] = None
  BY DEF Init, GpioInit
<1>6. Exported.pt.abort = 0 /\ Exported.pt.state = 0 /\ Exported.pt.late = FALSE
  BY DEF Exported
<1>7. DOMAIN e = {}
  OBVIOUS
<1>8. Quiet(hw, ptc, rt, net, robot)
  BY <1>1, <1>2, <1>3, <1>6, <1>7 DEF Quiet, NoStart, NotDone
<1>9. Ordered
  BY <1>1, <1>2, <1>3, <1>6, <1>7, <1>8 DEF Ordered, Stage, Content, Linked
<1>10. Alone
  BY <1>1, <1>2, <1>4, <1>5 DEF Alone
<1> QED
  BY <1>9, <1>10 DEF GoalInv

LEMMA GoalStep ==
  ASSUME Setting, Room, FlagsInv, GoalInv, [Next]_vars
  PROVE  GoalInv'
<1>1. CASE UNCHANGED vars
  <2>1. UNCHANGED <<robot, net, clean, hw, rt, ptc, gpio, async, session, cm>>
    BY <1>1 DEF vars, driver, ctrls, setup
  <2>2. Alone => Alone'
    BY <2>1 DEF Alone
  <2>3. Ordered => Ordered'
    BY <2>1, OrderedStays
  <2> QED
    BY <2>1, <2>2, <2>3 DEF GoalInv
<1>2. ASSUME Next PROVE session' = session
  BY <1>2 DEF Next, setup, Executor, ByExecutor, Pendant, RequestSwitch, Switch, Read, Update, Write, Clients,
         FrictionModel, Async, Workers, Robot
<1>3. ASSUME Next, session = "trajectory" PROVE Alone' /\ (clean' => Ordered')
  <2>1. Members /\ Typed(GoalPoint) /\ Lines(net, GoalPoint) /\ DOMAIN net = NetKeys
    BY <1>3 DEF Setting, Typed, Lines
  <2>2. Alone /\ (clean => Ordered)
    BY <1>3 DEF GoalInv
  <2>3. ASSUME NEW on \in {A \in SUBSET Controllers : Cardinality(A) <= 2}, NEW off \in SUBSET cm.active,
               RequestSwitch(on, off)
        PROVE  Alone' /\ (clean' => Ordered')
    BY <1>3, <2>1, <2>2, <2>3, RequestSwitchOrdered
  <2>4. CASE Switch
    BY <1>3, <2>1, <2>2, <2>4, SwitchOrdered
  <2>5. ASSUME NEW fresh \in BOOLEAN, Read(fresh) PROVE Alone' /\ (clean' => Ordered')
    BY <2>1, <2>2, <2>5, ReadOrdered
  <2>6. CASE Update
    BY <1>3, <2>1, <2>2, <2>6, UpdateOrdered
  <2>7. CASE Write
    BY <1>3, <2>1, <2>2, <2>7, WriteOrdered
  <2>8. CASE Clients
    <3>1. /\ UNCHANGED <<gpio, async, cm>>
          /\ PassthroughServer \/ ("passthrough" \in cm.active /\ \E g \in Goals : AcceptGoal(g))
      BY <1>3, <2>8 DEF Clients, Active
    <3> QED
      BY <2>1, <2>2, <3>1, ClientsOrdered
  <2>9. CASE Workers
    <3>1. UNCHANGED <<ctrls, async, setup, cm>>
      BY <2>9 DEF Workers
    <3>2. CASE ProgramConnected \/ ProgramDisconnected \/ ToolContactDone \/ ContactsCoalesced
      BY <2>1, <2>2, <3>1, <3>2, LinkOrdered
    <3>3. CASE TrajectoryDoneAbort \/ TrajectoryDoneState \/ ResultsCoalesced
      BY <2>1, <2>2, <3>1, <3>3, ResultOrdered
    <3> QED
      BY <2>9, <3>2, <3>3 DEF Workers, Callbacks
  <2>10. CASE Robot
    BY <1>3, <2>1, <2>2, <2>10, RobotOrdered
  <2>11. CASE Pendant
    BY <1>3, <2>1, <2>2, <2>11, PendantOrdered
  <2>12. ~Async /\ ~FrictionModel /\ ~Executor
    BY <1>3, <2>2, AsyncRests DEF FrictionModel, Executor, ByExecutor
  <2> QED
    BY <1>3, <2>3, <2>4, <2>5, <2>6, <2>7, <2>8, <2>9, <2>10, <2>11, <2>12 DEF Next
<1> QED
  BY <1>1, <1>2, <1>3 DEF GoalInv

\* Only update() lets a goal succeed, and only one whose transfer has ended.
LEMMA OnlyUpdateSucceeds ==
  ASSUME Members, Room, Next, NEW g \in Goals, ptc.status[g] = "accepted", ptc'.status[g] = "succeeded"
  PROVE  /\ Update /\ ptc.active /\ g = ptc.goal
         /\ 5 \in {rt.seen, hw.pt.state}
<1>1. DOMAIN ptc.status = Goals /\ ptc \in Passthrough
  BY DEF Members, Passthrough
<1>2. ptc' # ptc
  OBVIOUS
<1>3. Switch \/ Update \/ (PassthroughServer \/ \E f \in Goals : AcceptGoal(f))
  BY <1>2 DEF Next, ctrls, Executor, ByExecutor, Pendant, RequestSwitch, Read, Write, Clients,
         FrictionModel, Async, Workers, Robot
<1>4. ~Switch
  <2> SUFFICES ASSUME Switch PROVE FALSE
    OBVIOUS
  <2>1. PICK h : \/ ptc' = PassthroughDeactivate(h, ptc).c
                 \/ ptc' = ptc
    BY DEF Switch
  <2>2. ptc' = [ptc EXCEPT !.goal = NoGoal, !.active = FALSE, !.status[ptc.goal] = "aborted"]
    BY <1>2, <2>1 DEF PassthroughDeactivate
  <2>3. ptc'.status = [ptc.status EXCEPT ![ptc.goal] = "aborted"]
    BY <1>1, <2>2, PassthroughAre
  <2> QED
    BY <1>1, <2>3
<1>5. ~PassthroughServer /\ ~\E f \in Goals : AcceptGoal(f)
  <2>1. ASSUME NEW x, x # "succeeded", NEW k, ptc'.status = [ptc.status EXCEPT ![k] = x] \/ ptc'.status = ptc.status
        PROVE  FALSE
    BY <1>1, <2>1
  <2>2. ASSUME NEW f \in Goals, AcceptGoal(f) PROVE FALSE
    <3>1. ptc'.status = [ptc.status EXCEPT ![f] = "accepted"]
      BY <1>1, <2>2, PassthroughAre DEF AcceptGoal
    <3> QED
      BY <2>1, <3>1
  <2>3. CASE CancelGoal
    <3>1. ptc'.status = [ptc.status EXCEPT ![ptc.goal] = "canceled"]
      BY <1>1, <2>3, PassthroughAre DEF CancelGoal
    <3> QED
      BY <2>1, <3>1
  <2>4. CASE AcceptGoalHandle \/ AcceptDone \/ CancelDone
    <3>1. ptc'.status = ptc.status
      BY <1>1, <2>4, PassthroughAre DEF AcceptGoalHandle, AcceptDone, CancelDone
    <3> QED
      BY <2>1, <3>1
  <2> QED
    BY <2>2, <2>3, <2>4 DEF PassthroughServer
<1>6. Update
  BY <1>3, <1>4, <1>5
<1>7. PICK seen \in {rt.seen, hw.pt.state} : \E r : HandedOver(hw, ptc, seen, r) /\ ptc' = r.c
  <2>1. PICK seen \in {rt.seen, hw.pt.state} : \E r :
               /\ HandedOver(hw, ptc, seen, r) /\ ptc' = r.c
    BY <1>6, UpdateIs
  <2> QED
    BY <2>1
<1>8. /\ ptc.active
      /\ \E x \in Outcomes : /\ ptc' = [ptc EXCEPT !.active = FALSE, !.status[ptc.goal] = x]
                             /\ x = "succeeded" => seen = 5
  <2>1. PICK r : HandedOver(hw, ptc, seen, r) /\ ptc' = r.c
    BY <1>7
  <2>2. ASSUME ptc' = [ptc EXCEPT !.index = ptc.index + 1] PROVE FALSE
    BY <1>1, <2>2, PassthroughAre
  <2> QED
    BY <1>2, <2>1, <2>2 DEF HandedOver
<1>9. PICK x : /\ ptc' = [ptc EXCEPT !.active = FALSE, !.status[ptc.goal] = x]
               /\ x = "succeeded" => seen = 5
  BY <1>8
<1>10. ptc'.status = [ptc.status EXCEPT ![ptc.goal] = x]
  BY <1>1, <1>9, PassthroughAre
<1>11. g = ptc.goal /\ x = "succeeded"
  BY <1>1, <1>10
<1> QED
  BY <1>6, <1>7, <1>8, <1>9, <1>11

\* A goal that is reported successful is one whose points the robot program
\* has executed, all and in order, while nothing was cancelled and nothing
\* failed: though the points go through a scalar, a vector and a socket, the
\* program drains what it has not executed, and the result comes back through
\* another thread (update(), check_passthrough_trajectory_controller(),
\* trajectory_done_callback() and trajectoryThread() of external_control).
THEOREM GoalsAreExecuted == Spec => SuccessIsExecution
<1> DEFINE Inv == Setting /\ Room /\ FlagsInv /\ GoalInv
           Done(g) == ptc.status[g] = "accepted" /\ ptc'.status[g] = "succeeded" /\ clean
                         => robot.run = [i \in 1..Points[g] |-> <<g, i>>]
           Right == \A g \in Goals : Done(g)
<1>1. Init => Inv
  BY SettingStarts, FlagsStart, GoalStarts
<1>2. Inv /\ [Next]_vars => Inv'
  BY SettingStep, FlagsStep, GoalStep
<1>3. Inv /\ [Next]_vars => [Right]_vars
  <2> SUFFICES ASSUME Setting, Room, FlagsInv, GoalInv, Next, NEW g \in Goals,
                      ptc.status[g] = "accepted", ptc'.status[g] = "succeeded", clean
               PROVE  robot.run = [i \in 1..Points[g] |-> <<g, i>>]
    OBVIOUS
  <2>1. Members
    BY DEF Setting
  <2>2. /\ Update /\ ptc.active /\ g = ptc.goal
        /\ 5 \in {rt.seen, hw.pt.state}
    BY <2>1, OnlyUpdateSucceeds
  <2>3. session = "trajectory"
    BY <2>2 DEF Room, Inert
  <2>4. Stage(hw, ptc, rt, net, robot)
    BY <2>3 DEF GoalInv, Ordered
  <2>5. rt.phase # "read"
    BY <2>2 DEF Update
  <2>6. Finished(hw, ptc, rt, net, robot)
    BY <2>2, <2>4, <2>5, StageSeen
  <2> QED
    BY <2>2, <2>6 DEF Finished, UpTo
<1>4. [][Right]_vars => SuccessIsExecution
  BY DEF SuccessIsExecution
<1> QED
  BY <1>1, <1>2, <1>3, <1>4, PTL DEF Spec
=============================================================================
