--------------------------- MODULE GPIOController ---------------------------
(***************************************************************************)
(* The services of GPIOController and what checkAsyncIO() of the hardware  *)
(* interface does with them: a service clears the success flag, stores the *)
(* command and polls the flag; the async thread sends the command, stores  *)
(* the flag and forgets the command.  A service that has waited too long   *)
(* converts ASYNC_WAITING to bool, which is true.                          *)
(***************************************************************************)
EXTENDS FreedriveController

CONSTANTS
    Kinds,          \* the requests: digital, analog, speed, resend, hand_back, payload, zero_ft
    MaxRequests     \* bound on the requests of a session

(* What the async thread is in the middle of is named by the request.      *)
ASSUME GpioAssumption == /\ MaxRequests \in Nat /\ Kinds # {}
                         /\ Kinds \cap {"idle", "enable", "activate", "abort", "friction"} = {}

VARIABLE gpio

None == 0
FlagOf(k) == IF k \in {"digital", "analog", "voltage"} THEN "io" ELSE k
Requests == 0..MaxRequests
Gpio == [cmd : [Kinds -> Requests], flag : [{FlagOf(k) : k \in Kinds} -> 0..Waiting],
         pc : {"idle", "store", "wait"}, kind : Kinds, request : Requests, sent : Requests,
         timedOut : BOOLEAN, success : BOOLEAN]

GpioInit ==
    gpio = [cmd |-> [k \in Kinds |-> None], flag |-> [f \in {FlagOf(k) : k \in Kinds} |-> 0],
            pc |-> "idle", kind |-> CHOOSE k \in Kinds : TRUE, request |-> 0, sent |-> 0,
            timedOut |-> FALSE, success |-> FALSE]

others == <<robot, clean, upsets, rt, fdc>>

ResetNothing(k) ==      \* mutant: the flag of the last request stays
    /\ gpio.pc = "idle" /\ gpio.request < MaxRequests
    /\ gpio' = [gpio EXCEPT !.pc = "store", !.kind = k, !.request = @ + 1, !.success = FALSE]
    /\ UNCHANGED <<others, net, hw, async>>
Reset(k) ==
    /\ gpio.pc = "idle" /\ gpio.request < MaxRequests
    /\ gpio' = [gpio EXCEPT !.pc = "store", !.kind = k, !.request = @ + 1,
                            !.flag[FlagOf(k)] = Waiting, !.success = FALSE]
    /\ UNCHANGED <<others, net, hw, async>>
Store ==
    /\ gpio.pc = "store"
    /\ gpio' = [gpio EXCEPT !.pc = "wait", !.cmd[gpio.kind] = gpio.request]
    /\ UNCHANGED <<others, net, hw, async>>
(* waitForAsyncCommand() and the response *)
Reply ==
    /\ gpio.pc = "wait" /\ gpio.flag[FlagOf(gpio.kind)] # Waiting
    /\ gpio' = [gpio EXCEPT !.pc = "idle", !.success = (gpio.flag[FlagOf(gpio.kind)] = 1)]
    /\ UNCHANGED <<others, net, hw, async>>
TimeOut ==
    /\ gpio.pc = "wait" /\ gpio.flag[FlagOf(gpio.kind)] = Waiting
    /\ gpio' = [gpio EXCEPT !.pc = "idle", !.success = TRUE, !.timedOut = TRUE]
    /\ UNCHANGED <<others, net, hw, async>>

(* checkAsyncIO(): outputs and the speed slider go out over RTDE, the      *)
(* payload and the sensor over the script command socket or as a script,   *)
(* the program as a script; handing back only stops the control cycle.     *)
Accepts(k) == IF k = "hand_back" THEN {TRUE} ELSE BOOLEAN
AsyncSend(k) ==
    /\ async = "idle" /\ gpio.cmd[k] # None
    /\ \E ok \in Accepts(k) :
          /\ gpio' = [gpio EXCEPT !.flag[FlagOf(k)] = Flag(ok),
                                  !.sent = IF ok THEN gpio.cmd[k] ELSE @]
          /\ net' = IF ok /\ k \in {"payload", "zero_ft"} THEN SendScript(net, k) ELSE net
    /\ hw' = IF k = "hand_back" THEN [hw EXCEPT !.program = FALSE] ELSE hw
    /\ async' = k
    /\ UNCHANGED others
AsyncForget(k) ==
    /\ async = k
    /\ gpio' = [gpio EXCEPT !.cmd[k] = None]
    /\ async' = "idle"
    /\ UNCHANGED <<others, net, hw>>

GpioService == Reply \/ TimeOut \/ Store \/ \E k \in Kinds : Reset(k)
GpioAsync == \E k \in Kinds : AsyncSend(k) \/ AsyncForget(k)
=============================================================================
