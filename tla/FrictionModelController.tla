----------------------- MODULE FrictionModelController -----------------------
(***************************************************************************)
(* FrictionModelController: the service keeps the scales in a box and asks *)
(* update() to store them for the hardware interface, whose async thread   *)
(* sends them and acknowledges.  update() stores in three steps the other  *)
(* threads can come between, and forgets the request last: also one that   *)
(* has come meanwhile.  The box outlives a deactivation.                   *)
(***************************************************************************)
EXTENDS FreedriveController

CONSTANT MaxScales      \* bound on the requests, which are numbered

ASSUME FrictionAssumption == MaxScales \in Nat

VARIABLE frc    \* the controller, its interfaces, the service's call, history

Scales == 0..MaxScales                   \* 0: NaN
Friction == [active : BOOLEAN, box : Scales, change : BOOLEAN, async : Cmd, result : BOOLEAN,
             at : {"poll", "store", "wait", "forget"}, cmd : Scales, flag : 0..Waiting, sent : Scales,
             waits : BOOLEAN, asked : Scales, outstanding : BOOLEAN, success : BOOLEAN]
FrictionInit == frc = [active |-> FALSE, box |-> 0, change |-> FALSE, async |-> NoCmd, result |-> FALSE,
                       at |-> "poll", cmd |-> 0, flag |-> 0, sent |-> 0,
                       waits |-> FALSE, asked |-> 0, outstanding |-> FALSE, success |-> FALSE]

frictionless == <<robot, clean, upsets, hw, fdc>>

FrictionActivate == frc' = [frc EXCEPT !.active = TRUE, !.change = frc.box # 0, !.result = FALSE, !.async = NoCmd]
FrictionDeactivate == frc' = [frc EXCEPT !.active = FALSE]

(* setFrictionModelParameters(); outstanding is history: when the request  *)
(* came an earlier one was still being dealt with, or was the last that    *)
(* has been acknowledged.                                                  *)
SetFriction ==
    /\ frc.active /\ ~frc.waits /\ frc.asked < MaxScales
    /\ frc' = [frc EXCEPT !.box = frc.asked + 1, !.asked = @ + 1, !.change = TRUE, !.waits = TRUE,
                          !.success = FALSE, !.outstanding = frc.change \/ frc.result \/ frc.async = Waiting]
FrictionReply == frc.waits /\ frc' = [frc EXCEPT !.waits = FALSE, !.success = frc.result]

(* The steps of update(), which gives up for this cycle when the service   *)
(* has the box.                                                            *)
ResultSeen(c) == IF c.async = Waiting /\ c.flag # Waiting THEN [c EXCEPT !.async = c.flag, !.result = c.flag = 1] ELSE c
FrictionPoll == /\ frc.at = "poll"
                /\ \E boxIsFree \in BOOLEAN :
                      frc' = [ResultSeen(frc) EXCEPT !.at = IF frc.change /\ boxIsFree THEN "store" ELSE "poll"]
FrictionStore == frc.at = "store" /\ frc' = [frc EXCEPT !.at = "wait", !.cmd = frc.box]
(* Mutant: the acknowledgement of the last scales stays.                   *)
WaitsForLast(c) == [c EXCEPT !.at = "forget", !.async = Waiting, !.result = FALSE]
WaitsForThese(c) == [c EXCEPT !.at = "forget", !.flag = Waiting, !.async = Waiting, !.result = FALSE]
FrictionWait == frc.at = "wait" /\ frc' = WaitsForThese(frc)
FrictionForget == frc.at = "forget" /\ frc' = [frc EXCEPT !.at = "poll", !.change = FALSE]

(* checkAsyncIO(): refused without a client and by an old robot software.  *)
FrictionSend ==
    /\ async = "idle" /\ frc.cmd # 0 /\ async' = "friction"
    /\ \E ok \in BOOLEAN :
          /\ ok => HasClient(net)
          /\ frc' = [frc EXCEPT !.flag = Flag(ok), !.sent = IF ok THEN frc.cmd ELSE @]
          /\ net' = IF ok THEN SendScript(net, "friction") ELSE net
FrictionSent == async = "friction" /\ async' = "idle" /\ frc' = [frc EXCEPT !.cmd = 0] /\ UNCHANGED net

FrictionService == (SetFriction \/ FrictionReply) /\ UNCHANGED <<frictionless, net, async, rt>>
FrictionAsync == (FrictionSend \/ FrictionSent) /\ UNCHANGED <<frictionless, rt>>
FrictionStep == FrictionPoll \/ FrictionStore \/ FrictionWait \/ FrictionForget
FrictionCycle ==
    /\ UNCHANGED <<frictionless, net, async>>
    /\ \/ /\ rt.phase = "update"
          /\ IF frc.active THEN FrictionStep ELSE UNCHANGED frc
          /\ rt' = IF frc'.at = "poll" THEN [phase |-> "write", seen |-> hw.pt.state] ELSE rt
       \/ /\ rt.phase = "write" /\ UNCHANGED rt
          /\ (frc.active /\ FrictionDeactivate) \/ (~frc.active /\ FrictionActivate)

-----------------------------------------------------------------------------
(* A request for new scales that is acknowledged has been sent, unless an  *)
(* earlier one was outstanding when it came.                               *)
ScalesAreSent == frc.success /\ ~frc.outstanding => frc.sent = frc.asked
=============================================================================
