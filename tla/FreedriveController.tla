------------------------- MODULE FreedriveController -------------------------
(***************************************************************************)
(* FreedriveModeController: messages on a topic ask for freedrive; silence *)
(* for the timeout ends it.  The hardware interface's async thread sends   *)
(* the start and the stop; the control cycle keeps freedrive alive.        *)
(***************************************************************************)
EXTENDS HardwareInterface

VARIABLES
    fdc,      \* the controller's members
    async     \* what checkAsyncIO() in the async thread is in the middle of

Freedrive == [active : BOOLEAN, change : BOOLEAN, timer : BOOLEAN]

FreedriveInit == fdc = [active |-> FALSE, change |-> FALSE, timer |-> FALSE]

FreedriveActivate(h, c) == [h |-> [h EXCEPT !.fd.abort = 0],
                            c |-> [c EXCEPT !.active = FALSE, !.change = FALSE]]
FreedriveDeactivate(c) == [c EXCEPT !.active = FALSE, !.timer = FALSE]

FreedriveUpdate(h, c) ==
    CASE ~c.change -> [h |-> h, c |-> c]
      [] c.change /\ c.active /\ h.fd.abort = 1 -> [h |-> h, c |-> [c EXCEPT !.active = FALSE]]
      [] c.change /\ c.active /\ h.fd.abort # 1 ->
            [h |-> [h EXCEPT !.fd.enable = 1, !.fd.async = Waiting], c |-> [c EXCEPT !.change = FALSE]]
      [] OTHER -> [h |-> [h EXCEPT !.fd.abort = 1, !.fd.async = Waiting],
                   c |-> [c EXCEPT !.change = FALSE]]

(* freedrive_cmd_callback() and timeout_callback() *)
FreedriveMessage(on) ==
    /\ ~fdc.change /\ fdc.active # on
    /\ fdc' = [fdc EXCEPT !.active = on, !.change = TRUE, !.timer = @ \/ on]
    /\ UNCHANGED <<robot, net, clean, upsets, hw, rt, async>>
FreedriveTimeout ==
    /\ fdc.timer
    /\ fdc' = [active |-> FALSE, change |-> fdc.change \/ fdc.active, timer |-> FALSE]
    /\ UNCHANGED <<robot, net, clean, upsets, hw, rt, async>>

(* checkAsyncIO(): START, then the request is forgotten, then freedrive is *)
(* marked active; the control cycle may run between any two of them.       *)
AsyncEnable ==
    /\ async = "idle" /\ hw.fd.enable # NoCmd
    /\ net' = SendReverse(net, Command("freedrive", "start", 0))
    /\ async' = "enable"
    /\ UNCHANGED <<robot, clean, upsets, rt, fdc, hw>>
AsyncEnabled ==
    /\ async = "enable"
    /\ hw' = [hw EXCEPT !.fd.async = Flag(HasClient(net)), !.fd.enable = NoCmd]
    /\ async' = "activate"
    /\ UNCHANGED <<robot, net, clean, upsets, rt, fdc>>
AsyncActivated ==
    /\ async = "activate"
    /\ hw' = [hw EXCEPT !.fd.activated = TRUE]
    /\ async' = "idle"
    /\ UNCHANGED <<robot, net, clean, upsets, rt, fdc>>
AsyncAbort ==
    /\ async = "idle" /\ hw.fd.abort = 1 /\ hw.fd.activated
    /\ net' = SendReverse(net, Command("freedrive", "stop", 0))
    /\ async' = "abort"
    /\ UNCHANGED <<robot, clean, upsets, rt, fdc, hw>>
AsyncAborted ==
    /\ async = "abort"
    /\ hw' = [hw EXCEPT !.fd.async = Flag(HasClient(net)), !.fd.activated = FALSE, !.fd.abort = NoCmd]
    /\ async' = "idle"
    /\ UNCHANGED <<robot, net, clean, upsets, rt, fdc>>

FreedriveAsync == AsyncEnable \/ AsyncEnabled \/ AsyncActivated \/ AsyncAbort \/ AsyncAborted
=============================================================================
