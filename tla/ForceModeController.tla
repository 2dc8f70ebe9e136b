------------------------- MODULE ForceModeController -------------------------
(***************************************************************************)
(* ForceModeController: two services hand a request to update() and wait   *)
(* until the hardware interface has dealt with it.                         *)
(***************************************************************************)
EXTENDS HardwareInterface

VARIABLE fmc

ForceMode == [active : BOOLEAN, change : BOOLEAN, async : Cmd, call : {"none", "set", "disable"}]

ForceModeInit == fmc = [active |-> FALSE, change |-> FALSE, async |-> NoCmd, call |-> "none"]

ForceModeActivate(c) == [c EXCEPT !.active = FALSE, !.change = FALSE, !.async = NoCmd]
ForceModeDeactivate(h) == [h EXCEPT !.fm.disable = 1]

ForceModeUpdate(h, c) ==
    IF ~c.change THEN [h |-> h, c |-> [c EXCEPT !.async = h.fm.async]]
    ELSE [h |-> IF c.active THEN [h EXCEPT !.fm.params = TRUE, !.fm.async = Waiting]
                ELSE [h EXCEPT !.fm.disable = 1, !.fm.async = Waiting],
          c |-> [c EXCEPT !.async = Waiting, !.change = FALSE]]

(* setForceMode() and disableForceMode(): the request, and the end of the  *)
(* wait; after the retries setForceMode() goes on waiting.                 *)
CallForceMode(on) ==
    /\ fmc.call = "none"
    /\ fmc' = [fmc EXCEPT !.active = on, !.change = TRUE, !.call = IF on THEN "set" ELSE "disable"]
    /\ UNCHANGED <<robot, net, clean, upsets, hw, rt>>
ReturnForceMode ==
    /\ fmc.call # "none" /\ fmc.async # Waiting /\ ~fmc.change
    /\ fmc' = [fmc EXCEPT !.call = "none"]
    /\ UNCHANGED <<robot, net, clean, upsets, hw, rt>>

=============================================================================
