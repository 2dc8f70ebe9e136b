---------------------------- MODULE MCRtdeClient ----------------------------
(* An application that reads while the connection is lost twice, and one   *)
(* that commands two outputs while it is lost once.                        *)
EXTENDS RtdeClient

MCLosses == [reads |-> 2, commands |-> 1]
=============================================================================
