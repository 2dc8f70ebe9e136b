------------------------ MODULE MCControllerStopper ------------------------
(* The controllers of ur_control.launch.py, one broadcaster for all of the  *)
(* consistent ones.                                                         *)
EXTENDS ControllerStopper

MCControllers == {"broadcaster", "friction", "gripper", "trajectory", "servo"}
MCSpawnOrder == <<"broadcaster", "friction", "gripper", "trajectory">>
=============================================================================
