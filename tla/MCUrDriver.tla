----------------------------- MODULE MCUrDriver -----------------------------
(* Two trajectories, one that starts early and one that starts with its    *)
(* last point but one; every session of the driver.                        *)
EXTENDS UrDriver

MCGoals == {1, 2}
MCPoints == <<2, 1>>
MCLead == <<9, 0>>

P(move, target, via, velocity) == [move |-> move, target |-> target, via |-> via,
                                   velocity |-> velocity, acceleration |-> 1, blend |-> 0]
MCMotions == {<<P("MOVEJ", "joints", "none", 1), P("MOVEC", "pose", "joints", 1)>>,
              <<P("OPTIMOVEL", "pose", "none", 0)>>, <<P("MOVEC", "joints", "pose", 1)>>}
=============================================================================
