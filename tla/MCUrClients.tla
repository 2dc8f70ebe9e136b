----------------------------- MODULE MCUrClients -----------------------------
(* Queues of one block, with a slot to spare and without, and one of       *)
(* several; scripts that are waited for in the three ways there are, a     *)
(* goal of each kind, a service of each kind, comparisons that hold, do    *)
(* not hold and throw.                                                     *)
EXTENDS UrClients

MCShapes == {[max |-> 2, block |-> 2], [max |-> 3, block |-> 4], [max |-> 4, block |-> 2]}
Script(what, patient, strict) == [what |-> what, name |-> "a", patient |-> patient, strict |-> strict]
MCScripts == {Script("script", FALSE, TRUE), Script("script", TRUE, FALSE), Script("secondary", FALSE, TRUE)}
Target(mode, stop, play) == [mode |-> mode, stop |-> stop, play |-> play]
MCTargets == {Target("POWER_OFF", FALSE, FALSE), Target("IDLE", TRUE, FALSE), Target("RUNNING", FALSE, TRUE),
              Target("BOOTING", FALSE, FALSE)}
Datum(type, value) == [type |-> type, value |-> value]
Compare(lhs, op, rhs) == [lhs |-> lhs, op |-> op, rhs |-> rhs]
MCConditions == {Compare(Datum("int", 10), "<", Datum("double", 15)),
                 Compare(Datum("bool", 10), "==", Datum("double", 0)),
                 Compare(Datum("version", 50), ">=", Datum("version", 50)),
                 Compare(Datum("string", 1), "<", Datum("string", 2))}
=============================================================================
