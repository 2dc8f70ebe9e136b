---------------------------- MODULE PickAndPlace ----------------------------
(***************************************************************************)
(* What the pick-and-place pipeline promises: the parts are handled one    *)
(* after the other, in order, the gripper never holds two, and the program *)
(* reports completion only when every part it has found is where it        *)
(* belongs.  A program that gives up may have commanded a last movement    *)
(* that still takes effect; after a completion nothing moves.              *)
(***************************************************************************)
EXTENDS Naturals

CONSTANTS
  Parts,     \* the parts to be handled
  Rank       \* their order: the part of the lowest rank comes first

VARIABLES
  where,     \* each part: in its "slot", "held" or in the "cell"
  missed,    \* the parts that were not found
  outcome    \* "running", "complete", or how the program gave up

vars == <<where, missed, outcome>>

Handled == missed \cup {i \in Parts : where[i] = "cell"}
Turn(i) == i \notin Handled /\ \A k \in Parts : Rank[k] < Rank[i] => k \in Handled

Init ==
  /\ where = [i \in Parts |-> "slot"]
  /\ missed = {} /\ outcome = "running"

Miss(i) ==
  /\ outcome = "running" /\ Turn(i) /\ where[i] = "slot"
  /\ missed' = missed \cup {i}
  /\ UNCHANGED <<where, outcome>>

Pick(i) ==
  /\ outcome # "complete" /\ Turn(i) /\ where[i] = "slot"
  /\ where' = [where EXCEPT ![i] = "held"]
  /\ UNCHANGED <<missed, outcome>>

PutDown(i) ==
  /\ outcome # "complete" /\ where[i] = "held"
  /\ where' = [where EXCEPT ![i] = "cell"]
  /\ UNCHANGED <<missed, outcome>>

Complete ==
  /\ outcome = "running" /\ Handled = Parts
  /\ outcome' = "complete" /\ UNCHANGED <<where, missed>>

GiveUp ==
  /\ outcome = "running" /\ outcome' \in {"failed", "interrupted"}
  /\ UNCHANGED <<where, missed>>

Next == Complete \/ GiveUp \/ \E i \in Parts : Miss(i) \/ Pick(i) \/ PutDown(i)

Spec == Init /\ [][Next]_vars
=============================================================================
