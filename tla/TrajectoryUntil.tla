--------------------------- MODULE TrajectoryUntil ---------------------------
(***************************************************************************)
(* The trajectory_until node: its goal is a trajectory that is to stop at  *)
(* a tool contact.  The thread of its action server sends the two goals    *)
(* and waits for their acceptance; the responses and results are called    *)
(* back in another thread.  The node's first goal is 1, and so on.         *)
(***************************************************************************)
EXTENDS Integers

CONSTANT MaxUntilGoals   \* bound: goals sent to the node

ASSUME TrajectoryUntilAssumption == MaxUntilGoals \in Nat

VARIABLES
    node,    \* the node's members, the goal its server thread works on, history
    acts,    \* the two actions it uses: the goals sent, what has been heard of them
    status   \* the node's own goals, as their clients see them

uvars == <<node, acts, status>>

UntilGoals == 1..MaxUntilGoals
Actions == {"trajectory", "until"}
Terminal == {"succeeded", "aborted", "canceled"}

Handles == UntilGoals \cup {0}
Node == [pc : {"idle", "until", "trajectory", "accepting"}, goal : Handles, handle : Handles,
         current : [Actions -> Handles], accepted : [Actions -> BOOLEAN], client : Handles,
         dead : BOOLEAN, late : BOOLEAN]

UntilInit ==
    /\ node = [pc |-> "idle", goal |-> 0, handle |-> 0, current |-> [T \in Actions |-> 0],
               accepted |-> [T \in Actions |-> FALSE], client |-> 0, dead |-> FALSE, late |-> FALSE]
    /\ acts = [T \in Actions |-> [g \in UntilGoals |-> [state |-> "none", heard |-> "nothing"]]]
    /\ status = [g \in UntilGoals |-> "none"]

Sent(a, T, g) == [a EXCEPT ![T][g].state = "sent"]

(* async_cancel_goal() of the goals the node holds.  The client of the     *)
(* until action is made anew for every goal: it throws when it is given a  *)
(* handle of its predecessor.                                              *)
Unknown(n) == n.current["until"] \notin {0, n.client}
Cancelled(n, a) ==
    [T \in Actions |-> [g \in UntilGoals |->
        IF g = n.current[T] /\ a[T][g].state = "active" THEN [a[T][g] EXCEPT !.state = "canceling"]
        ELSE a[T][g]]]

(* reset_node(); the mutant leaves the actions alone.                      *)
Forgotten(n) == [n EXCEPT !.current = [T \in Actions |-> 0], !.handle = 0,
                          !.accepted = [T \in Actions |-> FALSE]]
ResetQuietly(n, a) == [n |-> Forgotten(n), a |-> a]
ResetNode(n, a) == IF Unknown(n) THEN [n |-> [n EXCEPT !.dead = TRUE], a |-> a]
                   ELSE [n |-> Forgotten(n), a |-> Cancelled(n, a)]

(***************************************************************************)
(* The thread of the action server.  Both waits have no predicate, and the *)
(* second is on a condition nobody signals: what counts is whether the     *)
(* acceptance has been called back when the thread goes on.                *)
(***************************************************************************)
ReceiveGoal(g) ==
    /\ node.pc = "idle" /\ status[g] = "none" /\ \A h \in 1..(g - 1) : status[h] # "none"
    /\ \/ node.handle = 0 /\ acts' = Sent(acts, "until", g) /\ UNCHANGED status
          /\ node' = [node EXCEPT !.pc = "until", !.goal = g, !.client = g]
       \/ /\ status' = [status EXCEPT ![g] = "rejected"] /\ UNCHANGED acts
          /\ UNCHANGED node \/ (node.handle = 0 /\ node' = [node EXCEPT !.client = g])
Rejected(n) == /\ node' = [n EXCEPT !.pc = "idle",
                                     !.late = @ \/ acts[node.pc][node.goal].heard = "nothing"]
               /\ status' = [status EXCEPT ![node.goal] = "rejected"]
UntilAccepted ==
    /\ node.pc = "until"
    /\ IF node.accepted["until"]
       THEN /\ acts' = Sent(acts, "trajectory", node.goal)
            /\ node' = [node EXCEPT !.pc = "trajectory"] /\ UNCHANGED status
       ELSE Rejected(node) /\ UNCHANGED acts
TrajectoryAccepted ==
    /\ node.pc = "trajectory"
    /\ IF node.accepted["trajectory"]
       THEN /\ node' = [node EXCEPT !.pc = "accepting"] /\ UNCHANGED acts
            /\ status' = [status EXCEPT ![node.goal] = "executing"]
       ELSE LET r == ResetNode(node, acts) IN acts' = r.a /\ Rejected(r.n)
GoalAccepted == /\ node.pc = "accepting"
                /\ node' = [node EXCEPT !.pc = "idle", !.handle = node.goal]
                /\ UNCHANGED <<acts, status>>
GoalCancelled(g) ==
    /\ node.pc = "idle" /\ status[g] = "executing"
    /\ IF Unknown(node) THEN node' = [node EXCEPT !.dead = TRUE] /\ UNCHANGED <<acts, status>>
       ELSE /\ acts' = Cancelled(node, acts) /\ UNCHANGED node
            /\ status' = [status EXCEPT ![g] = "canceling"]
ServerThread == UntilAccepted \/ TrajectoryAccepted \/ GoalAccepted

(***************************************************************************)
(* The thread of the clients.  An until client that has been replaced      *)
(* calls nothing back.                                                     *)
(***************************************************************************)
Listens(T, g) == T = "trajectory" \/ node.client = g
Response(T, g) ==
    /\ acts[T][g].heard = "nothing" /\ acts[T][g].state \notin {"none", "sent"} /\ Listens(T, g)
    /\ acts' = [acts EXCEPT ![T][g].heard = "response"] /\ UNCHANGED status
    /\ node' = IF acts[T][g].state = "rejected" THEN node
               ELSE [node EXCEPT !.current[T] = g, !.accepted[T] = TRUE]

(* report_goal(): succeed() and abort() may follow on any state in which a *)
(* goal is held, canceled() throws unless the goal is being cancelled.     *)
MayReport(n, code) == n.handle # 0 => (code = "canceled" => status[n.handle] = "canceling")
Result(T, g) ==
    /\ acts[T][g].heard = "response" /\ acts[T][g].state \in Terminal /\ Listens(T, g)
    /\ LET code == acts[T][g].state
           heard == [acts EXCEPT ![T][g].heard = "result"]
           hit == node.handle # g /\ (node.handle # 0 \/ node.pc # "idle")
           n == [node EXCEPT !.current[T] = 0, !.late = @ \/ hit]
           r == ResetNode(n, heard)
       IN  IF MayReport(node, code)
           THEN /\ node' = r.n /\ acts' = r.a
                /\ status' = IF node.handle = 0 THEN status ELSE [status EXCEPT ![node.handle] = code]
           ELSE node' = [n EXCEPT !.dead = TRUE] /\ acts' = heard /\ UNCHANGED status
ClientsThread == \E T \in Actions, g \in UntilGoals : Response(T, g) \/ Result(T, g)

(***************************************************************************)
(* The controllers: one goal at a time, and every goal ends.               *)
(***************************************************************************)
Busy(T) == \E g \in UntilGoals : acts[T][g].state \in {"active", "canceling"}
To(T, g, s) == acts' = [acts EXCEPT ![T][g].state = s] /\ UNCHANGED <<node, status>>
ActionServer(T, g) ==
    \/ acts[T][g].state = "sent" /\ (To(T, g, "rejected") \/ (~Busy(T) /\ To(T, g, "active")))
    \/ acts[T][g].state = "canceling" /\ To(T, g, "canceled")
    \/ acts[T][g].state \in {"active", "canceling"} /\ (To(T, g, "succeeded") \/ To(T, g, "aborted"))
ActionServers == \E T \in Actions, g \in UntilGoals : ActionServer(T, g)

Alive(A) == ~node.dead /\ A
UntilNext == \/ Alive(ServerThread \/ ClientsThread \/ \E g \in UntilGoals : ReceiveGoal(g) \/ GoalCancelled(g))
             \/ ActionServers

-----------------------------------------------------------------------------
(* As long as every acceptance is called back while it is waited for, and  *)
(* every result while its own goal is held or nothing is: a goal succeeds  *)
(* with its own trajectory or contact, no trajectory runs for which no     *)
(* contact is watched for, nothing goes on once the node is at rest, and   *)
(* the node lives.                                                         *)
AtRest == node.pc = "idle" /\ node.handle = 0
UntilTruth ==
    /\ node \in Node
    /\ ~node.late =>
        /\ ~node.dead
        /\ \A g \in UntilGoals :
              /\ status[g] = "succeeded" => \E T \in Actions : acts[T][g].state = "succeeded"
              /\ acts["trajectory"][g].state = "active" =>
                    acts["until"][g].state \notin {"none", "sent", "rejected"}
        /\ AtRest => \A T \in Actions, g \in UntilGoals : acts[T][g].state # "active"

(* ... and every goal the node has accepted is answered.                   *)
UntilAnswered == AtRest \/ node.late
=============================================================================
