---------------------------- MODULE CommandModes ----------------------------
(***************************************************************************)
(* The command modes of the UR hardware interface: which of them may run   *)
(* together, what prepare_command_mode_switch() accepts and what           *)
(* perform_command_mode_switch() does to the running flags.                *)
(***************************************************************************)
EXTENDS Integers, FiniteSets

JointModes == {"position", "velocity", "effort"}
Modes == JointModes \cup {"force", "passthrough", "freedrive", "tool_contact"}

(* mode_compatibility_: the pairs that are true; every other pair is false *)
Together == {{m, "tool_contact"} : m \in JointModes \cup {"passthrough"}}
                \cup {{"force", "passthrough"}}
Compatible(m, others) == \A o \in others : o = m \/ {m, o} \in Together

(* The checks of prepare_command_mode_switch(), with the modes that run,   *)
(* those asked to start and those asked to stop; torque says whether this  *)
(* robot's software has torque control.                                    *)
PreparedAlone(running, start, stop, torque) ==   \* mutant: what runs is not looked at
    \A m \in start : Compatible(m, start)
Prepared(running, start, stop, torque) ==
    /\ \A m \in start : Compatible(m, start)
    /\ "effort" \in start => torque
    /\ \A m \in start : Compatible(m, running \ stop)

(* The flags after perform_command_mode_switch(): a joint mode that starts *)
(* clears the other joint modes and passthrough, passthrough and freedrive *)
(* clear the joint modes.                                                  *)
JointStart(running, start) ==
    IF start \cap JointModes = {} THEN running
    ELSE LET first == CASE "position" \in start -> "position"
                        [] "position" \notin start /\ "velocity" \in start -> "velocity"
                        [] OTHER -> "effort"
         IN  (running \ (JointModes \cup {"passthrough"})) \cup {first}
Performed(running, start, stop) ==
    LET joint == JointStart(running \ stop, start)
        kept == IF start \cap {"passthrough", "freedrive"} # {} THEN joint \ JointModes ELSE joint
    IN  kept \cup (start \ JointModes)
=============================================================================
