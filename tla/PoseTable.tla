----------------------------- MODULE PoseTable -----------------------------
(***************************************************************************)
(* The table of named poses: zone_poses_floor.csv, the copy of it that     *)
(* PipelineUtils keeps, and teleop.py's recording of poses into it.  The   *)
(* file is edited by hand too, also between two steps of a recording.      *)
(*                                                                         *)
(* A row is given by its name and its id; recorded rows are named zone<n>, *)
(* with n for the id.  The coordinates do not matter here.                 *)
(***************************************************************************)
EXTENDS Naturals, Sequences

CONSTANTS
  Shipped,      \* the ids of the rows that are there from the beginning
  MaxRecords,   \* bound: recordings
  MaxEdits      \* bound: edits by hand

ASSUME PoseAssumption ==
  /\ Shipped \in Seq(Nat) /\ Shipped # <<>>
  /\ MaxRecords \in Nat /\ MaxEdits \in Nat

VARIABLES
  file,        \* the rows of the file
  terminated,  \* its last line ends with a newline
  poses,       \* the rows in the dictionary of PipelineUtils, in their order
  pc,          \* where save_pose_to_csv() is: "menu", "counted" or "appended"
  counter,     \* what get_next_counter() has returned
  said,        \* what the last recording has said: "nothing", "recorded", "failed"
  running,     \* interactive_loop() runs
  wrote,       \* history: the last recording has written its row
  deleted,     \* history: a row has been deleted by hand
  records, edits  \* how many recordings and edits there were

table == <<file, terminated>>
session == <<poses, running>>
recording == <<pc, counter, said, wrote>>
counts == <<records, edits>>
vars == <<table, session, recording, deleted, counts>>

Kinds == {"zone", "hand", "broken"}
Row == [kind : Kinds, n : Nat, id : Nat]
SameName(r, s) == r.kind = s.kind /\ r.n = s.n

\* load_csv_poses(): any bad row, or a name that is there twice, refuses the file.
Loads(rows) ==
  /\ rows # <<>>
  /\ \A i \in DOMAIN rows : rows[i].kind # "broken"
  /\ \A i, j \in DOMAIN rows : SameName(rows[i], rows[j]) => i = j

\* get_pose_by_id() and get_name_by_id(): the first row with the id.
IsFound(rows, i) == \A j \in DOMAIN rows : rows[j].id = rows[i].id => i <= j

-----------------------------------------------------------------------------
(* save_pose_to_csv(), at the menu or during a motion.                     *)

Failed == said' = "failed" /\ pc' = "menu"

\* No transform of the tool.
NoTransform ==
  /\ running /\ pc = "menu" /\ records < MaxRecords /\ records' = records + 1
  /\ Failed /\ wrote' = FALSE
  /\ UNCHANGED <<table, session, counter, deleted, edits>>

\* get_next_counter(): the table is loaded again and its rows are counted.
NextCounter ==
  /\ running /\ pc = "menu" /\ records < MaxRecords /\ records' = records + 1
  /\ wrote' = FALSE
  /\ \/ /\ Loads(file)
        /\ poses' = file /\ counter' = Len(file) + 1 /\ pc' = "counted" /\ UNCHANGED said
     \/ ~Loads(file) /\ Failed /\ UNCHANGED <<poses, counter>>
  /\ UNCHANGED <<table, running, deleted, edits>>

NewRow == [kind |-> "zone", n |-> counter, id |-> counter]

\* Mutant of AppendRow: the row goes to the end of the file, whatever is there.
AppendUnterminated ==
  /\ pc = "counted"
  /\ file' = IF terminated THEN Append(file, NewRow)
             ELSE [file EXCEPT ![Len(file)].kind = "broken"]
  /\ terminated' = TRUE /\ pc' = "appended" /\ wrote' = TRUE
  /\ UNCHANGED <<session, counter, said, deleted, counts>>

\* ensure_trailing_newline(), then the row.
AppendRow ==
  /\ pc = "counted"
  /\ file' = Append(file, NewRow)
  /\ terminated' = TRUE /\ pc' = "appended" /\ wrote' = TRUE
  /\ UNCHANGED <<session, counter, said, deleted, counts>>

\* The file cannot be written.
AppendFails ==
  /\ pc = "counted"
  /\ Failed
  /\ UNCHANGED <<table, session, counter, wrote, deleted, counts>>

\* The table is loaded once more; whatever has failed, the message is the same.
Reload ==
  /\ pc = "appended"
  /\ \/ Loads(file) /\ poses' = file /\ said' = "recorded" /\ pc' = "menu"
     \/ ~Loads(file) /\ Failed /\ UNCHANGED poses
  /\ UNCHANGED <<table, running, counter, wrote, deleted, counts>>

-----------------------------------------------------------------------------
(* The menu.                                                               *)

\* "l" or a pose id: the table is loaded again; a refused file ends the program.
Choose ==
  /\ running /\ pc = "menu"
  /\ \/ Loads(file) /\ poses' = file /\ UNCHANGED running
     \/ ~Loads(file) /\ running' = FALSE /\ UNCHANGED poses
  /\ UNCHANGED <<table, recording, deleted, counts>>

\* teleop.py is started again; it starts with an empty table if it must.
Start ==
  /\ ~running /\ running' = TRUE
  /\ poses' = IF Loads(file) THEN file ELSE <<>>
  /\ said' = "nothing"
  /\ UNCHANGED <<table, pc, counter, wrote, deleted, counts>>

-----------------------------------------------------------------------------
(* Editing by hand (external).                                             *)

Edit == edits < MaxEdits /\ edits' = edits + 1 /\ terminated' \in BOOLEAN

\* A row with a name of its own, not one of the recorder's.
AddRow ==
  /\ Edit
  /\ \E id \in 1..Len(file) + 2 :
       file' = Append(file, [kind |-> "hand", n |-> Len(Shipped) + edits + 1, id |-> id])
  /\ UNCHANGED <<session, recording, deleted, records>>

DeleteRow ==
  /\ Edit /\ Len(file) > 1
  /\ \E k \in DOMAIN file :
       file' = [i \in 1..Len(file) - 1 |-> IF i < k THEN file[i] ELSE file[i + 1]]
  /\ deleted' = TRUE
  /\ UNCHANGED <<session, recording, records>>

-----------------------------------------------------------------------------
Init ==
  /\ file = [i \in DOMAIN Shipped |-> [kind |-> "hand", n |-> i, id |-> Shipped[i]]]
  /\ terminated = FALSE
  /\ poses = file /\ running = TRUE
  /\ pc = "menu" /\ counter = 0 /\ said = "nothing" /\ wrote = FALSE
  /\ deleted = FALSE /\ records = 0 /\ edits = 0

Recording == NoTransform \/ NextCounter \/ AppendRow \/ AppendFails \/ Reload
Editing == AddRow \/ DeleteRow

Next == Recording \/ Choose \/ Start \/ Editing

Spec == Init /\ [][Next]_vars

-----------------------------------------------------------------------------
(* Correctness.                                                            *)

FlagTypes ==
  terminated \in BOOLEAN /\ running \in BOOLEAN /\ wrote \in BOOLEAN /\ deleted \in BOOLEAN

PoseTypeOK ==
  /\ FlagTypes
  /\ file \in Seq(Row) /\ file # <<>> /\ poses \in Seq(Row)
  /\ pc \in {"menu", "counted", "appended"} /\ counter \in Nat
  /\ said \in {"nothing", "recorded", "failed"}
  /\ records \in 0..MaxRecords /\ edits \in 0..MaxEdits

\* The recorder's names are always new: they are below the number of rows, and the
\* next one is above them all - whatever is added by hand meanwhile.
RecordedBelow ==
  /\ \A i \in DOMAIN file : file[i].kind = "zone" => file[i].n <= Len(file)
  /\ pc = "counted" => /\ ~wrote
                       /\ counter <= Len(file) + 1
                       /\ \A i \in DOMAIN file : file[i].kind = "zone" => file[i].n < counter

HandNames ==
  \A i \in DOMAIN file : file[i].kind = "hand" => file[i].n <= Len(Shipped) + edits

\* As long as no row is deleted the file can be loaded: no recording makes a name
\* that is there already, and none damages the row before it.
LoadsUnlessDeleted == ~deleted => Loads(file)

\* The program goes on, then, and what it says of a recording is so.
SaysWhatItDid == said = "failed" /\ pc = "menu" => ~wrote
RunsUnlessDeleted == ~deleted => running /\ SaysWhatItDid

\* The table in use is a file that could be loaded, whole, or no table at all.
TableIsWhole == poses = <<>> \/ Loads(poses)

\* An id that the table has shipped with keeps its meaning: typing it moves to the
\* same pose, whatever has been recorded or added since, under whatever ids
\* ("<pose_id> -> switch to joint_trajectory_controller and move to CSV pose").
ShippedIdsKept ==
  ~deleted => \A i \in DOMAIN Shipped \cap DOMAIN poses :
    (\A j \in 1..i - 1 : Shipped[j] # Shipped[i]) => IsFound(poses, i)

\* The file and the table in use survive recordings and rows added by hand.
TableSafe == LoadsUnlessDeleted /\ RunsUnlessDeleted /\ TableIsWhole /\ ShippedIdsKept

\* Behind ShippedIdsKept: rows are added behind the shipped ones only.
Begins(rows) == \A i \in DOMAIN Shipped : i \in DOMAIN rows /\ rows[i].id = Shipped[i]
ShippedFirst == ~deleted => Begins(file) /\ (poses = <<>> \/ Begins(poses))

GrowingInv ==
  ~deleted => PoseTypeOK /\ RecordedBelow /\ HandNames /\ Loads(file) /\ running /\ SaysWhatItDid

PoseInv == PoseTypeOK /\ GrowingInv /\ TableIsWhole
=============================================================================
