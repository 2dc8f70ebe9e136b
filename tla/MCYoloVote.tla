----------------------------- MODULE MCYoloVote -----------------------------
(* Two resistors, each with a lower and an upper grasp point.  A frame has *)
(* at most two boxes, in any order: parts seen up to a pixel off, one part *)
(* overlooked, a box where nothing is - near a part, and far from both -,  *)
(* and all of it shifted while the arm was moving.                         *)
EXTENDS YoloVote

MCRows == {"resist_storage_0", "resist_storage_1"}
Height(row) == IF row = "resist_storage_0" THEN 4 ELSE -4
Grasps(x) == <<[u |-> x + 4, row |-> "resist_storage_0"], [u |-> x - 4, row |-> "resist_storage_1"]>>

Parts == {0, 20}
MCPoints == {[u |-> x + Height(row), row |-> row] : x \in Parts, row \in MCRows}

Sightings == {x + j : x \in Parts, j \in -1..1} \cup {2, 10}
Boxes == {<<>>} \cup {<<x>> : x \in Sightings}
         \cup {xy \in Sightings \X Sightings : Abs(xy[1] - xy[2]) > 5}
Shifts == {1, 3, 20}

Show(boxes, shift) ==
  IF boxes = <<>> THEN <<>>
  ELSE IF Len(boxes) = 1 THEN Grasps(boxes[1] + shift)
  ELSE Grasps(boxes[1] + shift) \o Grasps(boxes[2] + shift)

MCFrames == {[seen |-> Show(b, 0), stale |-> FALSE] : b \in Boxes}
            \cup {[seen |-> Show(b, s), stale |-> TRUE] : b \in Boxes, s \in Shifts}

\* Three cells of two rows, taught up to a pixel off; the middle one is empty.
MCGridPoses ==
  {[x |-> 100 + 2 * (cell + Height(row)) + 1, row |-> row] : cell \in Parts \cup {10}, row \in MCRows}
=============================================================================
