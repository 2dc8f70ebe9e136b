------------------------------- MODULE YoloVote -------------------------------
(***************************************************************************)
(* The vote of pipeline_vision.py: several camera frames are compared,     *)
(* their detections averaged, the candidate next to the tool is selected   *)
(* and the grid pose nearest to it is where the arm goes next.             *)
(*                                                                         *)
(* Pixels are the integers of a line.  What the camera and the network can *)
(* come up with is the constant Frames: parts that are overlooked, seen a  *)
(* little off or seen where there are none, in any order, and frames from  *)
(* before the arm stopped, in which everything is somewhere else.          *)
(***************************************************************************)
EXTENDS Integers, Sequences, FiniteSets

CONSTANTS
  VoteFrames,   \* yolo_vote_frames
  MaxDist,      \* yolo_vote_max_center_dist_px
  Rows,         \* the pose_prefix values of the class: one per grasp mode
  Frames,       \* what a frame can show: records [seen, stale]
  Lag,          \* frames from before the arm stopped that can still arrive
  Points,       \* the grasp points of the parts that are there
  Jitter,       \* how far off a detected grasp point is at most
  GridPoses,    \* the grid poses of the class: records [x, row]
  MmPerPx, CentreX   \* the camera: base x of a pixel, with the camera's height

Candidate == [u : Int, row : Rows]

ASSUME VoteAssumption ==
  /\ VoteFrames \in Nat \ {0} /\ MaxDist \in Nat /\ Lag \in Nat /\ Jitter \in Nat
  /\ Frames \subseteq [seen : Seq(Candidate), stale : BOOLEAN]
  /\ Points \subseteq Candidate
  /\ GridPoses \subseteq [x : Int, row : Rows]
  /\ MmPerPx \in Nat \ {0} /\ CentreX \in Int

VARIABLES
  stage,     \* "frame", "match", "select", "locate" or "done"
  vote,      \* vote_index + 1
  failed,    \* first_error is set
  ref,       \* the reference frame, candidate_votes[0], or <<>>
  votes,     \* how many frames are in candidate_votes
  sum,       \* for each candidate the sum of its center_u in candidate_votes
  cur,       \* the candidates of the frame being matched
  matched,   \* _match_candidates_to_reference(): which of them, so far
  selected,  \* the selected candidate, an index of ref, or 0
  pose,      \* what select_yolo_grid_pose() returns: a set of at most one pose
  settled,   \* history: a frame from after the arm stopped has arrived
  good       \* history: one of the frames compared shows the parts as they are

loop == <<stage, vote, failed>>
tally == <<ref, votes, sum>>
matching == <<cur, matched>>
yoloVars == <<loop, tally, matching, selected, pose, settled, good>>

Abs(n) == IF n < 0 THEN -n ELSE n
Dist(c, d) == Abs(c.u - d.u)

\* The frame shows every grasp point, and nothing else.
ShowsParts(frame) ==
  /\ ~frame.stale
  /\ Len(frame.seen) = Cardinality(Points)
  /\ \A p \in Points : \E k \in DOMAIN frame.seen :
       frame.seen[k].row = p.row /\ Dist(frame.seen[k], p) <= Jitter

-----------------------------------------------------------------------------
(* get_stable_yolo_candidates()                                            *)

\* The next frame of the loop, or its end: any error, in any frame, rejects the vote.
NextVote ==
  IF vote < VoteFrames THEN vote' = vote + 1 /\ stage' = "frame"
  ELSE vote' = vote /\ stage' = IF failed' \/ votes' # VoteFrames THEN "done" ELSE "select"

\* No frame within the timeout, no model, no such class.
Bad ==
  /\ stage = "frame"
  /\ failed' = TRUE /\ UNCHANGED votes /\ NextVote
  /\ UNCHANGED <<ref, sum, matching, selected, pose, settled, good>>

\* A new frame: the subscription keeps the last one only, so once one from after the
\* motion has arrived all are.
Arrives(frame) ==
  /\ stage = "frame"
  /\ frame.stale => ~settled /\ vote <= Lag
  /\ settled' = (settled \/ ~frame.stale)

Empty(frame) ==
  /\ Arrives(frame) /\ frame.seen = <<>>
  /\ failed' = TRUE /\ UNCHANGED votes /\ NextVote
  /\ UNCHANGED <<ref, sum, matching, selected, pose, good>>

Reference(frame) ==
  /\ Arrives(frame) /\ frame.seen # <<>> /\ votes = 0
  /\ ref' = frame.seen /\ votes' = 1
  /\ sum' = [i \in DOMAIN frame.seen |-> frame.seen[i].u]
  /\ good' = ShowsParts(frame)
  /\ UNCHANGED failed /\ NextVote
  /\ UNCHANGED <<matching, selected, pose>>

Compare(frame) ==
  /\ Arrives(frame) /\ frame.seen # <<>> /\ votes > 0
  /\ IF Len(frame.seen) = Len(ref)
       THEN /\ cur' = frame.seen /\ matched' = <<>> /\ stage' = "match"
            /\ good' = (good \/ ShowsParts(frame))
            /\ UNCHANGED <<vote, failed, votes>>
       ELSE /\ failed' = TRUE /\ UNCHANGED votes /\ NextVote
            /\ UNCHANGED <<matching, good>>
  /\ UNCHANGED <<ref, sum, selected, pose>>

Unused == DOMAIN cur \ {matched[i] : i \in DOMAIN matched}
Reached == ref[Len(matched) + 1]

\* The nearest of the unused candidates, the first one of them.
IsNearest(k) == \A j \in Unused :
  \/ Dist(cur[k], Reached) < Dist(cur[j], Reached)
  \/ Dist(cur[k], Reached) = Dist(cur[j], Reached) /\ k <= j

Match ==
  /\ stage = "match" /\ Len(matched) < Len(ref)
  /\ \E k \in Unused :
       /\ IsNearest(k) /\ Dist(cur[k], Reached) <= MaxDist
       /\ matched' = Append(matched, k)
  /\ UNCHANGED <<loop, tally, cur, selected, pose, settled, good>>

Mismatch ==
  /\ stage = "match" /\ Len(matched) < Len(ref)
  /\ \E k \in Unused : IsNearest(k) /\ Dist(cur[k], Reached) > MaxDist
  /\ failed' = TRUE /\ UNCHANGED votes /\ NextVote
  /\ UNCHANGED <<ref, sum, matching, selected, pose, settled, good>>

\* Mutant of Agree: the candidates are added up in the order of their own frame.
AgreeUnsorted ==
  /\ stage = "match" /\ Len(matched) = Len(ref)
  /\ votes' = votes + 1
  /\ sum' = [i \in DOMAIN sum |-> sum[i] + cur[i].u]
  /\ UNCHANGED failed /\ NextVote
  /\ UNCHANGED <<ref, matching, selected, pose, settled, good>>

Agree ==
  /\ stage = "match" /\ Len(matched) = Len(ref)
  /\ votes' = votes + 1
  /\ sum' = [i \in DOMAIN sum |-> sum[i] + cur[matched[i]].u]
  /\ UNCHANGED failed /\ NextVote
  /\ UNCHANGED <<ref, matching, selected, pose, settled, good>>

-----------------------------------------------------------------------------
(* select_yolo_grid_pose(), on the averages sum[i] / votes.                *)

\* _select_nearest_to_tool(): whichever is the nearest to the projection of the tool or,
\* without a projection, has the highest confidence.
Select ==
  /\ stage = "select"
  /\ selected' \in DOMAIN ref
  /\ stage' = "locate"
  /\ UNCHANGED <<vote, failed, tally, matching, pose, settled, good>>

\* pixel_to_base_parallel_camera(), times votes.
BaseX(i) == votes * CentreX + MmPerPx * sum[i]

\* Mutant of Fits: a grid pose of another row will do as well.
FitsAnyRow(p) == TRUE

\* pose_prefix: a pose of the row that the candidate was made for.
Fits(p) == p.row = ref[selected].row

\* find_closest_zone_pose_to_base_xy()
Locate ==
  /\ stage = "locate"
  /\ LET fitting == {p \in GridPoses : Fits(p)}
         away(p) == Abs(votes * p.x - BaseX(selected))
     IN \/ \E p \in fitting : /\ \A q \in fitting : away(p) <= away(q)
                              /\ pose' = {p}
        \/ fitting = {} /\ UNCHANGED pose
  /\ stage' = "done"
  /\ UNCHANGED <<vote, failed, tally, matching, selected, settled, good>>

\* The transform of the camera is not there.
NoCameraTransform ==
  /\ stage = "locate" /\ stage' = "done"
  /\ UNCHANGED <<vote, failed, tally, matching, selected, pose, settled, good>>

-----------------------------------------------------------------------------
YoloInit ==
  /\ stage = "frame" /\ vote = 1 /\ failed = FALSE
  /\ ref = <<>> /\ votes = 0 /\ sum = <<>>
  /\ cur = <<>> /\ matched = <<>>
  /\ selected = 0 /\ pose = {}
  /\ settled = FALSE /\ good = FALSE

Receive == \E frame \in Frames : Empty(frame) \/ Reference(frame) \/ Compare(frame)
Thread == Bad \/ Match \/ Mismatch \/ Agree \/ Select \/ Locate \/ NoCameraTransform
YoloNext == Thread \/ Receive

YoloSpec == YoloInit /\ [][YoloNext]_yoloVars

\* The thread goes on, its wait for a frame has a timeout; nothing is assumed of the
\* camera.
FairSpec == YoloSpec /\ WF_yoloVars(Thread)

-----------------------------------------------------------------------------
(* Correctness.                                                            *)

VoteFlags == failed \in BOOLEAN /\ settled \in BOOLEAN /\ good \in BOOLEAN

\* Every variable has its type; a frame that is matched has as many candidates as
\* the reference, and none of them is matched twice.
VoteTypeOK ==
  /\ stage \in {"frame", "match", "select", "locate", "done"}
  /\ vote \in 1..VoteFrames /\ votes \in 0..VoteFrames
  /\ VoteFlags
  /\ ref \in Seq(Candidate) /\ sum \in Seq(Int) /\ Len(sum) = Len(ref)
  /\ cur \in Seq(Candidate) /\ matched \in Seq(Nat) /\ Len(matched) <= Len(cur)
  /\ \A i \in DOMAIN matched : matched[i] \in DOMAIN cur
  /\ \A i, j \in DOMAIN matched : matched[i] = matched[j] => i = j
  /\ votes = 0 <=> ref = <<>>
  /\ stage \in {"frame", "match"} => votes < vote
  /\ stage = "match" => Len(cur) = Len(ref) /\ votes > 0
  /\ stage \in {"select", "locate"} => votes = VoteFrames
  /\ selected \in 0..Len(ref)
  /\ stage = "locate" => selected > 0
  /\ pose \subseteq GridPoses

\* Averaging never drifts: what the accepted frames add up to stays within the
\* matching distance of the reference frame, for each candidate.
AveragesNearReference ==
  votes > 0 => \A i \in DOMAIN ref :
    Abs(sum[i] - votes * ref[i].u) <= (votes - 1) * MaxDist

MatchedNear ==
  stage = "match" => \A i \in DOMAIN matched : Dist(cur[matched[i]], ref[i]) <= MaxDist

\* The inductive invariant behind AveragesNearReference.
VoteInv == VoteTypeOK /\ MatchedNear /\ AveragesNearReference

Accepted == stage \in {"select", "locate"} \/ pose # {}

\* One good frame is enough: if a vote is accepted and one of its frames showed the
\* parts as they are, then the averages are the grasp points of the parts, each one
\* once, as far off as that frame and the matching distances allow - although the
\* other frames may be from before the arm stopped, or show something else.
Off == VoteFrames * Jitter + (IF VoteFrames = 1 THEN 0 ELSE 2 * VoteFrames - 3) * MaxDist
AcceptedIsThere ==
  Accepted /\ good =>
    /\ Len(ref) = Cardinality(Points)
    /\ \A p \in Points : \E i \in DOMAIN ref :
         ref[i].row = p.row /\ Abs(sum[i] - VoteFrames * p.u) <= Off

\* The arm is sent to a grid pose with a part then, in the row of its grasp point.
HasPart(g) == \E p \in Points :
  p.row = g.row /\ Abs(g.x - (CentreX + MmPerPx * p.u)) <= MmPerPx * Jitter
ChosenHasPart == good => \A g \in pose : HasPart(g)

\* Matching one candidate after the other with the nearest one refuses no frame that
\* could be matched, in whatever order the network lists the candidates, if those of
\* the reference are far enough apart.
Apart == \A i, j \in DOMAIN ref : i # j => Dist(ref[i], ref[j]) > 2 * MaxDist
CanBeMatched == \E m \in [DOMAIN ref -> DOMAIN cur] :
  /\ \A i, j \in DOMAIN ref : m[i] = m[j] => i = j
  /\ \A i \in DOMAIN ref : Dist(cur[m[i]], ref[i]) <= MaxDist
RefusesRightly ==
  [][stage = "match" /\ stage' # "match" /\ votes' = votes => ~(Apart /\ CanBeMatched)]_yoloVars

\* The vote ends, whatever the camera does.
VoteEnds == <>(stage = "done")

\* What is accepted can be relied upon, what is refused had to be, and one or the
\* other happens.
VoteTrusted == [](AcceptedIsThere /\ ChosenHasPart) /\ RefusesRightly /\ VoteEnds
=============================================================================
