--------------------------- MODULE Poses_proofs -----------------------------
(***************************************************************************)
(* The poses the arm is sent to, for every table and camera: the table of  *)
(* poses stays readable while it is recorded into and edited, and what a   *)
(* vote of camera frames adds up to stays near its reference frame; it     *)
(* refuses no frame because of its order, and one good frame is enough.    *)
(***************************************************************************)
EXTENDS PoseTable, YoloVote, SequenceTheorems, FiniteSetTheorems, TLAPS

USE PoseAssumption

\* A function on 1..n is a sequence.
LEMMA RowsOfFunction ==
  ASSUME NEW n \in Nat, n > 0, NEW f \in [1..n -> Row]
  PROVE  f \in Seq(Row) /\ f # <<>> /\ Len(f) = n /\ DOMAIN f = 1..n
<1>1. f \in Seq(Row) /\ Len(f) = n /\ DOMAIN f = 1..n
  OBVIOUS
<1>2. f # <<>>
  BY <1>1
<1> QED
  BY <1>1, <1>2

\* What appending a row does to the rows.
LEMMA AppendedRows ==
  ASSUME NEW rows \in Seq(Row), NEW r \in Row
  PROVE  /\ Append(rows, r) \in Seq(Row) /\ Append(rows, r) # <<>>
         /\ Len(Append(rows, r)) = Len(rows) + 1
         /\ DOMAIN Append(rows, r) = 1..Len(rows) + 1
         /\ \A i \in 1..Len(rows) : i \in DOMAIN rows /\ Append(rows, r)[i] = rows[i]
         /\ Append(rows, r)[Len(rows) + 1] = r
  OBVIOUS

\* A row with a new name keeps a table readable.
LEMMA NewNameLoads ==
  ASSUME NEW rows \in Seq(Row), NEW r \in Row, Loads(rows), r.kind # "broken",
         \A i \in DOMAIN rows : ~SameName(rows[i], r)
  PROVE  Loads(Append(rows, r))
<1> DEFINE t == Append(rows, r)
<1>1. \A i \in DOMAIN t : t[i] = IF i = Len(rows) + 1 THEN r ELSE rows[i]
  BY AppendedRows
<1>2. \A i \in DOMAIN t : i # Len(rows) + 1 => i \in DOMAIN rows
  BY AppendedRows
<1>3. t # <<>>
  BY AppendedRows
<1>4. \A i \in DOMAIN t : t[i].kind # "broken"
  BY <1>1, <1>2 DEF Loads
<1>5. ASSUME NEW i \in DOMAIN t, NEW j \in DOMAIN t, SameName(t[i], t[j])
      PROVE  i = j
  <2>1. CASE i # Len(rows) + 1 /\ j # Len(rows) + 1
    BY <1>1, <1>2, <1>5, <2>1 DEF Loads
  <2>2. CASE i = Len(rows) + 1 /\ j # Len(rows) + 1
    BY <1>1, <1>2, <1>5, <2>2 DEF SameName
  <2>3. CASE i # Len(rows) + 1 /\ j = Len(rows) + 1
    BY <1>1, <1>2, <1>5, <2>3 DEF SameName
  <2> QED
    BY <2>1, <2>2, <2>3
<1> QED
  BY <1>3, <1>4, <1>5 DEF Loads

LEMMA InitInv == Init => PoseInv
<1> SUFFICES ASSUME Init PROVE PoseInv
  OBVIOUS
<1>1. /\ DOMAIN file = DOMAIN Shipped /\ DOMAIN Shipped = 1..Len(Shipped)
      /\ Len(Shipped) \in Nat \ {0}
      /\ \A i \in DOMAIN file : file[i] = [kind |-> "hand", n |-> i, id |-> Shipped[i]]
  BY DEF Init
<1>2. file \in [1..Len(Shipped) -> Row]
  BY <1>1 DEF Init, Row, Kinds
<1>3. file \in Seq(Row) /\ Len(file) = Len(Shipped) /\ file # <<>>
  BY <1>1, <1>2, RowsOfFunction
<1>f. FlagTypes
  BY Zenon DEF Init, FlagTypes
<1>4. Loads(file)
  BY <1>1, <1>3 DEF Loads, SameName
<1>5. PoseTypeOK
  BY <1>f, <1>3 DEF Init, PoseTypeOK
<1>6. RecordedBelow
  BY <1>1 DEF Init, RecordedBelow
<1>7. HandNames
  <2>1. edits = 0
    BY DEF Init
  <2> QED
    BY <1>1, <2>1 DEF HandNames
<1> QED
  BY <1>4, <1>5, <1>6, <1>7 DEF Init, PoseInv, GrowingInv, TableIsWhole, SaysWhatItDid

LEMMA NextType == PoseTypeOK /\ [Next]_vars => PoseTypeOK'
<1> SUFFICES ASSUME PoseTypeOK, [Next]_vars PROVE PoseTypeOK'
  OBVIOUS
<1> USE DEF PoseTypeOK, table, session, recording, counts
<1>f. FlagTypes'
  BY Zenon DEF FlagTypes, Next, Recording, Editing, NoTransform, NextCounter, AppendRow,
     AppendFails, Reload, Choose, Start, AddRow, DeleteRow, Edit, vars
<1>1. CASE NoTransform
  BY <1>f, <1>1 DEF NoTransform, Failed
<1>2. CASE NextCounter
  BY <1>f, <1>2 DEF NextCounter, Failed
<1>3. CASE AppendRow
  <2>1. NewRow \in Row
    BY DEF NewRow, Row, Kinds
  <2>2. file' \in Seq(Row) /\ file' # <<>>
    BY <1>f, <1>3, <2>1, AppendedRows DEF AppendRow
  <2> QED
    BY <1>f, <1>3, <2>2 DEF AppendRow
<1>4. CASE AppendFails
  BY <1>f, <1>4 DEF AppendFails, Failed
<1>5. CASE Reload
  BY <1>f, <1>5 DEF Reload, Failed
<1>6. CASE Choose
  BY <1>f, <1>6 DEF Choose
<1>7. CASE Start
  <2>1. <<>> \in Seq(Row)
    OBVIOUS
  <2> QED
    BY <1>f, <1>7, <2>1 DEF Start
<1>8. CASE AddRow
  <2>1. PICK id \in 1..Len(file) + 2 :
          file' = Append(file, [kind |-> "hand", n |-> Len(Shipped) + edits + 1, id |-> id])
    BY <1>f, <1>8 DEF AddRow
  <2>2. [kind |-> "hand", n |-> Len(Shipped) + edits + 1, id |-> id] \in Row
    BY DEF Row, Kinds
  <2>3. file' \in Seq(Row) /\ file' # <<>>
    BY <2>1, <2>2, AppendedRows
  <2> QED
    BY <1>f, <1>8, <2>3 DEF AddRow, Edit
<1>9. CASE DeleteRow
  <2>1. PICK k \in DOMAIN file :
          file' = [i \in 1..Len(file) - 1 |-> IF i < k THEN file[i] ELSE file[i + 1]]
    BY <1>f, <1>9 DEF DeleteRow
  <2>2. Len(file) - 1 \in Nat /\ Len(file) - 1 > 0
    BY <1>f, <1>9 DEF DeleteRow
  <2>3. file' \in [1..Len(file) - 1 -> Row]
    BY <2>1, <2>2
  <2>4. file' \in Seq(Row) /\ file' # <<>>
    BY <2>2, <2>3, RowsOfFunction
  <2> QED
    BY <1>f, <1>9, <2>4 DEF DeleteRow, Edit
<1>10. CASE UNCHANGED vars
  BY <1>f, <1>10 DEF vars
<1> QED
  BY <1>1, <1>2, <1>3, <1>4, <1>5, <1>6, <1>7, <1>8, <1>9, <1>10 DEF Next, Recording, Editing

LEMMA NextWhole == TableIsWhole /\ [Next]_vars => TableIsWhole'
<1> SUFFICES ASSUME TableIsWhole, [Next]_vars PROVE TableIsWhole'
  OBVIOUS
<1>1. poses' = poses \/ poses' = <<>> \/ (poses' = file /\ Loads(file))
  BY DEF Next, Recording, Editing, NoTransform, NextCounter, AppendRow, AppendFails, Reload,
         Choose, Start, AddRow, DeleteRow, vars, session
<1> QED
  BY <1>1 DEF TableIsWhole, Loads, SameName

LEMMA NextGrowing == PoseTypeOK /\ GrowingInv /\ [Next]_vars => GrowingInv'
<1> SUFFICES ASSUME PoseTypeOK, GrowingInv, [Next]_vars, ~deleted' PROVE GrowingInv'
  BY DEF GrowingInv
<1>0. ~deleted
  BY DEF Next, Recording, Editing, NoTransform, NextCounter, AppendRow, AppendFails, Reload,
         Choose, Start, AddRow, DeleteRow, vars
<1>t. PoseTypeOK'
  BY NextType
<1>i. RecordedBelow /\ HandNames /\ Loads(file) /\ running /\ SaysWhatItDid
  BY <1>0 DEF GrowingInv
<1>r. /\ Len(file) \in Nat /\ Len(Shipped) \in Nat /\ edits \in Nat /\ counter \in Nat
      /\ DOMAIN file = 1..Len(file)
      /\ \A i \in DOMAIN file : file[i].n \in Nat
  <2>1. /\ Len(file) \in Nat /\ Len(Shipped) \in Nat /\ edits \in Nat /\ counter \in Nat
        /\ DOMAIN file = 1..Len(file)
    BY DEF PoseTypeOK
  <2>2. \A i \in DOMAIN file : file[i] \in Row
    BY DEF PoseTypeOK
  <2> QED
    BY <2>1, <2>2 DEF Row
<1>q. ASSUME RecordedBelow', HandNames', Loads(file)', running', SaysWhatItDid' PROVE GrowingInv'
  BY <1>q, <1>t DEF GrowingInv
<1> USE DEF PoseTypeOK, table, session, recording, counts
<1>1. CASE NoTransform
  <2>1. UNCHANGED <<file, counter, running, edits>> /\ pc' = "menu" /\ wrote' = FALSE
    BY <1>1 DEF NoTransform, Failed
  <2> QED
    BY <1>i, <1>q, <2>1 DEF RecordedBelow, HandNames, Loads, SaysWhatItDid
<1>2. CASE NextCounter
  <2>1. /\ UNCHANGED <<file, running, edits>> /\ wrote' = FALSE
        /\ pc' = "counted" /\ counter' = Len(file) + 1
    BY <1>i, <1>2 DEF NextCounter, Failed
  <2>2. RecordedBelow'
    BY <1>i, <1>r, <2>1 DEF RecordedBelow
  <2> QED
    BY <1>i, <1>q, <2>1, <2>2 DEF HandNames, Loads, SaysWhatItDid
<1>3. CASE AppendRow
  <2>1. NewRow \in Row /\ NewRow.kind = "zone" /\ NewRow.n = counter
    BY DEF NewRow, Row, Kinds
  <2>2. file' = Append(file, NewRow) /\ pc = "counted" /\ pc' = "appended"
        /\ UNCHANGED <<running, edits, said>>
    BY <1>3 DEF AppendRow
  <2>3. /\ Len(file') = Len(file) + 1 /\ DOMAIN file' = 1..Len(file) + 1
        /\ DOMAIN file = 1..Len(file)
        /\ \A i \in DOMAIN file' :
             IF i = Len(file) + 1 THEN file'[i] = NewRow ELSE i \in DOMAIN file /\ file'[i] = file[i]
    BY <2>1, <2>2, AppendedRows
  <2>4. RecordedBelow'
    BY <1>i, <1>r, <2>1, <2>2, <2>3 DEF RecordedBelow
  <2>5. HandNames'
    BY <1>i, <1>r, <2>1, <2>2, <2>3 DEF HandNames
  <2>6. \A i \in DOMAIN file : ~SameName(file[i], NewRow)
    BY <1>i, <2>1, <2>2 DEF RecordedBelow, SameName
  <2>7. Loads(Append(file, NewRow))
    BY <1>i, <2>1, <2>6, NewNameLoads
  <2> QED
    BY <1>i, <1>q, <2>2, <2>4, <2>5, <2>7 DEF SaysWhatItDid
<1>4. CASE AppendFails
  <2>1. UNCHANGED <<file, running, edits, wrote>> /\ pc = "counted" /\ pc' = "menu"
    BY <1>4 DEF AppendFails, Failed
  <2> QED
    BY <1>i, <1>q, <2>1 DEF RecordedBelow, HandNames, Loads, SaysWhatItDid
<1>5. CASE Reload
  <2>1. UNCHANGED <<file, running, edits>> /\ pc' = "menu" /\ said' = "recorded"
    BY <1>i, <1>5 DEF Reload, Failed
  <2> QED
    BY <1>i, <1>q, <2>1 DEF RecordedBelow, HandNames, Loads, SaysWhatItDid
<1>6. CASE Choose
  <2>1. UNCHANGED <<file, running, edits, pc, said, wrote, counter>>
    BY <1>i, <1>6 DEF Choose
  <2> QED
    BY <1>i, <1>q, <2>1 DEF RecordedBelow, HandNames, Loads, SaysWhatItDid
<1>7. CASE Start
  BY <1>i, <1>7 DEF Start
<1>8. CASE AddRow
  <2>1. PICK id \in 1..Len(file) + 2 :
          file' = Append(file, [kind |-> "hand", n |-> Len(Shipped) + edits + 1, id |-> id])
    BY <1>8 DEF AddRow
  <2> DEFINE r == [kind |-> "hand", n |-> Len(Shipped) + edits + 1, id |-> id]
  <2>2. r \in Row /\ r.kind = "hand" /\ r.n = Len(Shipped) + edits + 1
    BY DEF Row, Kinds
  <2> HIDE DEF r
  <2>3. /\ Len(file') = Len(file) + 1 /\ DOMAIN file' = 1..Len(file) + 1
        /\ DOMAIN file = 1..Len(file)
        /\ \A i \in DOMAIN file : file'[i] = file[i]
        /\ file'[Len(file) + 1] = r
    BY <2>1, <2>2, AppendedRows DEF r
  <2>4. UNCHANGED <<running, pc, counter, said, wrote>> /\ edits' = edits + 1
    BY <1>8 DEF AddRow, Edit
  <2>a. \A i \in DOMAIN file' : i \in DOMAIN file \/ i = Len(file) + 1
    BY <1>r, <2>3
  <2>b. pc' = "counted" => ~wrote'
    BY <1>i, <2>4, Zenon DEF RecordedBelow
  <2>c. \A i \in DOMAIN file' :
          file'[i].kind = "zone" =>
            file'[i].n <= Len(file') /\ (pc' = "counted" => file'[i].n < counter')
    BY <1>i, <1>r, <2>2, <2>3, <2>4, <2>a DEF RecordedBelow
  <2>d. pc' = "counted" => counter' <= Len(file') + 1
    BY <1>i, <1>r, <2>3, <2>4 DEF RecordedBelow
  <2>5. RecordedBelow'
    BY <2>b, <2>c, <2>d DEF RecordedBelow
  <2>6. HandNames'
    BY <1>i, <1>r, <2>2, <2>3, <2>4, <2>a DEF HandNames
  <2>7. \A i \in DOMAIN file : ~SameName(file[i], r)
    BY <1>i, <2>2 DEF HandNames, SameName
  <2>8. Loads(Append(file, r))
    BY <1>i, <2>2, <2>7, NewNameLoads
  <2>9. Loads(file')
    BY <2>1, <2>8 DEF r
  <2> QED
    BY <1>i, <1>q, <2>4, <2>5, <2>6, <2>9 DEF SaysWhatItDid
<1>9. CASE DeleteRow
  BY <1>9 DEF DeleteRow
<1>10. CASE UNCHANGED vars
  <2>1. UNCHANGED <<file, running, edits, pc, said, wrote, counter>>
    BY <1>10 DEF vars
  <2> QED
    BY <1>i, <1>q, <2>1 DEF RecordedBelow, HandNames, Loads, SaysWhatItDid
<1> QED
  BY <1>1, <1>2, <1>3, <1>4, <1>5, <1>6, <1>7, <1>8, <1>9, <1>10 DEF Next, Recording, Editing

LEMMA InitFirst == Init => ShippedFirst
<1> SUFFICES ASSUME Init PROVE Begins(file) /\ poses = file
  BY DEF Init, ShippedFirst
<1>1. DOMAIN file = DOMAIN Shipped /\ \A i \in DOMAIN Shipped : file[i].id = Shipped[i]
  BY DEF Init
<1> QED
  BY <1>1 DEF Begins, Init

\* A row that is appended leaves the shipped ones where they are.
LEMMA AppendedBegins ==
  ASSUME NEW rows \in Seq(Row), NEW r \in Row, Begins(rows)
  PROVE  Begins(Append(rows, r))
<1> SUFFICES ASSUME NEW i \in DOMAIN Shipped
             PROVE  i \in DOMAIN Append(rows, r) /\ Append(rows, r)[i].id = Shipped[i]
  BY DEF Begins
<1>1. i \in DOMAIN rows /\ rows[i].id = Shipped[i]
  BY DEF Begins
<1>2. i \in 1..Len(rows)
  BY <1>1
<1> QED
  BY <1>1, <1>2, AppendedRows

LEMMA NextFirst == PoseTypeOK /\ ShippedFirst /\ [Next]_vars => ShippedFirst'
<1> SUFFICES ASSUME PoseTypeOK, ShippedFirst, [Next]_vars, ~deleted' PROVE ShippedFirst'
  BY DEF ShippedFirst
<1>0. ~deleted
  BY DEF Next, Recording, Editing, NoTransform, NextCounter, AppendRow, AppendFails, Reload,
         Choose, Start, AddRow, DeleteRow, vars
<1>1. Begins(file) /\ (poses = <<>> \/ Begins(poses))
  BY <1>0 DEF ShippedFirst
<1>2. file' = file \/ \E r \in Row : file' = Append(file, r)
  <2>1. CASE AppendRow
    BY <2>1 DEF AppendRow, NewRow, Row, Kinds, PoseTypeOK
  <2>2. CASE AddRow
    <3>1. PICK id \in 1..Len(file) + 2 :
            file' = Append(file, [kind |-> "hand", n |-> Len(Shipped) + edits + 1, id |-> id])
      BY <2>2 DEF AddRow
    <3>2. [kind |-> "hand", n |-> Len(Shipped) + edits + 1, id |-> id] \in Row
      BY DEF PoseTypeOK, Row, Kinds
    <3> QED
      BY <3>1, <3>2
  <2>3. CASE file' = file
    BY <2>3
  <2> QED
    BY <2>1, <2>2, <2>3 DEF Next, Recording, Editing, NoTransform, NextCounter, AppendFails, Reload,
       Choose, Start, DeleteRow, vars, table
<1>3. Begins(file')
  BY <1>1, <1>2, AppendedBegins DEF PoseTypeOK
<1>4. poses' = poses \/ poses' = <<>> \/ poses' = file
  BY DEF Next, Recording, Editing, NoTransform, NextCounter, AppendRow, AppendFails, Reload,
         Choose, Start, AddRow, DeleteRow, vars, session
<1> QED
  BY <1>1, <1>3, <1>4 DEF ShippedFirst, Begins

\* The inductive invariant holds in every state.
THEOREM InductiveInvariant == Spec => []PoseInv
<1>1. PoseInv /\ [Next]_vars => PoseInv'
  BY NextType, NextWhole, NextGrowing DEF PoseInv
<1> QED
  BY <1>1, InitInv, PTL DEF Spec

\* The file can be loaded as long as no row is deleted by hand.
THEOREM FileLoads == Spec => []LoadsUnlessDeleted
<1>1. PoseInv => LoadsUnlessDeleted
  BY DEF PoseInv, GrowingInv, LoadsUnlessDeleted
<1> QED
  BY <1>1, InductiveInvariant, PTL

\* The program goes on, and says what it did, as long as no row is deleted by hand.
THEOREM ProgramRuns == Spec => []RunsUnlessDeleted
<1>1. PoseInv => RunsUnlessDeleted
  BY DEF PoseInv, GrowingInv, RunsUnlessDeleted
<1> QED
  BY <1>1, InductiveInvariant, PTL

\* The rows that are shipped keep their ids, and stay the first ones.
THEOREM ShippedStayFirst == Spec => []ShippedFirst
<1>1. PoseInv /\ ShippedFirst /\ [Next]_vars => ShippedFirst'
  BY NextFirst DEF PoseInv
<1> QED
  BY <1>1, InitFirst, InductiveInvariant, PTL DEF Spec

\* A shipped id is found where it was shipped.
LEMMA FirstIsFound == ShippedFirst /\ poses \in Seq(Row) => ShippedIdsKept
<1> SUFFICES ASSUME ShippedFirst, ~deleted, NEW i \in DOMAIN Shipped \cap DOMAIN poses,
                    \A j \in 1..i - 1 : Shipped[j] # Shipped[i],
                    NEW j \in DOMAIN poses, poses[j].id = poses[i].id, poses \in Seq(Row)
             PROVE  i <= j
  BY DEF ShippedIdsKept, IsFound
<1>1. Begins(poses) /\ poses[i].id = Shipped[i]
  BY DEF ShippedFirst, Begins
<1>2. CASE j \in DOMAIN Shipped
  BY <1>1, <1>2 DEF Begins
<1>3. CASE j \notin DOMAIN Shipped
  BY <1>3
<1> QED
  BY <1>2, <1>3

\* The file and the table in use, as the program sees them.
THEOREM TableIsSafe == Spec => []TableSafe
<1>1. PoseInv => LoadsUnlessDeleted /\ RunsUnlessDeleted /\ TableIsWhole
  BY DEF PoseInv, GrowingInv, LoadsUnlessDeleted, RunsUnlessDeleted
<1>2. PoseInv /\ ShippedFirst => TableSafe
  BY <1>1, FirstIsFound DEF TableSafe, PoseInv, PoseTypeOK
<1> QED
  BY <1>2, InductiveInvariant, ShippedStayFirst, PTL

-----------------------------------------------------------------------------
HIDE PoseAssumption

USE VoteAssumption

\* The distance of two pixels, and how sums and multiples behave under it.
LEMMA AbsType == \A n \in Int : Abs(n) \in Nat
  BY DEF Abs

LEMMA AbsSum == \A m, n \in Int : Abs(m + n) <= Abs(m) + Abs(n)
  BY DEF Abs

\* One more frame: the sum of n + 1 pixels is as far from n + 1 times the reference
\* as the sum of n from n times it, and the distance of the new one.
LEMMA OneMore ==
  ASSUME NEW n \in Nat \ {0}, NEW s \in Int, NEW c \in Int, NEW r \in Int,
         Abs(s - n * r) <= (n - 1) * MaxDist, Abs(c - r) <= MaxDist
  PROVE  Abs((s + c) - (n + 1) * r) <= ((n + 1) - 1) * MaxDist
<1> DEFINE nr == n * r
           nd == (n - 1) * MaxDist
<1>1. nr \in Int /\ nd \in Int
  OBVIOUS
<1>2. (n + 1) * r = nr + r
  OBVIOUS
<1>3. ((n + 1) - 1) * MaxDist = nd + MaxDist
  OBVIOUS
<1>4. Abs(s - nr) <= nd
  OBVIOUS
<1> HIDE DEF nr, nd
<1>5. (s + c) - (nr + r) = (s - nr) + (c - r)
  BY <1>1
<1>6. Abs((s - nr) + (c - r)) <= Abs(s - nr) + Abs(c - r)
  BY <1>1, AbsSum
<1>7. Abs((s + c) - (nr + r)) <= nd + MaxDist
  BY <1>1, <1>4, <1>5, <1>6, AbsType, SMTT(30)
<1> QED
  BY <1>2, <1>3, <1>7

-----------------------------------------------------------------------------
(* Types.                                                                  *)

\* Where the loop goes next, in a frame that is not matched any more.
LEMMA NextVoteType ==
  ASSUME vote \in 1..VoteFrames, votes' \in Nat, votes' <= vote, NextVote
  PROVE  /\ stage' \in {"frame", "select", "done"} /\ vote' \in 1..VoteFrames
         /\ stage' = "frame" => votes' < vote'
         /\ stage' = "select" => votes' = VoteFrames
         /\ votes' \in 0..VoteFrames
  BY DEF NextVote

\* What is in a sequence, and what makes one.
LEMMA Elements ==
  ASSUME NEW S, NEW s \in Seq(S)
  PROVE  Len(s) \in Nat /\ DOMAIN s = 1..Len(s) /\ \A i \in 1..Len(s) : s[i] \in S
  OBVIOUS

LEMMA SeqOfFunction ==
  ASSUME NEW S, NEW n \in Nat, NEW s \in [1..n -> S]
  PROVE  s \in Seq(S) /\ Len(s) = n
  OBVIOUS

LEMMA PixelType == \A c \in Candidate : c.u \in Int
  BY DEF Candidate

LEMMA SeenType ==
  ASSUME NEW frame \in Frames
  PROVE  frame.seen \in Seq(Candidate) /\ frame.stale \in BOOLEAN
  OBVIOUS

LEMMA FlagsKept == VoteFlags /\ [YoloNext]_yoloVars => VoteFlags'
  BY Zenon DEF VoteFlags, YoloNext, Thread, Receive, Bad, Empty, Reference, Compare, Arrives,
     Match, Mismatch, Agree, Select, Locate, NoCameraTransform, ShowsParts, yoloVars, loop

LEMMA InitType == YoloInit => VoteTypeOK
<1> SUFFICES ASSUME YoloInit PROVE VoteTypeOK
  OBVIOUS
<1>1. VoteFlags
  BY Zenon DEF YoloInit, VoteFlags
<1>2. \A S : <<>> \in Seq(S)
  OBVIOUS
<1> QED
  BY <1>1, <1>2 DEF YoloInit, VoteTypeOK

LEMMA YoloNextType == VoteTypeOK /\ [YoloNext]_yoloVars => VoteTypeOK'
<1> SUFFICES ASSUME VoteTypeOK, [YoloNext]_yoloVars PROVE VoteTypeOK'
  OBVIOUS
<1>f. VoteFlags'
  BY FlagsKept DEF VoteTypeOK
<1> USE DEF VoteTypeOK, loop, tally, matching
<1>1. CASE Bad
  <2>1. votes' = votes /\ votes' \in Nat /\ votes' <= vote /\ NextVote
    BY <1>1 DEF Bad
  <2> QED
    BY <1>1, <1>f, <2>1, NextVoteType DEF Bad
<1>2. ASSUME NEW frame \in Frames, Empty(frame) PROVE VoteTypeOK'
  <2>1. votes' = votes /\ votes' \in Nat /\ votes' <= vote /\ NextVote
    BY <1>2 DEF Empty, Arrives
  <2> QED
    BY <1>2, <1>f, <2>1, NextVoteType DEF Empty
<1>3. ASSUME NEW frame \in Frames, Reference(frame) PROVE VoteTypeOK'
  <2>1. votes' = 1 /\ votes' \in Nat /\ votes' <= vote /\ NextVote
    BY <1>3 DEF Reference, Arrives
  <2>2. ref' \in Seq(Candidate) /\ ref' # <<>> /\ ref' = frame.seen
    BY <1>3, SeenType DEF Reference
  <2>3. sum' = [i \in 1..Len(ref') |-> ref'[i].u] /\ Len(ref') \in Nat
    BY <1>3, <2>2 DEF Reference
  <2>4. \A i \in 1..Len(ref') : ref'[i].u \in Int
    BY <2>2, Elements, PixelType
  <2>5. sum' \in [1..Len(ref') -> Int]
    BY <2>3, <2>4
  <2>6. sum' \in Seq(Int) /\ Len(sum') = Len(ref')
    BY <2>3, <2>5, SeqOfFunction
  <2>7. UNCHANGED <<cur, matched, selected, pose>>
    BY <1>3 DEF Reference
  <2>8. selected' \in 0..Len(ref')
    BY <1>3, <2>3, <2>7 DEF Reference
  <2> QED
    BY <1>f, <2>1, <2>2, <2>6, <2>7, <2>8, NextVoteType
<1>4. ASSUME NEW frame \in Frames, Compare(frame) PROVE VoteTypeOK'
  <2>0. UNCHANGED <<ref, sum, selected, pose, votes>> /\ stage = "frame" /\ votes > 0
    BY <1>4 DEF Compare, Arrives
  <2>1. CASE Len(frame.seen) = Len(ref)
    <3>1. /\ cur' = frame.seen /\ matched' = <<>> /\ stage' = "match" /\ UNCHANGED vote
          /\ cur' \in Seq(Candidate) /\ matched' \in Seq(Nat) /\ Len(matched') = 0
      BY <1>4, <2>1, SeenType DEF Compare
    <3> QED
      BY <1>f, <2>0, <2>1, <3>1
  <2>2. CASE Len(frame.seen) # Len(ref)
    <3>1. votes' \in Nat /\ votes' <= vote /\ NextVote /\ UNCHANGED <<cur, matched>>
      BY <1>4, <2>0, <2>2 DEF Compare
    <3> QED
      BY <1>f, <2>0, <3>1, NextVoteType
  <2> QED
    BY <2>1, <2>2
<1>5. CASE Match
  <2>1. PICK k \in Unused : matched' = Append(matched, k)
    BY <1>5 DEF Match
  <2>c. DOMAIN cur = 1..Len(cur) /\ Len(cur) \in Nat /\ DOMAIN matched = 1..Len(matched)
    BY Elements
  <2>2. k \in DOMAIN cur /\ k \in Nat /\ \A i \in DOMAIN matched : matched[i] # k
    BY <2>1, <2>c DEF Unused
  <2>3. /\ matched' \in Seq(Nat) /\ Len(matched') = Len(matched) + 1 /\ Len(matched) \in Nat
        /\ DOMAIN matched' = 1..Len(matched) + 1
        /\ \A i \in 1..Len(matched) + 1 :
             matched'[i] = IF i = Len(matched) + 1 THEN k ELSE matched[i]
    BY <2>1, <2>2
  <2>4. UNCHANGED <<loop, tally, cur, selected, pose>> /\ Len(matched) < Len(ref) /\ stage = "match"
    BY <1>5 DEF Match
  <2>7. \A i \in 1..Len(matched) : matched'[i] = matched[i] /\ matched[i] \in DOMAIN cur
    <3>1. \A i \in DOMAIN matched : matched[i] \in DOMAIN cur
      BY Zenon DEF VoteTypeOK
    <3>2. \A i \in 1..Len(matched) : i \in 1..Len(matched) + 1 /\ i # Len(matched) + 1
      BY <2>3, SMTT(30)
    <3>3. \A i \in 1..Len(matched) : matched'[i] = matched[i]
      BY <2>3, <3>2, Zenon
    <3> QED
      BY <2>c, <3>1, <3>3, Zenon
  <2>8. matched'[Len(matched) + 1] = k
    BY <2>3, <2>c
  <2>9. \A i \in DOMAIN matched' : i \in 1..Len(matched) \/ i = Len(matched) + 1
    BY <2>3, <2>c
  <2>5. \A i \in DOMAIN matched' : matched'[i] \in DOMAIN cur
    BY <2>2, <2>7, <2>8, <2>9, Zenon
  <2>6. ASSUME NEW i \in DOMAIN matched', NEW j \in DOMAIN matched', matched'[i] = matched'[j]
        PROVE  i = j
    <3>1. CASE i \in 1..Len(matched) /\ j \in 1..Len(matched)
      <4>1. matched[i] = matched[j]
        BY <2>6, <2>7, <3>1, Zenon
      <4>2. \A a, b \in DOMAIN matched : matched[a] = matched[b] => a = b
        BY Zenon DEF VoteTypeOK
      <4>3. i \in DOMAIN matched /\ j \in DOMAIN matched
        BY <2>c, <3>1
      <4> QED
        BY <4>1, <4>2, <4>3, Zenon
    <3>2. CASE i = Len(matched) + 1 /\ j \in 1..Len(matched)
      BY <2>2, <2>6, <2>7, <2>8, <2>c, <3>2, Zenon
    <3>3. CASE i \in 1..Len(matched) /\ j = Len(matched) + 1
      BY <2>2, <2>6, <2>7, <2>8, <2>c, <3>3, Zenon
    <3> QED
      BY <2>9, <3>1, <3>2, <3>3
  <2> QED
    BY <1>f, <2>3, <2>4, <2>5, <2>6, <2>c
<1>6. CASE Mismatch
  <2>1. votes' = votes /\ votes' \in Nat /\ votes' <= vote /\ NextVote
    BY <1>6 DEF Mismatch
  <2> QED
    BY <1>6, <1>f, <2>1, NextVoteType DEF Mismatch
<1>7. CASE Agree
  <2>1. votes' = votes + 1 /\ votes' \in Nat /\ votes' <= vote /\ NextVote
    BY <1>7 DEF Agree
  <2>2. Len(matched) = Len(ref) /\ Len(cur) = Len(ref) /\ Len(sum) = Len(ref) /\ Len(ref) \in Nat
    BY <1>7 DEF Agree
  <2>3. sum' = [i \in 1..Len(ref) |-> sum[i] + cur[matched[i]].u]
    BY <1>7, <2>2 DEF Agree
  <2>4. \A i \in 1..Len(ref) : sum[i] \in Int /\ cur[matched[i]].u \in Int
    <3>1. \A i \in 1..Len(ref) : matched[i] \in 1..Len(cur)
      BY <2>2, Elements
    <3> QED
      BY <2>2, <3>1, Elements, PixelType
  <2>5. sum' \in [1..Len(ref) -> Int]
    BY <2>3, <2>4, SMTT(30)
  <2>6. sum' \in Seq(Int) /\ Len(sum') = Len(ref)
    <3>1. \A n \in Nat : sum' \in [1..n -> Int] => sum' \in Seq(Int) /\ Len(sum') = n
      BY SeqOfFunction, ZenonT(30)
    <3> QED
      BY <2>2, <2>5, <3>1, Zenon
  <2>7. UNCHANGED <<ref, cur, matched, selected, pose>> /\ votes > 0
    BY <1>7 DEF Agree
  <2> QED
    BY <1>f, <2>1, <2>6, <2>7, NextVoteType
<1>8. CASE Select
  BY <1>8, <1>f DEF Select
<1>9. CASE Locate
  BY <1>9, <1>f DEF Locate
<1>10. CASE NoCameraTransform
  BY <1>10, <1>f DEF NoCameraTransform
<1>11. CASE UNCHANGED yoloVars
  BY <1>11, <1>f DEF yoloVars
<1> QED
  BY <1>1, <1>2, <1>3, <1>4, <1>5, <1>6, <1>7, <1>8, <1>9, <1>10, <1>11
  DEF YoloNext, Thread, Receive

-----------------------------------------------------------------------------
(* The sums.                                                               *)

LEMMA YoloInitInv == YoloInit => VoteInv
<1> SUFFICES ASSUME YoloInit PROVE VoteInv
  OBVIOUS
<1>1. VoteTypeOK
  BY InitType
<1> QED
  BY <1>1 DEF YoloInit, VoteInv, MatchedNear, AveragesNearReference

\* The distance of a matched candidate does not depend on the direction.
LEMMA NextNear == VoteInv /\ [YoloNext]_yoloVars => MatchedNear'
<1> SUFFICES ASSUME VoteInv, [YoloNext]_yoloVars, stage' = "match" PROVE MatchedNear'
  BY DEF MatchedNear
<1>t. VoteTypeOK /\ MatchedNear
  BY DEF VoteInv
<1>1. CASE Match
  <2>1. PICK k \in Unused : Dist(cur[k], Reached) <= MaxDist /\ matched' = Append(matched, k)
    BY <1>1 DEF Match
  <2>2. stage = "match" /\ UNCHANGED <<ref, cur>>
    BY <1>1 DEF Match, loop, tally
  <2>3. DOMAIN cur = 1..Len(cur) /\ DOMAIN matched = 1..Len(matched) /\ Len(matched) \in Nat
    BY <1>t, Elements DEF VoteTypeOK
  <2>4. k \in Nat
    BY <2>3, <1>t, Elements DEF Unused, VoteTypeOK
  <2>5. /\ DOMAIN matched' = 1..Len(matched) + 1
        /\ \A i \in 1..Len(matched) + 1 :
             matched'[i] = IF i = Len(matched) + 1 THEN k ELSE matched[i]
    BY <1>t, <2>1, <2>4 DEF VoteTypeOK
  <2>6. ASSUME NEW i \in DOMAIN matched' PROVE Dist(cur[matched'[i]], ref[i]) <= MaxDist
    <3>1. CASE i = Len(matched) + 1
      BY <2>1, <2>5, <3>1 DEF Reached
    <3>2. CASE i # Len(matched) + 1
      <4>1. i \in DOMAIN matched /\ matched'[i] = matched[i]
        BY <2>3, <2>5, <3>2
      <4> QED
        BY <1>t, <2>2, <4>1 DEF MatchedNear
    <3> QED
      BY <3>1, <3>2
  <2> QED
    BY <2>2, <2>6 DEF MatchedNear
<1>2. ASSUME NEW frame \in Frames, Compare(frame) PROVE MatchedNear'
  <2>1. matched' = <<>>
    BY <1>2 DEF Compare, NextVote
  <2> QED
    BY <2>1 DEF MatchedNear
<1>3. CASE UNCHANGED yoloVars
  BY <1>t, <1>3 DEF MatchedNear, yoloVars, loop, tally, matching
<1> QED
  BY <1>1, <1>2, <1>3
  DEF YoloNext, Thread, Receive, Bad, Empty, Reference, Mismatch, Agree, Select, Locate,
      NoCameraTransform, NextVote

LEMMA NextAverage == VoteInv /\ [YoloNext]_yoloVars => AveragesNearReference'
<1> SUFFICES ASSUME VoteInv, [YoloNext]_yoloVars PROVE AveragesNearReference'
  OBVIOUS
<1>t. VoteTypeOK /\ MatchedNear /\ AveragesNearReference
  BY DEF VoteInv
<1>1. ASSUME NEW frame \in Frames, Reference(frame) PROVE AveragesNearReference'
  <2>1. /\ votes' = 1 /\ ref' = frame.seen
        /\ sum' = [i \in DOMAIN frame.seen |-> frame.seen[i].u]
    BY <1>1 DEF Reference
  <2>2. \A i \in DOMAIN ref' : ref'[i].u \in Int
    BY <2>1, SeenType, Elements, PixelType
  <2>3. \A i \in DOMAIN ref' : sum'[i] = ref'[i].u
    BY <2>1
  <2>4. \A u \in Int : Abs(u - 1 * u) <= (1 - 1) * MaxDist
    BY DEF Abs
  <2> QED
    BY <2>1, <2>2, <2>3, <2>4 DEF AveragesNearReference
<1>2. CASE Agree
  <2>1. /\ stage = "match" /\ votes' = votes + 1 /\ ref' = ref /\ Len(matched) = Len(ref)
        /\ sum' = [i \in DOMAIN sum |-> sum[i] + cur[matched[i]].u]
    BY <1>2 DEF Agree
  <2>2. /\ DOMAIN sum = 1..Len(ref) /\ DOMAIN ref = 1..Len(ref) /\ DOMAIN matched = 1..Len(ref)
        /\ votes \in Nat \ {0}
    BY <1>t, <2>1, Elements DEF VoteTypeOK
  <2>3. ASSUME NEW i \in DOMAIN ref
        PROVE  Abs(sum'[i] - (votes + 1) * ref[i].u) <= ((votes + 1) - 1) * MaxDist
    <3>1. sum[i] \in Int /\ ref[i].u \in Int /\ cur[matched[i]].u \in Int
      <4>1. matched[i] \in DOMAIN cur
        BY <1>t, <2>2 DEF VoteTypeOK
      <4> QED
        BY <1>t, <2>2, <4>1, Elements, PixelType DEF VoteTypeOK
    <3>2. Abs(sum[i] - votes * ref[i].u) <= (votes - 1) * MaxDist
      BY <1>t, <2>2 DEF AveragesNearReference
    <3>3. Abs(cur[matched[i]].u - ref[i].u) <= MaxDist
      BY <1>t, <2>1, <2>2 DEF MatchedNear, Dist
    <3>4. sum'[i] = sum[i] + cur[matched[i]].u
      BY <2>1, <2>2
    <3> QED
      BY <2>2, <3>1, <3>2, <3>3, <3>4, OneMore
  <2> QED
    BY <2>1, <2>3 DEF AveragesNearReference
<1>3. CASE UNCHANGED tally
  BY <1>t, <1>3 DEF AveragesNearReference, tally
<1> QED
  BY <1>1, <1>2, <1>3
  DEF YoloNext, Thread, Receive, Bad, Empty, Compare, Match, Mismatch, Select, Locate,
      NoCameraTransform, yoloVars, tally

\* The types and the sums, in every reachable state.
THEOREM VoteInvariant == YoloSpec => []VoteInv
<1>1. VoteInv /\ [YoloNext]_yoloVars => VoteInv'
  BY YoloNextType, NextNear, NextAverage DEF VoteInv
<1> QED
  BY <1>1, YoloInitInv, PTL DEF YoloSpec

\* However many frames are averaged, in whatever order the network lists what it
\* sees: the average of a candidate is nearer to the reference than the matching
\* distance.
THEOREM AveragesStayNear == YoloSpec => []AveragesNearReference
<1>1. VoteInv => AveragesNearReference
  BY DEF VoteInv
<1> QED
  BY <1>1, VoteInvariant, PTL

-----------------------------------------------------------------------------
(* No frame is refused for its order.                                      *)

LEMMA NearBoth ==
  \A a, b, c \in Int : Abs(a - b) <= MaxDist /\ Abs(a - c) <= MaxDist => Abs(b - c) <= 2 * MaxDist
  BY DEF Abs

\* As many candidates as there are, none of them twice: all of them.
LEMMA InjectiveCovers ==
  ASSUME NEW n \in Nat, NEW f \in [1..n -> 1..n],
         \A i, j \in 1..n : f[i] = f[j] => i = j
  PROVE  \A k \in 1..n : \E i \in 1..n : f[i] = k
<1>1. f \in Injection(1..n, 1..n)
  BY DEF Injection, IsInjective
<1>2. IsFiniteSet(1..n)
  BY FS_Interval
<1>3. f \in Surjection(1..n, 1..n)
  BY <1>1, <1>2, FS_Injection
<1> QED
  BY <1>3 DEF Surjection

LEMMA DistType == \A c, d : c.u \in Int /\ d.u \in Int => Dist(c, d) \in Int
  BY DEF Dist, Abs

\* A frame that is matched to the end is matched as a whole.
LEMMA MatchIsWhole ==
  ASSUME VoteTypeOK, stage = "match"
  PROVE  /\ Len(ref) \in Nat /\ DOMAIN ref = 1..Len(ref) /\ DOMAIN cur = 1..Len(ref)
         /\ DOMAIN matched = 1..Len(matched) /\ DOMAIN sum = 1..Len(ref)
         /\ Len(matched) \in Nat /\ Len(matched) <= Len(ref)
         /\ \A i \in 1..Len(ref) : ref[i].u \in Int /\ cur[i].u \in Int /\ sum[i] \in Int
         /\ Len(matched) = Len(ref) =>
              \A k \in DOMAIN cur : \E i \in DOMAIN ref : matched[i] = k
<1>1. /\ Len(ref) \in Nat /\ DOMAIN ref = 1..Len(ref) /\ DOMAIN cur = 1..Len(ref)
      /\ DOMAIN matched = 1..Len(matched) /\ DOMAIN sum = 1..Len(ref)
      /\ Len(matched) \in Nat /\ Len(matched) <= Len(ref)
  BY Elements DEF VoteTypeOK
<1>2. \A i \in 1..Len(ref) : ref[i].u \in Int /\ cur[i].u \in Int /\ sum[i] \in Int
  BY <1>1, Elements, PixelType DEF VoteTypeOK
<1>3. ASSUME Len(matched) = Len(ref)
      PROVE  \A k \in DOMAIN cur : \E i \in DOMAIN ref : matched[i] = k
  <2>1. matched \in [1..Len(ref) -> 1..Len(ref)]
    <3>1. matched = [i \in 1..Len(matched) |-> matched[i]]
      BY <1>1 DEF VoteTypeOK
    <3>2. \A i \in 1..Len(ref) : matched[i] \in 1..Len(ref)
      BY <1>1, <1>3 DEF VoteTypeOK
    <3> QED
      BY <1>3, <3>1, <3>2
  <2>2. \A i, j \in 1..Len(ref) : matched[i] = matched[j] => i = j
    BY <1>1, <1>3 DEF VoteTypeOK
  <2>3. \A k \in 1..Len(ref) : \E i \in 1..Len(ref) : matched[i] = k
    BY ONLY <1>1, <2>1, <2>2, InjectiveCovers
  <2> QED
    BY <1>1, <2>3
<1> QED
  BY <1>1, <1>2, <1>3

\* If a frame could be matched, then the candidates matched so far are the right ones: a
\* mismatch is none.
LEMMA MismatchIsOne ==
  ASSUME VoteTypeOK, MatchedNear, Mismatch, Apart
  PROVE  ~CanBeMatched
<1> SUFFICES ASSUME CanBeMatched PROVE FALSE
  OBVIOUS
<1> DEFINE N == Len(ref)
           x == Len(matched) + 1
<1>1. stage = "match" /\ Len(matched) < Len(ref)
  BY DEF Mismatch
<1>2. PICK k \in Unused : IsNearest(k) /\ Dist(cur[k], Reached) > MaxDist
  BY DEF Mismatch
<1>3. PICK m \in [DOMAIN ref -> DOMAIN cur] :
        /\ \A i, j \in DOMAIN ref : m[i] = m[j] => i = j
        /\ \A i \in DOMAIN ref : Dist(cur[m[i]], ref[i]) <= MaxDist
  BY DEF CanBeMatched
<1>4. /\ N \in Nat /\ DOMAIN ref = 1..N /\ DOMAIN cur = 1..N
      /\ DOMAIN matched = 1..Len(matched) /\ Len(matched) \in Nat
      /\ \A i \in 1..N : ref[i].u \in Int /\ cur[i].u \in Int
  BY <1>1, MatchIsWhole
<1>5. x \in DOMAIN ref /\ \A i \in DOMAIN matched : i \in DOMAIN ref /\ i # x
  BY <1>1, <1>4
<1> HIDE DEF N, x
<1>6. \A c \in DOMAIN cur : \E j \in DOMAIN ref : m[j] = c
  <2>1. m \in [1..N -> 1..N] /\ \A i, j \in 1..N : m[i] = m[j] => i = j
    BY <1>3, <1>4
  <2>2. \A c \in 1..N : \E j \in 1..N : m[j] = c
    BY ONLY <1>4, <2>1, InjectiveCovers
  <2> QED
    BY <1>4, <2>2
<1>7. ASSUME NEW i \in DOMAIN matched PROVE matched[i] = m[i]
  <2>1. matched[i] \in DOMAIN cur
    BY DEF VoteTypeOK
  <2>2. PICK j \in DOMAIN ref : m[j] = matched[i]
    BY <1>6, <2>1
  <2>3. Dist(cur[matched[i]], ref[i]) <= MaxDist /\ Dist(cur[matched[i]], ref[j]) <= MaxDist
    BY <1>1, <1>3, <2>2 DEF MatchedNear
  <2>4. ref[i].u \in Int /\ ref[j].u \in Int /\ cur[matched[i]].u \in Int
    BY <1>4, <1>5, <2>1
  <2>5. Dist(ref[i], ref[j]) <= 2 * MaxDist
    BY <2>3, <2>4, NearBoth, Zenon DEF Dist
  <2>6. Dist(ref[i], ref[j]) \in Int
    BY <2>4, DistType, Zenon
  <2>7. i = j
    BY <1>5, <2>5, <2>6 DEF Apart
  <2> QED
    BY <2>2, <2>7
<1>8. m[x] \in DOMAIN cur /\ \A i \in DOMAIN matched : matched[i] # m[x]
  BY <1>3, <1>5, <1>7
<1>9. m[x] \in Unused
  BY <1>8 DEF Unused
<1>t. Reached = ref[x] /\ Reached.u \in Int /\ \A c \in Unused : cur[c].u \in Int
  BY <1>4, <1>5 DEF Unused, Reached, x
<1>10. Dist(cur[m[x]], Reached) <= MaxDist /\ Dist(cur[m[x]], Reached) \in Int
  BY <1>3, <1>5, <1>9, <1>t, DistType, Zenon
<1>11. Dist(cur[k], Reached) \in Int
  BY <1>2, <1>t, DistType, Zenon
<1>12. Dist(cur[k], Reached) <= Dist(cur[m[x]], Reached)
  BY <1>2, <1>9, <1>10, <1>11 DEF IsNearest
<1> QED
  BY <1>2, <1>10, <1>11, <1>12

\* No frame is refused that could be matched, in whatever order it lists its candidates: the
\* nearest of the unused ones is the right one whenever there is a right one.
THEOREM RefusalsAreRight == YoloSpec => RefusesRightly
<1>1. ASSUME VoteInv, [YoloNext]_yoloVars, stage = "match", stage' # "match", votes' = votes
      PROVE  ~(Apart /\ CanBeMatched)
  <2>1. CASE Mismatch
    BY <1>1, <2>1, MismatchIsOne DEF VoteInv
  <2>2. CASE Agree
    BY <1>1, <2>2 DEF Agree, VoteInv, VoteTypeOK
  <2>3. CASE Match \/ UNCHANGED yoloVars
    BY <1>1, <2>3 DEF Match, yoloVars, loop
  <2> QED
    BY <1>1, <2>1, <2>2, <2>3
    DEF YoloNext, Thread, Receive, Bad, Empty, Reference, Compare, Arrives, Select, Locate,
        NoCameraTransform
<1>2. VoteInv /\ [YoloNext]_yoloVars =>
        [stage = "match" /\ stage' # "match" /\ votes' = votes => ~(Apart /\ CanBeMatched)]_yoloVars
  BY <1>1
<1> QED
  BY <1>2, VoteInvariant, PTL DEF YoloSpec, RefusesRightly

-----------------------------------------------------------------------------
(* One good frame is enough.                                               *)

\* How far apart the frames of a vote can be, in matching distances: the good frame from
\* the reference, and each other frame from the reference as well.
Spread(n) == IF n = 1 THEN 0 ELSE 2 * n - 3

\* Candidate i is where the grasp point p is, as far as the frames so far can tell.
Tells(i, p) ==
  /\ Abs(ref[i].u - p.u) <= Jitter + MaxDist
  /\ Abs(sum[i] - votes * p.u) <= votes * Jitter + Spread(votes) * MaxDist

\* A good frame is among those that were added up.
Told ==
  /\ votes > 0 /\ Len(ref) = Cardinality(Points)
  /\ \A p \in Points : \E i \in DOMAIN ref : Tells(i, p)

\* The good frame is the one that is being matched.
ToBeTold ==
  /\ stage = "match" /\ Len(cur) = Cardinality(Points)
  /\ \A p \in Points : \E k \in DOMAIN cur : Abs(cur[k].u - p.u) <= Jitter

\* The inductive invariant behind GoodFrameSuffices: a good frame is never lost, unless the
\* vote fails, and a vote that failed is not accepted.
GoodInv ==
  /\ good /\ ~failed => Told \/ ToBeTold
  /\ Accepted => ~failed /\ votes = VoteFrames /\ stage \in {"select", "locate", "done"}

\* AcceptedIsThere, but for the rows.
PlacesAreThere ==
  Accepted /\ good =>
    /\ Len(ref) = Cardinality(Points)
    /\ \A p \in Points : \E i \in DOMAIN ref : Abs(sum[i] - VoteFrames * p.u) <= Off

LEMMA TimesBound ==
  ASSUME NEW n \in Nat, NEW x \in Int, NEW b \in Int, Abs(x) <= b
  PROVE  Abs(n * x) <= n * b
<1>1. -b <= x /\ x <= b
  BY DEF Abs
<1>2. \A y \in Int : y <= b => n * y <= n * b
  OBVIOUS
<1>3. n * x <= n * b /\ n * (-x) <= n * b
  BY <1>1, <1>2
<1>4. n * (-x) = -(n * x)
  OBVIOUS
<1>5. n * x \in Int /\ n * b \in Int
  OBVIOUS
<1> HIDE <1>2
<1> QED
  BY <1>3, <1>4, <1>5 DEF Abs

\* One more candidate is added up, as far from the grasp point as d allows.
LEMMA OneMoreTells ==
  ASSUME NEW n \in Nat, NEW s \in Int, NEW c \in Int, NEW p \in Int, NEW d \in Int, NEW e \in Int,
         Abs(s - n * p) <= n * Jitter + d, Abs(c - p) <= Jitter + e
  PROVE  Abs((s + c) - (n + 1) * p) <= (n + 1) * Jitter + (d + e)
<1> DEFINE np == n * p
           nj == n * Jitter
<1>1. np \in Int /\ nj \in Int /\ (n + 1) * p = np + p /\ (n + 1) * Jitter = nj + Jitter
  OBVIOUS
<1>2. Abs(s - np) <= nj + d
  OBVIOUS
<1> HIDE DEF np, nj
<1>3. Abs((s + c) - (np + p)) <= (nj + Jitter) + (d + e)
  BY <1>1, <1>2 DEF Abs
<1> QED
  BY <1>1, <1>3

LEMMA SpreadGrows ==
  ASSUME NEW n \in Nat \ {0}
  PROVE  /\ n # 1 => Spread(n) * MaxDist + 2 * MaxDist = Spread(n + 1) * MaxDist
         /\ n = 1 => Spread(n) * MaxDist = 0 /\ Spread(n + 1) * MaxDist = MaxDist
         /\ ((n - 1) * MaxDist + n * MaxDist) + 0 = Spread(n + 1) * MaxDist
         /\ Spread(n) * MaxDist \in Int
<1> DEFINE m == n * MaxDist
<1>1. m \in Int /\ (n - 1) * MaxDist = m - MaxDist
  OBVIOUS
<1>2. (2 * n - 3) * MaxDist = 2 * m - 3 * MaxDist /\ (2 * (n + 1) - 3) * MaxDist = 2 * m - MaxDist
  OBVIOUS
<1>3. n = 1 => m = MaxDist
  OBVIOUS
<1>4. n + 1 # 1
  OBVIOUS
<1>5. n # 1 => Spread(n) * MaxDist = 2 * m - 3 * MaxDist
  BY <1>2 DEF Spread
<1>6. Spread(n + 1) * MaxDist = 2 * m - MaxDist
  BY <1>2, <1>4 DEF Spread
<1>7. n = 1 => Spread(n) * MaxDist = 0
  BY DEF Spread
<1> HIDE DEF m
<1> QED
  BY <1>1, <1>3, <1>5, <1>6, <1>7

\* A candidate matched with one that tells where the grasp point is.
LEMMA TellsOn ==
  ASSUME NEW n \in Nat \ {0}, NEW s \in Int, NEW r \in Int, NEW c \in Int, NEW p \in Int,
         Abs(s - n * r) <= (n - 1) * MaxDist, Abs(c - r) <= MaxDist,
         Abs(r - p) <= Jitter + MaxDist, Abs(s - n * p) <= n * Jitter + Spread(n) * MaxDist
  PROVE  Abs((s + c) - (n + 1) * p) <= (n + 1) * Jitter + Spread(n + 1) * MaxDist
<1>1. CASE n = 1
  <2>1. s = r
    BY <1>1 DEF Abs
  <2>2. Abs(r - p) <= Jitter
    <3>1. 1 * p = p /\ 1 * Jitter = Jitter
      OBVIOUS
    <3> QED
      BY <1>1, <2>1, <3>1, SpreadGrows
  <2>3. Abs(c - p) <= Jitter + MaxDist
    BY <2>2 DEF Abs
  <2> DEFINE d == Spread(n) * MaxDist
             e == MaxDist
  <2>4. d \in Int /\ e \in Int /\ Abs(s - n * p) <= n * Jitter + d /\ Abs(c - p) <= Jitter + e
    BY <2>3, SpreadGrows
  <2>5. d + e = Spread(n + 1) * MaxDist
    BY <1>1, SpreadGrows
  <2> HIDE DEF d, e
  <2>6. Abs((s + c) - (n + 1) * p) <= (n + 1) * Jitter + (d + e)
    BY <2>4, OneMoreTells
  <2> QED
    BY <2>5, <2>6
<1>2. CASE n # 1
  <2>1. Abs(c - p) <= Jitter + 2 * MaxDist
    BY DEF Abs
  <2> DEFINE d == Spread(n) * MaxDist
             e == 2 * MaxDist
  <2>2. d \in Int /\ e \in Int /\ Abs(s - n * p) <= n * Jitter + d /\ Abs(c - p) <= Jitter + e
    BY <2>1, SpreadGrows
  <2>3. d + e = Spread(n + 1) * MaxDist
    BY <1>2, SpreadGrows
  <2> HIDE DEF d, e
  <2>4. Abs((s + c) - (n + 1) * p) <= (n + 1) * Jitter + (d + e)
    BY <2>2, OneMoreTells
  <2> QED
    BY <2>3, <2>4
<1> QED
  BY <1>1, <1>2

\* The good frame is matched: from then on the reference tells.
LEMMA GoodTells ==
  ASSUME NEW n \in Nat \ {0}, NEW s \in Int, NEW r \in Int, NEW c \in Int, NEW p \in Int,
         Abs(s - n * r) <= (n - 1) * MaxDist, Abs(c - r) <= MaxDist, Abs(c - p) <= Jitter
  PROVE  /\ Abs(r - p) <= Jitter + MaxDist
         /\ Abs((s + c) - (n + 1) * p) <= (n + 1) * Jitter + Spread(n + 1) * MaxDist
<1>1. Abs(r - p) <= Jitter + MaxDist
  BY DEF Abs
<1>2. Abs(n * (r - p)) <= n * (Jitter + MaxDist)
  <2>1. n \in Nat /\ r - p \in Int /\ Jitter + MaxDist \in Int
    OBVIOUS
  <2> QED
    BY ONLY <1>1, <2>1, TimesBound
<1>3. Abs(s - n * p) <= n * Jitter + ((n - 1) * MaxDist + n * MaxDist)
  <2> DEFINE nr == n * r
             np == n * p
             nj == n * Jitter
             nm == n * MaxDist
             om == (n - 1) * MaxDist
  <2>1. nr \in Int /\ np \in Int /\ nj \in Int /\ nm \in Int /\ om \in Int
    OBVIOUS
  <2>2. n * (r - p) = nr - np /\ n * (Jitter + MaxDist) = nj + nm
    OBVIOUS
  <2>3. Abs(s - nr) <= om
    OBVIOUS
  <2> HIDE DEF nr, np, nj, nm, om
  <2>4. Abs(s - np) <= nj + (om + nm)
    BY <1>2, <2>1, <2>2, <2>3 DEF Abs
  <2> QED
    BY <2>4 DEF nr, np, nj, nm, om
<1> DEFINE d == (n - 1) * MaxDist + n * MaxDist
       e == 0
<1>4. d \in Int /\ e \in Int /\ Abs(s - n * p) <= n * Jitter + d /\ Abs(c - p) <= Jitter + e
  BY <1>3
<1>5. d + e = Spread(n + 1) * MaxDist
  BY SpreadGrows
<1> HIDE DEF d, e
<1>6. Abs((s + c) - (n + 1) * p) <= (n + 1) * Jitter + (d + e)
  BY <1>4, OneMoreTells
<1> QED
  BY <1>1, <1>5, <1>6

LEMMA PointType == \A p \in Points : p.u \in Int /\ p.row \in Rows
  BY DEF Candidate

\* While frames come nothing is accepted, and the end of a frame accepts only a vote that
\* did not fail.
LEMMA NotAcceptedYet ==
  ASSUME GoodInv, stage \in {"frame", "match"}, NextVote, pose' = pose
  PROVE  Accepted' => ~failed' /\ votes' = VoteFrames /\ stage' \in {"select", "locate", "done"}
<1>1. pose = {}
  BY DEF GoodInv, Accepted
<1> QED
  BY <1>1 DEF NextVote, Accepted

LEMMA ReferenceTells ==
  ASSUME NEW frame \in Frames, Reference(frame), ShowsParts(frame)
  PROVE  Told'
<1>1. /\ votes' = 1 /\ ref' = frame.seen
      /\ sum' = [i \in DOMAIN frame.seen |-> frame.seen[i].u]
  BY DEF Reference
<1>2. ASSUME NEW p \in Points PROVE \E i \in DOMAIN ref' : Tells(i, p)'
  <2>1. PICK i \in DOMAIN frame.seen : Dist(frame.seen[i], p) <= Jitter
    BY DEF ShowsParts
  <2>2. p.u \in Int /\ frame.seen[i].u \in Int
    BY <2>1, PointType, SeenType, Elements, PixelType
  <2>3. Abs(frame.seen[i].u - p.u) <= Jitter
    BY <2>1 DEF Dist
  <2>4. Abs(frame.seen[i].u - p.u) <= Jitter + MaxDist
    BY <2>2, <2>3 DEF Abs
  <2>5. 1 * p.u = p.u /\ 1 * Jitter + Spread(1) * MaxDist = Jitter
    BY <2>2 DEF Spread
  <2>6. Tells(i, p)'
    BY <1>1, <2>1, <2>3, <2>4, <2>5 DEF Tells
  <2> QED
    BY <1>1, <2>1, <2>6
<1> QED
  BY <1>1, <1>2 DEF Told, ShowsParts

LEMMA AgreeTells ==
  ASSUME VoteInv, Agree, Told \/ ToBeTold
  PROVE  Told'
<1>1. /\ stage = "match" /\ votes' = votes + 1 /\ ref' = ref /\ Len(matched) = Len(ref)
      /\ sum' = [i \in DOMAIN sum |-> sum[i] + cur[matched[i]].u]
  BY DEF Agree
<1>2. /\ DOMAIN ref = 1..Len(ref) /\ DOMAIN cur = 1..Len(ref) /\ DOMAIN sum = 1..Len(ref)
      /\ \A i \in 1..Len(ref) : ref[i].u \in Int /\ cur[i].u \in Int /\ sum[i] \in Int
      /\ \A k \in DOMAIN cur : \E i \in DOMAIN ref : matched[i] = k
      /\ Len(cur) = Len(ref) /\ votes \in Nat \ {0} /\ DOMAIN matched = 1..Len(ref)
      /\ \A i \in DOMAIN matched : matched[i] \in DOMAIN cur
  BY <1>1, MatchIsWhole DEF VoteInv, VoteTypeOK
<1>3. ASSUME NEW i \in DOMAIN ref
      PROVE  /\ Abs(sum[i] - votes * ref[i].u) <= (votes - 1) * MaxDist
             /\ Abs(cur[matched[i]].u - ref[i].u) <= MaxDist
             /\ sum'[i] = sum[i] + cur[matched[i]].u
             /\ cur[matched[i]].u \in Int /\ sum[i] \in Int /\ ref[i].u \in Int
  <2>1. Abs(sum[i] - votes * ref[i].u) <= (votes - 1) * MaxDist
    <3>1. votes > 0
      BY <1>2
    <3> QED
      BY <3>1, Zenon DEF VoteInv, AveragesNearReference
  <2>2. i \in DOMAIN matched /\ i \in DOMAIN sum /\ matched[i] \in DOMAIN cur
    BY <1>2
  <2>3. Abs(cur[matched[i]].u - ref[i].u) <= MaxDist
    BY <1>1, <2>2 DEF VoteInv, MatchedNear, Dist
  <2>4. sum'[i] = sum[i] + cur[matched[i]].u
    BY <1>1, <2>2
  <2>5. cur[matched[i]].u \in Int /\ sum[i] \in Int /\ ref[i].u \in Int
    BY <1>2, <2>2
  <2> QED
    BY <2>1, <2>3, <2>4, <2>5
<1>4. ASSUME NEW p \in Points PROVE \E i \in DOMAIN ref' : Tells(i, p)'
  <2>1. p.u \in Int
    BY PointType
  <2>2. ASSUME NEW i \in DOMAIN ref, Abs(ref[i].u - p.u) <= Jitter + MaxDist,
               Abs((sum[i] + cur[matched[i]].u) - (votes + 1) * p.u)
                 <= (votes + 1) * Jitter + Spread(votes + 1) * MaxDist
        PROVE  \E j \in DOMAIN ref' : Tells(j, p)'
    <3>1. Tells(i, p)'
      BY <1>1, <1>3, <2>2 DEF Tells
    <3> QED
      BY <1>1, <3>1
  <2>3. CASE Told
    <3>1. PICK i \in DOMAIN ref : Tells(i, p)
      BY <2>3 DEF Told
    <3>2. Abs((sum[i] + cur[matched[i]].u) - (votes + 1) * p.u)
            <= (votes + 1) * Jitter + Spread(votes + 1) * MaxDist
      BY <1>2, <1>3, <2>1, <3>1, TellsOn DEF Tells
    <3> QED
      BY <2>2, <3>1, <3>2 DEF Tells
  <2>4. CASE ToBeTold
    <3>1. PICK k \in DOMAIN cur : Abs(cur[k].u - p.u) <= Jitter
      BY <2>4 DEF ToBeTold
    <3>2. PICK i \in DOMAIN ref : matched[i] = k
      BY <1>2
    <3>3. /\ Abs(ref[i].u - p.u) <= Jitter + MaxDist
          /\ Abs((sum[i] + cur[matched[i]].u) - (votes + 1) * p.u)
               <= (votes + 1) * Jitter + Spread(votes + 1) * MaxDist
      BY <1>2, <1>3, <2>1, <3>1, <3>2, GoodTells
    <3> QED
      BY <2>2, <3>3
  <2> QED
    BY <2>3, <2>4
<1>5. Len(ref) = Cardinality(Points)
  BY <1>2 DEF Told, ToBeTold
<1> QED
  BY <1>1, <1>2, <1>4, <1>5 DEF Told

LEMMA NextGood == VoteInv /\ GoodInv /\ [YoloNext]_yoloVars => GoodInv'
<1> SUFFICES ASSUME VoteInv, GoodInv, [YoloNext]_yoloVars PROVE GoodInv'
  OBVIOUS
<1>1. CASE Bad \/ Mismatch
  <2>1. stage \in {"frame", "match"} /\ failed' = TRUE /\ NextVote /\ pose' = pose
    BY <1>1 DEF Bad, Mismatch
  <2> QED
    BY <2>1, NotAcceptedYet DEF GoodInv
<1>2. ASSUME NEW frame \in Frames, Empty(frame) PROVE GoodInv'
  <2>1. stage = "frame" /\ failed' = TRUE /\ NextVote /\ pose' = pose
    BY <1>2 DEF Empty, Arrives
  <2> QED
    BY <2>1, NotAcceptedYet DEF GoodInv
<1>3. ASSUME NEW frame \in Frames, Reference(frame) PROVE GoodInv'
  <2>1. stage = "frame" /\ good' = ShowsParts(frame) /\ NextVote /\ pose' = pose
    BY <1>3 DEF Reference, Arrives
  <2> QED
    BY <1>3, <2>1, NotAcceptedYet, ReferenceTells DEF GoodInv
<1>4. ASSUME NEW frame \in Frames, Compare(frame) PROVE GoodInv'
  <2>1. stage = "frame" /\ UNCHANGED <<ref, sum, pose, votes>>
    BY <1>4 DEF Compare, Arrives
  <2>2. CASE Len(frame.seen) = Len(ref)
    <3>1. /\ cur' = frame.seen /\ stage' = "match" /\ UNCHANGED failed
          /\ good' = (good \/ ShowsParts(frame))
      BY <1>4, <2>2 DEF Compare
    <3>2. ~Accepted'
      BY <2>1, <3>1 DEF GoodInv, Accepted
    <3>3. ShowsParts(frame) => ToBeTold'
      BY <3>1, Zenon DEF ShowsParts, ToBeTold, Dist
    <3>4. good /\ ~failed => Told'
      <4>1. good /\ ~failed => Told
        BY <2>1 DEF GoodInv, ToBeTold
      <4> QED
        BY <2>1, <4>1 DEF Told, Tells
    <3> QED
      BY <3>1, <3>2, <3>3, <3>4 DEF GoodInv
  <2>3. CASE Len(frame.seen) # Len(ref)
    <3>1. failed' = TRUE /\ NextVote
      BY <1>4, <2>3 DEF Compare
    <3> QED
      BY <2>1, <3>1, NotAcceptedYet DEF GoodInv
  <2> QED
    BY <2>2, <2>3
<1>5. CASE Match
  <2>1. UNCHANGED <<stage, failed, good, votes, ref, sum, cur, pose>>
    BY <1>5 DEF Match, loop, tally
  <2> QED
    BY <2>1 DEF GoodInv, Told, Tells, ToBeTold, Accepted
<1>6. CASE Agree
  <2>1. stage = "match" /\ UNCHANGED <<failed, good, pose>> /\ NextVote
    BY <1>6 DEF Agree
  <2> QED
    BY <1>6, <2>1, NotAcceptedYet, AgreeTells DEF GoodInv
<1>7. CASE Select \/ Locate \/ NoCameraTransform
  <2>1. /\ stage \in {"select", "locate"} /\ stage' \in {"locate", "done"}
        /\ UNCHANGED <<failed, good, votes, ref, sum>>
    BY <1>7 DEF Select, Locate, NoCameraTransform, tally
  <2> QED
    BY <2>1 DEF GoodInv, Told, Tells, ToBeTold, Accepted
<1>8. CASE UNCHANGED yoloVars
  BY <1>8 DEF yoloVars, loop, tally, matching, GoodInv, Told, Tells, ToBeTold, Accepted
<1> QED
  BY <1>1, <1>2, <1>3, <1>4, <1>5, <1>6, <1>7, <1>8 DEF YoloNext, Thread, Receive

\* The good frame and the verdict, in every reachable state.
THEOREM GoodFrameKept == YoloSpec => []GoodInv
<1>1. YoloInit => GoodInv
  BY DEF YoloInit, GoodInv, Accepted
<1> QED
  BY <1>1, NextGood, VoteInvariant, PTL DEF YoloSpec

\* One good frame suffices: if a vote is accepted and one of its frames showed the parts as
\* they are, then the averages are their grasp points, however many frames there are and
\* whatever the others show.
THEOREM GoodFrameSuffices == YoloSpec => []PlacesAreThere
<1>1. GoodInv => PlacesAreThere
  <2> SUFFICES ASSUME GoodInv, Accepted, good
               PROVE  /\ Len(ref) = Cardinality(Points)
                      /\ \A p \in Points : \E i \in DOMAIN ref : Abs(sum[i] - VoteFrames * p.u) <= Off
    BY DEF PlacesAreThere
  <2>1. Told /\ votes = VoteFrames
    BY DEF GoodInv, ToBeTold
  <2>2. \A i \in DOMAIN ref, p \in Points : Tells(i, p) => Abs(sum[i] - VoteFrames * p.u) <= Off
    BY <2>1 DEF Tells, Off, Spread
  <2> QED
    BY <2>1, <2>2, Zenon DEF Told
<1> QED
  BY <1>1, GoodFrameKept, PTL

\* The grasp modes are told apart by their rows only, which the matching does not look at: a
\* class with one grasp mode has one row.
OneGraspMode == \A r, s \in Rows : r = s

\* For such a class the averages are the grasp points, with their rows.
THEOREM AcceptedAreThere == OneGraspMode => (YoloSpec => []AcceptedIsThere)
<1> SUFFICES ASSUME OneGraspMode PROVE YoloSpec => []AcceptedIsThere
  OBVIOUS
<1>1. VoteInv /\ PlacesAreThere => AcceptedIsThere
  <2> SUFFICES ASSUME VoteInv, PlacesAreThere, Accepted, good PROVE AcceptedIsThere
    BY DEF AcceptedIsThere
  <2>1. \A i \in DOMAIN ref, p \in Points : ref[i].row = p.row
    <3>1. \A i \in DOMAIN ref : ref[i] \in Candidate
      BY Elements DEF VoteInv, VoteTypeOK
    <3>2. \A i \in DOMAIN ref : ref[i].row \in Rows
      BY <3>1 DEF Candidate
    <3> QED
      BY <3>2, PointType DEF OneGraspMode
  <2> QED
    BY <2>1 DEF PlacesAreThere, AcceptedIsThere
<1> QED
  BY <1>1, VoteInvariant, GoodFrameSuffices, PTL
=============================================================================
