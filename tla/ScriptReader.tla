----------------------------- MODULE ScriptReader -----------------------------
(***************************************************************************)
(* How a script file becomes the script that is sent: variables, and       *)
(* blocks {% if .. %} {% elif .. %} {% else %} {% endif %}.  The file is   *)
(* whatever is read line by line.  Data has a type; what a file says is a  *)
(* quoted string, a double, a bool, a version or another variable.         *)
(***************************************************************************)
EXTENDS Integers, Sequences

CONSTANTS
    Conditions,   \* what the files compare: [lhs |-> data, op |-> .., rhs |-> data]
    MaxLines      \* bound: lines of a file

VARIABLES
    file,         \* the lines read so far
    reader        \* the blocks that are open, the lines put out, an exception

svars == <<file, reader>>

(***************************************************************************)
(* Comparisons answer "yes" or "no", or throw.  Numbers are in tenths, and *)
(* a bool is 0 or 10.                                                      *)
(***************************************************************************)
Answer(b) == IF b THEN "yes" ELSE "no"
Or(x, y) == IF x = "no" THEN y ELSE x
Not(x) == CASE x = "yes" -> "no" [] x = "no" -> "yes" [] OTHER -> x
Numeric == {"int", "double"}
Less(lhs, rhs) ==
    IF {lhs.type, rhs.type} \subseteq Numeric \/ {lhs.type, rhs.type} = {"version"}
    THEN Answer(lhs.value < rhs.value) ELSE "throws"
Equal(lhs, rhs) ==
    IF \/ lhs.type = rhs.type \/ {lhs.type, rhs.type} = Numeric
       \/ lhs.type = "bool" /\ rhs.type \in Numeric
    THEN Answer(lhs.value = rhs.value) ELSE "throws"
Greater(lhs, rhs) == Not(Or(Less(lhs, rhs), Equal(lhs, rhs)))
EvaluateExpression(c) ==
    CASE c.op = "is" -> IF c.lhs.type = "bool" THEN Answer(c.lhs.value = 10) ELSE "throws"
      [] c.op = "==" -> Equal(c.lhs, c.rhs)
      [] c.op = "!=" -> Not(Equal(c.lhs, c.rhs))
      [] c.op = "<"  -> Less(c.lhs, c.rhs)
      [] c.op = ">"  -> Greater(c.lhs, c.rhs)
      [] c.op = "<=" -> Or(Less(c.lhs, c.rhs), Equal(c.lhs, c.rhs))
      [] c.op = ">=" -> Or(Greater(c.lhs, c.rhs), Equal(c.lhs, c.rhs))
      [] OTHER -> "throws"

Block == [type : {"if", "elif", "else"}, matched : BOOLEAN, render : BOOLEAN, parent : BOOLEAN]
ReaderState == [stack : Seq(Block), out : Seq(1..MaxLines), thrown : BOOLEAN]
ReaderInit == file = <<>> /\ reader = [stack |-> <<>>, out |-> <<>>, thrown |-> FALSE]

(***************************************************************************)
(* The lines.  A condition is evaluated whether its block is rendered or   *)
(* not, and a variable is looked up before the blocks are.                 *)
(***************************************************************************)
Top == reader.stack[Len(reader.stack)]
InBlock == reader.stack # <<>>
Rendering == InBlock => Top.render
Becomes(block) == reader' = [reader EXCEPT !.stack[Len(reader.stack)] = block]
Throws == reader' = [reader EXCEPT !.thrown = TRUE]

If(c) ==
    LET result == EvaluateExpression(c)
    IN  IF result = "throws" THEN Throws
        ELSE reader' = [reader EXCEPT !.stack = Append(@,
                 [type |-> "if", matched |-> result = "yes", render |-> Rendering /\ result = "yes",
                  parent |-> Rendering])]
(* The mutant renders every alternative whose own condition holds.         *)
EveryAlternative(block, holds) ==
    [block EXCEPT !.type = "elif", !.matched = @ \/ holds, !.render = block.parent /\ holds]
Alternative(block, holds) ==
    [block EXCEPT !.type = "elif", !.matched = @ \/ holds,
                  !.render = block.parent /\ holds /\ ~block.matched]
Elif(c) ==
    LET result == EvaluateExpression(c)
    IN  IF ~InBlock \/ Top.type = "else" THEN UNCHANGED reader
        ELSE IF result = "throws" THEN Throws
        ELSE Becomes(Alternative(Top, result = "yes"))
Else == IF InBlock
        THEN Becomes([Top EXCEPT !.type = "else", !.render = Top.parent /\ ~Top.matched])
        ELSE UNCHANGED reader
Endif == IF InBlock THEN reader' = [reader EXCEPT !.stack = SubSeq(@, 1, Len(@) - 1)]
         ELSE UNCHANGED reader
Text(known) ==
    IF ~known THEN Throws
    ELSE reader' = [reader EXCEPT !.out = IF Rendering THEN Append(@, Len(file) + 1) ELSE @]

(* Bound: two texts in a row tell nothing more than one.                   *)
Line(kind, c) == /\ Len(file) < MaxLines /\ ~reader.thrown
                 /\ file # <<>> => ~(kind = "text" /\ file[Len(file)].kind = "text")
                 /\ file' = Append(file, [kind |-> kind, cond |-> c])
NoCondition == [lhs |-> [type |-> "bool", value |-> 10], op |-> "is", rhs |-> [type |-> "bool", value |-> 10]]
ReaderNext ==
    \/ \E c \in Conditions : \/ Line("if", c) /\ If(c)
                             \/ Line("elif", c) /\ Elif(c)
    \/ Line("else", NoCondition) /\ Else
    \/ Line("endif", NoCondition) /\ Endif
    \/ Line("text", NoCondition) /\ Text(TRUE)
    \/ Line("unknown variable", NoCondition) /\ Text(FALSE)

-----------------------------------------------------------------------------
(* What a file means, without a stack.  Line j opens the block line i is   *)
(* in when no line between them is outside it; a block's alternatives are  *)
(* the lines of their own level in it, and the first one whose condition   *)
(* holds is chosen.                                                        *)
Before(kind, i) == Len(SelectSeq(SubSeq(file, 1, i - 1), LAMBDA l : l.kind = kind))
Level(i) == Before("if", i) - Before("endif", i)
Encloses(j, i) == /\ j < i /\ file[j].kind = "if"
                  /\ \A k \in (j + 1)..i : Level(k) > Level(j)
Alternatives(j, i) == {j} \cup {k \in (j + 1)..(i - 1) : /\ file[k].kind \in {"elif", "else"}
                                                        /\ Encloses(j, k) /\ Level(k) = Level(j) + 1}
Compared(c) == LET x == c.lhs.value  y == c.rhs.value
               IN  CASE c.op \in {"==", "is"} -> x = y [] c.op = "!=" -> x # y
                     [] c.op = "<" -> x < y [] c.op = ">" -> x > y
                     [] c.op = "<=" -> x <= y [] c.op = ">=" -> x >= y
Chosen(j, i) ==
    LET s == CHOOSE k \in Alternatives(j, i) : \A l \in Alternatives(j, i) : l <= k
    IN  Compared(file[s].cond) /\ \A k \in Alternatives(j, i) \ {s} : ~Compared(file[k].cond)
Rendered(i) == file[i].kind = "text" /\ \A j \in 1..i : Encloses(j, i) => Chosen(j, i)
WellFormed ==
    \A i \in 1..Len(file) :
        /\ file[i].kind \in {"elif", "else", "endif"} => \E j \in 1..i : Encloses(j, i)
        /\ \A j \in 1..i : (Encloses(j, i) /\ file[i].kind \in {"elif", "else"} /\ Level(i) = Level(j) + 1) =>
                \A k \in Alternatives(j, i) : file[k].kind # "else"

(* A well-formed file yields the lines its conditions choose, in order; an *)
(* exception comes from a condition or variable in it, rendered or not.    *)
RendersChosen ==
    /\ reader \in ReaderState
    /\ ~reader.thrown /\ WellFormed =>
           reader.out = SelectSeq([i \in 1..Len(file) |-> i], LAMBDA i : Rendered(i))
    /\ reader.thrown => \/ file[Len(file)].kind = "unknown variable"
                        \/ EvaluateExpression(file[Len(file)].cond) = "throws"
=============================================================================
