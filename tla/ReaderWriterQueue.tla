-------------------------- MODULE ReaderWriterQueue --------------------------
(***************************************************************************)
(* BlockingReaderWriterQueue: the lock-free queue between the producer and *)
(* the consumer thread of a pipeline, a ring of blocks each of which is a  *)
(* ring of slots, and the semaphore the consumer sleeps on.  Every load    *)
(* and store that the other thread can see is a step; the fences make      *)
(* them sequentially consistent.  Elements are numbered as they are        *)
(* accepted.                                                               *)
(***************************************************************************)
EXTENDS Integers

CONSTANTS
    Shapes,        \* queues that are built: what is asked for, and MAX_BLOCK_SIZE
    MaxElements    \* bound on the elements that are enqueued

CeilToPow2(x) == CHOOSE p \in {2 ^ k : k \in 0..x} :
                     p >= x /\ \A o \in {2 ^ k : k \in 0..x} : o >= x => p <= o

ASSUME QueueAssumption ==
    /\ MaxElements \in Nat
    /\ \A s \in Shapes : /\ s.max \in Nat \ {0} /\ s.block \in Nat
                         /\ \E k \in 1..s.block : s.block = 2 ^ k
(* Facts of arithmetic, for the powers that are looked at.                 *)
ASSUME PowersOfTwo ==
    \A s \in Shapes : /\ \A k \in 0..(s.max + 1) : 2 ^ k \in Nat
                      /\ 2 ^ (s.max + 1) >= s.max + 1
                      /\ \A k \in 1..s.block : 2 ^ k >= 2

VARIABLES
    shape,
    mem,     \* the blocks and the two block pointers
    sem,     \* LightweightSemaphore: its count and the posts of sema_
    prod,    \* innerEnqueue<CannotAlloc>() and signal(): where the thread is
    cons     \* wait() and tryDequeue(): where the thread is

qvars == <<shape, mem, sem, prod, cons>>

Single == CeilToPow2(shape.max + 1) <= 2 * shape.block
Size == IF Single THEN CeilToPow2(shape.max + 1) ELSE shape.block
Count == IF Single THEN 1 ELSE (shape.max + 2 * shape.block - 3) \div (shape.block - 1)
Blocks == 0..(Count - 1)
Following(b) == (b + 1) % Count
Succ(i) == (i + 1) % Size
NoElement == 0

Positions == [Blocks -> 0..(Size - 1)]
Memory == [front : Positions, tail : Positions, localFront : Positions, localTail : Positions,
           data : [Blocks -> [0..(Size - 1) -> 0..MaxElements]], frontBlock : Blocks, tailBlock : Blocks]
(* The thread that sleeps, or has given up sleeping, is the only one that  *)
(* the count can be below zero for.                                        *)
SemaphoreInv == /\ sem.count >= -1 /\ sem.posts \in {0, 1}
                /\ sem.count < 0 => cons.pc \in {"sleep", "undo"}

QueueInit ==
    /\ shape \in Shapes
    /\ mem = [front |-> [b \in Blocks |-> 0], tail |-> [b \in Blocks |-> 0],
              localFront |-> [b \in Blocks |-> 0], localTail |-> [b \in Blocks |-> 0],
              data |-> [b \in Blocks |-> [i \in 0..(Size - 1) |-> NoElement]],
              frontBlock |-> 0, tailBlock |-> 0]
    /\ sem = [count |-> 0, posts |-> 0]
    /\ prod = [pc |-> "idle", next |-> 1, held |-> 0, block |-> 0, refused |-> FALSE]
    /\ cons = [pc |-> "idle", got |-> 0, taken |-> 0]

(***************************************************************************)
(* The producer.  Its own copy of front is looked at first.                *)
(***************************************************************************)
TailBlock == mem.tailBlock
(* An element that is being read still has its slot.                       *)
Released == IF cons.pc = "release" THEN cons.taken - 1 ELSE cons.taken
StartEnqueue ==
    /\ prod.pc = "idle" /\ prod.next <= MaxElements
    /\ prod' = [prod EXCEPT !.block = TailBlock, !.held = prod.next - 1 - Released, !.refused = FALSE,
                            !.pc = IF Succ(mem.tail[TailBlock]) # mem.localFront[TailBlock]
                                   THEN "write" ELSE "full"]
    /\ UNCHANGED <<mem, sem>>
ReloadFront ==
    /\ prod.pc = "full"
    /\ mem' = [mem EXCEPT !.localFront[TailBlock] = mem.front[TailBlock]]
    /\ prod' = [prod EXCEPT !.pc = IF Succ(mem.tail[TailBlock]) # mem.front[TailBlock] THEN "write" ELSE "ahead"]
    /\ UNCHANGED sem
LookAhead ==
    /\ prod.pc = "ahead"
    /\ IF Following(TailBlock) # mem.frontBlock
       THEN /\ prod' = [prod EXCEPT !.pc = "write", !.block = Following(TailBlock)]
            /\ mem' = [mem EXCEPT !.localFront[Following(TailBlock)] = mem.front[Following(TailBlock)]]
       ELSE prod' = [prod EXCEPT !.pc = "idle", !.refused = TRUE] /\ UNCHANGED mem
    /\ UNCHANGED sem
WriteElement ==
    /\ prod.pc = "write"
    /\ mem' = [mem EXCEPT !.data[prod.block][mem.tail[prod.block]] = prod.next]
    /\ prod' = [prod EXCEPT !.pc = "publish"]
    /\ UNCHANGED sem
PublishElement ==
    /\ prod.pc = "publish"
    /\ mem' = [mem EXCEPT !.tail[prod.block] = Succ(@)]
    /\ prod' = [prod EXCEPT !.pc = IF prod.block = TailBlock THEN "signal" ELSE "move"]
    /\ UNCHANGED sem
MoveToBlock ==
    /\ prod.pc = "move"
    /\ mem' = [mem EXCEPT !.tailBlock = prod.block]
    /\ prod' = [prod EXCEPT !.pc = "signal"]
    /\ UNCHANGED sem
(* signal(): the semaphore underneath is posted for a consumer that sleeps *)
Signal ==
    /\ prod.pc = "signal"
    /\ sem' = [sem EXCEPT !.count = @ + 1]
    /\ prod' = [prod EXCEPT !.next = @ + 1, !.pc = IF sem.count < 0 THEN "post" ELSE "idle"]
    /\ UNCHANGED mem
Post ==
    /\ prod.pc = "post"
    /\ sem' = [sem EXCEPT !.posts = @ + 1]
    /\ prod' = [prod EXCEPT !.pc = "idle"]
    /\ UNCHANGED mem

(***************************************************************************)
(* The consumer: wait(timeout), and what it does when the time is over.    *)
(***************************************************************************)
Wait ==
    /\ cons.pc = "idle"
    /\ sem' = [sem EXCEPT !.count = @ - 1]
    /\ cons' = [cons EXCEPT !.pc = IF sem.count > 0 THEN "take" ELSE "sleep"]
    /\ UNCHANGED mem
WokenUp ==
    /\ cons.pc = "sleep" /\ sem.posts > 0
    /\ sem' = [sem EXCEPT !.posts = @ - 1]
    /\ cons' = [cons EXCEPT !.pc = "take"]
    /\ UNCHANGED mem
TimeIsOver ==
    /\ cons.pc = "sleep" /\ sem.posts = 0
    /\ cons' = [cons EXCEPT !.pc = "undo"]
    /\ UNCHANGED <<mem, sem>>
(* The count is given back, unless the producer has signalled meanwhile;   *)
(* the mutant takes the answer of the first attempt for final.             *)
UndoAlways == "idle"
UndoneTo == IF sem.count < 0 THEN "idle" ELSE "again"
Undo ==
    /\ cons.pc = "undo"
    /\ sem' = [sem EXCEPT !.count = @ + 1]
    /\ cons' = [cons EXCEPT !.pc = UndoneTo]
    /\ UNCHANGED mem
TryAgain ==
    /\ cons.pc = "again"
    /\ sem' = [sem EXCEPT !.count = @ - 1]
    /\ cons' = [cons EXCEPT !.pc = IF sem.count > 0 THEN "posted" ELSE "undo"]
    /\ UNCHANGED mem
TryPost ==
    /\ cons.pc = "posted"
    /\ IF sem.posts > 0
       THEN sem' = [sem EXCEPT !.posts = @ - 1] /\ cons' = [cons EXCEPT !.pc = "take"]
       ELSE cons' = [cons EXCEPT !.pc = "undo"] /\ UNCHANGED sem
    /\ UNCHANGED mem

(***************************************************************************)
(* tryDequeue(): the front block is looked at a second time after the tail *)
(* block has been seen to be another one, because the producer may have    *)
(* filled it and moved on in between.                                      *)
(***************************************************************************)
FrontBlock == mem.frontBlock
Take ==
    /\ cons.pc = "take"
    /\ cons' = [cons EXCEPT !.pc = IF mem.front[FrontBlock] # mem.localTail[FrontBlock] THEN "read" ELSE "reload"]
    /\ UNCHANGED <<mem, sem>>
Reload(nothing) ==
    /\ mem' = [mem EXCEPT !.localTail[FrontBlock] = mem.tail[FrontBlock]]
    /\ cons' = [cons EXCEPT !.pc = IF mem.front[FrontBlock] # mem.tail[FrontBlock] THEN "read" ELSE nothing]
    /\ UNCHANGED sem
ReloadTail == cons.pc = "reload" /\ Reload("other")
AnotherBlock == IF FrontBlock # mem.tailBlock THEN "recheck" ELSE "empty"
CompareBlocks ==
    /\ cons.pc = "other"
    /\ cons' = [cons EXCEPT !.pc = AnotherBlock]
    /\ UNCHANGED <<mem, sem>>
Recheck == cons.pc = "recheck" /\ Reload("advance")
Advance ==
    /\ cons.pc = "advance"
    /\ mem' = [mem EXCEPT !.frontBlock = Following(FrontBlock),
                          !.localTail[Following(FrontBlock)] = mem.tail[Following(FrontBlock)]]
    /\ cons' = [cons EXCEPT !.pc = "read"]
    /\ UNCHANGED sem
ReadElement ==
    /\ cons.pc = "read"
    /\ cons' = [cons EXCEPT !.pc = "release", !.got = mem.data[FrontBlock][mem.front[FrontBlock]], !.taken = @ + 1]
    /\ mem' = [mem EXCEPT !.data[FrontBlock][mem.front[FrontBlock]] = NoElement]
    /\ UNCHANGED sem
ReleaseSlot ==
    /\ cons.pc = "release"
    /\ mem' = [mem EXCEPT !.front[FrontBlock] = Succ(@)]
    /\ cons' = [cons EXCEPT !.pc = "idle"]
    /\ UNCHANGED sem

ProducerThread == \/ StartEnqueue \/ ReloadFront \/ LookAhead \/ WriteElement \/ PublishElement
                  \/ MoveToBlock \/ Signal \/ Post
ConsumerThread == \/ Wait \/ WokenUp \/ TimeIsOver \/ Undo \/ TryAgain \/ TryPost
                  \/ Take \/ ReloadTail \/ CompareBlocks \/ Recheck \/ Advance
                  \/ ReadElement \/ ReleaseSlot

Producing == ProducerThread /\ UNCHANGED <<shape, cons>>
Consuming == ConsumerThread /\ UNCHANGED <<shape, prod>>
QueueNext == Producing \/ Consuming

-----------------------------------------------------------------------------
(* What the producer puts in comes out once and in order, the consumer     *)
(* never looks for an element where there is none, and an element is       *)
(* refused only when the queue held what it was built for.                 *)
QueueInOrder == /\ mem \in Memory /\ SemaphoreInv
                /\ cons.got = cons.taken
                /\ cons.pc # "empty"
                /\ prod.refused => prod.held >= shape.max

(* A consumer that waits gets what has been put in: no wake-up is lost.    *)
QueueEmptied == cons.taken = prod.next - 1
=============================================================================
