--------------------------- MODULE FunctionAnalyze ---------------------------
(***************************************************************************)
(* Function::Analyze of XenonAnalyse/function.cpp: the worklist that finds *)
(* the extent of a function by following its branches.  Addresses are word *)
(* indices relative to the function's base, sizes are in words.            *)
(***************************************************************************)
EXTENDS Integers, Sequences, FiniteSets, FiniteSetsExt

CONSTANTS
  Words,       \* whole words in the analysed region (size / 4)
  Tails,       \* subset of {0, 1}: does a fraction of a word end the region
  Insns,       \* the instructions programs are made of
  MaxBlocks,   \* c_maxBlockCount
  Modulus      \* size_t arithmetic is modulo this many words

ASSUME SizeAssumption ==
  /\ Words \in Nat \ {0}
  /\ Tails \subseteq {0, 1}
  /\ MaxBlocks \in Nat \ {0}
  /\ Modulus \in Nat \ {0}

Ops == {"plain", "end", "condret", "b", "bc"}

\* The branch displacement stays far below the wrap-around of size_t.
ASSUME InsnAssumption ==
  Insns \subseteq [op : Ops, t : {i \in Int : -Modulus < 2 * i /\ 2 * (i + Words) < Modulus}]

VARIABLES
  code,     \* the words at base, base + 4, ...: the region and the word after it
  tail,     \* 1 when the region's last word is incomplete
  pc,       \* "enter", "scan" (the loop), "trim" (after the loop), "done"
  blocks,   \* Function::blocks
  stack,    \* blockStack: indices into blocks, the top is last
  data,     \* the word under the cursor
  size      \* Function::size

vars == <<code, tail, pc, blocks, stack, data, size>>

NoProjection == -1    \* static_cast<size_t>(-1); wrapped sizes are multiples of 4

Block(base, sz, projected) == [base |-> base, size |-> sz, projectedSize |-> projected]

Projections == {NoProjection} \cup 0..(Modulus - 1)

BlockType == [base : Nat, size : Nat, projectedSize : Projections]

End(b) == b.base + b.size

\* Mutant of Wrap: the difference of two sizes taken as a signed number.
SignedDifference(n) == n

\* Mutant of Wrap: the projection stops one word short of the true case.
ShortDifference(n) == (n - 1) % Modulus

\* The difference of two sizes, in size_t.
Wrap(n) == n % Modulus

\* Mutant of Known: a fresh block is not found at its address.
KnownWithoutFresh(bs, a) ==
  a >= 0 /\ \E i \in DOMAIN bs : bs[i].base <= a /\ a < End(bs[i])

\* SearchBlock(base + a) != -1.  A fresh block holds no word yet, and is found
\* at its first address; the callers do not use which block was found.
Known(bs, a) ==
  /\ a >= 0
  /\ \E i \in DOMAIN bs :
       IF bs[i].size # 0
       THEN bs[i].base <= a /\ a < End(bs[i])
       ELSE a = bs[i].base

\* Mutant of Follow: the path ends without RESTORE_DATA.
FollowOnwards(bs, stk) == data' = data + 1

\* RESTORE_DATA and the loop's ++data: on with the block on top of the stack.
Follow(bs, stk) ==
  data' = IF stk # <<>> THEN End(bs[stk[Len(stk)]]) ELSE data + 1

\* Mutant of Pop: the block on top is left on the stack.
PopNothing(stk) == stk

Pop(stk) == SubSeq(stk, 1, Len(stk) - 1)

Top == stack[Len(stack)]

\* A new block, at the end of the vector, pushed unless its address is known.
Explore(bs, stk, base, projected) ==
  IF Known(bs, base)
  THEN [bs |-> bs, stk |-> stk]
  ELSE [bs |-> Append(bs, Block(base, 0, projected)), stk |-> Append(stk, Len(bs) + 1)]

----------------------------------------------------------------------------

Init ==
  /\ code \in [0..Words -> Insns]
  /\ tail \in Tails
  /\ pc = "enter"
  /\ blocks = <<>>
  /\ stack = <<>>
  /\ data = 0
  /\ size = 0

\* "shifted ptr tail call": the second word is b +4.
ShiftedTailCall ==
  /\ pc = "enter"
  /\ code[1] = [op |-> "b", t |-> 2]
  /\ size' = 2
  /\ pc' = "done"
  /\ UNCHANGED <<code, tail, blocks, stack, data>>

Enter ==
  /\ pc = "enter"
  /\ code[1] # [op |-> "b", t |-> 2]
  /\ blocks' = <<Block(0, 0, NoProjection)>>
  /\ stack' = <<1>>
  /\ pc' = "scan"
  /\ UNCHANGED <<code, tail, data, size>>

\* data <= dataEnd fails, nothing is left on the stack, or too many blocks.
LeaveLoop ==
  /\ pc = "scan"
  /\ data > Words \/ stack = <<>> \/ Len(blocks) > MaxBlocks
  /\ pc' = "trim"
  /\ UNCHANGED <<code, tail, blocks, stack, data, size>>

InLoop ==
  /\ pc = "scan"
  /\ data <= Words
  /\ stack # <<>>
  /\ Len(blocks) <= MaxBlocks

Current == blocks[Top]

Covered == Current.projectedSize # NoProjection /\ Current.size >= Current.projectedSize

\* Mutant of Fallthrough: a covered block is not popped.
FallthroughStuck ==
  /\ InLoop
  /\ Covered
  /\ Follow(blocks, stack)
  /\ UNCHANGED <<code, tail, pc, blocks, stack, size>>

\* The current block has grown to its projected size.
Fallthrough ==
  /\ InLoop
  /\ Covered
  /\ stack' = Pop(stack)
  /\ Follow(blocks, stack')
  /\ UNCHANGED <<code, tail, pc, blocks, size>>

Grown == [Current EXCEPT !.size = @ + 1]

\* The word under the cursor, of one of the classes ops, joins the block.
Scan(ops) ==
  /\ InLoop
  /\ ~Covered
  /\ code[data].op \in ops
  /\ UNCHANGED <<code, tail, pc, size>>

ScanPlain ==
  /\ Scan({"plain"})
  /\ blocks' = [blocks EXCEPT ![Top] = Grown]
  /\ data' = data + 1
  /\ UNCHANGED stack

\* An unconditional blr or bctr, a zero word, or an undecodable one.
ScanEnd ==
  /\ Scan({"end"})
  /\ blocks' = [blocks EXCEPT ![Top] = Grown]
  /\ stack' = Pop(stack)
  /\ Follow(blocks', stack')

\* bclr/bcctr with a condition: the other path returns.
ScanConditionalReturn ==
  /\ Scan({"condret"})
  /\ LET next == Explore([blocks EXCEPT ![Top] = Grown], Pop(stack), data + 1, NoProjection)
     IN  blocks' = next.bs /\ stack' = next.stk
  /\ Follow(blocks', stack')

\* bc: the false case is projected to reach up to the true case; the true case
\* is explored when it lies in the region.
ScanConditionalBranch ==
  /\ Scan({"bc"})
  /\ LET dest   == code[data].t
         inside == dest >= 0 /\ dest < Words + tail
         grown  == [blocks EXCEPT ![Top] = [Grown EXCEPT !.projectedSize = NoProjection]]
         left   == Explore(grown, Pop(stack), data + 1,
                           IF inside THEN Wrap(dest - (data + 1)) ELSE NoProjection)
         right  == IF inside THEN Explore(left.bs, left.stk, dest, NoProjection) ELSE left
     IN  blocks' = right.bs /\ stack' = right.stk
  /\ Follow(blocks', stack')

\* b: a branch below the base is a tail call.  The projection is carried over
\* when the destination directly follows.
ScanBranch ==
  /\ Scan({"b"})
  /\ LET dest      == code[data].t
         grown     == [blocks EXCEPT ![Top] = Grown]
         continues == Current.projectedSize # NoProjection /\ dest = End(Grown)
         next      == Explore(grown, Pop(stack), dest,
                              IF continues THEN Wrap(Current.projectedSize - Grown.size)
                              ELSE NoProjection)
     IN  IF dest < 0
         THEN blocks' = grown /\ stack' = Pop(stack)
         ELSE blocks' = next.bs /\ stack' = next.stk
  /\ Follow(blocks', stack')

----------------------------------------------------------------------------

Found == {blocks[i] : i \in DOMAIN blocks}

\* d comes right after c when the blocks are sorted by base.
Adjacent(c, d) ==
  c.base < d.base /\ ~\E e \in Found : c.base < e.base /\ e.base < d.base

\* Mutant of Contiguous: a block that starts where its predecessor ends is cut off.
ContiguousOverlapping ==
  {b \in Found : \A c, d \in Found : Adjacent(c, d) /\ d.base <= b.base => End(c) > d.base}

\* The blocks before the first one that starts past its predecessor's end.
Contiguous ==
  {b \in Found : \A c, d \in Found : Adjacent(c, d) /\ d.base <= b.base => End(c) >= d.base}

\* Mutant of Trim: the size is not limited to the region.
TrimUnlimited ==
  /\ pc = "trim"
  /\ size' = Max({End(b) : b \in Contiguous})
  /\ pc' = "done"
  /\ UNCHANGED <<code, tail, blocks, stack, data>>

Trim ==
  /\ pc = "trim"
  /\ size' = Min({Max({End(b) : b \in Contiguous}), Words + tail})
  /\ pc' = "done"
  /\ UNCHANGED <<code, tail, blocks, stack, data>>

Done == pc = "done" /\ UNCHANGED vars

Next ==
  \/ ShiftedTailCall \/ Enter
  \/ Fallthrough
  \/ ScanPlain \/ ScanEnd \/ ScanConditionalReturn
  \/ ScanConditionalBranch \/ ScanBranch
  \/ LeaveLoop \/ Trim
  \/ Done

Spec == Init /\ [][Next]_vars /\ WF_vars(Next)

----------------------------------------------------------------------------

TypeOK ==
  /\ code \in [0..Words -> Insns]
  /\ tail \in Tails
  /\ pc \in {"enter", "scan", "trim", "done"}
  /\ blocks \in Seq(BlockType)
  /\ stack \in Seq(1..Len(blocks))
  /\ data \in Nat
  /\ size \in Nat

\* The assertion inside the loop: whichever block was pushed, popped or
\* restored, the cursor stands at the end of the block on top of the stack.
CursorAtBlockEnd ==
  pc = "scan" /\ stack # <<>> => data = End(Current)

\* No two blocks begin at the same address, so that the sort by base after the
\* loop has one outcome and no address is queued for analysis twice.
DistinctBases ==
  \A i, j \in DOMAIN blocks : blocks[i].base = blocks[j].base => i = j

\* A block below the top of the stack still waits for its first word: only
\* the block on top is ever grown, and none is taken up again after a pop.
PendingUntouched ==
  \A i \in DOMAIN stack : i < Len(stack) => blocks[stack[i]].size = 0

\* Overlapping blocks do not mislead the pass over adjacent blocks: a gap
\* between two neighbours is a gap no other block covers.
GapsAreReal ==
  pc = "trim" /\ stack = <<>> =>
    \A c, d \in Found : Adjacent(c, d) /\ End(c) < d.base =>
      \A e \in Found : e.base <= c.base => End(e) < d.base

\* The caller advances by the reported size: it is never zero, and never leaves
\* the region unless the two words of a shifted tail call do.
SizeInRegion ==
  pc = "done" => size \in 1..(Words + tail) \/ (size = 2 /\ blocks = <<>>)

\* The analysis ends on every program.
Termination == <>(pc = "done")

\* The analysis reports the extent of the code reachable from the base.
Extent == INSTANCE FunctionExtent WITH done <- pc = "done"

ReportsExtent == Extent!AbsSpec

\* Another block starts under the cursor, or holds the word there.
RunsIntoAnother ==
  \E i \in DOMAIN blocks \ {Top} :
    blocks[i].base = data \/ (blocks[i].base < data /\ data < End(blocks[i]))

\* "fallthrough": a block that is left because it grew, word by word, to its
\* projected size runs into another block. (A block of projected size zero, for a
\* branch to the next instruction, is left before it held a word.)
GrownFallthroughContinues ==
  InLoop /\ Covered /\ Current.size > 0 => RunsIntoAnother
=============================================================================
