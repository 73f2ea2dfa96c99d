------------------------ MODULE FunctionAnalyzeProofs ------------------------
(***************************************************************************)
(* The safety properties of FunctionAnalyze that hold of every region size,*)
(* every program and every limit.  Every step grows the block on top of    *)
(* the stack, pops it, and pushes at most two blocks that hold no word:    *)
(* the lemmas follow a block list and a stack through these three moves.   *)
(* The second half proves that the worklist implements FunctionExtent.     *)
(***************************************************************************)
EXTENDS FunctionAnalyze, NaturalLemmas, SequenceTheorems

LimitEnd == Modulus + Words + 1

\* A block list bs and the stack stk of the blocks still to scan.
Worklist(bs, stk) ==
  /\ bs \in Seq(BlockType)
  /\ stk \in Seq(1..Len(bs))
  /\ \A i, j \in 1..Len(bs) : bs[i].base = bs[j].base => i = j
  /\ \A i, j \in 1..Len(stk) : i < j => stk[i] < stk[j]
  /\ \A i \in 1..Len(stk) : i < Len(stk) => bs[stk[i]].size = 0
  /\ \A i \in 1..Len(bs) : End(bs[i]) <= LimitEnd
  /\ Len(bs) >= 1
  /\ bs[1].base = 0

\* A worklist whose entry block was scanned and whose stack holds fresh blocks.
Popped(bs, stk) ==
  /\ Worklist(bs, stk)
  /\ \A i \in 1..Len(stk) : bs[stk[i]].size = 0
  /\ bs[1].size >= 1

\* Before the first word is scanned the entry block is all there is.
EntryBlock ==
  blocks[1].size = 0 =>
    /\ pc = "scan"
    /\ stack = <<1>>
    /\ Len(blocks) = 1
    /\ data = 0
    /\ blocks[1].projectedSize = NoProjection

IInv ==
  /\ TypeOK
  /\ pc = "enter" => blocks = <<>> /\ data = 0
  /\ blocks = <<>> \/ Worklist(blocks, stack)
  /\ blocks = <<>> => stack = <<>>
  /\ pc \in {"scan", "trim"} => blocks # <<>> /\ EntryBlock
  /\ CursorAtBlockEnd
  /\ SizeInRegion

----------------------------------------------------------------------------

\* A popped stack is the stack without its last element.
LEMMA PopProperties ==
  ASSUME NEW T, NEW stk \in Seq(T), stk # <<>>
  PROVE  /\ Pop(stk) \in Seq(T)
         /\ Len(Pop(stk)) = Len(stk) - 1
         /\ \A i \in 1..Len(Pop(stk)) : Pop(stk)[i] = stk[i]
<1> DEFINE l == Len(stk)
<1>1. l \in Nat /\ l >= 1
  BY EmptySeq
<1>2. \A i \in 1..(l - 1) : stk[i] \in T
  BY <1>1, ElementOfSeq
<1>3. /\ Pop(stk) \in Seq(T)
      /\ Len(Pop(stk)) = IF 1 <= l - 1 THEN l - 1 - 1 + 1 ELSE 0
      /\ \A i \in 1..(l - 1 - 1 + 1) : Pop(stk)[i] = stk[1 + i - 1]
  BY <1>1, <1>2, SubSeqProperties DEF Pop
<1> HIDE DEF l
<1>4. Len(Pop(stk)) = l - 1
  BY <1>1, <1>3
<1>5. \A i \in 1..(l - 1) : Pop(stk)[i] = stk[i]
  <2> TAKE i \in 1..(l - 1)
  <2>1. i \in 1..(l - 1 - 1 + 1) /\ 1 + i - 1 = i
    BY <1>1
  <2> QED BY <1>3, <2>1
<1> QED BY <1>3, <1>4, <1>5 DEF l

\* RESTORE_DATA puts the cursor at the end of the block on top of the stack.
LEMMA FollowProperties ==
  ASSUME NEW bs, NEW stk, Worklist(bs, stk), data \in Nat, Follow(bs, stk)
  PROVE  /\ data' \in Nat
         /\ stk # <<>> => data' = End(bs[stk[Len(stk)]])
<1>1. CASE stk # <<>>
  <2>1. Len(stk) \in 1..Len(stk)
    BY <1>1, EmptySeq DEF Worklist
  <2>2. bs[stk[Len(stk)]] \in BlockType
    BY <2>1, ElementOfSeq DEF Worklist
  <2> QED BY <1>1, <2>2 DEF Follow, End, BlockType
<1>2. CASE stk = <<>>
  BY <1>2 DEF Follow
<1> QED BY <1>1, <1>2

\* Exploring an address keeps a popped worklist one: an unknown address is the
\* base of no block, and the block made for it is fresh and last.
LEMMA ExploreProperties ==
  ASSUME NEW bs, NEW stk, Popped(bs, stk),
         NEW base \in Nat, base <= LimitEnd, NEW projected \in Projections
  PROVE  Popped(Explore(bs, stk, base, projected).bs, Explore(bs, stk, base, projected).stk)
<1> DEFINE b == Block(base, 0, projected)
           n == Len(bs) + 1
<1>1. CASE Known(bs, base)
  BY <1>1 DEF Explore
<1>2. CASE ~Known(bs, base)
  <2>1. /\ Explore(bs, stk, base, projected).bs = Append(bs, b)
        /\ Explore(bs, stk, base, projected).stk = Append(stk, n)
    BY <1>2 DEF Explore
  <2>2. b \in BlockType /\ b.base = base /\ b.size = 0
    BY DEF Block, BlockType
  <2>3. /\ Len(bs) \in Nat /\ DOMAIN bs = 1..Len(bs)
        /\ \A i \in 1..Len(bs) : bs[i] \in BlockType
    BY LenProperties, ElementOfSeq DEF Popped, Worklist
  <2>4. \A i \in 1..Len(bs) : bs[i].base # base
    BY <1>2, <2>3 DEF Known, End, BlockType
  <2> HIDE DEF b
  <2>5. /\ Append(bs, b) \in Seq(BlockType)
        /\ Len(Append(bs, b)) = n
        /\ \A i \in 1..Len(bs) : Append(bs, b)[i] = bs[i]
        /\ Append(bs, b)[n] = b
    BY <2>2, AppendProperties DEF Popped, Worklist
  <2>6. /\ Len(stk) \in Nat
        /\ \A i \in 1..Len(stk) : stk[i] \in 1..Len(bs)
        /\ stk \in Seq(1..n)
    <3>1. stk \in Seq(1..Len(bs)) /\ 1..Len(bs) \subseteq 1..n
      BY <2>3 DEF Popped, Worklist
    <3> QED BY <3>1, LenProperties, ElementOfSeq, SeqMonotonic
  <2>7. /\ Append(stk, n) \in Seq(1..n)
        /\ Len(Append(stk, n)) = Len(stk) + 1
        /\ \A i \in 1..Len(stk) : Append(stk, n)[i] = stk[i]
        /\ Append(stk, n)[Len(stk) + 1] = n
    <3>1. n \in 1..n
      BY <2>3
    <3> QED BY <3>1, <2>6, AppendProperties
  <2> DEFINE cs == Append(bs, b)
             ctk == Append(stk, n)
  <2> HIDE DEF cs, ctk
  <2>8. \A i, j \in 1..n : cs[i].base = cs[j].base => i = j
    BY <2>2, <2>3, <2>4, <2>5 DEF Popped, Worklist, cs
  <2>9. \A i, j \in 1..Len(ctk) : i < j => ctk[i] < ctk[j]
    <3> TAKE i, j \in 1..Len(ctk)
    <3> HAVE i < j
    <3>1. Len(ctk) = Len(stk) + 1
      BY <2>7 DEF ctk
    <3>2. i \in 1..Len(stk) /\ ctk[i] = stk[i] /\ stk[i] < n
      BY <2>3, <2>6, <2>7, <3>1 DEF ctk
    <3>3. CASE j = Len(stk) + 1
      BY <2>7, <3>2, <3>3 DEF ctk
    <3>4. CASE j # Len(stk) + 1
      <4>1. j \in 1..Len(stk) /\ ctk[j] = stk[j]
        BY <2>6, <2>7, <3>1, <3>4 DEF ctk
      <4> QED BY <3>2, <4>1 DEF Popped, Worklist
    <3> QED BY <3>3, <3>4
  <2>10. \A i \in 1..Len(ctk) : cs[ctk[i]].size = 0
    BY <2>2, <2>3, <2>5, <2>6, <2>7 DEF Popped, cs, ctk
  <2>11. \A i \in 1..n : End(cs[i]) <= LimitEnd
    BY <2>2, <2>3, <2>5 DEF Popped, Worklist, cs, End
  <2>12. cs[1] = bs[1] /\ Len(bs) >= 1
    BY <2>3, <2>5 DEF Popped, Worklist, cs
  <2>13. cs \in Seq(BlockType) /\ Len(cs) = n /\ ctk \in Seq(1..n)
    BY <2>5, <2>7 DEF cs, ctk
  <2>14. bs[1].base = 0 /\ bs[1].size >= 1
    BY DEF Popped, Worklist
  <2>15. Worklist(cs, ctk)
    <3>1. ctk \in Seq(1..Len(cs)) /\ Len(cs) >= 1 /\ cs[1].base = 0
      BY <2>3, <2>12, <2>13, <2>14
    <3>2. \A i, j \in 1..Len(cs) : cs[i].base = cs[j].base => i = j
      BY <2>8, <2>13
    <3>3. \A i \in 1..Len(cs) : End(cs[i]) <= LimitEnd
      BY <2>11, <2>13
    <3> QED BY <2>9, <2>10, <2>13, <3>1, <3>2, <3>3 DEF Worklist
  <2>16. Popped(cs, ctk)
    BY <2>10, <2>12, <2>14, <2>15 DEF Popped
  <2> QED BY <2>1, <2>16 DEF cs, ctk
<1> QED BY <1>1, <1>2

\* What the invariant says inside the loop.
LEMMA LoopState ==
  ASSUME IInv, pc = "scan", stack # <<>>
  PROVE  /\ Worklist(blocks, stack)
         /\ Len(blocks) \in Nat /\ DOMAIN blocks = 1..Len(blocks)
         /\ Len(stack) \in Nat /\ Len(stack) >= 1
         /\ \A i \in 1..Len(stack) : stack[i] \in 1..Len(blocks)
         /\ Top \in 1..Len(blocks)
         /\ Current = blocks[Top] /\ Current \in BlockType
         /\ data \in Nat /\ data = End(Current)
<1>1. Worklist(blocks, stack)
  BY DEF IInv
<1>2. Len(blocks) \in Nat /\ DOMAIN blocks = 1..Len(blocks)
  BY <1>1, LenProperties DEF Worklist
<1>3. Len(stack) \in Nat /\ Len(stack) >= 1
  BY <1>1, EmptySeq DEF Worklist
<1>4. \A i \in 1..Len(stack) : stack[i] \in 1..Len(blocks)
  BY <1>1, ElementOfSeq DEF Worklist
<1>5. Top \in 1..Len(blocks)
  BY <1>3, <1>4 DEF Top
<1>6. Current = blocks[Top] /\ Current \in BlockType
  BY <1>1, <1>5, ElementOfSeq DEF Current, Worklist
<1>7. data \in Nat /\ data = End(Current)
  BY DEF IInv, TypeOK, CursorAtBlockEnd
<1> QED BY <1>1, <1>2, <1>3, <1>4, <1>5, <1>6, <1>7

\* The stack without its top is still a stack of the same blocks.
LEMMA PopWorklist ==
  ASSUME IInv, pc = "scan", stack # <<>>
  PROVE  /\ Worklist(blocks, Pop(stack))
         /\ \A i \in 1..Len(Pop(stack)) : blocks[Pop(stack)[i]].size = 0 /\ Pop(stack)[i] < Top
<1> DEFINE stk == Pop(stack)
<1>1. /\ stk \in Seq(1..Len(blocks))
      /\ Len(stk) = Len(stack) - 1
      /\ \A i \in 1..Len(stk) : stk[i] = stack[i]
  BY LoopState, PopProperties DEF Worklist
<1> HIDE DEF stk
<1>2. \A i \in 1..Len(stk) : i \in 1..Len(stack) /\ i < Len(stack) /\ Len(stack) \in 1..Len(stack)
  BY <1>1, LoopState
<1>3. \A i \in 1..Len(stk) : blocks[stk[i]].size = 0 /\ stk[i] < Top
  BY <1>1, <1>2, LoopState DEF Worklist, Top
<1>4. \A i, j \in 1..Len(stk) : i < j => stk[i] < stk[j]
  BY <1>1, <1>2, LoopState DEF Worklist
<1> QED BY <1>1, <1>3, <1>4, LoopState DEF Worklist, stk

\* The current block takes one more word and leaves the stack.
LEMMA GrowProperties ==
  ASSUME IInv, InLoop,
         NEW g \in BlockType, g.base = Current.base, g.size = Current.size + 1
  PROVE  /\ Popped([blocks EXCEPT ![Top] = g], Pop(stack))
         /\ Worklist([blocks EXCEPT ![Top] = g], stack)
         /\ [blocks EXCEPT ![Top] = g][Top] = g
<1> DEFINE bs == [blocks EXCEPT ![Top] = g]
<1> USE DEF InLoop
<1>1. /\ bs \in Seq(BlockType)
      /\ Len(bs) = Len(blocks)
      /\ \A j \in 1..Len(blocks) : bs[j] = IF j = Top THEN g ELSE blocks[j]
  BY LoopState, ExceptSeq DEF Worklist
<1> HIDE DEF bs
<1>2. \A i \in 1..Len(blocks) : bs[i].base = blocks[i].base
  BY <1>1, LoopState
<1>3. \A i \in 1..Len(bs) : End(bs[i]) <= LimitEnd
  <2>1. End(g) = data + 1
    BY LoopState DEF End, BlockType
  <2>2. End(g) <= LimitEnd
    BY <2>1, LoopState, SizeAssumption DEF LimitEnd
  <2> QED BY <1>1, <2>2, LoopState DEF Worklist
<1>4. bs[1].size >= 1
  <2>1. 1 \in 1..Len(blocks) /\ blocks[1] \in BlockType
    BY LoopState, ElementOfSeq DEF Worklist
  <2>2. CASE Top = 1
    BY <1>1, <2>1, <2>2, LoopState DEF BlockType
  <2>3. CASE Top # 1
    <3>1. blocks[1].size # 0
      <4>1. SUFFICES ASSUME blocks[1].size = 0 PROVE FALSE
        OBVIOUS
      <4>2. stack = <<1>>
        BY <4>1 DEF IInv, EntryBlock
      <4> QED BY <4>2, <2>3 DEF Top
    <3> QED BY <1>1, <2>1, <2>3, <3>1 DEF BlockType
  <2> QED BY <2>2, <2>3
<1>5. \A i \in 1..Len(Pop(stack)) : bs[Pop(stack)[i]].size = 0
  <2> TAKE i \in 1..Len(Pop(stack))
  <2> DEFINE j == Pop(stack)[i]
  <2>1. j \in 1..Len(blocks)
    BY PopWorklist, ElementOfSeq DEF Worklist
  <2>2. blocks[j].size = 0 /\ j < Top
    BY PopWorklist
  <2> HIDE DEF j
  <2>3. bs[j] = blocks[j]
    BY <1>1, <2>1, <2>2, LoopState
  <2> QED BY <2>2, <2>3 DEF j
<1>6. \A i \in 1..Len(stack) : i < Len(stack) => bs[stack[i]].size = 0
  <2> TAKE i \in 1..Len(stack)
  <2> HAVE i < Len(stack)
  <2>1. stack[i] < Top /\ stack[i] \in 1..Len(blocks) /\ blocks[stack[i]].size = 0
    BY LoopState DEF Worklist, Top
  <2> QED BY <1>1, <2>1, LoopState
<1>7. Worklist(bs, stack)
  BY <1>1, <1>2, <1>3, <1>6, LoopState DEF Worklist
<1>8. Worklist(bs, Pop(stack))
  BY <1>1, <1>2, <1>3, <1>5, LoopState, PopWorklist DEF Worklist
<1> QED BY <1>1, <1>4, <1>5, <1>7, <1>8, LoopState DEF Popped, bs

\* A step that leaves a popped worklist and follows it keeps the invariant.
LEMMA PoppedStep ==
  ASSUME IInv, InLoop, Popped(blocks', stack'), Follow(blocks', stack'),
         UNCHANGED <<code, tail, pc, size>>
  PROVE  IInv'
<1> USE DEF InLoop
<1>1. Worklist(blocks', stack') /\ data \in Nat
  BY DEF Popped, IInv, TypeOK
<1>2. data' \in Nat /\ (stack' # <<>> => data' = End(blocks'[stack'[Len(stack')]]))
  BY <1>1, FollowProperties
<1>3. blocks' # <<>>
  <2>1. Len(blocks') >= 1
    BY <1>1 DEF Worklist
  <2> QED BY <2>1
<1>4. TypeOK'
  BY <1>1, <1>2 DEF IInv, TypeOK, Worklist
<1>5. CursorAtBlockEnd'
  BY <1>2 DEF CursorAtBlockEnd, Current, Top
<1>6. EntryBlock'
  BY DEF EntryBlock, Popped
<1>7. SizeInRegion'
  BY DEF SizeInRegion
<1> QED BY <1>1, <1>3, <1>4, <1>5, <1>6, <1>7 DEF IInv

\* What is scanned belongs to Insns, whose targets are bounded.
LEMMA ScannedWord ==
  ASSUME IInv, InLoop
  PROVE  /\ code[data].op \in Ops
         /\ code[data].t \in Int
         /\ code[data].t <= LimitEnd
         /\ data + 1 \in Nat /\ data + 1 <= LimitEnd
<1>1. data \in 0..Words
  BY SizeAssumption DEF IInv, TypeOK, InLoop
<1>2. code[data] \in Insns
  BY <1>1 DEF IInv, TypeOK
<1>3. code[data] \in [op : Ops, t : {i \in Int : -Modulus < 2 * i /\ 2 * (i + Words) < Modulus}]
  BY <1>2, InsnAssumption
<1>4. /\ code[data].op \in Ops
      /\ code[data].t \in Int
      /\ 2 * (code[data].t + Words) < Modulus
  BY <1>3
<1> HIDE DEF Ops
<1> QED BY <1>1, <1>4, SizeAssumption DEF LimitEnd

\* A block that was grown, with its projection kept or cleared.
LEMMA GrownType ==
  ASSUME IInv, InLoop
  PROVE  /\ Grown \in BlockType
         /\ Grown.base = Current.base /\ Grown.size = Current.size + 1
         /\ [Grown EXCEPT !.projectedSize = NoProjection] \in BlockType
         /\ [Grown EXCEPT !.projectedSize = NoProjection].base = Current.base
         /\ [Grown EXCEPT !.projectedSize = NoProjection].size = Current.size + 1
<1>1. Current \in BlockType
  BY LoopState DEF InLoop
<1> DEFINE g == Grown
<1>2. g \in BlockType /\ g.base = Current.base /\ g.size = Current.size + 1
  BY <1>1 DEF Grown, BlockType
<1> HIDE DEF g
<1>3. /\ [g EXCEPT !.projectedSize = NoProjection] \in BlockType
      /\ [g EXCEPT !.projectedSize = NoProjection].base = g.base
      /\ [g EXCEPT !.projectedSize = NoProjection].size = g.size
  <2>1. NoProjection \in Projections
    BY DEF Projections
  <2> QED BY <1>2, <2>1 DEF BlockType
<1> QED BY <1>2, <1>3 DEF g

\* A wrapped difference is a projected size.
LEMMA WrapType ==
  ASSUME NEW n \in Int
  PROVE  Wrap(n) \in Projections
BY SizeAssumption DEF Wrap, Projections

LEMMA InvariantInit == Init => IInv
<1> SUFFICES ASSUME Init PROVE IInv
  OBVIOUS
<1>1. blocks \in Seq(BlockType) /\ stack \in Seq(1..Len(blocks))
  BY EmptySeq DEF Init
<1>2. TypeOK
  BY <1>1 DEF Init, TypeOK
<1> QED BY <1>2 DEF Init, IInv, CursorAtBlockEnd, SizeInRegion

LEMMA EnterStep == IInv /\ Enter => IInv'
<1> SUFFICES ASSUME IInv, Enter PROVE IInv'
  OBVIOUS
<1> DEFINE b == Block(0, 0, NoProjection)
<1>1. b \in BlockType /\ b.base = 0 /\ b.size = 0 /\ b.projectedSize = NoProjection
  BY DEF Block, BlockType, Projections
<1> HIDE DEF b
<1>2. blocks' = <<b>> /\ stack' = <<1>> /\ pc' = "scan" /\ data' = data /\ size' = size
  BY DEF Enter, b
<1>3. Len(<<b>>) = 1 /\ <<b>>[1] = b /\ <<b>> \in Seq(BlockType)
  BY <1>1
<1>4. Len(<<1>>) = 1 /\ <<1>>[1] = 1 /\ <<1>> \in Seq(1..1)
  OBVIOUS
<1>5. Worklist(<<b>>, <<1>>)
  BY <1>1, <1>3, <1>4, SizeAssumption DEF Worklist, End, LimitEnd
<1>6. TypeOK'
  BY <1>2, <1>3, <1>4 DEF IInv, TypeOK, Enter
<1>7. CursorAtBlockEnd' /\ EntryBlock' /\ SizeInRegion'
  BY <1>1, <1>2, <1>3, <1>4
  DEF IInv, Enter, EntryBlock, CursorAtBlockEnd, Current, Top, End, SizeInRegion
<1> QED BY <1>2, <1>3, <1>5, <1>6, <1>7 DEF IInv

LEMMA FallthroughStep == IInv /\ Fallthrough => IInv'
<1> SUFFICES ASSUME IInv, Fallthrough PROVE IInv'
  OBVIOUS
<1>1. InLoop /\ Covered /\ pc = "scan" /\ stack # <<>>
  BY DEF Fallthrough, InLoop
<1>2. blocks[1].size # 0
  <2> SUFFICES ASSUME blocks[1].size = 0 PROVE FALSE
    OBVIOUS
  <2>1. EntryBlock
    BY <1>1 DEF IInv
  <2>2. stack = <<1>> /\ blocks[1].projectedSize = NoProjection
    BY <2>1 DEF EntryBlock
  <2>3. Current = blocks[1]
    BY <2>2 DEF Current, Top
  <2> QED BY <1>1, <2>2, <2>3 DEF Covered
<1>3. Popped(blocks', stack')
  <2>1. Worklist(blocks, Pop(stack)) /\ \A j \in 1..Len(Pop(stack)) : blocks[Pop(stack)[j]].size = 0
    BY <1>1, PopWorklist
  <2>2. blocks[1].size >= 1
    <3>1. 1 \in 1..Len(blocks)
      BY <1>1, LoopState DEF Worklist
    <3>2. blocks[1] \in BlockType
      BY <1>1, <3>1, LoopState, ElementOfSeq DEF Worklist
    <3> QED BY <1>2, <3>2 DEF BlockType
  <2>3. blocks' = blocks /\ stack' = Pop(stack)
    BY DEF Fallthrough
  <2> QED BY <2>1, <2>2, <2>3 DEF Popped
<1>4. Follow(blocks', stack') /\ UNCHANGED <<code, tail, pc, size>>
  BY DEF Fallthrough, Follow
<1> QED BY <1>1, <1>3, <1>4, PoppedStep

LEMMA ScanPlainStep == IInv /\ ScanPlain => IInv'
<1> SUFFICES ASSUME IInv, ScanPlain PROVE IInv'
  OBVIOUS
<1>1. InLoop /\ pc = "scan" /\ stack # <<>>
  BY DEF ScanPlain, Scan, InLoop
<1>2. /\ blocks' = [blocks EXCEPT ![Top] = Grown] /\ stack' = stack /\ data' = data + 1
      /\ pc' = pc /\ code' = code /\ tail' = tail /\ size' = size
  BY DEF ScanPlain, Scan
<1>3. /\ Popped(blocks', Pop(stack)) /\ Worklist(blocks', stack')
      /\ blocks'[Top] = Grown
  BY <1>1, <1>2, GrowProperties, GrownType
<1>4. data + 1 \in Nat /\ data + 1 = End(Grown)
  <2>1. Current \in BlockType /\ data = End(Current) /\ data \in Nat
    BY <1>1, LoopState
  <2> QED BY <1>1, <2>1, GrownType DEF End, BlockType
<1>5. TypeOK'
  BY <1>2, <1>3, <1>4 DEF IInv, TypeOK, Worklist
<1>6. CursorAtBlockEnd'
  BY <1>2, <1>3, <1>4 DEF CursorAtBlockEnd, Current, Top
<1>7. blocks' # <<>> /\ EntryBlock'
  <2>1. Len(blocks') >= 1
    BY <1>3 DEF Worklist
  <2> QED BY <1>3, <2>1 DEF EntryBlock, Popped
<1>8. SizeInRegion'
  BY <1>1, <1>2 DEF SizeInRegion
<1> QED BY <1>1, <1>2, <1>3, <1>5, <1>6, <1>7, <1>8 DEF IInv

LEMMA ScanEndStep == IInv /\ ScanEnd => IInv'
<1> SUFFICES ASSUME IInv, ScanEnd PROVE IInv'
  OBVIOUS
<1>1. InLoop /\ UNCHANGED <<code, tail, pc, size>> /\ Follow(blocks', stack')
  BY DEF ScanEnd, Scan
<1>2. blocks' = [blocks EXCEPT ![Top] = Grown] /\ stack' = Pop(stack)
  BY DEF ScanEnd
<1>3. Popped(blocks', stack')
  BY <1>1, <1>2, GrowProperties, GrownType
<1> QED BY <1>1, <1>3, PoppedStep

LEMMA ScanConditionalReturnStep == IInv /\ ScanConditionalReturn => IInv'
<1> SUFFICES ASSUME IInv, ScanConditionalReturn PROVE IInv'
  OBVIOUS
<1>1. InLoop /\ UNCHANGED <<code, tail, pc, size>> /\ Follow(blocks', stack')
  BY DEF ScanConditionalReturn, Scan
<1>2. NoProjection \in Projections
  BY DEF Projections
<1>3. Popped([blocks EXCEPT ![Top] = Grown], Pop(stack))
  BY <1>1, GrowProperties, GrownType
<1>4. Popped(blocks', stack')
  BY <1>1, <1>2, <1>3, ScannedWord, ExploreProperties DEF ScanConditionalReturn
<1> QED BY <1>1, <1>4, PoppedStep

LEMMA ScanConditionalBranchStep == IInv /\ ScanConditionalBranch => IInv'
<1> SUFFICES ASSUME IInv, ScanConditionalBranch PROVE IInv'
  OBVIOUS
<1> DEFINE dest   == code[data].t
           inside == dest >= 0 /\ dest < Words + tail
           grown  == [blocks EXCEPT ![Top] = [Grown EXCEPT !.projectedSize = NoProjection]]
           proj   == IF inside THEN Wrap(dest - (data + 1)) ELSE NoProjection
           left   == Explore(grown, Pop(stack), data + 1, proj)
           right  == IF inside THEN Explore(left.bs, left.stk, dest, NoProjection) ELSE left
<1>1. /\ InLoop /\ UNCHANGED <<code, tail, pc, size>> /\ Follow(blocks', stack')
      /\ blocks' = right.bs /\ stack' = right.stk
  BY DEF ScanConditionalBranch, Scan
<1>2. Popped(grown, Pop(stack))
  BY <1>1, GrowProperties, GrownType
<1>3. dest \in Int /\ dest <= LimitEnd /\ data + 1 \in Nat /\ data + 1 <= LimitEnd
  BY <1>1, ScannedWord
<1>4. NoProjection \in Projections
  BY DEF Projections
<1>5. proj \in Projections
  BY <1>3, <1>4, WrapType
<1> HIDE DEF grown, proj
<1>6. Popped(left.bs, left.stk)
  BY <1>2, <1>3, <1>5, ExploreProperties
<1>7. Popped(right.bs, right.stk)
  <2>1. CASE inside
    <3>1. dest \in Nat
      BY <1>3, <2>1
    <3> HIDE DEF dest, left
    <3> QED BY <1>3, <1>4, <1>6, <2>1, <3>1, ExploreProperties
  <2>2. CASE ~inside
    BY <1>6, <2>2
  <2> QED BY <2>1, <2>2
<1> QED BY <1>1, <1>7, PoppedStep

LEMMA ScanBranchStep == IInv /\ ScanBranch => IInv'
<1> SUFFICES ASSUME IInv, ScanBranch PROVE IInv'
  OBVIOUS
<1> DEFINE dest  == code[data].t
           grown == [blocks EXCEPT ![Top] = Grown]
           proj  == IF Current.projectedSize # NoProjection /\ dest = End(Grown)
                    THEN Wrap(Current.projectedSize - Grown.size) ELSE NoProjection
           next  == Explore(grown, Pop(stack), dest, proj)
<1>1. /\ InLoop /\ UNCHANGED <<code, tail, pc, size>> /\ Follow(blocks', stack')
      /\ IF dest < 0
         THEN blocks' = grown /\ stack' = Pop(stack)
         ELSE blocks' = next.bs /\ stack' = next.stk
  BY DEF ScanBranch, Scan
<1>2. Popped(grown, Pop(stack))
  BY <1>1, GrowProperties, GrownType
<1>3. dest \in Int /\ dest <= LimitEnd
  BY <1>1, ScannedWord
<1>4. proj \in Projections
  <2>1. Current.projectedSize \in Int /\ Grown.size \in Int
    BY <1>1, LoopState, GrownType, SizeAssumption DEF InLoop, BlockType, Projections, NoProjection
  <2>2. Current.projectedSize - Grown.size \in Int
    BY <2>1
  <2> QED BY <2>2, WrapType DEF Projections
<1> HIDE DEF dest, grown, proj
<1>5. Popped(blocks', stack')
  <2>1. CASE dest < 0
    BY <1>1, <1>2, <2>1
  <2>2. CASE ~(dest < 0)
    <3>1. dest \in Nat
      BY <1>3, <2>2
    <3> QED BY <1>1, <1>2, <1>3, <1>4, <2>2, <3>1, ExploreProperties
  <2> QED BY <2>1, <2>2
<1> QED BY <1>1, <1>5, PoppedStep

LEMMA ShiftedTailCallStep == IInv /\ ShiftedTailCall => IInv'
<1> SUFFICES ASSUME IInv, ShiftedTailCall PROVE IInv'
  OBVIOUS
<1>1. blocks = <<>> /\ blocks' = blocks /\ stack' = stack /\ size' = 2 /\ pc' = "done"
  BY DEF IInv, ShiftedTailCall
<1>2. TypeOK'
  BY <1>1 DEF IInv, TypeOK, ShiftedTailCall
<1> QED BY <1>1, <1>2 DEF IInv, CursorAtBlockEnd, SizeInRegion

LEMMA LeaveLoopStep == IInv /\ LeaveLoop => IInv'
<1> SUFFICES ASSUME IInv, LeaveLoop PROVE IInv'
  OBVIOUS
<1>1. pc = "scan" /\ pc' = "trim" /\ UNCHANGED <<code, tail, blocks, stack, data, size>>
  BY DEF LeaveLoop
<1>2. EntryBlock /\ blocks # <<>>
  BY <1>1 DEF IInv
<1>3. blocks[1].size # 0
  <2> SUFFICES ASSUME blocks[1].size = 0 PROVE FALSE
    OBVIOUS
  <2>1. stack = <<1>> /\ Len(blocks) = 1 /\ data = 0
    BY <1>2 DEF EntryBlock
  <2> QED BY <2>1, SizeAssumption DEF LeaveLoop
<1>4. TypeOK'
  BY <1>1 DEF IInv, TypeOK
<1>5. EntryBlock' /\ CursorAtBlockEnd' /\ SizeInRegion'
  BY <1>1, <1>3 DEF EntryBlock, CursorAtBlockEnd, SizeInRegion
<1> QED BY <1>1, <1>2, <1>4, <1>5 DEF IInv

\* The end of the entry block is among the ends the size is chosen from.
LEMMA TrimStep == IInv /\ Trim => IInv'
<1> SUFFICES ASSUME IInv, Trim PROVE IInv'
  OBVIOUS
<1> DEFINE E == {End(b) : b \in Contiguous}
           r == Words + tail
           e == blocks[1]
<1>1. pc = "trim" /\ pc' = "done" /\ UNCHANGED <<code, tail, blocks, stack, data>>
      /\ size' = Min({Max(E), r})
  BY DEF Trim
<1>2. Worklist(blocks, stack) /\ EntryBlock /\ blocks # <<>>
  BY <1>1 DEF IInv
<1>3. /\ Len(blocks) \in Nat /\ DOMAIN blocks = 1..Len(blocks) /\ Len(blocks) >= 1
      /\ \A i \in 1..Len(blocks) : blocks[i] \in BlockType
  BY <1>2, LenProperties, ElementOfSeq DEF Worklist
<1>4. e \in Found /\ e \in BlockType /\ e.base = 0 /\ e.size >= 1
  <2>1. e \in Found /\ e \in BlockType /\ e.base = 0
    BY <1>2, <1>3 DEF Found, Worklist
  <2>2. e.size # 0
    BY <1>1, <1>2 DEF EntryBlock
  <2> QED BY <2>1, <2>2 DEF BlockType
<1>5. \A b \in Found : b \in BlockType /\ End(b) \in Nat /\ End(b) <= LimitEnd
  BY <1>2, <1>3 DEF Found, Worklist, End, BlockType
<1>6. e \in Contiguous
  <2>1. \A c, d \in Found : Adjacent(c, d) => ~(d.base <= e.base)
    BY <1>4, <1>5 DEF Adjacent, BlockType
  <2> QED BY <1>4, <2>1 DEF Contiguous
<1>7. Max(E) \in E /\ \A n \in E : n <= Max(E)
  <2>1. E \subseteq Nat /\ E # {} /\ \A n \in E : n <= LimitEnd
    BY <1>5, <1>6 DEF Contiguous
  <2>2. LimitEnd \in Nat
    BY SizeAssumption DEF LimitEnd
  <2> HIDE DEF E
  <2> QED BY <2>1, <2>2, MaxNat
<1>8. Max(E) \in Nat /\ Max(E) >= 1
  <2>1. Max(E) \in Nat
    BY <1>5, <1>7 DEF Contiguous
  <2>2. End(e) \in E /\ End(e) >= 1 /\ End(e) \in Nat
    BY <1>4, <1>6 DEF End, BlockType
  <2> HIDE DEF E, e
  <2>3. End(e) <= Max(E)
    BY <1>7, <2>2
  <2> QED BY <2>1, <2>2, <2>3
<1>9. r \in Nat /\ r >= 1
  BY SizeAssumption DEF IInv, TypeOK
<1>10. size' \in 1..r
  <2> DEFINE m == Max(E)
  <2>1. m \in Nat /\ m >= 1 /\ size' = Min({m, r})
    BY <1>1, <1>8
  <2> HIDE DEF m, r
  <2> QED BY <1>9, <2>1, MinOfTwo
<1>11. TypeOK'
  BY <1>1, <1>10 DEF IInv, TypeOK
<1>12. CursorAtBlockEnd' /\ SizeInRegion'
  BY <1>1, <1>10 DEF CursorAtBlockEnd, SizeInRegion
<1> QED BY <1>1, <1>2, <1>11, <1>12 DEF IInv

LEMMA InvariantStep == IInv /\ [Next]_vars => IInv'
<1> SUFFICES ASSUME IInv, [Next]_vars PROVE IInv'
  OBVIOUS
<1>1. CASE UNCHANGED vars
  BY <1>1 DEF vars, IInv, TypeOK, EntryBlock, CursorAtBlockEnd, Current, Top, SizeInRegion
<1>2. CASE Done
  BY <1>1, <1>2 DEF Done, vars, IInv, TypeOK, EntryBlock, CursorAtBlockEnd, Current, Top, SizeInRegion
<1> QED
  BY <1>1, <1>2, ShiftedTailCallStep, EnterStep, FallthroughStep, ScanPlainStep, ScanEndStep,
     ScanConditionalReturnStep, ScanConditionalBranchStep, ScanBranchStep, LeaveLoopStep, TrimStep
  DEF Next

\* The inductive invariant holds of every behaviour.
THEOREM Invariant == Spec => []IInv
BY InvariantInit, InvariantStep, PTL DEF Spec

\* Every variable of Function::Analyze keeps its type: indices on the block
\* stack are indices of blocks, and sizes never become negative.
THEOREM TypeCorrect == Spec => []TypeOK
<1>1. IInv => TypeOK
  BY DEF IInv
<1> QED BY <1>1, Invariant, PTL

\* The assertion in the loop of Function::Analyze holds of every program.
THEOREM CursorSync == Spec => []CursorAtBlockEnd
<1>1. IInv => CursorAtBlockEnd
  BY DEF IInv
<1> QED BY <1>1, Invariant, PTL

\* No address is queued twice, so that at most one block starts at each word.
THEOREM BlockBasesDistinct == Spec => []DistinctBases
<1>1. IInv => DistinctBases
  <2> SUFFICES ASSUME IInv PROVE DistinctBases
    OBVIOUS
  <2>1. CASE blocks = <<>>
    BY <2>1 DEF DistinctBases
  <2>2. CASE Worklist(blocks, stack)
    <3>1. DOMAIN blocks = 1..Len(blocks)
      BY <2>2, LenProperties DEF Worklist
    <3> QED BY <2>2, <3>1 DEF DistinctBases, Worklist
  <2> QED BY <2>1, <2>2 DEF IInv
<1> QED BY <1>1, Invariant, PTL

\* A block that waits below the top of the stack holds no word yet.
THEOREM PendingBlocksFresh == Spec => []PendingUntouched
<1>1. IInv => PendingUntouched
  <2> SUFFICES ASSUME IInv PROVE PendingUntouched
    OBVIOUS
  <2>1. CASE blocks = <<>>
    BY <2>1 DEF IInv, PendingUntouched
  <2>2. CASE Worklist(blocks, stack)
    <3>1. DOMAIN stack = 1..Len(stack)
      BY <2>2, LenProperties DEF Worklist
    <3> QED BY <2>2, <3>1 DEF PendingUntouched, Worklist
  <2> QED BY <2>1, <2>2 DEF IInv
<1> QED BY <1>1, Invariant, PTL

\* The reported size is at least one word and stays inside the region, the
\* two words of a shifted tail call excepted.
THEOREM ReportedSizeInRegion == Spec => []SizeInRegion
<1>1. IInv => SizeInRegion
  BY DEF IInv
<1> QED BY <1>1, Invariant, PTL

----------------------------------------------------------------------------
\* What the words of a block and its projection have to do with one another. Blocks
\* overlap, and a second block scans words of the first: neither runs past a word
\* that ended the other.

Waits(stk, i) == \E k \in 1..Len(stk) : stk[k] = i

Plain(w) == code[w].op = "plain"

AfterStop(b) == b.base > 0 /\ ~Plain(b.base - 1)

Target(b) == b.base + b.projectedSize

\* Another block starts at the target of the projection, or holds it.
Meets(bs, b) ==
  \E g \in 1..Len(bs) :
    /\ b.base < bs[g].base /\ bs[g].base <= Target(b)
    /\ bs[g].base = Target(b) \/ Target(b) < End(bs[g])

\* A block is left at a word that ends it or at another block.
Finished(bs, b) ==
  IF b.size = 0
  THEN AfterStop(b)
  ELSE \/ ~Plain(End(b) - 1)
       \/ \E g \in 1..Len(bs) : b.base < bs[g].base /\ bs[g].base <= End(b)

\* Only the last word of a block may be other than plain, and no word of a block
\* that is still to be scanned.
WalkedBlock(bs, stk, i) ==
  /\ \A w \in Nat : bs[i].base <= w /\ w + 1 < End(bs[i]) => Plain(w)
  /\ Waits(stk, i) => \A w \in Nat : bs[i].base <= w /\ w < End(bs[i]) => Plain(w)
  /\ ~Waits(stk, i) => Finished(bs, bs[i])

\* A projection reaches to another block. A target before the block wraps to one
\* that is never reached, and a branch to the next instruction projects to nothing.
ProjectedBlock(bs, b) ==
  b.projectedSize # NoProjection =>
    /\ b.size <= b.projectedSize
    /\ \/ Target(b) > Words + 1
       \/ b.projectedSize = 0 /\ AfterStop(b)
       \/ Meets(bs, b)

Walked(bs, stk) == \A i \in 1..Len(bs) : WalkedBlock(bs, stk, i)

Paths(bs, stk) ==
  /\ Walked(bs, stk)
  /\ \A i \in 1..Len(bs) : Waits(stk, i) => ProjectedBlock(bs, bs[i])

PInv == IInv /\ Paths(blocks, stack)

\* The list cs and its stack ctk hold the blocks of bs, and fresh ones behind them
\* that wait.
Added(bs, stk, cs, ctk) ==
  /\ Len(bs) \in Nat /\ Len(cs) \in Nat /\ Len(bs) <= Len(cs)
  /\ \A i \in 1..Len(bs) : cs[i] = bs[i] /\ (Waits(ctk, i) <=> Waits(stk, i))
  /\ \A i \in 1..Len(cs) : i > Len(bs) => Waits(ctk, i) /\ cs[i].size = 0

LEMMA AddedTwice ==
  ASSUME NEW bs, NEW stk, NEW cs, NEW ctk, NEW ds, NEW dtk,
         Added(bs, stk, cs, ctk), Added(cs, ctk, ds, dtk)
  PROVE  Added(bs, stk, ds, dtk)
<1>1. \A i \in 1..Len(ds) : i > Len(bs) => Waits(dtk, i) /\ ds[i].size = 0
  BY DEF Added
<1> QED BY <1>1 DEF Added

\* Waiting blocks take nothing from the others, and hold nothing yet.
LEMMA WalkedAdded ==
  ASSUME NEW bs, NEW stk, NEW cs, NEW ctk, Added(bs, stk, cs, ctk), Walked(bs, stk),
         \A i \in 1..Len(cs) : cs[i].base \in Nat
  PROVE  Walked(cs, ctk)
<1> SUFFICES ASSUME NEW i \in 1..Len(cs) PROVE WalkedBlock(cs, ctk, i)
  BY DEF Walked
<1>1. CASE i > Len(bs)
  BY <1>1 DEF Added, WalkedBlock, End
<1>2. CASE ~(i > Len(bs))
  <2>1. i \in 1..Len(bs) /\ cs[i] = bs[i] /\ (Waits(ctk, i) <=> Waits(stk, i)) /\ WalkedBlock(bs, stk, i)
    BY <1>2 DEF Added, Walked
  <2>2. Finished(bs, bs[i]) => Finished(cs, cs[i])
    BY <2>1 DEF Added, Finished
  <2> QED BY <2>1, <2>2 DEF WalkedBlock
<1> QED BY <1>1, <1>2

LEMMA ProjectedAdded ==
  ASSUME NEW bs, NEW stk, NEW cs, NEW ctk, Added(bs, stk, cs, ctk),
         NEW i \in 1..Len(bs), ProjectedBlock(bs, bs[i])
  PROVE  i \in 1..Len(cs) /\ ProjectedBlock(cs, cs[i])
<1>1. i \in 1..Len(cs) /\ cs[i] = bs[i]
  BY DEF Added
<1>2. Meets(bs, bs[i]) => Meets(cs, cs[i])
  BY <1>1 DEF Added, Meets
<1> QED BY <1>1, <1>2 DEF ProjectedBlock

\* Exploring an address leaves the list as it is when the address is known, and
\* adds one waiting block otherwise.
LEMMA ExploreAdds ==
  ASSUME NEW bs, NEW stk, Popped(bs, stk),
         NEW base \in Nat, NEW projected \in Projections,
         NEW cs, cs = Explore(bs, stk, base, projected).bs,
         NEW ctk, ctk = Explore(bs, stk, base, projected).stk
  PROVE  /\ Added(bs, stk, cs, ctk)
         /\ Known(bs, base) => Len(cs) = Len(bs)
         /\ ~Known(bs, base) =>
              /\ Len(cs) = Len(bs) + 1
              /\ cs[Len(cs)] = Block(base, 0, projected)
<1>1. /\ Len(bs) \in Nat /\ Len(stk) \in Nat /\ bs \in Seq(BlockType) /\ stk \in Seq(1..Len(bs))
      /\ \A k \in 1..Len(stk) : stk[k] \in 1..Len(bs)
  BY LenProperties, ElementOfSeq DEF Popped, Worklist
<1>2. CASE Known(bs, base)
  BY <1>1, <1>2 DEF Explore, Added
<1>3. CASE ~Known(bs, base)
  <2> DEFINE b == Block(base, 0, projected)
             n == Len(bs) + 1
  <2>1. cs = Append(bs, b) /\ ctk = Append(stk, n)
    BY <1>3 DEF Explore
  <2>2. b \in BlockType /\ b.size = 0
    BY DEF Block, BlockType
  <2> HIDE DEF b
  <2>3. Len(cs) = n /\ cs[n] = b /\ \A i \in 1..Len(bs) : cs[i] = bs[i]
    BY <1>1, <2>1, <2>2, AppendProperties
  <2>4. Len(ctk) = Len(stk) + 1 /\ ctk[Len(stk) + 1] = n /\ \A k \in 1..Len(stk) : ctk[k] = stk[k]
    <3>1. stk \in Seq(Nat) /\ n \in Nat
      BY <1>1, SeqMonotonic
    <3> QED BY <2>1, <3>1, AppendProperties
  <2>5. \A i \in 1..Len(bs) : Waits(ctk, i) <=> Waits(stk, i)
    <3> TAKE i \in 1..Len(bs)
    <3>1. i # n
      BY <1>1
    <3>2. \A k \in 1..(Len(stk) + 1) : k \in 1..Len(stk) \/ k = Len(stk) + 1
      BY <1>1
    <3>3. \A k \in 1..Len(stk) : k \in 1..(Len(stk) + 1)
      BY <1>1
    <3> QED BY <2>4, <3>1, <3>2, <3>3 DEF Waits
  <2>6. Waits(ctk, n)
    BY <1>1, <2>4 DEF Waits
  <2> QED BY <1>1, <1>3, <2>2, <2>3, <2>5, <2>6 DEF Added, b
<1> QED BY <1>2, <1>3

LEMMA PopWaits ==
  ASSUME IInv, pc = "scan", stack # <<>>
  PROVE  /\ Waits(stack, Top)
         /\ \A i : Waits(Pop(stack), i) <=> Waits(stack, i) /\ i # Top
<1>1. /\ Len(Pop(stack)) = Len(stack) - 1 /\ Len(stack) \in Nat /\ Len(stack) >= 1
      /\ \A k \in 1..Len(Pop(stack)) : Pop(stack)[k] = stack[k]
  BY LoopState, PopProperties DEF Worklist
<1>2. Waits(stack, Top)
  BY <1>1 DEF Waits, Top
<1>3. ASSUME NEW i, Waits(Pop(stack), i) PROVE Waits(stack, i) /\ i # Top
  <2>1. PICK k \in 1..Len(Pop(stack)) : Pop(stack)[k] = i
    BY <1>3 DEF Waits
  <2>2. k \in 1..Len(stack) /\ stack[k] = i
    BY <1>1, <2>1
  <2>3. i < Top /\ Top \in Nat
    BY <2>1, PopWorklist, LoopState
  <2>4. i \in Nat
    BY <2>2, LoopState
  <2> QED BY <2>2, <2>3, <2>4 DEF Waits
<1>4. ASSUME NEW i, Waits(stack, i), i # Top PROVE Waits(Pop(stack), i)
  <2>1. PICK k \in 1..Len(stack) : stack[k] = i
    BY <1>4 DEF Waits
  <2>2. k # Len(stack)
    BY <1>4, <2>1 DEF Top
  <2> QED BY <1>1, <2>1, <2>2 DEF Waits
<1> QED BY <1>2, <1>3, <1>4

\* The current block takes the word under the cursor.
LEMMA WalkedGrown ==
  ASSUME PInv, InLoop, ~Covered,
         NEW g \in BlockType, g.base = Current.base, g.size = Current.size + 1,
         NEW gs, gs = [blocks EXCEPT ![Top] = g]
  PROVE  /\ Len(gs) = Len(blocks) /\ Len(blocks) \in Nat /\ Top \in 1..Len(gs) /\ gs[Top] = g
         /\ \A i \in 1..Len(gs) : gs[i].base \in Nat
         /\ \A i \in 1..Len(gs) : i # Top => gs[i] = blocks[i]
         /\ End(g) = data + 1 /\ data \in Nat
         /\ Plain(data) => Walked(gs, stack)
         /\ ~Plain(data) => Walked(gs, Pop(stack))
         /\ \A i \in 1..Len(gs) : i # Top /\ Waits(stack, i) => ProjectedBlock(gs, gs[i])
         /\ \A b \in BlockType : Meets(blocks, b) => Meets(gs, b)
<1>1. IInv /\ Paths(blocks, stack) /\ pc = "scan" /\ stack # <<>>
  BY DEF PInv, InLoop
<1>2. /\ Len(blocks) \in Nat /\ Top \in 1..Len(blocks) /\ Current = blocks[Top] /\ Current \in BlockType
      /\ data \in Nat /\ data = End(Current) /\ blocks \in Seq(BlockType)
      /\ \A i \in 1..Len(blocks) : blocks[i] \in BlockType
  BY <1>1, LoopState, ElementOfSeq DEF Worklist
<1>3. Len(gs) = Len(blocks) /\ \A j \in 1..Len(blocks) : gs[j] = IF j = Top THEN g ELSE blocks[j]
  BY <1>2, ExceptSeq
<1>4. End(g) = data + 1
  BY <1>2 DEF End, BlockType
<1>5. \A i \in 1..Len(gs) : gs[i].base = blocks[i].base /\ gs[i].base \in Nat
  BY <1>2, <1>3 DEF BlockType
<1>6. \A i \in 1..Len(gs) : End(blocks[i]) \in Nat /\ End(gs[i]) \in Nat /\ End(blocks[i]) <= End(gs[i])
  <2> TAKE i \in 1..Len(gs)
  <2>1. blocks[i].base \in Nat /\ blocks[i].size \in Nat
    BY <1>2, <1>3 DEF BlockType
  <2>2. CASE i = Top
    BY <1>2, <1>3, <1>4, <2>2
  <2>3. CASE i # Top
    BY <1>3, <2>1, <2>3 DEF End
  <2> QED BY <2>2, <2>3
<1>7. ASSUME NEW b \in BlockType, Meets(blocks, b) PROVE Meets(gs, b)
  <2>1. PICK k \in 1..Len(blocks) :
          /\ b.base < blocks[k].base /\ blocks[k].base <= Target(b)
          /\ blocks[k].base = Target(b) \/ Target(b) < End(blocks[k])
    BY <1>7 DEF Meets
  <2>2. k = Top => Target(b) < End(g) \/ g.base = Target(b)
    <3>1. CASE k = Top /\ blocks[k].base = Target(b)
      BY <1>2, <3>1
    <3>2. CASE k = Top /\ Target(b) < End(blocks[k])
      <4>1. Target(b) < data
        BY <1>2, <3>2
      <4>2. Target(b) \in Int
        BY SizeAssumption DEF Target, BlockType, Projections, NoProjection
      <4> QED BY <1>2, <1>4, <4>1, <4>2
    <3> QED BY <2>1, <3>1, <3>2
  <2>3. b.base < gs[k].base /\ gs[k].base <= Target(b)
    BY <1>3, <1>5, <2>1
  <2>4. gs[k].base = Target(b) \/ Target(b) < End(gs[k])
    BY <1>3, <2>1, <2>2
  <2> QED BY <1>3, <2>3, <2>4 DEF Meets
<1>8. \A i \in 1..Len(gs) : i # Top /\ Waits(stack, i) => ProjectedBlock(gs, gs[i])
  BY <1>1, <1>2, <1>3, <1>7 DEF Paths, ProjectedBlock
<1>9. ASSUME NEW stk, NEW i \in 1..Len(gs), i # Top, Waits(stk, i) <=> Waits(stack, i)
      PROVE  WalkedBlock(gs, stk, i)
  <2>1. gs[i] = blocks[i] /\ WalkedBlock(blocks, stack, i)
    BY <1>1, <1>3, <1>9 DEF Paths, Walked
  <2>2. Finished(blocks, blocks[i]) => Finished(gs, gs[i])
    BY <1>3, <1>5, <2>1 DEF Finished
  <2> QED BY <1>9, <2>1, <2>2 DEF WalkedBlock
<1>10. \A w \in Nat : g.base <= w /\ w < data => Plain(w)
  <2>1. Waits(stack, Top) /\ WalkedBlock(blocks, stack, Top)
    BY <1>1, <1>2, PopWaits DEF Paths, Walked
  <2> QED BY <1>2, <2>1 DEF WalkedBlock
<1>11. ASSUME Plain(data) PROVE Walked(gs, stack)
  <2>1. WalkedBlock(gs, stack, Top)
    <3>1. Waits(stack, Top) /\ gs[Top] = g
      BY <1>1, <1>2, <1>3, PopWaits
    <3>2. \A w \in Nat : g.base <= w /\ w < End(g) => Plain(w)
      BY <1>2, <1>4, <1>10, <1>11
    <3>3. \A w \in Nat : w + 1 < End(g) => w < End(g)
      BY <1>2, <1>4
    <3> QED BY <3>1, <3>2, <3>3 DEF WalkedBlock
  <2> QED BY <1>9, <2>1 DEF Walked
<1>12. ASSUME ~Plain(data) PROVE Walked(gs, Pop(stack))
  <2>1. WalkedBlock(gs, Pop(stack), Top)
    <3>1. ~Waits(Pop(stack), Top) /\ gs[Top] = g
      BY <1>1, <1>2, <1>3, PopWaits
    <3>2. \A w \in Nat : g.base <= w /\ w + 1 < End(g) => Plain(w)
      BY <1>2, <1>4, <1>10
    <3>3. Finished(gs, g)
      <4>1. g.size # 0 /\ End(g) - 1 = data
        BY <1>2, <1>4 DEF BlockType
      <4> QED BY <1>12, <4>1 DEF Finished
    <3> QED BY <3>1, <3>2, <3>3 DEF WalkedBlock
  <2> QED BY <1>1, <1>9, <2>1, PopWaits DEF Walked
<1> QED BY <1>2, <1>3, <1>4, <1>5, <1>7, <1>8, <1>11, <1>12

\* Nothing is left but waiting blocks.
LEMMA PathsAdded ==
  ASSUME NEW bs, NEW stk, NEW cs, NEW ctk, Added(bs, stk, cs, ctk), Walked(bs, stk),
         \A i \in 1..Len(bs) : Waits(stk, i) => ProjectedBlock(bs, bs[i]),
         \A i \in 1..Len(cs) : cs[i].base \in Nat,
         \A i \in 1..Len(cs) : i > Len(bs) => ProjectedBlock(cs, cs[i])
  PROVE  Paths(cs, ctk)
<1>1. Walked(cs, ctk)
  BY WalkedAdded
<1>2. ASSUME NEW i \in 1..Len(cs), Waits(ctk, i) PROVE ProjectedBlock(cs, cs[i])
  <2>1. CASE i > Len(bs)
    BY <2>1
  <2>2. CASE ~(i > Len(bs))
    <3>1. i \in 1..Len(bs) /\ Waits(stk, i)
      BY <1>2, <2>2 DEF Added
    <3> QED BY <3>1, ProjectedAdded
  <2> QED BY <2>1, <2>2
<1> QED BY <1>1, <1>2 DEF Paths

\* A target that is known when nothing starts at base, before it, is met from base.
LEMMA KnownTarget ==
  ASSUME NEW bs \in Seq(BlockType), NEW base \in Nat, NEW target \in Nat, base < target,
         ~Known(bs, base), Known(bs, target)
  PROVE  \E g \in 1..Len(bs) :
           /\ base < bs[g].base /\ bs[g].base <= target
           /\ bs[g].base = target \/ target < End(bs[g])
<1>1. DOMAIN bs = 1..Len(bs) /\ \A i \in 1..Len(bs) : bs[i] \in BlockType
  BY LenProperties, ElementOfSeq
<1>2. PICK g \in 1..Len(bs) :
        IF bs[g].size # 0 THEN bs[g].base <= target /\ target < End(bs[g]) ELSE target = bs[g].base
  BY <1>1 DEF Known
<1>3. bs[g].base \in Nat /\ bs[g].size \in Nat
  BY <1>1 DEF BlockType
<1>4. bs[g].base <= target /\ (bs[g].base = target \/ target < End(bs[g]))
  BY <1>2, <1>3
<1>5. base < bs[g].base
  <2> SUFFICES ASSUME bs[g].base <= base PROVE FALSE
    BY <1>3
  <2>1. CASE bs[g].size # 0
    <3>1. base < End(bs[g]) /\ base >= 0
      BY <1>2, <1>3, <2>1 DEF End
    <3> QED BY <1>1, <2>1, <3>1 DEF Known
  <2>2. CASE bs[g].size = 0
    BY <1>2, <1>3, <2>2
  <2> QED BY <2>1, <2>2
<1> QED BY <1>4, <1>5

\* A block that has grown to its projected size stands at another block.
LEMMA CoveredBlock ==
  ASSUME PInv, InLoop, Covered
  PROVE  /\ Current.size > 0 => data = Target(Current) /\ Meets(blocks, Current)
         /\ Finished(blocks, Current)
<1>1. IInv /\ pc = "scan" /\ stack # <<>> /\ data <= Words
  BY DEF PInv, InLoop
<1>2. /\ Top \in 1..Len(blocks) /\ Current = blocks[Top] /\ Current \in BlockType
      /\ data \in Nat /\ data = End(Current)
  BY <1>1, LoopState
<1>3. ProjectedBlock(blocks, Current)
  BY <1>1, <1>2, PopWaits DEF PInv, Paths
<1> DEFINE b == Current
<1>4. /\ b.base \in Nat /\ b.size \in Nat /\ b.projectedSize \in Int
      /\ b.projectedSize # NoProjection /\ b.size >= b.projectedSize
  BY <1>2, SizeAssumption DEF BlockType, Projections, NoProjection, Covered
<1> HIDE DEF b
<1>5. b.size = b.projectedSize
  BY <1>3, <1>4 DEF ProjectedBlock, b
<1>6. data = Target(b) /\ ~(Target(b) > Words + 1)
  BY <1>1, <1>2, <1>4, <1>5, SizeAssumption DEF Target, End, b
<1>7. \/ b.projectedSize = 0 /\ AfterStop(b)
      \/ Meets(blocks, b)
  BY <1>3, <1>4, <1>6 DEF ProjectedBlock, b
<1>8. b.size > 0 => Meets(blocks, b)
  BY <1>4, <1>5, <1>7
<1>9. Finished(blocks, b)
  <2>1. CASE b.size = 0
    <3>1. Target(b) = b.base
      BY <1>4, <1>5, <2>1 DEF Target
    <3>2. \A i \in 1..Len(blocks) : blocks[i].base \in Nat
      <4>1. \A i \in 1..Len(blocks) : blocks[i] \in BlockType
        BY <1>1, LoopState, ElementOfSeq DEF Worklist
      <4> QED BY <4>1 DEF BlockType
    <3>3. ~Meets(blocks, b)
      BY <1>4, <3>1, <3>2 DEF Meets
    <3> QED BY <1>7, <2>1, <3>3 DEF Finished
  <2>2. CASE b.size # 0
    <3>1. Meets(blocks, b)
      BY <1>4, <1>8, <2>2
    <3>2. End(b) = Target(b)
      BY <1>5 DEF End, Target
    <3> QED BY <2>2, <3>1, <3>2 DEF Finished, Meets
  <2> QED BY <2>1, <2>2
<1> QED BY <1>6, <1>8, <1>9 DEF b

LEMMA FallthroughPaths ==
  ASSUME PInv, Fallthrough
  PROVE  Paths(blocks, stack)'
<1>1. InLoop /\ Covered /\ blocks' = blocks /\ stack' = Pop(stack) /\ code' = code
  BY DEF Fallthrough
<1>2. IInv /\ Paths(blocks, stack) /\ pc = "scan" /\ stack # <<>>
  BY <1>1 DEF PInv, InLoop
<1>3. Top \in 1..Len(blocks) /\ Current = blocks[Top] /\ Finished(blocks, Current)
  BY <1>1, <1>2, LoopState, CoveredBlock
<1>4. ASSUME NEW i \in 1..Len(blocks)
      PROVE  /\ WalkedBlock(blocks, Pop(stack), i)
             /\ Waits(Pop(stack), i) => ProjectedBlock(blocks, blocks[i])
  <2>1. Waits(Pop(stack), i) <=> Waits(stack, i) /\ i # Top
    BY <1>2, PopWaits
  <2>2. WalkedBlock(blocks, stack, i) /\ (Waits(stack, i) => ProjectedBlock(blocks, blocks[i]))
    BY <1>2 DEF Paths, Walked
  <2> QED BY <1>3, <2>1, <2>2 DEF WalkedBlock
<1>5. Paths(blocks, Pop(stack))
  BY <1>4 DEF Paths, Walked
<1> QED BY <1>1, <1>5
  DEF Paths, Walked, WalkedBlock, ProjectedBlock, Plain, AfterStop, Finished, Waits, Meets, Target, End

LEMMA PathsSame ==
  ASSUME PInv, NEW bs, NEW stk, Paths(bs, stk), code' = code, blocks' = bs, stack' = stk
  PROVE  Paths(blocks, stack)'
BY DEF Paths, Walked, WalkedBlock, ProjectedBlock, Plain, AfterStop, Finished, Waits, Meets, Target, End

LEMMA EnterPaths ==
  ASSUME PInv, Enter
  PROVE  Paths(blocks, stack)'
<1> DEFINE b == Block(0, 0, NoProjection)
<1>1. blocks' = <<b>> /\ stack' = <<1>> /\ code' = code
  BY DEF Enter
<1>2. b.base = 0 /\ b.size = 0 /\ b.projectedSize = NoProjection
  BY DEF Block
<1> HIDE DEF b
<1>3. Len(<<b>>) = 1 /\ <<b>>[1] = b /\ Len(<<1>>) = 1 /\ <<1>>[1] = 1
  OBVIOUS
<1>4. Waits(<<1>>, 1)
  BY <1>3 DEF Waits
<1>5. Paths(<<b>>, <<1>>)
  BY <1>2, <1>3, <1>4 DEF Paths, Walked, WalkedBlock, ProjectedBlock, End
<1> QED BY <1>1, <1>5, PathsSame

LEMMA ScanPlainPaths ==
  ASSUME PInv, ScanPlain
  PROVE  Paths(blocks, stack)'
<1>1. /\ InLoop /\ ~Covered /\ code[data].op = "plain" /\ code' = code
      /\ blocks' = [blocks EXCEPT ![Top] = Grown] /\ stack' = stack
  BY DEF ScanPlain, Scan
<1>2. PICK gs : gs = [blocks EXCEPT ![Top] = Grown]
  OBVIOUS
<1>3. /\ Grown \in BlockType /\ Grown.base = Current.base /\ Grown.size = Current.size + 1
      /\ Grown.projectedSize = Current.projectedSize
      /\ Current \in BlockType /\ Top \in 1..Len(blocks) /\ Current = blocks[Top]
  <2>1. Current \in BlockType /\ Top \in 1..Len(blocks) /\ Current = blocks[Top]
    BY <1>1, LoopState DEF PInv, InLoop
  <2>2. Grown.projectedSize = Current.projectedSize
    BY <2>1 DEF Grown, BlockType
  <2> QED BY <1>1, <2>1, <2>2, GrownType DEF PInv
<1>4. /\ Walked(gs, stack) /\ Top \in 1..Len(gs) /\ gs[Top] = Grown
      /\ \A i \in 1..Len(gs) : i # Top /\ Waits(stack, i) => ProjectedBlock(gs, gs[i])
      /\ \A b \in BlockType : Meets(blocks, b) => Meets(gs, b)
  BY <1>1, <1>2, <1>3, WalkedGrown DEF Plain
<1>5. ProjectedBlock(gs, Grown)
  <2>1. ProjectedBlock(blocks, Current)
    BY <1>1, <1>3, PopWaits DEF PInv, Paths, InLoop
  <2>2. Target(Grown) = Target(Current)
    BY <1>3 DEF Target
  <2>3. /\ Current.size \in Nat /\ Current.projectedSize \in Int
        /\ Current.projectedSize # NoProjection => ~(Current.size >= Current.projectedSize)
    BY <1>1, <1>3, SizeAssumption DEF BlockType, Projections, NoProjection, Covered
  <2>4. Meets(blocks, Current) => Meets(gs, Grown)
    BY <1>3, <1>4, <2>2 DEF Meets
  <2>5. AfterStop(Current) => AfterStop(Grown)
    BY <1>3 DEF AfterStop
  <2> QED BY <1>3, <2>1, <2>2, <2>3, <2>4, <2>5 DEF ProjectedBlock
<1>6. Paths(gs, stack)
  BY <1>4, <1>5 DEF Paths
<1> QED BY <1>1, <1>2, <1>6, PathsSame

\* A word that ends the block: the block is left, and waiting ones may follow.
LEMMA LeftPaths ==
  ASSUME PInv, InLoop, ~Covered, ~Plain(data), code' = code,
         NEW g \in BlockType, g.base = Current.base, g.size = Current.size + 1,
         NEW gs, gs = [blocks EXCEPT ![Top] = g],
         Added(gs, Pop(stack), blocks', stack'),
         \A i \in 1..Len(blocks') : blocks'[i].base \in Nat,
         \A i \in 1..Len(blocks') : i > Len(gs) => ProjectedBlock(blocks', blocks'[i])
  PROVE  Paths(blocks, stack)'
<1>1. Walked(gs, Pop(stack)) /\ \A i \in 1..Len(gs) : i # Top /\ Waits(stack, i) => ProjectedBlock(gs, gs[i])
  BY WalkedGrown
<1>2. \A i \in 1..Len(gs) : Waits(Pop(stack), i) => ProjectedBlock(gs, gs[i])
  BY <1>1, PopWaits DEF PInv, InLoop
<1>3. PICK cs, ctk : cs = blocks' /\ ctk = stack'
  OBVIOUS
<1>4. Paths(cs, ctk)
  BY <1>1, <1>2, <1>3, PathsAdded
<1> QED BY <1>3, <1>4, PathsSame

LEMMA PoppedBlocks ==
  ASSUME NEW bs, NEW stk, Popped(bs, stk)
  PROVE  /\ Len(bs) \in Nat /\ bs \in Seq(BlockType) /\ Added(bs, stk, bs, stk)
         /\ \A i \in 1..Len(bs) : bs[i].base \in Nat
<1>1. /\ Len(bs) \in Nat /\ bs \in Seq(BlockType)
      /\ \A i \in 1..Len(bs) : bs[i] \in BlockType
  BY LenProperties, ElementOfSeq DEF Popped, Worklist
<1>2. \A i \in 1..Len(bs) : bs[i].base \in Nat
  BY <1>1 DEF BlockType
<1> QED BY <1>1, <1>2 DEF Added

LEMMA ScanEndPaths ==
  ASSUME PInv, ScanEnd
  PROVE  Paths(blocks, stack)'
<1>1. /\ InLoop /\ ~Covered /\ ~Plain(data) /\ code' = code
      /\ blocks' = [blocks EXCEPT ![Top] = Grown] /\ stack' = Pop(stack)
  BY DEF ScanEnd, Scan, Plain
<1>2. PICK gs : gs = [blocks EXCEPT ![Top] = Grown]
  OBVIOUS
<1>3. Popped(gs, Pop(stack)) /\ Grown \in BlockType /\ Grown.base = Current.base /\ Grown.size = Current.size + 1
  BY <1>1, <1>2, GrowProperties, GrownType DEF PInv
<1>4. Added(gs, Pop(stack), gs, Pop(stack)) /\ Len(gs) \in Nat /\ \A i \in 1..Len(gs) : gs[i].base \in Nat
  BY <1>3, PoppedBlocks
<1>5. /\ Added(gs, Pop(stack), blocks', stack')
      /\ \A i \in 1..Len(blocks') : blocks'[i].base \in Nat
      /\ \A i \in 1..Len(blocks') : i > Len(gs) => ProjectedBlock(blocks', blocks'[i])
  BY <1>1, <1>2, <1>4
<1> QED BY <1>1, <1>2, <1>3, <1>5, LeftPaths

\* A fresh block without a projection promises nothing.
LEMMA FreshUnprojected ==
  ASSUME NEW bs, NEW base
  PROVE  ProjectedBlock(bs, Block(base, 0, NoProjection))
BY DEF ProjectedBlock, Block

LEMMA ScanConditionalReturnPaths ==
  ASSUME PInv, ScanConditionalReturn
  PROVE  Paths(blocks, stack)'
<1>1. InLoop /\ ~Covered /\ ~Plain(data) /\ code' = code
  BY DEF ScanConditionalReturn, Scan, Plain
<1>2. PICK gs : gs = [blocks EXCEPT ![Top] = Grown]
  OBVIOUS
<1>3. /\ blocks' = Explore(gs, Pop(stack), data + 1, NoProjection).bs
      /\ stack' = Explore(gs, Pop(stack), data + 1, NoProjection).stk
  BY <1>2 DEF ScanConditionalReturn
<1>4. Popped(gs, Pop(stack)) /\ Grown \in BlockType /\ Grown.base = Current.base /\ Grown.size = Current.size + 1
  BY <1>1, <1>2, GrowProperties, GrownType DEF PInv
<1>5. data + 1 \in Nat /\ data + 1 <= LimitEnd /\ NoProjection \in Projections
  BY <1>1, ScannedWord DEF PInv, Projections
<1>6. PICK cs, ctk : cs = blocks' /\ ctk = stack'
  OBVIOUS
<1>7. Popped(cs, ctk)
  BY <1>3, <1>4, <1>5, <1>6, ExploreProperties
<1>8. /\ Added(gs, Pop(stack), cs, ctk)
      /\ Known(gs, data + 1) => Len(cs) = Len(gs)
      /\ ~Known(gs, data + 1) => Len(cs) = Len(gs) + 1 /\ cs[Len(cs)] = Block(data + 1, 0, NoProjection)
  BY <1>3, <1>4, <1>5, <1>6, ExploreAdds
<1>9. Len(gs) \in Nat /\ \A i \in 1..Len(cs) : cs[i].base \in Nat
  BY <1>4, <1>7, PoppedBlocks
<1>10. ASSUME NEW i \in 1..Len(cs), i > Len(gs) PROVE ProjectedBlock(cs, cs[i])
  <2>1. cs[i] = Block(data + 1, 0, NoProjection)
    BY <1>8, <1>9, <1>10
  <2> QED BY <2>1, FreshUnprojected
<1> QED BY <1>1, <1>2, <1>4, <1>6, <1>8, <1>9, <1>10, LeftPaths

LEMMA WrapValue ==
  ASSUME NEW n \in Int
  PROVE  /\ 0 <= n /\ n < Modulus => Wrap(n) = n
         /\ n < 0 /\ 0 <= n + Modulus => Wrap(n) = n + Modulus
BY SizeAssumption DEF Wrap

\* The false case of a conditional branch is projected to reach up to the true
\* case, which is met there once it is explored.
LEMMA FalseCase ==
  ASSUME NEW bs, NEW stk, Popped(bs, stk), NEW base \in Nat, NEW dest \in Nat,
         base >= 1, ~Plain(base - 1), base <= Words + 1, Words + 1 < Modulus + dest,
         dest < Modulus, base <= Modulus,
         NEW L, L = Block(base, 0, Wrap(dest - base)),
         dest > base => \E g \in 1..Len(bs) :
                          /\ base < bs[g].base /\ bs[g].base <= dest
                          /\ bs[g].base = dest \/ dest < End(bs[g])
  PROVE  ProjectedBlock(bs, L)
<1>1. L.base = base /\ L.size = 0 /\ L.projectedSize = Wrap(dest - base)
  BY DEF Block
<1>2. CASE dest < base
  <2>1. Wrap(dest - base) = dest - base + Modulus
    BY <1>2, WrapValue, SizeAssumption
  <2> QED BY <1>1, <2>1, SizeAssumption DEF ProjectedBlock, Target
<1>3. CASE dest = base
  <2>1. Wrap(dest - base) = 0
    BY <1>3, WrapValue, SizeAssumption
  <2> QED BY <1>1, <2>1 DEF ProjectedBlock, AfterStop
<1>4. CASE dest > base
  <2>1. Wrap(dest - base) = dest - base
    BY <1>4, WrapValue, SizeAssumption
  <2>2. Target(L) = dest
    BY <1>1, <2>1 DEF Target
  <2> QED BY <1>1, <1>4, <2>1, <2>2 DEF ProjectedBlock, Meets
<1> QED BY <1>2, <1>3, <1>4

\* The bounds of a conditional branch to a word of the region.
LEMMA BranchBounds ==
  ASSUME PInv, InLoop, NEW dest, dest = code[data].t, dest >= 0
  PROVE  /\ dest \in Nat /\ dest < Modulus /\ Words + 1 < Modulus + dest
         /\ data \in Nat /\ data + 1 \in Nat /\ data + 1 >= 1 /\ data + 1 <= Words + 1 /\ data + 1 <= Modulus
         /\ (data + 1) - 1 = data
<1>1. data \in 0..Words
  BY SizeAssumption DEF PInv, IInv, TypeOK, InLoop
<1>2. code[data] \in Insns
  BY <1>1 DEF PInv, IInv, TypeOK
<1>3. code[data] \in [op : Ops, t : {i \in Int : -Modulus < 2 * i /\ 2 * (i + Words) < Modulus}]
  BY <1>2, InsnAssumption
<1>4. dest \in Int /\ 2 * (dest + Words) < Modulus
  BY <1>3
<1> QED BY <1>1, <1>4, SizeAssumption

LEMMA ScanConditionalBranchPaths ==
  ASSUME PInv, ScanConditionalBranch
  PROVE  Paths(blocks, stack)'
<1>1. InLoop /\ ~Covered /\ ~Plain(data) /\ code' = code /\ IInv
  BY DEF ScanConditionalBranch, Scan, Plain, PInv
<1>2. PICK h : h = [Grown EXCEPT !.projectedSize = NoProjection]
  OBVIOUS
<1>3. PICK gs : gs = [blocks EXCEPT ![Top] = h]
  OBVIOUS
<1>4. PICK dest : dest = code[data].t
  OBVIOUS
<1>5. PICK inside \in BOOLEAN : inside <=> dest >= 0 /\ dest < Words + tail
  OBVIOUS
<1>6. PICK base : base = data + 1
  OBVIOUS
<1>7. PICK proj : proj = IF inside THEN Wrap(dest - base) ELSE NoProjection
  OBVIOUS
<1>8. PICK cs, ctk : cs = Explore(gs, Pop(stack), base, proj).bs /\ ctk = Explore(gs, Pop(stack), base, proj).stk
  OBVIOUS
<1>9. PICK ds, dtk : ds = blocks' /\ dtk = stack'
  OBVIOUS
<1>10. IF inside
       THEN /\ ds = Explore(cs, ctk, dest, NoProjection).bs
            /\ dtk = Explore(cs, ctk, dest, NoProjection).stk
       ELSE ds = cs /\ dtk = ctk
  <2>1. CASE inside
    BY <1>2, <1>3, <1>4, <1>5, <1>6, <1>7, <1>8, <1>9, <2>1 DEF ScanConditionalBranch
  <2>2. CASE ~inside
    BY <1>2, <1>3, <1>4, <1>5, <1>6, <1>7, <1>8, <1>9, <2>2 DEF ScanConditionalBranch
  <2> QED BY <2>1, <2>2
<1>11. Popped(gs, Pop(stack)) /\ h \in BlockType /\ h.base = Current.base /\ h.size = Current.size + 1
  BY <1>1, <1>2, <1>3, GrowProperties, GrownType
<1>12. dest \in Int /\ dest <= LimitEnd /\ base \in Nat /\ base <= LimitEnd /\ NoProjection \in Projections
  BY <1>1, <1>4, <1>6, ScannedWord DEF Projections
<1>13. proj \in Projections
  BY <1>7, <1>12, WrapType
<1>14. Popped(cs, ctk)
  BY <1>8, <1>11, <1>12, <1>13, ExploreProperties
<1>15. /\ Added(gs, Pop(stack), cs, ctk)
       /\ Known(gs, base) => Len(cs) = Len(gs)
       /\ ~Known(gs, base) => Len(cs) = Len(gs) + 1 /\ cs[Len(cs)] = Block(base, 0, proj)
  BY <1>8, <1>11, <1>12, <1>13, ExploreAdds
<1>16. /\ Popped(ds, dtk) /\ Added(cs, ctk, ds, dtk)
       /\ \A i \in 1..Len(ds) : i > Len(cs) => inside /\ ds[i] = Block(dest, 0, NoProjection)
       /\ inside => Known(cs, dest) \/ \E i \in 1..Len(ds) : ds[i].base = dest
  <2>1. CASE inside
    <3>1. dest \in Nat
      BY <1>5, <1>12, <2>1
    <3>2. Popped(ds, dtk)
      BY <1>10, <1>12, <1>14, <2>1, <3>1, ExploreProperties
    <3>3. /\ Added(cs, ctk, ds, dtk)
          /\ Known(cs, dest) => Len(ds) = Len(cs)
          /\ ~Known(cs, dest) => Len(ds) = Len(cs) + 1 /\ ds[Len(ds)] = Block(dest, 0, NoProjection)
      BY <1>10, <1>12, <1>14, <2>1, <3>1, ExploreAdds
    <3>4. Len(cs) \in Nat /\ Len(ds) \in Nat
      BY <1>14, <3>2, PoppedBlocks
    <3>5. Block(dest, 0, NoProjection).base = dest
      BY DEF Block
    <3> QED BY <2>1, <3>2, <3>3, <3>4, <3>5
  <2>2. CASE ~inside
    BY <1>10, <1>14, <2>2, PoppedBlocks
  <2> QED BY <2>1, <2>2
<1>17. /\ Len(gs) \in Nat /\ Len(cs) \in Nat /\ Len(ds) \in Nat /\ gs \in Seq(BlockType)
       /\ \A i \in 1..Len(ds) : ds[i].base \in Nat
  BY <1>11, <1>14, <1>16, PoppedBlocks
<1>18. ASSUME NEW i \in 1..Len(ds), i > Len(gs) PROVE ProjectedBlock(ds, ds[i])
  <2>1. CASE i > Len(cs)
    BY <1>16, <2>1, FreshUnprojected
  <2>2. CASE ~(i > Len(cs))
    <3>1. ~Known(gs, base) /\ Len(cs) = Len(gs) + 1 /\ i = Len(cs) /\ ds[i] = Block(base, 0, proj)
      BY <1>15, <1>16, <1>17, <1>18, <2>2 DEF Added
    <3>2. CASE ~inside
      BY <1>7, <3>1, <3>2, FreshUnprojected
    <3>3. CASE inside
      <4>1. /\ dest \in Nat /\ dest < Modulus /\ Words + 1 < Modulus + dest
            /\ base >= 1 /\ base <= Words + 1 /\ base <= Modulus /\ ~Plain(base - 1)
        BY <1>1, <1>4, <1>5, <1>6, <3>3, BranchBounds
      <4>2. ASSUME dest > base
            PROVE  \E g \in 1..Len(ds) :
                     /\ base < ds[g].base /\ ds[g].base <= dest
                     /\ ds[g].base = dest \/ dest < End(ds[g])
        <5>1. CASE \E k \in 1..Len(ds) : ds[k].base = dest
          BY <1>12, <4>1, <4>2, <5>1
        <5>2. CASE Known(cs, dest)
          <6>1. Known(gs, dest)
            <7>1. DOMAIN cs = 1..Len(cs) /\ DOMAIN gs = 1..Len(gs)
              BY <1>11, <1>14, LenProperties DEF Popped, Worklist
            <7>2. PICK k \in 1..Len(cs) :
                    IF cs[k].size # 0 THEN cs[k].base <= dest /\ dest < End(cs[k]) ELSE dest = cs[k].base
              BY <5>2, <7>1 DEF Known
            <7>3. k # Len(cs)
              <8>1. cs[Len(cs)].base = base /\ cs[Len(cs)].size = 0
                BY <1>15, <3>1 DEF Block
              <8> QED BY <1>12, <4>1, <4>2, <7>2, <8>1
            <7>4. k \in 1..Len(gs) /\ cs[k] = gs[k]
              BY <1>15, <1>17, <3>1, <7>3 DEF Added
            <7> QED BY <4>1, <7>1, <7>2, <7>4 DEF Known
          <6>2. PICK g \in 1..Len(gs) :
                  /\ base < gs[g].base /\ gs[g].base <= dest
                  /\ gs[g].base = dest \/ dest < End(gs[g])
            BY <1>12, <1>17, <3>1, <4>1, <4>2, <6>1, KnownTarget
          <6>3. g \in 1..Len(ds) /\ ds[g] = gs[g]
            BY <1>15, <1>16, <1>17 DEF Added
          <6> QED BY <6>2, <6>3
        <5> QED BY <1>16, <3>3, <5>1, <5>2
      <4>3. ds[i] = Block(base, 0, Wrap(dest - base))
        BY <1>7, <3>1, <3>3
      <4> QED BY <1>12, <1>16, <4>1, <4>2, <4>3, FalseCase
    <3> QED BY <3>2, <3>3
  <2> QED BY <2>1, <2>2
<1>19. Added(gs, Pop(stack), ds, dtk)
  BY <1>15, <1>16, AddedTwice
<1> QED BY <1>1, <1>3, <1>9, <1>11, <1>17, <1>18, <1>19, LeftPaths

\* A branch to the next word carries the rest of the projection over: its target is
\* the same, and what is met there lies behind the new block, or would hold it.
LEMMA CarriedOver ==
  ASSUME PInv, InLoop, ~Covered, Current.projectedSize # NoProjection,
         NEW gs, gs = [blocks EXCEPT ![Top] = Grown],
         NEW base, base = data + 1, ~Known(gs, base),
         NEW L, L = Block(base, 0, Wrap(Current.projectedSize - Grown.size)),
         NEW cs, Len(cs) \in Nat, Len(gs) <= Len(cs), \A i \in 1..Len(gs) : cs[i] = gs[i]
  PROVE  ProjectedBlock(cs, L)
<1> DEFINE b == Current
           rest == b.projectedSize - (b.size + 1)
<1>1. /\ b \in BlockType /\ Top \in 1..Len(blocks) /\ b = blocks[Top] /\ ProjectedBlock(blocks, b)
      /\ data \in Nat /\ data = End(b)
  BY LoopState, PopWaits DEF PInv, InLoop, Paths
<1>2. /\ b.base \in Nat /\ b.size \in Nat /\ b.projectedSize \in 0..(Modulus - 1)
      /\ ~(b.size >= b.projectedSize)
  BY <1>1 DEF BlockType, Projections, Covered
<1>3. Grown \in BlockType /\ Grown.base = b.base /\ Grown.size = b.size + 1
  BY GrownType DEF PInv
<1> HIDE DEF b
<1>4. rest \in 0..(Modulus - 1) /\ Wrap(rest) = rest
  <2>1. rest \in Int /\ 0 <= rest /\ rest < Modulus
    BY <1>2, SizeAssumption
  <2> HIDE DEF rest
  <2> QED BY <2>1, WrapValue, SizeAssumption
<1>5. L.base = base /\ L.size = 0 /\ L.projectedSize = rest
  BY <1>3, <1>4 DEF Block, b
<1>6. Target(L) = Target(b) /\ base \in Nat /\ base <= Target(b)
  <2>1. data = b.base + b.size
    BY <1>1 DEF End
  <2>2. b.projectedSize \in Int /\ b.size < b.projectedSize
    BY <1>2, SizeAssumption
  <2>3. Target(L) = base + rest /\ Target(b) = b.base + b.projectedSize
    BY <1>5 DEF Target
  <2> QED BY ONLY <1>2, <2>1, <2>2, <2>3, base = data + 1
<1>7. CASE Target(b) > Words + 1
  BY <1>4, <1>5, <1>6, <1>7 DEF ProjectedBlock
<1>8. CASE Meets(blocks, b)
  <2>1. /\ Meets(gs, b) /\ gs \in Seq(BlockType) /\ Len(gs) \in Nat
    <3>1. Meets(gs, b) /\ Len(gs) \in Nat
      BY <1>1, <1>3, <1>8, WalkedGrown DEF b
    <3>2. Popped(gs, Pop(stack))
      BY <1>3, GrowProperties DEF PInv, b
    <3> QED BY <3>1, <3>2, PoppedBlocks
  <2>2. PICK g \in 1..Len(gs) :
          /\ b.base < gs[g].base /\ gs[g].base <= Target(b)
          /\ gs[g].base = Target(b) \/ Target(b) < End(gs[g])
    BY <2>1 DEF Meets
  <2>3. gs[g].base \in Nat /\ gs[g].size \in Nat /\ DOMAIN gs = 1..Len(gs) /\ Target(b) \in Nat
    <3>1. gs[g] \in BlockType /\ DOMAIN gs = 1..Len(gs)
      BY <2>1, LenProperties, ElementOfSeq
    <3> QED BY <1>2, <3>1 DEF BlockType, Target
  <2>4. base < gs[g].base
    <3> SUFFICES ASSUME gs[g].base <= base PROVE FALSE
      BY <1>6, <2>3
    <3>1. CASE gs[g].size # 0
      <4>1. base < End(gs[g])
        <5>1. CASE Target(b) < End(gs[g])
          BY <1>6, <2>3, <5>1 DEF End
        <5>2. CASE gs[g].base = Target(b)
          BY <1>6, <2>3, <3>1, <5>2 DEF End
        <5> QED BY <2>2, <5>1, <5>2
      <4> QED BY <1>6, <2>3, <3>1, <4>1 DEF Known
    <3>2. CASE gs[g].size = 0
      <4>1. gs[g].base = Target(b)
        BY <2>2, <2>3, <3>2 DEF End
      <4>2. gs[g].base = base
        BY <1>6, <2>3, <4>1
      <4> QED BY <1>6, <2>3, <3>2, <4>2 DEF Known
    <3> QED BY <3>1, <3>2
  <2>5. g \in 1..Len(cs) /\ cs[g] = gs[g]
    BY <2>1
  <2>6. Meets(cs, L)
    BY <1>5, <1>6, <2>2, <2>4, <2>5 DEF Meets
  <2> QED BY <1>4, <1>5, <2>6 DEF ProjectedBlock
<1> QED BY <1>1, <1>2, <1>7, <1>8 DEF ProjectedBlock, b

LEMMA ScanBranchPaths ==
  ASSUME PInv, ScanBranch
  PROVE  Paths(blocks, stack)'
<1>1. InLoop /\ ~Covered /\ ~Plain(data) /\ code' = code /\ IInv
  BY DEF ScanBranch, Scan, Plain, PInv
<1>2. PICK gs : gs = [blocks EXCEPT ![Top] = Grown]
  OBVIOUS
<1>3. PICK dest : dest = code[data].t
  OBVIOUS
<1>4. PICK continues \in BOOLEAN : continues <=> Current.projectedSize # NoProjection /\ dest = End(Grown)
  OBVIOUS
<1>5. PICK proj : proj = IF continues THEN Wrap(Current.projectedSize - Grown.size) ELSE NoProjection
  OBVIOUS
<1>6. PICK ds, dtk : ds = blocks' /\ dtk = stack'
  OBVIOUS
<1>7. IF dest < 0
      THEN ds = gs /\ dtk = Pop(stack)
      ELSE ds = Explore(gs, Pop(stack), dest, proj).bs /\ dtk = Explore(gs, Pop(stack), dest, proj).stk
  <2>1. CASE continues
    BY <1>2, <1>3, <1>4, <1>5, <1>6, <2>1 DEF ScanBranch
  <2>2. CASE ~continues
    BY <1>2, <1>3, <1>4, <1>5, <1>6, <2>2 DEF ScanBranch
  <2> QED BY <2>1, <2>2
<1>8. Popped(gs, Pop(stack)) /\ Grown \in BlockType /\ Grown.base = Current.base /\ Grown.size = Current.size + 1
  BY <1>1, <1>2, GrowProperties, GrownType
<1>9. dest \in Int /\ dest <= LimitEnd
  BY <1>1, <1>3, ScannedWord
<1>10. Len(gs) \in Nat /\ Added(gs, Pop(stack), gs, Pop(stack)) /\ \A i \in 1..Len(gs) : gs[i].base \in Nat
  BY <1>8, PoppedBlocks
<1>11. CASE dest < 0
  <2>1. \A i \in 1..Len(ds) : i > Len(gs) => ProjectedBlock(ds, ds[i])
    BY <1>7, <1>10, <1>11
  <2> QED BY <1>1, <1>2, <1>6, <1>7, <1>8, <1>10, <1>11, <2>1, LeftPaths
<1>12. CASE ~(dest < 0)
  <2>1. dest \in Nat
    BY <1>9, <1>12
  <2>2. proj \in Projections
    <3>1. Current.projectedSize \in Int /\ Grown.size \in Int
      BY <1>1, LoopState, GrownType, SizeAssumption DEF InLoop, BlockType, Projections, NoProjection
    <3>2. Current.projectedSize - Grown.size \in Int
      BY <3>1
    <3> QED BY <1>5, <3>2, WrapType DEF Projections
  <2>3. Popped(ds, dtk)
    BY <1>7, <1>8, <1>9, <1>12, <2>1, <2>2, ExploreProperties
  <2>4. /\ Added(gs, Pop(stack), ds, dtk)
        /\ Known(gs, dest) => Len(ds) = Len(gs)
        /\ ~Known(gs, dest) => Len(ds) = Len(gs) + 1 /\ ds[Len(ds)] = Block(dest, 0, proj)
    BY <1>7, <1>8, <1>12, <2>1, <2>2, ExploreAdds
  <2>5. Len(ds) \in Nat /\ \A i \in 1..Len(ds) : ds[i].base \in Nat
    BY <2>3, PoppedBlocks
  <2>6. ASSUME NEW i \in 1..Len(ds), i > Len(gs) PROVE ProjectedBlock(ds, ds[i])
    <3>1. ~Known(gs, dest) /\ ds[i] = Block(dest, 0, proj)
      BY <1>10, <2>4, <2>5, <2>6
    <3>2. CASE ~continues
      BY <1>5, <3>1, <3>2, FreshUnprojected
    <3>3. CASE continues
      <4>1. Current.projectedSize # NoProjection /\ dest = End(Grown)
        BY <1>4, <3>3
      <4>2. dest = data + 1
        BY <1>1, <1>2, <1>8, <4>1, WalkedGrown
      <4>3. Len(gs) <= Len(ds) /\ \A k \in 1..Len(gs) : ds[k] = gs[k]
        BY <2>4 DEF Added
      <4> QED BY <1>1, <1>2, <1>5, <2>5, <3>1, <3>3, <4>1, <4>2, <4>3, CarriedOver
    <3> QED BY <3>2, <3>3
  <2> QED BY <1>1, <1>2, <1>6, <1>8, <2>4, <2>5, <2>6, LeftPaths
<1> QED BY <1>11, <1>12

LEMMA PathsInit == Init => PInv
<1> SUFFICES ASSUME Init PROVE PInv
  OBVIOUS
<1>1. blocks = <<>> /\ Len(<<>>) = 0
  BY DEF Init
<1> QED BY <1>1, InvariantInit DEF PInv, Paths, Walked

LEMMA PathsStep == PInv /\ [Next]_vars => PInv'
<1> SUFFICES ASSUME PInv, [Next]_vars PROVE PInv'
  OBVIOUS
<1>1. IInv'
  BY InvariantStep DEF PInv
<1>2. Paths(blocks, stack)'
  <2>1. ASSUME UNCHANGED <<code, blocks, stack>> PROVE Paths(blocks, stack)'
    <3>1. PICK bs, stk : bs = blocks /\ stk = stack
      OBVIOUS
    <3>2. Paths(bs, stk)
      BY <3>1 DEF PInv
    <3> QED BY <2>1, <3>1, <3>2, PathsSame
  <2>2. CASE ShiftedTailCall \/ LeaveLoop \/ Trim \/ Done \/ UNCHANGED vars
    BY <2>1, <2>2 DEF ShiftedTailCall, LeaveLoop, Trim, Done, vars
  <2> QED BY <2>2, EnterPaths, FallthroughPaths, ScanPlainPaths, ScanEndPaths, ScanConditionalReturnPaths,
             ScanConditionalBranchPaths, ScanBranchPaths DEF Next
<1> QED BY <1>1, <1>2 DEF PInv

\* The inductive invariant of the paths: how the blocks left behind ended, and what
\* the projections of those that wait lead to.
THEOREM PathInvariant == Spec => []PInv
BY PathsInit, PathsStep, PTL DEF Spec

\* A block that scans across the words of another is stopped where the other was, or
\* the other was left at a block inside the gap.
LEMMA PathsLeaveGaps == PInv => GapsAreReal
<1> SUFFICES ASSUME PInv, pc = "trim", stack = <<>>, NEW c \in Found, NEW d \in Found,
                    Adjacent(c, d), End(c) < d.base, NEW e \in Found, e.base <= c.base,
                    ~(End(e) < d.base)
             PROVE  FALSE
  BY DEF GapsAreReal
<1>1. Worklist(blocks, stack) /\ Walked(blocks, stack)
  BY DEF PInv, IInv, Paths
<1>2. /\ Len(blocks) \in Nat /\ DOMAIN blocks = 1..Len(blocks)
      /\ \A i \in 1..Len(blocks) : blocks[i].base \in Nat /\ blocks[i].size \in Nat
  <2>1. DOMAIN blocks = 1..Len(blocks) /\ Len(blocks) \in Nat /\ \A i \in 1..Len(blocks) : blocks[i] \in BlockType
    BY <1>1, LenProperties, ElementOfSeq DEF Worklist
  <2> QED BY <2>1 DEF BlockType
<1>3. PICK i \in 1..Len(blocks) : blocks[i] = c
  BY <1>2 DEF Found
<1>4. PICK k \in 1..Len(blocks) : blocks[k] = e
  BY <1>2 DEF Found
<1>5. d.base \in Nat
  BY <1>2 DEF Found
<1>6. c.base \in Nat /\ c.size \in Nat /\ e.base \in Nat /\ e.size \in Nat
  BY <1>2, <1>3, <1>4
<1>7. End(c) < End(e) /\ End(c) \in Nat /\ End(e) \in Nat
  BY <1>5, <1>6 DEF End
<1>8. e.base < c.base
  <2>1. i = k => c = e
    BY <1>3, <1>4
  <2>2. c.base = e.base => i = k
    BY <1>1, <1>3, <1>4 DEF Worklist
  <2> QED BY <1>6, <1>7, <2>1, <2>2
<1>9. \A w \in Nat : e.base <= w /\ w + 1 < End(e) => Plain(w)
  BY <1>1, <1>4 DEF Walked, WalkedBlock
<1>10. Finished(blocks, c)
  <2>1. Len(stack) = 0
    OBVIOUS
  <2>2. ~Waits(stack, i)
    BY <2>1 DEF Waits
  <2> QED BY <1>1, <1>3, <2>2 DEF Walked, WalkedBlock
<1>11. CASE c.size = 0
  <2>1. ~Plain(c.base - 1)
    BY <1>10, <1>11 DEF Finished, AfterStop
  <2>2. End(c) = c.base /\ c.base - 1 \in Nat /\ e.base <= c.base - 1 /\ (c.base - 1) + 1 < End(e)
    BY <1>6, <1>7, <1>8, <1>11 DEF End
  <2> QED BY <1>9, <2>1, <2>2
<1>12. CASE c.size # 0
  <2>1. CASE ~Plain(End(c) - 1)
    <3>1. End(c) - 1 \in Nat /\ e.base <= End(c) - 1 /\ (End(c) - 1) + 1 < End(e)
      BY <1>6, <1>7, <1>8, <1>12 DEF End
    <3> QED BY <1>9, <2>1, <3>1
  <2>2. CASE \E g \in 1..Len(blocks) : c.base < blocks[g].base /\ blocks[g].base <= End(c)
    <3>1. PICK g \in 1..Len(blocks) : c.base < blocks[g].base /\ blocks[g].base <= End(c)
      BY <2>2
    <3>2. blocks[g] \in Found /\ blocks[g].base < d.base
      <4>1. blocks[g] \in Found
        BY <1>2 DEF Found
      <4>2. blocks[g].base \in Nat
        BY <1>2
      <4> QED BY <1>5, <1>7, <3>1, <4>1, <4>2
    <3> QED BY <3>1, <3>2 DEF Adjacent
  <2> QED BY <1>10, <1>12, <2>1, <2>2 DEF Finished
<1> QED BY <1>11, <1>12

\* A gap between two neighbours of the sorted list is covered by no earlier block,
\* on every program: a block that scans across the words of another is stopped
\* where the other was, or the other was left at a block inside the gap.
THEOREM RealGaps == Spec => []GapsAreReal
BY PathsLeaveGaps, PathInvariant, PTL

\* A block that has grown to its projected size runs into another block, on every
\* program: the branch that made the projection explored the target, and no wrapped
\* difference is ever grown to.
THEOREM ProjectionsMeet == Spec => []GrownFallthroughContinues
<1>1. PInv => GrownFallthroughContinues
  <2> SUFFICES ASSUME PInv, InLoop, Covered, Current.size > 0 PROVE RunsIntoAnother
    BY DEF GrownFallthroughContinues
  <2>1. data = Target(Current) /\ Meets(blocks, Current)
    BY CoveredBlock
  <2>2. PICK g \in 1..Len(blocks) :
          /\ Current.base < blocks[g].base /\ blocks[g].base <= data
          /\ blocks[g].base = data \/ data < End(blocks[g])
    BY <2>1 DEF Meets
  <2>3. /\ Len(blocks) \in Nat /\ DOMAIN blocks = 1..Len(blocks) /\ Current = blocks[Top] /\ data \in Nat
        /\ blocks[g].base \in Nat /\ Current.base \in Nat
    <3>1. /\ Len(blocks) \in Nat /\ DOMAIN blocks = 1..Len(blocks) /\ Current = blocks[Top] /\ data \in Nat
          /\ Current \in BlockType /\ blocks[g] \in BlockType
      BY LoopState, ElementOfSeq DEF PInv, InLoop, Worklist
    <3> QED BY <3>1 DEF BlockType
  <2>4. g \in DOMAIN blocks \ {Top}
    BY <2>2, <2>3
  <2>5. blocks[g].base = data \/ (blocks[g].base < data /\ data < End(blocks[g]))
    BY <2>2, <2>3
  <2> QED BY <2>4, <2>5 DEF RunsIntoAnother
<1> QED BY <1>1, PathInvariant, PTL

----------------------------------------------------------------------------
(***************************************************************************)
(* Function::Analyze implements FunctionExtent, for every program: what    *)
(* the worklist has walked is reachable from the base, what it leaves      *)
(* behind on regular code it has explored, and the pass over adjacent      *)
(* blocks cuts the list where the run of reachable words ends.             *)
(***************************************************************************)

\* The words control can reach from the base, whether the code among them determines
\* the extent, and where control goes from each word of the region.
Reached == Extent!Reachable

RegularCode == Extent!Regular(Extent!Reachable)

Onward == [w \in 0..Words |-> Extent!Successors(w)]

\* A block holds word a, or is to start there.
Explored(bs, a) ==
  \E i \in 1..Len(bs) : bs[i].base = a \/ (bs[i].base <= a /\ a < End(bs[i]))

\* Every word that was scanned is among the reachable words R, and so is the word a
\* waiting block goes on with, unless control runs out of the region.
Visits(bs, stk, R, regular) ==
  \A i \in 1..Len(bs) :
    /\ \A w \in Nat : bs[i].base <= w /\ w < End(bs[i]) => w \in R
    /\ Waits(stk, i) => End(bs[i]) \in R \/ (~regular /\ End(bs[i]) > Words)

\* Block i was left with all its ways onward explored, or will yet be scanned.
LeavesBlock(bs, stk, s, i) ==
  /\ Waits(stk, i) => bs[i].projectedSize # 0
  /\ ~Waits(stk, i) => bs[i].size > 0 /\ \A j \in s[End(bs[i]) - 1] : Explored(bs, j)

Leaves(bs, stk, s) == \A i \in 1..Len(bs) : LeavesBlock(bs, stk, s, i)

\* Only regular code has all its ways onward explored: elsewhere they leave the region.
Extents(bs, stk, R, regular, s) ==
  Visits(bs, stk, R, regular) /\ (regular => Leaves(bs, stk, s))

\* Every word before the reported size is reachable.
ReachedReported == pc = "done" => blocks = <<>> \/ 0..(size - 1) \subseteq Reached

\* On regular code the loop ends with nothing left to scan, unless the limit on the
\* number of blocks is below what the region can hold.
EInv ==
  /\ PInv
  /\ pc \in {"scan", "trim"} => ~Extent!ShiftedTailCall
  /\ Extents(blocks, stack, Reached, RegularCode, Onward)
  /\ pc = "trim" /\ RegularCode /\ Words <= MaxBlocks => stack = <<>>
  /\ ReachedReported

----------------------------------------------------------------------------

\* The reachable words are the least closed set.
LEMMA ReachedProperties ==
  ASSUME TypeOK
  PROVE  /\ Reached \subseteq 0..Words
         /\ 0 \in Reached
         /\ \A i \in Reached : \A j \in Extent!Successors(i) : j \in 0..Words => j \in Reached
         /\ \A S \in SUBSET (0..Words) : Extent!Closed(S) => Reached \subseteq S
<1>1. Reached \subseteq 0..Words /\ \A S \in SUBSET (0..Words) : Extent!Closed(S) => Reached \subseteq S
  BY DEF Reached, Extent!Reachable
<1>2. 0 \in Reached
  BY SizeAssumption DEF Reached, Extent!Reachable, Extent!Closed
<1>3. ASSUME NEW i \in Reached, NEW j \in Extent!Successors(i), j \in 0..Words
      PROVE  j \in Reached
  <2> SUFFICES ASSUME NEW S \in SUBSET (0..Words), Extent!Closed(S) PROVE j \in S
    BY <1>3 DEF Reached, Extent!Reachable
  <2>1. i \in S \cap 0..Words
    BY <1>1
  <2> QED BY <1>3, <2>1 DEF Extent!Closed
<1> QED BY <1>1, <1>2, <1>3

\* Where control goes from a word, by what the word does.
LEMMA SuccessorsOf ==
  ASSUME NEW i
  PROVE  /\ code[i].op \in {"plain", "condret"} => Extent!Successors(i) = {i + 1}
         /\ code[i].op = "end" => Extent!Successors(i) = {}
         /\ code[i].op = "b" => Extent!Successors(i) = {code[i].t} \cap Nat
         /\ code[i].op = "bc" =>
              Extent!Successors(i) = {i + 1} \cup ({code[i].t} \cap 0..((Words + tail) - 1))
<1>1. CASE code[i].op = "plain" \/ code[i].op = "condret"
  BY <1>1 DEF Extent!Successors
<1>2. CASE code[i].op = "b"
  BY <1>2 DEF Extent!Successors
<1>3. CASE code[i].op = "bc"
  BY <1>3 DEF Extent!Successors, Extent!RegionWords
<1>4. CASE code[i].op = "end"
  BY <1>4 DEF Extent!Successors
<1> QED BY <1>1, <1>2, <1>3, <1>4

\* On regular code, control stays among the reachable words of the region.
LEMMA RegularReached ==
  ASSUME TypeOK, RegularCode
  PROVE  /\ Reached \subseteq 0..(Words - 1)
         /\ \A i \in Reached : Extent!Successors(i) \subseteq Reached
         /\ \A i \in Reached : ~(code[i].op = "bc" /\ code[i].t = i + 1)
<1>1. \A i \in Reached :
        /\ Extent!Successors(i) \subseteq 0..(Words - 1)
        /\ ~(code[i].op = "bc" /\ code[i].t = i + 1)
  BY DEF RegularCode, Reached, Extent!Regular
<1>2. 0..(Words - 1) \subseteq 0..Words /\ 0 \in 0..(Words - 1)
  BY SizeAssumption
<1>3. \A i \in Reached : Extent!Successors(i) \subseteq Reached
  BY <1>1, <1>2, ReachedProperties
<1>4. Extent!Closed(Reached \cap 0..(Words - 1))
  BY <1>1, <1>2, <1>3, ReachedProperties DEF Extent!Closed
<1>5. Reached \subseteq Reached \cap 0..(Words - 1)
  BY <1>4, ReachedProperties
<1> QED BY <1>1, <1>3, <1>5

\* No step changes the program.
LEMMA ReachedSame ==
  ASSUME code' = code, tail' = tail
  PROVE  /\ Reached' = Reached
         /\ RegularCode' <=> RegularCode
         /\ Onward' = Onward
         /\ Extent!ShiftedTailCall' <=> Extent!ShiftedTailCall
<1>1. \A i : Extent!Successors(i)' = Extent!Successors(i)
  BY DEF Extent!Successors, Extent!RegionWords
<1>2. \A S : Extent!Closed(S)' <=> Extent!Closed(S)
  BY <1>1 DEF Extent!Closed
<1>3. Extent!Reachable' = Extent!Reachable
  BY <1>2 DEF Extent!Reachable
<1>4. Onward' = Onward
  BY <1>1 DEF Onward
<1>5. RegularCode' <=> RegularCode
  BY <1>1, <1>3 DEF RegularCode, Extent!Regular
<1>6. Extent!ShiftedTailCall' <=> Extent!ShiftedTailCall
  BY DEF Extent!ShiftedTailCall
<1> QED BY <1>3, <1>4, <1>5, <1>6 DEF Reached

----------------------------------------------------------------------------

\* A block stays where it is and holds what it held.
LEMMA ExploredKept ==
  ASSUME NEW bs, NEW cs, Len(bs) \in Nat, Len(cs) \in Nat, Len(bs) <= Len(cs),
         \A i \in 1..Len(bs) : cs[i].base = bs[i].base /\ (\A w \in Nat : w < End(bs[i]) => w < End(cs[i])),
         NEW a \in Nat, Explored(bs, a)
  PROVE  Explored(cs, a)
<1>1. PICK i \in 1..Len(bs) : bs[i].base = a \/ (bs[i].base <= a /\ a < End(bs[i]))
  BY DEF Explored
<1>2. i \in 1..Len(cs) /\ cs[i].base = bs[i].base /\ (a < End(bs[i]) => a < End(cs[i]))
  OBVIOUS
<1> QED BY <1>1, <1>2 DEF Explored

\* A known address is explored, and after Explore every address is.
LEMMA KnownExplored ==
  ASSUME NEW bs \in Seq(BlockType), NEW a, Known(bs, a)
  PROVE  Explored(bs, a)
<1>1. Len(bs) \in Nat /\ DOMAIN bs = 1..Len(bs)
  BY LenProperties
<1> QED BY <1>1 DEF Known, Explored

LEMMA ExploreExplores ==
  ASSUME NEW bs, NEW stk, Popped(bs, stk),
         NEW base \in Nat, NEW projected \in Projections,
         NEW cs, cs = Explore(bs, stk, base, projected).bs,
         NEW ctk, ctk = Explore(bs, stk, base, projected).stk
  PROVE  Explored(cs, base)
<1>1. /\ Added(bs, stk, cs, ctk)
      /\ ~Known(bs, base) => Len(cs) = Len(bs) + 1 /\ cs[Len(cs)] = Block(base, 0, projected)
  BY ExploreAdds
<1>2. CASE Known(bs, base)
  BY <1>2, KnownExplored DEF Explore, Popped, Worklist
<1>3. CASE ~Known(bs, base)
  BY <1>1, <1>3 DEF Added, Explored, Block
<1> QED BY <1>2, <1>3

\* What is scanned is reachable, and so is what it leads to.
LEMMA ScannedReached ==
  ASSUME EInv, InLoop
  PROVE  /\ data \in Reached /\ data \in 0..Words
         /\ Onward[data] = Extent!Successors(data)
         /\ \A j \in Onward[data] :
              j \in Nat => j \in Reached \/ (~RegularCode /\ j > Words)
         /\ RegularCode => Onward[data] \subseteq 0..(Words - 1)
         /\ RegularCode => ~(code[data].op = "bc" /\ code[data].t = data + 1)
<1>1. TypeOK /\ IInv /\ PInv
  BY DEF EInv, PInv, IInv
<1>2. data \in 0..Words
  BY <1>1, SizeAssumption DEF TypeOK, InLoop
<1>3. data \in Reached
  <2>1. Top \in 1..Len(blocks) /\ Waits(stack, Top) /\ data = End(blocks[Top])
    BY <1>1, LoopState, PopWaits DEF InLoop
  <2>2. End(blocks[Top]) \in Reached \/ End(blocks[Top]) > Words
    BY <2>1 DEF EInv, Extents, Visits
  <2> QED BY <1>2, <2>1, <2>2, SizeAssumption
<1>4. Onward[data] = Extent!Successors(data)
  BY <1>2 DEF Onward
<1>5. ASSUME NEW j \in Onward[data], j \in Nat, ~(j > Words) PROVE j \in Reached
  <2>1. j \in 0..Words
    BY <1>5, SizeAssumption
  <2> QED BY <1>1, <1>3, <1>4, <2>1, ReachedProperties
<1>6. RegularCode => Onward[data] \subseteq Reached /\ Reached \subseteq 0..(Words - 1)
  BY <1>1, <1>3, <1>4, RegularReached
<1>7. RegularCode => ~(code[data].op = "bc" /\ code[data].t = data + 1)
  BY <1>1, <1>3, RegularReached
<1> QED BY <1>2, <1>3, <1>4, <1>5, <1>6, <1>7

\* The current block takes the word under the cursor.
LEMMA VisitsGrown ==
  ASSUME EInv, InLoop, ~Covered,
         NEW g \in BlockType, g.base = Current.base, g.size = Current.size + 1,
         NEW gs, gs = [blocks EXCEPT ![Top] = g]
  PROVE  /\ Visits(gs, Pop(stack), Reached, RegularCode)
         /\ data + 1 \in Reached \/ (~RegularCode /\ data + 1 > Words)
              => Visits(gs, stack, Reached, RegularCode)
<1>1. PInv /\ IInv /\ pc = "scan" /\ stack # <<>>
  BY DEF EInv, PInv, InLoop
<1>2. /\ Len(gs) = Len(blocks) /\ Len(blocks) \in Nat /\ Top \in 1..Len(gs) /\ gs[Top] = g
      /\ \A i \in 1..Len(gs) : i # Top => gs[i] = blocks[i]
      /\ End(g) = data + 1 /\ data \in Nat
  BY <1>1, WalkedGrown
<1>3. Waits(stack, Top) /\ \A i : Waits(Pop(stack), i) <=> Waits(stack, i) /\ i # Top
  BY <1>1, PopWaits
<1>4. data = End(Current) /\ Current = blocks[Top]
  BY <1>1, LoopState
<1>5. ASSUME NEW w \in Nat, g.base <= w, w < End(g) PROVE w \in Reached
  <2>1. CASE w = data
    BY <2>1, ScannedReached
  <2>2. CASE w # data
    <3>1. blocks[Top].base <= w /\ w < End(blocks[Top])
      BY <1>2, <1>4, <1>5, <2>2
    <3> QED BY <1>2, <3>1 DEF EInv, Extents, Visits
  <2> QED BY <2>1, <2>2
<1>6. ASSUME NEW i \in 1..Len(gs), i # Top
      PROVE  /\ \A w \in Nat : gs[i].base <= w /\ w < End(gs[i]) => w \in Reached
             /\ Waits(stack, i) => End(gs[i]) \in Reached \/ (~RegularCode /\ End(gs[i]) > Words)
  BY <1>2, <1>6 DEF EInv, Extents, Visits
<1> QED BY <1>2, <1>3, <1>5, <1>6 DEF Visits

\* Fresh blocks are to start at words that were found reachable.
LEMMA VisitsAdded ==
  ASSUME NEW bs, NEW stk, NEW cs, NEW ctk, Added(bs, stk, cs, ctk),
         NEW R, NEW regular, Visits(bs, stk, R, regular),
         \A i \in 1..Len(cs) : i > Len(bs) =>
           /\ cs[i].base \in Nat
           /\ cs[i].base \in R \/ (~regular /\ cs[i].base > Words)
  PROVE  Visits(cs, ctk, R, regular)
<1> SUFFICES ASSUME NEW i \in 1..Len(cs)
             PROVE  /\ \A w \in Nat : cs[i].base <= w /\ w < End(cs[i]) => w \in R
                    /\ Waits(ctk, i) => End(cs[i]) \in R \/ (~regular /\ End(cs[i]) > Words)
  BY DEF Visits
<1>1. CASE i > Len(bs)
  <2>1. End(cs[i]) = cs[i].base
    BY <1>1 DEF Added, End
  <2> QED BY <1>1, <2>1
<1>2. CASE ~(i > Len(bs))
  BY <1>2 DEF Added, Visits
<1> QED BY <1>1, <1>2

\* The last word of a block that holds one is reachable.
LEMMA LastWord ==
  ASSUME EInv, NEW i \in 1..Len(blocks), blocks[i].size > 0
  PROVE  /\ blocks[i] \in BlockType
         /\ End(blocks[i]) - 1 \in Nat /\ End(blocks[i]) \in Nat
         /\ End(blocks[i]) - 1 \in Reached
         /\ Onward[End(blocks[i]) - 1] = Extent!Successors(End(blocks[i]) - 1)
         /\ RegularCode => Onward[End(blocks[i]) - 1] \subseteq Reached
<1>1. TypeOK /\ Len(blocks) \in Nat /\ blocks \in Seq(BlockType)
  BY LenProperties DEF EInv, PInv, IInv, TypeOK
<1>2. blocks[i] \in BlockType
  BY <1>1, ElementOfSeq
<1>3. /\ End(blocks[i]) - 1 \in Nat /\ End(blocks[i]) \in Nat
      /\ blocks[i].base <= End(blocks[i]) - 1 /\ End(blocks[i]) - 1 < End(blocks[i])
  BY <1>2 DEF BlockType, End
<1>4. End(blocks[i]) - 1 \in Reached
  BY <1>3 DEF EInv, Extents, Visits
<1>5. Reached \subseteq 0..Words
  BY <1>1, ReachedProperties
<1>6. Onward[End(blocks[i]) - 1] = Extent!Successors(End(blocks[i]) - 1)
  BY <1>4, <1>5 DEF Onward
<1>7. RegularCode => Onward[End(blocks[i]) - 1] \subseteq Reached
  BY <1>1, <1>4, <1>6, RegularReached
<1> QED BY <1>2, <1>3, <1>4, <1>6, <1>7

\* The block on top is left behind at the word under the cursor, and fresh blocks
\* are made where that word leads.
LEMMA LeftExtents ==
  ASSUME EInv, InLoop, ~Covered,
         NEW g \in BlockType, g.base = Current.base, g.size = Current.size + 1,
         NEW gs, gs = [blocks EXCEPT ![Top] = g],
         NEW ds, NEW dtk, Added(gs, Pop(stack), ds, dtk),
         \A i \in 1..Len(ds) : i > Len(gs) => ds[i].base \in Nat /\ ds[i].base \in Onward[data],
         RegularCode => \A i \in 1..Len(ds) : i > Len(gs) => ds[i].projectedSize # 0,
         RegularCode => \A j \in Onward[data] : Explored(ds, j)
  PROVE  Extents(ds, dtk, Reached, RegularCode, Onward)
<1>1. PInv /\ IInv /\ pc = "scan" /\ stack # <<>>
  BY DEF EInv, PInv, InLoop
<1>2. /\ Len(gs) = Len(blocks) /\ Len(blocks) \in Nat /\ Top \in 1..Len(gs) /\ gs[Top] = g
      /\ \A i \in 1..Len(gs) : i # Top => gs[i] = blocks[i]
      /\ End(g) = data + 1 /\ data \in Nat
  BY <1>1, WalkedGrown
<1>3. \A i : Waits(Pop(stack), i) <=> Waits(stack, i) /\ i # Top
  BY <1>1, PopWaits
<1>4. data = End(Current) /\ Current = blocks[Top] /\ Current \in BlockType
  BY <1>1, LoopState
<1>5. Visits(ds, dtk, Reached, RegularCode)
  <2>1. Visits(gs, Pop(stack), Reached, RegularCode)
    BY VisitsGrown
  <2>2. \A i \in 1..Len(ds) : i > Len(gs) =>
           /\ ds[i].base \in Nat
           /\ ds[i].base \in Reached \/ (~RegularCode /\ ds[i].base > Words)
    BY ScannedReached
  <2> QED BY ONLY <2>1, <2>2, VisitsAdded, Added(gs, Pop(stack), ds, dtk)
<1>6. ASSUME RegularCode, NEW i \in 1..Len(ds)
      PROVE  LeavesBlock(ds, dtk, Onward, i)
  <2>1. CASE i > Len(gs)
    BY <1>6, <2>1 DEF Added, LeavesBlock
  <2>2. CASE ~(i > Len(gs))
    <3>1. i \in 1..Len(gs) /\ ds[i] = gs[i] /\ (Waits(dtk, i) <=> Waits(Pop(stack), i))
      BY <1>2, <2>2 DEF Added
    <3>2. CASE i = Top
      <4>1. ~Waits(dtk, i) /\ ds[i] = g /\ End(ds[i]) - 1 = data /\ g.size > 0
        <5>1. g.size > 0
          BY <1>4 DEF BlockType
        <5>2. ~Waits(dtk, i)
          BY <1>3, <3>1, <3>2
        <5>3. ds[i] = g /\ End(g) - 1 = data
          BY <1>2, <3>1, <3>2
        <5> QED BY <5>1, <5>2, <5>3
      <4> QED BY <1>6, <4>1 DEF LeavesBlock
    <3>3. CASE i # Top
      <4>1. i \in 1..Len(blocks) /\ ds[i] = blocks[i] /\ (Waits(dtk, i) <=> Waits(stack, i))
        BY <1>2, <1>3, <3>1, <3>3
      <4>2. LeavesBlock(blocks, stack, Onward, i)
        BY <1>6, <4>1 DEF EInv, Extents, Leaves
      <4>3. ASSUME ~Waits(stack, i), NEW j \in Onward[End(blocks[i]) - 1] PROVE Explored(ds, j)
        <5>1. Explored(blocks, j)
          BY <4>2, <4>3 DEF LeavesBlock
        <5>2. PICK k \in 1..Len(blocks) :
                blocks[k].base = j \/ (blocks[k].base <= j /\ j < End(blocks[k]))
          BY <5>1 DEF Explored
        <5>3. k \in 1..Len(ds) /\ ds[k] = gs[k]
          BY <1>2, <5>2 DEF Added
        <5>4. CASE k # Top
          BY <1>2, <5>2, <5>3, <5>4 DEF Explored
        <5>5. CASE k = Top
          <6>1. ds[k].base = blocks[k].base /\ End(ds[k]) = End(blocks[k]) + 1 /\ End(blocks[k]) \in Nat
            BY <1>2, <1>4, <5>3, <5>5
          <6>2. j \in Int
            <7>1. blocks[i].size > 0 /\ TypeOK
              BY <1>1, <4>1, <4>2, <4>3 DEF LeavesBlock, IInv
            <7>2. Onward[End(blocks[i]) - 1] \subseteq Reached /\ Reached \subseteq 0..(Words - 1)
              BY <1>6, <4>1, <7>1, LastWord, RegularReached
            <7>3. j \in Reached
              BY <4>3, <7>2, Zenon
            <7> QED BY <7>2, <7>3, SizeAssumption
          <6> QED BY <5>2, <5>3, <6>1, <6>2 DEF Explored
        <5> QED BY <5>4, <5>5
      <4> QED BY <4>1, <4>2, <4>3 DEF LeavesBlock
    <3> QED BY <3>2, <3>3
  <2> QED BY <2>1, <2>2
<1> QED BY <1>5, <1>6 DEF Extents, Leaves

\* The block on top is left behind, and the one word it leads to is explored.
LEMMA LeftForOne ==
  ASSUME EInv, InLoop, ~Covered,
         NEW gs, gs = [blocks EXCEPT ![Top] = Grown],
         NEW a \in Nat, a <= LimitEnd, Onward[data] = {a},
         NEW projected \in Projections, RegularCode /\ ~Known(gs, a) => projected # 0,
         NEW ds, ds = Explore(gs, Pop(stack), a, projected).bs,
         NEW dtk, dtk = Explore(gs, Pop(stack), a, projected).stk
  PROVE  Extents(ds, dtk, Reached, RegularCode, Onward)
<1>1. IInv
  BY DEF EInv, PInv
<1>2. Popped(gs, Pop(stack)) /\ Grown \in BlockType /\ Grown.base = Current.base /\ Grown.size = Current.size + 1
  BY <1>1, GrowProperties, GrownType
<1>3. /\ Added(gs, Pop(stack), ds, dtk)
      /\ Known(gs, a) => Len(ds) = Len(gs)
      /\ ~Known(gs, a) => Len(ds) = Len(gs) + 1 /\ ds[Len(ds)] = Block(a, 0, projected)
  <2>1. /\ a \in Nat /\ projected \in Projections
        /\ ds = Explore(gs, Pop(stack), a, projected).bs
        /\ dtk = Explore(gs, Pop(stack), a, projected).stk
    OBVIOUS
  <2> QED BY ONLY <1>2, <2>1, ExploreAdds
<1>4. Explored(ds, a)
  BY <1>2, ExploreExplores
<1>5. Popped(ds, dtk) /\ Len(gs) \in Nat /\ Len(ds) \in Nat
  BY <1>2, ExploreProperties, PoppedBlocks
<1>6. ASSUME NEW i \in 1..Len(ds), i > Len(gs)
      PROVE  /\ ds[i].base \in Nat /\ ds[i].base \in Onward[data]
             /\ RegularCode => ds[i].projectedSize # 0
  BY <1>3, <1>5, <1>6 DEF Block
<1>7. \A j \in Onward[data] : Explored(ds, j)
  BY <1>4
<1> QED BY <1>2, <1>3, <1>6, <1>7, LeftExtents

LEMMA EnterExtents ==
  ASSUME EInv, Enter
  PROVE  Extents(blocks', stack', Reached, RegularCode, Onward)
<1> DEFINE b == Block(0, 0, NoProjection)
<1>1. blocks' = <<b>> /\ stack' = <<1>>
  BY DEF Enter
<1>2. b.base = 0 /\ b.size = 0 /\ b.projectedSize # 0 /\ End(b) = 0
  BY DEF Block, NoProjection, End
<1> HIDE DEF b
<1>3. Len(<<b>>) = 1 /\ <<b>>[1] = b /\ Len(<<1>>) = 1 /\ <<1>>[1] = 1
  OBVIOUS
<1>4. Waits(<<1>>, 1)
  BY <1>3 DEF Waits
<1>5. 0 \in Reached
  BY ReachedProperties DEF EInv, PInv, IInv
<1>6. Visits(<<b>>, <<1>>, Reached, RegularCode)
  BY <1>2, <1>3, <1>5 DEF Visits
<1>7. Leaves(<<b>>, <<1>>, Onward)
  BY <1>2, <1>3, <1>4 DEF Leaves, LeavesBlock
<1> QED BY <1>1, <1>6, <1>7 DEF Extents

\* A block that has grown to its projected size is left behind at another block.
LEMMA FallthroughExtents ==
  ASSUME EInv, Fallthrough
  PROVE  Extents(blocks', stack', Reached, RegularCode, Onward)
<1>1. InLoop /\ Covered /\ blocks' = blocks /\ stack' = Pop(stack)
  BY DEF Fallthrough
<1>2. PInv /\ IInv /\ pc = "scan" /\ stack # <<>>
  BY <1>1 DEF EInv, PInv, InLoop
<1>3. /\ Top \in 1..Len(blocks) /\ Current = blocks[Top] /\ Current \in BlockType
      /\ data = End(Current) /\ data \in Nat
  BY <1>2, LoopState
<1>4. Waits(stack, Top) /\ \A i : Waits(Pop(stack), i) <=> Waits(stack, i) /\ i # Top
  BY <1>2, PopWaits
<1>5. Visits(blocks, Pop(stack), Reached, RegularCode)
  BY <1>4 DEF EInv, Extents, Visits
<1>6. ASSUME RegularCode, NEW i \in 1..Len(blocks)
      PROVE  LeavesBlock(blocks, Pop(stack), Onward, i)
  <2>1. LeavesBlock(blocks, stack, Onward, i)
    BY <1>6 DEF EInv, Extents, Leaves
  <2>2. CASE i # Top
    BY <1>4, <2>1, <2>2 DEF LeavesBlock
  <2>3. CASE i = Top
    <3>1. Current.projectedSize # 0
      BY <1>3, <1>4, <2>1, <2>3 DEF LeavesBlock
    <3>2. Current.size > 0
      <4>1. Current.size \in Nat /\ Current.projectedSize \in 0..(Modulus - 1) /\ Current.size >= Current.projectedSize
        BY <1>1, <1>3 DEF Covered, BlockType, Projections
      <4> QED BY <3>1, <4>1, SizeAssumption
    <3>3. data = Target(Current) /\ Meets(blocks, Current)
      BY <1>1, <1>2, <3>2, CoveredBlock
    <3>4. Explored(blocks, data)
      BY <3>3 DEF Meets, Explored
    <3>5. Onward[data - 1] = {data}
      <4>1. data - 1 \in Nat /\ Current.base <= data - 1 /\ data - 1 < data
        BY <1>3, <3>2 DEF BlockType, End
      <4>2. Plain(data - 1)
        BY <1>2, <1>3, <1>4, <4>1 DEF PInv, Paths, Walked, WalkedBlock
      <4>3. Onward[data - 1] = Extent!Successors(data - 1)
        BY <1>3, <3>2, LastWord
      <4> QED BY <4>1, <4>2, <4>3, <1>3, SuccessorsOf DEF Plain
    <3>6. ~Waits(Pop(stack), i) /\ blocks[i].size > 0 /\ End(blocks[i]) - 1 = data - 1
      BY <1>3, <1>4, <2>3, <3>2
    <3> QED BY <3>4, <3>5, <3>6 DEF LeavesBlock
  <2> QED BY <2>2, <2>3
<1> QED BY <1>1, <1>5, <1>6 DEF Extents, Leaves

LEMMA ScanPlainExtents ==
  ASSUME EInv, ScanPlain
  PROVE  Extents(blocks', stack', Reached, RegularCode, Onward)
<1>1. /\ InLoop /\ ~Covered /\ code[data].op = "plain"
      /\ blocks' = [blocks EXCEPT ![Top] = Grown] /\ stack' = stack
  BY DEF ScanPlain, Scan
<1>2. PInv /\ IInv /\ pc = "scan" /\ stack # <<>>
  BY <1>1 DEF EInv, PInv, InLoop
<1>3. PICK gs : gs = [blocks EXCEPT ![Top] = Grown]
  OBVIOUS
<1>4. /\ Grown \in BlockType /\ Grown.base = Current.base /\ Grown.size = Current.size + 1
      /\ Grown.projectedSize = Current.projectedSize
      /\ Current \in BlockType /\ Top \in 1..Len(blocks) /\ Current = blocks[Top]
  <2>1. Current \in BlockType /\ Top \in 1..Len(blocks) /\ Current = blocks[Top]
    BY <1>2, LoopState
  <2>2. Grown.projectedSize = Current.projectedSize
    BY <2>1 DEF Grown, BlockType
  <2> QED BY <1>1, <1>2, <2>1, <2>2, GrownType
<1>5. /\ Len(gs) = Len(blocks) /\ Len(blocks) \in Nat /\ Top \in 1..Len(gs) /\ gs[Top] = Grown
      /\ \A i \in 1..Len(gs) : i # Top => gs[i] = blocks[i]
      /\ End(Grown) = data + 1 /\ data \in Nat
  BY <1>1, <1>2, <1>3, <1>4, WalkedGrown
<1>6. data = End(Current) /\ Waits(stack, Top)
  BY <1>2, LoopState, PopWaits
<1>7. data + 1 \in Reached \/ (~RegularCode /\ data + 1 > Words)
  BY <1>1, <1>5, ScannedReached, SuccessorsOf
<1>8. Visits(gs, stack, Reached, RegularCode)
  BY <1>1, <1>3, <1>4, <1>7, VisitsGrown
<1>9. ASSUME RegularCode, NEW i \in 1..Len(gs)
      PROVE  LeavesBlock(gs, stack, Onward, i)
  <2>1. LeavesBlock(blocks, stack, Onward, i) /\ i \in 1..Len(blocks)
    BY <1>5, <1>9 DEF EInv, Extents, Leaves
  <2>2. CASE i = Top
    BY <1>4, <1>5, <1>6, <2>1, <2>2 DEF LeavesBlock
  <2>3. CASE i # Top
    <3>1. gs[i] = blocks[i]
      BY <1>5, <2>3
    <3>2. ASSUME ~Waits(stack, i), NEW j \in Onward[End(blocks[i]) - 1] PROVE Explored(gs, j)
      <4>1. Explored(blocks, j) /\ blocks[i].size > 0
        BY <2>1, <3>2 DEF LeavesBlock
      <4>2. j \in Nat
        <5>1. Onward[End(blocks[i]) - 1] \subseteq Reached /\ Reached \subseteq 0..Words
          BY <1>2, <1>9, <2>1, <4>1, LastWord, ReachedProperties DEF IInv
        <5>2. j \in Reached
          BY <3>2, <5>1, Zenon
        <5> QED BY <5>1, <5>2, SizeAssumption
      <4>3. End(blocks[Top]) = data /\ End(gs[Top]) = data + 1 /\ gs[Top].base = blocks[Top].base
        BY <1>4, <1>5, <1>6
      <4>4. \A k \in 1..Len(blocks) :
              gs[k].base = blocks[k].base /\ (\A w \in Nat : w < End(blocks[k]) => w < End(gs[k]))
        <5> TAKE k \in 1..Len(blocks)
        <5>1. CASE k = Top
          BY <1>5, <4>3, <5>1
        <5>2. CASE k # Top
          BY <1>5, <5>2
        <5> QED BY <5>1, <5>2
      <4> QED BY <1>5, <4>1, <4>2, <4>4, ExploredKept
    <3> QED BY <2>1, <3>1, <3>2 DEF LeavesBlock
  <2> QED BY <2>2, <2>3
<1> QED BY <1>1, <1>3, <1>8, <1>9 DEF Extents, Leaves

LEMMA ScanEndExtents ==
  ASSUME EInv, ScanEnd
  PROVE  Extents(blocks', stack', Reached, RegularCode, Onward)
<1>1. /\ InLoop /\ ~Covered /\ code[data].op = "end"
      /\ blocks' = [blocks EXCEPT ![Top] = Grown] /\ stack' = Pop(stack)
  BY DEF ScanEnd, Scan
<1>2. PICK gs : gs = [blocks EXCEPT ![Top] = Grown]
  OBVIOUS
<1>3. Popped(gs, Pop(stack)) /\ Grown \in BlockType /\ Grown.base = Current.base /\ Grown.size = Current.size + 1
  BY <1>1, <1>2, GrowProperties, GrownType DEF EInv, PInv
<1>4. Added(gs, Pop(stack), gs, Pop(stack)) /\ Len(gs) \in Nat
  BY <1>3, PoppedBlocks
<1>5. Onward[data] = {}
  BY <1>1, ScannedReached, SuccessorsOf
<1>6. \A i \in 1..Len(gs) : ~(i > Len(gs))
  BY <1>4
<1>7. Extents(gs, Pop(stack), Reached, RegularCode, Onward)
  BY <1>1, <1>2, <1>3, <1>4, <1>5, <1>6, LeftExtents
<1> QED BY <1>1, <1>2, <1>7

LEMMA ScanConditionalReturnExtents ==
  ASSUME EInv, ScanConditionalReturn
  PROVE  Extents(blocks', stack', Reached, RegularCode, Onward)
<1>1. InLoop /\ ~Covered /\ code[data].op = "condret"
  BY DEF ScanConditionalReturn, Scan
<1>2. PICK gs : gs = [blocks EXCEPT ![Top] = Grown]
  OBVIOUS
<1>3. /\ blocks' = Explore(gs, Pop(stack), data + 1, NoProjection).bs
      /\ stack' = Explore(gs, Pop(stack), data + 1, NoProjection).stk
  BY <1>2 DEF ScanConditionalReturn
<1>4. /\ data + 1 \in Nat /\ data + 1 <= LimitEnd
      /\ NoProjection \in Projections /\ NoProjection # 0
  BY <1>1, ScannedWord DEF EInv, PInv, Projections, NoProjection
<1>5. Onward[data] = {data + 1}
  BY <1>1, ScannedReached, SuccessorsOf
<1>6. PICK ds, dtk : ds = blocks' /\ dtk = stack'
  OBVIOUS
<1>7. Extents(ds, dtk, Reached, RegularCode, Onward)
  BY <1>1, <1>2, <1>3, <1>4, <1>5, <1>6, LeftForOne
<1> QED BY <1>6, <1>7

\* A branch that is not to the next word leaves a projection to be grown to.
LEMMA FalseCaseProjected ==
  ASSUME PInv, InLoop, code[data].t >= 0, code[data].t # data + 1
  PROVE  Wrap(code[data].t - (data + 1)) # 0
<1>1. PICK dest, base : dest = code[data].t /\ base = data + 1
  OBVIOUS
<1>2. /\ dest \in Nat /\ dest < Modulus /\ Words + 1 < Modulus + dest
      /\ base \in Nat /\ base <= Words + 1
  BY <1>1, BranchBounds
<1>3. PICK d \in Int : d = dest - base
  BY <1>2
<1>4. d # 0 /\ d < Modulus /\ 0 < d + Modulus
  BY <1>1, <1>2, <1>3, SizeAssumption
<1>5. Wrap(d) = d \/ Wrap(d) = d + Modulus
  BY <1>4, WrapValue, SizeAssumption
<1> QED BY <1>1, <1>3, <1>4, <1>5, SizeAssumption

LEMMA ScanConditionalBranchExtents ==
  ASSUME EInv, ScanConditionalBranch
  PROVE  Extents(blocks', stack', Reached, RegularCode, Onward)
<1>1. InLoop /\ ~Covered /\ code[data].op = "bc" /\ PInv /\ IInv
  BY DEF ScanConditionalBranch, Scan, EInv, PInv
<1>2. PICK h : h = [Grown EXCEPT !.projectedSize = NoProjection]
  OBVIOUS
<1>3. PICK gs : gs = [blocks EXCEPT ![Top] = h]
  OBVIOUS
<1>4. PICK dest : dest = code[data].t
  OBVIOUS
<1>5. PICK inside \in BOOLEAN : inside <=> dest >= 0 /\ dest < Words + tail
  OBVIOUS
<1>6. PICK base : base = data + 1
  OBVIOUS
<1>7. PICK proj : proj = IF inside THEN Wrap(dest - base) ELSE NoProjection
  OBVIOUS
<1>8. PICK cs, ctk : cs = Explore(gs, Pop(stack), base, proj).bs /\ ctk = Explore(gs, Pop(stack), base, proj).stk
  OBVIOUS
<1>9. PICK ds, dtk : ds = blocks' /\ dtk = stack'
  OBVIOUS
<1>10. IF inside
       THEN /\ ds = Explore(cs, ctk, dest, NoProjection).bs
            /\ dtk = Explore(cs, ctk, dest, NoProjection).stk
       ELSE ds = cs /\ dtk = ctk
  <2>1. CASE inside
    BY <1>2, <1>3, <1>4, <1>5, <1>6, <1>7, <1>8, <1>9, <2>1 DEF ScanConditionalBranch
  <2>2. CASE ~inside
    BY <1>2, <1>3, <1>4, <1>5, <1>6, <1>7, <1>8, <1>9, <2>2 DEF ScanConditionalBranch
  <2> QED BY <2>1, <2>2
<1>11. Popped(gs, Pop(stack)) /\ h \in BlockType /\ h.base = Current.base /\ h.size = Current.size + 1
  BY <1>1, <1>2, <1>3, GrowProperties, GrownType
<1>12. /\ dest \in Int /\ dest <= LimitEnd /\ base \in Nat /\ base <= LimitEnd
       /\ NoProjection \in Projections /\ NoProjection # 0
  BY <1>1, <1>4, <1>6, ScannedWord DEF Projections, NoProjection
<1>13. proj \in Projections
  BY <1>7, <1>12, WrapType
<1>14. /\ Popped(cs, ctk) /\ Added(gs, Pop(stack), cs, ctk) /\ Explored(cs, base)
       /\ Known(gs, base) => Len(cs) = Len(gs)
       /\ ~Known(gs, base) => Len(cs) = Len(gs) + 1 /\ cs[Len(cs)] = Block(base, 0, proj)
  BY <1>8, <1>11, <1>12, <1>13, ExploreProperties, ExploreAdds, ExploreExplores
<1>15. /\ Popped(ds, dtk) /\ Added(cs, ctk, ds, dtk)
       /\ \A i \in 1..Len(ds) : i > Len(cs) => inside /\ ds[i] = Block(dest, 0, NoProjection)
       /\ inside => Explored(ds, dest)
  <2>1. CASE inside
    <3>1. dest \in Nat
      BY <1>5, <1>12, <2>1
    <3>2. Popped(ds, dtk) /\ Explored(ds, dest)
      BY <1>10, <1>12, <1>14, <2>1, <3>1, ExploreProperties, ExploreExplores
    <3>3. /\ Added(cs, ctk, ds, dtk)
          /\ Known(cs, dest) => Len(ds) = Len(cs)
          /\ ~Known(cs, dest) => Len(ds) = Len(cs) + 1 /\ ds[Len(ds)] = Block(dest, 0, NoProjection)
      BY <1>10, <1>12, <1>14, <2>1, <3>1, ExploreAdds
    <3>4. Len(cs) \in Nat /\ Len(ds) \in Nat
      BY <1>14, <3>2, PoppedBlocks
    <3> QED BY <2>1, <3>2, <3>3, <3>4
  <2>2. CASE ~inside
    BY <1>10, <1>14, <2>2, PoppedBlocks
  <2> QED BY <2>1, <2>2
<1>16. Len(gs) \in Nat /\ Len(cs) \in Nat /\ Len(ds) \in Nat
  BY <1>11, <1>14, <1>15, PoppedBlocks
<1>17. Onward[data] = {base} \cup ({dest} \cap 0..((Words + tail) - 1))
  BY <1>1, <1>4, <1>6, ScannedReached, SuccessorsOf
<1>18. inside => dest \in Nat /\ dest \in Onward[data]
  BY <1>1, <1>5, <1>12, <1>17, SizeAssumption DEF IInv, TypeOK
<1>19. \A j \in Onward[data] : j = base \/ (j = dest /\ inside)
  <2> TAKE j \in Onward[data]
  <2>1. CASE j # base
    <3>1. j = dest /\ dest \in 0..((Words + tail) - 1)
      BY <1>17, <2>1
    <3>2. Words + tail \in Int
      BY <1>1, SizeAssumption DEF IInv, TypeOK
    <3> QED BY <1>5, <3>1, <3>2
  <2> QED BY <2>1
<1>20. Explored(ds, base)
  BY <1>12, <1>14, <1>15, ExploredKept DEF Added
<1>21. \A j \in Onward[data] : Explored(ds, j)
  BY <1>15, <1>19, <1>20
<1>22. ASSUME NEW i \in 1..Len(ds), i > Len(gs)
       PROVE  /\ ds[i].base \in Nat /\ ds[i].base \in Onward[data]
              /\ RegularCode => ds[i].projectedSize # 0
  <2>1. CASE i > Len(cs)
    BY <1>12, <1>15, <1>18, <2>1 DEF Block
  <2>2. CASE ~(i > Len(cs))
    <3>1. i = Len(cs) /\ ds[i] = cs[i] /\ cs[i] = Block(base, 0, proj)
      BY <1>14, <1>15, <1>16, <1>22, <2>2 DEF Added
    <3>2. RegularCode => proj # 0
      <4>1. CASE inside
        <5>1. RegularCode => dest # base
          BY <1>1, <1>4, <1>6, ScannedReached
        <5>2. dest # base => Wrap(dest - base) # 0
          BY <1>1, <1>4, <1>5, <1>6, <4>1, FalseCaseProjected
        <5> QED BY <1>7, <4>1, <5>1, <5>2
      <4>2. CASE ~inside
        BY <1>7, <1>12, <4>2
      <4> QED BY <4>1, <4>2
    <3> QED BY <1>12, <1>17, <3>1, <3>2 DEF Block
  <2> QED BY <2>1, <2>2
<1>23. Added(gs, Pop(stack), ds, dtk)
  BY <1>14, <1>15, AddedTwice
<1>24. Extents(ds, dtk, Reached, RegularCode, Onward)
  BY <1>1, <1>3, <1>11, <1>21, <1>22, <1>23, LeftExtents
<1> QED BY <1>9, <1>24

\* A block whose projection ends at the next word stands before a known block.
LEMMA ProjectionEndsKnown ==
  ASSUME PInv, InLoop, Current.projectedSize # NoProjection, Target(Current) = data + 1,
         Current.projectedSize # 0,
         NEW gs, gs = [blocks EXCEPT ![Top] = Grown], ~Covered
  PROVE  Known(gs, data + 1)
<1>1. PICK b, a : b = Current /\ a = data + 1
  OBVIOUS
<1>2. /\ b \in BlockType /\ ProjectedBlock(blocks, b) /\ data \in Nat /\ data <= Words
  BY <1>1, LoopState, PopWaits DEF PInv, InLoop, Paths
<1>3. Meets(blocks, b)
  BY <1>1, <1>2, SizeAssumption DEF ProjectedBlock
<1>4. Grown \in BlockType /\ Grown.base = Current.base /\ Grown.size = Current.size + 1
  BY GrownType DEF PInv
<1>5. Meets(gs, b) /\ Popped(gs, Pop(stack))
  BY <1>2, <1>3, <1>4, GrowProperties, WalkedGrown DEF PInv
<1>6. gs \in Seq(BlockType) /\ DOMAIN gs = 1..Len(gs) /\ \A i \in 1..Len(gs) : gs[i] \in BlockType
  BY <1>5, PoppedBlocks, LenProperties, ElementOfSeq
<1>7. PICK i \in 1..Len(gs) :
        /\ gs[i].base <= a
        /\ gs[i].base = a \/ a < End(gs[i])
  BY <1>1, <1>5 DEF Meets
<1>8. gs[i].base \in Nat /\ gs[i].size \in Nat /\ a \in Nat
  BY <1>1, <1>2, <1>6 DEF BlockType
<1>9. IF gs[i].size # 0
      THEN gs[i].base <= a /\ a < End(gs[i])
      ELSE a = gs[i].base
  BY <1>7, <1>8 DEF End
<1> QED BY <1>1, <1>6, <1>8, <1>9 DEF Known

LEMMA ScanBranchExtents ==
  ASSUME EInv, ScanBranch
  PROVE  Extents(blocks', stack', Reached, RegularCode, Onward)
<1>1. InLoop /\ ~Covered /\ code[data].op = "b" /\ PInv /\ IInv
  BY DEF ScanBranch, Scan, EInv, PInv
<1>2. PICK gs : gs = [blocks EXCEPT ![Top] = Grown]
  OBVIOUS
<1>3. PICK dest : dest = code[data].t
  OBVIOUS
<1>4. PICK continues \in BOOLEAN : continues <=> Current.projectedSize # NoProjection /\ dest = End(Grown)
  OBVIOUS
<1>5. PICK proj : proj = IF continues THEN Wrap(Current.projectedSize - Grown.size) ELSE NoProjection
  OBVIOUS
<1>6. PICK ds, dtk : ds = blocks' /\ dtk = stack'
  OBVIOUS
<1>7. IF dest < 0
      THEN ds = gs /\ dtk = Pop(stack)
      ELSE ds = Explore(gs, Pop(stack), dest, proj).bs /\ dtk = Explore(gs, Pop(stack), dest, proj).stk
  <2>1. CASE continues
    BY <1>2, <1>3, <1>4, <1>5, <1>6, <2>1 DEF ScanBranch
  <2>2. CASE ~continues
    BY <1>2, <1>3, <1>4, <1>5, <1>6, <2>2 DEF ScanBranch
  <2> QED BY <2>1, <2>2
<1>8. Popped(gs, Pop(stack)) /\ Grown \in BlockType /\ Grown.base = Current.base /\ Grown.size = Current.size + 1
  BY <1>1, <1>2, GrowProperties, GrownType
<1>9. dest \in Int /\ dest <= LimitEnd
  BY <1>1, <1>3, ScannedWord
<1>10. Onward[data] = {dest} \cap Nat
  BY <1>1, <1>3, ScannedReached, SuccessorsOf
<1>11. CASE dest < 0
  <2>1. Added(gs, Pop(stack), gs, Pop(stack)) /\ Len(gs) \in Nat
    BY <1>8, PoppedBlocks
  <2>2. Onward[data] = {}
    BY <1>9, <1>10, <1>11
  <2>3. \A i \in 1..Len(gs) : ~(i > Len(gs))
    BY <2>1
  <2>4. Extents(gs, Pop(stack), Reached, RegularCode, Onward)
    BY <1>1, <1>2, <1>8, <2>1, <2>2, <2>3, LeftExtents
  <2> QED BY <1>6, <1>7, <1>11, <2>4
<1>12. CASE ~(dest < 0)
  <2>1. dest \in Nat /\ Onward[data] = {dest}
    BY <1>9, <1>10, <1>12
  <2>2. /\ Current \in BlockType /\ data = End(Current) /\ End(Grown) = data + 1
    <3>1. Current \in BlockType /\ data = End(Current)
      BY <1>1, LoopState DEF InLoop
    <3>2. End(Grown) = data + 1
      BY <1>1, <1>2, <1>8, WalkedGrown
    <3> QED BY <3>1, <3>2
  <2>3. proj \in Projections
    <3>1. Current.projectedSize \in Int /\ Grown.size \in Int
      BY <1>8, <2>2, SizeAssumption DEF BlockType, Projections, NoProjection
    <3>2. Current.projectedSize - Grown.size \in Int
      BY <3>1
    <3> QED BY <1>5, <3>2, WrapType DEF Projections
  <2>4. ~Known(gs, dest) => proj # 0
    <3>1. CASE ~continues
      BY <1>5, <3>1 DEF NoProjection
    <3>2. CASE continues
      <4> SUFFICES ASSUME ~Known(gs, dest) PROVE proj # 0
        OBVIOUS
      <4>1. Current.projectedSize # NoProjection /\ dest = data + 1
        BY <1>4, <2>2, <3>2
      <4>2. Current.projectedSize \in 1..(Modulus - 1) /\ Current.size \in Nat /\ Current.size < Current.projectedSize
        <5>1. Current.projectedSize \in 0..(Modulus - 1) /\ Current.size \in Nat
          BY <2>2, <4>1 DEF BlockType, Projections
        <5>2. ~(Current.size >= Current.projectedSize)
          BY <1>1, <4>1 DEF Covered
        <5> QED BY <5>1, <5>2, SizeAssumption
      <4>3. Target(Current) # data + 1
        <5>1. Current.projectedSize # 0
          BY <4>2
        <5> QED BY <1>1, <1>2, <4>1, <5>1, ProjectionEndsKnown
      <4>4. PICK rest : rest = Current.projectedSize - Grown.size
        OBVIOUS
      <4>5. rest \in Int /\ 0 <= rest /\ rest < Modulus /\ rest # 0
        <5>1. Current.base + Current.projectedSize # Current.base + (Current.size + 1)
          BY <2>2, <4>2, <4>3 DEF Target, End, BlockType
        <5>2. Current.projectedSize # Current.size + 1
          BY <5>1
        <5> QED BY <1>8, <4>2, <4>4, <5>2, SizeAssumption
      <4>6. Wrap(rest) = rest
        BY <4>5, WrapValue
      <4> QED BY <1>5, <3>2, <4>4, <4>5, <4>6
    <3> QED BY <3>1, <3>2
  <2>5. Extents(ds, dtk, Reached, RegularCode, Onward)
    <3>1. ds = Explore(gs, Pop(stack), dest, proj).bs /\ dtk = Explore(gs, Pop(stack), dest, proj).stk
      BY <1>7, <1>12
    <3> QED BY <1>1, <1>2, <1>9, <2>1, <2>3, <2>4, <3>1, LeftForOne
  <2> QED BY <1>6, <2>5
<1> QED BY <1>11, <1>12

----------------------------------------------------------------------------
\* After the loop.

LEMMA BlocksTyped ==
  ASSUME IInv, blocks # <<>>
  PROVE  /\ Worklist(blocks, stack)
         /\ Len(blocks) \in Nat /\ Len(blocks) >= 1 /\ DOMAIN blocks = 1..Len(blocks)
         /\ blocks[1].base = 0
         /\ \A i \in 1..Len(blocks) :
              /\ blocks[i] \in BlockType
              /\ blocks[i].base \in Nat /\ blocks[i].size \in Nat /\ End(blocks[i]) \in Nat
<1>1. Worklist(blocks, stack)
  BY DEF IInv
<1>2. /\ Len(blocks) \in Nat /\ Len(blocks) >= 1 /\ DOMAIN blocks = 1..Len(blocks)
      /\ blocks[1].base = 0
      /\ \A i \in 1..Len(blocks) : blocks[i] \in BlockType
  BY <1>1, LenProperties, ElementOfSeq DEF Worklist
<1>3. \A b \in BlockType : b.base \in Nat /\ b.size \in Nat /\ End(b) \in Nat
  BY DEF BlockType, End
<1> QED BY <1>1, <1>2, <1>3

\* On regular code the number of blocks stays within the words of the region, and
\* the loop ends for want of work.
LEMMA NothingLeft ==
  ASSUME EInv, LeaveLoop, RegularCode, Words <= MaxBlocks
  PROVE  stack = <<>>
<1> SUFFICES ASSUME stack # <<>> PROVE FALSE
  OBVIOUS
<1>1. IInv /\ TypeOK /\ pc = "scan" /\ blocks # <<>>
  BY DEF EInv, PInv, IInv, LeaveLoop
<1>2. Reached \subseteq 0..(Words - 1)
  BY <1>1, RegularReached
<1>3. ~(data > Words)
  <2>1. Top \in 1..Len(blocks) /\ Waits(stack, Top) /\ data = End(blocks[Top])
    BY <1>1, LoopState, PopWaits
  <2>2. data \in Reached
    BY <2>1 DEF EInv, Extents, Visits
  <2> QED BY <1>2, <2>2, SizeAssumption
<1>4. Len(blocks) > MaxBlocks
  BY <1>3 DEF LeaveLoop
<1>5. ASSUME NEW i \in 1..Len(blocks) PROVE blocks[i].base \in 0..(Words - 1)
  <2>1. blocks[i].base \in Nat /\ blocks[i].size \in Nat /\ LeavesBlock(blocks, stack, Onward, i)
    BY <1>1, BlocksTyped DEF EInv, Extents, Leaves
  <2>2. CASE blocks[i].size > 0
    BY <1>2, <2>1, <2>2 DEF EInv, Extents, Visits, End
  <2>3. CASE ~(blocks[i].size > 0)
    <3>1. Waits(stack, i) /\ End(blocks[i]) = blocks[i].base
      BY <2>1, <2>3 DEF LeavesBlock, End
    <3> QED BY <1>2, <3>1 DEF EInv, Extents, Visits
  <2> QED BY <2>2, <2>3
<1> DEFINE f == [i \in 1..Len(blocks) |-> blocks[i].base]
           S == 1..Len(blocks)
           T == 0..(Words - 1)
<1>6. f \in Injection(S, T)
  <2>1. f \in [S -> T]
    BY <1>5
  <2>2. \A i, j \in S : f[i] = f[j] => i = j
    BY <1>1, BlocksTyped DEF Worklist
  <2> QED BY <2>1, <2>2 DEF Injection, IsInjective
<1>7. /\ IsFiniteSet(S) /\ Cardinality(S) = Len(blocks)
      /\ IsFiniteSet(T) /\ Cardinality(T) = Words
      /\ Len(blocks) \in Nat
  <2>1. Len(blocks) \in Nat /\ Len(blocks) >= 1
    BY <1>1, BlocksTyped
  <2>2. IsFiniteSet(S) /\ Cardinality(S) = Len(blocks)
    <3>1. PICK n : n = Len(blocks)
      OBVIOUS
    <3>2. IsFiniteSet(1..n) /\ Cardinality(1..n) = IF 1 > n THEN 0 ELSE (n - 1) + 1
      BY <2>1, <3>1, FS_Interval
    <3> QED BY <2>1, <3>1, <3>2
  <2>3. IsFiniteSet(T) /\ Cardinality(T) = Words
    <3>1. Words - 1 \in Int /\ 0 \in Int /\ Words \in Nat /\ Words >= 1
      BY SizeAssumption
    <3>2. IsFiniteSet(T) /\ Cardinality(T) = IF 0 > Words - 1 THEN 0 ELSE ((Words - 1) - 0) + 1
      BY <3>1, FS_Interval
    <3> QED BY <3>1, <3>2
  <2> QED BY <2>1, <2>2, <2>3
<1>8. Cardinality(S) <= Cardinality(T)
  <2> HIDE DEF f, S, T
  <2> QED BY <1>6, <1>7, FS_Injection
<1> QED BY <1>4, <1>7, <1>8, SizeAssumption

\* Some block holds word w.
Holds(w) == \E i \in 1..Len(blocks) : blocks[i].base <= w /\ w < End(blocks[i])

\* Every word before the end of a block of the contiguous run is held by some block.
LEMMA RunHolds ==
  ASSUME IInv, blocks # <<>>, NEW m \in Contiguous, NEW w \in Nat, w < End(m)
  PROVE  Holds(w)
<1> SUFFICES ASSUME ~Holds(w) PROVE FALSE
  OBVIOUS
<1>1. /\ Len(blocks) \in Nat /\ Len(blocks) >= 1 /\ DOMAIN blocks = 1..Len(blocks) /\ blocks[1].base = 0
      /\ \A i \in 1..Len(blocks) : blocks[i].base \in Nat /\ End(blocks[i]) \in Nat
  BY BlocksTyped
<1>2. PICK k \in 1..Len(blocks) : blocks[k] = m
  BY <1>1 DEF Contiguous, Found
<1>3. m.base \in Nat /\ m.base > w
  BY <1>1, <1>2 DEF Holds
<1> DEFINE G == {blocks[i].base : i \in {j \in 1..Len(blocks) : blocks[j].base <= w}}
           H == {blocks[i].base : i \in {j \in 1..Len(blocks) : blocks[j].base > w}}
<1>4. G \subseteq Nat /\ G # {} /\ (\A n \in G : n <= w) /\ H \subseteq Nat /\ H # {}
  <2>1. 1 \in 1..Len(blocks) /\ blocks[1].base <= w
    BY <1>1
  <2>2. blocks[k].base > w
    BY <1>2, <1>3
  <2> QED BY <1>1, <2>1, <2>2
<1>5. Max(G) \in G /\ \A n \in G : n <= Max(G)
  <2> HIDE DEF G
  <2> QED BY <1>4, MaxNat
<1>6. PICK h \in H : \A n \in H : h <= n
  <2> HIDE DEF H
  <2> QED BY <1>4, LeastNatural
<1>7. PICK i \in 1..Len(blocks) :
        blocks[i].base <= w /\ \A j \in 1..Len(blocks) : blocks[j].base <= w => blocks[j].base <= blocks[i].base
  BY <1>5
<1>8. PICK l \in 1..Len(blocks) :
        blocks[l].base > w /\ \A j \in 1..Len(blocks) : blocks[j].base > w => blocks[l].base <= blocks[j].base
  BY <1>6
<1>9. PICK c, d : c = blocks[i] /\ d = blocks[l]
  OBVIOUS
<1>10. c \in Found /\ d \in Found /\ c.base \in Nat /\ d.base \in Nat /\ End(c) \in Nat
  BY <1>1, <1>9 DEF Found
<1>11. Adjacent(c, d)
  <2>1. c.base < d.base
    BY <1>7, <1>8, <1>9, <1>10
  <2>2. ASSUME NEW e \in Found, c.base < e.base, e.base < d.base PROVE FALSE
    <3>1. PICK j \in 1..Len(blocks) : blocks[j] = e
      BY <1>1 DEF Found
    <3>2. e.base \in Nat
      BY <1>1, <3>1
    <3>3. CASE e.base <= w
      BY <1>7, <1>9, <1>10, <2>2, <3>1, <3>2, <3>3
    <3>4. CASE e.base > w
      BY <1>8, <1>9, <1>10, <2>2, <3>1, <3>2, <3>4
    <3> QED BY <3>2, <3>3, <3>4
  <2> QED BY <2>1, <2>2 DEF Adjacent
<1>12. d.base <= m.base
  BY <1>2, <1>3, <1>8, <1>9
<1>13. End(c) >= d.base
  BY <1>10, <1>11, <1>12 DEF Contiguous
<1>14. ~(w < End(c))
  BY <1>7, <1>9 DEF Holds
<1> QED BY <1>8, <1>9, <1>10, <1>13, <1>14

\* What is left behind on regular code leads nowhere else.
LEMMA ReachedHeld ==
  ASSUME EInv, blocks # <<>>, stack = <<>>, RegularCode
  PROVE  \A w \in Reached : Holds(w)
<1>1. IInv /\ TypeOK
  BY DEF EInv, PInv, IInv
<1>2. /\ Len(blocks) \in Nat /\ Len(blocks) >= 1 /\ blocks[1].base = 0
      /\ \A i \in 1..Len(blocks) : blocks[i].base \in Nat /\ blocks[i].size \in Nat /\ End(blocks[i]) \in Nat
  BY <1>1, BlocksTyped
<1>3. \A i : ~Waits(stack, i)
  BY DEF Waits
<1>4. \A i \in 1..Len(blocks) :
        blocks[i].size > 0 /\ \A j \in Onward[End(blocks[i]) - 1] : Explored(blocks, j)
  BY <1>3 DEF EInv, Extents, Leaves, LeavesBlock
<1>5. ASSUME NEW a, Explored(blocks, a) PROVE Holds(a)
  <2>1. PICK i \in 1..Len(blocks) : blocks[i].base = a \/ (blocks[i].base <= a /\ a < End(blocks[i]))
    BY <1>5 DEF Explored
  <2>2. CASE blocks[i].base = a
    <3>1. blocks[i].base <= a /\ a < End(blocks[i])
      BY <1>2, <1>4, <2>2 DEF End
    <3> QED BY <3>1 DEF Holds
  <2> QED BY <2>1, <2>2 DEF Holds
<1> DEFINE K == {w \in 0..Words : Holds(w)}
<1>6. 0 \in K
  <2>1. Explored(blocks, 0)
    BY <1>2 DEF Explored
  <2> QED BY <1>5, <2>1, SizeAssumption
<1>7. ASSUME NEW w \in K, NEW j \in Extent!Successors(w) PROVE Holds(j)
  <2>1. PICK i \in 1..Len(blocks) : blocks[i].base <= w /\ w < End(blocks[i])
    BY DEF Holds
  <2>2. w \in Nat
    BY SizeAssumption
  <2>3. CASE w = End(blocks[i]) - 1
    <3>1. Onward[End(blocks[i]) - 1] = Extent!Successors(End(blocks[i]) - 1)
      BY <1>4, LastWord
    <3>2. Explored(blocks, j)
      BY <1>4, <1>7, <2>3, <3>1
    <3> QED BY <1>5, <3>2
  <2>4. CASE w # End(blocks[i]) - 1
    <3>1. w + 1 < End(blocks[i]) /\ blocks[i].base <= w + 1
      BY <1>2, <2>1, <2>2, <2>4
    <3>2. Plain(w)
      <4>1. WalkedBlock(blocks, stack, i)
        BY DEF EInv, PInv, Paths, Walked
      <4> QED BY <2>1, <2>2, <3>1, <4>1 DEF WalkedBlock
    <3>3. j = w + 1
      BY <1>7, <3>2, SuccessorsOf DEF Plain
    <3> QED BY <3>1, <3>3 DEF Holds
  <2> QED BY <2>3, <2>4
<1>8. Extent!Closed(K)
  <2>1. \A i \in K \cap 0..Words : \A j \in Extent!Successors(i) : j \in 0..Words => j \in K
    BY <1>7
  <2> QED BY <1>6, <2>1 DEF Extent!Closed
<1>9. Reached \subseteq K
  BY <1>1, <1>8, ReachedProperties
<1> QED BY <1>9

\* The run of reachable words that starts at the base.
LEMMA ExtentValue ==
  ASSUME TypeOK
  PROVE  /\ Extent!Extent(Reached) \in 0..(Words + 1)
         /\ 0..(Extent!Extent(Reached) - 1) \subseteq Reached
         /\ Extent!Extent(Reached) \notin Reached
<1>1. Reached \subseteq 0..Words
  BY ReachedProperties
<1> DEFINE U == Nat \ Reached
<1>2. U \subseteq Nat /\ Words + 1 \in U
  BY <1>1, SizeAssumption
<1>3. PICK n \in U : \A m \in U : n <= m
  <2> HIDE DEF U
  <2> QED BY <1>2, LeastNatural
<1>4. n \in 0..(Words + 1) /\ 0..(n - 1) \subseteq Reached /\ n \notin Reached
  BY <1>2, <1>3, SizeAssumption
<1>5. \E x \in 0..(Words + 1) : 0..(x - 1) \subseteq Reached /\ x \notin Reached
  BY <1>4
<1> QED BY <1>5 DEF Extent!Extent

\* Every word of the reported size is reachable.
LEMMA TrimReaches ==
  ASSUME EInv, Trim
  PROVE  /\ blocks # <<>> /\ blocks' # <<>>
         /\ size' \in 1..(Words + tail)
         /\ 0..(size' - 1) \subseteq Reached
         /\ \E m \in Contiguous :
              /\ \A b \in Contiguous : End(b) <= End(m)
              /\ End(m) \in Nat
              /\ size' \in {End(m), Words + tail} /\ size' <= End(m)
<1>1. IInv /\ TypeOK /\ pc = "trim" /\ blocks # <<>> /\ blocks' = blocks /\ tail' = tail /\ pc' = "done"
  BY DEF EInv, PInv, IInv, Trim
<1>2. size' \in 1..(Words + tail)
  <2>1. SizeInRegion'
    BY <1>1, TrimStep DEF IInv
  <2> QED BY <1>1, <2>1 DEF SizeInRegion
<1> DEFINE E == {End(b) : b \in Contiguous}
<1>3. /\ Len(blocks) \in Nat /\ Len(blocks) >= 1 /\ DOMAIN blocks = 1..Len(blocks) /\ blocks[1].base = 0
      /\ \A i \in 1..Len(blocks) :
           blocks[i].base \in Nat /\ End(blocks[i]) \in Nat /\ End(blocks[i]) <= LimitEnd
  BY <1>1, BlocksTyped DEF Worklist
<1>4. \A b \in Found : b.base \in Nat /\ End(b) \in Nat /\ End(b) <= LimitEnd
  BY <1>3 DEF Found
<1>5. blocks[1] \in Contiguous
  <2>1. blocks[1] \in Found
    BY <1>3 DEF Found
  <2>2. \A c, d \in Found : Adjacent(c, d) => ~(d.base <= blocks[1].base)
    BY <1>3, <1>4 DEF Adjacent
  <2> QED BY <2>1, <2>2 DEF Contiguous
<1>6. E \subseteq Nat /\ E # {} /\ (\A n \in E : n <= LimitEnd) /\ LimitEnd \in Nat
  <2>1. \A b \in Contiguous : End(b) \in Nat /\ End(b) <= LimitEnd
    BY <1>4 DEF Contiguous
  <2>2. LimitEnd \in Nat
    BY SizeAssumption DEF LimitEnd
  <2> QED BY <1>5, <2>1, <2>2
<1>7. Max(E) \in E /\ \A n \in E : n <= Max(E)
  <2> HIDE DEF E
  <2> QED BY <1>6, MaxNat
<1>8. PICK m \in Contiguous : End(m) = Max(E)
  BY <1>7
<1>9. End(m) \in Nat /\ \A b \in Contiguous : End(b) <= End(m)
  BY <1>6, <1>7, <1>8
<1>10. size' \in {End(m), Words + tail} /\ size' <= End(m)
  <2>1. size' = Min({Max(E), Words + tail})
    BY DEF Trim
  <2>2. PICK r : r = Words + tail
    OBVIOUS
  <2>3. r \in Nat
    BY <1>1, <2>2, SizeAssumption DEF TypeOK
  <2>4. Min({End(m), r}) \in {End(m), r} /\ Min({End(m), r}) <= End(m)
    BY <1>9, <2>3, MinOfTwo
  <2> QED BY <1>8, <2>1, <2>2, <2>4
<1>11. ASSUME NEW w \in 0..(size' - 1) PROVE w \in Reached
  <2>1. w \in Nat /\ w < End(m)
    <3>1. PICK n, r : n = size' /\ r = Words + tail
      OBVIOUS
    <3>2. r \in Int /\ n \in 1..r /\ n <= End(m) /\ w \in 0..(n - 1)
      BY <1>1, <1>2, <1>10, <3>1, SizeAssumption DEF TypeOK
    <3> QED BY <1>9, <3>2
  <2>2. PICK i \in 1..Len(blocks) : blocks[i].base <= w /\ w < End(blocks[i])
    BY <1>1, <2>1, RunHolds DEF Holds
  <2> QED BY <2>1, <2>2 DEF EInv, Extents, Visits
<1> QED BY <1>1, <1>2, <1>9, <1>10, <1>11

\* On regular code the word behind the contiguous run is not reachable: a block that
\* held it would start behind a gap, and no earlier block ends behind a gap.
LEMMA TrimStops ==
  ASSUME EInv, Trim, RegularCode, Words <= MaxBlocks
  PROVE  size' \notin Reached
<1>1. IInv /\ TypeOK /\ PInv /\ pc = "trim" /\ blocks # <<>> /\ stack = <<>>
  BY DEF EInv, PInv, IInv, Trim
<1>2. PICK m \in Contiguous :
        /\ \A b \in Contiguous : End(b) <= End(m)
        /\ End(m) \in Nat
        /\ size' \in {End(m), Words + tail} /\ size' <= End(m)
  BY TrimReaches
<1>3. Reached \subseteq 0..(Words - 1)
  BY <1>1, RegularReached
<1>4. CASE size' = Words + tail
  BY <1>1, <1>3, <1>4, SizeAssumption DEF TypeOK
<1>5. CASE size' = End(m)
  <2> SUFFICES ASSUME End(m) \in Reached PROVE FALSE
    BY <1>5
  <2>1. PICK k \in 1..Len(blocks) : blocks[k].base <= End(m) /\ End(m) < End(blocks[k])
    BY <1>1, ReachedHeld DEF Holds
  <2>2. PICK e : e = blocks[k]
    OBVIOUS
  <2>3. /\ DOMAIN blocks = 1..Len(blocks)
        /\ \A b \in Found : b.base \in Nat /\ End(b) \in Nat
    BY <1>1, BlocksTyped DEF Found
  <2>4. e \in Found /\ m \in Found
    BY <2>2, <2>3 DEF Found, Contiguous
  <2>5. e \notin Contiguous
    BY <1>2, <2>1, <2>2, <2>3, <2>4
  <2>6. PICK c \in Found, d \in Found : Adjacent(c, d) /\ d.base <= e.base /\ ~(End(c) >= d.base)
    BY <2>4, <2>5 DEF Contiguous
  <2>7. ~(d.base <= m.base)
    BY <2>6 DEF Contiguous
  <2>8. m.base <= c.base
    <3>1. ~(c.base < m.base /\ m.base < d.base)
      BY <2>4, <2>6 DEF Adjacent
    <3> QED BY <2>3, <2>4, <2>7, <3>1
  <2>9. End(c) < d.base
    BY <2>3, <2>6
  <2>10. End(m) < d.base
    BY <1>1, <2>4, <2>6, <2>8, <2>9, PathsLeaveGaps DEF GapsAreReal
  <2> QED BY <2>1, <2>2, <2>3, <2>4, <2>6, <2>10
<1> QED BY <1>2, <1>4, <1>5

LEMMA ExtentsInit == Init => EInv
<1> SUFFICES ASSUME Init PROVE EInv
  OBVIOUS
<1>1. blocks = <<>> /\ Len(<<>>) = 0 /\ pc = "enter"
  BY DEF Init
<1>2. \A i \in 1..Len(<<>>) : FALSE
  OBVIOUS
<1>3. Extents(<<>>, stack, Reached, RegularCode, Onward)
  BY <1>2 DEF Extents, Visits, Leaves
<1> QED BY <1>1, <1>3, PathsInit DEF EInv, ReachedReported

LEMMA ExtentsStep == EInv /\ [Next]_vars => EInv'
<1> SUFFICES ASSUME EInv, [Next]_vars PROVE EInv'
  OBVIOUS
<1>1. PInv' /\ code' = code /\ tail' = tail
  <2>1. PInv'
    BY PathsStep DEF EInv
  <2>2. code' = code /\ tail' = tail
    BY DEF Next, vars, ShiftedTailCall, Enter, Fallthrough, ScanPlain, ScanEnd, ScanConditionalReturn,
           ScanConditionalBranch, ScanBranch, Scan, LeaveLoop, Trim, Done
  <2> QED BY <2>1, <2>2
<1>2. /\ Reached' = Reached /\ (RegularCode' <=> RegularCode) /\ Onward' = Onward
      /\ (Extent!ShiftedTailCall' <=> Extent!ShiftedTailCall)
  BY <1>1, ReachedSame
<1>3. ASSUME Extents(blocks', stack', Reached, RegularCode, Onward)
      PROVE  Extents(blocks, stack, Reached, RegularCode, Onward)'
  <2>1. PICK bs, stk, R, s : bs = blocks' /\ stk = stack' /\ R = Reached /\ s = Onward
    OBVIOUS
  <2>2. PICK reg \in BOOLEAN : reg <=> RegularCode
    OBVIOUS
  <2>3. Extents(bs, stk, R, reg, s)
    BY <1>3, <2>1, <2>2 DEF Extents, Visits
  <2>4. R = Reached' /\ s = Onward' /\ (reg <=> RegularCode')
    BY <1>2, <2>1, <2>2
  <2> QED BY <2>1, <2>3, <2>4 DEF Extents, Visits
<1>4. Extents(blocks, stack, Reached, RegularCode, Onward)'
  <2>1. ASSUME UNCHANGED <<blocks, stack>> PROVE Extents(blocks', stack', Reached, RegularCode, Onward)
    BY <2>1 DEF EInv
  <2>2. CASE ShiftedTailCall \/ LeaveLoop \/ Trim \/ Done \/ UNCHANGED vars
    BY <1>3, <2>1, <2>2 DEF ShiftedTailCall, LeaveLoop, Trim, Done, vars
  <2> QED BY <1>3, <2>2, EnterExtents, FallthroughExtents, ScanPlainExtents, ScanEndExtents,
             ScanConditionalReturnExtents, ScanConditionalBranchExtents, ScanBranchExtents DEF Next
<1>5. pc' \in {"scan", "trim"} => ~Extent!ShiftedTailCall
  <2>1. CASE Enter
    BY <2>1 DEF Enter, Extent!ShiftedTailCall
  <2>2. CASE ~Enter
    <3>1. pc' \in {"scan", "trim"} => pc \in {"scan", "trim"}
      BY <2>2 DEF Next, vars, ShiftedTailCall, Fallthrough, ScanPlain, ScanEnd, ScanConditionalReturn,
           ScanConditionalBranch, ScanBranch, Scan, InLoop, LeaveLoop, Trim, Done
    <3> QED BY <3>1 DEF EInv
  <2> QED BY <2>1, <2>2
<1>6. pc' = "trim" /\ RegularCode /\ Words <= MaxBlocks => stack' = <<>>
  <2>1. CASE LeaveLoop
    BY <2>1, NothingLeft DEF LeaveLoop
  <2>2. CASE ~LeaveLoop
    <3>1. pc' = "trim" => pc = "trim" /\ stack' = stack
      BY <2>2 DEF Next, vars, ShiftedTailCall, Enter, Fallthrough, ScanPlain, ScanEnd, ScanConditionalReturn,
           ScanConditionalBranch, ScanBranch, Scan, InLoop, Trim, Done
    <3> QED BY <3>1 DEF EInv
  <2> QED BY <2>1, <2>2
<1>7. pc' = "done" => blocks' = <<>> \/ 0..(size' - 1) \subseteq Reached
  <2>1. CASE Trim
    BY <2>1, TrimReaches
  <2>2. CASE ShiftedTailCall
    BY <2>2 DEF ShiftedTailCall, EInv, PInv, IInv
  <2>3. CASE ~Trim /\ ~ShiftedTailCall
    <3>1. pc' = "done" => pc = "done" /\ size' = size /\ blocks' = blocks
      BY <2>3 DEF Next, vars, Enter, Fallthrough, ScanPlain, ScanEnd, ScanConditionalReturn,
           ScanConditionalBranch, ScanBranch, Scan, InLoop, LeaveLoop, Done
    <3> QED BY <3>1 DEF EInv, ReachedReported
  <2> QED BY <2>1, <2>2, <2>3
<1>8. ReachedReported'
  BY <1>2, <1>7 DEF ReachedReported
<1> QED BY <1>1, <1>2, <1>4, <1>5, <1>6, <1>8 DEF EInv

\* The inductive invariant of the refinement: walked words are reachable, and what is
\* left behind on regular code leads to explored words only.
THEOREM ExtentInvariant == Spec => []EInv
BY ExtentsInit, ExtentsStep, PTL DEF Spec

\* Every word before the reported size can be reached from the function's base, on
\* every program: nothing behind the function is taken for a part of it.
THEOREM NothingUnreached == Spec => []ReachedReported
<1>1. EInv => ReachedReported
  BY DEF EInv
<1> QED BY <1>1, ExtentInvariant, PTL

\* The last step of the analysis is the one step of the promise, all others change
\* nothing that it speaks of.
LEMMA ReportStep ==
  ASSUME Words <= MaxBlocks
  PROVE  EInv /\ [Next]_vars => [Extent!Report]_Extent!absVars
<1> SUFFICES ASSUME EInv, [Next]_vars
             PROVE  Extent!Report \/ UNCHANGED <<code, tail, pc = "done", size>>
  BY DEF Extent!absVars
<1>1. CASE ShiftedTailCall
  BY <1>1 DEF ShiftedTailCall, Extent!Report, Extent!ShiftedTailCall
<1>2. CASE Trim
  <2>1. TypeOK /\ ~Extent!ShiftedTailCall
    BY <1>2 DEF Trim, EInv, PInv, IInv
  <2>2. PICK x, n : x = Extent!Extent(Reached) /\ n = size'
    OBVIOUS
  <2>3. x \in 0..(Words + 1) /\ 0..(x - 1) \subseteq Reached /\ x \notin Reached
    BY <2>1, <2>2, ExtentValue
  <2>4. x \in Nat /\ n \in Nat /\ n \in 1..(Words + tail) /\ 0..(n - 1) \subseteq Reached
    <3>1. PICK r : r = Words + tail
      OBVIOUS
    <3>2. r \in Nat
      BY <2>1, <3>1, SizeAssumption DEF TypeOK
    <3>3. n \in 1..r /\ 0..(n - 1) \subseteq Reached
      BY <1>2, <2>2, <3>1, TrimReaches
    <3> QED BY <2>3, <3>1, <3>2, <3>3, SizeAssumption
  <2>5. n <= x
    <3> SUFFICES ASSUME x < n PROVE FALSE
      BY <2>4
    <3>1. x \in 0..(n - 1)
      BY <2>4
    <3> QED BY <2>3, <2>4, <3>1
  <2>6. RegularCode => n = x
    <3> SUFFICES ASSUME RegularCode, n < x PROVE FALSE
      BY <2>4, <2>5
    <3>1. n \notin Reached
      BY <1>2, <2>2, TrimStops
    <3>2. n \in 0..(x - 1)
      BY <2>4
    <3> QED BY <2>3, <3>1, <3>2
  <2>7. n \in Extent!Reportable(Extent!Reachable)
    BY <2>2, <2>4, <2>5, <2>6 DEF Extent!Reportable, Extent!RegionWords, RegularCode, Reached
  <2> QED BY <1>2, <2>1, <2>2, <2>7 DEF Trim, Extent!Report
<1>3. CASE ~ShiftedTailCall /\ ~Trim
  BY <1>3 DEF Next, vars, Enter, Fallthrough, ScanPlain, ScanEnd, ScanConditionalReturn,
       ScanConditionalBranch, ScanBranch, Scan, InLoop, LeaveLoop, Done
<1> QED BY <1>1, <1>2, <1>3

\* Function::Analyze reports the extent of the code reachable from the base, for every
\* program in a region of at most c_maxBlockCount words: never more than the run of
\* reachable words, and exactly that run on regular code.
THEOREM ExtentReported ==
  ASSUME Words <= MaxBlocks
  PROVE  Spec => ReportsExtent
<1>1. Init => Extent!AbsInit
  BY DEF Init, Extent!AbsInit
<1>2. EInv /\ [Next]_vars => [Extent!Report]_Extent!absVars
  BY ReportStep
<1> QED BY <1>1, <1>2, ExtentInvariant, PTL DEF Spec, ReportsExtent, Extent!AbsSpec
=============================================================================
