------------------------------ MODULE GuestProgram ------------------------------
(***************************************************************************)
(* A program that keeps to the console's calling convention, as the        *)
(* compiler writes it and the linker joins it to the save and restore      *)
(* helpers.  A program p is described by                                   *)
(*   main, f  how they save registers and from which one on                *)
(*   leaf     what f calls                                                 *)
(*   decoy    code that looks like a helper                                *)
(*   order    the order in which these, and the helpers, are linked        *)
(***************************************************************************)
EXTENDS CrtHelpers, SequencesExt

\* Registers: general, floating, vector; and the special ones.
Of(class, numbers) == {<<class, n>> : n \in numbers}
Lower == 14 .. (13 + Count)
NonVolatile ==
  Of("r", Lower) \cup Of("f", Lower) \cup Of("v", Lower \cup 64 .. (63 + Count64))
NonArgument == {<<"r", 0>>, <<"r", 11>>, <<"r", 12>>}
Ctr == <<"ctr", 0>>
Cr == <<"cr", 0>>
Lr == <<"lr", 0>>
AllRegisters == NonVolatile \cup NonArgument \cup {<<"r", 1>>, <<"r", 3>>, Ctr, Cr, Lr}

Width == 256               \* values of a register
Cells == {8 * k : k \in 0 .. 31}
Top == 128                 \* the stack grows down from here; the rest is data
Frame == 8 * (Count + Count64 + 2)

----------------------------------------------------------------------------

\* The code of the helpers, register by register; the general ones also keep the
\* return address.
D(op, rt, ra, d) == [op |-> op, rt |-> rt, ra |-> ra, d |-> d]
Li(rt, d) == D("addi", rt, 0, d)
Return == <<[op |-> "blr"]>>

OpOf(h) ==
  CASE h = "restGpr14" -> "ld"     [] h = "saveGpr14" -> "std"
    [] h = "restFpr14" -> "lfd"    [] h = "saveFpr14" -> "stfd"
    [] h = "restVmx14" -> "lvx"    [] h = "saveVmx14" -> "stvx"
    [] h = "restVmx64" -> "lvx128" [] h = "saveVmx64" -> "stvx128"

Slot(h, k) == -8 * (Registers(h) - k)

HelperCode(h) ==
  CASE h = "saveGpr14" ->
         [k \in 1 .. Count |-> D("std", 13 + k, 1, Slot(h, k - 1) - 8)] \o <<D("stw", 12, 1, -8)>> \o Return
    [] h = "restGpr14" ->
         [k \in 1 .. Count |-> D("ld", 13 + k, 1, Slot(h, k - 1) - 8)]
           \o <<D("lwz", 12, 1, -8), [op |-> "mtlr", from |-> <<"r", 12>>]>> \o Return
    [] h \in {"saveFpr14", "restFpr14"} ->
         [k \in 1 .. Count |-> D(OpOf(h), 13 + k, 12, Slot(h, k - 1))] \o Return
    [] OTHER ->
         FlattenSeq([k \in 1 .. Registers(h) |->
           <<Li(11, Slot(h, k - 1)), [op |-> OpOf(h), rt |-> First(h) + k - 1, ra |-> 11, rb |-> 12]>>])
           \o Return

\* A function saves registers from the k-th on: through a helper ("gpr", "fpr",
\* "vmx", "vmx64"), by instructions of its own ("inline"), or not at all ("leaf").
SaveHelper(way) ==
  CASE way = "gpr" -> "saveGpr14" [] way = "fpr" -> "saveFpr14"
    [] way = "vmx" -> "saveVmx14" [] way = "vmx64" -> "saveVmx64"

RestHelper(way) ==
  CASE way = "gpr" -> "restGpr14" [] way = "fpr" -> "restFpr14"
    [] way = "vmx" -> "restVmx14" [] way = "vmx64" -> "restVmx64"

Call(piece, k) == [op |-> "bl", to |-> piece, k |-> k]
Enter == <<D("addi", 1, 1, -Frame)>>
Exit == <<D("addi", 1, 1, Frame)>>
KeepLr == <<[op |-> "mflr", rt |-> <<"r", 12>>], D("stw", 12, 1, -8)>>
BackToLr == <<D("lwz", 12, 1, -8), [op |-> "mtlr", from |-> <<"r", 12>>]>> \o Return
Parameter == <<D("addi", 12, 1, -8)>>

Saving(fn) ==
  CASE fn.way = "gpr" -> <<[op |-> "mflr", rt |-> <<"r", 12>>], Call("saveGpr14", fn.k)>> \o Enter
    [] fn.way = "inline" ->
         KeepLr \o [k \in 1 .. (Count - fn.k) |-> D("std", 13 + fn.k + k, 1, -8 * k - 8)] \o Enter
    [] OTHER -> KeepLr \o Parameter \o <<Call(SaveHelper(fn.way), fn.k)>> \o Enter

Restoring(fn) ==
  CASE fn.way = "gpr" -> Exit \o <<[op |-> "b", to |-> "restGpr14", k |-> fn.k]>>
    [] fn.way = "inline" ->
         Exit \o [k \in 1 .. (Count - fn.k) |-> D("ld", 13 + fn.k + k, 1, -8 * k - 8)] \o BackToLr
    [] OTHER -> Exit \o Parameter \o <<Call(RestHelper(fn.way), fn.k)>> \o BackToLr

Kept(fn) ==
  CASE fn.way \in {"gpr", "inline"} -> <<"r", 14 + fn.k>>
    [] fn.way = "fpr"   -> <<"f", 14 + fn.k>>
    [] fn.way = "vmx"   -> <<"v", 14 + fn.k>>
    [] fn.way = "vmx64" -> <<"v", 64 + fn.k>>

\* It keeps its argument over a call, and adds it to what that returns.
Calling(fn, callee) ==
  Saving(fn)
    \o <<[op |-> "mr", rt |-> Kept(fn), from |-> <<"r", 3>>], D("addi", 3, 3, 1), Call(callee, 0),
         [op |-> "add", rt |-> <<"r", 3>>, from |-> Kept(fn)]>>
    \o Restoring(fn)

\* Leaves: one that counts, one that compares, and one that is left by a branch
\* to another.
Leaf(kind) ==
  CASE kind = "counts"   -> <<Li(12, 3), [op |-> "mtctr", from |-> <<"r", 3>>],
                              [op |-> "add", rt |-> <<"r", 3>>, from |-> <<"r", 12>>],
                              [op |-> "bdnz", by |-> -1]>> \o Return
    [] kind = "compares" -> <<[op |-> "cmpwi", from |-> <<"r", 3>>, d |-> 2], Li(11, 5),
                              [op |-> "bne", by |-> 2],
                              [op |-> "mr", rt |-> <<"r", 3>>, from |-> <<"r", 11>>]>> \o Return
    [] kind = "chains"   -> <<Li(12, 9), [op |-> "b", to |-> "last", k |-> 0]>>

\* What looks like a helper, or nearly: a function that saves all registers in
\* words, one that saves the floating registers elsewhere, as setjmp does, and one
\* whose displacements have a gap.
Decoy(kind) ==
  CASE kind = "none"   -> <<>>
    [] kind = "words"  -> [k \in 1 .. Count |-> D("stw", 13 + k, 1, 4 * k)]
    [] kind = "setjmp" -> [k \in 1 .. Count |-> D("stfd", 13 + k, 3, 8 * k)]
    [] kind = "gap"    -> [k \in 1 .. Count |-> D("lfd", 13 + k, 12, 8 * k * k)]

PieceCode(p, piece) ==
  CASE piece = "main"  -> Calling(p.main, "f")
    [] piece = "f"     -> Calling(p.f, "g")
    [] piece = "g"     -> Leaf(p.leaf)
    [] piece = "last"  -> <<D("addi", 3, 3, 1)>> \o Return
    [] piece = "decoy" -> Decoy(p.decoy)
    [] OTHER           -> HelperCode(piece)

Code(p) == FlattenSeq([n \in 1 .. Len(p.order) |-> PieceCode(p, p.order[n])])

\* The word at which a piece, or the k-th entry of a helper, begins.
WordOf(p, piece, k) ==
  LET n == CHOOSE n \in 1 .. Len(p.order) : p.order[n] = piece IN
  Len(FlattenSeq([j \in 1 .. (n - 1) |-> PieceCode(p, p.order[j])])) + 1
    + (IF piece \in Helpers THEN (EntryStep(piece) \div 4) * k ELSE 0)

CodeBase == 4096

Linked(p) ==
  <<[base |-> 1024, code |-> FALSE, words |-> <<>>],
    [base |-> CodeBase, code |-> TRUE, words |-> Code(p)]>>

TrueAddress(p, h) == CodeBase + 4 * (WordOf(p, h, 0) - 1)
=============================================================================
