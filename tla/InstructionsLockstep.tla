------------------------- MODULE InstructionsLockstep -------------------------
(***************************************************************************)
(* The generated code and the guest execute the same instruction, each on  *)
(* its own registers. They start from registers that agree in their low    *)
(* words, which is what a guest in 32-bit mode can tell, and in their high *)
(* words as well where `wide' says so: a doubleword instruction is only    *)
(* looked at there.                                                        *)
(***************************************************************************)
EXTENDS VectorLanes

CONSTANTS
  Words, FloatValues,  \* values of the registers
  SignedImmediates, UnsignedImmediates, Amounts, Masks,
  MaxSteps             \* bound: instructions of a behaviour

ASSUME MaxStepsAssumption == MaxSteps \in Nat

Power == INSTANCE PowerScalar
PowerV == INSTANCE PowerVector

VARIABLES
  gen,        \* registers of the generated code
  guest,      \* registers of the processor; rn is its rounding mode
  wide,       \* the high words agree too
  reported,   \* "has RC bit enabled but no comparison was generated"
  deviated,   \* parts in which a known deviation has been met
  steps

vars == <<gen, guest, wide, reported, deviated, steps>>

\* Instructions that read high words, and those that leave other ones than the
\* guest does.
DoubleOps == {"clrldi", "cmpd", "cmpdi", "cmpld", "cmpldi", "cntlzd", "divd", "divdu", "rldicl",
              "rldicr", "rldimi", "rotldi", "srad", "sradi", "srd"}
LeavesHigh(i) ==
  i.op \in {"addme", "divw", "divwu", "subfze"} \/ (i.op = "rlwimi" /\ i.mb > i.me)

\* Two roundings where the processor has one: a product that is rounded before
\* something is added to it, and a float rounded from a double that was rounded.
FusedOps == {"fmadd", "fmadds", "fmsub", "fmsubs", "fnmadds", "fnmsub", "fnmsubs"}
RoundsProduct(s, i) ==
  LET a == s.f[i.a]  b == s.f[i.b] IN
  i.op \in FusedOps /\ IsNumber(a) /\ IsNumber(b) /\ Double(a * b) # a * b
RoundsTwice(s, i) ==
  /\ i.op \in {"fadds", "fdivs", "fmadds", "fmsubs", "fmuls", "fnmadds", "fnmsubs", "fres", "fsqrts", "fsubs"}
  /\ LET exact == Power!ExactOf(s, i) IN IsNumber(exact) /\ Single(Double(exact)) # Single(exact)
RoundsLane(s, i) ==
  /\ i.op \in {"vmaddfp", "vnmsubfp"}
  /\ \E k \in {1, 2} :
       LET x == s.vf[i.a][k]  y == s.vf[i.b][k] IN IsNumber(x) /\ IsNumber(y) /\ Single(x * y) # x * y

\* What the generated code is known to do otherwise, by the part it shows in.
Deviations(s, i) ==
  LET Late(v, width) == v = -(2^(width - 1)) /\ s.r[i.b] % (2 * width) >= width
  IN {part \in {"carry", "condition", "register", "float", "lane"} :
       \/ part = "carry" /\ i.op = "addme"
       \/ part = "carry" /\ i.op = "sraw" /\ Late(S32(s.r[i.a]), W)
       \/ part = "carry" /\ i.op = "srad" /\ Late(S64(s.r[i.a]), 2 * W)
       \/ part = "condition" /\ i.rc /\ i.op \in {"clrldi", "rldicl", "rldicr", "rotldi"}
       \/ part = "register" /\ i.op = "mfocrf" /\ i.i # FieldSix
       \/ part = "float" /\ i.op \in {"fctid", "fctidz"} /\ s.f[i.a] = 2^(2 * W - 1)
       \/ part = "lane" /\ i.op \in {"vmaxfp", "vminfp"} /\ NaN \in {s.vf[i.a][1], s.vf[i.a][2]}
       \/ part = "float" /\ (RoundsProduct(s, i) \/ RoundsTwice(s, i))
       \/ part = "lane" /\ RoundsLane(s, i)
       \/ part = "float" /\ i.op = "mffs" /\ s.host = "arm" /\ s.csr \in {1, 2}}

----------------------------------------------------------------------------

NoCondition == [n \in Fields |-> [lt |-> 0, gt |-> 0, eq |-> 0, so |-> 0]]

\* The vectors are made of the same values, rounded to floats.
Integers(r) == [n \in 0 .. 2 |-> IF n = 2 THEN 0 ELSE r[n]]
Pairs(f) == [n \in 0 .. 2 |-> <<Single(f[n]), Single(f[(n + 1) % 3])>>]

\* Registers that differ in their high words when they are not wide.
Start(host, rn, r, f, so, ca, both) ==
  /\ gen = [r |-> r, f |-> f, cr |-> NoCondition, xer |-> [so |-> so, ca |-> ca],
            lr |-> r[1], ctr |-> 0, msr |-> 2^W - 1, host |-> host, csr |-> GuestToHost(host, rn),
            v |-> Integers(r), vf |-> Pairs(f)]
  /\ guest = [r |-> IF both THEN r ELSE [n \in DOMAIN r |-> Xor(r[n], (2^W - 1) * 2^W)],
              f |-> f, cr |-> NoCondition, xer |-> [so |-> so, ca |-> ca],
              lr |-> r[1], ctr |-> 0, msr |-> 2^W - 1, rn |-> rn, v |-> Integers(r), vf |-> Pairs(f)]
  /\ wide = both
  /\ reported = FALSE /\ deviated = {} /\ steps = 0

ZeroFloats == [n \in 0 .. 2 |-> 0]

Init ==
  \/ \E r \in [{0, 1} -> Words], ca \in {0, 1}, both \in BOOLEAN :
       Start("x86", 0, r, ZeroFloats, 1, ca, both)
  \/ \E f \in [0 .. 2 -> FloatValues] : Start("x86", 0, [n \in {0, 1} |-> 0], f, 1, 0, TRUE)
  \/ \E host \in {"x86", "arm"}, rn \in 0 .. 3 :
       Start(host, rn, [n \in {0, 1} |-> 2^W - 1], [n \in 0 .. 2 |-> n], 0, 1, TRUE)

Insn(op, rc, a, b, c, n, mask) ==
  [op |-> op, rc |-> rc, d |-> 0, a |-> a, b |-> b, c |-> c, i |-> n, mb |-> mask[1], me |-> mask[2]]

\* One instruction on both sides.
Execute(i, computed, expected) ==
  /\ steps < MaxSteps
  /\ wide \/ i.op \notin DoubleOps
  /\ gen' = computed
  /\ guest' = expected
  /\ wide' = (wide /\ ~LeavesHigh(i))
  /\ reported' = (reported \/ Diagnosed(i) \/ VectorDiagnosed(i))
  /\ deviated' = deviated \cup Deviations(gen, i)
  /\ steps' = steps + 1

\* Division by zero and of the smallest number by -1 stops the host program
\* and leaves an undefined result on the guest.
Divides(i) ==
  LET x == gen.r[i.a]  y == gen.r[i.b] IN
  /\ i.op \in {"divd", "divdu"} => y # 0
  /\ i.op \in {"divw", "divwu"} => U32(y) # 0
  /\ i.op = "divd" => ~(S64(x) = -(2^(2 * W - 1)) /\ S64(y) = -1)
  /\ i.op = "divw" => ~(S32(x) = -(2^(W - 1)) /\ S32(y) = -1)

\* An integer instruction of a group with the immediates it can have.
Integer(ops, immediates) ==
  \E op \in ops, rc \in BOOLEAN, a \in {0, 1}, n \in immediates, mask \in Masks :
    LET i == Insn(op, rc, a, 1, 0, n, mask) IN
    Divides(i) /\ Execute(i, Computed(gen, i), Power!Written(guest, i))

None == {0}
ImmediateSums == {"addi", "addic", "addis", "subfic", "mulli"}
ImmediateLogic == {"andi", "andis", "ori", "oris", "xori", "xoris"}
DoubleRotates == {"clrldi", "rldicl", "rldicr", "rldimi", "rotldi", "sradi"}
WordRotates == {"clrlwi", "rlwimi", "rlwinm", "rotlw", "rotlwi", "srawi"}

Plain(ops) ==
  \E op \in ops \ (ImmediateSums \cup ImmediateLogic), rc \in BOOLEAN, a \in {0, 1} :
    LET i == Insn(op, rc, a, 1, 0, 0, <<0, 0>>) IN
    Divides(i) /\ Execute(i, Computed(gen, i), Power!Written(guest, i))

WithImmediate(ops, immediates) ==
  \E op \in ops, a \in {0, 1}, n \in immediates :
    LET i == Insn(op, op \in {"addic", "andi", "andis"}, a, 1, 0, n, <<0, 0>>) IN
    Execute(i, Computed(gen, i), Power!Written(guest, i))

Turns(ops, amounts) ==
  \E op \in ops, rc \in BOOLEAN, n \in amounts, mask \in Masks :
    LET i == Insn(op, rc, 1, 0, 0, n, mask) IN
    Execute(i, Computed(gen, i), Power!Written(guest, i))

Add == Plain(AddOps) \/ WithImmediate(AddOps \cap ImmediateSums, SignedImmediates)
Subtract == Plain(SubtractOps) \/ WithImmediate(SubtractOps \cap ImmediateSums, SignedImmediates)
MultiplyOrDivide ==
  \/ Plain(MultiplyOps \cup DivideOps \cup CountOps)
  \/ WithImmediate(MultiplyOps \cap ImmediateSums, SignedImmediates)
Logic ==
  \/ Plain(AndOps \cup OrOps \cup XorOps)
  \/ WithImmediate(ImmediateLogic, UnsignedImmediates)
Shift == Plain(ShiftOps \ {"sradi", "srawi"})
RotateDouble == Turns(DoubleRotates, {n \in Amounts : n < 2 * W})
RotateWord == Turns(WordRotates, {n \in Amounts : n < W})

CompareValues ==
  \E op \in CompareOps, a \in {0, 1} :
  \E n \in IF op \in {"cmpdi", "cmpwi"} THEN SignedImmediates
           ELSE IF op \in {"cmpldi", "cmplwi"} THEN UnsignedImmediates ELSE None :
    LET i == Insn(op, FALSE, a, 1, 0, n, <<0, 0>>) IN
    Execute(i, Computed(gen, i), Power!Compared(guest, i))

Move ==
  \E op \in MoveOps, rc \in BOOLEAN, n \in Fields :
    LET i == Insn(op, rc /\ op = "mr", 1, 1, 0, n, <<0, 0>>) IN
    /\ op = "mtfsf" => IsNumber(gen.f[1])
    /\ Execute(i, Moved(gen, i),
               IF op = "mr" THEN Power!Written(guest, i) ELSE Power!Transferred(guest, i))

Float ==
  \E op \in FloatOps \cup {"fcmpu"} :
    LET i == Insn(op, FALSE, 0, 1, 2, 0, <<0, 0>>) IN
    Execute(i, Floated(gen, i), Power!Floating(guest, i))

VectorInsn(op, n, rc, a, b) == [op |-> op, n |-> n, rc |-> rc, d |-> 0, a |-> a, b |-> b, c |-> 2]

IntegerLanes ==
  \E op \in IntegerLaneOps, a \in {0, 1}, rc \in BOOLEAN : \E n \in Widths(op) :
    LET i == VectorInsn(op, n, rc /\ op \in {"vcmpequ", "vcmpgtu"}, a, 1) IN
    Execute(i, IntegerVector(gen, i), PowerV!Integers(guest, i, FieldSix))

FloatLanes ==
  \E op \in FloatLaneOps :
    LET i == VectorInsn(op, W, FALSE, 0, 1) IN
    Execute(i, FloatVector(gen, i), PowerV!Floats(guest, i))

FloatMasks ==
  \E op \in {"vcmpeqfp", "vcmpgefp", "vcmpgtfp"}, rc \in BOOLEAN, b \in {0, 1} :
    LET i == VectorInsn(op, W, rc, 0, b) IN
    Execute(i, FloatCompare(gen, i), PowerV!FloatMask(guest, i, FieldSix))

IntegersToFloats ==
  \E op \in {"vcfux", "vcfsx"} :
    LET i == VectorInsn(op, W, FALSE, 0, 1) IN
    Execute(i, FloatFromVector(gen, i), PowerV!FromIntegers(guest, i))

Next ==
  \/ Add \/ Subtract \/ MultiplyOrDivide \/ Logic \/ Shift \/ RotateDouble \/ RotateWord
  \/ CompareValues \/ Move \/ Float
  \/ IntegerLanes \/ FloatLanes \/ FloatMasks \/ IntegersToFloats

Spec == Init /\ [][Next]_vars

----------------------------------------------------------------------------

SameWord(x, y) == U32(x) = U32(y)

\* After any instruction the registers of the generated code hold what those of
\* the processor hold, in their low words always and in full as long as no
\* instruction has left a high word of its own (recompiler.cpp:680-2676).
RegistersAgree ==
  "register" \notin deviated =>
    /\ \A n \in {0, 1} : IF wide THEN gen.r[n] = guest.r[n] ELSE SameWord(gen.r[n], guest.r[n])
    /\ SameWord(gen.lr, guest.lr) /\ SameWord(gen.ctr, guest.ctr) /\ SameWord(gen.msr, guest.msr)

\* The comparisons emitted for the carry of each adding, subtracting and shifting
\* instruction are the carry out of one adder (recompiler.cpp:685, 699, 2049).
CarryAgrees == "carry" \notin deviated => gen.xer = guest.xer

\* Condition fields agree, after comparisons, dotted instructions and moves,
\* unless the recompiler said that it generated no comparison.
ConditionsAgree == "condition" \notin deviated /\ ~reported => gen.cr = guest.cr

\* Floating registers and the rounding mode agree (recompiler.cpp:1081-1224,
\* ppc_context.h:262-283).
FloatsAgree ==
  "float" \notin deviated =>
    gen.f = guest.f /\ gen.csr = GuestToHost(gen.host, guest.rn)

\* Every lane of a vector holds what the vector unit leaves there: the helpers
\* that stand for unsigned comparisons, signed averages, saturation and
\* conversions lose no border case (ppc_context.h:627-704).
LanesAgree == "lane" \notin deviated => gen.v = guest.v /\ gen.vf = guest.vf
===============================================================================
