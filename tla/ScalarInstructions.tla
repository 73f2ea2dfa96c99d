-------------------------- MODULE ScalarInstructions --------------------------
(***************************************************************************)
(* What the C++ that XenonRecomp/recompiler.cpp (678-2676) emits for one   *)
(* integer or floating point instruction does to the registers. An         *)
(* instruction is a record of its disassembled operands:                   *)
(*   [op, rc, d, a, b, c, i, mb, me]                                       *)
(* rc: a name that ends in a dot; d, a, b, c: register numbers in the      *)
(* order of insn.operands; i: immediate or shift; mb, me: mask.            *)
(* A register file is a record                                             *)
(*   r   uint64_t of each general register     xer  [so, ca]               *)
(*   f   double of each floating register      cr   [lt, gt, eq, so] of    *)
(*   lr, ctr, msr   as in PPCContext                  each field            *)
(*   host  "x86" or "arm", and csr, its rounding mode                      *)
(* A floating register holds a double or an integer that a conversion      *)
(* left there; both are integers here, and NaN.                            *)
(***************************************************************************)
EXTENDS HostArithmetic, Sequences

CONSTANTS
  NaN,
  Double(_),    \* the double nearest to a number
  Single(_),    \* the float nearest to a number
  Quotient(_, _), Root(_)

IsNumber(x) == x # NaN

\* Condition fields of a word; mfocrf is written for the sixth of eight.
Fields == 0 .. (W \div 4) - 1
FieldSix == (W \div 4) - 2

\* PPCCRRegister::compare
Compare(left, right, so) ==
  [lt |-> Flag(left < right), gt |-> Flag(left > right), eq |-> Flag(left = right), so |-> so]

CompareDoubles(left, right) ==
  IF IsNumber(left) /\ IsNumber(right) THEN Compare(left, right, 0)
  ELSE [lt |-> 0, gt |-> 0, eq |-> 0, so |-> 1]

X(s, i) == s.r[i.a]
Y(s, i) == s.r[i.b]

\* A result and the carry after it.
With(value, carry) == [v |-> U64(value), ca |-> carry]

\* "if (insn.operands[1] != 0)": register 0 stands for nothing.
OrZero(s, i) == IF i.a = 0 THEN 0 ELSE s.r[i.a]

----------------------------------------------------------------------------

\* Mutant of AddResult: addc compares with the 64-bit sum.
AddResultWide(s, i) ==
  With(X(s, i) + Y(s, i), Flag(U64(X(s, i) + Y(s, i)) < U32(X(s, i))))

\* add, addc, adde, addi, addic, addis, addme, addze. The sum of addme is one of
\* uint32_t, int and unsigned int: it is reduced before its high half is read.
AddResult(s, i) ==
  LET x == X(s, i)  y == Y(s, i)  ca == s.xer.ca IN
  CASE i.op = "add"   -> With(x + y, ca)
    [] i.op = "addc"  -> With(x + y, Flag(U32(x + y) < U32(x)))
    [] i.op = "adde"  -> With(x + y + ca, Flag(U32(x + y) < U32(x) \/ U32(x + y + ca) < ca))
    [] i.op = "addi"  -> With(OrZero(s, i) + S32(i.i), ca)
    [] i.op = "addic" -> With(x + S32(i.i), Flag(U32(x) > U32(-1 - i.i)))
    [] i.op = "addis" -> With(OrZero(s, i) + S32(i.i * 2^(W \div 2)), ca)
    [] i.op = "addme" -> LET temp == U32(U32(x) + ca + 2^W - 1) IN With(temp, temp \div 2^W)
    [] i.op = "addze" -> With(x + ca, Flag(U32(x + ca) < U32(x)))

\* and, andc, andi., andis.
AndResult(s, i) ==
  CASE i.op = "and"   -> And(X(s, i), Y(s, i))
    [] i.op = "andc"  -> And(X(s, i), Not(Y(s, i)))
    [] i.op = "andi"  -> And(X(s, i), i.i)
    [] i.op = "andis" -> And(X(s, i), i.i * 2^(W \div 2))

\* clrldi, clrlwi
ClearResult(s, i) ==
  CASE i.op = "clrldi" -> And(X(s, i), 2^(2 * W - i.i) - 1)
    [] i.op = "clrlwi" -> And(U32(X(s, i)), 2^(W - i.i) - 1)

\* cmpd to cmpwi; the immediate of cmpldi and cmplwi is not negative.
CompareResult(s, i) ==
  LET so == s.xer.so IN
  CASE i.op = "cmpd"   -> Compare(S64(X(s, i)), S64(Y(s, i)), so)
    [] i.op = "cmpdi"  -> Compare(S64(X(s, i)), S32(i.i), so)
    [] i.op = "cmpld"  -> Compare(X(s, i), Y(s, i), so)
    [] i.op = "cmpldi" -> Compare(X(s, i), i.i, so)
    [] i.op = "cmplw"  -> Compare(U32(X(s, i)), U32(Y(s, i)), so)
    [] i.op = "cmplwi" -> Compare(U32(X(s, i)), i.i, so)
    [] i.op = "cmpw"   -> Compare(S32(X(s, i)), S32(Y(s, i)), so)
    [] i.op = "cmpwi"  -> Compare(S32(X(s, i)), S32(i.i), so)

\* cntlzd, cntlzw
CountResult(s, i) ==
  CASE i.op = "cntlzd" -> IF X(s, i) = 0 THEN 2 * W ELSE LeadingZeros(X(s, i), 2 * W)
    [] i.op = "cntlzw" -> IF U32(X(s, i)) = 0 THEN W ELSE LeadingZeros(U32(X(s, i)), W)

\* Writes to the members s32 and u32 leave the other half of the register alone.
LowHalf(old, value) == old - U32(old) + U32(value)

\* divd to divwu, eqv, extsb, extsh, extsw
DivideResult(s, i) ==
  LET x == X(s, i)  y == Y(s, i) IN
  CASE i.op = "divd"  -> Truncated(S64(x), S64(y))
    [] i.op = "divdu" -> x \div y
    [] i.op = "divw"  -> LowHalf(s.r[i.d], Truncated(S32(x), S32(y)))
    [] i.op = "divwu" -> LowHalf(s.r[i.d], U32(x) \div U32(y))
    [] i.op = "eqv"   -> Not(Xor(x, y))
    [] i.op = "extsb" -> Signed(x, W \div 4)
    [] i.op = "extsh" -> Signed(x, W \div 2)
    [] i.op = "extsw" -> S32(x)

\* mulhw to mullw
MultiplyResult(s, i) ==
  LET x == X(s, i)  y == Y(s, i) IN
  CASE i.op = "mulhw"  -> (S32(x) * S32(y)) \div 2^W
    [] i.op = "mulhwu" -> (U32(x) * U32(y)) \div 2^W
    [] i.op = "mulld"  -> S64(x) * S64(y)
    [] i.op = "mulli"  -> S64(x) * S32(i.i)
    [] i.op = "mullw"  -> S32(x) * S32(y)

\* nand to oris, neg among them
OrResult(s, i) ==
  LET x == X(s, i)  y == Y(s, i) IN
  CASE i.op = "nand" -> Not(And(x, y))
    [] i.op = "neg"  -> -S64(x)
    [] i.op = "nor"  -> Not(Or(x, y))
    [] i.op = "not"  -> Not(x)
    [] i.op = "or"   -> Or(x, y)
    [] i.op = "orc"  -> Or(x, Not(y))
    [] i.op = "ori"  -> Or(x, i.i)
    [] i.op = "oris" -> Or(x, i.i * 2^(W \div 2))

\* rldicl, rldicr, rldimi, rlwimi, rlwinm, rotldi, rotlw, rotlwi
RotateResult(s, i) ==
  LET x == X(s, i)
      word == U32(x)
      Insert(rotated, mask) == Or(And(rotated, mask), And(s.r[i.d], Not(mask)))
      wordMask == ComputeMask(i.mb + W, i.me + W)
  IN
  CASE i.op = "rldicl" -> And(Rotate(x, i.i, 2 * W), ComputeMask(i.mb, 2 * W - 1))
    [] i.op = "rldicr" -> And(Rotate(x, i.i, 2 * W), ComputeMask(0, i.mb))
    [] i.op = "rldimi" -> Insert(Rotate(x, i.i, 2 * W), ComputeMask(i.mb, -1 - i.i))
    [] i.op = "rlwimi" -> Insert(Rotate(word, i.i, W), wordMask)
    [] i.op = "rlwinm" -> And(Rotate(word + U32(x) * 2^W, i.i, 2 * W), wordMask)
    [] i.op = "rotldi" -> Rotate(x, i.i, 2 * W)
    [] i.op = "rotlw"  -> Rotate(word, Y(s, i) % W, W)
    [] i.op = "rotlwi" -> Rotate(word, i.i, W)

\* sld to srw. A count has one bit more than a position in the register.
ShiftResult(s, i) ==
  LET x == X(s, i)
      ca == s.xer.ca
      doubleCount == Y(s, i) % (4 * W)
      wordCount == Y(s, i) % (2 * W)
      temp == IF doubleCount > 2 * W - 1 THEN 2 * W - 1 ELSE doubleCount
      temp32 == IF wordCount > W - 1 THEN W - 1 ELSE wordCount
      Lost(v, n) == Flag(v < 0 /\ (v \div 2^n) * 2^n # v)
      Masked(v, bits) == Flag(v < 0 /\ And(bits, ComputeMask(2 * W - i.i, 2 * W - 1)) # 0)
  IN
  CASE i.op = "sld"   -> With(IF doubleCount >= 2 * W THEN 0 ELSE ShiftLeft(x, doubleCount, 2 * W), ca)
    [] i.op = "slw"   -> With(IF wordCount >= W THEN 0 ELSE ShiftLeft(x, wordCount, W), ca)
    [] i.op = "srad"  -> With(S64(x) \div 2^temp, Lost(S64(x), temp))
    [] i.op = "sradi" -> With(S64(x) \div 2^i.i, IF i.i = 0 THEN 0 ELSE Masked(S64(x), x))
    [] i.op = "sraw"  -> With(S32(x) \div 2^temp32, Lost(S32(x), temp32))
    [] i.op = "srawi" -> With(S32(x) \div 2^i.i, IF i.i = 0 THEN 0 ELSE Masked(S32(x), U32(x)))
    [] i.op = "srd"   -> With(IF doubleCount >= 2 * W THEN 0 ELSE x \div 2^doubleCount, ca)
    [] i.op = "srw"   -> With(IF wordCount >= W THEN 0 ELSE U32(x) \div 2^wordCount, ca)

\* subf, subfc, subfe, subfic, subfze
SubtractResult(s, i) ==
  LET x == X(s, i)  y == Y(s, i)  ca == s.xer.ca
      inverse == U32(-1 - x)
  IN
  CASE i.op = "subf"   -> With(S64(y) - S64(x), ca)
    [] i.op = "subfc"  -> With(S64(y) - S64(x), Flag(U32(y) >= U32(x)))
    [] i.op = "subfe"  -> With(Not(x) + y + ca,
                               Flag(U32(inverse + y) < inverse \/ U32(inverse + y + ca) < ca))
    [] i.op = "subfic" -> With(S32(i.i) - S64(x), Flag(U32(x) <= U32(i.i)))
    [] i.op = "subfze" -> With(inverse + ca, Flag(U32(inverse + ca) < inverse))

\* xor, xori, xoris
XorResult(s, i) ==
  CASE i.op = "xor"   -> Xor(X(s, i), Y(s, i))
    [] i.op = "xori"  -> Xor(X(s, i), i.i)
    [] i.op = "xoris" -> Xor(X(s, i), i.i * 2^(W \div 2))

----------------------------------------------------------------------------

AddOps == {"add", "addc", "adde", "addi", "addic", "addis", "addme", "addze"}
AndOps == {"and", "andc", "andi", "andis"}
ClearOps == {"clrldi", "clrlwi"}
CompareOps == {"cmpd", "cmpdi", "cmpld", "cmpldi", "cmplw", "cmplwi", "cmpw", "cmpwi"}
CountOps == {"cntlzd", "cntlzw"}
DivideOps == {"divd", "divdu", "divw", "divwu", "eqv", "extsb", "extsh", "extsw"}
MultiplyOps == {"mulhw", "mulhwu", "mulld", "mulli", "mullw"}
OrOps == {"nand", "neg", "nor", "not", "or", "orc", "ori", "oris"}
RotateOps == {"rldicl", "rldicr", "rldimi", "rlwimi", "rlwinm", "rotldi", "rotlw", "rotlwi"}
ShiftOps == {"sld", "slw", "srad", "sradi", "sraw", "srawi", "srd", "srw"}
SubtractOps == {"subf", "subfc", "subfe", "subfic", "subfze"}
XorOps == {"xor", "xori", "xoris"}

\* "has RC bit enabled but no comparison was generated": the instructions
\* whose dotted form shares a case that never compares.
Diagnosed(i) ==
  i.rc /\ i.op \in {"cntlzd", "cntlzw", "divd", "mulhw", "mulld", "nand", "nor", "orc",
                    "rldimi", "rlwimi", "sld", "srad", "sradi", "srd"}

\* The comparison printed for a dotted name.
Recorded(s, i) ==
  LET v == s.r[i.d]
      left == IF i.op \in {"clrldi", "rldicl", "rldicr", "rotldi"} THEN S64(v) ELSE S32(v)
  IN IF i.rc /\ ~Diagnosed(i) THEN [s EXCEPT !.cr[0] = Compare(left, 0, s.xer.so)] ELSE s

\* An instruction that computes a value, and one that computes a carry too.
Assigned(s, i, value) == Recorded([s EXCEPT !.r[i.d] = U64(value)], i)
Carried(s, i, result) == Assigned([s EXCEPT !.xer.ca = result.ca], i, result.v)

Computed(s, i) ==
  CASE i.op \in AddOps      -> Carried(s, i, AddResult(s, i))
    [] i.op \in AndOps      -> Assigned(s, i, AndResult(s, i))
    [] i.op \in ClearOps    -> Assigned(s, i, ClearResult(s, i))
    [] i.op \in CompareOps  -> [s EXCEPT !.cr[i.d] = CompareResult(s, i)]
    [] i.op \in CountOps    -> Assigned(s, i, CountResult(s, i))
    [] i.op \in DivideOps   -> Assigned(s, i, DivideResult(s, i))
    [] i.op \in MultiplyOps -> Assigned(s, i, MultiplyResult(s, i))
    [] i.op \in OrOps       -> Assigned(s, i, OrResult(s, i))
    [] i.op \in RotateOps   -> Assigned(s, i, RotateResult(s, i))
    [] i.op \in ShiftOps    -> Carried(s, i, ShiftResult(s, i))
    [] i.op \in SubtractOps -> Carried(s, i, SubtractResult(s, i))
    [] i.op \in XorOps      -> Assigned(s, i, XorResult(s, i))

----------------------------------------------------------------------------

\* Bit k of a condition register, counted from the highest.
ConditionBit(cr, k) == cr[k \div 4][<<"lt", "gt", "eq", "so">>[(k % 4) + 1]]

\* Mutant of ToCondition: the fields are read from the other end.
ToConditionReversed(value) ==
  LET Bit(k) == Flag(W - 1 - k \in Bits(value)) IN
  [n \in Fields |-> LET m == Cardinality(Fields) - 1 - n IN
    [lt |-> Bit(4 * m), gt |-> Bit(4 * m + 1), eq |-> Bit(4 * m + 2), so |-> Bit(4 * m + 3)]]

\* mtcr
ToCondition(value) ==
  LET Bit(k) == Flag(W - 1 - k \in Bits(value)) IN
  [n \in Fields |-> [lt |-> Bit(4 * n), gt |-> Bit(4 * n + 1),
                     eq |-> Bit(4 * n + 2), so |-> Bit(4 * n + 3)]]

\* mfcr
FromCondition(cr) == Number({W - 1 - k : k \in {k \in 0 .. W - 1 : ConditionBit(cr, k) = 1}})

\* The rounding modes: nearest, towards zero, up, down for the guest.
GuestToHost(host, mode) == IF host = "x86" THEN <<0, 3, 2, 1>>[mode + 1] ELSE <<0, 3, 1, 2>>[mode + 1]

\* One table for both hosts.
HostToGuest(mode) == <<0, 3, 2, 1>>[mode + 1]

\* mtmsrd changes two bits of the word.
MsrMask == 2^(W \div 2 - 1) + 2

MoveOps == {"mfcr", "mffs", "mflr", "mfmsr", "mfocrf", "mr", "mtcr", "mtctr", "mtfsf",
            "mtlr", "mtmsrd", "mtxer"}

\* mfcr to mtxer. mfocrf reads the sixth field whatever its operand is.
Moved(s, i) ==
  LET x == s.r[i.d]
      six == s.cr[FieldSix]
  IN
  CASE i.op = "mfcr"   -> [s EXCEPT !.r[i.d] = FromCondition(s.cr)]
    [] i.op = "mffs"   -> [s EXCEPT !.f[i.d] = HostToGuest(s.csr)]
    [] i.op = "mflr"   -> [s EXCEPT !.r[i.d] = s.lr]
    [] i.op = "mfmsr"  -> [s EXCEPT !.r[i.d] = s.msr]
    [] i.op = "mfocrf" -> [s EXCEPT !.r[i.d] = 128 * six.lt + 64 * six.gt + 32 * six.eq + 16 * six.so]
    [] i.op = "mr"     -> Assigned(s, i, s.r[i.a])
    [] i.op = "mtcr"   -> [s EXCEPT !.cr = ToCondition(x)]
    [] i.op = "mtctr"  -> [s EXCEPT !.ctr = x]
    [] i.op = "mtfsf"  -> [s EXCEPT !.csr = GuestToHost(s.host, s.f[i.a] % 4)]
    [] i.op = "mtlr"   -> [s EXCEPT !.lr = x]
    [] i.op = "mtmsrd" -> [s EXCEPT !.msr = Or(And(U32(x), MsrMask), And(s.msr, Not(MsrMask)))]
    [] i.op = "mtxer"  -> [s EXCEPT !.xer = [so |-> Flag(W - 1 \in Bits(x)), ca |-> Flag(W - 3 \in Bits(x))]]

----------------------------------------------------------------------------

\* cvtsd_si64 and cvtsd_si32: the smallest integer stands for what does not fit.
Converted(x, width) ==
  IF IsNumber(x) /\ x >= -(2^(width - 1)) /\ x < 2^(width - 1) THEN x ELSE -(2^(width - 1))

\* Mutant of Saturated: cvtsd alone.
SaturatedNever(x, limit, width) == Converted(x, width)

\* fctid, fctidz, fctiwz: what is larger than the limit becomes the largest integer.
Saturated(x, limit, width) ==
  IF IsNumber(x) /\ x > limit THEN 2^(width - 1) - 1 ELSE Converted(x, width)

FloatOps == {"fabs", "fadd", "fadds", "fcfid", "fctid", "fctidz", "fctiwz", "fdiv", "fdivs",
             "fmadd", "fmadds", "fmr", "fmsub", "fmsubs", "fmul", "fmuls", "fnabs", "fneg",
             "fnmadds", "fnmsub", "fnmsubs", "fres", "frsp", "fsel", "fsqrt", "fsqrts",
             "fsub", "fsubs"}

\* a * b + c of doubles: two operations, each of which rounds.
ProductPlus(a, b, c) == Double(Double(a * b) + c)

\* The expressions of fabs to fsubs over doubles, in which each operation rounds;
\* the names that end in s round the double once more, to a float.
FloatResult(s, i) ==
  LET a == s.f[i.a]  b == s.f[i.b]  c == s.f[i.c]
      If1(e) == IF IsNumber(a) THEN e ELSE NaN
      If2(e) == IF IsNumber(a) /\ IsNumber(b) THEN e ELSE NaN
      If3(e) == IF IsNumber(a) /\ IsNumber(b) /\ IsNumber(c) THEN e ELSE NaN
      Magnitude(x) == IF x < 0 THEN -x ELSE x
      largest == Double(2^(2 * W - 1) - 1)
  IN
  CASE i.op = "fabs"    -> If1(Magnitude(a))
    [] i.op = "fadd"    -> If2(Double(a + b))
    [] i.op = "fadds"   -> If2(Single(Double(a + b)))
    [] i.op = "fcfid"   -> If1(Double(a))
    [] i.op \in {"fctid", "fctidz"} -> Saturated(a, largest, 2 * W)
    [] i.op = "fctiwz"  -> Saturated(a, 2^(W - 1) - 1, W)
    [] i.op = "fdiv"    -> If2(Double(Quotient(a, b)))
    [] i.op = "fdivs"   -> If2(Single(Double(Quotient(a, b))))
    [] i.op = "fmadd"   -> If3(ProductPlus(a, b, c))
    [] i.op = "fmadds"  -> If3(Single(ProductPlus(a, b, c)))
    [] i.op = "fmr"     -> a
    [] i.op = "fmsub"   -> If3(ProductPlus(a, b, -c))
    [] i.op = "fmsubs"  -> If3(Single(ProductPlus(a, b, -c)))
    [] i.op = "fmul"    -> If2(Double(a * b))
    [] i.op = "fmuls"   -> If2(Single(Double(a * b)))
    [] i.op = "fnabs"   -> If1(-Magnitude(a))
    [] i.op = "fneg"    -> If1(-a)
    [] i.op = "fnmadds" -> If3(Single(-ProductPlus(a, b, c)))
    [] i.op = "fnmsub"  -> If3(-ProductPlus(a, b, -c))
    [] i.op = "fnmsubs" -> If3(Single(-ProductPlus(a, b, -c)))
    [] i.op = "fres"    -> If1(Single(Double(Quotient(1, a))))
    [] i.op = "frsp"    -> If1(Single(a))
    [] i.op = "fsel"    -> IF IsNumber(a) /\ a >= 0 THEN b ELSE c
    [] i.op = "fsqrt"   -> If1(Double(Root(a)))
    [] i.op = "fsqrts"  -> If1(Single(Double(Root(a))))
    [] i.op = "fsub"    -> If2(Double(a - b))
    [] i.op = "fsubs"   -> If2(Single(Double(a - b)))

Floated(s, i) ==
  IF i.op = "fcmpu" THEN [s EXCEPT !.cr[i.d] = CompareDoubles(s.f[i.a], s.f[i.b])]
  ELSE [s EXCEPT !.f[i.d] = FloatResult(s, i)]
===============================================================================
