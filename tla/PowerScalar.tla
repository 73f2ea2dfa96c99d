------------------------------ MODULE PowerScalar ------------------------------
(***************************************************************************)
(* The PowerPC architecture's account of the same instructions, in the     *)
(* 32-bit mode of the guest: carries and recorded conditions are those of  *)
(* the low word. External: the repository has no text of it. One adder,    *)
(* bits of a mask as a set and arithmetic shifts as division stand where   *)
(* the generated code has expressions of its own for each instruction.     *)
(***************************************************************************)
EXTENDS HostArithmetic, Sequences

CONSTANTS NaN, Double(_), Single(_), Quotient(_, _), Root(_)

LOCAL A(g, i) == g.r[i.a]
LOCAL B(g, i) == g.r[i.b]

\* The sum of two registers and a carry in, with the carry out of the word.
Adder(x, y, carry) ==
  [v |-> U64(x + y + carry), ca |-> (U32(x) + U32(y) + carry) \div 2^W]

\* x + y that does not touch the carry.
Sum(g, x, y) == [v |-> U64(x + y), ca |-> g.xer.ca]

SumOf(g, i) ==
  LET x == A(g, i)  y == B(g, i)  ca == g.xer.ca
      si == S32(i.i)
      x0 == IF i.a = 0 THEN 0 ELSE x
  IN
  CASE i.op = "add"    -> Sum(g, x, y)
    [] i.op = "addc"   -> Adder(x, y, 0)
    [] i.op = "adde"   -> Adder(x, y, ca)
    [] i.op = "addi"   -> Sum(g, x0, si)
    [] i.op = "addic"  -> Adder(x, si, 0)
    [] i.op = "addis"  -> Sum(g, x0, si * 2^(W \div 2))
    [] i.op = "addme"  -> Adder(x, -1, ca)
    [] i.op = "addze"  -> Adder(x, 0, ca)
    [] i.op = "subf"   -> Sum(g, y, -x)
    [] i.op = "subfc"  -> Adder(Not(x), y, 1)
    [] i.op = "subfe"  -> Adder(Not(x), y, ca)
    [] i.op = "subfic" -> Adder(Not(x), si, 1)
    [] i.op = "subfze" -> Adder(Not(x), 0, ca)

\* Positions first to last of a doubleword, from the highest, as a set of bits.
MaskBits(first, last) ==
  LET Between(k) == IF first <= last THEN first <= k /\ k <= last ELSE k >= first \/ k <= last
  IN {2 * W - 1 - k : k \in {k \in 0 .. 2 * W - 1 : Between(k)}}

\* The bits of x turned left, of a doubleword or of a word in both its halves.
Turned(x, n) == {(k + n) % (2 * W) : k \in Bits(x)}
TurnedWord(x, n) == LET low == {(k + n) % W : k \in Bits(U32(x))} IN low \cup {k + W : k \in low}

RotationOf(g, i) ==
  LET x == A(g, i)
      kept == Bits(g.r[i.d])
      Into(bits, mask) == Number((bits \cap mask) \cup (kept \ mask))
      Under(bits, mask) == Number(bits \cap mask)
      last == 2 * W - 1
  IN
  CASE i.op = "rldicl" -> Under(Turned(x, i.i), MaskBits(i.mb, last))
    [] i.op = "rldicr" -> Under(Turned(x, i.i), MaskBits(0, i.mb))
    [] i.op = "rldimi" -> Into(Turned(x, i.i), MaskBits(i.mb, last - i.i))
    [] i.op = "rlwimi" -> Into(TurnedWord(x, i.i), MaskBits(i.mb + W, i.me + W))
    [] i.op = "rlwinm" -> Under(TurnedWord(x, i.i), MaskBits(i.mb + W, i.me + W))
    [] i.op = "rotldi" -> Under(Turned(x, i.i), MaskBits(0, last))
    [] i.op = "rotlw"  -> Under(TurnedWord(x, B(g, i) % W), MaskBits(W, last))
    [] i.op = "rotlwi" -> Under(TurnedWord(x, i.i), MaskBits(W, last))
    [] i.op = "clrldi" -> Under(Turned(x, 0), MaskBits(i.i, last))
    [] i.op = "clrlwi" -> Under(TurnedWord(x, 0), MaskBits(W + i.i, last))

\* A right shift of a signed number: the carry says that a negative one lost bits.
Algebraic(v, n) == [v |-> v \div 2^n, ca |-> Flag(v < 0 /\ v % 2^n # 0)]

ShiftOf(g, i) ==
  LET x == A(g, i)
      double == B(g, i) % (4 * W)
      word == B(g, i) % (2 * W)
      Keep(bits) == [v |-> Number(bits), ca |-> g.xer.ca]
  IN
  CASE i.op = "sld"   -> Keep({k + double : k \in Bits(x)} \cap (0 .. 2 * W - 1))
    [] i.op = "slw"   -> Keep({k + word : k \in Bits(U32(x))} \cap (0 .. W - 1))
    [] i.op = "srd"   -> Keep({k - double : k \in Bits(x)} \cap (0 .. 2 * W - 1))
    [] i.op = "srw"   -> Keep({k - word : k \in Bits(U32(x))} \cap (0 .. W - 1))
    [] i.op = "srad"  -> Algebraic(S64(x), IF double >= 2 * W THEN 2 * W ELSE double)
    [] i.op = "sradi" -> Algebraic(S64(x), i.i)
    [] i.op = "sraw"  -> Algebraic(S32(x), word)
    [] i.op = "srawi" -> Algebraic(S32(x), i.i)

\* Bit by bit.
LogicOf(g, i) ==
  LET all == 0 .. 2 * W - 1
      x == Bits(A(g, i))  y == Bits(B(g, i))
      ui == Bits(i.i)
      shifted == Bits(i.i * 2^(W \div 2))
  IN Number(
  CASE i.op = "and"   -> x \cap y
    [] i.op = "andc"  -> x \ y
    [] i.op = "andi"  -> x \cap ui
    [] i.op = "andis" -> x \cap shifted
    [] i.op = "eqv"   -> {k \in all : (k \in x) <=> (k \in y)}
    [] i.op = "nand"  -> all \ (x \cap y)
    [] i.op = "nor"   -> all \ (x \cup y)
    [] i.op = "not"   -> all \ x
    [] i.op = "or"    -> x \cup y
    [] i.op = "orc"   -> x \cup (all \ y)
    [] i.op = "ori"   -> x \cup ui
    [] i.op = "oris"  -> x \cup shifted
    [] i.op = "xor"   -> {k \in all : (k \in x) # (k \in y)}
    [] i.op = "xori"  -> {k \in all : (k \in x) # (k \in ui)}
    [] i.op = "xoris" -> {k \in all : (k \in x) # (k \in shifted)})

\* The number of zeros before the first one.
ZerosBefore(x, width) == Cardinality({k \in 0 .. width - 1 : x % 2^width < 2^k})

ArithmeticOf(g, i) ==
  LET x == A(g, i)  y == B(g, i) IN
  CASE i.op = "cntlzd" -> ZerosBefore(x, 2 * W)
    [] i.op = "cntlzw" -> ZerosBefore(x, W)
    [] i.op = "divd"   -> Truncated(S64(x), S64(y))
    [] i.op = "divdu"  -> x \div y
    [] i.op = "divw"   -> Truncated(S32(x), S32(y))
    [] i.op = "divwu"  -> U32(x) \div U32(y)
    [] i.op = "extsb"  -> Signed(x, W \div 4)
    [] i.op = "extsh"  -> Signed(x, W \div 2)
    [] i.op = "extsw"  -> S32(x)
    [] i.op = "mr"     -> x
    [] i.op = "mulhw"  -> (S32(x) * S32(y)) \div 2^W
    [] i.op = "mulhwu" -> (U32(x) * U32(y)) \div 2^W
    [] i.op = "mulld"  -> S64(x) * S64(y)
    [] i.op = "mulli"  -> S64(x) * S32(i.i)
    [] i.op = "mullw"  -> S32(x) * S32(y)
    [] i.op = "neg"    -> -x

SumOps == {"add", "addc", "adde", "addi", "addic", "addis", "addme", "addze",
           "subf", "subfc", "subfe", "subfic", "subfze"}
RotationOps == {"clrldi", "clrlwi", "rldicl", "rldicr", "rldimi", "rlwimi", "rlwinm",
                "rotldi", "rotlw", "rotlwi"}
ShiftsOps == {"sld", "slw", "srad", "sradi", "sraw", "srawi", "srd", "srw"}
LogicOps == {"and", "andc", "andi", "andis", "eqv", "nand", "nor", "not", "or", "orc", "ori",
             "oris", "xor", "xori", "xoris"}

\* Which of left and right is the smaller one, and a copy of the overflow summary.
Relation(g, left, right) ==
  [lt |-> Flag(left < right), gt |-> Flag(right < left), eq |-> Flag(left = right), so |-> g.xer.so]

\* The whole of an instruction that writes a register: the record bit compares
\* the low word with zero.
Written(g, i) ==
  LET result == CASE i.op \in SumOps      -> SumOf(g, i)
                  [] i.op \in RotationOps -> [v |-> RotationOf(g, i), ca |-> g.xer.ca]
                  [] i.op \in ShiftsOps   -> ShiftOf(g, i)
                  [] i.op \in LogicOps    -> [v |-> LogicOf(g, i), ca |-> g.xer.ca]
                  [] OTHER                -> [v |-> ArithmeticOf(g, i), ca |-> g.xer.ca]
      after == [g EXCEPT !.r[i.d] = U64(result.v), !.xer.ca = result.ca]
  IN IF i.rc THEN [after EXCEPT !.cr[0] = Relation(g, S32(result.v), 0)] ELSE after

\* l: doublewords; the last letters say how the two are read.
Compared(g, i) ==
  LET x == A(g, i)
      y == IF i.op \in {"cmpdi", "cmpwi"} THEN S32(i.i)
           ELSE IF i.op \in {"cmpldi", "cmplwi"} THEN i.i ELSE B(g, i)
  IN [g EXCEPT !.cr[i.d] =
       CASE i.op \in {"cmpd", "cmpdi"}   -> Relation(g, S64(x), S64(y))
         [] i.op \in {"cmpld", "cmpldi"} -> Relation(g, x, y)
         [] i.op \in {"cmpw", "cmpwi"}   -> Relation(g, S32(x), S32(y))
         [] i.op \in {"cmplw", "cmplwi"} -> Relation(g, U32(x), U32(y))]

\* The condition register as the bits of a word, the first field highest.
Packed(cr) ==
  Number(UNION {{W - 1 - 4 * n - k : k \in {k \in 0 .. 3 : <<cr[n].lt, cr[n].gt, cr[n].eq, cr[n].so>>[k + 1] = 1}}
                : n \in DOMAIN cr})

\* Moves between register files; mfocrf names the field it wants.
Transferred(g, i) ==
  LET x == g.r[i.d]  bits == Bits(x)
      One(k) == Flag(k \in bits)
      MsrBits == {1, W \div 2 - 1}
  IN
  CASE i.op = "mfcr"   -> [g EXCEPT !.r[i.d] = Packed(g.cr)]
    [] i.op = "mfocrf" -> [g EXCEPT !.r[i.d] =
                             Packed([n \in DOMAIN g.cr |-> IF n = i.i THEN g.cr[n]
                                                           ELSE [lt |-> 0, gt |-> 0, eq |-> 0, so |-> 0]])]
    [] i.op = "mffs"   -> [g EXCEPT !.f[i.d] = g.rn]
    [] i.op = "mtfsf"  -> [g EXCEPT !.rn = g.f[i.a] % 4]
    [] i.op = "mflr"   -> [g EXCEPT !.r[i.d] = g.lr]
    [] i.op = "mtlr"   -> [g EXCEPT !.lr = x]
    [] i.op = "mtctr"  -> [g EXCEPT !.ctr = x]
    [] i.op = "mfmsr"  -> [g EXCEPT !.r[i.d] = g.msr]
    [] i.op = "mtmsrd" -> [g EXCEPT !.msr = Number((bits \cap MsrBits) \cup (Bits(g.msr) \ MsrBits))]
    [] i.op = "mtcr"   -> [g EXCEPT !.cr = [n \in DOMAIN g.cr |->
                             LET top == W - 1 - 4 * n IN
                             [lt |-> One(top), gt |-> One(top - 1), eq |-> One(top - 2), so |-> One(top - 3)]]]
    [] i.op = "mtxer"  -> [g EXCEPT !.xer = [so |-> One(W - 1), ca |-> One(W - 3)]]
----------------------------------------------------------------------------

SingleOps == {"fadds", "fdivs", "fmadds", "fmsubs", "fmuls", "fnmadds", "fnmsubs", "fres", "frsp",
              "fsqrts", "fsubs"}
FusedOps == {"fmadd", "fmadds", "fmsub", "fmsubs", "fnmadds", "fnmsub", "fnmsubs"}
BinaryOps == {"fadd", "fadds", "fdiv", "fdivs", "fmul", "fmuls", "fsub", "fsubs"}

\* The nearest integer of so many bits; the smallest one for what is no number.
Nearest(x, width) ==
  LET low == -(2^(width - 1))  high == 2^(width - 1) - 1 IN
  IF x = NaN THEN low ELSE IF x < low THEN low ELSE IF x > high THEN high ELSE x

\* +-(a * b +- c).
Fused(op, a, b, c) ==
  LET sum == a * b + (IF op \in {"fmsub", "fmsubs", "fnmsub", "fnmsubs"} THEN -c ELSE c) IN
  IF op \in {"fnmadds", "fnmsub", "fnmsubs"} THEN -sum ELSE sum

\* The result with as many digits as it takes.
ExactOf(g, i) ==
  LET a == g.f[i.a]  b == g.f[i.b]  c == g.f[i.c]
      operands == IF i.op \in FusedOps THEN {a, b, c} ELSE IF i.op \in BinaryOps THEN {a, b} ELSE {a}
  IN
  IF NaN \in operands THEN NaN
  ELSE
    CASE i.op \in {"fcfid", "frsp"} -> a
      [] i.op = "fres" -> Quotient(1, a)
      [] i.op \in {"fsqrt", "fsqrts"} -> Root(a)
      [] i.op \in {"fadd", "fadds"} -> a + b
      [] i.op \in {"fsub", "fsubs"} -> a - b
      [] i.op \in {"fmul", "fmuls"} -> a * b
      [] i.op \in {"fdiv", "fdivs"} -> Quotient(a, b)
      [] i.op \in FusedOps -> Fused(i.op, a, b, c)

\* An instruction that computes rounds what it computes, once.
FloatingOf(g, i) ==
  LET a == g.f[i.a]  b == g.f[i.b]  c == g.f[i.c] IN
  CASE i.op = "fsel"   -> IF a = NaN THEN c ELSE IF a >= 0 THEN b ELSE c
    [] i.op \in {"fctid", "fctidz"} -> Nearest(a, 2 * W)
    [] i.op = "fctiwz" -> Nearest(a, W)
    [] i.op = "fmr"    -> a
    [] i.op = "fabs"   -> IF a # NaN /\ a < 0 THEN -a ELSE a
    [] i.op = "fnabs"  -> IF a # NaN /\ a > 0 THEN -a ELSE a
    [] i.op = "fneg"   -> IF a # NaN THEN -a ELSE a
    [] OTHER -> LET exact == ExactOf(g, i) IN
         IF exact = NaN THEN NaN ELSE IF i.op \in SingleOps THEN Single(exact) ELSE Double(exact)

Floating(g, i) ==
  IF i.op = "fcmpu"
    THEN LET a == g.f[i.a]  b == g.f[i.b]
             ordered == a # NaN /\ b # NaN
         IN [g EXCEPT !.cr[i.d] = [lt |-> Flag(ordered /\ a < b), gt |-> Flag(ordered /\ b < a),
                                   eq |-> Flag(ordered /\ a = b), so |-> Flag(~ordered)]]
    ELSE [g EXCEPT !.f[i.d] = FloatingOf(g, i)]
===============================================================================
