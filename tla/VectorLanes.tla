------------------------------ MODULE VectorLanes ------------------------------
(***************************************************************************)
(* The vector instructions that work on each lane by itself, as            *)
(* XenonRecomp/recompiler.cpp (2097-2657) builds them from host intrinsics *)
(* and from the helpers of XenonUtils/ppc_context.h (627-704). To the      *)
(* register file come                                                      *)
(*   v   a vector of integers: 2W bits, two words, four halves, eight bytes *)
(*   vf  a vector of floats: two of them                                   *)
(* An operation on lanes of n bits is [op, n, ...].                        *)
(***************************************************************************)
EXTENDS ScalarInstructions

\* Bits of a word that a float does not hold (eight of 32).
Excess == 2

LaneOf(x, k, n) == (x \div 2^(n * k)) % 2^n
LaneCount(n) == (2 * W) \div n

\* The vector whose lanes are computed from the same lanes of two vectors.
Lanes(n, x, y, Op(_, _)) ==
  MapThenSumSet(LAMBDA k : (Op(LaneOf(x, k, n), LaneOf(y, k, n)) % 2^n) * 2^(n * k),
                0 .. LaneCount(n) - 1)

Least(x, y) == IF x < y THEN x ELSE y
SignBit(n) == 2^(n - 1)
Flipped(x, n) == IF x >= SignBit(n) THEN x - SignBit(n) ELSE x + SignBit(n)
Ones(b, n) == IF b THEN 2^n - 1 ELSE 0

\* simde_mm_adds_epu32, simde_mm_subs_epu32
AddSaturated(x, y, n) == x + Least(2^n - 1 - x, y)
SubtractSaturated(x, y, n) == x - Least(x, y)

\* simde_mm_avg_epi8, simde_mm_avg_epi16, of the host's unsigned average
Average(x, y, n) == Flipped((Flipped(x, n) + Flipped(y, n) + 1) \div 2, n)

\* simde_mm_cmpgt_epu8, simde_mm_cmpgt_epu16, of the host's signed comparison
Above(x, y, n) == Ones(Signed(Flipped(x, n), n) > Signed(Flipped(y, n), n), n)

\* vsubsws: INT_MAX and INT_MIN where the difference does not fit.
Clipped(d, n) ==
  IF d > SignBit(n) - 1 THEN SignBit(n) - 1 ELSE IF d < -SignBit(n) THEN -SignBit(n) ELSE d

\* vslb, vslh, vslw
ShiftLane(x, y, n) == ShiftLeft(x, y % n, n)

\* vnor and vor: a register with itself is only copied.
OrVector(i, x, y) ==
  IF i.op = "vnor" THEN Not(Or(x, y)) ELSE IF i.a # i.b THEN Or(x, y) ELSE x

\* vxor: a register with itself is only cleared.
XorVector(i, x, y) == IF i.a # i.b THEN Xor(x, y) ELSE 0

IntegerLane(i, x, y) ==
  LET n == i.n
      count == y % n
  IN
  CASE i.op = "vaddshs" -> Clipped(Signed(x, n) + Signed(y, n), n)
    [] i.op = "vaddum"  -> x + y
    [] i.op = "vaddus"  -> AddSaturated(x, y, n)
    [] i.op = "vsubum"  -> x - y
    [] i.op = "vsubus"  -> SubtractSaturated(x, y, n)
    [] i.op = "vsubsws" -> Clipped(Signed(x, n) - Signed(y, n), n)
    [] i.op = "vavgs"   -> Average(x, y, n)
    [] i.op = "vavgub"  -> (x + y + 1) \div 2
    [] i.op = "vcmpequ" -> Ones(x = y, n)
    [] i.op = "vcmpgtu" -> Above(x, y, n)
    [] i.op = "vmaxsw"  -> IF Signed(x, n) > Signed(y, n) THEN x ELSE y
    [] i.op = "vsl"     -> ShiftLane(x, y, n)
    [] i.op = "vsr"     -> x \div 2^count
    [] i.op = "vsraw"   -> Signed(x, n) \div 2^count
    [] i.op = "vand"    -> And(x, y)
    [] i.op = "vandc"   -> And(x, Not(y))
    [] i.op = "vxor"    -> XorVector(i, x, y)
    [] i.op \in {"vor", "vnor"} -> OrVector(i, x, y)

\* The widths each of them has.
Widths(op) ==
  LET byte == W \div 4  half == W \div 2 IN
  CASE op \in {"vaddum", "vaddus"}           -> {byte, half, W}
    [] op = "vsubum"                          -> {half}
    [] op = "vsubus"                          -> {byte, W}
    [] op = "vsl"                             -> {byte, half, W}
    [] op = "vsr"                             -> {half, W}
    [] op = "vaddshs"                         -> {half}
    [] op = "vavgs"                           -> {byte, half}
    [] op = "vavgub"                          -> {byte}
    [] op = "vcmpequ"                         -> {byte, W}
    [] op = "vcmpgtu"                         -> {byte, half}
    [] op \in {"vand", "vandc", "vnor", "vor", "vxor"} -> {2 * W}
    [] OTHER                                  -> {W}

IntegerLaneOps == {"vaddshs", "vaddum", "vaddus", "vsubum", "vsubus", "vsubsws", "vavgs", "vavgub",
                   "vcmpequ", "vcmpgtu", "vmaxsw", "vsl", "vsr", "vsraw",
                   "vand", "vandc", "vnor", "vor", "vxor"}

\* PPCCRRegister::setFromMask: of the sign bits of the lanes of a mask.
SetFromMask(all, none) == [lt |-> Flag(all), gt |-> 0, eq |-> Flag(none), so |-> 0]

----------------------------------------------------------------------------

\* _mm_cvttps_epi32: the smallest integer for what is out of range.
Truncate(x) == IF IsNumber(x) /\ x >= -(2^(W - 1)) /\ x < 2^(W - 1) THEN x ELSE -(2^(W - 1))

\* simde_mm_vctsxs
SignedFromFloat(x) ==
  LET indefinite == Truncate(x) = -(2^(W - 1))
      largest == indefinite /\ (IsNumber(x) => x >= 0)
  IN IF ~IsNumber(x) THEN 0 ELSE IF largest THEN 2^(W - 1) - 1 ELSE Truncate(x)

\* simde_mm_vctuxs
UnsignedFromFloat(x) ==
  LET AtLeast(y) == IsNumber(x) /\ x >= y
      low == Truncate(x)
      high == Truncate(Single(x - 2^(W - 1))) + 2^(W - 1)
      dest == IF AtLeast(2^W) THEN 2^W - 1 ELSE IF AtLeast(2^(W - 1)) THEN high ELSE low
  IN IF AtLeast(0) THEN dest ELSE 0

\* Mutant of FloatFromUnsigned: ties are rounded up.
FloatFromUnsignedUp(x) ==
  IF x < 2^(W - 1) THEN Single(x)
  ELSE 2^W + (Signed(x + 2^(Excess - 1), W) \div 2^Excess) * 2^Excess

\* simde_mm_cvtepu32_ps_: above the signed range the float is put together by hand.
FloatFromUnsigned(x) ==
  LET last == (x \div 2^Excess) % 2 IN
  IF x < 2^(W - 1) THEN Single(x)
  ELSE 2^W + (Signed(x + 2^(Excess - 1) - 1 + last, W) \div 2^Excess) * 2^Excess

\* vctsxs, vctuxs of the unscaled value
ConvertedLane(i, x) ==
  IF i.op = "vctsxs" THEN SignedFromFloat(x) ELSE IF IsNumber(x) THEN UnsignedFromFloat(x) ELSE 0

\* _mm_max_ps, _mm_min_ps: the second operand unless the comparison holds.
\* vmaddfp and vnmsubfp are two host instructions, each of which rounds.
FloatLane(i, x, y, z) ==
  LET two == IsNumber(x) /\ IsNumber(y)
      three == two /\ IsNumber(z)
      If(known, e) == IF known THEN e ELSE NaN
  IN
  CASE i.op = "vaddfp"   -> If(two, Single(x + y))
    [] i.op = "vsubfp"   -> If(two, Single(x - y))
    [] i.op = "vmulfp"   -> If(two, Single(x * y))
    [] i.op = "vmaddfp"  -> If(three, Single(Single(x * y) + z))
    [] i.op = "vnmsubfp" -> If(three, -Single(Single(x * y) - z))
    [] i.op = "vmaxfp"   -> IF two /\ x > y THEN x ELSE y
    [] i.op = "vminfp"   -> IF two /\ x < y THEN x ELSE y
    [] i.op = "vrefp"    -> If(IsNumber(x), Single(Quotient(1, x)))
    [] i.op \in {"vctsxs", "vctuxs"} -> ConvertedLane(i, x)

FloatLaneOps == {"vaddfp", "vsubfp", "vmulfp", "vmaddfp", "vnmsubfp", "vmaxfp", "vminfp", "vrefp",
                 "vctsxs", "vctuxs"}

\* _mm_cmpeq_ps, _mm_cmpge_ps, _mm_cmpgt_ps
Compares(op, x, y) ==
  IsNumber(x) /\ IsNumber(y) /\
  CASE op = "vcmpeqfp" -> x = y [] op = "vcmpgefp" -> x >= y [] op = "vcmpgtfp" -> x > y

----------------------------------------------------------------------------

\* A dotted comparison sets cr6, but for vcmpgtub and vcmpgtuh, which only the
\* diagnostic mentions.
VectorDiagnosed(i) == i.rc /\ i.op = "vcmpgtu"

IntegerVector(s, i) ==
  LET result == Lanes(i.n, s.v[i.a], s.v[i.b], LAMBDA x, y : IntegerLane(i, x, y))
      lanes == {LaneOf(result, k, i.n) : k \in 0 .. LaneCount(i.n) - 1}
      after == [s EXCEPT !.v[i.d] = result]
  IN IF i.rc /\ ~VectorDiagnosed(i)
       THEN [after EXCEPT !.cr[FieldSix] =
              SetFromMask(\A x \in lanes : x >= SignBit(i.n), \A x \in lanes : x < SignBit(i.n))]
       ELSE after

FloatVector(s, i) ==
  [s EXCEPT !.vf[i.d] = [k \in {1, 2} |-> FloatLane(i, s.vf[i.a][k], s.vf[i.b][k], s.vf[i.c][k])]]

\* vcfux, vcfsx
FloatFromVector(s, i) ==
  [s EXCEPT !.vf[i.d] = [k \in {1, 2} |->
     LET word == LaneOf(s.v[i.a], k - 1, W) IN
     IF i.op = "vcfux" THEN FloatFromUnsigned(word) ELSE Single(S32(word))]]

\* The mask of a comparison of floats is a vector of integers.
FloatCompare(s, i) ==
  LET holds == [k \in {1, 2} |-> Compares(i.op, s.vf[i.a][k], s.vf[i.b][k])]
      after == [s EXCEPT !.v[i.d] = Ones(holds[1], W) + Ones(holds[2], W) * 2^W]
  IN IF i.rc
       THEN [after EXCEPT !.cr[FieldSix] = SetFromMask(holds[1] /\ holds[2], ~holds[1] /\ ~holds[2])]
       ELSE after
===============================================================================
