---------------------------- MODULE HostArithmetic ----------------------------
(***************************************************************************)
(* The C++ integers of the generated code: the members of PPCRegister      *)
(* (XenonUtils/ppc_context.h:117) with W bits for a uint32_t and 2W for a  *)
(* uint64_t, and the operators the generated expressions apply to them.    *)
(***************************************************************************)
EXTENDS Integers, FiniteSetsExt

CONSTANT W

\* A word of whole bytes and whole condition fields.
ASSUME WidthAssumption == W \in Nat /\ W % 4 = 0 /\ W > 0

U32(x) == x % 2^W
U64(x) == x % 2^(2 * W)

\* The n low bits of x read as a signed number.
Signed(x, n) ==
  LET u == x % 2^n IN IF u >= 2^(n - 1) THEN u - 2^n ELSE u

S32(x) == Signed(x, W)
S64(x) == Signed(x, 2 * W)

Flag(b) == IF b THEN 1 ELSE 0

\* The bits of a uint64_t, 0 the lowest, and the number that has given bits.
BitTable == [x \in 0 .. 2^(2 * W) - 1 |-> {n \in 0 .. 2 * W - 1 : (x \div 2^n) % 2 = 1}]
Bits(x) == BitTable[U64(x)]
Number(bits) == MapThenSumSet(LAMBDA n : 2^n, bits)

And(x, y) == Number(Bits(x) \cap Bits(y))
Or(x, y)  == Number(Bits(x) \cup Bits(y))
Xor(x, y) == Number((Bits(x) \ Bits(y)) \cup (Bits(y) \ Bits(x)))
Not(x)    == U64(-1 - x)

\* x / y of C, which rounds towards zero.
Truncated(x, y) ==
  LET abs(z) == IF z < 0 THEN -z ELSE z
      q == abs(x) \div abs(y)
  IN IF (x < 0) = (y < 0) THEN q ELSE -q

\* __builtin_rotateleft32, __builtin_rotateleft64
Rotate(x, n, width) ==
  LET u == x % 2^width  m == n % width
  IN (u % 2^(width - m)) * 2^m + u \div 2^(width - m)

\* x << n of a width-bit unsigned x, n below the width.
ShiftLeft(x, n, width) == (x % 2^(width - n)) * 2^n

\* __builtin_clz, __builtin_clzll: not defined for zero.
LeadingZeros(x, width) == width - 1 - Max(Bits(x))

\* Mutant of ComputeMask: the last bit is left out.
ComputeMaskOpen(mstart, mstop) ==
  LET first == mstart % (2 * W)
      last == mstop % (2 * W)
      value == Xor(2^(2 * W - first) - 1, 2^(2 * W - 1 - last))
  IN IF first <= last THEN value ELSE Not(value)

\* Bits mstart to mstop, counted from the highest; around the end if mstart is
\* behind mstop.
ComputeMask(mstart, mstop) ==
  LET first == mstart % (2 * W)
      last == mstop % (2 * W)
      value == Xor(2^(2 * W - first) - 1, 2^(2 * W - 1 - last) - 1)
  IN IF first <= last THEN value ELSE Not(value)
===============================================================================
