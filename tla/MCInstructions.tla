---------------------------- MODULE MCInstructions ----------------------------
(* Words of eight bits: a byte has two, a condition register two fields. *)
EXTENDS InstructionsLockstep, TLC

\* The values around the borders of a word and a doubleword.
MCWords == {0, 1, 7, 128, 255, 32767, 32768, 34434, 65535}
MCFloats == {NaN, -32772, -129, -33, 0, 3, 132, 32768}
MCSigned == {0, 1, 7, 248, 255}
MCUnsigned == {0, 1, 8, 15}
MCAmounts == {0, 1, 7, 8, 15}
MCMasks == {<<0, 7>>, <<2, 5>>, <<6, 1>>}

\* A double has 14 bits of precision here and a float six, two less than a word:
\* of sums, products, quotients and roots of floats a double has enough bits.
\* The nearest one, the even one of two.
Near(x, bits) ==
  LET m == IF x < 0 THEN -x ELSE x
      unit == IF m < 2^bits THEN 1 ELSE 2^(Max({n \in 0 .. 30 : m \div 2^n >= 2^(bits - 1)}))
      low == m \div unit
      rest == 2 * (m % unit)
      near == unit * (IF rest > unit \/ (rest = unit /\ low % 2 = 1) THEN low + 1 ELSE low)
  IN IF x < 0 THEN -near ELSE near
MCDouble(x) == IF x = NaN THEN x ELSE Near(x, 14)
MCSingle(x) == IF x = NaN THEN x ELSE Near(x, 6)
MCQuotient(x, y) == IF y = 0 THEN NaN ELSE Truncated(x, y)
MCRoot(x) == IF x < 0 THEN NaN ELSE Max({n \in 0 .. 200 : n * n <= x})
===============================================================================
