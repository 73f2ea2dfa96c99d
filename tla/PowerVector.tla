------------------------------ MODULE PowerVector ------------------------------
(***************************************************************************)
(* The vector unit's account of the same instructions: each lane as a      *)
(* number, saturated by its range. External: the repository has no text.   *)
(***************************************************************************)
EXTENDS HostArithmetic, Sequences

CONSTANTS NaN, Single(_), Quotient(_, _)

\* The value nearest to d in a range.
Within(d, low, high) == IF d < low THEN low ELSE IF d > high THEN high ELSE d

LaneValue(i, x, y) ==
  LET n == i.n  a == Signed(x, n)  b == Signed(y, n)  top == 2^n - 1
      low == -(2^(n - 1))  high == 2^(n - 1) - 1
      bits == {k \in 0 .. n - 1 : (x \div 2^k) % 2 = 1}
      others == {k \in 0 .. n - 1 : (y \div 2^k) % 2 = 1}
      Moved(by) == Number({k + by : k \in bits} \cap (0 .. n - 1))
  IN
  CASE i.op = "vaddum"  -> x + y
    [] i.op = "vsubum"  -> x - y
    [] i.op = "vaddus"  -> Within(x + y, 0, top)
    [] i.op = "vsubus"  -> Within(x - y, 0, top)
    [] i.op = "vaddshs" -> Within(a + b, low, high)
    [] i.op = "vsubsws" -> Within(a - b, low, high)
    [] i.op = "vavgs"   -> (a + b + 1) \div 2
    [] i.op = "vavgub"  -> (x + y + 1) \div 2
    [] i.op = "vcmpequ" -> IF x = y THEN top ELSE 0
    [] i.op = "vcmpgtu" -> IF x > y THEN top ELSE 0
    [] i.op = "vmaxsw"  -> IF a > b THEN a ELSE b
    [] i.op = "vsl"     -> Moved(y % n)
    [] i.op = "vsr"     -> Moved(-(y % n))
    [] i.op = "vsraw"   -> a \div 2^(y % n)
    [] i.op = "vand"    -> Number(bits \cap others)
    [] i.op = "vandc"   -> Number(bits \ others)
    [] i.op = "vor"     -> Number(bits \cup others)
    [] i.op = "vnor"    -> top - Number(bits \cup others)
    [] i.op = "vxor"    -> Number((bits \cup others) \ (bits \cap others))

Element(x, k, n) == (x \div 2^(n * k)) % 2^n
Positions(n) == 0 .. (2 * W) \div n - 1

\* Field six after a comparison: lt says that all lanes hold, eq that none does.
Summary(holds) ==
  [lt |-> Flag(FALSE \notin holds), gt |-> 0, eq |-> Flag(TRUE \notin holds), so |-> 0]

Integers(g, i, six) ==
  LET lane == [k \in Positions(i.n) |->
                 LaneValue(i, Element(g.v[i.a], k, i.n), Element(g.v[i.b], k, i.n)) % 2^i.n]
      after == [g EXCEPT !.v[i.d] = MapThenSumSet(LAMBDA k : lane[k] * 2^(i.n * k), Positions(i.n))]
  IN IF i.rc THEN [after EXCEPT !.cr[six] = Summary({lane[k] # 0 : k \in Positions(i.n)})] ELSE after

FloatValue(i, x, y, z) ==
  LET two == NaN \notin {x, y}  three == two /\ z # NaN
      Or0(e) == IF x = NaN THEN 0 ELSE e
      OrNaN(known, e) == IF known THEN e ELSE NaN
  IN
  CASE i.op = "vaddfp"   -> OrNaN(two, Single(x + y))
    [] i.op = "vsubfp"   -> OrNaN(two, Single(x - y))
    [] i.op = "vmulfp"   -> OrNaN(two, Single(x * y))
    [] i.op = "vmaddfp"  -> OrNaN(three, Single(x * y + z))
    [] i.op = "vnmsubfp" -> OrNaN(three, Single(z - x * y))
    [] i.op = "vmaxfp"   -> OrNaN(two, IF x < y THEN y ELSE x)
    [] i.op = "vminfp"   -> OrNaN(two, IF x < y THEN x ELSE y)
    [] i.op = "vrefp"    -> OrNaN(x # NaN, Single(Quotient(1, x)))
    [] i.op = "vctsxs"   -> Or0(Within(x, -(2^(W - 1)), 2^(W - 1) - 1))
    [] i.op = "vctuxs"   -> Or0(Within(x, 0, 2^W - 1))

Floats(g, i) ==
  [g EXCEPT !.vf[i.d] = [k \in {1, 2} |-> FloatValue(i, g.vf[i.a][k], g.vf[i.b][k], g.vf[i.c][k])]]

FromIntegers(g, i) ==
  LET x == g.v[i.a]  words == <<x % 2^W, x \div 2^W>> IN
  [g EXCEPT !.vf[i.d] =
     [k \in {1, 2} |-> Single(IF i.op = "vcfux" THEN words[k] ELSE S32(words[k]))]]

FloatMask(g, i, six) ==
  LET Holds(k) == LET x == g.vf[i.a][k]  y == g.vf[i.b][k] IN
        NaN \notin {x, y} /\ (\/ x > y /\ i.op # "vcmpeqfp"
                              \/ x = y /\ i.op # "vcmpgtfp")
      after == [g EXCEPT !.v[i.d] = Number({n \in 0 .. 2 * W - 1 : Holds(n \div W + 1)})]
  IN IF i.rc THEN [after EXCEPT !.cr[six] = Summary({Holds(1), Holds(2)})] ELSE after
===============================================================================
