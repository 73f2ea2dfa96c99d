----------------------------- MODULE PowerStorage -----------------------------
(***************************************************************************)
(* Memory and registers of the big-endian guest: byte 0 of a register is   *)
(* its highest, and memory keeps a value from its highest byte on. The     *)
(* instruction that a step executes is insn'. External: the repository has *)
(* no text of it.                                                          *)
(***************************************************************************)
EXTENDS Integers, FiniteSets

CONSTANTS Registers, Size, MaxSteps

VARIABLES mem, r, f, v, x, insn, steps

vars == <<mem, r, f, v, x, insn, steps>>

Init ==
  /\ mem \in [0 .. Size - 1 -> 0 .. 255]
  /\ r \in [0 .. 7 -> 0 .. 255]
  /\ f \in [0 .. 7 -> 0 .. 255]
  /\ v \in [Registers -> [0 .. 15 -> 0 .. 255]]
  /\ x = 0 /\ insn = [op |-> "none"] /\ steps = 0

Bytes(ea, n) == [k \in 0 .. n - 1 |-> mem[ea + k]]
Backwards(bytes) == LET n == Cardinality(DOMAIN bytes) IN [k \in DOMAIN bytes |-> bytes[n - 1 - k]]

\* The lowest n bytes of a register
Tail(bytes, n) == LET size == Cardinality(DOMAIN bytes) IN [k \in 0 .. n - 1 |-> bytes[size - n + k]]

\* At the low end of a register, after zeros or copies of the sign
AtEnd(bytes, size, signed) ==
  LET n == Cardinality(DOMAIN bytes)
      fill == IF signed /\ bytes[0] >= 128 THEN 255 ELSE 0
  IN [k \in 0 .. size - 1 |-> IF k < size - n THEN fill ELSE bytes[k - (size - n)]]

Put(ea, bytes) ==
  mem' = [address \in DOMAIN mem |->
            IF address - ea \in DOMAIN bytes THEN bytes[address - ea] ELSE mem[address]]

----------------------------------------------------------------------------

SizeOf == [lbz |-> 1, lhz |-> 2, lha |-> 2, lwz |-> 4, lwa |-> 4, ld |-> 8,
           stb |-> 1, sth |-> 2, stw |-> 4, std |-> 8, sthbrx |-> 2, stwbrx |-> 4]

EA == x + insn'.disp
Update == x' = IF insn'.update THEN EA ELSE x

LoadWord ==
  /\ \/ /\ insn'.op \in {"lbz", "lhz", "lha", "lwz", "lwa", "ld"}
        /\ r' = AtEnd(Bytes(EA, SizeOf[insn'.op]), 8, insn'.op \in {"lha", "lwa"})
     \/ insn'.op = "lwbrx" /\ r' = AtEnd(Backwards(Bytes(EA, 4)), 8, FALSE)
  /\ Update /\ UNCHANGED <<mem, f, v>>

StoreWord ==
  /\ \/ insn'.op \in {"stb", "sth", "stw", "std"} /\ Put(EA, Tail(r, SizeOf[insn'.op]))
     \/ insn'.op \in {"sthbrx", "stwbrx"} /\ Put(EA, Backwards(Tail(r, SizeOf[insn'.op])))
     \/ insn'.op \in {"stfd", "stfs"} /\ Put(EA, f)
     \/ insn'.op = "stfiwx" /\ Put(EA, Tail(f, 4))
     \/ insn'.op = "dcbz" /\ Put(EA - (EA % 32), [k \in 0 .. 31 |-> 0])
  /\ Update /\ UNCHANGED <<r, f, v>>

LoadFloat ==
  /\ \/ insn'.op = "lfd" /\ f' = Bytes(EA, 8)
     \/ insn'.op = "lfs" /\ f' = Bytes(EA, 4)
  /\ Update /\ UNCHANGED <<mem, r, v>>

----------------------------------------------------------------------------

Start == EA - (EA % 16)
Offset == EA % 16

Into(vector) == v' = [v EXCEPT ![insn'.d] = vector]

LoadVector ==
  /\ \/ insn'.op \in {"lvx", "lvewx"} /\ Into(Bytes(Start, 16))
     \/ /\ insn'.op = "lvehx"
        /\ Into([k \in 0 .. 15 |->
                   IF k \div 2 = Offset \div 2 THEN mem[Start + k] ELSE v[insn'.d][k]])
     \/ insn'.op = "lvlx" /\ Into([k \in 0 .. 15 |-> IF k < 16 - Offset THEN mem[EA + k] ELSE 0])
     \/ insn'.op = "lvrx" /\ Into([k \in 0 .. 15 |-> IF k >= 16 - Offset THEN mem[EA - 16 + k] ELSE 0])
     \/ insn'.op = "lvsl" /\ Into([k \in 0 .. 15 |-> Offset + k])
     \/ insn'.op = "lvsr" /\ Into([k \in 0 .. 15 |-> 16 - Offset + k])
  /\ Update /\ UNCHANGED <<mem, r, f>>

\* n bytes of a vector from this one on
Part(s, from, n) == [k \in 0 .. n - 1 |-> s[from + k]]

StoreVector ==
  LET s == v[insn'.d] IN
  /\ \/ insn'.op = "stvx" /\ Put(Start, s)
     \/ insn'.op = "stvehx" /\ Put(EA - (EA % 2), Part(s, Offset - (Offset % 2), 2))
     \/ insn'.op = "stvewx" /\ Put(EA - (EA % 4), Part(s, Offset - (Offset % 4), 4))
     \/ insn'.op = "stvlx" /\ Put(EA, Part(s, 0, 16 - Offset))
     \/ insn'.op = "stvrx" /\ Put(Start, Part(s, 16 - Offset, Offset))
  /\ Update /\ UNCHANGED <<r, f, v>>

\* Element k of n bytes; the vector made of elements of n bytes
Element(s, k, n) == Part(s, n * k, n)
Of(n, elements) == [k \in 0 .. 15 |-> elements[k \div n][k % n]]

\* The 32 bytes of two vectors
Both(a, b) == [k \in 0 .. 31 |-> IF k < 16 THEN a[k] ELSE b[k - 16]]

\* Elements of a and b in turn, and elements of a made twice as wide, from this
\* element on
Merged(a, b, first, n) ==
  Of(n, [k \in 0 .. 16 \div n - 1 |-> Element(IF k % 2 = 0 THEN a ELSE b, first + k \div 2, n)])
Widened(a, first, n) ==
  Of(2 * n, [k \in 0 .. 8 \div n - 1 |-> AtEnd(Element(a, first + k, n), 2 * n, TRUE)])

\* Signed half to unsigned byte
Clamp(high, low) == IF high >= 128 THEN 0 ELSE IF high > 0 THEN 255 ELSE low

\* The vector that i makes of its operands and of the target's old value
Rearranged(i, a, b, c, old) ==
  LET n == i.n
      both == Both(a, b)
  IN
  CASE i.op = "vmrgh"   -> Merged(a, b, 0, n)
    [] i.op = "vmrgl"   -> Merged(a, b, 8 \div n, n)
    [] i.op = "vperm"   -> [k \in 0 .. 15 |-> both[c[k] % 32]]
    [] i.op = "vpermwi" -> Of(4, [k \in 0 .. 3 |-> Element(a, (i.i \div 4^(3 - k)) % 4, 4)])
    [] i.op = "vpkshus" -> [k \in 0 .. 15 |-> Clamp(both[2 * k], both[2 * k + 1])]
    [] i.op = "vpkuwum" -> Of(2, [k \in 0 .. 7 |-> Tail(Element(both, k, 4), 2)])
    [] i.op = "vrlimi"  ->
         Of(4, [k \in 0 .. 3 |-> IF (i.i \div 2^(3 - k)) % 2 = 1
                                   THEN Element(a, (k + i.i \div 16) % 4, 4) ELSE Element(old, k, 4)])
    [] i.op = "vsldoi"  -> [k \in 0 .. 15 |-> both[k + i.i]]
    [] i.op = "vsplt"   -> Of(n, [k \in 0 .. 16 \div n - 1 |-> Element(a, i.i % (16 \div n), n)])
    [] i.op = "vspltis" -> Of(n, [k \in 0 .. 16 \div n - 1 |-> AtEnd([byte \in {0} |-> i.i], n, TRUE)])
    [] i.op = "vupkh"   -> Widened(a, 0, n)
    [] i.op = "vupkl"   -> Widened(a, 8 \div n, n)

Rearrange ==
  LET i == insn' IN
  /\ Into(Rearranged(i, v[i.a], v[i.b], v[i.c], v[i.d]))
  /\ UNCHANGED <<mem, r, f, x>>

Next ==
  /\ steps' = steps + 1
  /\ \/ LoadWord \/ StoreWord \/ LoadFloat
     \/ insn'.op \in {"lvx", "lvewx", "lvehx", "lvlx", "lvrx", "lvsl", "lvsr"} /\ LoadVector
     \/ StoreVector
     \/ insn'.op \notin {"lvx", "lvewx", "lvehx", "lvlx", "lvrx", "lvsl", "lvsr"}
          /\ "n" \in DOMAIN insn' /\ Rearrange

Spec == Init /\ [][Next]_vars
===============================================================================
