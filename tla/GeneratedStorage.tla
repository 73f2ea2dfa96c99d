--------------------------- MODULE GeneratedStorage ---------------------------
(***************************************************************************)
(* Memory, registers and the order of bytes in them, as the C++ emitted by *)
(* XenonRecomp/recompiler.cpp (1015-2657) leaves them on a little-endian   *)
(* host. Memory keeps the guest's order; a general or floating register is *)
(* an array of bytes with the lowest first; a vector register is reversed  *)
(* as a whole. Bytes are numbers 0..255.                                   *)
(***************************************************************************)
EXTENDS Integers, FiniteSets

CONSTANTS
  Registers,      \* vector registers
  Size,           \* bytes of memory
  Displacements,  \* what an instruction adds to its address register
  MaxSteps        \* bound: instructions of a behaviour

\* Memory is made of whole lines of the cache.
ASSUME SizeAssumption == Size \in Nat /\ Size % 32 = 0 /\ MaxSteps \in Nat

ASSUME OperandsAssumption == Registers \subseteq Nat /\ Displacements \subseteq Int

VARIABLES
  mem,    \* byte of each address
  r,      \* a general register
  f,      \* a floating register: 8 bytes, or 4 bytes of a float that was widened
  v,      \* vector registers
  x,      \* the address register
  insn,   \* the instruction executed last
  steps

vars == <<mem, r, f, v, x, insn, steps>>

\* PPC_LOAD_U8 to PPC_LOAD_U64, and PPC_MM_LOAD_* which are the same, into the
\* low bytes of a register
Swapped(ea, n) == [k \in 0 .. n - 1 |-> mem[ea + n - 1 - k]]

\* .u64 of an unsigned, .s64 of a signed value: the other bytes of the register
Extended(bytes, signed) ==
  LET n == Cardinality(DOMAIN bytes)
      fill == IF signed /\ bytes[n - 1] >= 128 THEN 255 ELSE 0
  IN [k \in 0 .. 7 |-> IF k < n THEN bytes[k] ELSE fill]

\* __builtin_bswap16, __builtin_bswap32
Reverse(bytes) == [k \in DOMAIN bytes |-> bytes[Cardinality(DOMAIN bytes) - 1 - k]]

Low(bytes, n) == [k \in 0 .. n - 1 |-> bytes[k]]

\* Memory with these bytes at ea.
Written(ea, bytes) ==
  [address \in DOMAIN mem |->
     IF address >= ea /\ address - ea \in DOMAIN bytes THEN bytes[address - ea] ELSE mem[address]]

\* Mutant of Stored: the bytes of the host.
StoredPlain(ea, bytes) == Written(ea, bytes)

\* PPC_STORE_U8 to PPC_STORE_U64; PPC_MM_STORE_*, which a store in front of eieio
\* takes, are the same.
Stored(ea, bytes) == Written(ea, Reverse(bytes))

----------------------------------------------------------------------------

\* Size and sign of the loads, and whether there is a form that updates the
\* address register.
Loads == [lbz |-> [n |-> 1, signed |-> FALSE], lhz |-> [n |-> 2, signed |-> FALSE],
          lha |-> [n |-> 2, signed |-> TRUE],  lwz |-> [n |-> 4, signed |-> FALSE],
          lwa |-> [n |-> 4, signed |-> TRUE],  ld  |-> [n |-> 8, signed |-> FALSE]]
Stores == [stb |-> 1, stw |-> 4, std |-> 8]

Init ==
  /\ mem = [address \in 0 .. Size - 1 |-> (address * 37 + 11) % 256]
  /\ r = [k \in 0 .. 7 |-> 240 - k]
  /\ f = [k \in 0 .. 7 |-> 100 + k]
  /\ v = [n \in Registers |-> [k \in 0 .. 15 |-> (16 * n + 29 * k) % 256]]
  /\ x = 0
  /\ insn = [op |-> "none"]
  /\ steps = 0

Executed(i) ==
  /\ insn' = i
  /\ steps' = steps + 1

\* An aligned line of 2^k bytes
Line(ea, size) == (ea \div size) * size

Access(op, update) ==
  {i \in [op : {op}, disp : Displacements, update : update] : 0 <= x + i.disp /\ x + i.disp + 8 <= Size}

Addressed(i) == x' = IF i.update THEN x + i.disp ELSE x

Load ==
  \E op \in DOMAIN Loads : \E i \in Access(op, IF op = "lwa" THEN {FALSE} ELSE BOOLEAN) :
    /\ r' = Extended(Swapped(x + i.disp, Loads[op].n), Loads[op].signed)
    /\ Addressed(i) /\ Executed(i)
    /\ UNCHANGED <<mem, f, v>>

\* lwbrx swaps twice.
LoadReversed ==
  \E i \in Access("lwbrx", {FALSE}) :
    /\ r' = Extended(Reverse(Swapped(x + i.disp, 4)), FALSE)
    /\ Addressed(i) /\ Executed(i)
    /\ UNCHANGED <<mem, f, v>>

Store ==
  \E op \in DOMAIN Stores : \E i \in Access(op, BOOLEAN) :
    /\ mem' = Stored(x + i.disp, Low(r, Stores[op]))
    /\ Addressed(i) /\ Executed(i)
    /\ UNCHANGED <<r, f, v>>

\* sth, sthu, sthx, sthux; sthbrx
StoreHalf ==
  \E op \in {"sth", "sthbrx"} : \E i \in Access(op, IF op = "sth" THEN BOOLEAN ELSE {FALSE}) :
    /\ mem' = Stored(x + i.disp, IF op = "sth" THEN Low(r, 2) ELSE Reverse(Low(r, 2)))
    /\ Addressed(i) /\ Executed(i)
    /\ UNCHANGED <<r, f, v>>

\* stwbrx
StoreReversed ==
  \E i \in Access("stwbrx", {FALSE}) :
    /\ mem' = Stored(x + i.disp, Reverse(Low(r, 4)))
    /\ Addressed(i) /\ Executed(i)
    /\ UNCHANGED <<r, f, v>>

\* lfd and lfs; stfd, stfiwx of a double and stfs of a float that was widened
\* (what narrowing does to another double is no question of bytes).
FloatLoad ==
  \E op \in {"lfd", "lfs"} : \E i \in Access(op, BOOLEAN) :
    /\ f' = Swapped(x + i.disp, IF op = "lfd" THEN 8 ELSE 4)
    /\ Addressed(i) /\ Executed(i)
    /\ UNCHANGED <<mem, r, v>>

FloatStore ==
  \E op \in {"stfd", "stfs", "stfiwx"} :
  \E i \in Access(op, IF op = "stfiwx" THEN {FALSE} ELSE BOOLEAN) :
    /\ (op = "stfs") <=> (DOMAIN f = 0 .. 3)
    /\ mem' = Stored(x + i.disp, IF op = "stfiwx" THEN Low(f, 4) ELSE f)
    /\ Addressed(i) /\ Executed(i)
    /\ UNCHANGED <<r, f, v>>

\* dcbz
ZeroLine ==
  \E i \in Access("dcbz", {FALSE}) :
    /\ mem' = Written(Line(x + i.disp, 32), [k \in 0 .. 31 |-> 0])
    /\ Addressed(i) /\ Executed(i)
    /\ UNCHANGED <<r, f, v>>

----------------------------------------------------------------------------

\* _mm_shuffle_epi8: a selector with its high bit gives zero.
Shuffle(source, selector) ==
  [k \in 0 .. 15 |-> IF selector[k] >= 128 THEN 0 ELSE source[selector[k] % 16]]

\* Mutant of VectorMaskR: one byte more than lies before the address.
VectorMaskRLong(n) == [k \in 0 .. 15 |-> IF k <= n THEN n - k ELSE 255]

\* Row n of the tables of ppc_context.h
VectorMaskL(n) == [k \in 0 .. 15 |-> IF k < n THEN 255 ELSE 15 + n - k]
VectorMaskR(n) == [k \in 0 .. 15 |-> IF k < n THEN n - 1 - k ELSE 255]
VectorShiftTableL(n) == [k \in 0 .. 15 |-> 15 + n - k]
VectorShiftTableR(n) == [k \in 0 .. 15 |-> 31 - n - k]

HostLine(ea) == [k \in 0 .. 15 |-> mem[Line(ea, 16) + k]]

\* lvehx replaces one half, lvewx and lvx the whole vector, lvlx and lvrx take
\* what lies on one side of the address.
LoadedVector(op, d, ea) ==
  LET n == ea % 16  even == Line(ea, 2)  lane == 7 - (even % 16) \div 2 IN
  CASE op = "lvehx" -> [k \in 0 .. 15 |-> IF k \div 2 = lane THEN Swapped(even, 2)[k % 2] ELSE v[d][k]]
    [] op \in {"lvewx", "lvx"} -> Shuffle(HostLine(ea), VectorMaskL(0))
    [] op = "lvlx" -> Shuffle(HostLine(ea), VectorMaskL(n))
    [] op = "lvrx" -> IF n # 0 THEN Shuffle(HostLine(ea), VectorMaskR(n)) ELSE [k \in 0 .. 15 |-> 0]
    [] op = "lvsl" -> VectorShiftTableL(n)
    [] op = "lvsr" -> VectorShiftTableR(n)

VectorAccess(op) ==
  {i \in [op : {op}, disp : Displacements, update : {FALSE}, d : Registers] :
     0 <= x + i.disp /\ x + i.disp + 16 <= Size}

VectorLoad ==
  \E op \in {"lvehx", "lvewx", "lvx", "lvlx", "lvrx", "lvsl", "lvsr"} : \E i \in VectorAccess(op) :
    /\ v' = [v EXCEPT ![i.d] = LoadedVector(op, i.d, x + i.disp)]
    /\ Addressed(i) /\ Executed(i)
    /\ UNCHANGED <<mem, r, f>>

Elements(s, n, lane) == [k \in 0 .. n - 1 |-> s[n * lane + k]]

\* stvlx and stvrx are loops over bytes.
StoredVector(op, s, ea) ==
  LET n == ea % 16
      even == Line(ea, 2)  word == Line(ea, 4)
  IN
  CASE op = "stvx"   -> Written(Line(ea, 16), Shuffle(s, VectorMaskL(0)))
    [] op = "stvehx" -> Stored(even, Elements(s, 2, 7 - (even % 16) \div 2))
    [] op = "stvewx" -> Stored(word, Elements(s, 4, 3 - (word % 16) \div 4))
    [] op = "stvlx"  -> [address \in DOMAIN mem |->
                           IF address \in ea .. ea + 15 - n THEN s[15 - (address - ea)] ELSE mem[address]]
    [] op = "stvrx"  -> [address \in DOMAIN mem |->
                           IF address \in ea - n .. ea - 1 THEN s[ea - 1 - address] ELSE mem[address]]

VectorStore ==
  \E op \in {"stvx", "stvehx", "stvewx", "stvlx", "stvrx"} : \E i \in VectorAccess(op) :
    /\ mem' = StoredVector(op, v[i.d], x + i.disp)
    /\ Addressed(i) /\ Executed(i)
    /\ UNCHANGED <<r, f, v>>

----------------------------------------------------------------------------

\* _mm_unpackhi, _mm_unpacklo of elements of n bytes
Unpack(p, q, n, half) ==
  [k \in 0 .. 15 |->
     LET pair == k \div (2 * n)
         element == pair + (IF half = "hi" THEN 8 \div n ELSE 0)
     IN IF (k \div n) % 2 = 0 THEN p[element * n + (k % n)] ELSE q[element * n + (k % n)]]

\* simde_mm_perm_epi8_
PermuteBytes(p, q, c) ==
  [k \in 0 .. 15 |-> LET e == 15 - (c[k] % 16) IN IF (c[k] \div 16) % 2 = 0 THEN p[e] ELSE q[e]]

\* _mm_shuffle_epi32, and the immediate computed for vpermwi128
ShuffleWords(p, selector) == [k \in 0 .. 15 |-> p[4 * selector[k \div 4] + (k % 4)]]
Select(i, word) == (i \div 4^word) % 4

\* _mm_alignr_epi8
AlignRight(p, q, n) == [k \in 0 .. 15 |-> IF k + n < 16 THEN q[k + n] ELSE IF k + n < 32 THEN p[k + n - 16] ELSE 0]

\* A half as a signed number, and saturated to a byte
Half(s, lane) == LET u == s[2 * lane] + 256 * s[2 * lane + 1] IN IF u >= 32768 THEN u - 65536 ELSE u
Saturated(h) == IF h < 0 THEN 0 ELSE IF h > 255 THEN 255 ELSE h

\* _mm_packus_epi16, and the shuffles emitted for vpkuwum
PackHalves(p, q) == [k \in 0 .. 15 |-> Saturated(IF k < 8 THEN Half(p, k) ELSE Half(q, k - 8))]
PackWords(p, q) ==
  [k \in 0 .. 15 |-> LET at == 4 * ((k % 8) \div 2) + (k % 2) IN IF k < 8 THEN p[at] ELSE q[at]]

\* _mm_cvtepi8_epi16, _mm_cvtepi16_epi32 of the high or low eight bytes
SignExtend(s, n, half) ==
  [k \in 0 .. 15 |->
     LET at == n * (k \div (2 * n)) + (IF half = "hi" THEN 8 ELSE 0) IN
     IF k % (2 * n) < n THEN s[at + (k % n)] ELSE IF s[at + n - 1] >= 128 THEN 255 ELSE 0]

\* vmrgh*, vmrgl*, vperm, vpermwi128, vpkshus, vpkuwum, vrlimi128, vsldoi,
\* vsplt*, vupkh*, vupkl*: operands swapped and positions counted from the end
\* because of the reversal.
Permuted(i) ==
  LET a == v[i.a]  b == v[i.b]  n == i.n IN
  CASE i.op = "vmrgh"    -> Unpack(b, a, n, "hi")
    [] i.op = "vmrgl"    -> Unpack(b, a, n, "lo")
    [] i.op = "vperm"    -> PermuteBytes(a, b, v[i.c])
    [] i.op = "vpermwi"  -> ShuffleWords(a, [word \in 0 .. 3 |-> 3 - Select(i.i, word)])
    [] i.op = "vpkshus"  -> PackHalves(b, a)
    [] i.op = "vpkuwum"  -> PackWords(b, a)
    [] i.op = "vrlimi"   ->
         LET turned == ShuffleWords(a, [word \in 0 .. 3 |-> (word + 4 - i.i \div 16) % 4]) IN
         [k \in 0 .. 15 |-> IF (i.i \div 2^(k \div 4)) % 2 = 1 THEN turned[k] ELSE v[i.d][k]]
    [] i.op = "vsldoi"   -> AlignRight(a, b, 16 - i.i)
    [] i.op = "vsplt"    -> [k \in 0 .. 15 |-> a[(16 \div n - 1 - (i.i % (16 \div n))) * n + (k % n)]]
    [] i.op = "vspltis"  -> [k \in 0 .. 15 |-> IF k % n = 0 THEN i.i ELSE IF i.i >= 128 THEN 255 ELSE 0]
    [] i.op = "vupkh"    -> SignExtend(a, n, "hi")
    [] i.op = "vupkl"    -> SignExtend(a, n, "lo")

\* Element sizes and immediates of each.
Forms(op) ==
  CASE op \in {"vmrgh", "vmrgl"}  -> {1, 2, 4} \X {0}
    [] op \in {"vupkh", "vupkl"}  -> {1, 2} \X {0}
    [] op = "vpermwi"             -> {4} \X {27, 78, 147, 228}
    [] op = "vrlimi"              -> {4} \X {1, 16 + 8, 32 + 6, 48 + 15}
    [] op = "vsldoi"              -> {1} \X {0, 1, 4, 15}
    [] op = "vsplt"               -> {<<1, 0>>, <<1, 13>>, <<2, 6>>, <<4, 1>>}
    [] op = "vspltis"             -> {1, 2, 4} \X {5, 251}
    [] OTHER                      -> {2} \X {0}

PermuteOps == {"vmrgh", "vmrgl", "vperm", "vpermwi", "vpkshus", "vpkuwum", "vrlimi", "vsldoi",
               "vsplt", "vspltis", "vupkh", "vupkl"}
OneOperand == {"vpermwi", "vrlimi", "vsplt", "vspltis", "vupkh", "vupkl"}

PermuteForms(op) ==
  {i \in [op : {op}, n : {1, 2, 4}, i : {form[2] : form \in Forms(op)},
          a : Registers, b : Registers, c : Registers, d : Registers] :
     <<i.n, i.i>> \in Forms(op) /\ (op \in OneOperand => i.b = i.a) /\ (op # "vperm" => i.c = i.a)}

Permute ==
  \E op \in PermuteOps : \E i \in PermuteForms(op) :
    /\ v' = [v EXCEPT ![i.d] = Permuted(i)]
    /\ Executed(i)
    /\ UNCHANGED <<mem, r, f, x>>

Next ==
  /\ steps < MaxSteps
  /\ \/ Load \/ LoadReversed \/ Store \/ StoreHalf \/ StoreReversed \/ FloatLoad \/ FloatStore \/ ZeroLine
     \/ VectorLoad \/ VectorStore \/ Permute

\* The registers as the guest counts their bytes, from the highest.
Guest == INSTANCE PowerStorage WITH
  r <- [k \in 0 .. 7 |-> r[7 - k]],
  f <- [k \in DOMAIN f |-> f[Cardinality(DOMAIN f) - 1 - k]],
  v <- [n \in Registers |-> [k \in 0 .. 15 |-> v[n][15 - k]]]

Spec == Init /\ [][Next]_vars

----------------------------------------------------------------------------

\* Whatever the generated loads, stores, shuffles, packs and unpacks do to bytes
\* of the host, memory and registers change as the big-endian guest's do: the
\* swaps of the loads and stores, the four tables, the operands exchanged and
\* the positions counted from the end fit together (recompiler.cpp:1226-2036,
\* 2294-2657).
FollowsPower == Guest!Spec

\* Two loads of the parts on both sides of an address are one unaligned load of
\* the guest's bytes: lvlx at an address, lvrx 16 further, and their union
\* (recompiler.cpp:1432-1448).
SidesMeet ==
  \A ea \in {x + d : d \in Displacements} \cap 0 .. Size - 17 :
    LET left == Shuffle(HostLine(ea), VectorMaskL(ea % 16))
        right == IF ea % 16 = 0 THEN [k \in 0 .. 15 |-> 0]
                 ELSE Shuffle(HostLine(ea + 16), VectorMaskR(ea % 16))
        unaligned == [k \in 0 .. 15 |-> mem[ea + 15 - k]]
    IN /\ \A k \in 0 .. 15 : left[k] = 0 \/ right[k] = 0
       /\ unaligned = [k \in 0 .. 15 |-> left[k] + right[k]]
       /\ unaligned = PermuteBytes(Shuffle(HostLine(ea), VectorMaskL(0)),
                                   Shuffle(HostLine(ea + 15), VectorMaskL(0)),
                                   VectorShiftTableL(ea % 16))
===============================================================================
