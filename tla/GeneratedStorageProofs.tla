------------------------ MODULE GeneratedStorageProofs ------------------------
(***************************************************************************)
(* GeneratedStorage implements PowerStorage for memories of any size, any  *)
(* registers and displacements and runs of any length, and the two sides   *)
(* of an unaligned vector meet at every address. Both rest on StorageInv:  *)
(* memory and registers hold bytes, and nothing is addressed below 0.      *)
(***************************************************************************)
EXTENDS GeneratedStorage, FiniteSetTheorems, TLAPS

Byte == 0 .. 255
Vector == [0 .. 15 -> Byte]

StorageInv ==
  /\ mem \in [0 .. Size - 1 -> Byte]
  /\ r \in [0 .. 7 -> Byte]
  /\ f \in [0 .. 7 -> Byte] \cup [0 .. 3 -> Byte]
  /\ v \in [Registers -> Vector]
  /\ x \in Nat

----------------------------------------------------------------------------
(* Rows of bytes. *)

\* A row of n bytes has n of them, for the generated code and for the guest.
LEMMA RowSize ==
  ASSUME NEW n \in Nat
  PROVE  Cardinality(0 .. n - 1) = n /\ Guest!Cardinality(0 .. n - 1) = n
<1>1. Cardinality(0 .. n - 1) = n
  BY FS_Interval
<1>2. Guest!Cardinality(0 .. n - 1) = Cardinality(0 .. n - 1)
  BY Zenon DEF Cardinality, Guest!Cardinality
<1> QED BY <1>1, <1>2

\* Reverse turns a row around.
LEMMA ReverseRow ==
  ASSUME NEW n \in Nat, NEW b, DOMAIN b = 0 .. n - 1
  PROVE  Reverse(b) = [k \in 0 .. n - 1 |-> b[n - 1 - k]]
BY RowSize DEF Reverse

\* Turned around twice it is as before.
LEMMA ReverseTwice ==
  ASSUME NEW n \in Nat, NEW b, b = [k \in 0 .. n - 1 |-> b[k]]
  PROVE  Reverse(Reverse(b)) = b
<1>1. DOMAIN b = 0 .. n - 1
  OBVIOUS
<1>2. Reverse(b) = [k \in 0 .. n - 1 |-> b[n - 1 - k]]
  BY <1>1, ReverseRow
<1>3. DOMAIN Reverse(b) = 0 .. n - 1
  BY <1>2
<1>4. Reverse(Reverse(b)) = [k \in 0 .. n - 1 |-> Reverse(b)[n - 1 - k]]
  BY <1>3, ReverseRow
<1>5. \A k \in 0 .. n - 1 : n - 1 - k \in 0 .. n - 1 /\ n - 1 - (n - 1 - k) = k
  OBVIOUS
<1>6. \A k \in 0 .. n - 1 : Reverse(b)[n - 1 - k] = b[k]
  BY <1>2, <1>5
<1> QED BY <1>4, <1>6

\* The bytes a load takes, as the processor counts them.
LEMMA SwappedIsBytes ==
  ASSUME NEW ea \in Int, NEW n \in Nat
  PROVE  /\ Guest!Bytes(ea, n) = [k \in 0 .. n - 1 |-> mem[ea + k]]
         /\ Swapped(ea, n) = [k \in 0 .. n - 1 |-> Guest!Bytes(ea, n)[n - 1 - k]]
         /\ Guest!Bytes(ea, n) = [k \in 0 .. n - 1 |-> Swapped(ea, n)[n - 1 - k]]
<1>1. Guest!Bytes(ea, n) = [k \in 0 .. n - 1 |-> mem[ea + k]]
  BY DEF Guest!Bytes
<1>2. \A k \in 0 .. n - 1 : n - 1 - k \in 0 .. n - 1 /\ ea + (n - 1 - k) = ea + n - 1 - k
                             /\ n - 1 - (n - 1 - k) = k /\ ea + n - 1 - (n - 1 - k) = ea + k
  OBVIOUS
<1> QED BY <1>1, <1>2 DEF Swapped

\* A row at the end of the guest's register.
LEMMA AtEndRow ==
  ASSUME NEW n \in 1 .. 8, NEW b, Guest!Cardinality(DOMAIN b) = n
  PROVE  /\ Guest!AtEnd(b, 8, TRUE) =
              [k \in 0 .. 7 |-> IF k < 8 - n THEN IF b[0] >= 128 THEN 255 ELSE 0 ELSE b[k - (8 - n)]]
         /\ Guest!AtEnd(b, 8, FALSE) = [k \in 0 .. 7 |-> IF k < 8 - n THEN 0 ELSE b[k - (8 - n)]]
BY DEF Guest!AtEnd

\* Extending a turned row puts the row at the end of the register.
LEMMA ExtendedIsAtEnd ==
  ASSUME NEW n \in 1 .. 8, NEW b, NEW c, DOMAIN b = 0 .. n - 1, DOMAIN c = 0 .. n - 1,
         \A k \in 0 .. n - 1 : c[k] = b[n - 1 - k]
  PROVE  /\ [k \in 0 .. 7 |-> Extended(c, TRUE)[7 - k]] = Guest!AtEnd(b, 8, TRUE)
         /\ [k \in 0 .. 7 |-> Extended(c, FALSE)[7 - k]] = Guest!AtEnd(b, 8, FALSE)
<1>1. Guest!Cardinality(DOMAIN b) = n /\ Cardinality(DOMAIN c) = n
  BY RowSize
<1>2. c[n - 1] = b[0]
  OBVIOUS
<1> DEFINE sign == IF b[0] >= 128 THEN 255 ELSE 0
<1>3. /\ Extended(c, TRUE) = [k \in 0 .. 7 |-> IF k < n THEN c[k] ELSE sign]
      /\ Extended(c, FALSE) = [k \in 0 .. 7 |-> IF k < n THEN c[k] ELSE 0]
  BY <1>1, <1>2 DEF Extended
<1>4. Guest!AtEnd(b, 8, TRUE) = [k \in 0 .. 7 |-> IF k < 8 - n THEN sign ELSE b[k - (8 - n)]]
  BY <1>1, AtEndRow
<1>5. Guest!AtEnd(b, 8, FALSE) = [k \in 0 .. 7 |-> IF k < 8 - n THEN 0 ELSE b[k - (8 - n)]]
  BY <1>1, AtEndRow
<1> HIDE DEF sign
<1>6. ASSUME NEW k \in 0 .. 7
      PROVE  /\ Extended(c, TRUE)[7 - k] = IF k < 8 - n THEN sign ELSE b[k - (8 - n)]
             /\ Extended(c, FALSE)[7 - k] = IF k < 8 - n THEN 0 ELSE b[k - (8 - n)]
  <2>1. 7 - k \in 0 .. 7 /\ (7 - k < n <=> ~ (k < 8 - n))
    OBVIOUS
  <2>2. 7 - k < n => 7 - k \in 0 .. n - 1 /\ n - 1 - (7 - k) = k - (8 - n)
    OBVIOUS
  <2> QED BY <1>3, <2>1, <2>2
<1> QED BY <1>4, <1>5, <1>6

----------------------------------------------------------------------------
(* Memory and registers hold bytes. *)

LEMMA ExtendedTyped ==
  ASSUME NEW n \in 1 .. 8, NEW b \in [0 .. n - 1 -> Byte], NEW signed
  PROVE  Extended(b, signed) \in [0 .. 7 -> Byte]
<1>1. Cardinality(DOMAIN b) = n
  BY RowSize
<1>2. Extended(b, signed) =
        [k \in 0 .. 7 |-> IF k < n THEN b[k] ELSE IF signed /\ b[n - 1] >= 128 THEN 255 ELSE 0]
  BY <1>1 DEF Extended
<1> QED BY <1>2 DEF Byte

LEMMA SwappedTyped ==
  ASSUME StorageInv, NEW n \in Nat, NEW ea \in Nat, ea + n <= Size
  PROVE  Swapped(ea, n) \in [0 .. n - 1 -> Byte]
<1>1. \A k \in 0 .. n - 1 : ea + n - 1 - k \in 0 .. Size - 1
  BY SizeAssumption
<1> QED BY <1>1 DEF Swapped, StorageInv

LEMMA ReverseTyped ==
  ASSUME NEW n \in Nat, NEW b \in [0 .. n - 1 -> Byte]
  PROVE  Reverse(b) \in [0 .. n - 1 -> Byte]
<1>1. Reverse(b) = [k \in 0 .. n - 1 |-> b[n - 1 - k]]
  BY ReverseRow
<1> QED BY <1>1

LEMMA WrittenTyped ==
  ASSUME StorageInv, NEW last \in Nat, NEW b \in [0 .. last -> Byte], NEW ea \in Int
  PROVE  /\ Written(ea, b) \in [0 .. Size - 1 -> Byte]
         /\ Stored(ea, b) \in [0 .. Size - 1 -> Byte]
<1>1. \A c \in [0 .. last -> Byte] : Written(ea, c) \in [0 .. Size - 1 -> Byte]
  BY DEF Written, StorageInv
<1>2. Reverse(b) \in [0 .. last -> Byte]
  <2> DEFINE n == last + 1
  <2>1. n \in Nat /\ 0 .. n - 1 = 0 .. last
    OBVIOUS
  <2> HIDE DEF n
  <2> QED BY <2>1, ReverseTyped
<1> QED BY <1>1, <1>2 DEF Stored

\* The low bytes of a register, and these turned, are bytes in memory.
LEMMA LowStoredTyped ==
  ASSUME StorageInv, NEW n \in 1 .. 8, NEW ea \in Nat
  PROVE  /\ Stored(ea, Low(r, n)) \in [0 .. Size - 1 -> Byte]
         /\ Stored(ea, Reverse(Low(r, n))) \in [0 .. Size - 1 -> Byte]
<1> DEFINE last == n - 1
<1>1. last \in Nat /\ Low(r, n) \in [0 .. n - 1 -> Byte]
  BY DEF Low, StorageInv
<1>2. Reverse(Low(r, n)) \in [0 .. n - 1 -> Byte]
  BY <1>1, ReverseTyped
<1>3. Low(r, n) \in [0 .. last -> Byte] /\ Reverse(Low(r, n)) \in [0 .. last -> Byte]
  BY <1>1, <1>2
<1> HIDE DEF last
<1> QED BY <1>1, <1>3, WrittenTyped

\* A line lies where its address does.
LEMMA LineAround ==
  ASSUME NEW ea \in Nat, NEW size \in {2, 4, 16, 32}
  PROVE  /\ Line(ea, size) \in Nat
         /\ ea % size \in 0 .. size - 1
         /\ Line(ea, size) = ea - (ea % size)
BY DEF Line

LEMMA HostLineTyped ==
  ASSUME StorageInv, NEW ea \in Nat, ea < Size
  PROVE  HostLine(ea) \in Vector
<1>1. Line(ea, 16) \in Nat /\ Line(ea, 16) + 15 < Size
  BY SizeAssumption DEF Line
<1>2. \A k \in 0 .. 15 : Line(ea, 16) + k \in 0 .. Size - 1
  BY <1>1, SizeAssumption
<1> QED BY <1>2 DEF HostLine, StorageInv, Vector

LEMMA ShuffleTyped ==
  ASSUME NEW s \in Vector, NEW m, \A k \in 0 .. 15 : m[k] \in Nat
  PROVE  Shuffle(s, m) \in Vector
<1>1. \A k \in 0 .. 15 : m[k] % 16 \in 0 .. 15
  OBVIOUS
<1>2. \A k \in 0 .. 15 : s[m[k] % 16] \in Byte
  BY <1>1 DEF Vector
<1>3. 0 \in Byte
  BY DEF Byte
<1> QED BY <1>2, <1>3 DEF Shuffle, Vector

LEMMA LoadedTyped ==
  ASSUME StorageInv, NEW d \in Registers, NEW ea \in Nat, ea + 16 <= Size,
         NEW op \in {"lvehx", "lvewx", "lvx", "lvlx", "lvrx", "lvsl", "lvsr"}
  PROVE  LoadedVector(op, d, ea) \in Vector
<1>1. v[d] \in Vector /\ HostLine(ea) \in Vector
  BY HostLineTyped, SizeAssumption DEF StorageInv
<1>2. ea % 16 \in 0 .. 15 /\ Line(ea, 2) \in Nat /\ Line(ea, 2) + 2 <= Size
  BY SizeAssumption DEF Line
<1>3. \A n \in 0 .. 15 : /\ Shuffle(HostLine(ea), VectorMaskL(n)) \in Vector
                         /\ Shuffle(HostLine(ea), VectorMaskR(n)) \in Vector
                         /\ VectorShiftTableL(n) \in Vector /\ VectorShiftTableR(n) \in Vector
  <2> SUFFICES ASSUME NEW n \in 0 .. 15
               PROVE  /\ Shuffle(HostLine(ea), VectorMaskL(n)) \in Vector
                      /\ Shuffle(HostLine(ea), VectorMaskR(n)) \in Vector
                      /\ VectorShiftTableL(n) \in Vector /\ VectorShiftTableR(n) \in Vector
    OBVIOUS
  <2>1. \A k \in 0 .. 15 : VectorMaskL(n)[k] \in Nat /\ VectorMaskR(n)[k] \in Nat
    BY DEF VectorMaskL, VectorMaskR
  <2>2. VectorShiftTableL(n) \in Vector /\ VectorShiftTableR(n) \in Vector
    BY DEF VectorShiftTableL, VectorShiftTableR, Vector, Byte
  <2> QED BY <1>1, <2>1, <2>2, ShuffleTyped
<1>4. CASE op = "lvehx"
  <2>1. Swapped(Line(ea, 2), 2) \in [0 .. 1 -> Byte]
    <3>1. \A k \in 0 .. 1 : Line(ea, 2) + 2 - 1 - k \in 0 .. Size - 1
      BY <1>2, SizeAssumption
    <3> QED BY <3>1 DEF Swapped, StorageInv
  <2>2. \A k \in 0 .. 15 : k % 2 \in 0 .. 1
    OBVIOUS
  <2> QED BY <1>1, <1>4, <2>1, <2>2 DEF LoadedVector, Vector
<1>5. CASE op \in {"lvewx", "lvx"}
  BY <1>3, <1>5 DEF LoadedVector
<1>6. CASE op = "lvlx"
  BY <1>2, <1>3, <1>6 DEF LoadedVector
<1>7. CASE op = "lvrx"
  <2>1. [k \in 0 .. 15 |-> 0] \in Vector
    BY DEF Vector, Byte
  <2> QED BY <1>2, <1>3, <1>7, <2>1 DEF LoadedVector
<1>8. CASE op \in {"lvsl", "lvsr"}
  BY <1>2, <1>3, <1>8 DEF LoadedVector
<1> QED BY <1>4, <1>5, <1>6, <1>7, <1>8

LEMMA StoredTyped ==
  ASSUME StorageInv, NEW s \in Vector, NEW ea \in Nat,
         NEW op \in {"stvx", "stvehx", "stvewx", "stvlx", "stvrx"}
  PROVE  StoredVector(op, s, ea) \in [0 .. Size - 1 -> Byte]
<1>1. /\ Line(ea, 2) \in Nat /\ Line(ea, 4) \in Nat /\ Line(ea, 16) \in Nat /\ ea % 16 \in 0 .. 15
      /\ (Line(ea, 2) % 16) \div 2 \in 0 .. 7 /\ (Line(ea, 4) % 16) \div 4 \in 0 .. 3
  BY DEF Line
<1>2. CASE op = "stvx"
  <2>1. \A k \in 0 .. 15 : VectorMaskL(0)[k] \in Nat
    BY DEF VectorMaskL
  <2>2. Shuffle(s, VectorMaskL(0)) \in [0 .. 15 -> Byte]
    BY <2>1, ShuffleTyped DEF Vector
  <2> DEFINE last == 15
  <2>3. last \in Nat /\ Shuffle(s, VectorMaskL(0)) \in [0 .. last -> Byte]
    BY <2>2
  <2>4. StoredVector(op, s, ea) = Written(Line(ea, 16), Shuffle(s, VectorMaskL(0)))
    BY <1>2 DEF StoredVector
  <2> HIDE DEF last
  <2> QED BY <1>1, <2>3, <2>4, WrittenTyped
<1>3. CASE op = "stvehx"
  <2> DEFINE lane == 7 - (Line(ea, 2) % 16) \div 2
  <2>1. lane \in 0 .. 7
    BY <1>1
  <2> HIDE DEF lane
  <2> DEFINE last == 1
  <2>2. last \in Nat /\ Elements(s, 2, lane) \in [0 .. last -> Byte]
    BY <2>1 DEF Elements, Vector
  <2> HIDE DEF last
  <2>3. StoredVector(op, s, ea) = Stored(Line(ea, 2), Elements(s, 2, lane))
    BY <1>3 DEF StoredVector, lane
  <2> QED BY <1>1, <2>2, <2>3, WrittenTyped
<1>4. CASE op = "stvewx"
  <2> DEFINE lane == 3 - (Line(ea, 4) % 16) \div 4
  <2>1. lane \in 0 .. 3
    BY <1>1
  <2> HIDE DEF lane
  <2> DEFINE last == 3
  <2>2. last \in Nat /\ Elements(s, 4, lane) \in [0 .. last -> Byte]
    BY <2>1 DEF Elements, Vector
  <2> HIDE DEF last
  <2>3. StoredVector(op, s, ea) = Stored(Line(ea, 4), Elements(s, 4, lane))
    BY <1>4 DEF StoredVector, lane
  <2> QED BY <1>1, <2>2, <2>3, WrittenTyped
<1>5. CASE op = "stvlx"
  <2>1. \A address \in ea .. ea + 15 - (ea % 16) : 15 - (address - ea) \in 0 .. 15
    BY <1>1
  <2> QED BY <1>5, <2>1 DEF StoredVector, StorageInv, Vector
<1>6. CASE op = "stvrx"
  <2>1. \A address \in ea - (ea % 16) .. ea - 1 : ea - 1 - address \in 0 .. 15
    BY <1>1
  <2> QED BY <1>6, <2>1 DEF StoredVector, StorageInv, Vector
<1> QED BY <1>2, <1>3, <1>4, <1>5, <1>6

\* Unpacking, permuting, shuffling, aligning, packing and widening give bytes.
LEMMA UnpackTyped ==
  ASSUME NEW p \in Vector, NEW q \in Vector, NEW n \in {1, 2, 4}, NEW half \in {"hi", "lo"}
  PROVE  Unpack(p, q, n, half) \in Vector
<1> DEFINE from(k) == (k \div (2 * n) + (IF half = "hi" THEN 8 \div n ELSE 0)) * n + (k % n)
<1>1. \A k \in 0 .. 15 : from(k) \in 0 .. 15
  <2>1. CASE n = 1 BY <2>1
  <2>2. CASE n = 2 BY <2>2
  <2>3. CASE n = 4 BY <2>3
  <2> QED BY <2>1, <2>2, <2>3
<1>2. Unpack(p, q, n, half) = [k \in 0 .. 15 |-> IF (k \div n) % 2 = 0 THEN p[from(k)] ELSE q[from(k)]]
  BY DEF Unpack
<1> HIDE DEF from
<1> QED BY <1>1, <1>2 DEF Vector

LEMMA PermuteBytesTyped ==
  ASSUME NEW p \in Vector, NEW q \in Vector, NEW c \in Vector
  PROVE  PermuteBytes(p, q, c) \in Vector
<1>1. \A k \in 0 .. 15 : c[k] \in Nat
  <2>1. \A k \in 0 .. 15 : c[k] \in Byte
    BY DEF Vector
  <2>2. \A byte \in Byte : byte \in Nat
    BY DEF Byte
  <2> QED BY <2>1, <2>2
<1>2. \A k \in 0 .. 15 : 15 - (c[k] % 16) \in 0 .. 15
  BY <1>1
<1> QED BY <1>2 DEF PermuteBytes, Vector

LEMMA ShuffleWordsTyped ==
  ASSUME NEW p \in Vector, NEW selector \in [0 .. 3 -> 0 .. 3]
  PROVE  ShuffleWords(p, selector) \in Vector
<1>1. \A k \in 0 .. 15 : k \div 4 \in 0 .. 3 /\ k % 4 \in 0 .. 3
  OBVIOUS
<1>2. \A k \in 0 .. 15 : 4 * selector[k \div 4] + (k % 4) \in 0 .. 15
  BY <1>1
<1> QED BY <1>2 DEF ShuffleWords, Vector

LEMMA AlignRightTyped ==
  ASSUME NEW p \in Vector, NEW q \in Vector, NEW n \in 0 .. 16
  PROVE  AlignRight(p, q, n) \in Vector
<1>1. 0 \in Byte
  BY DEF Byte
<1>2. \A k \in 0 .. 15 : /\ k + n < 16 => k + n \in 0 .. 15
                         /\ ~(k + n < 16) => k + n - 16 \in 0 .. 15
  OBVIOUS
<1> QED BY <1>1, <1>2 DEF AlignRight, Vector

LEMMA PackTyped ==
  ASSUME NEW p \in Vector, NEW q \in Vector
  PROVE  PackHalves(p, q) \in Vector /\ PackWords(p, q) \in Vector
<1>1. \A s \in Vector : \A lane \in 0 .. 7 : Half(s, lane) \in Int
  <2> SUFFICES ASSUME NEW s \in Vector, NEW lane \in 0 .. 7 PROVE Half(s, lane) \in Int
    OBVIOUS
  <2>1. 2 * lane \in 0 .. 15 /\ 2 * lane + 1 \in 0 .. 15
    OBVIOUS
  <2>2. s[2 * lane] \in Byte /\ s[2 * lane + 1] \in Byte
    BY <2>1 DEF Vector
  <2>3. \A byte \in Byte : byte \in Int
    BY DEF Byte
  <2> QED BY <2>2, <2>3 DEF Half
<1>2. \A h \in Int : Saturated(h) \in Byte
  BY DEF Saturated, Byte
<1>3. \A k \in 0 .. 15 : /\ k < 8 => k \in 0 .. 7
                         /\ ~(k < 8) => k - 8 \in 0 .. 7
                         /\ 4 * ((k % 8) \div 2) + (k % 2) \in 0 .. 15
  OBVIOUS
<1>4. PackHalves(p, q) \in Vector
  BY <1>1, <1>2, <1>3 DEF PackHalves, Vector
<1>5. PackWords(p, q) \in Vector
  BY <1>3 DEF PackWords, Vector
<1> QED BY <1>4, <1>5

LEMMA SignExtendTyped ==
  ASSUME NEW s \in Vector, NEW n \in {1, 2}, NEW half \in {"hi", "lo"}
  PROVE  SignExtend(s, n, half) \in Vector
<1> DEFINE at(k) == n * (k \div (2 * n)) + (IF half = "hi" THEN 8 ELSE 0)
<1>1. \A k \in 0 .. 15 : k % (2 * n) < n => at(k) + (k % n) \in 0 .. 15
  <2>1. CASE n = 1 BY <2>1
  <2>2. CASE n = 2 BY <2>2
  <2> QED BY <2>1, <2>2
<1>2. SignExtend(s, n, half) =
        [k \in 0 .. 15 |-> IF k % (2 * n) < n THEN s[at(k) + (k % n)]
                           ELSE IF s[at(k) + n - 1] >= 128 THEN 255 ELSE 0]
  BY DEF SignExtend
<1>3. 0 \in Byte /\ 255 \in Byte
  BY DEF Byte
<1> HIDE DEF at
<1> QED BY <1>1, <1>2, <1>3 DEF Vector

LEMMA FormsOf ==
  ASSUME NEW op \in PermuteOps, NEW i \in PermuteForms(op)
  PROVE  /\ i.op = op /\ <<i.n, i.i>> \in Forms(op) /\ i.n \in {1, 2, 4} /\ i.i \in 0 .. 255
         /\ i.a \in Registers /\ i.b \in Registers /\ i.c \in Registers /\ i.d \in Registers
<1>1. \A form \in Forms(op) : form[2] \in 0 .. 255
  BY DEF Forms
<1> QED BY <1>1 DEF PermuteForms

LEMMA PermutedTyped ==
  ASSUME StorageInv, NEW op \in PermuteOps, NEW i \in PermuteForms(op)
  PROVE  Permuted(i) \in Vector
<1>0. /\ i.op = op /\ <<i.n, i.i>> \in Forms(op) /\ i.n \in {1, 2, 4} /\ i.i \in 0 .. 255
      /\ i.a \in Registers /\ i.b \in Registers /\ i.c \in Registers /\ i.d \in Registers
  BY FormsOf
<1> USE <1>0
<1>1. v[i.a] \in Vector /\ v[i.b] \in Vector /\ v[i.c] \in Vector /\ v[i.d] \in Vector
  BY DEF StorageInv
<1>2. CASE i.op \in {"vmrgh", "vmrgl"}
  BY <1>1, <1>2, UnpackTyped DEF Permuted
<1>3. CASE i.op = "vperm"
  BY <1>1, <1>3, PermuteBytesTyped DEF Permuted
<1>4. CASE i.op = "vpermwi"
  <2>1. [word \in 0 .. 3 |-> 3 - Select(i.i, word)] \in [0 .. 3 -> 0 .. 3]
    BY DEF Select
  <2> QED BY <1>1, <1>4, <2>1, ShuffleWordsTyped DEF Permuted
<1>5. CASE i.op \in {"vpkshus", "vpkuwum"}
  BY <1>1, <1>5, PackTyped DEF Permuted
<1>6. CASE i.op = "vrlimi"
  <2> DEFINE turned == ShuffleWords(v[i.a], [word \in 0 .. 3 |-> (word + 4 - i.i \div 16) % 4])
  <2>1. [word \in 0 .. 3 |-> (word + 4 - i.i \div 16) % 4] \in [0 .. 3 -> 0 .. 3]
    OBVIOUS
  <2>2. turned \in Vector
    BY <1>1, <2>1, ShuffleWordsTyped
  <2>3. Permuted(i) =
          [k \in 0 .. 15 |-> IF (i.i \div 2^(k \div 4)) % 2 = 1 THEN turned[k] ELSE v[i.d][k]]
    BY <1>6 DEF Permuted
  <2> HIDE DEF turned
  <2> QED BY <1>1, <2>2, <2>3 DEF Vector
<1>7. CASE i.op = "vsldoi"
  <2>1. 16 - i.i \in 0 .. 16
    BY <1>7 DEF Forms
  <2> QED BY <1>1, <1>7, <2>1, AlignRightTyped DEF Permuted
<1>8. CASE i.op = "vsplt"
  <2> DEFINE at(k) == (16 \div i.n - 1 - (i.i % (16 \div i.n))) * i.n + (k % i.n)
  <2>1. \A k \in 0 .. 15 : at(k) \in 0 .. 15
    <3>1. CASE i.n = 1 BY <3>1
    <3>2. CASE i.n = 2 BY <3>2
    <3>3. CASE i.n = 4 BY <3>3
    <3> QED BY <3>1, <3>2, <3>3
  <2>2. Permuted(i) = [k \in 0 .. 15 |-> v[i.a][at(k)]]
    BY <1>8 DEF Permuted
  <2> HIDE DEF at
  <2> QED BY <1>1, <2>1, <2>2 DEF Vector
<1>9. CASE i.op = "vspltis"
  <2>1. Permuted(i) = [k \in 0 .. 15 |-> IF k % i.n = 0 THEN i.i ELSE IF i.i >= 128 THEN 255 ELSE 0]
    BY <1>9 DEF Permuted
  <2>2. i.i \in Byte /\ 255 \in Byte /\ 0 \in Byte
    BY DEF Byte
  <2> QED BY <2>1, <2>2 DEF Vector
<1>10. CASE i.op \in {"vupkh", "vupkl"}
  <2>1. i.n \in {1, 2}
    BY <1>10 DEF Forms
  <2> QED BY <1>1, <1>10, <2>1, SignExtendTyped DEF Permuted
<1> QED BY <1>2, <1>3, <1>4, <1>5, <1>6, <1>7, <1>8, <1>9, <1>10 DEF PermuteOps

LEMMA StartsTyped ==
  ASSUME Init
  PROVE  StorageInv
<1> USE DEF Init
<1>1. mem \in [0 .. Size - 1 -> Byte]
  <2>1. \A address \in 0 .. Size - 1 : (address * 37 + 11) % 256 \in Byte
    BY SizeAssumption DEF Byte
  <2> QED BY <2>1
<1>2. r \in [0 .. 7 -> Byte] /\ f \in [0 .. 7 -> Byte]
  BY DEF Byte
<1>3. v \in [Registers -> Vector]
  <2>1. \A n \in Registers : \A k \in 0 .. 15 : (16 * n + 29 * k) % 256 \in Byte
    BY OperandsAssumption DEF Byte
  <2> QED BY <2>1 DEF Vector
<1> QED BY <1>1, <1>2, <1>3 DEF StorageInv

\* Where an access goes, and that the address register stays a natural number.
LEMMA AccessInMemory ==
  ASSUME StorageInv, NEW op, NEW update \in SUBSET BOOLEAN, NEW i \in Access(op, update)
  PROVE  /\ i.op = op /\ i.disp \in Displacements /\ i.update \in update
         /\ x + i.disp \in Nat /\ x + i.disp + 8 <= Size
         /\ Addressed(i) => x' \in Nat
<1>1. i.op = op /\ i.disp \in Displacements /\ i.update \in update
      /\ 0 <= x + i.disp /\ x + i.disp + 8 <= Size
  BY DEF Access
<1>2. x \in Nat /\ i.disp \in Int
  BY <1>1, OperandsAssumption DEF StorageInv
<1>3. x + i.disp \in Nat
  BY <1>1, <1>2
<1> QED BY <1>1, <1>2, <1>3 DEF Addressed

LEMMA VectorAccessInMemory ==
  ASSUME StorageInv, NEW op, NEW i \in VectorAccess(op)
  PROVE  /\ i.op = op /\ i.disp \in Displacements /\ i.update = FALSE /\ i.d \in Registers
         /\ x + i.disp \in Nat /\ x + i.disp + 16 <= Size
         /\ Addressed(i) => x' = x
<1>1. i.op = op /\ i.disp \in Displacements /\ i.update = FALSE /\ i.d \in Registers
      /\ 0 <= x + i.disp /\ x + i.disp + 16 <= Size
  BY DEF VectorAccess
<1>2. x \in Nat /\ i.disp \in Int
  BY <1>1, OperandsAssumption DEF StorageInv
<1>3. x + i.disp \in Nat
  BY <1>1, <1>2
<1> QED BY <1>1, <1>2, <1>3 DEF Addressed

\* A step that writes bytes where it writes keeps StorageInv.
LEMMA StepTyped ==
  ASSUME StorageInv, Next
  PROVE  StorageInv'
<1>0. x \in Nat /\ r \in [0 .. 7 -> Byte] /\ mem \in [0 .. Size - 1 -> Byte]
      /\ f \in [0 .. 7 -> Byte] \cup [0 .. 3 -> Byte] /\ v \in [Registers -> Vector]
  BY DEF StorageInv
<1>1. CASE Load
  <2>1. PICK op \in DOMAIN Loads : \E i \in Access(op, IF op = "lwa" THEN {FALSE} ELSE BOOLEAN) :
          /\ r' = Extended(Swapped(x + i.disp, Loads[op].n), Loads[op].signed)
          /\ Addressed(i) /\ UNCHANGED <<mem, f, v>>
    BY <1>1 DEF Load
  <2>2. PICK i \in Access(op, IF op = "lwa" THEN {FALSE} ELSE BOOLEAN) :
          /\ r' = Extended(Swapped(x + i.disp, Loads[op].n), Loads[op].signed)
          /\ Addressed(i) /\ UNCHANGED <<mem, f, v>>
    BY <2>1
  <2>3. x + i.disp \in Nat /\ x + i.disp + 8 <= Size /\ x' \in Nat
    BY <2>2, AccessInMemory
  <2> DEFINE n == Loads[op].n
             ea == x + i.disp
  <2>4. n \in 1 .. 8
    BY DEF Loads
  <2>5. ea \in Nat /\ ea + n <= Size /\ r' = Extended(Swapped(ea, n), Loads[op].signed)
    BY <2>2, <2>3, <2>4, SizeAssumption
  <2> HIDE DEF n, ea
  <2>6. Swapped(ea, n) \in [0 .. n - 1 -> Byte]
    BY <2>4, <2>5, SwappedTyped
  <2>7. r' \in [0 .. 7 -> Byte]
    BY <2>4, <2>5, <2>6, ExtendedTyped
  <2> QED BY <1>0, <2>2, <2>3, <2>7 DEF StorageInv
<1>2. CASE LoadReversed
  <2>1. PICK i \in Access("lwbrx", {FALSE}) :
          /\ r' = Extended(Reverse(Swapped(x + i.disp, 4)), FALSE)
          /\ Addressed(i) /\ UNCHANGED <<mem, f, v>>
    BY <1>2 DEF LoadReversed
  <2>2. x + i.disp \in Nat /\ x + i.disp + 8 <= Size /\ x' \in Nat
    BY <2>1, AccessInMemory
  <2> DEFINE n == 4
  <2>3. n \in 1 .. 8 /\ n \in Nat /\ x + i.disp + n <= Size
    BY <2>2, SizeAssumption
  <2>4. r' = Extended(Reverse(Swapped(x + i.disp, n)), FALSE)
    BY <2>1
  <2> HIDE DEF n
  <2>5. Reverse(Swapped(x + i.disp, n)) \in [0 .. n - 1 -> Byte]
    BY <2>2, <2>3, SwappedTyped, ReverseTyped
  <2>6. r' \in [0 .. 7 -> Byte]
    BY <2>3, <2>4, <2>5, ExtendedTyped
  <2> QED BY <1>0, <2>1, <2>2, <2>6 DEF StorageInv
<1>3. CASE Store
  <2>1. PICK op \in DOMAIN Stores : \E i \in Access(op, BOOLEAN) :
          /\ mem' = Stored(x + i.disp, Low(r, Stores[op]))
          /\ Addressed(i) /\ UNCHANGED <<r, f, v>>
    BY <1>3 DEF Store
  <2>2. PICK i \in Access(op, BOOLEAN) :
          /\ mem' = Stored(x + i.disp, Low(r, Stores[op]))
          /\ Addressed(i) /\ UNCHANGED <<r, f, v>>
    BY <2>1
  <2>3. x + i.disp \in Nat /\ x' \in Nat
    BY <2>2, AccessInMemory
  <2>4. Stores[op] \in 1 .. 8
    BY DEF Stores
  <2>5. mem' \in [0 .. Size - 1 -> Byte]
    BY <2>2, <2>3, <2>4, LowStoredTyped
  <2> QED BY <1>0, <2>2, <2>3, <2>5 DEF StorageInv
<1>4. CASE StoreHalf
  <2>1. PICK op \in {"sth", "sthbrx"} : \E i \in Access(op, IF op = "sth" THEN BOOLEAN ELSE {FALSE}) :
          /\ mem' = Stored(x + i.disp, IF op = "sth" THEN Low(r, 2) ELSE Reverse(Low(r, 2)))
          /\ Addressed(i) /\ UNCHANGED <<r, f, v>>
    BY <1>4 DEF StoreHalf
  <2>2. PICK i \in Access(op, IF op = "sth" THEN BOOLEAN ELSE {FALSE}) :
          /\ mem' = Stored(x + i.disp, IF op = "sth" THEN Low(r, 2) ELSE Reverse(Low(r, 2)))
          /\ Addressed(i) /\ UNCHANGED <<r, f, v>>
    BY <2>1
  <2>3. x + i.disp \in Nat /\ x' \in Nat
    BY <2>2, AccessInMemory
  <2> DEFINE n == 2
  <2>4. n \in 1 .. 8 /\ mem' \in {Stored(x + i.disp, Low(r, n)), Stored(x + i.disp, Reverse(Low(r, n)))}
    BY <2>2
  <2> HIDE DEF n
  <2>5. mem' \in [0 .. Size - 1 -> Byte]
    BY <2>3, <2>4, LowStoredTyped
  <2> QED BY <1>0, <2>2, <2>3, <2>5 DEF StorageInv
<1>5. CASE StoreReversed
  <2>1. PICK i \in Access("stwbrx", {FALSE}) :
          /\ mem' = Stored(x + i.disp, Reverse(Low(r, 4)))
          /\ Addressed(i) /\ UNCHANGED <<r, f, v>>
    BY <1>5 DEF StoreReversed
  <2>2. x + i.disp \in Nat /\ x' \in Nat
    BY <2>1, AccessInMemory
  <2> DEFINE n == 4
  <2>3. n \in 1 .. 8 /\ mem' = Stored(x + i.disp, Reverse(Low(r, n)))
    BY <2>1
  <2> HIDE DEF n
  <2>4. mem' \in [0 .. Size - 1 -> Byte]
    BY <2>2, <2>3, LowStoredTyped
  <2> QED BY <1>0, <2>1, <2>2, <2>4 DEF StorageInv
<1>6. CASE FloatLoad
  <2>1. PICK op \in {"lfd", "lfs"}, i \in Access("lfd", BOOLEAN) \cup Access("lfs", BOOLEAN) :
          /\ i \in Access(op, BOOLEAN)
          /\ f' = Swapped(x + i.disp, IF op = "lfd" THEN 8 ELSE 4)
          /\ Addressed(i) /\ UNCHANGED <<mem, r, v>>
    BY <1>6 DEF FloatLoad
  <2>2. x + i.disp \in Nat /\ x + i.disp + 8 <= Size /\ x' \in Nat
    BY <2>1, AccessInMemory
  <2>3. \A n \in {4, 8} : n \in Nat /\ x + i.disp + n <= Size
    BY <2>2, SizeAssumption
  <2>4. \A n \in {4, 8} : Swapped(x + i.disp, n) \in [0 .. n - 1 -> Byte]
    BY <2>2, <2>3, SwappedTyped
  <2>5. f' \in [0 .. 7 -> Byte] \cup [0 .. 3 -> Byte]
    BY <2>1, <2>4
  <2> QED BY <1>0, <2>1, <2>2, <2>5 DEF StorageInv
<1>7. CASE FloatStore
  <2>1. PICK op \in {"stfd", "stfs", "stfiwx"} :
          \E i \in Access(op, IF op = "stfiwx" THEN {FALSE} ELSE BOOLEAN) :
            /\ (op = "stfs") <=> (DOMAIN f = 0 .. 3)
            /\ mem' = Stored(x + i.disp, IF op = "stfiwx" THEN Low(f, 4) ELSE f)
            /\ Addressed(i) /\ UNCHANGED <<r, f, v>>
    BY <1>7 DEF FloatStore
  <2>2. PICK i \in Access(op, IF op = "stfiwx" THEN {FALSE} ELSE BOOLEAN) :
          /\ (op = "stfs") <=> (DOMAIN f = 0 .. 3)
          /\ mem' = Stored(x + i.disp, IF op = "stfiwx" THEN Low(f, 4) ELSE f)
          /\ Addressed(i) /\ UNCHANGED <<r, f, v>>
    BY <2>1
  <2>3. x + i.disp \in Nat /\ x' \in Nat
    BY <2>2, AccessInMemory
  <2>4. PICK last \in {3, 7} : (IF op = "stfiwx" THEN Low(f, 4) ELSE f) \in [0 .. last -> Byte]
    <3>1. Low(f, 4) \in [0 .. 3 -> Byte]
      BY <1>0 DEF Low
    <3> QED BY <1>0, <3>1
  <2>5. last \in Nat
    OBVIOUS
  <2>6. mem' \in [0 .. Size - 1 -> Byte]
    BY <2>2, <2>3, <2>4, <2>5, WrittenTyped
  <2> QED BY <1>0, <2>2, <2>3, <2>6 DEF StorageInv
<1>8. CASE ZeroLine
  <2>1. PICK i \in Access("dcbz", {FALSE}) :
          /\ mem' = Written(Line(x + i.disp, 32), [k \in 0 .. 31 |-> 0])
          /\ Addressed(i) /\ UNCHANGED <<r, f, v>>
    BY <1>8 DEF ZeroLine
  <2>2. x + i.disp \in Nat /\ x' \in Nat
    BY <2>1, AccessInMemory
  <2>3. Line(x + i.disp, 32) \in Int
    BY <2>2 DEF Line
  <2> DEFINE last == 31
  <2>4. last \in Nat /\ [k \in 0 .. 31 |-> 0] \in [0 .. last -> Byte]
    BY DEF Byte
  <2> HIDE DEF last
  <2>5. mem' \in [0 .. Size - 1 -> Byte]
    BY <2>1, <2>3, <2>4, WrittenTyped
  <2> QED BY <1>0, <2>1, <2>2, <2>5 DEF StorageInv
<1>9. CASE VectorLoad
  <2>1. PICK op \in {"lvehx", "lvewx", "lvx", "lvlx", "lvrx", "lvsl", "lvsr"} : \E i \in VectorAccess(op) :
          /\ v' = [v EXCEPT ![i.d] = LoadedVector(op, i.d, x + i.disp)]
          /\ Addressed(i) /\ UNCHANGED <<mem, r, f>>
    BY <1>9 DEF VectorLoad
  <2>2. PICK i \in VectorAccess(op) :
          /\ v' = [v EXCEPT ![i.d] = LoadedVector(op, i.d, x + i.disp)]
          /\ Addressed(i) /\ UNCHANGED <<mem, r, f>>
    BY <2>1
  <2>3. x + i.disp \in Nat /\ x + i.disp + 16 <= Size /\ i.d \in Registers /\ x' = x
    BY <2>2, VectorAccessInMemory
  <2>4. LoadedVector(op, i.d, x + i.disp) \in Vector
    BY <2>3, LoadedTyped
  <2> QED BY <1>0, <2>2, <2>3, <2>4 DEF StorageInv
<1>10. CASE VectorStore
  <2>1. PICK op \in {"stvx", "stvehx", "stvewx", "stvlx", "stvrx"} : \E i \in VectorAccess(op) :
          /\ mem' = StoredVector(op, v[i.d], x + i.disp)
          /\ Addressed(i) /\ UNCHANGED <<r, f, v>>
    BY <1>10 DEF VectorStore
  <2>2. PICK i \in VectorAccess(op) :
          /\ mem' = StoredVector(op, v[i.d], x + i.disp)
          /\ Addressed(i) /\ UNCHANGED <<r, f, v>>
    BY <2>1
  <2>3. x + i.disp \in Nat /\ i.d \in Registers /\ x' = x
    BY <2>2, VectorAccessInMemory
  <2>4. mem' \in [0 .. Size - 1 -> Byte]
    BY <1>0, <2>2, <2>3, StoredTyped
  <2> QED BY <1>0, <2>2, <2>3, <2>4 DEF StorageInv
<1>11. CASE Permute
  <2>1. PICK op \in PermuteOps : \E i \in PermuteForms(op) :
          v' = [v EXCEPT ![i.d] = Permuted(i)] /\ UNCHANGED <<mem, r, f, x>>
    BY <1>11 DEF Permute
  <2>2. PICK i \in PermuteForms(op) :
          v' = [v EXCEPT ![i.d] = Permuted(i)] /\ UNCHANGED <<mem, r, f, x>>
    BY <2>1
  <2>3. Permuted(i) \in Vector /\ i.d \in Registers
    BY PermutedTyped, FormsOf
  <2> QED BY <1>0, <2>2, <2>3 DEF StorageInv
<1> QED
  BY <1>1, <1>2, <1>3, <1>4, <1>5, <1>6, <1>7, <1>8, <1>9, <1>10, <1>11 DEF Next

\* Memory and registers hold bytes, and nothing is addressed below 0, for every
\* size of memory, every set of displacements and any number of instructions.
THEOREM StorageInvariant == Spec => []StorageInv
<1>1. StorageInv /\ UNCHANGED vars => StorageInv'
  BY DEF vars, StorageInv
<1>2. StorageInv /\ [Next]_vars => StorageInv'
  BY <1>1, StepTyped
<1> QED BY <1>2, StartsTyped, PTL DEF Spec

----------------------------------------------------------------------------
(* The two sides of an unaligned vector. *)

\* Byte k of the host's vector after a load with each of the tables.
LEMMA MaskedLine ==
  ASSUME NEW ea \in Nat, NEW n \in 0 .. 15, NEW k \in 0 .. 15
  PROVE  /\ Shuffle(HostLine(ea), VectorMaskL(n))[k] = IF k < n THEN 0 ELSE mem[Line(ea, 16) + 15 + n - k]
         /\ Shuffle(HostLine(ea), VectorMaskR(n))[k] = IF k < n THEN mem[Line(ea, 16) + n - 1 - k] ELSE 0
<1>1. Line(ea, 16) \in Int
  BY DEF Line
<1>2. /\ VectorMaskL(n)[k] = IF k < n THEN 255 ELSE 15 + n - k
      /\ VectorMaskR(n)[k] = IF k < n THEN n - 1 - k ELSE 255
  BY DEF VectorMaskL, VectorMaskR
<1>3. \A j \in 0 .. 15 : HostLine(ea)[j] = mem[Line(ea, 16) + j]
  BY DEF HostLine
<1>4. CASE k < n
  <2>1. (n - 1 - k) % 16 = n - 1 - k /\ n - 1 - k \in 0 .. 15 /\ ~ (n - 1 - k >= 128)
    BY <1>4
  <2>2. Line(ea, 16) + (n - 1 - k) = Line(ea, 16) + n - 1 - k
    BY <1>1
  <2> QED BY <1>2, <1>3, <1>4, <2>1, <2>2 DEF Shuffle
<1>5. CASE ~ (k < n)
  <2>1. (15 + n - k) % 16 = 15 + n - k /\ 15 + n - k \in 0 .. 15 /\ ~ (15 + n - k >= 128)
    BY <1>5
  <2>2. Line(ea, 16) + (15 + n - k) = Line(ea, 16) + 15 + n - k
    BY <1>1
  <2> QED BY <1>2, <1>3, <1>5, <2>1, <2>2 DEF Shuffle
<1> QED BY <1>4, <1>5

\* Without an offset it is the line, turned.
LEMMA PlainLine ==
  ASSUME NEW ea \in Nat, NEW k \in 0 .. 15
  PROVE  Shuffle(HostLine(ea), VectorMaskL(0))[15 - k] = mem[Line(ea, 16) + k]
<1> DEFINE n == 0
           b == 15 - k
<1>1. n \in 0 .. 15 /\ b \in 0 .. 15 /\ ~ (b < n)
  OBVIOUS
<1>2. Line(ea, 16) + 15 + n - b = Line(ea, 16) + k
  BY DEF Line
<1>3. Shuffle(HostLine(ea), VectorMaskL(n))[b] = mem[Line(ea, 16) + 15 + n - b]
  <2> HIDE DEF n, b
  <2> QED BY <1>1, MaskedLine
<1> QED BY <1>2, <1>3

LEMMA SidesMeetAt ==
  ASSUME StorageInv, NEW ea \in 0 .. Size - 17, NEW k \in 0 .. 15
  PROVE  LET left == Shuffle(HostLine(ea), VectorMaskL(ea % 16))
             right == IF ea % 16 = 0 THEN [b \in 0 .. 15 |-> 0]
                      ELSE Shuffle(HostLine(ea + 16), VectorMaskR(ea % 16))
         IN /\ left[k] = 0 \/ right[k] = 0
            /\ mem[ea + 15 - k] = left[k] + right[k]
            /\ mem[ea + 15 - k] = PermuteBytes(Shuffle(HostLine(ea), VectorMaskL(0)),
                                               Shuffle(HostLine(ea + 15), VectorMaskL(0)),
                                               VectorShiftTableL(ea % 16))[k]
<1> DEFINE n == ea % 16
           start == Line(ea, 16)
           left == Shuffle(HostLine(ea), VectorMaskL(n))
           right == IF n = 0 THEN [b \in 0 .. 15 |-> 0] ELSE Shuffle(HostLine(ea + 16), VectorMaskR(n))
           low == Shuffle(HostLine(ea), VectorMaskL(0))
           high == Shuffle(HostLine(ea + 15), VectorMaskL(0))
<1>1. ea \in Nat /\ ea + 15 \in Nat /\ ea + 16 \in Nat /\ n \in 0 .. 15 /\ start \in Nat /\ ea = start + n
  BY SizeAssumption DEF Line
<1>2. Line(ea + 16, 16) = start + 16 /\ (n # 0 => Line(ea + 15, 16) = start + 16)
  BY <1>1 DEF Line
<1>3. mem[ea + 15 - k] \in Int
  <2>1. ea + 15 - k \in 0 .. Size - 1
    BY SizeAssumption
  <2>2. mem[ea + 15 - k] \in Byte
    BY <2>1 DEF StorageInv
  <2> QED BY <2>2 DEF Byte
<1>4. left[k] = IF k < n THEN 0 ELSE mem[start + 15 + n - k]
  BY <1>1, MaskedLine
<1>5. right[k] = IF k < n THEN mem[start + 16 + n - 1 - k] ELSE 0
  <2>1. CASE n = 0
    BY <1>1, <2>1
  <2>2. CASE n # 0
    BY <1>1, <1>2, <2>2, MaskedLine
  <2> QED BY <2>1, <2>2
<1>6. ASSUME NEW b \in 0 .. 15
      PROVE  low[15 - b] = mem[start + b] /\ (n # 0 => high[15 - b] = mem[start + 16 + b])
  <2>1. low[15 - b] = mem[start + b] /\ high[15 - b] = mem[Line(ea + 15, 16) + b]
    BY <1>1, PlainLine
  <2> QED BY <1>2, <2>1
<1>7. ea + 15 - k = start + 15 + n - k /\ ea + 15 - k = start + 16 + n - 1 - k
  BY <1>1
<1>8. left[k] = 0 \/ right[k] = 0
  BY <1>4, <1>5
<1>9. mem[ea + 15 - k] = left[k] + right[k]
  <2> HIDE DEF left, right
  <2> QED BY <1>3, <1>4, <1>5, <1>7
<1>10. mem[ea + 15 - k] = PermuteBytes(low, high, VectorShiftTableL(n))[k]
  <2> DEFINE c == 15 + n - k
  <2>1. c \in 0 .. 30 /\ c % 16 \in 0 .. 15
    BY <1>1
  <2>2. VectorShiftTableL(n)[k] = c
    BY DEF VectorShiftTableL
  <2>3. PermuteBytes(low, high, VectorShiftTableL(n))[k] =
          IF (c \div 16) % 2 = 0 THEN low[15 - (c % 16)] ELSE high[15 - (c % 16)]
    BY <2>2 DEF PermuteBytes
  <2>4. CASE c < 16
    <3>1. (c \div 16) % 2 = 0 /\ c % 16 = c /\ start + c = ea + 15 - k
      BY <1>1, <2>1, <2>4
    <3> HIDE DEF low, high, c
    <3> QED BY <1>6, <2>1, <2>3, <3>1
  <2>5. CASE c >= 16
    <3>1. (c \div 16) % 2 # 0 /\ c % 16 = c - 16 /\ n # 0 /\ start + 16 + (c - 16) = ea + 15 - k
      BY <1>1, <2>1, <2>5
    <3> HIDE DEF low, high, c, n
    <3> QED BY <1>6, <2>1, <2>3, <3>1
  <2> QED BY <2>1, <2>4, <2>5
<1> QED BY <1>8, <1>9, <1>10

\* Two loads of the parts on both sides of an address are one unaligned load of
\* the guest's bytes (SidesMeet), wherever the address register got to: the masks
\* never let two bytes meet in one place, and the shift table picks the same ones
\* (recompiler.cpp:1432-1448).
THEOREM SidesAlwaysMeet == Spec => []SidesMeet
<1>1. StorageInv => SidesMeet
  <2> SUFFICES ASSUME StorageInv, NEW ea \in 0 .. Size - 17
               PROVE  LET left == Shuffle(HostLine(ea), VectorMaskL(ea % 16))
                          right == IF ea % 16 = 0 THEN [k \in 0 .. 15 |-> 0]
                                   ELSE Shuffle(HostLine(ea + 16), VectorMaskR(ea % 16))
                          unaligned == [k \in 0 .. 15 |-> mem[ea + 15 - k]]
                      IN /\ \A k \in 0 .. 15 : left[k] = 0 \/ right[k] = 0
                         /\ unaligned = [k \in 0 .. 15 |-> left[k] + right[k]]
                         /\ unaligned = PermuteBytes(Shuffle(HostLine(ea), VectorMaskL(0)),
                                                     Shuffle(HostLine(ea + 15), VectorMaskL(0)),
                                                     VectorShiftTableL(ea % 16))
    BY DEF SidesMeet
  <2> DEFINE left == Shuffle(HostLine(ea), VectorMaskL(ea % 16))
             right == IF ea % 16 = 0 THEN [k \in 0 .. 15 |-> 0]
                      ELSE Shuffle(HostLine(ea + 16), VectorMaskR(ea % 16))
             both == PermuteBytes(Shuffle(HostLine(ea), VectorMaskL(0)),
                                  Shuffle(HostLine(ea + 15), VectorMaskL(0)), VectorShiftTableL(ea % 16))
  <2>1. both = [k \in 0 .. 15 |-> both[k]]
    BY DEF PermuteBytes
  <2>2. \A k \in 0 .. 15 : /\ left[k] = 0 \/ right[k] = 0
                           /\ mem[ea + 15 - k] = left[k] + right[k]
                           /\ mem[ea + 15 - k] = both[k]
    BY SidesMeetAt
  <2> HIDE DEF left, right, both
  <2>3. [k \in 0 .. 15 |-> mem[ea + 15 - k]] = [k \in 0 .. 15 |-> both[k]]
    BY <2>2
  <2>4. [k \in 0 .. 15 |-> mem[ea + 15 - k]] = both
    BY <2>1, <2>3
  <2> QED BY <2>2, <2>4 DEF left, right, both
<1> QED BY <1>1, StorageInvariant, PTL

----------------------------------------------------------------------------
(* GeneratedStorage implements PowerStorage: general and floating registers. *)

\* The address is the guest's, and the address register changes as it does.
LEMMA AddressFollows ==
  ASSUME StorageInv, NEW op, NEW update \in SUBSET BOOLEAN, NEW i \in Access(op, update),
         Addressed(i), insn' = i
  PROVE  /\ insn'.op = op /\ Guest!EA = x + i.disp /\ x + i.disp \in Nat /\ Guest!Update
<1>1. i.op = op /\ x + i.disp \in Nat
  BY AccessInMemory
<1> QED BY <1>1 DEF Guest!EA, Guest!Update, Addressed

\* Bytes that are written somewhere are put there.
LEMMA WrittenIsPut ==
  ASSUME StorageInv, NEW n \in Nat, NEW b, DOMAIN b = 0 .. n - 1, NEW ea \in Int, mem' = Written(ea, b)
  PROVE  Guest!Put(ea, b)
<1>1. \A address \in DOMAIN mem : address \in Int
  BY SizeAssumption DEF StorageInv
<1>2. \A address \in DOMAIN mem : address >= ea /\ address - ea \in DOMAIN b <=> address - ea \in DOMAIN b
  BY <1>1
<1> QED BY <1>2 DEF Written, Guest!Put

\* The lowest bytes of the guest's register are the host's, turned.
LEMMA TailIsLow ==
  ASSUME NEW n \in 1 .. 8
  PROVE  /\ Guest!Tail([k \in 0 .. 7 |-> r[7 - k]], n) = Reverse(Low(r, n))
         /\ Guest!Backwards(Guest!Tail([k \in 0 .. 7 |-> r[7 - k]], n)) = Low(r, n)
         /\ DOMAIN Low(r, n) = 0 .. n - 1 /\ DOMAIN Reverse(Low(r, n)) = 0 .. n - 1
<1> DEFINE g == [k \in 0 .. 7 |-> r[7 - k]]
<1>1. DOMAIN Low(r, n) = 0 .. n - 1
  BY DEF Low
<1>2. Reverse(Low(r, n)) = [k \in 0 .. n - 1 |-> r[n - 1 - k]]
  <2>1. Reverse(Low(r, n)) = [k \in 0 .. n - 1 |-> Low(r, n)[n - 1 - k]]
    BY <1>1, ReverseRow
  <2>2. \A k \in 0 .. n - 1 : n - 1 - k \in 0 .. n - 1
    OBVIOUS
  <2> QED BY <2>1, <2>2 DEF Low
<1>3. Guest!Cardinality(DOMAIN g) = 8
  <2> DEFINE size == 8
  <2>1. DOMAIN g = 0 .. size - 1 /\ size \in Nat
    OBVIOUS
  <2> HIDE DEF size, g
  <2>2. Guest!Cardinality(DOMAIN g) = size
    BY <2>1, RowSize
  <2> QED BY <2>2 DEF size
<1>4. Guest!Tail(g, n) = [k \in 0 .. n - 1 |-> g[8 - n + k]]
  BY <1>3 DEF Guest!Tail
<1>5. \A k \in 0 .. n - 1 : 8 - n + k \in 0 .. 7 /\ 7 - (8 - n + k) = n - 1 - k
  OBVIOUS
<1>6. Guest!Tail(g, n) = Reverse(Low(r, n))
  BY <1>2, <1>4, <1>5
<1>7. Guest!Backwards(Reverse(Low(r, n))) = Low(r, n)
  <2>1. DOMAIN Reverse(Low(r, n)) = 0 .. n - 1
    BY <1>2
  <2>2. Guest!Cardinality(DOMAIN Reverse(Low(r, n))) = n
    BY <2>1, RowSize
  <2>3. Guest!Backwards(Reverse(Low(r, n))) = [k \in 0 .. n - 1 |-> Reverse(Low(r, n))[n - 1 - k]]
    BY <2>1, <2>2 DEF Guest!Backwards
  <2>4. \A k \in 0 .. n - 1 : n - 1 - k \in 0 .. n - 1 /\ n - 1 - (n - 1 - k) = k
    OBVIOUS
  <2> QED BY <1>2, <2>3, <2>4 DEF Low
<1> QED BY <1>1, <1>2, <1>6, <1>7

\* A load that extends what it takes leaves the guest's register.
LEMMA LoadedWord ==
  ASSUME NEW ea \in Nat, NEW n \in 1 .. 8
  PROVE  /\ [k \in 0 .. 7 |-> Extended(Swapped(ea, n), TRUE)[7 - k]] =
              Guest!AtEnd(Guest!Bytes(ea, n), 8, TRUE)
         /\ [k \in 0 .. 7 |-> Extended(Swapped(ea, n), FALSE)[7 - k]] =
              Guest!AtEnd(Guest!Bytes(ea, n), 8, FALSE)
<1> DEFINE b == Guest!Bytes(ea, n)
           c == Swapped(ea, n)
<1>1. ea \in Int /\ n \in Nat
  OBVIOUS
<1>2. b = [k \in 0 .. n - 1 |-> mem[ea + k]] /\ c = [k \in 0 .. n - 1 |-> b[n - 1 - k]]
  BY <1>1, SwappedIsBytes
<1> HIDE DEF b, c
<1>3. DOMAIN b = 0 .. n - 1 /\ DOMAIN c = 0 .. n - 1 /\ \A k \in 0 .. n - 1 : c[k] = b[n - 1 - k]
  BY <1>2
<1>4. /\ [k \in 0 .. 7 |-> Extended(c, TRUE)[7 - k]] = Guest!AtEnd(b, 8, TRUE)
      /\ [k \in 0 .. 7 |-> Extended(c, FALSE)[7 - k]] = Guest!AtEnd(b, 8, FALSE)
  BY <1>3, ExtendedIsAtEnd
<1> QED BY <1>4 DEF b, c

\* Storing them is putting the guest's there.
LEMMA StoredIsPut ==
  ASSUME StorageInv, NEW n \in 1 .. 8, NEW ea \in Int
  PROVE  /\ mem' = Stored(ea, Low(r, n)) =>
              Guest!Put(ea, Guest!Tail([k \in 0 .. 7 |-> r[7 - k]], n))
         /\ mem' = Stored(ea, Reverse(Low(r, n))) =>
              Guest!Put(ea, Guest!Backwards(Guest!Tail([k \in 0 .. 7 |-> r[7 - k]], n)))
<1> DEFINE b == Low(r, n)
<1>1. /\ Guest!Tail([k \in 0 .. 7 |-> r[7 - k]], n) = Reverse(b)
      /\ Guest!Backwards(Guest!Tail([k \in 0 .. 7 |-> r[7 - k]], n)) = b
      /\ DOMAIN b = 0 .. n - 1 /\ DOMAIN Reverse(b) = 0 .. n - 1 /\ n \in Nat
  <2>1. n \in Nat
    OBVIOUS
  <2> QED BY <2>1, TailIsLow, Zenon
<1>2. Reverse(Reverse(b)) = b
  <2>1. b = [k \in 0 .. n - 1 |-> b[k]]
    BY DEF Low
  <2> HIDE DEF b
  <2> QED BY <1>1, <2>1, ReverseTwice
<1>3. mem' = Written(ea, Reverse(b)) => Guest!Put(ea, Reverse(b))
  <2> DEFINE c == Reverse(b)
  <2> SUFFICES ASSUME mem' = Written(ea, c) PROVE Guest!Put(ea, c)
    OBVIOUS
  <2>1. DOMAIN c = 0 .. n - 1 /\ n \in Nat
    BY <1>1
  <2> HIDE DEF b, c
  <2> QED BY <2>1, WrittenIsPut
<1>4. mem' = Written(ea, b) => Guest!Put(ea, b)
  <2> HIDE DEF b
  <2> QED BY <1>1, WrittenIsPut
<1> HIDE DEF b
<1>5. mem' = Stored(ea, b) => Guest!Put(ea, Reverse(b))
  BY <1>3 DEF Stored
<1>6. mem' = Stored(ea, Reverse(b)) => Guest!Put(ea, b)
  BY <1>2, <1>4 DEF Stored
<1> QED BY <1>1, <1>5, <1>6 DEF b

LEMMA LoadFollows ==
  ASSUME StorageInv, Load
  PROVE  Guest!LoadWord
<1>1. PICK op \in DOMAIN Loads : \E i \in Access(op, IF op = "lwa" THEN {FALSE} ELSE BOOLEAN) :
        /\ r' = Extended(Swapped(x + i.disp, Loads[op].n), Loads[op].signed)
        /\ Addressed(i) /\ insn' = i /\ UNCHANGED <<mem, f, v>>
  BY DEF Load, Executed
<1>2. PICK i \in Access(op, IF op = "lwa" THEN {FALSE} ELSE BOOLEAN) :
        /\ r' = Extended(Swapped(x + i.disp, Loads[op].n), Loads[op].signed)
        /\ Addressed(i) /\ insn' = i /\ UNCHANGED <<mem, f, v>>
  BY <1>1
<1>3. insn'.op = op /\ Guest!EA = x + i.disp /\ x + i.disp \in Nat /\ Guest!Update
  BY <1>2, AddressFollows
<1> DEFINE n == Loads[op].n
<1>4. n \in 1 .. 8 /\ Guest!SizeOf[op] = n
  BY DEF Loads, Guest!SizeOf
<1> HIDE DEF n
<1> DEFINE ea == x + i.disp
           bytes == Guest!Bytes(ea, n)
<1>5. ea \in Nat /\ Guest!EA = ea /\ r' = Extended(Swapped(ea, n), Loads[op].signed)
  BY <1>2, <1>3 DEF n
<1> HIDE DEF ea
<1>6. [k \in 0 .. 7 |-> r'[7 - k]] = Guest!AtEnd(bytes, 8, insn'.op \in {"lha", "lwa"})
  <2>1. CASE op \in {"lha", "lwa"}
    <3>1. Loads[op].signed = TRUE
      BY <2>1 DEF Loads
    <3>2. [k \in 0 .. 7 |-> r'[7 - k]] = Guest!AtEnd(bytes, 8, TRUE)
      BY <1>4, <1>5, <3>1, LoadedWord
    <3> HIDE DEF bytes
    <3> QED BY <1>3, <2>1, <3>2 DEF Guest!AtEnd
  <2>2. CASE op \in {"lbz", "lhz", "lwz", "ld"}
    <3>1. Loads[op].signed = FALSE
      BY <2>2 DEF Loads
    <3>2. [k \in 0 .. 7 |-> r'[7 - k]] = Guest!AtEnd(bytes, 8, FALSE)
      BY <1>4, <1>5, <3>1, LoadedWord
    <3> HIDE DEF bytes
    <3> QED BY <1>3, <2>2, <3>2 DEF Guest!AtEnd
  <2> QED BY <2>1, <2>2 DEF Loads
<1>7. bytes = Guest!Bytes(Guest!EA, Guest!SizeOf[insn'.op]) /\ op \in {"lbz", "lhz", "lha", "lwz", "lwa", "ld"}
  BY <1>3, <1>4, <1>5 DEF Loads
<1> HIDE DEF bytes
<1> QED BY <1>2, <1>3, <1>6, <1>7 DEF Guest!LoadWord

LEMMA LoadReversedFollows ==
  ASSUME StorageInv, LoadReversed
  PROVE  Guest!LoadWord
<1>1. PICK i \in Access("lwbrx", {FALSE}) :
        /\ r' = Extended(Reverse(Swapped(x + i.disp, 4)), FALSE)
        /\ Addressed(i) /\ insn' = i /\ UNCHANGED <<mem, f, v>>
  BY DEF LoadReversed, Executed
<1>2. insn'.op = "lwbrx" /\ Guest!EA = x + i.disp /\ x + i.disp \in Nat /\ Guest!Update
  BY <1>1, AddressFollows
<1> DEFINE n == 4
           ea == x + i.disp
           plain == Guest!Bytes(ea, n)
           b == Guest!Backwards(plain)
           c == Reverse(Swapped(ea, n))
<1>3. n \in 1 .. 8 /\ n \in Nat /\ ea \in Int /\ \A k \in 0 .. n - 1 : n - 1 - k \in 0 .. n - 1
  BY <1>2
<1> HIDE DEF n, ea
<1>4. DOMAIN plain = 0 .. n - 1 /\ Swapped(ea, n) = [k \in 0 .. n - 1 |-> plain[n - 1 - k]]
  BY <1>3, SwappedIsBytes
<1>5. c = [k \in 0 .. n - 1 |-> Swapped(ea, n)[n - 1 - k]]
  <2>1. DOMAIN Swapped(ea, n) = 0 .. n - 1
    BY <1>4
  <2> QED BY <1>3, <2>1, ReverseRow
<1>6. b = [k \in 0 .. n - 1 |-> plain[n - 1 - k]]
  <2>1. Guest!Cardinality(DOMAIN plain) = n
    BY <1>3, <1>4, RowSize
  <2> QED BY <1>4, <2>1 DEF Guest!Backwards
<1>7. DOMAIN b = 0 .. n - 1 /\ DOMAIN c = 0 .. n - 1 /\ \A k \in 0 .. n - 1 : c[k] = b[n - 1 - k]
  BY <1>3, <1>4, <1>5, <1>6
<1>8. r' = Extended(c, FALSE)
  BY <1>1 DEF n, ea
<1>9. b = Guest!Backwards(Guest!Bytes(Guest!EA, 4))
  BY <1>2 DEF n, ea
<1> HIDE DEF b, c
<1>10. [k \in 0 .. 7 |-> r'[7 - k]] = Guest!AtEnd(b, 8, FALSE)
  <2>1. [k \in 0 .. 7 |-> Extended(c, FALSE)[7 - k]] = Guest!AtEnd(b, 8, FALSE)
    BY <1>3, <1>7, ExtendedIsAtEnd
  <2> QED BY <1>8, <2>1
<1> QED BY <1>1, <1>2, <1>9, <1>10 DEF Guest!LoadWord

\* Stores of a general register, as they are and turned.
LEMMA StoreFollows ==
  ASSUME StorageInv, Store
  PROVE  Guest!StoreWord
<1>1. PICK op \in DOMAIN Stores : \E i \in Access(op, BOOLEAN) :
        /\ mem' = Stored(x + i.disp, Low(r, Stores[op]))
        /\ Addressed(i) /\ insn' = i /\ UNCHANGED <<r, f, v>>
  BY DEF Store, Executed
<1>2. PICK i \in Access(op, BOOLEAN) :
        /\ mem' = Stored(x + i.disp, Low(r, Stores[op]))
        /\ Addressed(i) /\ insn' = i /\ UNCHANGED <<r, f, v>>
  BY <1>1
<1>3. insn'.op = op /\ Guest!EA = x + i.disp /\ x + i.disp \in Nat /\ Guest!Update
  BY <1>2, AddressFollows
<1> DEFINE n == Stores[op]
<1>4. op \in {"stb", "stw", "std"} /\ n \in 1 .. 8 /\ Guest!SizeOf[op] = n
  BY DEF Stores, Guest!SizeOf
<1>5. mem' = Stored(Guest!EA, Low(r, n)) /\ Guest!EA \in Int
  BY <1>2, <1>3
<1> HIDE DEF n
<1>6. Guest!Put(Guest!EA, Guest!Tail([k \in 0 .. 7 |-> r[7 - k]], n))
  BY <1>4, <1>5, StoredIsPut
<1>7. Guest!Put(Guest!EA, Guest!Tail([k \in 0 .. 7 |-> r[7 - k]], Guest!SizeOf[insn'.op]))
  BY <1>3, <1>4, <1>6
<1> QED BY <1>2, <1>3, <1>4, <1>7 DEF Guest!StoreWord

LEMMA StoreHalfFollows ==
  ASSUME StorageInv, StoreHalf
  PROVE  Guest!StoreWord
<1>1. PICK op \in {"sth", "sthbrx"} : \E i \in Access(op, IF op = "sth" THEN BOOLEAN ELSE {FALSE}) :
        /\ mem' = Stored(x + i.disp, IF op = "sth" THEN Low(r, 2) ELSE Reverse(Low(r, 2)))
        /\ Addressed(i) /\ insn' = i /\ UNCHANGED <<r, f, v>>
  BY DEF StoreHalf, Executed
<1>2. PICK i \in Access(op, IF op = "sth" THEN BOOLEAN ELSE {FALSE}) :
        /\ mem' = Stored(x + i.disp, IF op = "sth" THEN Low(r, 2) ELSE Reverse(Low(r, 2)))
        /\ Addressed(i) /\ insn' = i /\ UNCHANGED <<r, f, v>>
  BY <1>1
<1>3. insn'.op = op /\ Guest!EA = x + i.disp /\ x + i.disp \in Nat /\ Guest!Update
  BY <1>2, AddressFollows
<1> DEFINE n == 2
<1>4. n \in 1 .. 8 /\ Guest!SizeOf[op] = n
  BY DEF Guest!SizeOf
<1>5. Guest!EA \in Int /\ mem' = Stored(Guest!EA, IF op = "sth" THEN Low(r, n) ELSE Reverse(Low(r, n)))
  BY <1>2, <1>3
<1> HIDE DEF n
<1>6. CASE op = "sth"
  <2>1. Guest!Put(Guest!EA, Guest!Tail([k \in 0 .. 7 |-> r[7 - k]], n))
    BY <1>4, <1>5, <1>6, StoredIsPut
  <2>2. Guest!Put(Guest!EA, Guest!Tail([k \in 0 .. 7 |-> r[7 - k]], Guest!SizeOf[insn'.op]))
    BY <1>3, <1>4, <2>1
  <2> QED BY <1>2, <1>3, <1>6, <2>2 DEF Guest!StoreWord
<1>7. CASE op = "sthbrx"
  <2>1. Guest!Put(Guest!EA, Guest!Backwards(Guest!Tail([k \in 0 .. 7 |-> r[7 - k]], n)))
    BY <1>4, <1>5, <1>7, StoredIsPut
  <2>2. Guest!Put(Guest!EA, Guest!Backwards(Guest!Tail([k \in 0 .. 7 |-> r[7 - k]], Guest!SizeOf[insn'.op])))
    BY <1>3, <1>4, <2>1
  <2> QED BY <1>2, <1>3, <1>7, <2>2 DEF Guest!StoreWord
<1> QED BY <1>6, <1>7

LEMMA StoreReversedFollows ==
  ASSUME StorageInv, StoreReversed
  PROVE  Guest!StoreWord
<1>1. PICK i \in Access("stwbrx", {FALSE}) :
        /\ mem' = Stored(x + i.disp, Reverse(Low(r, 4)))
        /\ Addressed(i) /\ insn' = i /\ UNCHANGED <<r, f, v>>
  BY DEF StoreReversed, Executed
<1>2. insn'.op = "stwbrx" /\ Guest!EA = x + i.disp /\ x + i.disp \in Nat /\ Guest!Update
  BY <1>1, AddressFollows
<1> DEFINE n == 4
<1>3. n \in 1 .. 8 /\ Guest!SizeOf["stwbrx"] = n
  BY DEF Guest!SizeOf
<1>4. Guest!EA \in Int /\ mem' = Stored(Guest!EA, Reverse(Low(r, n)))
  BY <1>1, <1>2
<1> HIDE DEF n
<1>5. Guest!Put(Guest!EA, Guest!Backwards(Guest!Tail([k \in 0 .. 7 |-> r[7 - k]], n)))
  BY <1>3, <1>4, StoredIsPut
<1>6. Guest!Put(Guest!EA, Guest!Backwards(Guest!Tail([k \in 0 .. 7 |-> r[7 - k]], Guest!SizeOf[insn'.op])))
  BY <1>2, <1>3, <1>5
<1> QED BY <1>1, <1>2, <1>6 DEF Guest!StoreWord

\* A floating register holds what was loaded, its highest byte first.
LEMMA FloatLoadFollows ==
  ASSUME StorageInv, FloatLoad
  PROVE  Guest!LoadFloat
<1>1. PICK op \in {"lfd", "lfs"} : \E i \in Access(op, BOOLEAN) :
        /\ f' = Swapped(x + i.disp, IF op = "lfd" THEN 8 ELSE 4)
        /\ Addressed(i) /\ insn' = i /\ UNCHANGED <<mem, r, v>>
  BY DEF FloatLoad, Executed
<1>2. PICK i \in Access(op, BOOLEAN) :
        /\ f' = Swapped(x + i.disp, IF op = "lfd" THEN 8 ELSE 4)
        /\ Addressed(i) /\ insn' = i /\ UNCHANGED <<mem, r, v>>
  BY <1>1
<1>3. insn'.op = op /\ Guest!EA = x + i.disp /\ x + i.disp \in Nat /\ Guest!Update
  BY <1>2, AddressFollows
<1> DEFINE n == IF op = "lfd" THEN 8 ELSE 4
           ea == x + i.disp
<1>4. n \in Nat /\ ea \in Int /\ f' = Swapped(ea, n)
  BY <1>2, <1>3
<1> HIDE DEF n, ea
<1>5. [k \in DOMAIN f' |-> f'[Cardinality(DOMAIN f') - 1 - k]] = Guest!Bytes(ea, n)
  <2>1. DOMAIN f' = 0 .. n - 1
    BY <1>4 DEF Swapped
  <2>2. Cardinality(DOMAIN f') = n
    BY <1>4, <2>1, RowSize
  <2>3. Guest!Bytes(ea, n) = [k \in 0 .. n - 1 |-> Swapped(ea, n)[n - 1 - k]]
    BY <1>4, SwappedIsBytes
  <2> QED BY <1>4, <2>1, <2>2, <2>3
<1>6. /\ op = "lfd" => Guest!Bytes(ea, n) = Guest!Bytes(Guest!EA, 8)
      /\ op = "lfs" => Guest!Bytes(ea, n) = Guest!Bytes(Guest!EA, 4)
  BY <1>3 DEF n, ea
<1> QED BY <1>2, <1>3, <1>5, <1>6 DEF Guest!LoadFloat

LEMMA FloatStoreFollows ==
  ASSUME StorageInv, FloatStore
  PROVE  Guest!StoreWord
<1>1. PICK op \in {"stfd", "stfs", "stfiwx"} :
        \E i \in Access(op, IF op = "stfiwx" THEN {FALSE} ELSE BOOLEAN) :
          /\ (op = "stfs") <=> (DOMAIN f = 0 .. 3)
          /\ mem' = Stored(x + i.disp, IF op = "stfiwx" THEN Low(f, 4) ELSE f)
          /\ Addressed(i) /\ insn' = i /\ UNCHANGED <<r, f, v>>
  BY DEF FloatStore, Executed
<1>2. PICK i \in Access(op, IF op = "stfiwx" THEN {FALSE} ELSE BOOLEAN) :
        /\ (op = "stfs") <=> (DOMAIN f = 0 .. 3)
        /\ mem' = Stored(x + i.disp, IF op = "stfiwx" THEN Low(f, 4) ELSE f)
        /\ Addressed(i) /\ insn' = i /\ UNCHANGED <<r, f, v>>
  BY <1>1
<1>3. insn'.op = op /\ Guest!EA = x + i.disp /\ x + i.disp \in Int /\ Guest!Update
  <2>1. insn'.op = op /\ Guest!EA = x + i.disp /\ x + i.disp \in Nat /\ Guest!Update
    BY <1>2, AddressFollows
  <2> QED BY <2>1
<1> DEFINE g == [k \in DOMAIN f |-> f[Cardinality(DOMAIN f) - 1 - k]]
<1>4. g = Reverse(f)
  BY DEF Reverse
<1>5. PICK n \in {4, 8} : DOMAIN f = 0 .. n - 1 /\ (op = "stfiwx" => n = 8) /\ n \in Nat
  <2>1. CASE f \in [0 .. 3 -> Byte]
    <3> WITNESS 4 \in {4, 8}
    <3> QED BY <1>2, <2>1
  <2>2. CASE f \in [0 .. 7 -> Byte]
    <3> WITNESS 8 \in {4, 8}
    <3> QED BY <2>2
  <2> QED BY <2>1, <2>2 DEF StorageInv
<1>6. g = [k \in 0 .. n - 1 |-> f[n - 1 - k]]
  BY <1>4, <1>5, ReverseRow
<1>7. CASE op \in {"stfd", "stfs"}
  <2>1. mem' = Written(Guest!EA, g)
    BY <1>2, <1>3, <1>4, <1>7 DEF Stored
  <2>2. DOMAIN g = 0 .. n - 1
    BY <1>6
  <2> HIDE DEF g
  <2>3. Guest!Put(Guest!EA, g)
    BY <1>3, <1>5, <2>1, <2>2, WrittenIsPut
  <2> QED BY <1>2, <1>3, <1>7, <2>3 DEF Guest!StoreWord, g
<1>8. CASE op = "stfiwx"
  <2> DEFINE size == 4
             low == Low(f, size)
  <2>1. size \in Nat /\ low = [k \in 0 .. size - 1 |-> f[k]] /\ n = 8 /\ size = 4
    BY <1>5, <1>8 DEF Low
  <2>2. mem' = Written(Guest!EA, Reverse(low))
    BY <1>2, <1>3, <1>8 DEF Stored
  <2> HIDE DEF g, size, low
  <2>3. Reverse(low) = [k \in 0 .. size - 1 |-> low[size - 1 - k]] /\ DOMAIN Reverse(low) = 0 .. size - 1
    <3>1. DOMAIN low = 0 .. size - 1 /\ size \in Nat
      BY <2>1
    <3>2. Reverse(low) = [k \in 0 .. size - 1 |-> low[size - 1 - k]]
      BY <3>1, ReverseRow
    <3> QED BY <3>2
  <2>4. Guest!Tail(g, size) = Reverse(low)
    <3>1. Guest!Cardinality(DOMAIN g) = n
      BY <1>5, <1>6, RowSize
    <3>2. Guest!Tail(g, size) = [k \in 0 .. size - 1 |-> g[n - size + k]]
      BY <3>1 DEF Guest!Tail
    <3>3. \A k \in 0 .. size - 1 : g[n - size + k] = low[size - 1 - k]
      BY <1>6, <2>1
    <3> QED BY <2>3, <3>2, <3>3
  <2>5. Guest!Put(Guest!EA, Reverse(low))
    <3> DEFINE c == Reverse(low)
    <3>1. mem' = Written(Guest!EA, c) /\ DOMAIN c = 0 .. size - 1
      BY <2>2, <2>3
    <3>2. Guest!EA \in Int
      BY <1>3
    <3> HIDE DEF c
    <3>3. Guest!Put(Guest!EA, c)
      BY <2>1, <3>1, <3>2, WrittenIsPut
    <3> QED BY <3>3 DEF c
  <2>6. Guest!Put(Guest!EA, Guest!Tail(g, 4))
    BY <2>4, <2>5 DEF size
  <2> QED BY <1>2, <1>3, <1>8, <2>6 DEF Guest!StoreWord, g
<1> QED BY <1>7, <1>8

LEMMA ZeroLineFollows ==
  ASSUME StorageInv, ZeroLine
  PROVE  Guest!StoreWord
<1>1. PICK i \in Access("dcbz", {FALSE}) :
        /\ mem' = Written(Line(x + i.disp, 32), [k \in 0 .. 31 |-> 0])
        /\ Addressed(i) /\ insn' = i /\ UNCHANGED <<r, f, v>>
  BY DEF ZeroLine, Executed
<1>2. insn'.op = "dcbz" /\ Guest!EA = x + i.disp /\ x + i.disp \in Nat /\ Guest!Update
  BY <1>1, AddressFollows
<1>3. Line(x + i.disp, 32) = Guest!EA - (Guest!EA % 32) /\ Line(x + i.disp, 32) \in Int
  BY <1>2 DEF Line
<1> DEFINE n == 32
           zeros == [k \in 0 .. 31 |-> 0]
           start == Line(x + i.disp, 32)
<1>4. n \in Nat /\ DOMAIN zeros = 0 .. n - 1 /\ start \in Int /\ mem' = Written(start, zeros)
  BY <1>1, <1>3
<1> HIDE DEF n, zeros, start
<1>5. Guest!Put(start, zeros)
  BY <1>4, WrittenIsPut
<1>6. Guest!Put(Guest!EA - (Guest!EA % 32), [k \in 0 .. 31 |-> 0])
  BY <1>3, <1>5 DEF start, zeros
<1> QED BY <1>1, <1>2, <1>6 DEF Guest!StoreWord


----------------------------------------------------------------------------
(* Vector registers: loads and stores. *)

\* A register of the host as the guest counts its bytes
Turned(s) == [k \in 0 .. 15 |-> s[15 - k]]

\* A vector register gets what the guest's gets.
LEMMA IntoFollows ==
  ASSUME StorageInv, NEW d \in Registers, NEW w, v' = [v EXCEPT ![d] = w], insn'.d = d
  PROVE  Guest!Into(Turned(w))
<1>1. v \in [Registers -> Vector]
  BY DEF StorageInv
<1>2. v' = [m \in Registers |-> IF m = d THEN w ELSE v[m]]
  BY <1>1
<1>3. [m \in Registers |-> [k \in 0 .. 15 |-> v'[m][15 - k]]]
        = [m \in Registers |-> IF m = d THEN Turned(w) ELSE [k \in 0 .. 15 |-> v[m][15 - k]]]
  <2>1. \A m \in Registers : [k \in 0 .. 15 |-> v'[m][15 - k]]
                               = IF m = d THEN Turned(w) ELSE [k \in 0 .. 15 |-> v[m][15 - k]]
    BY <1>2 DEF Turned
  <2> QED BY <2>1
<1> QED BY <1>3 DEF Guest!Into

\* The guest's line is the host's.
LEMMA StartIsLine ==
  ASSUME NEW ea \in Nat, Guest!EA = ea
  PROVE  /\ Guest!Start = Line(ea, 16) /\ Guest!Offset = (ea % 16)
         /\ Line(ea, 16) \in Nat /\ (ea % 16) \in 0 .. 15 /\ ea = Line(ea, 16) + (ea % 16)
BY DEF Guest!Start, Guest!Offset, Line

\* The half that lvehx and stvehx move.
LEMMA HalfOfLine ==
  ASSUME NEW ea \in Nat
  PROVE  /\ Line(ea, 2) = Line(ea, 16) + 2 * ((ea % 16) \div 2)
         /\ (Line(ea, 2) % 16) \div 2 = (ea % 16) \div 2
         /\ (ea % 16) \div 2 \in 0 .. 7
<1> DEFINE q == ea \div 16
           o == (ea % 16)
           h == o \div 2
           b == (o % 2)
<1>1. q \in Nat /\ o \in 0 .. 15 /\ ea = 16 * q + o
  OBVIOUS
<1> HIDE DEF q, o
<1>2. h \in 0 .. 7 /\ b \in 0 .. 1 /\ o = 2 * h + b
  BY <1>1
<1> HIDE DEF h, b
<1>3. ea \div 2 = 8 * q + h
  BY <1>1, <1>2
<1>4. Line(ea, 2) = 16 * q + 2 * h
  BY <1>1, <1>2, <1>3 DEF Line
<1>5. Line(ea, 16) = 16 * q
  BY <1>1 DEF Line, q
<1>6. (16 * q + 2 * h) % 16 = 2 * h /\ (2 * h) \div 2 = h
  BY <1>1, <1>2
<1> QED BY <1>2, <1>4, <1>5, <1>6 DEF h, o

\* What each load puts into byte k of the guest's register.
LEMMA LoadedByte ==
  ASSUME NEW ea \in Nat, NEW d \in Registers, NEW k \in 0 .. 15
  PROVE  /\ \A op \in {"lvx", "lvewx"} : LoadedVector(op, d, ea)[15 - k] = mem[Line(ea, 16) + k]
         /\ LoadedVector("lvehx", d, ea)[15 - k] =
              IF k \div 2 = (ea % 16) \div 2 THEN mem[Line(ea, 16) + k] ELSE v[d][15 - k]
         /\ LoadedVector("lvlx", d, ea)[15 - k] = IF k < 16 - (ea % 16) THEN mem[ea + k] ELSE 0
         /\ LoadedVector("lvrx", d, ea)[15 - k] = IF k >= 16 - (ea % 16) THEN mem[ea - 16 + k] ELSE 0
         /\ LoadedVector("lvsl", d, ea)[15 - k] = (ea % 16) + k
         /\ LoadedVector("lvsr", d, ea)[15 - k] = 16 - (ea % 16) + k
<1> DEFINE n == (ea % 16)
           start == Line(ea, 16)
           b == 15 - k
<1>1. start \in Nat /\ n \in 0 .. 15 /\ ea = start + n /\ b \in 0 .. 15
  BY DEF Line
<1>2. \A op \in {"lvx", "lvewx"} : LoadedVector(op, d, ea) = Shuffle(HostLine(ea), VectorMaskL(0))
  BY DEF LoadedVector
<1>3. \A op \in {"lvx", "lvewx"} : LoadedVector(op, d, ea)[15 - k] = mem[Line(ea, 16) + k]
  BY <1>2, PlainLine
<1>4. LoadedVector("lvehx", d, ea)[15 - k] =
        IF k \div 2 = (ea % 16) \div 2 THEN mem[Line(ea, 16) + k] ELSE v[d][15 - k]
  <2> DEFINE h == n \div 2
  <2>1. Line(ea, 2) = start + 2 * h /\ (Line(ea, 2) % 16) \div 2 = h /\ h \in 0 .. 7
    BY HalfOfLine
  <2>2. LoadedVector("lvehx", d, ea) =
          [m \in 0 .. 15 |-> IF m \div 2 = 7 - (Line(ea, 2) % 16) \div 2
                               THEN Swapped(Line(ea, 2), 2)[m % 2] ELSE v[d][m]]
    BY DEF LoadedVector
  <2> HIDE DEF h, n, start
  <2>3. 15 - k \in 0 .. 15 /\ (15 - k) \div 2 = 7 - k \div 2 /\ ((15 - k) % 2) = 1 - (k % 2)
        /\ (k % 2) \in 0 .. 1 /\ k = 2 * (k \div 2) + (k % 2)
    OBVIOUS
  <2>4. Swapped(Line(ea, 2), 2)[1 - (k % 2)] = mem[Line(ea, 2) + (k % 2)]
    BY <1>1, <2>1, <2>3 DEF Swapped
  <2>5. (15 - k) \div 2 = 7 - (Line(ea, 2) % 16) \div 2 <=> k \div 2 = h
    BY <2>1, <2>3
  <2>6. k \div 2 = h => Line(ea, 2) + (k % 2) = start + k
    BY <1>1, <2>1, <2>3
  <2>7. LoadedVector("lvehx", d, ea)[15 - k] = IF k \div 2 = h THEN mem[start + k] ELSE v[d][15 - k]
    BY <2>2, <2>3, <2>4, <2>5, <2>6
  <2> QED BY <2>7 DEF h, n, start
<1>5. LoadedVector("lvlx", d, ea)[b] = IF b < n THEN 0 ELSE mem[start + 15 + n - b]
  <2>1. LoadedVector("lvlx", d, ea) = Shuffle(HostLine(ea), VectorMaskL(n))
    BY DEF LoadedVector
  <2> HIDE DEF n, b
  <2>2. n \in 0 .. 15 /\ b \in 0 .. 15
    BY <1>1
  <2>3. Shuffle(HostLine(ea), VectorMaskL(n))[b] = IF b < n THEN 0 ELSE mem[start + 15 + n - b]
    BY <2>2, MaskedLine
  <2> QED BY <2>1, <2>3
<1>6. LoadedVector("lvrx", d, ea)[b] = IF b < n THEN mem[start + n - 1 - b] ELSE 0
  <2>1. LoadedVector("lvrx", d, ea) = IF n # 0 THEN Shuffle(HostLine(ea), VectorMaskR(n)) ELSE [m \in 0 .. 15 |-> 0]
    BY DEF LoadedVector
  <2> HIDE DEF n, b
  <2>2. n \in 0 .. 15 /\ b \in 0 .. 15
    BY <1>1
  <2>3. CASE n = 0
    BY <2>1, <2>2, <2>3
  <2>4. CASE n # 0
    <3>1. Shuffle(HostLine(ea), VectorMaskR(n))[b] = IF b < n THEN mem[start + n - 1 - b] ELSE 0
      BY <2>2, MaskedLine
    <3> QED BY <2>1, <2>4, <3>1
  <2> QED BY <2>3, <2>4
<1>7. LoadedVector("lvsl", d, ea)[b] = 15 + n - b
  BY <1>1 DEF LoadedVector, VectorShiftTableL
<1>8. LoadedVector("lvsr", d, ea)[b] = 31 - n - b
  BY <1>1 DEF LoadedVector, VectorShiftTableR
<1>9. b = 15 - k
  OBVIOUS
<1> HIDE DEF b, n, start
<1>10. /\ start + 15 + n - b = ea + k /\ (b < n <=> ~ (k < 16 - n))
       /\ start + n - 1 - b = ea - 16 + k /\ (b < n <=> k >= 16 - n)
       /\ 15 + n - b = n + k /\ 31 - n - b = 16 - n + k
  BY <1>1, <1>9
<1>11. LoadedVector("lvlx", d, ea)[b] = IF k < 16 - n THEN mem[ea + k] ELSE 0
  BY <1>5, <1>10
<1>12. LoadedVector("lvrx", d, ea)[b] = IF k >= 16 - n THEN mem[ea - 16 + k] ELSE 0
  BY <1>6, <1>10
<1>13. LoadedVector("lvsl", d, ea)[b] = n + k /\ LoadedVector("lvsr", d, ea)[b] = 16 - n + k
  BY <1>7, <1>8, <1>10
<1> QED BY <1>3, <1>4, <1>11, <1>12, <1>13 DEF b, n

LEMMA VectorLoadFollows ==
  ASSUME StorageInv, VectorLoad
  PROVE  insn'.op \in {"lvx", "lvewx", "lvehx", "lvlx", "lvrx", "lvsl", "lvsr"} /\ Guest!LoadVector
<1>1. PICK op \in {"lvehx", "lvewx", "lvx", "lvlx", "lvrx", "lvsl", "lvsr"} : \E i \in VectorAccess(op) :
        /\ v' = [v EXCEPT ![i.d] = LoadedVector(op, i.d, x + i.disp)]
        /\ Addressed(i) /\ insn' = i /\ UNCHANGED <<mem, r, f>>
  BY DEF VectorLoad, Executed
<1>2. PICK i \in VectorAccess(op) :
        /\ v' = [v EXCEPT ![i.d] = LoadedVector(op, i.d, x + i.disp)]
        /\ Addressed(i) /\ insn' = i /\ UNCHANGED <<mem, r, f>>
  BY <1>1
<1> DEFINE ea == x + i.disp
           d == i.d
           w == LoadedVector(op, d, ea)
<1>3. insn'.op = op /\ insn'.d = d /\ d \in Registers /\ Guest!EA = ea /\ ea \in Nat /\ Guest!Update
  <2>1. i.op = op /\ i.d \in Registers /\ ea \in Nat /\ i.update = FALSE
    BY VectorAccessInMemory
  <2> QED BY <1>2, <2>1 DEF Guest!EA, Guest!Update, Addressed
<1>4. v' = [v EXCEPT ![d] = w]
  BY <1>2
<1> HIDE DEF ea, d, w
<1>5. Guest!Into(Turned(w))
  BY <1>3, <1>4, IntoFollows DEF Guest!Into
<1>6. /\ Guest!Start = Line(ea, 16) /\ Guest!Offset = (ea % 16)
  BY <1>3, StartIsLine
<1>7. Guest!Update /\ UNCHANGED <<mem, [k \in 0 .. 7 |-> r[7 - k]],
                                  [k \in DOMAIN f |-> f[Cardinality(DOMAIN f) - 1 - k]]>>
  BY <1>2, <1>3
<1>8. CASE op \in {"lvx", "lvewx"}
  <2>1. Turned(w) = Guest!Bytes(Guest!Start, 16)
    <3>1. \A k \in 0 .. 15 : w[15 - k] = mem[Guest!Start + k]
      BY <1>3, <1>6, <1>8, LoadedByte DEF w
    <3> QED BY <3>1 DEF Turned, Guest!Bytes
  <2>2. Guest!Into(Guest!Bytes(Guest!Start, 16))
    BY <1>5, <2>1 DEF Guest!Into
  <2> QED BY <1>3, <1>7, <1>8, <2>2 DEF Guest!LoadVector
<1>9. CASE op = "lvehx"
  <2> DEFINE g == [k \in 0 .. 15 |-> IF k \div 2 = Guest!Offset \div 2 THEN mem[Guest!Start + k]
                   ELSE [m \in Registers |-> [b \in 0 .. 15 |-> v[m][15 - b]]][insn'.d][k]]
  <2>1. w = LoadedVector("lvehx", d, ea)
    BY <1>9 DEF w
  <2>2. Turned(w) = g
    <3>1. \A k \in 0 .. 15 : w[15 - k] = IF k \div 2 = Guest!Offset \div 2 THEN mem[Guest!Start + k] ELSE v[d][15 - k]
      BY <1>3, <1>6, <2>1, LoadedByte
    <3>2. \A k \in 0 .. 15 : [m \in Registers |-> [b \in 0 .. 15 |-> v[m][15 - b]]][insn'.d][k] = v[d][15 - k]
      BY <1>3
    <3> QED BY <3>1, <3>2 DEF Turned
  <2>3. Guest!Into(g)
    <3> HIDE DEF g
    <3> QED BY <1>5, <2>2 DEF Guest!Into
  <2> QED BY <1>3, <1>7, <1>9, <2>3 DEF Guest!LoadVector, Guest!Into
<1>10. CASE op = "lvlx"
  <2> DEFINE g == [k \in 0 .. 15 |-> IF k < 16 - Guest!Offset THEN mem[Guest!EA + k] ELSE 0]
  <2>1. w = LoadedVector("lvlx", d, ea)
    BY <1>10 DEF w
  <2>2. Turned(w) = g
    <3>1. \A k \in 0 .. 15 : w[15 - k] = IF k < 16 - Guest!Offset THEN mem[Guest!EA + k] ELSE 0
      BY <1>3, <1>6, <2>1, LoadedByte
    <3> QED BY <3>1 DEF Turned
  <2>3. Guest!Into(g)
    <3> HIDE DEF g
    <3> QED BY <1>5, <2>2 DEF Guest!Into
  <2> QED BY <1>3, <1>7, <1>10, <2>3 DEF Guest!LoadVector
<1>11. CASE op = "lvrx"
  <2> DEFINE g == [k \in 0 .. 15 |-> IF k >= 16 - Guest!Offset THEN mem[Guest!EA - 16 + k] ELSE 0]
  <2>1. w = LoadedVector("lvrx", d, ea)
    BY <1>11 DEF w
  <2>2. Turned(w) = g
    <3>1. \A k \in 0 .. 15 : w[15 - k] = IF k >= 16 - Guest!Offset THEN mem[Guest!EA - 16 + k] ELSE 0
      BY <1>3, <1>6, <2>1, LoadedByte
    <3> QED BY <3>1 DEF Turned
  <2>3. Guest!Into(g)
    <3> HIDE DEF g
    <3> QED BY <1>5, <2>2 DEF Guest!Into
  <2> QED BY <1>3, <1>7, <1>11, <2>3 DEF Guest!LoadVector
<1>12. CASE op = "lvsl"
  <2> DEFINE g == [k \in 0 .. 15 |-> Guest!Offset + k]
  <2>1. w = LoadedVector("lvsl", d, ea)
    BY <1>12 DEF w
  <2>2. Turned(w) = g
    <3>1. \A k \in 0 .. 15 : w[15 - k] = Guest!Offset + k
      BY <1>3, <1>6, <2>1, LoadedByte
    <3> QED BY <3>1 DEF Turned
  <2>3. Guest!Into(g)
    <3> HIDE DEF g
    <3> QED BY <1>5, <2>2 DEF Guest!Into
  <2> QED BY <1>3, <1>7, <1>12, <2>3 DEF Guest!LoadVector
<1>13. CASE op = "lvsr"
  <2> DEFINE g == [k \in 0 .. 15 |-> 16 - Guest!Offset + k]
  <2>1. w = LoadedVector("lvsr", d, ea)
    BY <1>13 DEF w
  <2>2. Turned(w) = g
    <3>1. \A k \in 0 .. 15 : w[15 - k] = 16 - Guest!Offset + k
      BY <1>3, <1>6, <2>1, LoadedByte
    <3> QED BY <3>1 DEF Turned
  <2>3. Guest!Into(g)
    <3> HIDE DEF g
    <3> QED BY <1>5, <2>2 DEF Guest!Into
  <2> QED BY <1>3, <1>7, <1>13, <2>3 DEF Guest!LoadVector
<1> QED BY <1>3, <1>8, <1>9, <1>10, <1>11, <1>12, <1>13


\* The word that stvewx moves.
LEMMA WordOfLine ==
  ASSUME NEW ea \in Nat
  PROVE  /\ Line(ea, 4) = Line(ea, 16) + 4 * ((ea % 16) \div 4)
         /\ (Line(ea, 4) % 16) \div 4 = (ea % 16) \div 4
         /\ (ea % 16) \div 4 \in 0 .. 3
<1> DEFINE q == ea \div 16
           o == ea % 16
           h == o \div 4
           b == o % 4
<1>1. q \in Nat /\ o \in 0 .. 15 /\ ea = 16 * q + o
  OBVIOUS
<1> HIDE DEF q, o
<1>2. h \in 0 .. 3 /\ b \in 0 .. 3 /\ o = 4 * h + b
  BY <1>1
<1> HIDE DEF h, b
<1>3. ea \div 4 = 4 * q + h
  BY <1>1, <1>2
<1>4. Line(ea, 4) = 16 * q + 4 * h
  BY <1>1, <1>2, <1>3 DEF Line
<1>5. Line(ea, 16) = 16 * q
  BY <1>1 DEF Line, q
<1>6. (16 * q + 4 * h) % 16 = 4 * h /\ (4 * h) \div 4 = h
  BY <1>1, <1>2
<1> QED BY <1>2, <1>4, <1>5, <1>6 DEF h, o

\* An element of the host, turned, is the guest's part.
LEMMA ElementsTurned ==
  ASSUME NEW s, NEW n \in {2, 4}, NEW lane \in Nat, NEW from \in Nat, n * lane + n + from = 16
  PROVE  /\ Reverse(Elements(s, n, lane)) = Guest!Part(Turned(s), from, n)
         /\ DOMAIN Guest!Part(Turned(s), from, n) = 0 .. n - 1
<1>1. n \in Nat /\ DOMAIN Elements(s, n, lane) = 0 .. n - 1
  BY DEF Elements
<1>2. Reverse(Elements(s, n, lane)) = [k \in 0 .. n - 1 |-> Elements(s, n, lane)[n - 1 - k]]
  BY <1>1, ReverseRow
<1>3. \A k \in 0 .. n - 1 : Elements(s, n, lane)[n - 1 - k] = Turned(s)[from + k]
  <2> SUFFICES ASSUME NEW k \in 0 .. n - 1 PROVE Elements(s, n, lane)[n - 1 - k] = Turned(s)[from + k]
    OBVIOUS
  <2>1. n - 1 - k \in 0 .. n - 1 /\ from + k \in 0 .. 15 /\ n * lane + (n - 1 - k) = 15 - (from + k)
    <3>1. CASE n = 2 BY <3>1
    <3>2. CASE n = 4 BY <3>2
    <3> QED BY <3>1, <3>2
  <2> QED BY <2>1 DEF Elements, Turned
<1> QED BY <1>2, <1>3 DEF Guest!Part

\* Where each store puts what.
LEMMA StoredBytes ==
  ASSUME StorageInv, NEW ea \in Nat, NEW s
  PROVE  LET n == ea % 16  Part(from, size) == Guest!Part(Turned(s), from, size) IN
         /\ StoredVector("stvx", s, ea) = Written(Line(ea, 16), Turned(s))
         /\ StoredVector("stvehx", s, ea) = Written(Line(ea, 2), Part(n - (n % 2), 2))
         /\ StoredVector("stvewx", s, ea) = Written(Line(ea, 4), Part(n - (n % 4), 4))
         /\ StoredVector("stvlx", s, ea) = Written(ea, Part(0, 16 - n))
         /\ StoredVector("stvrx", s, ea) = Written(Line(ea, 16), Part(16 - n, n))
<1> DEFINE n == ea % 16
           start == Line(ea, 16)
           h == n \div 2
           q == n \div 4
<1>1. n \in 0 .. 15 /\ start \in Nat /\ ea = start + n
  BY DEF Line
<1>2. DOMAIN mem = 0 .. Size - 1 /\ Size \in Nat
  BY SizeAssumption DEF StorageInv
<1>3. StoredVector("stvx", s, ea) = Written(start, Turned(s))
  <2>1. Shuffle(s, VectorMaskL(0)) = Turned(s)
    <3>1. \A k \in 0 .. 15 : VectorMaskL(0)[k] = 15 - k
      BY DEF VectorMaskL
    <3>2. \A k \in 0 .. 15 : ~ (15 - k >= 128) /\ (15 - k) % 16 = 15 - k
      OBVIOUS
    <3> QED BY <3>1, <3>2 DEF Shuffle, Turned
  <2> QED BY <2>1 DEF StoredVector
<1>4. StoredVector("stvehx", s, ea) = Written(Line(ea, 2), Guest!Part(Turned(s), n - (n % 2), 2))
  <2>1. h \in 0 .. 7 /\ (Line(ea, 2) % 16) \div 2 = h
    BY HalfOfLine
  <2>2. n - (n % 2) = 2 * h
    BY <1>1
  <2>3. StoredVector("stvehx", s, ea) = Written(Line(ea, 2), Reverse(Elements(s, 2, 7 - h)))
    BY <2>1 DEF StoredVector, Stored
  <2> DEFINE size == 2
             lane == 7 - h
             from == 2 * h
  <2>4. size \in {2, 4} /\ lane \in Nat /\ from \in Nat /\ size * lane + size + from = 16
    <3> HIDE DEF h
    <3> QED BY <2>1
  <2> HIDE DEF size, lane, from
  <2>5. Reverse(Elements(s, size, lane)) = Guest!Part(Turned(s), from, size)
    BY <2>4, ElementsTurned
  <2> QED BY <2>2, <2>3, <2>5 DEF size, lane, from
<1>5. StoredVector("stvewx", s, ea) = Written(Line(ea, 4), Guest!Part(Turned(s), n - (n % 4), 4))
  <2>1. q \in 0 .. 3 /\ (Line(ea, 4) % 16) \div 4 = q
    BY WordOfLine
  <2>2. n - (n % 4) = 4 * q
    BY <1>1
  <2>3. StoredVector("stvewx", s, ea) = Written(Line(ea, 4), Reverse(Elements(s, 4, 3 - q)))
    BY <2>1 DEF StoredVector, Stored
  <2> DEFINE size == 4
             lane == 3 - q
             from == 4 * q
  <2>4. size \in {2, 4} /\ lane \in Nat /\ from \in Nat /\ size * lane + size + from = 16
    <3> HIDE DEF q
    <3> QED BY <2>1
  <2> HIDE DEF size, lane, from
  <2>5. Reverse(Elements(s, size, lane)) = Guest!Part(Turned(s), from, size)
    BY <2>4, ElementsTurned
  <2> QED BY <2>2, <2>3, <2>5 DEF size, lane, from
<1>6. StoredVector("stvlx", s, ea) = Written(ea, Guest!Part(Turned(s), 0, 16 - n))
  <2> DEFINE b == Guest!Part(Turned(s), 0, 16 - n)
  <2>1. StoredVector("stvlx", s, ea) =
          [address \in DOMAIN mem |-> IF address \in ea .. ea + 15 - n THEN s[15 - (address - ea)] ELSE mem[address]]
    BY DEF StoredVector
  <2> HIDE DEF n
  <2>2. DOMAIN b = 0 .. 15 - n /\ \A k \in 0 .. 15 - n : k \in 0 .. 15 /\ b[k] = s[15 - k]
    BY <1>1 DEF Guest!Part, Turned
  <2> HIDE DEF b
  <2>3. ASSUME NEW address \in DOMAIN mem
        PROVE  address \in ea .. ea + 15 - n <=> address >= ea /\ address - ea \in DOMAIN b
    BY <1>1, <1>2, <2>2
  <2>4. ASSUME NEW address \in DOMAIN mem, address - ea \in DOMAIN b
        PROVE  s[15 - (address - ea)] = b[address - ea]
    BY <2>2, <2>4
  <2> QED BY <2>1, <2>3, <2>4 DEF Written, b
<1>7. StoredVector("stvrx", s, ea) = Written(start, Guest!Part(Turned(s), 16 - n, n))
  <2> DEFINE b == Guest!Part(Turned(s), 16 - n, n)
  <2>1. StoredVector("stvrx", s, ea) =
          [address \in DOMAIN mem |-> IF address \in ea - n .. ea - 1 THEN s[ea - 1 - address] ELSE mem[address]]
    BY DEF StoredVector
  <2> HIDE DEF n, start
  <2>2. DOMAIN b = 0 .. n - 1 /\ \A k \in 0 .. n - 1 : b[k] = s[n - 1 - k]
    <3>1. \A k \in 0 .. n - 1 : 16 - n + k \in 0 .. 15 /\ 15 - (16 - n + k) = n - 1 - k
      BY <1>1
    <3> QED BY <1>1, <3>1 DEF Guest!Part, Turned
  <2> HIDE DEF b
  <2>3. ASSUME NEW address \in DOMAIN mem
        PROVE  address \in ea - n .. ea - 1 <=> address >= start /\ address - start \in DOMAIN b
    <3>1. address \in Int /\ ea - n = start /\ ea - 1 = start + (n - 1) /\ start \in Int /\ n \in Int
      BY <1>1, <1>2
    <3>2. address \in ea - n .. ea - 1 <=> start <= address /\ address <= start + (n - 1)
      BY <3>1
    <3>3. address - start \in DOMAIN b <=> 0 <= address - start /\ address - start <= n - 1
      BY <2>2, <3>1
    <3> HIDE DEF h, q
    <3> QED BY <3>1, <3>2, <3>3
  <2>4. ASSUME NEW address \in DOMAIN mem, address - start \in DOMAIN b
        PROVE  s[ea - 1 - address] = b[address - start]
    <3>1. address \in Int /\ n - 1 - (address - start) = ea - 1 - address
      BY <1>1, <1>2
    <3> QED BY <2>2, <2>4, <3>1
  <2> QED BY <2>1, <2>3, <2>4 DEF Written, b
<1> QED BY <1>3, <1>4, <1>5, <1>6, <1>7

LEMMA VectorStoreFollows ==
  ASSUME StorageInv, VectorStore
  PROVE  Guest!StoreVector
<1>1. PICK op \in {"stvx", "stvehx", "stvewx", "stvlx", "stvrx"} : \E i \in VectorAccess(op) :
        /\ mem' = StoredVector(op, v[i.d], x + i.disp)
        /\ Addressed(i) /\ insn' = i /\ UNCHANGED <<r, f, v>>
  BY DEF VectorStore, Executed
<1>2. PICK i \in VectorAccess(op) :
        /\ mem' = StoredVector(op, v[i.d], x + i.disp)
        /\ Addressed(i) /\ insn' = i /\ UNCHANGED <<r, f, v>>
  BY <1>1
<1> DEFINE ea == x + i.disp
           d == i.d
           g == [n \in Registers |-> [k \in 0 .. 15 |-> v[n][15 - k]]][insn'.d]
<1>3. insn'.op = op /\ insn'.d = d /\ d \in Registers /\ Guest!EA = ea /\ ea \in Nat /\ Guest!Update
  <2>1. i.op = op /\ i.d \in Registers /\ ea \in Nat /\ i.update = FALSE
    BY VectorAccessInMemory
  <2> QED BY <1>2, <2>1 DEF Guest!EA, Guest!Update, Addressed
<1>4. mem' = StoredVector(op, v[d], ea)
  BY <1>2
<1> HIDE DEF ea, d
<1>5. g = Turned(v[d])
  BY <1>3 DEF Turned
<1>6. /\ Guest!Start = Line(ea, 16) /\ Guest!Offset = ea % 16 /\ ea % 16 \in 0 .. 15
      /\ Line(ea, 16) \in Int /\ Line(ea, 2) \in Int /\ Line(ea, 4) \in Int
      /\ Guest!EA - (Guest!EA % 2) = Line(ea, 2) /\ Guest!EA - (Guest!EA % 4) = Line(ea, 4)
  BY <1>3 DEF Line, Guest!Start, Guest!Offset
<1>7. Guest!Update /\ UNCHANGED <<[k \in 0 .. 7 |-> r[7 - k]],
                                  [k \in DOMAIN f |-> f[Cardinality(DOMAIN f) - 1 - k]],
                                  [n \in Registers |-> [k \in 0 .. 15 |-> v[n][15 - k]]]>>
  BY <1>2, <1>3
<1> HIDE DEF g
<1>8. CASE op = "stvx"
  <2> DEFINE n == 16
             at == Line(ea, 16)
             b == Turned(v[d])
  <2>1. n \in Nat /\ DOMAIN b = 0 .. n - 1 /\ at \in Int
    BY <1>6 DEF Turned
  <2>2. mem' = Written(at, b)
    BY <1>3, <1>4, <1>8, StoredBytes
  <2> HIDE DEF n, at, b
  <2>3. Guest!Put(at, b)
    BY <2>1, <2>2, WrittenIsPut
  <2>4. Guest!Put(Guest!Start, g)
    BY <1>5, <1>6, <2>3 DEF at, b, Guest!Put
  <2> QED BY <1>3, <1>7, <1>8, <2>4 DEF Guest!StoreVector, g
<1>9. CASE op = "stvehx"
  <2> DEFINE n == 2
             from == (ea % 16) - ((ea % 16) % 2)
             at == Line(ea, 2)
             b == Guest!Part(Turned(v[d]), from, n)
  <2>1. n \in Nat /\ DOMAIN b = 0 .. n - 1 /\ at \in Int
    BY <1>6 DEF Guest!Part
  <2>2. mem' = Written(at, b)
    BY <1>3, <1>4, <1>9, StoredBytes
  <2>3. Guest!Part(g, Guest!Offset - (Guest!Offset % 2), 2) = b
    BY <1>5, <1>6
  <2> HIDE DEF n, at, b
  <2>4. Guest!Put(at, b)
    BY <2>1, <2>2, WrittenIsPut
  <2>5. Guest!Put(Guest!EA - (Guest!EA % 2), Guest!Part(g, Guest!Offset - (Guest!Offset % 2), 2))
    BY <1>6, <2>3, <2>4 DEF at, Guest!Put
  <2> QED BY <1>3, <1>7, <1>9, <2>5 DEF Guest!StoreVector, g
<1>10. CASE op = "stvewx"
  <2> DEFINE n == 4
             from == (ea % 16) - ((ea % 16) % 4)
             at == Line(ea, 4)
             b == Guest!Part(Turned(v[d]), from, n)
  <2>1. n \in Nat /\ DOMAIN b = 0 .. n - 1 /\ at \in Int
    BY <1>6 DEF Guest!Part
  <2>2. mem' = Written(at, b)
    BY <1>3, <1>4, <1>10, StoredBytes
  <2>3. Guest!Part(g, Guest!Offset - (Guest!Offset % 4), 4) = b
    BY <1>5, <1>6
  <2> HIDE DEF n, at, b
  <2>4. Guest!Put(at, b)
    BY <2>1, <2>2, WrittenIsPut
  <2>5. Guest!Put(Guest!EA - (Guest!EA % 4), Guest!Part(g, Guest!Offset - (Guest!Offset % 4), 4))
    BY <1>6, <2>3, <2>4 DEF at, Guest!Put
  <2> QED BY <1>3, <1>7, <1>10, <2>5 DEF Guest!StoreVector, g
<1>11. CASE op = "stvlx"
  <2> DEFINE n == 16 - (ea % 16)
             b == Guest!Part(Turned(v[d]), 0, n)
  <2>1. n \in Nat /\ DOMAIN b = 0 .. n - 1 /\ ea \in Int
    BY <1>3, <1>6 DEF Guest!Part
  <2>2. mem' = Written(ea, b)
    BY <1>3, <1>4, <1>11, StoredBytes
  <2>3. Guest!Part(g, 0, 16 - Guest!Offset) = b
    BY <1>5, <1>6
  <2> HIDE DEF n, b
  <2>4. Guest!Put(ea, b)
    BY <2>1, <2>2, WrittenIsPut
  <2>5. Guest!Put(Guest!EA, Guest!Part(g, 0, 16 - Guest!Offset))
    BY <1>3, <2>3, <2>4 DEF Guest!Put
  <2> QED BY <1>3, <1>7, <1>11, <2>5 DEF Guest!StoreVector, g
<1>12. CASE op = "stvrx"
  <2> DEFINE n == ea % 16
             at == Line(ea, 16)
             b == Guest!Part(Turned(v[d]), 16 - n, n)
  <2>1. n \in Nat /\ DOMAIN b = 0 .. n - 1 /\ at \in Int
    BY <1>6 DEF Guest!Part
  <2>2. mem' = Written(at, b)
    BY <1>3, <1>4, <1>12, StoredBytes
  <2>3. Guest!Part(g, 16 - Guest!Offset, Guest!Offset) = b
    BY <1>5, <1>6
  <2> HIDE DEF n, at, b
  <2>4. Guest!Put(at, b)
    BY <2>1, <2>2, WrittenIsPut
  <2>5. Guest!Put(Guest!Start, Guest!Part(g, 16 - Guest!Offset, Guest!Offset))
    BY <1>6, <2>3, <2>4 DEF at, Guest!Put
  <2> QED BY <1>3, <1>7, <1>12, <2>5 DEF Guest!StoreVector, g
<1> QED BY <1>8, <1>9, <1>10, <1>11, <1>12


----------------------------------------------------------------------------
(* The rearrangements of vectors. *)

\* Byte k of 16 lies in element k \div n at k % n; the byte that the host has
\* there is counted from the other end.
LEMMA PlaceOf ==
  ASSUME NEW n \in {1, 2, 4, 8}, NEW k \in 0 .. 15
  PROVE  /\ k \div n \in 0 .. 16 \div n - 1 /\ k % n \in 0 .. n - 1 /\ k = n * (k \div n) + (k % n)
         /\ (15 - k) \div n = 16 \div n - 1 - k \div n /\ (15 - k) % n = n - 1 - (k % n)
         /\ 15 - k \in 0 .. 15
<1>1. CASE n = 1 BY <1>1
<1>2. CASE n = 2 BY <1>2
<1>3. CASE n = 4 BY <1>3
<1>4. CASE n = 8 BY <1>4
<1> QED BY <1>1, <1>2, <1>3, <1>4

LEMMA BothAt ==
  ASSUME NEW a, NEW b, NEW k \in 0 .. 31
  PROVE  Guest!Both(Turned(a), Turned(b))[k] = IF k < 16 THEN a[15 - k] ELSE b[31 - k]
<1>1. CASE k < 16
  BY <1>1 DEF Guest!Both, Turned
<1>2. CASE ~ (k < 16)
  <2>1. k - 16 \in 0 .. 15 /\ 15 - (k - 16) = 31 - k
    BY <1>2
  <2> QED BY <1>2, <2>1 DEF Guest!Both, Turned
<1> QED BY <1>1, <1>2

LEMMA SameVector ==
  ASSUME NEW t, NEW g, t = [k \in 0 .. 15 |-> t[k]], g = [k \in 0 .. 15 |-> g[k]],
         \A k \in 0 .. 15 : t[k] = g[k]
  PROVE  t = g
OBVIOUS

\* vmrgh, vmrgl
LEMMA UnpackTurned ==
  ASSUME NEW a, NEW b, NEW n \in {1, 2, 4}
  PROVE  /\ Turned(Unpack(b, a, n, "hi")) = Guest!Merged(Turned(a), Turned(b), 0, n)
         /\ Turned(Unpack(b, a, n, "lo")) = Guest!Merged(Turned(a), Turned(b), 8 \div n, n)
<1>1. ASSUME NEW k \in 0 .. 15, NEW half \in {"hi", "lo"}, NEW first,
             first = IF half = "hi" THEN 0 ELSE 8 \div n
      PROVE  Turned(Unpack(b, a, n, half))[k] = Guest!Merged(Turned(a), Turned(b), first, n)[k]
  <2> DEFINE m == k \div n
             o == k % n
             e == first + m \div 2
             at == ((15 - k) \div (2 * n) + (IF half = "hi" THEN 8 \div n ELSE 0)) * n + ((15 - k) % n)
  <2>1. /\ m \in 0 .. 16 \div n - 1 /\ o \in 0 .. n - 1 /\ e \in Nat /\ n * e + o \in 0 .. 15
        /\ (((15 - k) \div n) % 2 = 0 <=> ~ (m % 2 = 0))
        /\ at = 15 - (n * e + o)
    <3>1. CASE n = 1 BY <1>1, <3>1
    <3>2. CASE n = 2 BY <1>1, <3>2
    <3>3. CASE n = 4 BY <1>1, <3>3
    <3> QED BY <3>1, <3>2, <3>3
  <2>2. Turned(Unpack(b, a, n, half))[k] =
          IF ((15 - k) \div n) % 2 = 0 THEN b[at] ELSE a[at]
    <3>1. 15 - k \in 0 .. 15
      OBVIOUS
    <3> QED BY <3>1 DEF Turned, Unpack
  <2>3. Guest!Merged(Turned(a), Turned(b), first, n)[k] =
          Guest!Element(IF m % 2 = 0 THEN Turned(a) ELSE Turned(b), e, n)[o]
    BY <2>1 DEF Guest!Merged, Guest!Of
  <2> HIDE DEF at, o, e, m
  <2>4. n \in Nat /\ e \in Nat /\ o \in 0 .. n - 1 /\ n * e + o \in 0 .. 15
    BY <2>1
  <2>5. /\ Guest!Element(Turned(a), e, n)[o] = a[15 - (n * e + o)]
        /\ Guest!Element(Turned(b), e, n)[o] = b[15 - (n * e + o)]
    BY <2>4 DEF Guest!Element, Guest!Part, Turned
  <2> QED BY <2>1, <2>2, <2>3, <2>5
<1>2. \A half \in {"hi", "lo"} : Turned(Unpack(b, a, n, half)) = [k \in 0 .. 15 |-> Turned(Unpack(b, a, n, half))[k]]
  BY DEF Turned
<1>3. \A first : Guest!Merged(Turned(a), Turned(b), first, n) =
                 [k \in 0 .. 15 |-> Guest!Merged(Turned(a), Turned(b), first, n)[k]]
  BY DEF Guest!Merged, Guest!Of
<1>4. \A k \in 0 .. 15 : Turned(Unpack(b, a, n, "hi"))[k] = Guest!Merged(Turned(a), Turned(b), 0, n)[k]
  <2> DEFINE first == 0
             half == "hi"
  <2>1. half \in {"hi", "lo"} /\ first = IF half = "hi" THEN 0 ELSE 8 \div n
    OBVIOUS
  <2> HIDE DEF first, half
  <2>2. \A k \in 0 .. 15 : Turned(Unpack(b, a, n, half))[k] = Guest!Merged(Turned(a), Turned(b), first, n)[k]
    BY <1>1, <2>1
  <2> QED BY <2>2 DEF first, half
<1>5. \A k \in 0 .. 15 : Turned(Unpack(b, a, n, "lo"))[k] = Guest!Merged(Turned(a), Turned(b), 8 \div n, n)[k]
  <2> DEFINE first == 8 \div n
             half == "lo"
  <2>1. half \in {"hi", "lo"} /\ first = IF half = "hi" THEN 0 ELSE 8 \div n
    OBVIOUS
  <2> HIDE DEF first, half
  <2>2. \A k \in 0 .. 15 : Turned(Unpack(b, a, n, half))[k] = Guest!Merged(Turned(a), Turned(b), first, n)[k]
    BY <1>1, <2>1
  <2> QED BY <2>2 DEF first, half
<1>6. Turned(Unpack(b, a, n, "hi")) = Guest!Merged(Turned(a), Turned(b), 0, n)
  BY <1>2, <1>3, <1>4, SameVector
<1>7. Turned(Unpack(b, a, n, "lo")) = Guest!Merged(Turned(a), Turned(b), 8 \div n, n)
  BY <1>2, <1>3, <1>5, SameVector
<1> QED BY <1>6, <1>7


\* vperm
LEMMA PermuteBytesTurned ==
  ASSUME NEW a, NEW b, NEW c \in Vector
  PROVE  Turned(PermuteBytes(a, b, c)) =
           [k \in 0 .. 15 |-> Guest!Both(Turned(a), Turned(b))[Turned(c)[k] % 32]]
<1>1. ASSUME NEW k \in 0 .. 15
      PROVE  Turned(PermuteBytes(a, b, c))[k] = Guest!Both(Turned(a), Turned(b))[Turned(c)[k] % 32]
  <2> DEFINE j == 15 - k
             s == c[j]
             at == s % 32
  <2>1. j \in 0 .. 15 /\ s \in Byte
    BY DEF Vector
  <2>2. s \in Nat
    BY <2>1 DEF Byte
  <2>3. Turned(c)[k] = s
    BY DEF Turned
  <2>4. Turned(PermuteBytes(a, b, c))[k] = IF (s \div 16) % 2 = 0 THEN a[15 - (s % 16)] ELSE b[15 - (s % 16)]
    BY <2>1 DEF Turned, PermuteBytes
  <2> HIDE DEF s
  <2>5. at \in 0 .. 31 /\ (at < 16 <=> (s \div 16) % 2 = 0) /\ (at < 16 => s % 16 = at)
        /\ (~ (at < 16) => 15 - (s % 16) = 31 - at)
    BY <2>2
  <2> HIDE DEF at
  <2>6. Guest!Both(Turned(a), Turned(b))[at] = IF at < 16 THEN a[15 - at] ELSE b[31 - at]
    BY <2>5, BothAt
  <2>7. Turned(PermuteBytes(a, b, c))[k] = Guest!Both(Turned(a), Turned(b))[at]
    BY <2>4, <2>5, <2>6
  <2> QED BY <2>3, <2>7 DEF at
<1> QED BY <1>1 DEF Turned

\* vpermwi128
LEMMA ShuffleWordsTurned ==
  ASSUME NEW a, NEW i \in Nat
  PROVE  Turned(ShuffleWords(a, [word \in 0 .. 3 |-> 3 - Select(i, word)])) =
           Guest!Of(4, [k \in 0 .. 3 |-> Guest!Element(Turned(a), (i \div 4^(3 - k)) % 4, 4)])
<1> DEFINE selector == [word \in 0 .. 3 |-> 3 - Select(i, word)]
           elements == [k \in 0 .. 3 |-> Guest!Element(Turned(a), (i \div 4^(3 - k)) % 4, 4)]
<1>1. ASSUME NEW k \in 0 .. 15
      PROVE  Turned(ShuffleWords(a, selector))[k] = Guest!Of(4, elements)[k]
  <2> DEFINE m == k \div 4
             o == k % 4
             z == (i \div 4^(3 - m)) % 4
  <2>1. m \in 0 .. 3 /\ o \in 0 .. 3 /\ 15 - k \in 0 .. 15 /\ (15 - k) \div 4 = 3 - m /\ (15 - k) % 4 = 3 - o
    OBVIOUS
  <2> HIDE DEF m, o
  <2>2. z \in 0 .. 3
    <3> DEFINE power == 4^(3 - m)
    <3>1. power \in {1, 4, 16, 64}
      <4>1. CASE m = 0 BY <4>1
      <4>2. CASE m = 1 BY <4>2
      <4>3. CASE m = 2 BY <4>3
      <4>4. CASE m = 3 BY <4>4
      <4> QED BY <2>1, <4>1, <4>2, <4>3, <4>4
    <3> HIDE DEF power
    <3>2. i \div power \in Nat
      <4>1. CASE power = 1 BY <4>1
      <4>2. CASE power = 4 BY <4>2
      <4>3. CASE power = 16 BY <4>3
      <4>4. CASE power = 64 BY <4>4
      <4> QED BY <3>1, <4>1, <4>2, <4>3, <4>4
    <3>3. (i \div power) % 4 \in 0 .. 3
      BY <3>2
    <3> QED BY <3>3 DEF power
  <2>3. Turned(ShuffleWords(a, selector))[k] = a[4 * selector[3 - m] + (3 - o)]
    BY <2>1 DEF Turned, ShuffleWords
  <2>4. selector[3 - m] = 3 - z
    BY <2>1 DEF Select
  <2>5. Guest!Of(4, elements)[k] = Guest!Element(Turned(a), z, 4)[o]
    BY <2>1 DEF Guest!Of, m, o
  <2> HIDE DEF z, selector, elements
  <2>6. Guest!Element(Turned(a), z, 4)[o] = a[15 - (4 * z + o)]
    BY <2>1, <2>2 DEF Guest!Element, Guest!Part, Turned
  <2>7. 4 * (3 - z) + (3 - o) = 15 - (4 * z + o)
    BY <2>1, <2>2
  <2> QED BY <2>3, <2>4, <2>5, <2>6, <2>7
<1>2. Turned(ShuffleWords(a, selector)) = [k \in 0 .. 15 |-> Turned(ShuffleWords(a, selector))[k]]
  BY DEF Turned
<1>3. Guest!Of(4, elements) = [k \in 0 .. 15 |-> Guest!Of(4, elements)[k]]
  BY DEF Guest!Of
<1> HIDE DEF selector, elements
<1>4. Turned(ShuffleWords(a, selector)) = Guest!Of(4, elements)
  BY <1>1, <1>2, <1>3, SameVector
<1> QED BY <1>4 DEF selector, elements

\* vpkshus128
LEMMA PackHalvesTurned ==
  ASSUME NEW a \in Vector, NEW b \in Vector
  PROVE  Turned(PackHalves(b, a)) =
           [k \in 0 .. 15 |-> Guest!Clamp(Guest!Both(Turned(a), Turned(b))[2 * k],
                                          Guest!Both(Turned(a), Turned(b))[2 * k + 1])]
<1>1. ASSUME NEW s \in Vector, NEW lane \in 0 .. 7
      PROVE  Saturated(Half(s, lane)) = Guest!Clamp(s[2 * lane + 1], s[2 * lane])
  <2> DEFINE low == s[2 * lane]
             high == s[2 * lane + 1]
  <2>1. low \in Byte /\ high \in Byte
    <3>1. 2 * lane \in 0 .. 15 /\ 2 * lane + 1 \in 0 .. 15
      OBVIOUS
    <3> QED BY <3>1 DEF Vector
  <2>2. low \in 0 .. 255 /\ high \in 0 .. 255
    BY <2>1 DEF Byte
  <2> DEFINE u == low + 256 * high
  <2>3. Half(s, lane) = IF u >= 32768 THEN u - 65536 ELSE u
    BY <2>2, SMT DEF Half
  <2> HIDE DEF low, high
  <2>4. CASE high >= 128
    <3>1. low + 256 * high >= 32768 /\ low + 256 * high - 65536 < 0
      BY <2>2, <2>4
    <3>2. Saturated(Half(s, lane)) = 0
      BY <2>2, <2>3, <3>1 DEF Saturated
    <3>3. Guest!Clamp(high, low) = 0
      BY <2>4 DEF Guest!Clamp
    <3> QED BY <3>2, <3>3 DEF low, high
  <2>5. CASE ~ (high >= 128)
    <3>1. ~ (low + 256 * high >= 32768) /\ ~ (low + 256 * high < 0)
          /\ (low + 256 * high > 255 <=> high > 0) /\ (~ (high > 0) => low + 256 * high = low)
      BY <2>2, <2>5
    <3>2. Saturated(Half(s, lane)) = IF high > 0 THEN 255 ELSE low
      BY <2>2, <2>3, <3>1 DEF Saturated
    <3>3. Guest!Clamp(high, low) = IF high > 0 THEN 255 ELSE low
      BY <2>5 DEF Guest!Clamp
    <3> QED BY <3>2, <3>3 DEF low, high
  <2> QED BY <2>4, <2>5
<1>2. ASSUME NEW k \in 0 .. 15
      PROVE  Turned(PackHalves(b, a))[k] = Guest!Clamp(Guest!Both(Turned(a), Turned(b))[2 * k],
                                                       Guest!Both(Turned(a), Turned(b))[2 * k + 1])
  <2>1. 15 - k \in 0 .. 15 /\ 2 * k \in 0 .. 31 /\ 2 * k + 1 \in 0 .. 31
    OBVIOUS
  <2>2. Turned(PackHalves(b, a))[k] = Saturated(IF 15 - k < 8 THEN Half(b, 15 - k) ELSE Half(a, 7 - k))
    BY <2>1 DEF Turned, PackHalves
  <2>3. /\ Guest!Both(Turned(a), Turned(b))[2 * k] = IF 2 * k < 16 THEN a[15 - 2 * k] ELSE b[31 - 2 * k]
        /\ Guest!Both(Turned(a), Turned(b))[2 * k + 1] =
             IF 2 * k + 1 < 16 THEN a[15 - (2 * k + 1)] ELSE b[31 - (2 * k + 1)]
    BY <2>1, BothAt
  <2>4. CASE k < 8
    <3> DEFINE lane == 7 - k
    <3>1. lane \in 0 .. 7 /\ 2 * lane + 1 = 15 - 2 * k /\ 2 * lane = 15 - (2 * k + 1)
          /\ ~ (15 - k < 8) /\ 2 * k < 16 /\ 2 * k + 1 < 16
      BY <2>4
    <3> HIDE DEF lane
    <3>2. Saturated(Half(a, lane)) = Guest!Clamp(a[2 * lane + 1], a[2 * lane])
      BY <1>1, <3>1
    <3> QED BY <2>2, <2>3, <3>1, <3>2 DEF lane
  <2>5. CASE ~ (k < 8)
    <3> DEFINE lane == 15 - k
    <3>1. lane \in 0 .. 7 /\ 2 * lane + 1 = 31 - 2 * k /\ 2 * lane = 31 - (2 * k + 1)
          /\ 15 - k < 8 /\ ~ (2 * k < 16) /\ ~ (2 * k + 1 < 16)
      BY <2>5
    <3> HIDE DEF lane
    <3>2. Saturated(Half(b, lane)) = Guest!Clamp(b[2 * lane + 1], b[2 * lane])
      BY <1>1, <3>1
    <3> QED BY <2>2, <2>3, <3>1, <3>2 DEF lane
  <2> QED BY <2>4, <2>5
<1> QED BY <1>2 DEF Turned


\* vpkuwum
LEMMA PackWordsTurned ==
  ASSUME NEW a, NEW b
  PROVE  Turned(PackWords(b, a)) =
           Guest!Of(2, [k \in 0 .. 7 |->
                          Guest!Tail(Guest!Element(Guest!Both(Turned(a), Turned(b)), k, 4), 2)])
<1> DEFINE both == Guest!Both(Turned(a), Turned(b))
           elements == [k \in 0 .. 7 |-> Guest!Tail(Guest!Element(both, k, 4), 2)]
<1>1. ASSUME NEW m \in 0 .. 7, NEW o \in 0 .. 1
      PROVE  Guest!Tail(Guest!Element(both, m, 4), 2)[o] = both[4 * m + (2 + o)]
  <2> DEFINE n == 4
             e == Guest!Element(both, m, 4)
  <2>1. n \in Nat /\ DOMAIN e = 0 .. n - 1 /\ e[2 + o] = both[4 * m + (2 + o)]
    <3>1. 2 + o \in 0 .. 3
      OBVIOUS
    <3> HIDE DEF both
    <3> QED BY <3>1 DEF Guest!Element, Guest!Part
  <2> HIDE DEF e, n, both
  <2>2. Guest!Cardinality(DOMAIN e) = n
    BY <2>1, RowSize
  <2>3. Guest!Tail(e, 2)[o] = e[4 - 2 + o]
    BY <2>2 DEF Guest!Tail, n
  <2>4. 4 - 2 + o = 2 + o
    OBVIOUS
  <2> QED BY <2>1, <2>3, <2>4 DEF e
<1>2. ASSUME NEW k \in 0 .. 15
      PROVE  Turned(PackWords(b, a))[k] = Guest!Of(2, elements)[k]
  <2> DEFINE m == k \div 2
             o == k % 2
             at == 4 * m + (2 + o)
  <2>1. m \in 0 .. 7 /\ o \in 0 .. 1 /\ (k < 8 <=> m < 4) /\ 15 - k \in 0 .. 15
        /\ 4 * (((15 - k) % 8) \div 2) + ((15 - k) % 2) = IF k < 8 THEN 13 - 4 * m - o ELSE 29 - 4 * m - o
    OBVIOUS
  <2>2. Guest!Of(2, elements)[k] = Guest!Tail(Guest!Element(both, m, 4), 2)[o]
    <3> HIDE DEF both
    <3> QED BY <2>1 DEF Guest!Of
  <2> HIDE DEF elements, m, o
  <2>3. at \in 0 .. 31 /\ (at < 16 <=> k < 8) /\ 15 - at = 13 - 4 * m - o /\ 31 - at = 29 - 4 * m - o
    BY <2>1
  <2>4. Guest!Of(2, elements)[k] = both[at]
    <3> HIDE DEF both
    <3> QED BY <1>1, <2>1, <2>2
  <2> HIDE DEF at
  <2>5. both[at] = IF at < 16 THEN a[15 - at] ELSE b[31 - at]
    BY <2>3, BothAt
  <2>6. Turned(PackWords(b, a))[k] = IF k < 8 THEN a[13 - 4 * m - o] ELSE b[29 - 4 * m - o]
    <3>1. Turned(PackWords(b, a))[k] =
            IF 15 - k < 8 THEN b[4 * (((15 - k) % 8) \div 2) + ((15 - k) % 2)]
                          ELSE a[4 * (((15 - k) % 8) \div 2) + ((15 - k) % 2)]
      BY <2>1 DEF Turned, PackWords
    <3> QED BY <2>1, <3>1
  <2> HIDE DEF both
  <2> QED BY <2>3, <2>4, <2>5, <2>6
<1>3. Turned(PackWords(b, a)) = [k \in 0 .. 15 |-> Turned(PackWords(b, a))[k]]
  BY DEF Turned
<1>4. Guest!Of(2, elements) = [k \in 0 .. 15 |-> Guest!Of(2, elements)[k]]
  BY DEF Guest!Of
<1> HIDE DEF elements
<1>5. Turned(PackWords(b, a)) = Guest!Of(2, elements)
  BY <1>2, <1>3, <1>4, SameVector
<1> QED BY <1>5 DEF elements

\* vrlimi128
LEMMA InsertTurned ==
  ASSUME NEW a, NEW d, NEW i \in 0 .. 255
  PROVE  LET turned == ShuffleWords(a, [word \in 0 .. 3 |-> (word + 4 - i \div 16) % 4]) IN
         Turned([k \in 0 .. 15 |-> IF (i \div 2^(k \div 4)) % 2 = 1 THEN turned[k] ELSE d[k]]) =
           Guest!Of(4, [k \in 0 .. 3 |-> IF (i \div 2^(3 - k)) % 2 = 1
                                           THEN Guest!Element(Turned(a), (k + i \div 16) % 4, 4)
                                           ELSE Guest!Element(Turned(d), k, 4)])
<1> DEFINE turned == ShuffleWords(a, [word \in 0 .. 3 |-> (word + 4 - i \div 16) % 4])
           host == [k \in 0 .. 15 |-> IF (i \div 2^(k \div 4)) % 2 = 1 THEN turned[k] ELSE d[k]]
           elements == [k \in 0 .. 3 |-> IF (i \div 2^(3 - k)) % 2 = 1
                                           THEN Guest!Element(Turned(a), (k + i \div 16) % 4, 4)
                                           ELSE Guest!Element(Turned(d), k, 4)]
<1>1. ASSUME NEW k \in 0 .. 15
      PROVE  Turned(host)[k] = Guest!Of(4, elements)[k]
  <2> DEFINE m == k \div 4
             o == k % 4
             z == i \div 16
             e == (m + z) % 4
  <2>1. /\ m \in 0 .. 3 /\ o \in 0 .. 3 /\ k = 4 * m + o /\ z \in 0 .. 15
        /\ 15 - k \in 0 .. 15 /\ (15 - k) \div 4 = 3 - m /\ (15 - k) % 4 = 3 - o
    OBVIOUS
  <2>2. turned[15 - k] = a[4 * ((3 - m + 4 - z) % 4) + (3 - o)]
    BY <2>1 DEF ShuffleWords
  <2>3. Turned(host)[k] = IF (i \div 2^(3 - m)) % 2 = 1 THEN turned[15 - k] ELSE d[15 - k]
    <3> HIDE DEF turned, m
    <3>1. Turned(host)[k] = host[15 - k]
      BY DEF Turned
    <3> QED BY <2>1, <3>1
  <2>4. Guest!Of(4, elements)[k] = IF (i \div 2^(3 - m)) % 2 = 1 THEN Guest!Element(Turned(a), e, 4)[o]
                                   ELSE Guest!Element(Turned(d), m, 4)[o]
    <3>1. Guest!Of(4, elements)[k] = elements[m][o]
      BY DEF Guest!Of
    <3> HIDE DEF m, o
    <3>2. elements[m] = IF (i \div 2^(3 - m)) % 2 = 1 THEN Guest!Element(Turned(a), e, 4)
                        ELSE Guest!Element(Turned(d), m, 4)
      BY <2>1
    <3> HIDE DEF elements
    <3> QED BY <3>1, <3>2
  <2> HIDE DEF m, o, z, host, elements, turned
  <2>5. e \in 0 .. 3 /\ (3 - m + 4 - z) % 4 = 3 - e
    BY <2>1
  <2> HIDE DEF e
  <2>6. /\ Guest!Element(Turned(a), e, 4)[o] = a[15 - (4 * e + o)]
        /\ Guest!Element(Turned(d), m, 4)[o] = d[15 - k]
    <3>1. 4 * e + o \in 0 .. 15 /\ 4 * m + o \in 0 .. 15 /\ 15 - k = 15 - (4 * m + o) /\ o \in 0 .. 4 - 1
      BY <2>1, <2>5
    <3> QED BY <3>1 DEF Guest!Element, Guest!Part, Turned
  <2>7. 4 * (3 - e) + (3 - o) = 15 - (4 * e + o)
    BY <2>1, <2>5
  <2> QED BY <2>2, <2>3, <2>4, <2>5, <2>6, <2>7
<1>2. Turned(host) = [k \in 0 .. 15 |-> Turned(host)[k]]
  BY DEF Turned
<1>3. Guest!Of(4, elements) = [k \in 0 .. 15 |-> Guest!Of(4, elements)[k]]
  BY DEF Guest!Of
<1> HIDE DEF host, elements
<1>4. Turned(host) = Guest!Of(4, elements)
  BY <1>1, <1>2, <1>3, SameVector
<1> QED BY <1>4 DEF host, elements

\* vsldoi
LEMMA AlignRightTurned ==
  ASSUME NEW a, NEW b, NEW i \in 0 .. 15
  PROVE  Turned(AlignRight(a, b, 16 - i)) =
           [k \in 0 .. 15 |-> Guest!Both(Turned(a), Turned(b))[k + i]]
<1>1. ASSUME NEW k \in 0 .. 15
      PROVE  Turned(AlignRight(a, b, 16 - i))[k] = Guest!Both(Turned(a), Turned(b))[k + i]
  <2> DEFINE at == k + i
             j == 15 - k
  <2>1. at \in 0 .. 31 /\ j \in 0 .. 15 /\ (j + (16 - i) < 16 <=> ~ (at < 16)) /\ j + (16 - i) < 32
        /\ j + (16 - i) = 31 - at /\ j + (16 - i) - 16 = 15 - at
    OBVIOUS
  <2>2. Turned(AlignRight(a, b, 16 - i))[k] = AlignRight(a, b, 16 - i)[j]
    BY DEF Turned
  <2> HIDE DEF at, j
  <2>3. AlignRight(a, b, 16 - i)[j] =
          IF j + (16 - i) < 16 THEN b[j + (16 - i)]
          ELSE IF j + (16 - i) < 32 THEN a[j + (16 - i) - 16] ELSE 0
    BY <2>1 DEF AlignRight
  <2>4. Guest!Both(Turned(a), Turned(b))[at] = IF at < 16 THEN a[15 - at] ELSE b[31 - at]
    BY <2>1, BothAt
  <2>5. AlignRight(a, b, 16 - i)[j] = Guest!Both(Turned(a), Turned(b))[at]
    BY <2>1, <2>3, <2>4
  <2> QED BY <2>2, <2>5 DEF at
<1> QED BY <1>1 DEF Turned


\* vspltb, vsplth, vspltw
LEMMA SplatTurned ==
  ASSUME NEW a, NEW n \in {1, 2, 4}, NEW i \in Nat
  PROVE  Turned([k \in 0 .. 15 |-> a[(16 \div n - 1 - (i % (16 \div n))) * n + (k % n)]]) =
           Guest!Of(n, [k \in 0 .. 16 \div n - 1 |-> Guest!Element(Turned(a), i % (16 \div n), n)])
<1> DEFINE host == [k \in 0 .. 15 |-> a[(16 \div n - 1 - (i % (16 \div n))) * n + (k % n)]]
           elements == [k \in 0 .. 16 \div n - 1 |-> Guest!Element(Turned(a), i % (16 \div n), n)]
<1>1. ASSUME NEW k \in 0 .. 15
      PROVE  Turned(host)[k] = Guest!Of(n, elements)[k]
  <2> DEFINE m == k \div n
             o == k % n
             e == i % (16 \div n)
             at == (16 \div n - 1 - e) * n + ((15 - k) % n)
  <2>1. m \in 0 .. 16 \div n - 1 /\ o \in 0 .. n - 1 /\ 15 - k \in 0 .. 15
        /\ e \in Nat /\ n * e + o \in 0 .. 15 /\ at = 15 - (n * e + o)
    <3>1. CASE n = 1 BY <3>1
    <3>2. CASE n = 2 BY <3>2
    <3>3. CASE n = 4 BY <3>3
    <3> QED BY <3>1, <3>2, <3>3
  <2>2. Turned(host)[k] = a[at]
    BY <2>1 DEF Turned
  <2>3. Guest!Of(n, elements)[k] = Guest!Element(Turned(a), e, n)[o]
    BY <2>1 DEF Guest!Of
  <2> HIDE DEF at, e, o, host, elements
  <2>4. Guest!Element(Turned(a), e, n)[o] = a[15 - (n * e + o)]
    BY <2>1 DEF Guest!Element, Guest!Part, Turned
  <2> QED BY <2>1, <2>2, <2>3, <2>4
<1>2. Turned(host) = [k \in 0 .. 15 |-> Turned(host)[k]]
  BY DEF Turned
<1>3. Guest!Of(n, elements) = [k \in 0 .. 15 |-> Guest!Of(n, elements)[k]]
  BY DEF Guest!Of
<1> HIDE DEF host, elements
<1>4. Turned(host) = Guest!Of(n, elements)
  BY <1>1, <1>2, <1>3, SameVector
<1> QED BY <1>4 DEF host, elements

\* Byte o of an element of n bytes that is extended to size bytes with its sign
LEMMA WidenedAt ==
  ASSUME NEW n \in Nat, NEW size \in Nat, NEW e, DOMAIN e = 0 .. n - 1, NEW o \in 0 .. size - 1
  PROVE  Guest!AtEnd(e, size, TRUE)[o] =
           IF o < size - n THEN IF e[0] >= 128 THEN 255 ELSE 0 ELSE e[o - (size - n)]
<1>1. Guest!Cardinality(DOMAIN e) = n
  BY RowSize
<1> QED BY <1>1 DEF Guest!AtEnd

\* vspltisb, vspltish, vspltisw
LEMMA SplatImmediateTurned ==
  ASSUME NEW n \in {1, 2, 4}, NEW i \in Nat
  PROVE  Turned([k \in 0 .. 15 |-> IF k % n = 0 THEN i ELSE IF i >= 128 THEN 255 ELSE 0]) =
           Guest!Of(n, [k \in 0 .. 16 \div n - 1 |-> Guest!AtEnd([byte \in {0} |-> i], n, TRUE)])
<1> DEFINE host == [k \in 0 .. 15 |-> IF k % n = 0 THEN i ELSE IF i >= 128 THEN 255 ELSE 0]
           one == [byte \in {0} |-> i]
           elements == [k \in 0 .. 16 \div n - 1 |-> Guest!AtEnd(one, n, TRUE)]
<1>1. ASSUME NEW o \in 0 .. n - 1
      PROVE  Guest!AtEnd(one, n, TRUE)[o] = IF o < n - 1 THEN IF i >= 128 THEN 255 ELSE 0 ELSE i
  <2> DEFINE size == 1
             width == n
  <2>1. one[0] = i /\ (~ (o < n - size) => o - (n - size) = 0)
    OBVIOUS
  <2>2. size \in Nat /\ width \in Nat /\ DOMAIN one = 0 .. size - 1 /\ o \in 0 .. width - 1
    OBVIOUS
  <2> HIDE DEF size, one, width
  <2>3. Guest!AtEnd(one, width, TRUE)[o] =
          IF o < width - size THEN IF one[0] >= 128 THEN 255 ELSE 0 ELSE one[o - (width - size)]
    BY <2>2, WidenedAt
  <2>4. Guest!AtEnd(one, n, TRUE)[o] = IF o < n - size THEN IF i >= 128 THEN 255 ELSE 0 ELSE i
    BY <2>1, <2>3 DEF width
  <2> QED BY <2>4 DEF size
<1> HIDE DEF one
<1>2. ASSUME NEW k \in 0 .. 15
      PROVE  Turned(host)[k] = Guest!Of(n, elements)[k]
  <2> DEFINE m == k \div n
             o == k % n
  <2>1. m \in 0 .. 16 \div n - 1 /\ o \in 0 .. n - 1 /\ 15 - k \in 0 .. 15
        /\ ((15 - k) % n = 0 <=> ~ (o < n - 1))
    <3>1. CASE n = 1 BY <3>1
    <3>2. CASE n = 2 BY <3>2
    <3>3. CASE n = 4 BY <3>3
    <3> QED BY <3>1, <3>2, <3>3
  <2>2. Turned(host)[k] = IF (15 - k) % n = 0 THEN i ELSE IF i >= 128 THEN 255 ELSE 0
    BY <2>1 DEF Turned
  <2>3. Guest!Of(n, elements)[k] = Guest!AtEnd(one, n, TRUE)[o]
    BY <2>1 DEF Guest!Of
  <2> HIDE DEF o, host, elements
  <2>4. Guest!AtEnd(one, n, TRUE)[o] = IF o < n - 1 THEN IF i >= 128 THEN 255 ELSE 0 ELSE i
    BY <1>1, <2>1
  <2> QED BY <2>1, <2>2, <2>3, <2>4
<1>3. Turned(host) = [k \in 0 .. 15 |-> Turned(host)[k]]
  BY DEF Turned
<1>4. Guest!Of(n, elements) = [k \in 0 .. 15 |-> Guest!Of(n, elements)[k]]
  BY DEF Guest!Of
<1> HIDE DEF host, elements
<1>5. Turned(host) = Guest!Of(n, elements)
  BY <1>2, <1>3, <1>4, SameVector
<1> QED BY <1>5 DEF host, elements, one

\* vupkhsb, vupkhsh, vupklsb, vupklsh
LEMMA SignExtendTurned ==
  ASSUME NEW a, NEW n \in {1, 2}
  PROVE  /\ Turned(SignExtend(a, n, "hi")) = Guest!Widened(Turned(a), 0, n)
         /\ Turned(SignExtend(a, n, "lo")) = Guest!Widened(Turned(a), 8 \div n, n)
<1>1. ASSUME NEW k \in 0 .. 15, NEW half \in {"hi", "lo"}, NEW first,
             first = IF half = "hi" THEN 0 ELSE 8 \div n
      PROVE  Turned(SignExtend(a, n, half))[k] = Guest!Widened(Turned(a), first, n)[k]
  <2> DEFINE size == 2 * n
             m == k \div size
             o == k % size
             at == n * ((15 - k) \div size) + (IF half = "hi" THEN 8 ELSE 0)
             from == n * (first + m)
             e == Guest!Element(Turned(a), first + m, n)
  <2>1. /\ m \in 0 .. 8 \div n - 1 /\ o \in 0 .. size - 1 /\ 15 - k \in 0 .. 15 /\ size \in Nat
        /\ from \in 0 .. 16 - n /\ at + n - 1 = 15 - from
        /\ ((15 - k) % size < n <=> ~ (o < n)) /\ size - n = n
        /\ (~ (o < n) => at + (((15 - k) % size) % n) = 15 - (from + (o - n)))
    <3>1. CASE n = 1 BY <1>1, <3>1
    <3>2. CASE n = 2 BY <1>1, <3>2
    <3> QED BY <3>1, <3>2
  <2>2. Turned(SignExtend(a, n, half))[k] =
          IF (15 - k) % size < n THEN a[at + (((15 - k) % size) % n)]
          ELSE IF a[at + n - 1] >= 128 THEN 255 ELSE 0
    <3>1. Turned(SignExtend(a, n, half))[k] = SignExtend(a, n, half)[15 - k]
      BY DEF Turned
    <3>2. (15 - k) % n = ((15 - k) % size) % n
      <4>1. CASE n = 1 BY <4>1
      <4>2. CASE n = 2 BY <4>2
      <4> QED BY <4>1, <4>2
    <3>3. SignExtend(a, n, half)[15 - k] =
            IF (15 - k) % size < n THEN a[at + ((15 - k) % n)] ELSE IF a[at + n - 1] >= 128 THEN 255 ELSE 0
      BY <2>1 DEF SignExtend
    <3> QED BY <3>1, <3>2, <3>3
  <2>3. Guest!Widened(Turned(a), first, n)[k] = Guest!AtEnd(e, size, TRUE)[o]
    BY <2>1 DEF Guest!Widened, Guest!Of
  <2> HIDE DEF at, o, m, size
  <2>4. DOMAIN e = 0 .. n - 1 /\ \A j \in 0 .. n - 1 : e[j] = a[15 - (from + j)]
    <3>1. \A j \in 0 .. n - 1 : from + j \in 0 .. 15
      BY <2>1
    <3> QED BY <3>1 DEF Guest!Element, Guest!Part, Turned
  <2> HIDE DEF e, from
  <2>5. Guest!AtEnd(e, size, TRUE)[o] =
          IF o < size - n THEN IF e[0] >= 128 THEN 255 ELSE 0 ELSE e[o - (size - n)]
    <3> DEFINE width == n
    <3>1. width \in Nat /\ size \in Nat /\ DOMAIN e = 0 .. width - 1 /\ o \in 0 .. size - 1
      BY <2>1, <2>4
    <3> HIDE DEF width
    <3>2. Guest!AtEnd(e, size, TRUE)[o] =
            IF o < size - width THEN IF e[0] >= 128 THEN 255 ELSE 0 ELSE e[o - (size - width)]
      BY <3>1, WidenedAt
    <3> QED BY <3>2 DEF width
  <2>6. e[0] = a[15 - from] /\ (~ (o < n) => e[o - n] = a[15 - (from + (o - n))])
    <3>1. 0 \in 0 .. n - 1 /\ from + 0 = from /\ (~ (o < n) => o - n \in 0 .. n - 1)
      BY <2>1
    <3> QED BY <2>4, <3>1
  <2> QED BY <2>1, <2>2, <2>3, <2>5, <2>6
<1>2. \A half \in {"hi", "lo"} : Turned(SignExtend(a, n, half)) = [k \in 0 .. 15 |-> Turned(SignExtend(a, n, half))[k]]
  BY DEF Turned
<1>3. \A first : Guest!Widened(Turned(a), first, n) =
                 [k \in 0 .. 15 |-> Guest!Widened(Turned(a), first, n)[k]]
  BY DEF Guest!Widened, Guest!Of
<1>4. \A k \in 0 .. 15 : Turned(SignExtend(a, n, "hi"))[k] = Guest!Widened(Turned(a), 0, n)[k]
  <2> DEFINE first == 0
             half == "hi"
  <2>1. half \in {"hi", "lo"} /\ first = IF half = "hi" THEN 0 ELSE 8 \div n
    OBVIOUS
  <2> HIDE DEF first, half
  <2>2. \A k \in 0 .. 15 : Turned(SignExtend(a, n, half))[k] = Guest!Widened(Turned(a), first, n)[k]
    BY <1>1, <2>1
  <2> QED BY <2>2 DEF first, half
<1>5. \A k \in 0 .. 15 : Turned(SignExtend(a, n, "lo"))[k] = Guest!Widened(Turned(a), 8 \div n, n)[k]
  <2> DEFINE first == 8 \div n
             half == "lo"
  <2>1. half \in {"hi", "lo"} /\ first = IF half = "hi" THEN 0 ELSE 8 \div n
    OBVIOUS
  <2> HIDE DEF first, half
  <2>2. \A k \in 0 .. 15 : Turned(SignExtend(a, n, half))[k] = Guest!Widened(Turned(a), first, n)[k]
    BY <1>1, <2>1
  <2> QED BY <2>2 DEF first, half
<1>6. Turned(SignExtend(a, n, "hi")) = Guest!Widened(Turned(a), 0, n)
  BY <1>2, <1>3, <1>4, SameVector
<1>7. Turned(SignExtend(a, n, "lo")) = Guest!Widened(Turned(a), 8 \div n, n)
  BY <1>2, <1>3, <1>5, SameVector
<1> QED BY <1>6, <1>7


\* The vector is the guest's, turned.
LEMMA PermutedTurned ==
  ASSUME StorageInv, NEW op \in PermuteOps, NEW i \in PermuteForms(op)
  PROVE  Turned(Permuted(i)) =
           Guest!Rearranged(i, Turned(v[i.a]), Turned(v[i.b]), Turned(v[i.c]), Turned(v[i.d]))
<1>1. /\ i.op = op /\ <<i.n, i.i>> \in Forms(op) /\ i.n \in {1, 2, 4} /\ i.i \in 0 .. 255
      /\ i.a \in Registers /\ i.b \in Registers /\ i.c \in Registers /\ i.d \in Registers
  BY FormsOf
<1> DEFINE w == Permuted(i)
           a == v[i.a]
           b == v[i.b]
           c == v[i.c]
           d == v[i.d]
           n == i.n
           imm == i.i
           g == Guest!Rearranged(i, Turned(a), Turned(b), Turned(c), Turned(d))
<1>2. a \in Vector /\ b \in Vector /\ c \in Vector
  BY <1>1 DEF StorageInv
<1>3. CASE op = "vmrgh"
  <2>1. w = Unpack(b, a, n, "hi")
    BY <1>1, <1>3 DEF Permuted
  <2>2. g = Guest!Merged(Turned(a), Turned(b), 0, n)
    BY <1>1, <1>3 DEF Guest!Rearranged
  <2>3. n \in {1, 2, 4}
    BY <1>1, <1>2, <1>3 DEF Forms
  <2> HIDE DEF w, g, a, b, c, d, n, imm
  <2>4. Turned(w) = g
    BY <2>1, <2>2, <2>3, UnpackTurned
  <2> QED BY <2>4 DEF w, g, a, b, c, d
<1>4. CASE op = "vmrgl"
  <2>1. w = Unpack(b, a, n, "lo")
    BY <1>1, <1>4 DEF Permuted
  <2>2. g = Guest!Merged(Turned(a), Turned(b), 8 \div n, n)
    BY <1>1, <1>4 DEF Guest!Rearranged
  <2>3. n \in {1, 2, 4}
    BY <1>1, <1>2, <1>4 DEF Forms
  <2> HIDE DEF w, g, a, b, c, d, n, imm
  <2>4. Turned(w) = g
    BY <2>1, <2>2, <2>3, UnpackTurned
  <2> QED BY <2>4 DEF w, g, a, b, c, d
<1>5. CASE op = "vperm"
  <2>1. w = PermuteBytes(a, b, c)
    BY <1>1, <1>5 DEF Permuted
  <2>2. g = [k \in 0 .. 15 |-> Guest!Both(Turned(a), Turned(b))[Turned(c)[k] % 32]]
    BY <1>1, <1>5 DEF Guest!Rearranged
  <2>3. c \in Vector
    BY <1>1, <1>2, <1>5 DEF Forms
  <2> HIDE DEF w, g, a, b, c, d, n, imm
  <2>4. Turned(w) = g
    BY <2>1, <2>2, <2>3, PermuteBytesTurned
  <2> QED BY <2>4 DEF w, g, a, b, c, d
<1>6. CASE op = "vpermwi"
  <2>1. w = ShuffleWords(a, [word \in 0 .. 3 |-> 3 - Select(imm, word)])
    BY <1>1, <1>6 DEF Permuted
  <2>2. g = Guest!Of(4, [k \in 0 .. 3 |-> Guest!Element(Turned(a), (imm \div 4^(3 - k)) % 4, 4)])
    BY <1>1, <1>6 DEF Guest!Rearranged
  <2>3. imm \in Nat
    BY <1>1, <1>2, <1>6 DEF Forms
  <2> HIDE DEF w, g, a, b, c, d, n, imm
  <2>4. Turned(w) = g
    BY <2>1, <2>2, <2>3, ShuffleWordsTurned
  <2> QED BY <2>4 DEF w, g, a, b, c, d
<1>7. CASE op = "vpkshus"
  <2>1. w = PackHalves(b, a)
    BY <1>1, <1>7 DEF Permuted
  <2>2. g = [k \in 0 .. 15 |-> Guest!Clamp(Guest!Both(Turned(a), Turned(b))[2 * k],
                                         Guest!Both(Turned(a), Turned(b))[2 * k + 1])]
    BY <1>1, <1>7 DEF Guest!Rearranged
  <2>3. a \in Vector /\ b \in Vector
    BY <1>1, <1>2, <1>7 DEF Forms
  <2> HIDE DEF w, g, a, b, c, d, n, imm
  <2>4. Turned(w) = g
    BY <2>1, <2>2, <2>3, PackHalvesTurned
  <2> QED BY <2>4 DEF w, g, a, b, c, d
<1>8. CASE op = "vpkuwum"
  <2>1. w = PackWords(b, a)
    BY <1>1, <1>8 DEF Permuted
  <2>2. g = Guest!Of(2, [k \in 0 .. 7 |->
                   Guest!Tail(Guest!Element(Guest!Both(Turned(a), Turned(b)), k, 4), 2)])
    BY <1>1, <1>8 DEF Guest!Rearranged
  <2> HIDE DEF w, g, a, b, c, d, n, imm
  <2>4. Turned(w) = g
    BY <2>1, <2>2, PackWordsTurned
  <2> QED BY <2>4 DEF w, g, a, b, c, d
<1>9. CASE op = "vrlimi"
  <2>1. w = [k \in 0 .. 15 |->
             IF (imm \div 2^(k \div 4)) % 2 = 1
               THEN ShuffleWords(a, [word \in 0 .. 3 |-> (word + 4 - imm \div 16) % 4])[k] ELSE d[k]]
    BY <1>1, <1>9 DEF Permuted
  <2>2. g = Guest!Of(4, [k \in 0 .. 3 |-> IF (imm \div 2^(3 - k)) % 2 = 1
                                          THEN Guest!Element(Turned(a), (k + imm \div 16) % 4, 4)
                                          ELSE Guest!Element(Turned(d), k, 4)])
    BY <1>1, <1>9 DEF Guest!Rearranged
  <2>3. imm \in 0 .. 255
    BY <1>1, <1>2, <1>9 DEF Forms
  <2> HIDE DEF w, g, a, b, c, d, n, imm
  <2>4. Turned(w) = g
    BY <2>1, <2>2, <2>3, InsertTurned
  <2> QED BY <2>4 DEF w, g, a, b, c, d
<1>10. CASE op = "vsldoi"
  <2>1. w = AlignRight(a, b, 16 - imm)
    BY <1>1, <1>10 DEF Permuted
  <2>2. g = [k \in 0 .. 15 |-> Guest!Both(Turned(a), Turned(b))[k + imm]]
    BY <1>1, <1>10 DEF Guest!Rearranged
  <2>3. imm \in 0 .. 15
    BY <1>1, <1>2, <1>10 DEF Forms
  <2> HIDE DEF w, g, a, b, c, d, n, imm
  <2>4. Turned(w) = g
    BY <2>1, <2>2, <2>3, AlignRightTurned
  <2> QED BY <2>4 DEF w, g, a, b, c, d
<1>11. CASE op = "vsplt"
  <2>1. w = [k \in 0 .. 15 |-> a[(16 \div n - 1 - (imm % (16 \div n))) * n + (k % n)]]
    BY <1>1, <1>11 DEF Permuted
  <2>2. g = Guest!Of(n, [k \in 0 .. 16 \div n - 1 |-> Guest!Element(Turned(a), imm % (16 \div n), n)])
    BY <1>1, <1>11 DEF Guest!Rearranged
  <2>3. n \in {1, 2, 4} /\ imm \in Nat
    BY <1>1, <1>2, <1>11 DEF Forms
  <2> HIDE DEF w, g, a, b, c, d, n, imm
  <2>4. Turned(w) = g
    BY <2>1, <2>2, <2>3, SplatTurned
  <2> QED BY <2>4 DEF w, g, a, b, c, d
<1>12. CASE op = "vspltis"
  <2>1. w = [k \in 0 .. 15 |-> IF k % n = 0 THEN imm ELSE IF imm >= 128 THEN 255 ELSE 0]
    BY <1>1, <1>12 DEF Permuted
  <2>2. g = Guest!Of(n, [k \in 0 .. 16 \div n - 1 |-> Guest!AtEnd([byte \in {0} |-> imm], n, TRUE)])
    BY <1>1, <1>12 DEF Guest!Rearranged
  <2>3. n \in {1, 2, 4} /\ imm \in Nat
    BY <1>1, <1>2, <1>12 DEF Forms
  <2> HIDE DEF w, g, a, b, c, d, n, imm
  <2>4. Turned(w) = g
    BY <2>1, <2>2, <2>3, SplatImmediateTurned
  <2> QED BY <2>4 DEF w, g, a, b, c, d
<1>13. CASE op = "vupkh"
  <2>1. w = SignExtend(a, n, "hi")
    BY <1>1, <1>13 DEF Permuted
  <2>2. g = Guest!Widened(Turned(a), 0, n)
    BY <1>1, <1>13 DEF Guest!Rearranged
  <2>3. n \in {1, 2}
    BY <1>1, <1>2, <1>13 DEF Forms
  <2> HIDE DEF w, g, a, b, c, d, n, imm
  <2>4. Turned(w) = g
    BY <2>1, <2>2, <2>3, SignExtendTurned
  <2> QED BY <2>4 DEF w, g, a, b, c, d
<1>14. CASE op = "vupkl"
  <2>1. w = SignExtend(a, n, "lo")
    BY <1>1, <1>14 DEF Permuted
  <2>2. g = Guest!Widened(Turned(a), 8 \div n, n)
    BY <1>1, <1>14 DEF Guest!Rearranged
  <2>3. n \in {1, 2}
    BY <1>1, <1>2, <1>14 DEF Forms
  <2> HIDE DEF w, g, a, b, c, d, n, imm
  <2>4. Turned(w) = g
    BY <2>1, <2>2, <2>3, SignExtendTurned
  <2> QED BY <2>4 DEF w, g, a, b, c, d
<1> QED BY <1>3, <1>4, <1>5, <1>6, <1>7, <1>8, <1>9, <1>10, <1>11, <1>12, <1>13, <1>14 DEF PermuteOps

LEMMA PermuteFollows ==
  ASSUME StorageInv, Permute
  PROVE  /\ insn'.op \notin {"lvx", "lvewx", "lvehx", "lvlx", "lvrx", "lvsl", "lvsr"}
         /\ "n" \in DOMAIN insn' /\ Guest!Rearrange
<1>1. PICK op \in PermuteOps : \E i \in PermuteForms(op) :
        /\ v' = [v EXCEPT ![i.d] = Permuted(i)]
        /\ insn' = i /\ UNCHANGED <<mem, r, f, x>>
  BY DEF Permute, Executed
<1>2. PICK i \in PermuteForms(op) :
        /\ v' = [v EXCEPT ![i.d] = Permuted(i)]
        /\ insn' = i /\ UNCHANGED <<mem, r, f, x>>
  BY <1>1
<1>3. /\ i.op = op /\ i.a \in Registers /\ i.b \in Registers /\ i.c \in Registers /\ i.d \in Registers
  BY FormsOf
<1>4. insn'.op \notin {"lvx", "lvewx", "lvehx", "lvlx", "lvrx", "lvsl", "lvsr"} /\ "n" \in DOMAIN insn'
  <2>1. "n" \in DOMAIN i
    BY DEF PermuteForms
  <2>2. op \notin {"lvx", "lvewx", "lvehx", "lvlx", "lvrx", "lvsl", "lvsr"}
    BY DEF PermuteOps
  <2> QED BY <1>2, <1>3, <2>1, <2>2
<1> DEFINE w == Permuted(i)
           d == i.d
           g == Guest!Rearranged(i, Turned(v[i.a]), Turned(v[i.b]), Turned(v[i.c]), Turned(v[i.d]))
<1>5. Turned(w) = g
  BY PermutedTurned
<1>6. v' = [v EXCEPT ![d] = w] /\ insn'.d = d /\ d \in Registers
  BY <1>2, <1>3
<1> HIDE DEF w, d
<1>7. Guest!Into(Turned(w))
  BY <1>6, IntoFollows DEF Guest!Into
<1> DEFINE registers == [n \in Registers |-> [k \in 0 .. 15 |-> v[n][15 - k]]]
           h == Guest!Rearranged(insn', registers[insn'.a], registers[insn'.b], registers[insn'.c],
                                 registers[insn'.d])
<1>8. \A m \in Registers : registers[m] = Turned(v[m])
  BY DEF Turned
<1> HIDE DEF registers
<1>9. registers[insn'.a] = Turned(v[i.a]) /\ registers[insn'.b] = Turned(v[i.b])
      /\ registers[insn'.c] = Turned(v[i.c]) /\ registers[insn'.d] = Turned(v[i.d])
  BY <1>2, <1>3, <1>8
<1>10. h = g
  BY <1>2, <1>9
<1> HIDE DEF g, h
<1>11. Guest!Into(h)
  BY <1>5, <1>7, <1>10 DEF Guest!Into
<1>12. UNCHANGED <<mem, [k \in 0 .. 7 |-> r[7 - k]],
                   [k \in DOMAIN f |-> f[Cardinality(DOMAIN f) - 1 - k]], x>>
  BY <1>2
<1> QED BY <1>4, <1>11, <1>12 DEF Guest!Rearrange, h, registers

----------------------------------------------------------------------------

LEMMA StartsAsGuest ==
  ASSUME Init
  PROVE  Guest!Init
<1>1. StorageInv /\ f \in [0 .. 7 -> Byte]
  <2>1. f \in [0 .. 7 -> Byte]
    BY DEF Init, Byte
  <2> QED BY <2>1, StartsTyped
<1>2. mem \in [0 .. Size - 1 -> 0 .. 255]
  BY <1>1 DEF StorageInv, Byte
<1>3. \A s \in [0 .. 7 -> Byte] : [k \in 0 .. 7 |-> s[7 - k]] \in [0 .. 7 -> 0 .. 255]
  BY DEF Byte
<1>4. [k \in 0 .. 7 |-> r[7 - k]] \in [0 .. 7 -> 0 .. 255]
  BY <1>1, <1>3 DEF StorageInv
<1>5. [k \in DOMAIN f |-> f[Cardinality(DOMAIN f) - 1 - k]] \in [0 .. 7 -> 0 .. 255]
  <2> DEFINE n == 8
  <2>1. n \in Nat /\ DOMAIN f = 0 .. n - 1 /\ DOMAIN f = 0 .. 7
    BY <1>1
  <2> HIDE DEF n
  <2>2. Cardinality(DOMAIN f) = n
    BY <2>1, RowSize
  <2>3. Cardinality(DOMAIN f) - 1 = 7
    BY <2>2 DEF n
  <2>4. [k \in DOMAIN f |-> f[Cardinality(DOMAIN f) - 1 - k]] = [k \in 0 .. 7 |-> f[7 - k]]
    BY <2>1, <2>3
  <2> QED BY <1>1, <1>3, <2>4
<1>6. [n \in Registers |-> [k \in 0 .. 15 |-> v[n][15 - k]]] \in [Registers -> [0 .. 15 -> 0 .. 255]]
  <2>1. \A s \in Vector : [k \in 0 .. 15 |-> s[15 - k]] \in [0 .. 15 -> 0 .. 255]
    BY DEF Vector, Byte
  <2>2. \A n \in Registers : v[n] \in Vector
    BY <1>1 DEF StorageInv
  <2> QED BY <2>1, <2>2
<1>7. x = 0 /\ insn = [op |-> "none"] /\ steps = 0
  BY DEF Init
<1> QED BY <1>2, <1>4, <1>5, <1>6, <1>7 DEF Guest!Init

\* Every step of the host is a step of the guest.
LEMMA StepFollows ==
  ASSUME StorageInv, Next
  PROVE  Guest!Next
<1>1. steps' = steps + 1
  BY DEF Next, Load, LoadReversed, Store, StoreHalf, StoreReversed, FloatLoad, FloatStore, ZeroLine,
         VectorLoad, VectorStore, Permute, Executed
<1>2. CASE Load \/ LoadReversed
  BY <1>1, <1>2, LoadFollows, LoadReversedFollows DEF Guest!Next
<1>3. CASE Store \/ StoreHalf \/ StoreReversed \/ FloatStore \/ ZeroLine
  BY <1>1, <1>3, StoreFollows, StoreHalfFollows, StoreReversedFollows, FloatStoreFollows, ZeroLineFollows
     DEF Guest!Next
<1>4. CASE FloatLoad
  BY <1>1, <1>4, FloatLoadFollows DEF Guest!Next
<1>5. CASE VectorLoad
  BY <1>1, <1>5, VectorLoadFollows DEF Guest!Next
<1>6. CASE VectorStore
  BY <1>1, <1>6, VectorStoreFollows DEF Guest!Next
<1>7. CASE Permute
  BY <1>1, <1>7, PermuteFollows DEF Guest!Next
<1> QED BY <1>2, <1>3, <1>4, <1>5, <1>6, <1>7 DEF Next

\* Memory and registers of the generated code change as those of the big-endian
\* guest, whatever the instructions, displacements, registers and contents: the
\* refinement that the run checks on one line and two registers
\* (recompiler.cpp:1226-2036, 2294-2657).
THEOREM PowerIsFollowed == Spec => FollowsPower
<1>1. Init => Guest!Init
  BY StartsAsGuest
<1>2. StorageInv /\ [Next]_vars => [Guest!Next]_(Guest!vars)
  <2>1. StorageInv /\ Next => Guest!Next
    BY StepFollows
  <2>2. UNCHANGED vars => UNCHANGED Guest!vars
    BY DEF vars, Guest!vars
  <2> QED BY <2>1, <2>2
<1> QED BY <1>1, <1>2, StorageInvariant, PTL DEF Spec, FollowsPower, Guest!Spec
===============================================================================
