-------------------------------- MODULE XexFile --------------------------------
(***************************************************************************)
(* The parts of a XEX2 file that the loader (XenonUtils/xex.cpp) and the   *)
(* patcher (XenonUtils/xex_patcher.cpp) look at. A file is an array of     *)
(* cells from 0: a header whose first cells are the fields below, and the  *)
(* body. A cell of the image is a word of two digits; the body may be      *)
(* compressed (two cells of the image in one, in chained blocks) and then  *)
(* encrypted (the key follows the cell as a digit). Hashes always match.   *)
(***************************************************************************)
EXTENDS Integers, FiniteSets, Sequences

Size(bytes) == Cardinality(DOMAIN bytes)
Slice(bytes, from, n) == [k \in 0 .. n - 1 |-> bytes[from + k]]
Overlay(bytes, at, part) == [k \in DOMAIN bytes |-> IF k - at \in DOMAIN part THEN part[k - at] ELSE bytes[k]]
Resized(bytes, n) == [k \in 0 .. n - 1 |-> IF k \in DOMAIN bytes THEN bytes[k] ELSE 0]
Zeros(n) == [k \in 0 .. n - 1 |-> 0]
Joined(left, right) ==
  [k \in 0 .. Size(left) + Size(right) - 1 |-> IF k < Size(left) THEN left[k] ELSE right[k - Size(left)]]

\* Where the fields of Xex2Header, Xex2SecurityInfo and Xex2OptFileFormatInfo
\* are. From Info on: the number of blocks and a pair of sizes for each (basic
\* compression), or the size of the first block (normal compression).
HeaderSize == 0
Key == 1
ImageSize == 2
Encryption == 3
Compression == 4
Info == 5
FieldsEnd == 6

\* A frame tells a file's magic, where its security info is and how many
\* optional headers it has. Sizes: of the magic, of Xex2Header, of what is read
\* of Xex2SecurityInfo and of Xex2OptHeader.
MagicSize == 4
FixedHeader == 2
SecurityInfo == 2
OptHeader == 1

FrameSound(frame, bytes) ==
  /\ Size(bytes) >= FixedHeader
  /\ bytes[HeaderSize] \in FixedHeader .. Size(bytes)
  /\ frame.security <= Size(bytes) /\ Size(bytes) - frame.security >= SecurityInfo
  /\ FixedHeader + frame.count * OptHeader <= bytes[HeaderSize]

None == 0
Normal == 1
Basic == 1
Lzx == 2
Delta == 3

DataSize(bytes, i) == bytes[Info + 2 * i - 1]
ZeroSize(bytes, i) == bytes[Info + 2 * i]

\* The sizes of all blocks, of their data and with the zeros, and the sum of the
\* first n.
DataSizes(bytes) == [i \in 1 .. bytes[Info] |-> DataSize(bytes, i)]
WholeSizes(bytes) == [i \in 1 .. bytes[Info] |-> DataSize(bytes, i) + ZeroSize(bytes, i)]
Totals(sizes) ==
  LET sum[i \in 0 .. Len(sizes)] == IF i = 0 THEN 0 ELSE sum[i - 1] + sizes[i] IN sum
Total(sizes, n) == Totals(sizes)[n]

----------------------------------------------------------------------------

\* AES: keys are 1..8, and a key under another is ten times that one more.
Retail == 9
Garbage == 99
Encrypted(key, bytes) == [k \in DOMAIN bytes |-> 10 * bytes[k] + key]
Decrypted(key, bytes) ==
  [k \in DOMAIN bytes |-> IF bytes[k] % 10 = key THEN bytes[k] \div 10 ELSE Garbage]
Wrapped(by, key) == 10 * by + key
Unwrapped(by, wrapped) == IF wrapped \div 10 = by THEN wrapped % 10 ELSE 0

\* lzxDecompress without a window, and with one: a negative number tells of a
\* cell of the window.
Expanded(bytes, n) ==
  [k \in 0 .. n - 1 |-> IF k % 2 = 0 THEN bytes[k \div 2] \div 10 ELSE bytes[k \div 2] % 10]
Decoded(data, window) ==
  [k \in DOMAIN data |-> IF data[k] < 0 THEN window[-1 - data[k]] ELSE data[k]]

\* The walk over the chained blocks of normal compression: position, size of
\* the block there, position of the one after it, and the data gathered.
WalkFrom(at, firstSize) == [at |-> at, size |-> firstSize, next |-> 0, inBlock |-> FALSE, data |-> <<>>]
BlockFits(bytes, end, w) == w.size >= 1 /\ w.at + w.size <= end
BlockOpened(bytes, w) == [w EXCEPT !.next = w.at + w.size, !.size = bytes[w.at], !.at = w.at + 1, !.inBlock = TRUE]
ChunkCopied(bytes, w) ==
  IF bytes[w.at] = 0 THEN [w EXCEPT !.at = w.next, !.inBlock = FALSE]
  ELSE [w EXCEPT !.at = w.at + 1 + bytes[w.at],
                 !.data = w.data \o [k \in 1 .. bytes[w.at] |-> bytes[w.at + k]]]
Gathered(w) == [k \in 0 .. Len(w.data) - 1 |-> w.data[k + 1]]

----------------------------------------------------------------------------

\* What memcpy(to, from, n) may leave: for areas that overlap, the copy of the
\* old contents or what a copy upwards or downwards makes of them.
Overlap(from, to, n) == from # to /\ from < to + n /\ to < from + n
MoveOutcomes(bytes, from, to, n) ==
  LET d == IF from < to THEN to - from ELSE from - to
      smeared == [k \in 0 .. n - 1 |->
                    IF from < to THEN bytes[from + (k % d)]
                    ELSE bytes[from + n - 1 - ((n - 1 - k) % d)]]
  IN {Overlay(bytes, to, Slice(bytes, from, n))}
       \cup IF Overlap(from, to, n) THEN {Overlay(bytes, to, smeared)} ELSE {}

\* One entry of a delta patch: zero, move or decompress against the cells at
\* the old address. at: where the patched bytes start.
DeltaOutcomes(bytes, at, delta) ==
  CASE delta.kind = "zero" -> {Overlay(bytes, at + delta.new, Zeros(delta.n))}
    [] delta.kind = "move" -> MoveOutcomes(bytes, at + delta.old, at + delta.new, delta.n)
    [] delta.kind = "data" -> {Overlay(bytes, at + delta.new, Decoded(delta.data, Slice(bytes, at + delta.old, delta.n)))}
===============================================================================
