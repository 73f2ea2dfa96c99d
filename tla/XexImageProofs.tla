----------------------------- MODULE XexImageProofs -----------------------------
(***************************************************************************)
(* Proofs about XexImage: an update is applied to the file it was made for *)
(* and to no other, blocks are moved apart in place without overwriting    *)
(* what is still to be moved, and the image that is mapped, looked up and  *)
(* linked is the promised one, for every image, every way it can be cut    *)
(* into blocks and chunks, every update and every table of sections and    *)
(* imports.                                                                *)
(***************************************************************************)
EXTENDS XexImage, NaturalLemmas

\* The invariant in parts. What never changes:
MadeInv ==
  /\ made \in Bases \cup {ElfFile}
  /\ base = made.bytes /\ baseFrame = made.frame /\ frame = made.frame
  /\ IF made = ElfFile THEN program \in Elves ELSE program \in Programs
  /\ patch \in Patches

----------------------------------------------------------------------------

\* The steps of the patcher, by what has been found out before them.
Steps == {"start", "headers", "check", "header", "headerEntries", "keys", "decrypt", "decompress",
          "basic", "lzx", "format", "entries", "done"}
Keyed == {"decrypt", "decompress", "basic", "lzx", "format", "entries", "done"}
Copied == Keyed \cup {"keys"}
Prepared == Copied \cup {"header", "headerEntries"}
Checked == Prepared \cup {"check"}
Plainly == {"format", "entries", "done"}

HeaderTold ==
  /\ out[HeaderSize] = patch.targetSize
  /\ out[Key] = Wrapped(Retail, patch.newKey)
  /\ out[ImageSize] = patch.newSize

\* What has been found out is what makes the update fit.
PatcherInv ==
  /\ step \in Steps \cup Refusals \cup {"crashed"}
  /\ patch.none => step = "start"
  /\ step \in Checked =>
       HeadersValid(baseFrame, base) /\ HeadersValid(patch.frame, patch.bytes) /\ patch.delta
  /\ step \in Prepared => Compatible /\ patch.whole
  /\ step \in {"header", "headerEntries"} => DOMAIN out = 0 .. Larger(patch.targetSize, OldHeaderSize) - 1
  /\ step = "headerEntries" =>
       /\ i \in 1 .. Len(patch.headerEntries) + 1
       /\ i > Len(patch.headerEntries) => HeaderTold
  /\ step \in Copied =>
       /\ DOMAIN out = 0 .. patch.targetSize + patch.newSize - 1
       /\ HeaderTold
       /\ patch.targetSize >= FieldsEnd /\ patch.newSize > 0 /\ patch.newSize >= BodySize
  /\ step \in Keyed => patch.keySource = Wrapped(patch.newKey, OldKey)
  /\ step = "basic" => base[Compression] = Basic /\ i \in 0 .. base[Info]
  /\ step = "lzx" => base[Compression] = Lzx
  /\ step \in Plainly => base[Compression] # Delta
  /\ step \in Plainly \cup {"basic"} => (base[Compression] = Basic => patch.newSize >= base[ImageSize])
  /\ step \in {"entries", "done"} =>
       /\ out[Encryption] = None /\ out[Compression] = None
       /\ i \in 1 .. Len(patch.entries) + 1
       /\ i > 1 => patch.encryption = None \/ Unwrapped(patch.newKey, patch.key) = patch.dataKey
  /\ step = "done" => i > Len(patch.entries)
  /\ step \in Refusals => ~Fits \/ ShorterFile
  /\ step = "crashed" => ShorterFile

----------------------------------------------------------------------------

\* What is behind the header of the new file: the body as it is in the base file,
\* decrypted, with n blocks still to be moved apart, and the image.
BodyIs(content) == \A k \in 0 .. patch.newSize - 1 : out[patch.targetSize + k] = content[k]

Stored == [k \in 0 .. patch.newSize - 1 |-> IF k < BodySize THEN base[OldHeaderSize + k] ELSE 0]
Packing == [k \in 0 .. patch.newSize - 1 |-> IF k < BodySize THEN made.body[k] ELSE 0]
Image == Resized(made.image, patch.newSize)

DataTotal(n) == Total(DataSizes(base), n)
WholeTotal(n) == Total(WholeSizes(base), n)

Moving(n) == [k \in 0 .. patch.newSize - 1 |-> IF k < WholeTotal(n) THEN Packing[k] ELSE Image[k]]

\* The walk over the body at an address: at one of its parts, with the packed cells
\* before that gathered, or at the end with all of them.
IsWalk(w) == DOMAIN w = {"at", "size", "next", "inBlock", "data"} /\ w.data \in Seq(Nat)
Gathers(w, n) == Len(w.data) = n /\ \A k \in 1 .. n : Packs(made, w.data[k], k - 1)

AtPart(w, at, part) ==
  /\ w.at = at + part.at /\ Gathers(w, part.from)
  /\ IF part.kind = "open" THEN ~w.inBlock /\ w.size = part.end - part.at
     ELSE w.inBlock /\ w.size = part.next /\ w.next = at + part.end

AtEnd(w) == ~w.inBlock /\ w.size = 0 /\ Gathers(w, made.parts[Len(made.parts)].from)

Walking(w, at) ==
  IsWalk(w) /\ ((\E n \in 1 .. Len(made.parts) : AtPart(w, at, made.parts[n])) \/ AtEnd(w))

BodyInv ==
  /\ step \in {"keys", "decrypt"} => BodyIs(Stored)
  /\ step \in {"decompress", "lzx"} => BodyIs(Packing)
  /\ step = "basic" =>
       /\ BodyIs(Moving(i))
       /\ src = patch.targetSize + DataTotal(i)
       /\ dst = patch.targetSize + WholeTotal(i)
  /\ step = "lzx" => Walking(walk, patch.targetSize)

\* Then the image is there, and the entries make of it what they should.
ContentInv ==
  /\ step = "format" /\ ~ShorterHeader /\ ~ShorterFile /\ ~LongerBody => BodyIs(Image)
  /\ step \in {"entries", "done"} /\ ~Deviates => BodyIs(UpdateSteps[i - 1])

UpdateInv == MadeInv /\ PatcherInv /\ BodyInv /\ ContentInv

----------------------------------------------------------------------------

Phases == {"closed", "file", "header", "blocks", "walk", "pe", "sections", "imports", "loaded", "invalid", "crashed"}
Loading == {"blocks", "walk", "pe", "sections", "imports"}
XexLoaded == phase = "crashed" \/ (phase = "loaded" /\ frame.magic = "XEX2")

\* The file that is opened, and what is loaded of it.
LoaderInv ==
  /\ phase \in Phases
  /\ phase # "closed" => IF patch.none THEN file = base ELSE step = "done" /\ file = out
  /\ phase \in {"header", "crashed"} \cup Loading => frame.magic = "XEX2"
  /\ phase = "loaded" => frame.magic \in {"XEX2", "ELF"}
  /\ phase \in Loading \/ XexLoaded => DOMAIN image = 0 .. file[ImageSize] - 1 /\ file[ImageSize] \in Nat
  /\ phase = "blocks" =>
       /\ patch.none /\ base[Compression] = Basic
       /\ j \in 1 .. base[Info] + 1 /\ from = DataTotal(j - 1)
       /\ image = [k \in 0 .. base[ImageSize] - 1 |-> IF k < WholeTotal(j - 1) THEN made.image[k] ELSE 0]
  /\ phase = "walk" => patch.none /\ base[Compression] = Lzx /\ Walking(reading, 0)
  /\ phase \in {"pe", "sections"} /\ ~Deviates => image = Promised

\* The sections of a XEX file that have been mapped.
SectionOf(m) ==
  [base |-> Base + program.sections[m].at, size |-> Clamped(program.sections[m]),
   code |-> program.sections[m].code, data |-> program.sections[m].at]

Mapped(n) == {SectionOf(m) : m \in {m \in 1 .. n : program.sections[m].size # 0}}
AllWithin(n) == \A m \in 1 .. n : program.sections[m].size # 0 => program.sections[m].at < file[ImageSize]

SectionsInv ==
  /\ phase \notin {"sections", "imports", "loaded", "invalid", "crashed"} => sections = {}
  /\ phase \in {"walk", "pe"} => j = 1
  /\ phase = "sections" =>
       j \in 1 .. Len(program.sections) + 1 /\ sections = Mapped(j - 1) /\ AllWithin(j - 1)
  /\ phase = "imports" \/ XexLoaded =>
       sections = Mapped(Len(program.sections)) /\ AllWithin(Len(program.sections))
  /\ phase = "loaded" /\ frame.magic = "ELF" => sections = ElfSections(program)

\* What linking the first n imports of the table makes of the image.
FoundOf(n) == {m \in 1 .. n : InSection(Offset(m))}

Symbols(n) ==
  {<<OrdinalOf(WordOf(m)), program.imports[m].thunk>> :
     m \in {q \in FoundOf(n) : IsFunction(q) /\ OrdinalOf(WordOf(q)) \in program.imports[q].names}}
LinkedCell(n, k) ==
  /\ \A m \in FoundOf(n) : k \in Reach(m) => image[k] = IF IsFunction(m) THEN Thunk[k - Offset(m)] ELSE WordOf(m)
  /\ (\A m \in FoundOf(n) : k \notin Reach(m)) => image[k] = Promised[k]
Untouched(n, k) == (\A m \in FoundOf(n) : k \notin Offset(m) .. Offset(m) + 3) => image[k] = Promised[k]

LinkedBy(n) ==
  ~Deviates =>
    /\ \A k \in DOMAIN image : Untouched(n, k)
    /\ ~VisitedTwice => symbols = Symbols(n) /\ \A k \in DOMAIN image : LinkedCell(n, k)

ImportsInv ==
  /\ phase \notin {"imports", "loaded", "invalid", "crashed"} => symbols = {}
  /\ phase = "imports" => j \in 1 .. Len(program.imports) + 1 /\ LinkedBy(j - 1)
  /\ phase = "loaded" /\ frame.magic = "XEX2" => LinkedBy(Len(program.imports))
  /\ phase = "crashed" => \E n \in Found : Offset(n) + 3 \notin DOMAIN image

XexInv == UpdateInv /\ LoaderInv /\ SectionsInv /\ ImportsInv

----------------------------------------------------------------------------
\* Numbers and arrays of cells.

\* What holds of 0 and of every number after one it holds of holds up to N.
LEMMA Upwards ==
  ASSUME NEW N \in Nat, NEW S, 0 \in S, \A n \in 1 .. N : n - 1 \in S => n \in S
  PROVE  \A n \in 0 .. N : n \in S
<1> DEFINE U == {n \in Nat : n <= N /\ n \notin S}
<1>1. U = {}
  <2> SUFFICES ASSUME U # {}
               PROVE  FALSE
    OBVIOUS
  <2>1. PICK m \in U : \A n \in U : m <= n
    BY LeastNatural
  <2>2. m \in 1 .. N /\ m \notin S
    BY <2>1
  <2>3. m - 1 \in S
    BY <2>1, <2>2
  <2> QED BY <2>2, <2>3
<1> QED BY <1>1

\* An array of n cells has n cells.
LEMMA SizeOf ==
  ASSUME NEW n \in Nat, NEW bytes, DOMAIN bytes = 0 .. n - 1
  PROVE  Size(bytes) = n
BY FS_Interval DEF Size

\* A cell of an overlaid array: of the part that covers it, or its own.
LEMMA OverlayCell ==
  ASSUME NEW bytes, NEW k \in DOMAIN bytes, k \in Int, NEW at \in Int, NEW m \in Int, NEW part, DOMAIN part = 0 .. m
  PROVE  Overlay(bytes, at, part)[k] = IF at <= k /\ k <= at + m THEN part[k - at] ELSE bytes[k]
BY DEF Overlay

\* A slice holds the cells from its start on.
LEMMA SliceCells ==
  ASSUME NEW bytes, NEW from_, NEW n
  PROVE  /\ DOMAIN Slice(bytes, from_, n) = 0 .. n - 1
         /\ \A k \in 0 .. n - 1 : Slice(bytes, from_, n)[k] = bytes[from_ + k]
BY DEF Slice

----------------------------------------------------------------------------
\* Sums of sizes.

IsSum(sum, sizes, N) == sum = [n \in 0 .. N |-> IF n = 0 THEN 0 ELSE sum[n - 1] + sizes[n]]

\* A list of sizes has a sum.
LEMMA SumExists ==
  ASSUME NEW N \in Nat, NEW sizes
  PROVE  \E sum : IsSum(sum, sizes, N)
<1> DEFINE S == {n \in Nat : \E sum : IsSum(sum, sizes, n)}
<1>1. 0 \in S
  <2> DEFINE f == [n \in 0 .. 0 |-> 0]
  <2>1. \A n \in 0 .. 0 : f[n] = IF n = 0 THEN 0 ELSE f[n - 1] + sizes[n]
    OBVIOUS
  <2>2. f = [n \in 0 .. 0 |-> IF n = 0 THEN 0 ELSE f[n - 1] + sizes[n]]
    BY <2>1
  <2> HIDE DEF f
  <2>3. IsSum(f, sizes, 0)
    BY <2>2 DEF IsSum
  <2> QED BY <2>3
<1>2. ASSUME NEW m \in 1 .. N, m - 1 \in S
      PROVE  m \in S
  <2>1. PICK f : f = [n \in 0 .. m - 1 |-> IF n = 0 THEN 0 ELSE f[n - 1] + sizes[n]]
    BY <1>2 DEF IsSum
  <2> DEFINE g == [n \in 0 .. m |-> IF n = m THEN f[m - 1] + sizes[m] ELSE f[n]]
  <2>2. \A n \in 0 .. m - 1 : g[n] = f[n]
    OBVIOUS
  <2>3. g[m] = f[m - 1] + sizes[m]
    OBVIOUS
  <2>4. g = [n \in 0 .. m |-> g[n]]
    OBVIOUS
  <2> HIDE DEF g
  <2>5. ASSUME NEW n \in 0 .. m
        PROVE  g[n] = IF n = 0 THEN 0 ELSE g[n - 1] + sizes[n]
    <3>1. CASE n = 0
      <4>1. f[0] = 0
        BY <2>1
      <4> QED BY <2>2, <3>1, <4>1
    <3>2. CASE n \in 1 .. m - 1
      <4>1. f[n] = f[n - 1] + sizes[n]
        BY <2>1, <3>2
      <4>2. g[n] = f[n] /\ g[n - 1] = f[n - 1]
        BY <2>2, <3>2
      <4> QED BY <3>2, <4>1, <4>2
    <3>3. CASE n = m
      <4>1. n # 0 /\ g[m - 1] = f[m - 1]
        BY <2>2, <3>3
      <4> QED BY <2>3, <3>3, <4>1
    <3> QED BY <3>1, <3>2, <3>3
  <2>6. g = [n \in 0 .. m |-> IF n = 0 THEN 0 ELSE g[n - 1] + sizes[n]]
    BY <2>4, <2>5
  <2>7. IsSum(g, sizes, m)
    BY <2>6 DEF IsSum
  <2> QED BY <2>7
<1> HIDE DEF S
<1>3. N \in S
  BY <1>1, <1>2, Upwards
<1> QED BY <1>3 DEF S

\* The sum of the first n sizes is that of those before, and the last.
LEMMA TotalFacts ==
  ASSUME NEW N \in Nat, NEW sizes, Len(sizes) = N, \A n \in 1 .. N : sizes[n] \in Nat
  PROVE  /\ Total(sizes, 0) = 0
         /\ \A n \in 1 .. N : Total(sizes, n) = Total(sizes, n - 1) + sizes[n]
         /\ \A n \in 0 .. N : Total(sizes, n) \in Nat /\ Total(sizes, n) <= Total(sizes, N)
<1> DEFINE sum == Totals(sizes)
<1>1. sum = CHOOSE f : f = [n \in 0 .. N |-> IF n = 0 THEN 0 ELSE f[n - 1] + sizes[n]]
  BY DEF Totals
<1>2. \E f : f = [n \in 0 .. N |-> IF n = 0 THEN 0 ELSE f[n - 1] + sizes[n]]
  BY SumExists DEF IsSum
<1>3. sum = [n \in 0 .. N |-> IF n = 0 THEN 0 ELSE sum[n - 1] + sizes[n]]
  BY <1>1, <1>2
<1>4. \A n : Total(sizes, n) = sum[n]
  BY DEF Total
<1> HIDE DEF sum
<1>5. sum[0] = 0 /\ \A n \in 1 .. N : sum[n] = sum[n - 1] + sizes[n]
  BY <1>3
<1>6. \A n \in 0 .. N : sum[n] \in Nat
  <2> DEFINE S == {n \in 0 .. N : sum[n] \in Nat}
  <2>1. 0 \in S /\ \A n \in 1 .. N : n - 1 \in S => n \in S
    BY <1>5
  <2>2. \A n \in 0 .. N : n \in S
    <3> HIDE DEF S
    <3> QED BY <2>1, Upwards
  <2> QED BY <2>2
<1>7. \A n \in 0 .. N : sum[n] <= sum[N]
  <2> DEFINE S == {d \in 0 .. N : sum[N - d] <= sum[N]}
  <2>1. 0 \in S
    BY <1>6
  <2>2. ASSUME NEW d \in 1 .. N, d - 1 \in S
        PROVE  d \in S
    <3>1. N - d \in 0 .. N /\ N - (d - 1) \in 1 .. N /\ (N - (d - 1)) - 1 = N - d
      OBVIOUS
    <3>2. sum[N - (d - 1)] = sum[N - d] + sizes[N - (d - 1)]
      BY <1>5, <3>1
    <3>3. sum[N - d] \in Nat /\ sizes[N - (d - 1)] \in Nat /\ sum[N] \in Nat
      BY <1>6, <3>1
    <3>4. sum[N - (d - 1)] <= sum[N]
      BY <2>2
    <3> QED BY <3>2, <3>3, <3>4
  <2>3. \A d \in 0 .. N : d \in S
    <3> HIDE DEF S
    <3> QED BY <2>1, <2>2, Upwards
  <2> TAKE n \in 0 .. N
  <2>4. N - n \in S /\ N - (N - n) = n
    BY <2>3
  <2> QED BY <2>4
<1>8. Total(sizes, 0) = 0
  BY <1>4, <1>5
<1>9. \A n \in 1 .. N : Total(sizes, n) = Total(sizes, n - 1) + sizes[n]
  <2> TAKE n \in 1 .. N
  <2>1. Total(sizes, n) = sum[n] /\ Total(sizes, n - 1) = sum[n - 1]
    BY <1>4
  <2> QED BY <1>5, <2>1
<1>10. \A n \in 0 .. N : Total(sizes, n) \in Nat /\ Total(sizes, n) <= Total(sizes, N)
  <2> TAKE n \in 0 .. N
  <2>1. Total(sizes, n) = sum[n] /\ Total(sizes, N) = sum[N]
    BY <1>4
  <2> QED BY <1>6, <1>7, <2>1
<1> QED BY <1>8, <1>9, <1>10

----------------------------------------------------------------------------
\* Base files.

\* What the invariant says about the base file, when its magic is that of one.
LEMMA BaseFacts ==
  ASSUME MadeInv, baseFrame.magic = "XEX2"
  PROVE  /\ BaseMade(made) /\ base = made.bytes
         /\ OldHeaderSize \in Nat /\ OldHeaderSize >= FieldsEnd /\ OldKey = made.key /\ OldKey \in 1 .. 8
         /\ Size(made.body) \in Nat /\ DOMAIN made.body = 0 .. Size(made.body) - 1
         /\ \A k \in DOMAIN made.body : made.body[k] \in Nat
         /\ Size(made.image) \in Nat /\ DOMAIN made.image = 0 .. Size(made.image) - 1
         /\ \A k \in DOMAIN made.image : made.image[k] \in 0 .. Byte * Byte - 1
         /\ Size(base) = OldHeaderSize + Size(made.body) /\ BodySize = Size(made.body)
         /\ DOMAIN base = 0 .. OldHeaderSize + Size(made.body) - 1
         /\ base[ImageSize] = Size(made.image)
         /\ base[Compression] \in {None, Basic, Lzx, Delta} /\ base[Encryption] \in {None, Normal}
         /\ \A k \in 0 .. Size(made.body) - 1 :
              base[OldHeaderSize + k] = IF base[Encryption] = Normal THEN 10 * made.body[k] + OldKey ELSE made.body[k]
         /\ base[Compression] = Basic => BlocksMade(made)
         /\ base[Compression] = Lzx => ChainMade(made)
         /\ base[Compression] \in {None, Delta} => made.body = made.image
<1>1. made \in Bases /\ base = made.bytes
  BY DEF MadeInv, ElfFile
<1>2. BaseMade(made)
  BY <1>1, FilesAssumption
<1>3. made.key \in 1 .. 8 /\ base[Key] = Wrapped(Retail, made.key)
  BY <1>1, <1>2 DEF BaseMade
<1>4. OldKey = made.key
  BY <1>3 DEF OldKey, Unwrapped, Wrapped, Retail
<1>5. OldHeaderSize = base[HeaderSize]
  BY DEF OldHeaderSize
<1>6. /\ OldHeaderSize \in Nat /\ OldHeaderSize >= FieldsEnd
      /\ Size(made.body) \in Nat /\ DOMAIN made.body = 0 .. Size(made.body) - 1
      /\ Size(made.image) \in Nat /\ DOMAIN made.image = 0 .. Size(made.image) - 1
      /\ Size(base) = OldHeaderSize + Size(made.body)
      /\ DOMAIN base = 0 .. Size(base) - 1
  BY <1>1, <1>2, <1>5 DEF BaseMade, IsArray
<1>7. BodySize = Size(made.body)
  BY <1>6 DEF BodySize
<1>8. DOMAIN base = 0 .. OldHeaderSize + Size(made.body) - 1
  BY <1>6
<1>9. \A k \in 0 .. Size(made.body) - 1 :
        base[OldHeaderSize + k] = IF base[Encryption] = Normal THEN 10 * made.body[k] + OldKey ELSE made.body[k]
  BY <1>1, <1>2, <1>4, <1>5, <1>6 DEF BaseMade
<1>10. /\ \A k \in DOMAIN made.body : made.body[k] \in Nat
       /\ \A k \in DOMAIN made.image : made.image[k] \in 0 .. Byte * Byte - 1
       /\ base[ImageSize] = Size(made.image)
       /\ base[Compression] \in {None, Basic, Lzx, Delta} /\ base[Encryption] \in {None, Normal}
       /\ base[Compression] = Basic => BlocksMade(made)
       /\ base[Compression] = Lzx => ChainMade(made)
       /\ base[Compression] \in {None, Delta} => made.body = made.image
  BY <1>1, <1>2 DEF BaseMade
<1> HIDE DEF OldHeaderSize
<1> QED BY <1>1, <1>2, <1>3, <1>4, <1>6, <1>7, <1>8, <1>9, <1>10

\* The blocks of a base file, and what is in them.
LEMMA BlockFacts ==
  ASSUME MadeInv, baseFrame.magic = "XEX2", base[Compression] = Basic
  PROVE  /\ base[Info] \in Nat \ {0}
         /\ \A n \in 1 .. base[Info] : DataSize(base, n) \in Nat /\ ZeroSize(base, n) \in Nat
         /\ DataTotal(0) = 0 /\ WholeTotal(0) = 0
         /\ \A n \in 1 .. base[Info] :
              /\ DataTotal(n) = DataTotal(n - 1) + DataSize(base, n)
              /\ WholeTotal(n) = WholeTotal(n - 1) + DataSize(base, n) + ZeroSize(base, n)
         /\ DataTotal(base[Info]) = Size(made.body) /\ WholeTotal(base[Info]) = Size(made.image)
         /\ \A n \in 0 .. base[Info] :
              /\ DataTotal(n) \in Nat /\ WholeTotal(n) \in Nat /\ DataTotal(n) <= WholeTotal(n)
              /\ DataTotal(n) <= Size(made.body) /\ WholeTotal(n) <= Size(made.image)
         /\ \A n \in 1 .. base[Info] :
              /\ \A k \in 0 .. DataSize(base, n) - 1 : made.body[DataTotal(n - 1) + k] = made.image[WholeTotal(n - 1) + k]
              /\ \A k \in DataSize(base, n) .. DataSize(base, n) + ZeroSize(base, n) - 1 :
                   made.image[WholeTotal(n - 1) + k] = 0
<1> DEFINE m == base[Info]
           data == DataSizes(base)
           whole == WholeSizes(base)
<1>1. BlocksMade(made) /\ base = made.bytes
  BY BaseFacts
<1>2. /\ m \in Nat \ {0}
      /\ \A n \in 1 .. m : DataSize(base, n) \in Nat /\ ZeroSize(base, n) \in Nat
      /\ Size(made.body) = DataTotal(m) /\ Size(made.image) = WholeTotal(m)
      /\ \A n \in 1 .. m :
           /\ \A k \in 0 .. DataSize(base, n) - 1 : made.body[DataTotal(n - 1) + k] = made.image[WholeTotal(n - 1) + k]
           /\ \A k \in DataSize(base, n) .. DataSize(base, n) + ZeroSize(base, n) - 1 :
                made.image[WholeTotal(n - 1) + k] = 0
  BY <1>1 DEF BlocksMade, DataTotal, WholeTotal
<1>3. Len(data) = m /\ \A n \in 1 .. m : data[n] = DataSize(base, n) /\ data[n] \in Nat
  BY <1>2 DEF DataSizes
<1>4. Len(whole) = m /\ \A n \in 1 .. m : whole[n] = DataSize(base, n) + ZeroSize(base, n) /\ whole[n] \in Nat
  BY <1>2 DEF WholeSizes
<1>5. \A n : DataTotal(n) = Total(data, n) /\ WholeTotal(n) = Total(whole, n)
  BY DEF DataTotal, WholeTotal
<1> HIDE DEF m, data, whole
<1>6. /\ Total(data, 0) = 0 /\ \A n \in 1 .. m : Total(data, n) = Total(data, n - 1) + data[n]
      /\ \A n \in 0 .. m : Total(data, n) \in Nat /\ Total(data, n) <= Total(data, m)
  <2>1. m \in Nat
    BY <1>2
  <2> QED BY <1>3, <2>1, TotalFacts
<1>7. /\ Total(whole, 0) = 0 /\ \A n \in 1 .. m : Total(whole, n) = Total(whole, n - 1) + whole[n]
      /\ \A n \in 0 .. m : Total(whole, n) \in Nat /\ Total(whole, n) <= Total(whole, m)
  <2>1. m \in Nat
    BY <1>2
  <2> QED BY <1>4, <2>1, TotalFacts
<1>8. \A n \in 0 .. m : Total(data, n) <= Total(whole, n)
  <2> DEFINE S == {n \in 0 .. m : Total(data, n) <= Total(whole, n)}
  <2>1. 0 \in S
    BY <1>2, <1>6, <1>7
  <2>2. ASSUME NEW n \in 1 .. m, n - 1 \in S
        PROVE  n \in S
    <3>1. Total(data, n - 1) <= Total(whole, n - 1)
      BY <2>2
    <3>2. n \in 0 .. m /\ n - 1 \in 0 .. m
      BY <1>2
    <3>3. Total(data, n - 1) \in Nat /\ Total(whole, n - 1) \in Nat
      BY <1>6, <1>7, <3>2
    <3>4. data[n] \in Nat /\ whole[n] \in Nat /\ data[n] <= whole[n]
      BY <1>2, <1>3, <1>4
    <3>5. Total(data, n) = Total(data, n - 1) + data[n] /\ Total(whole, n) = Total(whole, n - 1) + whole[n]
      BY <1>6, <1>7
    <3>6. Total(data, n) <= Total(whole, n)
      BY <3>1, <3>3, <3>4, <3>5
    <3> QED BY <3>2, <3>6
  <2>3. \A n \in 0 .. m : n \in S
    <3>1. m \in Nat
      BY <1>2
    <3> HIDE DEF S
    <3> QED BY <2>1, <2>2, <3>1, Upwards
  <2> QED BY <2>3
<1>9. DataTotal(0) = 0 /\ WholeTotal(0) = 0
  BY <1>5, <1>6, <1>7
<1>10. \A n \in 1 .. m :
         /\ DataTotal(n) = DataTotal(n - 1) + DataSize(base, n)
         /\ WholeTotal(n) = WholeTotal(n - 1) + DataSize(base, n) + ZeroSize(base, n)
  <2> TAKE n \in 1 .. m
  <2>1. /\ DataTotal(n) = Total(data, n) /\ WholeTotal(n) = Total(whole, n)
        /\ DataTotal(n - 1) = Total(data, n - 1) /\ WholeTotal(n - 1) = Total(whole, n - 1)
    BY <1>5
  <2>2. n - 1 \in 0 .. m
    BY <1>2
  <2>3. Total(whole, n - 1) \in Nat /\ DataSize(base, n) \in Nat /\ ZeroSize(base, n) \in Nat
    BY <1>2, <1>7, <2>2
  <2>4. Total(data, n) = Total(data, n - 1) + DataSize(base, n)
    BY <1>3, <1>6
  <2>5. Total(whole, n) = Total(whole, n - 1) + (DataSize(base, n) + ZeroSize(base, n))
    BY <1>4, <1>7
  <2>6. Total(whole, n) = Total(whole, n - 1) + DataSize(base, n) + ZeroSize(base, n)
    BY <2>3, <2>5
  <2> QED BY <2>1, <2>4, <2>6
<1>11. \A n \in 0 .. m :
         /\ DataTotal(n) \in Nat /\ WholeTotal(n) \in Nat /\ DataTotal(n) <= WholeTotal(n)
         /\ DataTotal(n) <= Size(made.body) /\ WholeTotal(n) <= Size(made.image)
  <2> TAKE n \in 0 .. m
  <2>1. DataTotal(n) = Total(data, n) /\ WholeTotal(n) = Total(whole, n)
    BY <1>5
  <2>2. Size(made.body) = Total(data, m) /\ Size(made.image) = Total(whole, m)
    BY <1>2, <1>5
  <2> QED BY <1>6, <1>7, <1>8, <2>1, <2>2
<1> QED BY <1>2, <1>9, <1>10, <1>11 DEF m

----------------------------------------------------------------------------
\* What never changes.

\* An update is one that was made.
LEMMA PatchFacts ==
  ASSUME MadeInv, ~patch.none
  PROVE  PatchMade(patch)
BY FilesAssumption DEF MadeInv

\* No step changes the files that are put in, or the image they were made from.
LEMMA Kept ==
  ASSUME [Next]_vars
  PROVE  UNCHANGED <<base, baseFrame, patch, made, frame, program>>
<1>1. CASE Start
  BY <1>1 DEF Start
<1>2. CASE OpenPatched
  BY <1>2 DEF OpenPatched, patcherVars
<1>3. CASE Apply /\ UNCHANGED <<loaderVars, made>>
  BY <1>3 DEF Apply, CheckHeaders, CheckPatch, MoveHeader, PatchHeader, CopyBody, CheckKeys, Decrypt, StartBasic,
              MoveBlock, BasicDone, StartLzx, WalkBlocks, LzxDone, Uncompressed, FormatAndMove, PatchImage, Finish,
              GiveUp, loaderVars
<1>4. CASE LoadImage /\ UNCHANGED <<patcherVars, made>>
  BY <1>4 DEF LoadImage, ParseImage, Load, LoadBlock, BlocksLoaded, ReadBlocks, BlocksRead, ReadPe, MapSection,
              SectionsMapped, LinkImport, ImportsDone, Invalid, patcherVars
<1>5. CASE UNCHANGED vars
  BY <1>5 DEF vars, patcherVars, loaderVars
<1> QED BY <1>1, <1>2, <1>3, <1>4, <1>5 DEF Next

\* At first the files are those that were put in.
LEMMA MadeInit == Init => MadeInv
BY DEF Init, MadeInv

\* They stay so.
LEMMA MadeNext == MadeInv /\ [Next]_vars => MadeInv'
BY Kept DEF MadeInv

\* What an update fits is a matter of the files.
LEMMA SameFiles ==
  ASSUME UNCHANGED <<base, baseFrame, patch>>
  PROVE  /\ HeadersValid(baseFrame, base)' <=> HeadersValid(baseFrame, base)
         /\ HeadersValid(patch.frame, patch.bytes)' <=> HeadersValid(patch.frame, patch.bytes)
         /\ OldHeaderSize' = OldHeaderSize /\ BodySize' = BodySize /\ OldKey' = OldKey
         /\ Compatible' <=> Compatible
         /\ Fits' <=> Fits
         /\ ImageAt' = ImageAt
         /\ ShorterHeader' <=> ShorterHeader
         /\ ShorterFile' <=> ShorterFile
         /\ LongerBody' <=> LongerBody
         /\ Deviates' <=> Deviates
<1>1. OldHeaderSize' = OldHeaderSize /\ OldKey' = OldKey
  BY DEF OldHeaderSize, OldKey
<1>2. BodySize' = BodySize
  BY <1>1 DEF BodySize
<1>3. Compatible' <=> Compatible
  BY <1>1 DEF Compatible
<1>4. /\ HeadersValid(baseFrame, base)' <=> HeadersValid(baseFrame, base)
      /\ HeadersValid(patch.frame, patch.bytes)' <=> HeadersValid(patch.frame, patch.bytes)
  BY DEF HeadersValid
<1>5. Suitable' <=> Suitable
  BY <1>1, <1>2, <1>3, <1>4 DEF Suitable
<1>6. Fits' <=> Fits
  BY <1>5 DEF Fits
<1>7. ImageAt' = ImageAt
  BY <1>1 DEF ImageAt
<1>8. /\ ShorterHeader' <=> ShorterHeader
      /\ ShorterFile' <=> ShorterFile
      /\ LongerBody' <=> LongerBody
  BY <1>1, <1>2, <1>7 DEF ShorterHeader, ShorterFile, LongerBody
<1>9. OverlappingMove' <=> OverlappingMove
  BY DEF OverlappingMove
<1>10. Deviates' <=> Deviates
  BY <1>8, <1>9 DEF Deviates
<1> QED BY <1>1, <1>2, <1>3, <1>4, <1>6, <1>7, <1>8, <1>10

----------------------------------------------------------------------------
\* Copies and entries change nothing but the cells they are for.

\* A copy leaves what is outside its target.
LEMMA MoveKeeps ==
  ASSUME NEW bytes, NEW f \in Int, NEW to \in Int, NEW n \in Int,
         NEW r \in MoveOutcomes(bytes, f, to, n)
  PROVE  /\ DOMAIN r = DOMAIN bytes
         /\ \A k \in DOMAIN bytes : k \in Int /\ (k < to \/ k >= to + n) => r[k] = bytes[k]
<1>1. \E part : DOMAIN part = 0 .. n - 1 /\ r = Overlay(bytes, to, part)
  BY DEF MoveOutcomes, Slice
<1>2. PICK part : DOMAIN part = 0 .. n - 1 /\ r = Overlay(bytes, to, part)
  BY <1>1
<1>3. r = [k \in DOMAIN bytes |-> IF k - to \in 0 .. n - 1 THEN part[k - to] ELSE bytes[k]]
  BY <1>2 DEF Overlay
<1> QED BY <1>3

\* So does an entry of an update.
LEMMA DeltaKeeps ==
  ASSUME NEW bytes, NEW at \in Int, NEW size, NEW e, EntryMade(e, size), NEW r \in DeltaOutcomes(bytes, at, e)
  PROVE  /\ DOMAIN r = DOMAIN bytes
         /\ \A k \in DOMAIN bytes : k \in Int /\ (k < at + e.new \/ k >= at + e.new + e.n) => r[k] = bytes[k]
<1>1. e.new \in Nat /\ e.old \in Nat /\ e.n \in Nat
  BY DEF EntryMade
<1>2. CASE e.kind = "move"
  <2>1. r \in MoveOutcomes(bytes, at + e.old, at + e.new, e.n)
    BY <1>2 DEF DeltaOutcomes
  <2> QED BY <1>1, <2>1, MoveKeeps
<1>3. CASE e.kind \in {"zero", "data"}
  <2>1. \E part : DOMAIN part = 0 .. e.n - 1 /\ r = Overlay(bytes, at + e.new, part)
    BY <1>3 DEF DeltaOutcomes, EntryMade, Zeros, Decoded
  <2>2. PICK part : DOMAIN part = 0 .. e.n - 1 /\ r = Overlay(bytes, at + e.new, part)
    BY <2>1
  <2>3. r = [k \in DOMAIN bytes |-> IF k - (at + e.new) \in 0 .. e.n - 1 THEN part[k - (at + e.new)] ELSE bytes[k]]
    BY <2>2 DEF Overlay
  <2> QED BY <1>1, <2>3
<1> QED BY <1>2, <1>3 DEF EntryMade

----------------------------------------------------------------------------
\* The walk over the body, in either program: bytes hold the body at an address.

HoldsBody(bytes, at) == \A k \in DOMAIN made.body : bytes[at + k] = made.body[k]

Chained == IsArray(made.body) /\ IsArray(made.image) /\ ChainMade(made)

\* What is said of a part of a chain.
LEMMA PartFacts ==
  ASSUME Chained, NEW n \in 1 .. Len(made.parts)
  PROVE  LET p == made.parts[n]  q == made.parts[n + 1] IN
         /\ Len(made.parts) \in Nat \ {0}
         /\ p.kind \in {"open", "chunk", "close"}
         /\ p.at \in Nat /\ p.from \in Nat /\ p.n \in Nat /\ p.end \in Nat /\ p.next \in Nat
         /\ p.at < p.end /\ p.end <= Size(made.body) /\ Size(made.body) \in Nat
         /\ p.at \in DOMAIN made.body
         /\ made.body[p.at] = CASE p.kind = "open" -> p.next [] p.kind = "chunk" -> p.n [] p.kind = "close" -> 0
         /\ p.kind = "chunk" =>
              /\ p.n > 0
              /\ \A k \in 1 .. p.n : p.at + k \in DOMAIN made.body /\ Packs(made, made.body[p.at + k], p.from + k - 1)
         /\ n = Len(made.parts) => p.kind = "close" /\ p.next = 0
         /\ n # Len(made.parts) =>
              /\ n + 1 \in 1 .. Len(made.parts) /\ q.kind \in {"open", "chunk", "close"}
              /\ p.kind = "close" =>
                   q.kind = "open" /\ q.at = p.end /\ q.from = p.from /\ q.end = p.end + p.next
              /\ p.kind # "close" =>
                   /\ q.kind # "open" /\ q.end = p.end /\ q.next = p.next
                   /\ q.at = p.at + 1 + (IF p.kind = "chunk" THEN p.n ELSE 0)
                   /\ q.from = p.from + (IF p.kind = "chunk" THEN p.n ELSE 0)
<1> DEFINE p == made.parts[n]
           q == made.parts[n + 1]
           last == Len(made.parts)
<1>1. last \in Nat \ {0} /\ Size(made.body) \in Nat /\ DOMAIN made.body = 0 .. Size(made.body) - 1
  BY DEF Chained, ChainMade, IsArray
<1>2. /\ p.kind \in {"open", "chunk", "close"}
      /\ p.at \in Nat /\ p.from \in Nat /\ p.n \in Nat /\ p.end \in Nat /\ p.next \in Nat
      /\ p.at < p.end /\ p.end <= Size(made.body)
      /\ made.body[p.at] = CASE p.kind = "open" -> p.next [] p.kind = "chunk" -> p.n [] p.kind = "close" -> 0
      /\ p.kind = "chunk" =>
           /\ p.n > 0 /\ p.at + p.n < p.end
           /\ \A k \in 1 .. p.n : Packs(made, made.body[p.at + k], p.from + k - 1)
  BY DEF Chained, ChainMade
<1>3. p.at \in DOMAIN made.body /\ (p.kind = "chunk" => \A k \in 1 .. p.n : p.at + k \in DOMAIN made.body)
  <2>1. PICK a \in Nat, b \in Nat, c \in Nat, d \in Nat : a = p.at /\ b = p.end /\ c = p.n /\ d = Size(made.body)
    BY <1>1, <1>2
  <2>2. a < b /\ b <= d /\ DOMAIN made.body = 0 .. d - 1 /\ (p.kind = "chunk" => a + c < b)
    BY <1>1, <1>2, <2>1
  <2>3. a \in DOMAIN made.body /\ (p.kind = "chunk" => \A k \in 1 .. c : a + k \in DOMAIN made.body)
    BY <2>2
  <2> QED BY <2>1, <2>3
<1>4. n = last => p.kind = "close" /\ p.next = 0
  BY DEF Chained, ChainMade
<1>5. ASSUME n # last
      PROVE  /\ n + 1 \in 1 .. last /\ q.kind \in {"open", "chunk", "close"}
             /\ p.kind = "close" =>
                  q.kind = "open" /\ q.at = p.end /\ q.from = p.from /\ q.end = p.end + p.next
             /\ p.kind # "close" =>
                  /\ q.kind # "open" /\ q.end = p.end /\ q.next = p.next
                  /\ q.at = p.at + 1 + (IF p.kind = "chunk" THEN p.n ELSE 0)
                  /\ q.from = p.from + (IF p.kind = "chunk" THEN p.n ELSE 0)
  <2>1. n \in 1 .. last - 1 /\ n + 1 \in 1 .. last
    BY <1>1, <1>5
  <2>2. IF p.kind = "close"
        THEN q.kind = "open" /\ q.at = p.end /\ q.from = p.from /\ q.end = p.end + p.next
        ELSE /\ q.kind # "open" /\ q.end = p.end /\ q.next = p.next
             /\ q.at = p.at + 1 + (IF p.kind = "chunk" THEN p.n ELSE 0)
             /\ q.from = p.from + (IF p.kind = "chunk" THEN p.n ELSE 0)
    BY <2>1 DEF Chained, ChainMade
  <2>3. q.kind \in {"open", "chunk", "close"}
    BY <2>1 DEF Chained, ChainMade
  <2> QED BY <2>1, <2>2, <2>3
<1> QED BY <1>1, <1>2, <1>3, <1>4, <1>5

\* The walk never meets a block that does not fit.
LEMMA WalkFits ==
  ASSUME Chained, NEW bytes, NEW at \in Nat, NEW w, Walking(w, at), ~w.inBlock, w.size # 0
  PROVE  BlockFits(bytes, at + Size(made.body), w)
<1>1. PICK n \in 1 .. Len(made.parts) : AtPart(w, at, made.parts[n])
  BY DEF Walking, AtEnd
<1> DEFINE p == made.parts[n]
<1>2. p.at \in Nat /\ p.end \in Nat /\ p.at < p.end /\ p.end <= Size(made.body) /\ Size(made.body) \in Nat
  BY PartFacts
<1>3. w.at = at + p.at /\ w.size = p.end - p.at
  BY <1>1 DEF AtPart
<1> HIDE DEF p
<1> QED BY <1>2, <1>3 DEF BlockFits

\* A block is opened at its size.
LEMMA WalkOpened ==
  ASSUME Chained, NEW bytes, NEW at \in Nat, NEW w, Walking(w, at), HoldsBody(bytes, at), ~w.inBlock, w.size # 0
  PROVE  Walking(BlockOpened(bytes, w), at)
<1>1. PICK n \in 1 .. Len(made.parts) : AtPart(w, at, made.parts[n])
  BY DEF Walking, AtEnd
<1> DEFINE p == made.parts[n]
           q == made.parts[n + 1]
           v == BlockOpened(bytes, w)
<1>2. p.kind = "open" /\ w.at = at + p.at /\ w.size = p.end - p.at /\ Gathers(w, p.from)
  BY <1>1 DEF AtPart
<1>3. /\ p.at \in Nat /\ p.end \in Nat /\ p.next \in Nat /\ p.from \in Nat
      /\ p.at \in DOMAIN made.body /\ made.body[p.at] = p.next
      /\ n + 1 \in 1 .. Len(made.parts)
      /\ q.kind \in {"chunk", "close"} /\ q.end = p.end /\ q.next = p.next
      /\ q.at = p.at + 1 + 0 /\ q.from = p.from + 0
  BY <1>2, PartFacts
<1>4. bytes[w.at] = p.next
  BY <1>2, <1>3 DEF HoldsBody
<1>5. IsWalk(w)
  BY DEF Walking
<1>6. v.at = w.at + 1 /\ v.size = bytes[w.at] /\ v.next = w.at + w.size /\ v.data = w.data /\ v.inBlock = TRUE
  BY <1>5 DEF BlockOpened, IsWalk
<1>7. IsWalk(v)
  BY <1>5 DEF BlockOpened, IsWalk
<1> HIDE DEF v, p, q
<1>8. Gathers(v, q.from)
  <2>1. q.from = p.from
    BY <1>3
  <2> QED BY <1>2, <1>6, <2>1 DEF Gathers
<1>9. v.at = at + q.at /\ v.next = at + q.end /\ v.size = q.next
  BY <1>2, <1>3, <1>4, <1>6
<1>10. AtPart(v, at, q)
  BY <1>3, <1>6, <1>8, <1>9 DEF AtPart
<1> QED BY <1>3, <1>7, <1>10 DEF Walking, v, q

ChunkAt(bytes, w, m, n) ==
  bytes[w.at] = n /\ \A k \in 1 .. n : Packs(made, bytes[w.at + k], m + k - 1)

\* The cells of two parts put together.
LEMMA ConcatCells ==
  ASSUME NEW s \in Seq(Nat), NEW t \in Seq(Nat)
  PROVE  /\ s \o t \in Seq(Nat) /\ Len(s \o t) = Len(s) + Len(t)
         /\ \A k \in 1 .. Len(s) : (s \o t)[k] = s[k]
         /\ \A k \in 1 .. Len(t) : (s \o t)[Len(s) + k] = t[k]
OBVIOUS

\* A chunk of n cells is copied behind those before it.
LEMMA ChunkGathered ==
  ASSUME NEW bytes, NEW w, IsWalk(w), NEW m \in Nat, NEW n \in Nat \ {0}, Gathers(w, m), ChunkAt(bytes, w, m, n)
  PROVE  LET v == ChunkCopied(bytes, w) IN
         /\ IsWalk(v) /\ Gathers(v, m + n)
         /\ v.at = w.at + 1 + n /\ v.size = w.size /\ v.next = w.next /\ (w.inBlock => v.inBlock)
<1> DEFINE chunk == [k \in 1 .. n |-> bytes[w.at + k]]
           joined == w.data \o chunk
           v == ChunkCopied(bytes, w)
<1>1. chunk \in Seq(Nat) /\ Len(chunk) = n
  <2>1. \A k \in 1 .. n : bytes[w.at + k] \in Nat
    BY DEF ChunkAt, Packs
  <2> QED BY <2>1
<1>10. \A k \in 1 .. n : Packs(made, chunk[k], m + k - 1)
  BY DEF ChunkAt
<1>2. w.data \in Seq(Nat) /\ Len(w.data) = m
  BY DEF IsWalk, Gathers
<1>20. \A k \in 1 .. m : Packs(made, w.data[k], k - 1)
  BY DEF Gathers
<1>3. v = [w EXCEPT !.at = w.at + 1 + n, !.data = joined]
  BY DEF ChunkCopied, ChunkAt
<1> HIDE DEF v, chunk
<1>4. /\ joined \in Seq(Nat) /\ Len(joined) = m + n
      /\ \A k \in 1 .. m : joined[k] = w.data[k]
      /\ \A k \in 1 .. n : joined[m + k] = chunk[k]
  BY <1>1, <1>2, ConcatCells
<1> HIDE DEF joined
<1>5. ASSUME NEW k \in 1 .. m + n
      PROVE  Packs(made, joined[k], k - 1)
  <2>1. CASE k <= m
    <3>1. k \in 1 .. m
      BY <2>1
    <3>2. joined[k] = w.data[k]
      BY <1>4, <3>1
    <3> QED BY <1>20, <3>1, <3>2
  <2>2. CASE k > m
    <3>1. PICK l \in 1 .. n : k = m + l
      <4>1. k - m \in 1 .. n /\ k = m + (k - m)
        BY <2>2
      <4> QED BY <4>1
    <3>2. joined[k] = chunk[l]
      BY <1>4, <3>1
    <3>3. Packs(made, chunk[l], m + l - 1)
      BY <1>10
    <3>4. m + l - 1 = k - 1
      BY <3>1
    <3> QED BY <3>2, <3>3, <3>4
  <2> QED BY <2>1, <2>2
<1>6. Gathers(v, m + n) /\ v.data = joined
  <2>1. v.data = joined
    BY <1>3 DEF IsWalk
  <2> QED BY <1>4, <1>5, <2>1 DEF Gathers
<1>7. v.at = w.at + 1 + n /\ v.size = w.size /\ v.next = w.next
  BY <1>3 DEF IsWalk
<1>8. (w.inBlock => v.inBlock)
  BY <1>3 DEF IsWalk
<1>9. IsWalk(v)
  BY <1>3, <1>4 DEF IsWalk
<1> QED BY <1>6, <1>7, <1>8, <1>9 DEF v

\* A block ends where the next begins.
LEMMA BlockClosed ==
  ASSUME NEW bytes, NEW w, IsWalk(w), bytes[w.at] = 0
  PROVE  LET v == ChunkCopied(bytes, w) IN
         IsWalk(v) /\ v.at = w.next /\ v.size = w.size /\ ~v.inBlock /\ v.data = w.data
BY DEF ChunkCopied, IsWalk

\* A chunk is gathered, or the block's end is found.
LEMMA WalkCopied ==
  ASSUME Chained, NEW bytes, NEW at \in Nat, NEW w, Walking(w, at), HoldsBody(bytes, at), w.inBlock
  PROVE  Walking(ChunkCopied(bytes, w), at)
<1>1. PICK n \in 1 .. Len(made.parts) : AtPart(w, at, made.parts[n])
  BY DEF Walking, AtEnd
<1> DEFINE p == made.parts[n]
           q == made.parts[n + 1]
           v == ChunkCopied(bytes, w)
<1>2. /\ p.kind # "open" /\ w.at = at + p.at /\ Gathers(w, p.from)
      /\ w.size = p.next /\ w.next = at + p.end
  BY <1>1 DEF AtPart
<1>3. IsWalk(w)
  BY DEF Walking
<1>4. /\ p.kind \in {"chunk", "close"}
      /\ p.at \in Nat /\ p.from \in Nat /\ p.n \in Nat /\ p.end \in Nat /\ p.next \in Nat
      /\ p.at \in DOMAIN made.body
  BY <1>2, PartFacts
<1>5. bytes[w.at] = made.body[p.at]
  BY <1>2, <1>4 DEF HoldsBody
<1>6. CASE p.kind = "chunk"
  <2>1. /\ p.n > 0 /\ made.body[p.at] = p.n
        /\ \A k \in 1 .. p.n : p.at + k \in DOMAIN made.body /\ Packs(made, made.body[p.at + k], p.from + k - 1)
        /\ n + 1 \in 1 .. Len(made.parts)
        /\ q.kind \in {"chunk", "close"} /\ q.end = p.end /\ q.next = p.next
        /\ q.at = p.at + 1 + p.n /\ q.from = p.from + p.n
    <3>1. p.kind # "close" /\ p.kind # "open" /\ n # Len(made.parts)
      <4>1. n = Len(made.parts) => p.kind = "close"
        BY PartFacts
      <4> QED BY <1>6, <4>1
    <3>2. /\ p.n > 0
          /\ \A k \in 1 .. p.n : p.at + k \in DOMAIN made.body /\ Packs(made, made.body[p.at + k], p.from + k - 1)
      BY <1>6, PartFacts
    <3>3. made.body[p.at] = p.n
      <4>1. made.body[p.at] = CASE p.kind = "open" -> p.next [] p.kind = "chunk" -> p.n [] p.kind = "close" -> 0
        BY PartFacts
      <4> QED BY <1>6, <4>1
    <3>4. /\ n + 1 \in 1 .. Len(made.parts) /\ q.kind \in {"open", "chunk", "close"}
          /\ q.kind # "open" /\ q.end = p.end /\ q.next = p.next
          /\ q.at = p.at + 1 + (IF p.kind = "chunk" THEN p.n ELSE 0)
          /\ q.from = p.from + (IF p.kind = "chunk" THEN p.n ELSE 0)
      BY <3>1, PartFacts
    <3>5. q.at = p.at + 1 + p.n /\ q.from = p.from + p.n
      BY <1>6, <3>4
    <3> QED BY <3>2, <3>3, <3>4, <3>5
  <2>2. ASSUME NEW k \in 1 .. p.n
        PROVE  Packs(made, bytes[w.at + k], p.from + k - 1)
    <3>1. w.at + k = at + (p.at + k)
      BY <1>2, <1>4
    <3>2. bytes[w.at + k] = made.body[p.at + k]
      BY <2>1, <3>1 DEF HoldsBody
    <3> QED BY <2>1, <3>2
  <2>3. ChunkAt(bytes, w, p.from, p.n)
    BY <1>5, <2>1, <2>2 DEF ChunkAt
  <2>4. /\ IsWalk(v) /\ Gathers(v, p.from + p.n)
        /\ v.at = w.at + 1 + p.n /\ v.size = w.size /\ v.next = w.next /\ (w.inBlock => v.inBlock)
    <3>1. p.n \in Nat \ {0}
      BY <1>4, <2>1
    <3> QED BY <1>2, <1>3, <1>4, <2>3, <3>1, ChunkGathered
  <2> HIDE DEF v, p, q
  <2>5. v.at = at + q.at
    <3>1. v.at = (at + p.at) + 1 + p.n /\ q.at = p.at + 1 + p.n
      BY <1>2, <2>1, <2>4
    <3>2. p.at \in Nat /\ p.n \in Nat
      BY <1>4
    <3> QED BY <3>1, <3>2
  <2>6. AtPart(v, at, q)
    BY <1>2, <2>1, <2>4, <2>5 DEF AtPart
  <2> QED BY <2>1, <2>4, <2>6 DEF Walking, v, q
<1>7. CASE p.kind = "close"
  <2>1. made.body[p.at] = 0
    BY <1>7, PartFacts
  <2>2. IsWalk(v) /\ v.at = w.next /\ v.size = w.size /\ ~v.inBlock /\ v.data = w.data
    BY <1>3, <1>5, <2>1, BlockClosed
  <2> HIDE DEF v
  <2>3. Gathers(v, p.from)
    BY <1>2, <2>2 DEF Gathers
  <2>4. CASE n = Len(made.parts)
    <3>1. p.next = 0
      BY <2>4, PartFacts
    <3>2. AtEnd(v)
      BY <1>2, <2>2, <2>3, <2>4, <3>1 DEF AtEnd
    <3> QED BY <2>2, <3>2 DEF Walking, v
  <2>5. CASE n # Len(made.parts)
    <3>1. /\ n + 1 \in 1 .. Len(made.parts)
          /\ q.kind = "open" /\ q.at = p.end /\ q.from = p.from /\ q.end = p.end + p.next
      BY <1>7, <2>5, PartFacts
    <3> HIDE DEF p, q
    <3>2. v.at = at + q.at /\ v.size = q.end - q.at
      BY <1>2, <1>4, <2>2, <3>1
    <3>3. AtPart(v, at, q)
      BY <2>2, <2>3, <3>1, <3>2 DEF AtPart
    <3> QED BY <2>2, <3>1, <3>3 DEF Walking, v, q
  <2> QED BY <2>4, <2>5
<1> QED BY <1>4, <1>6, <1>7

\* The walk starts at the first part.
LEMMA WalkStarted ==
  ASSUME Chained, NEW at \in Nat, NEW size, size = made.bytes[Info]
  PROVE  Walking(WalkFrom(at, size), at)
<1> DEFINE w == WalkFrom(at, size)
           p == made.parts[1]
<1>1. w = [at |-> at, size |-> size, next |-> 0, inBlock |-> FALSE, data |-> <<>>]
  BY DEF WalkFrom
<1>2. 1 \in 1 .. Len(made.parts) /\ p.kind = "open" /\ p.at = 0 /\ p.from = 0 /\ p.end = size
  BY DEF Chained, ChainMade
<1>3. p.end \in Nat
  BY <1>2, PartFacts
<1>4. IsWalk(w) /\ w.at = at /\ w.size = size /\ ~w.inBlock
  BY <1>1 DEF IsWalk
<1>5. Gathers(w, 0)
  BY <1>1 DEF Gathers
<1> HIDE DEF w, p
<1>6. w.at = at + p.at /\ w.size = p.end - p.at
  BY <1>2, <1>3, <1>4
<1>7. AtPart(w, at, p)
  BY <1>2, <1>4, <1>5, <1>6 DEF AtPart
<1> QED BY <1>2, <1>4, <1>7 DEF Walking, w, p

\* What has been gathered at its end expands to the image.
LEMMA WalkExpands ==
  ASSUME Chained, NEW at \in Nat, NEW w, Walking(w, at), ~w.inBlock, w.size = 0
  PROVE  Expanded(Gathered(w), Size(made.image)) = made.image
<1>1. AtEnd(w)
  <2>1. ASSUME NEW n \in 1 .. Len(made.parts), AtPart(w, at, made.parts[n])
        PROVE  FALSE
    <3>1. w.size = made.parts[n].end - made.parts[n].at
      BY <2>1 DEF AtPart
    <3>2. made.parts[n].end \in Nat /\ made.parts[n].at \in Nat /\ made.parts[n].at < made.parts[n].end
      BY PartFacts
    <3> QED BY <3>1, <3>2
  <2> QED BY <2>1 DEF Walking
<1>2. PICK m \in Nat : m = made.parts[Len(made.parts)].from /\ 2 * m >= Size(made.image)
  <2>1. Len(made.parts) \in 1 .. Len(made.parts) /\ 2 * made.parts[Len(made.parts)].from >= Size(made.image)
    BY DEF Chained, ChainMade
  <2>2. made.parts[Len(made.parts)].from \in Nat
    BY <2>1, PartFacts
  <2> QED BY <2>1, <2>2
<1>3. Len(w.data) = m /\ \A k \in 1 .. m : Packs(made, w.data[k], k - 1)
  BY <1>1, <1>2 DEF AtEnd, Gathers
<1>4. PICK n \in Nat : n = Size(made.image) /\ DOMAIN made.image = 0 .. n - 1
  BY DEF Chained, IsArray
<1>5. \A a \in 0 .. m - 1 : Packs(made, Gathered(w)[a], a)
  <2> TAKE a \in 0 .. m - 1
  <2>1. a + 1 \in 1 .. m /\ (a + 1) - 1 = a
    OBVIOUS
  <2>2. Packs(made, w.data[a + 1], a)
    BY <1>3, <2>1
  <2>3. Gathered(w)[a] = w.data[a + 1]
    BY <1>3 DEF Gathered
  <2> QED BY <2>2, <2>3
<1>6. ASSUME NEW k \in 0 .. n - 1
      PROVE  Expanded(Gathered(w), n)[k] = made.image[k]
  <2>1. PICK a \in Nat : a = k \div 2 /\ (k % 2 = 0 => k = 2 * a) /\ (k % 2 # 0 => k = 2 * a + 1)
    OBVIOUS
  <2>2. a \in 0 .. m - 1
    <3>1. k < n /\ 2 * a <= k /\ n <= 2 * m
      BY <1>2, <1>4, <2>1
    <3> QED BY <3>1
  <2>3. /\ Gathered(w)[a] \div 10 = made.image[2 * a]
        /\ 2 * a + 1 < n => Gathered(w)[a] % 10 = made.image[2 * a + 1]
    BY <1>4, <1>5, <2>2 DEF Packs
  <2>4. Expanded(Gathered(w), n)[k] = IF k % 2 = 0 THEN Gathered(w)[a] \div 10 ELSE Gathered(w)[a] % 10
    BY <2>1 DEF Expanded
  <2>5. CASE k % 2 = 0
    BY <2>1, <2>3, <2>4, <2>5
  <2>6. CASE k % 2 # 0
    <3>1. k = 2 * a + 1 /\ 2 * a + 1 < n
      BY <2>1, <2>6
    <3> QED BY <2>3, <2>4, <2>6, <3>1
  <2> QED BY <2>5, <2>6
<1>7. Expanded(Gathered(w), n) = [k \in 0 .. n - 1 |-> Expanded(Gathered(w), n)[k]]
  BY DEF Expanded
<1>8. made.image = [k \in 0 .. n - 1 |-> made.image[k]]
  <2>1. IsArray(made.image)
    BY DEF Chained
  <2> QED BY <1>4, <2>1 DEF IsArray
<1> QED BY <1>4, <1>6, <1>7, <1>8

----------------------------------------------------------------------------
\* What the patcher finds out.

\* Behind its first check the base is a XEX file, and there is an update.
LEMMA Valid ==
  ASSUME PatcherInv, step \in Checked
  PROVE  baseFrame.magic = "XEX2" /\ ~patch.none
<1>1. "start" \notin Checked
  BY DEF Checked, Prepared, Copied, Keyed
<1> QED BY <1>1 DEF PatcherInv, HeadersValid

\* At first nothing has been found out.
LEMMA PatcherInit == Init => PatcherInv
BY DEF Init, PatcherInv, Steps, Keyed, Copied, Prepared, Checked, Plainly, Refusals

\* A refusal is right, and a crash comes of a file that is too short.
LEMMA GaveUp ==
  ASSUME PatcherInv, UNCHANGED <<base, baseFrame, patch>>, ~patch.none, step' \in Refusals \cup {"crashed"},
         ShorterFile \/ (step' \in Refusals /\ ~Fits)
  PROVE  PatcherInv'
<1>1. ShorterFile' \/ (step' \in Refusals /\ ~Fits')
  BY SameFiles
<1>2. /\ step' \in Steps \cup Refusals \cup {"crashed"}
      /\ ~patch'.none
      /\ step' \notin Checked /\ step' \notin Prepared /\ step' \notin {"header", "headerEntries"}
      /\ step' # "headerEntries" /\ step' \notin Copied /\ step' \notin Keyed /\ step' # "basic" /\ step' # "lzx"
      /\ step' \notin Plainly /\ step' \notin Plainly \cup {"basic"} /\ step' \notin {"entries", "done"} /\ step' # "done"
      /\ (step' = "crashed" => step' \notin Refusals)
  BY DEF Refusals, Steps, Keyed, Copied, Prepared, Checked, Plainly
<1> QED BY <1>1, <1>2 DEF PatcherInv

\* Invalid headers are refused.
LEMMA HeadersChecked ==
  ASSUME PatcherInv, UNCHANGED <<base, baseFrame, patch>>, CheckHeaders
  PROVE  PatcherInv'
<1>1. step = "headers" /\ ~patch.none
  BY DEF CheckHeaders, PatcherInv
<1>2. CASE ~HeadersValid(baseFrame, base) \/ ~HeadersValid(patch.frame, patch.bytes) \/ ~patch.delta
  <2>1. step' \in Refusals /\ ~Fits
    BY <1>2 DEF CheckHeaders, GiveUp, Refusals, Fits, Suitable
  <2> QED BY <1>1, <2>1, GaveUp
<1>3. CASE HeadersValid(baseFrame, base) /\ HeadersValid(patch.frame, patch.bytes) /\ patch.delta
  <2>1. step' = "check"
    BY <1>3 DEF CheckHeaders
  <2>2. HeadersValid(baseFrame, base)' /\ HeadersValid(patch.frame, patch.bytes)' /\ patch'.delta /\ ~patch'.none
    BY <1>1, <1>3, SameFiles
  <2> QED BY <2>1, <2>2 DEF PatcherInv, Refusals, Steps, Keyed, Copied, Prepared, Checked, Plainly
<1> QED BY <1>2, <1>3

\* An update that is not for the header is refused.
LEMMA PatchChecked ==
  ASSUME MadeInv, PatcherInv, UNCHANGED <<base, baseFrame, patch>>, CheckPatch
  PROVE  PatcherInv'
<1>1. step = "check" /\ ~patch.none
  BY DEF CheckPatch, PatcherInv
<1>2. CASE ~Compatible \/ ~patch.whole
  <2>1. step' \in Refusals /\ ~Fits
    BY <1>2 DEF CheckPatch, GiveUp, Refusals, Fits, Suitable
  <2> QED BY <1>1, <2>1, GaveUp
<1>3. CASE Compatible /\ patch.whole
  <2>1. step' = "header"
    BY <1>3 DEF CheckPatch
  <2>2. out' = Overlay(Zeros(Larger(patch.targetSize, OldHeaderSize)), 0, Slice(base, 0, patch.targetSize))
    BY <1>3 DEF CheckPatch
  <2>3. DOMAIN out' = 0 .. Larger(patch.targetSize, OldHeaderSize) - 1
    BY <2>2 DEF Overlay, Zeros
  <2>4. /\ HeadersValid(baseFrame, base)' /\ HeadersValid(patch.frame, patch.bytes)' /\ patch'.delta /\ ~patch'.none
        /\ Compatible' /\ patch'.whole
    BY <1>1, <1>3, SameFiles DEF PatcherInv, Prepared, Checked
  <2>5. DOMAIN out' = 0 .. Larger(patch'.targetSize, OldHeaderSize') - 1
    BY <2>3, SameFiles
  <2> QED BY <2>1, <2>4, <2>5 DEF PatcherInv, Refusals, Steps, Keyed, Copied, Prepared, Checked, Plainly
<1> QED BY <1>2, <1>3

\* What is found out about the files stays so.
LEMMA StillPrepared ==
  ASSUME PatcherInv, UNCHANGED <<base, baseFrame, patch>>, step \in Prepared
  PROVE  /\ HeadersValid(baseFrame, base)' /\ HeadersValid(patch.frame, patch.bytes)' /\ patch'.delta /\ ~patch'.none
         /\ Compatible' /\ patch'.whole
BY SameFiles DEF PatcherInv, Prepared, Checked, Copied, Keyed

\* The header that is moved keeps its size.
LEMMA HeaderMoved ==
  ASSUME MadeInv, PatcherInv, UNCHANGED <<base, baseFrame, patch>>, MoveHeader
  PROVE  PatcherInv'
<1>1. step = "header" /\ step \in Prepared /\ step' = "headerEntries" /\ i' = 1 /\ ~patch.none
  BY DEF MoveHeader, PatcherInv, Prepared
<1>2. PatchMade(patch)
  BY <1>1, PatchFacts
<1>3. DOMAIN out' = DOMAIN out
  <2>1. /\ patch.header.sourceOffset \in Nat /\ patch.header.targetOffset \in Nat /\ patch.header.sourceSize \in Nat
    BY <1>2 DEF PatchMade, ShiftMade
  <2>2. CASE patch.header.sourceOffset > 0
    <3>1. out' \in MoveOutcomes(out, patch.header.sourceOffset, patch.header.targetOffset, patch.header.sourceSize)
      BY <2>2 DEF MoveHeader
    <3> QED BY <2>1, <3>1, MoveKeeps
  <2>3. CASE ~(patch.header.sourceOffset > 0)
    BY <2>3 DEF MoveHeader
  <2> QED BY <2>2, <2>3
<1>4. DOMAIN out' = 0 .. Larger(patch'.targetSize, OldHeaderSize') - 1
  BY <1>1, <1>3, SameFiles DEF PatcherInv
<1>5. Len(patch'.headerEntries) \in Nat \ {0}
  BY <1>2 DEF PatchMade
<1>6. i' \in 1 .. Len(patch'.headerEntries) + 1 /\ ~(i' > Len(patch'.headerEntries))
  BY <1>1, <1>5
<1> QED BY <1>1, <1>4, <1>6, StillPrepared DEF PatcherInv, Refusals, Steps, Keyed, Copied, Prepared, Checked, Plainly

\* The sizes of the files involved.
LEMMA Sizes ==
  ASSUME MadeInv, PatcherInv, step \in Checked
  PROVE  /\ patch.targetSize \in Nat /\ patch.newSize \in Nat
         /\ OldHeaderSize \in Nat /\ OldHeaderSize >= FieldsEnd
         /\ BodySize \in Nat /\ BodySize = Size(made.body) /\ base[ImageSize] \in Nat /\ base[ImageSize] = Size(made.image)
BY Valid, BaseFacts, PatchFacts DEF PatchMade

\* The last entry of the header tells the sizes and the key.
LEMMA HeaderPatched ==
  ASSUME MadeInv, PatcherInv, UNCHANGED <<base, baseFrame, patch>>, PatchHeader
  PROVE  PatcherInv'
<1> DEFINE L == Len(patch.headerEntries)
           e == patch.headerEntries[i]
<1>1. /\ step = "headerEntries" /\ step \in Prepared /\ step \in Checked
      /\ step' = "headerEntries" /\ i' = i + 1 /\ ~patch.none /\ i <= L
  BY DEF PatchHeader, PatcherInv, Prepared, Checked
<1>2. PatchMade(patch)
  BY <1>1, PatchFacts
<1>3. i \in 1 .. L /\ L \in Nat
  BY <1>1, <1>2 DEF PatcherInv, PatchMade
<1>4. EntryMade(e, patch.targetSize)
  BY <1>2, <1>3 DEF PatchMade
<1>5. out' \in DeltaOutcomes(out, 0, e)
  BY DEF PatchHeader
<1>6. DOMAIN out' = DOMAIN out
  <2> HIDE DEF e
  <2> QED BY <1>4, <1>5, DeltaKeeps
<1>7. DOMAIN out = 0 .. Larger(patch.targetSize, OldHeaderSize) - 1
  BY <1>1 DEF PatcherInv
<1>8. DOMAIN out' = 0 .. Larger(patch'.targetSize, OldHeaderSize') - 1
  BY <1>6, <1>7, SameFiles
<1>9. CASE i = L
  <2>1. TellsHeader(e, patch)
    BY <1>2, <1>9 DEF PatchMade
  <2> HIDE DEF e
  <2>2. e.kind = "data" /\ e.new = 0 /\ e.n \in Nat /\ e.n > 2 /\ e.data \in [0 .. e.n - 1 -> Int]
    BY <1>4, <2>1 DEF TellsHeader, EntryMade, ImageSize
  <2>3. e.data[0] = patch.targetSize /\ e.data[1] = Wrapped(Retail, patch.newKey) /\ e.data[2] = patch.newSize
    BY <2>1 DEF TellsHeader, HeaderSize, Key, ImageSize
  <2>4. patch.targetSize \in Nat /\ Wrapped(Retail, patch.newKey) \in Nat /\ patch.newSize \in Nat
    <3>1. patch.targetSize \in Nat /\ patch.newSize \in Nat /\ patch.newKey \in 1 .. 8
      BY <1>2 DEF PatchMade
    <3> QED BY <3>1 DEF Wrapped, Retail
  <2> DEFINE part == Decoded(e.data, Slice(out, 0 + e.old, e.n))
  <2>5. DOMAIN part = 0 .. e.n - 1
    BY <2>2 DEF Decoded
  <2>6. part[0] = patch.targetSize /\ part[1] = Wrapped(Retail, patch.newKey) /\ part[2] = patch.newSize
    <3>1. 0 \in DOMAIN e.data /\ 1 \in DOMAIN e.data /\ 2 \in DOMAIN e.data
      BY <2>2
    <3>2. ~(e.data[0] < 0) /\ ~(e.data[1] < 0) /\ ~(e.data[2] < 0)
      BY <2>3, <2>4
    <3>3. part[0] = e.data[0] /\ part[1] = e.data[1] /\ part[2] = e.data[2]
      BY <3>1, <3>2 DEF Decoded
    <3> QED BY <2>3, <3>3
  <2>7. out' = Overlay(out, 0 + e.new, part)
    BY <1>5, <2>2 DEF DeltaOutcomes
  <2> HIDE DEF part
  <2>8. OldHeaderSize \in Nat /\ OldHeaderSize >= 6 /\ patch.targetSize \in Nat
    BY <1>1, Sizes DEF FieldsEnd
  <2>9. 0 \in DOMAIN out /\ 1 \in DOMAIN out /\ 2 \in DOMAIN out
    BY <1>7, <2>8 DEF Larger
  <2>10. out'[0] = part[0] /\ out'[1] = part[1] /\ out'[2] = part[2]
    BY <2>2, <2>5, <2>7, <2>9 DEF Overlay
  <2>11. HeaderTold'
    BY <2>6, <2>10 DEF HeaderTold, HeaderSize, Key, ImageSize
  <2>12. i' \in 1 .. Len(patch'.headerEntries) + 1
    BY <1>1, <1>3
  <2> QED BY <1>1, <1>8, <2>11, <2>12, StillPrepared DEF PatcherInv, Refusals, Steps, Keyed, Copied, Prepared, Checked, Plainly
<1>10. CASE i # L
  <2>1. i' \in 1 .. Len(patch'.headerEntries) + 1 /\ ~(i' > Len(patch'.headerEntries))
    BY <1>1, <1>3, <1>10
  <2> QED BY <1>1, <1>8, <2>1, StillPrepared DEF PatcherInv, Refusals, Steps, Keyed, Copied, Prepared, Checked, Plainly
<1> QED BY <1>9, <1>10

\* Behind the new header the old body follows.
LEMMA BodyCopied ==
  ASSUME MadeInv, PatcherInv, BodyInv, UNCHANGED <<base, baseFrame, patch>>, CopyBody
  PROVE  PatcherInv' /\ BodyInv'
<1> DEFINE t == patch.targetSize
           n == patch.newSize
           header == Resized(out, t)
<1>1. step = "headerEntries" /\ step \in Prepared /\ step \in Checked /\ ~patch.none /\ HeaderTold
  <2>1. step = "headerEntries" /\ i > Len(patch.headerEntries) /\ ~patch.none
    BY DEF CopyBody, PatcherInv
  <2> QED BY <2>1 DEF PatcherInv, Prepared, Checked
<1>2. /\ t \in Nat /\ n \in Nat /\ OldHeaderSize \in Nat /\ BodySize \in Nat
      /\ DOMAIN out = 0 .. Larger(t, OldHeaderSize) - 1
  BY <1>1, Sizes DEF PatcherInv
<1>3. out[0] = t /\ out[1] = Wrapped(Retail, patch.newKey) /\ out[2] = n
  BY <1>1 DEF HeaderTold, HeaderSize, Key, ImageSize
<1>4. DOMAIN header = 0 .. t - 1 /\ \A k \in 0 .. t - 1 : header[k] = out[k]
  BY <1>2 DEF Resized, Larger
<1>5. t >= FieldsEnd => header[0] = t /\ header[1] = Wrapped(Retail, patch.newKey) /\ header[2] = n
  BY <1>2, <1>3, <1>4 DEF FieldsEnd
<1>6. CASE t < FieldsEnd \/ n = 0 \/ BodySize > n
  <2>1. step' \in Refusals
    <3>1. t < FieldsEnd \/ header[ImageSize] = n
      BY <1>2, <1>5 DEF FieldsEnd, ImageSize
    <3> HIDE DEF header
    <3>2. IF t < FieldsEnd \/ header[ImageSize] = 0 THEN step' = "PatchFailed"
          ELSE BodySize > header[ImageSize] => step' = "XexFileInvalid"
      BY DEF CopyBody, GiveUp, header
    <3>3. step' \in {"PatchFailed", "XexFileInvalid"}
      BY <1>6, <3>1, <3>2
    <3> QED BY <3>3 DEF Refusals
  <2>2. ~Fits
    <3>1. CASE t < FieldsEnd
      BY <1>2, <3>1 DEF Fits, Suitable, FieldsEnd
    <3>2. CASE BodySize > n
      BY <1>2, <3>2 DEF Fits, Suitable
    <3>3. CASE n = 0
      BY <3>3 DEF Fits, Suitable
    <3> QED BY <1>6, <3>1, <3>2, <3>3
  <2>3. PatcherInv'
    BY <1>1, <2>1, <2>2, GaveUp
  <2> QED BY <2>1, <2>3 DEF BodyInv, Refusals
<1>7. CASE ~(t < FieldsEnd \/ n = 0 \/ BodySize > n)
  <2>1. header[ImageSize] = n /\ t >= FieldsEnd
    BY <1>2, <1>5, <1>7 DEF FieldsEnd, ImageSize
  <2> DEFINE longer == Resized(header, t + n)
             body == Slice(base, OldHeaderSize, BodySize)
  <2>2. out' = Overlay(longer, t, body) /\ step' = "keys"
    <3> HIDE DEF header
    <3> QED BY <1>7, <2>1 DEF CopyBody, header
  <2>3. DOMAIN longer = 0 .. t + n - 1 /\ \A k \in 0 .. t + n - 1 : longer[k] = IF k < t THEN header[k] ELSE 0
    <3> HIDE DEF header
    <3> QED BY <1>2, <1>4 DEF Resized
  <2>4. DOMAIN body = 0 .. BodySize - 1 /\ \A k \in 0 .. BodySize - 1 : body[k] = base[OldHeaderSize + k]
    BY SliceCells
  <2> HIDE DEF longer, body, header
  <2>5. DOMAIN out' = 0 .. t + n - 1
    BY <2>2, <2>3 DEF Overlay
  <2>6. \A k \in 0 .. n - 1 : out'[t + k] = IF k < BodySize THEN body[k] ELSE longer[t + k]
    <3> TAKE k \in 0 .. n - 1
    <3>1. t + k \in DOMAIN longer /\ t + k \in Int /\ t \in Int /\ BodySize - 1 \in Int
      BY <1>2, <2>3
    <3>2. out'[t + k] = IF t <= t + k /\ t + k <= t + (BodySize - 1) THEN body[(t + k) - t] ELSE longer[t + k]
      BY <2>2, <2>4, <3>1, OverlayCell
    <3>3. (t + k) - t = k /\ t <= t + k /\ (t + k <= t + (BodySize - 1) <=> k < BodySize)
      BY <1>2
    <3> QED BY <3>2, <3>3
  <2>7. out'[0] = t /\ out'[1] = Wrapped(Retail, patch.newKey) /\ out'[2] = n
    <3>1. out'[0] = longer[0] /\ out'[1] = longer[1] /\ out'[2] = longer[2]
      <4>1. 0 \in DOMAIN longer /\ 1 \in DOMAIN longer /\ 2 \in DOMAIN longer
        BY <1>2, <2>1, <2>3 DEF FieldsEnd
      <4>2. t \in Int /\ 0 < t /\ 1 < t /\ 2 < t /\ BodySize \in Int
        BY <1>2, <2>1 DEF FieldsEnd
      <4>3. BodySize - 1 \in Int
        BY <4>2
      <4> QED BY <2>2, <2>4, <4>1, <4>2, <4>3, OverlayCell
    <3>2. longer[0] = header[0] /\ longer[1] = header[1] /\ longer[2] = header[2]
      BY <1>2, <2>1, <2>3 DEF FieldsEnd
    <3> QED BY <1>5, <2>1, <3>1, <3>2
  <2>8. HeaderTold'
    BY <2>7 DEF HeaderTold, HeaderSize, Key, ImageSize
  <2>9. patch'.targetSize >= FieldsEnd /\ patch'.newSize > 0 /\ patch'.newSize >= BodySize'
    BY <1>2, <1>7, SameFiles DEF FieldsEnd
  <2>10. PatcherInv'
    <3>1. step \in Prepared
      BY <1>1
    <3>2. DOMAIN out' = 0 .. patch'.targetSize + patch'.newSize - 1
      BY <2>5
    <3> QED BY <2>2, <2>8, <2>9, <3>1, <3>2, StillPrepared DEF PatcherInv, Refusals, Steps, Keyed, Copied, Prepared, Checked, Plainly
  <2>11. BodyIs(Stored)'
    <3> SUFFICES ASSUME NEW k \in 0 .. n - 1
                 PROVE  out'[t + k] = Stored'[k]
      BY DEF BodyIs
    <3>1. Stored'[k] = IF k < BodySize THEN base[OldHeaderSize + k] ELSE 0
      BY SameFiles DEF Stored
    <3>2. t + k \in 0 .. t + n - 1
      BY <1>2
    <3>3. CASE k < BodySize
      <4>1. out'[t + k] = body[k]
        BY <2>6, <3>3
      <4>2. k \in 0 .. BodySize - 1
        BY <1>2, <3>3
      <4> QED BY <2>4, <3>1, <3>3, <4>1, <4>2
    <3>4. CASE ~(k < BodySize)
      <4>1. out'[t + k] = longer[t + k]
        BY <2>6, <3>4
      <4>2. longer[t + k] = 0
        BY <1>2, <2>3, <3>2
      <4> QED BY <3>1, <3>4, <4>1, <4>2
    <3> QED BY <3>3, <3>4
  <2> QED BY <2>2, <2>10, <2>11 DEF BodyInv
<1> QED BY <1>6, <1>7

\* A step that leaves the header as it is and finds out nothing.
LEMMA HeaderKept ==
  ASSUME MadeInv, PatcherInv, UNCHANGED <<base, baseFrame, patch>>, step \in Copied,
         DOMAIN out' = DOMAIN out, \A k \in 0 .. 2 : out'[k] = out[k]
  PROVE  /\ DOMAIN out' = 0 .. patch'.targetSize + patch'.newSize - 1
         /\ HeaderTold'
         /\ patch'.targetSize >= FieldsEnd /\ patch'.newSize > 0 /\ patch'.newSize >= BodySize'
<1>1. /\ DOMAIN out = 0 .. patch.targetSize + patch.newSize - 1 /\ HeaderTold
      /\ patch.targetSize >= FieldsEnd /\ patch.newSize > 0 /\ patch.newSize >= BodySize
  BY DEF PatcherInv
<1>2. HeaderTold'
  <2>1. out'[0] = out[0] /\ out'[1] = out[1] /\ out'[2] = out[2]
    OBVIOUS
  <2> QED BY <1>1, <2>1 DEF HeaderTold, HeaderSize, Key, ImageSize
<1>3. patch'.newSize >= BodySize'
  BY <1>1, SameFiles
<1> QED BY <1>1, <1>2, <1>3

\* The new header tells the new key.
LEMMA KeyTold ==
  ASSUME MadeInv, PatcherInv, step \in Copied
  PROVE  NewKey = patch.newKey /\ patch.newKey \in 1 .. 8 /\ ~patch.none
<1>1. ~patch.none /\ HeaderTold
  BY DEF PatcherInv, Copied, Keyed
<1>2. patch.newKey \in 1 .. 8
  BY <1>1, PatchFacts DEF PatchMade
<1> QED BY <1>1, <1>2 DEF HeaderTold, NewKey, Unwrapped, Wrapped, Retail

\* A base with another key is refused.
LEMMA KeysChecked ==
  ASSUME MadeInv, PatcherInv, BodyInv, UNCHANGED <<base, baseFrame, patch>>, CheckKeys
  PROVE  PatcherInv' /\ BodyInv'
<1>1. step = "keys" /\ step \in Copied /\ step \in Prepared
  BY DEF CheckKeys, Copied, Prepared
<1>2. NewKey = patch.newKey /\ patch.newKey \in 1 .. 8 /\ ~patch.none
  BY <1>1, KeyTold
<1>3. OldKey \in 1 .. 8
  BY <1>1, Valid, BaseFacts DEF Checked
<1>4. patch.keySource \in Nat
  BY <1>2, PatchFacts DEF PatchMade
<1>5. CASE Unwrapped(NewKey, patch.keySource) # OldKey
  <2>1. step' \in Refusals
    BY <1>5 DEF CheckKeys, GiveUp, Refusals
  <2>2. ~Fits
    <3>1. OldKey = Unwrapped(Retail, base[Key])
      BY DEF OldKey
    <3>2. patch.keySource # Wrapped(patch.newKey, OldKey)
      BY <1>2, <1>3, <1>5 DEF Unwrapped, Wrapped
    <3> QED BY <3>1, <3>2 DEF Fits, Suitable
  <2>3. PatcherInv'
    BY <1>2, <2>1, <2>2, GaveUp
  <2> QED BY <2>1, <2>3 DEF BodyInv, Refusals
<1>6. CASE Unwrapped(NewKey, patch.keySource) = OldKey
  <2>1. step' = "decrypt" /\ UNCHANGED out
    BY <1>6 DEF CheckKeys
  <2>2. patch'.keySource = Wrapped(patch'.newKey, OldKey')
    <3>1. patch.keySource = Wrapped(patch.newKey, OldKey)
      BY <1>2, <1>3, <1>4, <1>6 DEF Unwrapped, Wrapped
    <3> QED BY <3>1, SameFiles
  <2>3. PatcherInv'
    BY <1>1, <2>1, <2>2, HeaderKept, StillPrepared
       DEF PatcherInv, Refusals, Steps, Keyed, Copied, Prepared, Checked, Plainly
  <2>4. BodyIs(Stored)'
    <3>1. BodyIs(Stored)
      BY <1>1 DEF BodyInv
    <3> QED BY <2>1, <3>1, SameFiles DEF BodyIs, Stored
  <2> QED BY <2>1, <2>3, <2>4 DEF BodyInv
<1> QED BY <1>5, <1>6

\* With the right key the body is as it was before it was encrypted.
LEMMA BodyDecrypted ==
  ASSUME MadeInv, PatcherInv, BodyInv, UNCHANGED <<base, baseFrame, patch, made>>, Decrypt
  PROVE  PatcherInv' /\ BodyInv'
<1> DEFINE t == patch.targetSize
           n == patch.newSize
           s == BodySize
           body == Slice(out, t, s)
           part == Decrypted(OldKey, body)
<1>1. /\ step = "decrypt" /\ step \in Copied /\ step \in Prepared /\ step \in Keyed /\ step \in Checked
      /\ step' = "decompress"
  BY DEF Decrypt, Copied, Prepared, Keyed, Checked
<1>2. ~patch.none /\ baseFrame.magic = "XEX2"
  BY <1>1, Valid
<1>3. /\ t \in Nat /\ n \in Nat /\ s \in Nat /\ s = Size(made.body) /\ t >= 6 /\ n >= s
      /\ DOMAIN out = 0 .. t + n - 1
  BY <1>1, Sizes DEF PatcherInv, FieldsEnd
<1>4. OldKey \in 1 .. 8
  BY <1>2, BaseFacts
<1>5. \A k \in 0 .. s - 1 :
        base[OldHeaderSize + k] = IF base[Encryption] = Normal THEN 10 * made.body[k] + OldKey ELSE made.body[k]
  BY <1>2, <1>3, BaseFacts
<1>6. \A k \in 0 .. s - 1 : made.body[k] \in Nat
  BY <1>2, <1>3, BaseFacts
<1>7. \A k \in 0 .. n - 1 : out[t + k] = IF k < s THEN base[OldHeaderSize + k] ELSE 0
  BY <1>1, <1>3 DEF BodyInv, BodyIs, Stored
<1>8. UNCHANGED Packing
  BY SameFiles DEF Packing
<1>9. \A k \in 0 .. n - 1 : Packing[k] = IF k < s THEN made.body[k] ELSE 0
  BY DEF Packing
<1>10. CASE base[Encryption] = Normal
  <2>1. out' = Overlay(out, t, part)
    BY <1>10 DEF Decrypt
  <2>2. DOMAIN part = 0 .. s - 1
    BY DEF Decrypted, Slice
  <2>3. ASSUME NEW k \in 0 .. s - 1
        PROVE  part[k] = made.body[k]
    <3>1. body[k] = 10 * made.body[k] + OldKey
      <4>1. body[k] = out[t + k]
        BY DEF Slice
      <4>2. k \in 0 .. n - 1 /\ k < s
        BY <1>3
      <4>3. out[t + k] = base[OldHeaderSize + k]
        BY <1>7, <4>2
      <4> QED BY <1>5, <1>10, <4>1, <4>3
    <3>2. part[k] = IF body[k] % 10 = OldKey THEN body[k] \div 10 ELSE Garbage
      BY DEF Decrypted, Slice
    <3> HIDE DEF part, body
    <3>3. PICK x \in Nat, y \in 1 .. 8 : x = made.body[k] /\ y = OldKey
      BY <1>4, <1>6
    <3>4. (10 * x + y) \div 10 = x /\ (10 * x + y) % 10 = y
      OBVIOUS
    <3> QED BY <3>1, <3>2, <3>3, <3>4
  <2> HIDE DEF part
  <2>4. DOMAIN out' = DOMAIN out
    BY <2>1 DEF Overlay
  <2>5. \A k \in DOMAIN out : k \in Int => out'[k] = IF t <= k /\ k <= t + (s - 1) THEN part[k - t] ELSE out[k]
    <3>1. t \in Int /\ s - 1 \in Int
      BY <1>3
    <3> QED BY <2>1, <2>2, <3>1, OverlayCell
  <2>6. \A k \in 0 .. 2 : out'[k] = out[k]
    <3> TAKE k \in 0 .. 2
    <3>1. k \in DOMAIN out /\ k \in Int /\ ~(t <= k)
      BY <1>3
    <3> QED BY <2>5, <3>1
  <2>7. \A k \in 0 .. n - 1 : out'[t + k] = Packing[k]
    <3> TAKE k \in 0 .. n - 1
    <3>1. t + k \in DOMAIN out /\ t + k \in Int /\ t <= t + k /\ (t + k <= t + (s - 1) <=> k < s) /\ (t + k) - t = k
      BY <1>3
    <3>2. out'[t + k] = IF k < s THEN part[k] ELSE out[t + k]
      BY <2>5, <3>1
    <3>3. k < s => k \in 0 .. s - 1
      BY <1>3
    <3> QED BY <1>7, <1>9, <2>3, <3>2, <3>3
  <2>8. PatcherInv'
    BY <1>1, <2>4, <2>6, HeaderKept, StillPrepared, SameFiles
       DEF PatcherInv, Refusals, Steps, Keyed, Copied, Prepared, Checked, Plainly
  <2> QED BY <1>1, <1>8, <2>7, <2>8 DEF BodyInv, BodyIs
<1>11. CASE base[Encryption] # Normal
  <2>1. out' = out
    BY <1>11 DEF Decrypt
  <2>2. \A k \in 0 .. n - 1 : out'[t + k] = Packing[k]
    <3> TAKE k \in 0 .. n - 1
    <3>1. k < s => k \in 0 .. s - 1
      BY <1>3
    <3> QED BY <1>5, <1>7, <1>9, <1>11, <2>1, <3>1
  <2>3. PatcherInv'
    BY <1>1, <2>1, HeaderKept, StillPrepared, SameFiles
       DEF PatcherInv, Refusals, Steps, Keyed, Copied, Prepared, Checked, Plainly
  <2> QED BY <1>1, <1>8, <2>2, <2>3 DEF BodyInv, BodyIs
<1> QED BY <1>10, <1>11

----------------------------------------------------------------------------
\* Blocks are moved apart.

SameHeader(new, bytes, t) == \A k \in 0 .. t - 1 : new[k] = bytes[k]
Holds(bytes, t, n, cells) == DOMAIN bytes = 0 .. t + n - 1 /\ \A k \in 0 .. n - 1 : bytes[t + k] = cells[k]

\* A block of s cells at d goes to w, not before d, with z zeros behind it.
Spreadable(bytes, t, n, cells, d, w, s, z) == Holds(bytes, t, n, cells) /\ d <= w /\ w + s + z <= n

Spread(bytes, t, d, w, s, z) ==
  LET zeroed == Overlay(bytes, t + w + s, Zeros(z)) IN Overlay(zeroed, t + w, Slice(zeroed, t + d, s))

SpreadCells(moved, bytes, t, n, cells, d, w, s, z) ==
  /\ DOMAIN moved = 0 .. t + n - 1 /\ SameHeader(moved, bytes, t)
  /\ \A k \in 0 .. n - 1 : moved[t + k] = IF w <= k /\ k < w + s THEN cells[d + (k - w)]
                                           ELSE IF w + s <= k /\ k < w + s + z THEN 0 ELSE cells[k]

\* What is read has not been zeroed.
LEMMA BlockSpread ==
  ASSUME NEW bytes, NEW t \in Nat, NEW n \in Nat, NEW cells,
         NEW d \in Nat, NEW w \in Nat, NEW s \in Nat, NEW z \in Nat, Spreadable(bytes, t, n, cells, d, w, s, z)
  PROVE  SpreadCells(Spread(bytes, t, d, w, s, z), bytes, t, n, cells, d, w, s, z)
<1>0. PICK zeroed, moved : /\ zeroed = Overlay(bytes, t + w + s, Zeros(z))
                           /\ moved = Overlay(zeroed, t + w, Slice(zeroed, t + d, s))
                           /\ moved = Spread(bytes, t, d, w, s, z)
  BY DEF Spread
<1>00. Holds(bytes, t, n, cells) /\ d <= w /\ w + s + z <= n
  BY DEF Spreadable
<1>1. DOMAIN zeroed = 0 .. t + n - 1
      /\ \A k \in 0 .. t + n - 1 : zeroed[k] = IF t + w + s <= k /\ k < t + w + s + z THEN 0 ELSE bytes[k]
  <2>1. zeroed = [k \in 0 .. t + n - 1 |-> IF k - (t + w + s) \in 0 .. z - 1 THEN Zeros(z)[k - (t + w + s)] ELSE bytes[k]]
    BY <1>0, <1>00 DEF Overlay, Zeros, Holds
  <2>2. \A k \in 0 .. z - 1 : Zeros(z)[k] = 0
    BY DEF Zeros
  <2> QED BY <2>1, <2>2
<1>2. DOMAIN moved = 0 .. t + n - 1
      /\ \A k \in 0 .. t + n - 1 : moved[k] = IF t + w <= k /\ k < t + w + s THEN zeroed[t + d + (k - (t + w))] ELSE zeroed[k]
  <2>0. PICK slice : slice = Slice(zeroed, t + d, s) /\ DOMAIN slice = 0 .. s - 1
    BY SliceCells
  <2>1. moved = [k \in 0 .. t + n - 1 |->
                   IF k - (t + w) \in 0 .. s - 1 THEN Slice(zeroed, t + d, s)[k - (t + w)] ELSE zeroed[k]]
    <3>1. moved = [k \in DOMAIN zeroed |-> IF k - (t + w) \in DOMAIN slice THEN slice[k - (t + w)] ELSE zeroed[k]]
      BY <1>0, <2>0 DEF Overlay
    <3> QED BY <1>1, <2>0, <3>1
  <2>2. \A k \in 0 .. s - 1 : Slice(zeroed, t + d, s)[k] = zeroed[(t + d) + k]
    BY DEF Slice
  <2>3. ASSUME NEW k \in 0 .. t + n - 1, t + w <= k /\ k < t + w + s
        PROVE  moved[k] = zeroed[t + d + (k - (t + w))]
    <3>1. k - (t + w) \in 0 .. s - 1
      BY <2>3
    <3> QED BY <2>1, <2>2, <3>1
  <2>4. ASSUME NEW k \in 0 .. t + n - 1, ~(t + w <= k /\ k < t + w + s)
        PROVE  moved[k] = zeroed[k]
    BY <2>1, <2>4
  <2> QED BY <2>1, <2>3, <2>4
<1>3. \A k \in 0 .. n - 1 : t + k \in 0 .. t + n - 1 /\ bytes[t + k] = cells[k]
  BY <1>00 DEF Holds
<1>4. \A k \in 0 .. n - 1 : zeroed[t + k] = IF w + s <= k /\ k < w + s + z THEN 0 ELSE cells[k]
  <2> TAKE k \in 0 .. n - 1
  <2>1. t + k \in 0 .. t + n - 1 /\ bytes[t + k] = cells[k]
    BY <1>3
  <2>2. zeroed[t + k] = IF t + w + s <= t + k /\ t + k < t + w + s + z THEN 0 ELSE bytes[t + k]
    BY <1>1, <2>1
  <2>3. (t + w + s <= t + k <=> w + s <= k) /\ (t + k < t + w + s + z <=> k < w + s + z)
    OBVIOUS
  <2> QED BY <2>1, <2>2, <2>3
<1>5. ASSUME NEW k \in 0 .. n - 1
      PROVE  moved[t + k] = IF w <= k /\ k < w + s THEN cells[d + (k - w)]
                            ELSE IF w + s <= k /\ k < w + s + z THEN 0 ELSE cells[k]
  <2>1. CASE w <= k /\ k < w + s
    <3>1. PICK l \in 0 .. n - 1 : l = d + (k - w) /\ l < w + s
      BY <1>00, <2>1
    <3>2. t + d + ((t + k) - (t + w)) = t + l /\ t + w <= t + k /\ t + k < t + w + s
      BY <2>1, <3>1
    <3>3. moved[t + k] = zeroed[t + l]
      BY <1>2, <1>3, <3>2
    <3>4. zeroed[t + l] = cells[l]
      BY <1>4, <3>1
    <3> QED BY <2>1, <3>1, <3>3, <3>4
  <2>2. CASE ~(w <= k /\ k < w + s)
    <3>1. moved[t + k] = zeroed[t + k]
      BY <1>2, <1>3, <2>2
    <3> QED BY <1>4, <2>2, <3>1
  <2> QED BY <2>1, <2>2
<1>6. \A k \in 0 .. t - 1 : moved[k] = bytes[k]
  <2> TAKE k \in 0 .. t - 1
  <2>1. k \in 0 .. t + n - 1 /\ ~(t + w <= k) /\ ~(t + w + s <= k)
    OBVIOUS
  <2> QED BY <1>1, <1>2, <2>1
<1> QED BY <1>0, <1>2, <1>5, <1>6 DEF SameHeader, SpreadCells

\* What is behind the first check of a base with basic compression.
LEMMA BasicFacts ==
  ASSUME MadeInv, PatcherInv, step \in Keyed, base[Compression] = Basic
  PROVE  /\ patch.targetSize \in Nat /\ patch.newSize \in Nat /\ patch.targetSize >= 6
         /\ DOMAIN out = 0 .. patch.targetSize + patch.newSize - 1
         /\ \A k \in 0 .. patch.newSize - 1 : Packing[k] = IF k < Size(made.body) THEN made.body[k] ELSE 0
         /\ \A k \in 0 .. patch.newSize - 1 : Image[k] = IF k < Size(made.image) THEN made.image[k] ELSE 0
         /\ Size(made.body) <= Size(made.image) /\ base[ImageSize] = Size(made.image)
         /\ baseFrame.magic = "XEX2" /\ ~patch.none
<1>1. step \in Copied /\ step \in Checked
  BY DEF Keyed, Copied, Prepared, Checked
<1>2. baseFrame.magic = "XEX2" /\ ~patch.none
  BY <1>1, Valid
<1>3. patch.targetSize \in Nat /\ patch.newSize \in Nat /\ BodySize = Size(made.body) /\ base[ImageSize] = Size(made.image)
  BY <1>1, Sizes
<1>4. Size(made.image) \in Nat /\ DOMAIN made.image = 0 .. Size(made.image) - 1
  BY <1>2, BaseFacts
<1>5. \A k \in 0 .. patch.newSize - 1 : Packing[k] = IF k < Size(made.body) THEN made.body[k] ELSE 0
  BY <1>3 DEF Packing
<1>6. \A k \in 0 .. patch.newSize - 1 : Image[k] = IF k < Size(made.image) THEN made.image[k] ELSE 0
  BY <1>3, <1>4 DEF Image, Resized
<1>7. Size(made.body) <= Size(made.image)
  <2>1. base[Info] \in 0 .. base[Info] /\ DataTotal(base[Info]) = Size(made.body)
    BY <1>2, BlockFacts
  <2>2. DataTotal(base[Info]) <= WholeTotal(base[Info]) /\ WholeTotal(base[Info]) = Size(made.image)
    BY <1>2, <2>1, BlockFacts
  <2> QED BY <2>1, <2>2
<1> QED BY <1>1, <1>2, <1>3, <1>5, <1>6, <1>7 DEF PatcherInv, FieldsEnd

\* What the body becomes is a matter of the files.
LEMMA SameBody ==
  ASSUME UNCHANGED <<base, baseFrame, patch, made>>, NEW n
  PROVE  /\ Packing' = Packing /\ Image' = Image
         /\ DataTotal(n)' = DataTotal(n) /\ WholeTotal(n)' = WholeTotal(n) /\ Moving(n)' = Moving(n)
<1>1. Packing' = Packing
  BY SameFiles DEF Packing
<1>2. Image' = Image
  BY DEF Image, Resized
<1>3. DataTotal(n)' = DataTotal(n)
  BY DEF DataTotal
<1>4. WholeTotal(n)' = WholeTotal(n)
  BY DEF WholeTotal
<1>5. Moving(n)' = Moving(n)
  BY <1>1, <1>2, <1>4 DEF Moving
<1> QED BY <1>1, <1>2, <1>3, <1>4, <1>5

\* At the start all blocks are still to be moved.
LEMMA BasicStarted ==
  ASSUME MadeInv, PatcherInv, BodyInv, UNCHANGED <<base, baseFrame, patch, made>>, StartBasic
  PROVE  PatcherInv' /\ BodyInv'
<1> DEFINE t == patch.targetSize
           n == patch.newSize
<1>0. PICK m : m = base[Info]
  OBVIOUS
<1>1. step = "decompress" /\ step \in Copied /\ step \in Prepared /\ step \in Keyed /\ base[Compression] = Basic
  BY DEF StartBasic, Copied, Prepared, Keyed
<1>2. /\ t \in Nat /\ n \in Nat /\ DOMAIN out = 0 .. t + n - 1 /\ base[ImageSize] = Size(made.image)
      /\ baseFrame.magic = "XEX2" /\ ~patch.none
  BY <1>1, BasicFacts
<1>3. Size(out) = t + n
  <2>1. PICK l \in Nat : l = t + n
    BY <1>2
  <2>2. DOMAIN out = 0 .. l - 1
    BY <1>2, <2>1
  <2> QED BY <2>1, <2>2, SizeOf
<1>4. m \in Nat /\ WholeTotal(m) = Size(made.image) /\ Size(made.image) \in Nat
  BY <1>0, <1>1, <1>2, BlockFacts, BaseFacts
<1>5. CASE n < WholeTotal(m)
  <2>1. step' \in Refusals
    <3>1. Size(out) < t + Total(WholeSizes(base), m)
      BY <1>2, <1>3, <1>4, <1>5 DEF WholeTotal
    <3> QED BY <1>0, <3>1 DEF StartBasic, GiveUp, Refusals
  <2>2. ~Fits
    BY <1>2, <1>4, <1>5 DEF Fits
  <2>3. PatcherInv'
    BY <1>2, <2>1, <2>2, GaveUp
  <2> QED BY <2>1, <2>3 DEF BodyInv, Refusals
<1>6. CASE ~(n < WholeTotal(m))
  <2>1. step' = "basic" /\ i' = m /\ src' = t + DataTotal(m) /\ dst' = t + WholeTotal(m) /\ out' = out
    <3>1. ~(Size(out) < t + Total(WholeSizes(base), m))
      BY <1>2, <1>3, <1>4, <1>6 DEF WholeTotal
    <3> QED BY <1>0, <3>1 DEF StartBasic, DataTotal, WholeTotal
  <2>2. PatcherInv'
    <3>1. n >= base[ImageSize] /\ m \in 0 .. base[Info]
      BY <1>0, <1>2, <1>4, <1>6
    <3> QED BY <1>1, <2>1, <3>1, HeaderKept, StillPrepared, SameFiles
            DEF PatcherInv, Refusals, Steps, Keyed, Copied, Prepared, Checked, Plainly
  <2>3. BodyIs(Packing)
    BY <1>1 DEF BodyInv
  <2>4. \A k \in 0 .. n - 1 : Moving(m)[k] = Packing[k]
    <3> TAKE k \in 0 .. n - 1
    <3>1. Moving(m)[k] = IF k < WholeTotal(m) THEN Packing[k] ELSE Image[k]
      BY DEF Moving
    <3>2. Size(made.body) <= Size(made.image) /\ Size(made.body) \in Nat
      BY <1>1, <1>2, BasicFacts, BaseFacts
    <3>3. k >= Size(made.image) => Packing[k] = 0 /\ Image[k] = 0
      BY <1>1, <1>4, <3>2, BasicFacts
    <3> QED BY <1>4, <3>1, <3>3
  <2>5. UNCHANGED Moving(m)
    BY SameBody
  <2>6. BodyIs(Moving(i))'
    <3>1. \A k \in 0 .. n - 1 : out'[t + k] = Moving(m)'[k]
      BY <2>1, <2>3, <2>4, <2>5 DEF BodyIs
    <3> QED BY <2>1, <3>1 DEF BodyIs
  <2>7. src' = patch'.targetSize + DataTotal(i)' /\ dst' = patch'.targetSize + WholeTotal(i)'
    <3>1. DataTotal(m)' = DataTotal(m) /\ WholeTotal(m)' = WholeTotal(m)
      BY SameBody
    <3>2. DataTotal(i)' = DataTotal(m)' /\ WholeTotal(i)' = WholeTotal(m)'
      BY <2>1
    <3> QED BY <2>1, <3>1, <3>2
  <2> QED BY <2>1, <2>2, <2>6, <2>7 DEF BodyInv
<1> QED BY <1>5, <1>6

\* Blocks are moved apart from the last to the first, and none is lost.
LEMMA BlockMoved ==
  ASSUME MadeInv, PatcherInv, BodyInv, UNCHANGED <<base, baseFrame, patch, made>>, MoveBlock
  PROVE  PatcherInv' /\ BodyInv'
<1>0. PICK t, n, m, l : t = patch.targetSize /\ n = patch.newSize /\ m = i /\ l = i - 1
  OBVIOUS
<1>1. /\ step = "basic" /\ step \in Copied /\ step \in Prepared /\ step \in Keyed /\ base[Compression] = Basic
      /\ n >= base[ImageSize] /\ i \in 0 .. base[Info] /\ i > 0 /\ step' = "basic" /\ i' = i - 1
  BY <1>0 DEF MoveBlock, Copied, Prepared, Keyed, PatcherInv
<1>2. /\ t \in Nat /\ n \in Nat /\ DOMAIN out = 0 .. t + n - 1 /\ t >= 6 /\ n >= Size(made.image)
      /\ \A k \in 0 .. n - 1 : Packing[k] = IF k < Size(made.body) THEN made.body[k] ELSE 0
      /\ \A k \in 0 .. n - 1 : Image[k] = IF k < Size(made.image) THEN made.image[k] ELSE 0
      /\ baseFrame.magic = "XEX2" /\ ~patch.none
  BY <1>0, <1>1, BasicFacts
<1>3. base[Info] \in Nat
  BY <1>1, <1>2, BlockFacts
<1>4. m \in 1 .. base[Info] /\ m \in 0 .. base[Info] /\ l \in 0 .. base[Info] /\ l = m - 1 /\ i' = l
  BY <1>0, <1>1, <1>3
<1>5. PICK d, w, s, z : d = DataTotal(l) /\ w = WholeTotal(l) /\ s = DataSize(base, m) /\ z = ZeroSize(base, m)
  OBVIOUS
<1>6. /\ d \in Nat /\ w \in Nat /\ s \in Nat /\ z \in Nat /\ d <= w
      /\ DataTotal(m) = d + s /\ WholeTotal(m) = w + s + z
      /\ d + s <= Size(made.body) /\ w + s + z <= Size(made.image)
      /\ \A k \in 0 .. s - 1 : made.body[d + k] = made.image[w + k]
      /\ \A k \in s .. s + z - 1 : made.image[w + k] = 0
  <2>1. /\ DataTotal(l) \in Nat /\ WholeTotal(l) \in Nat /\ DataTotal(l) <= WholeTotal(l)
        /\ DataTotal(m) <= Size(made.body) /\ WholeTotal(m) <= Size(made.image)
        /\ DataSize(base, m) \in Nat /\ ZeroSize(base, m) \in Nat
    BY <1>1, <1>2, <1>4, BlockFacts
  <2>2. DataTotal(m) = DataTotal(m - 1) + DataSize(base, m)
        /\ WholeTotal(m) = WholeTotal(m - 1) + DataSize(base, m) + ZeroSize(base, m)
    BY <1>1, <1>2, <1>4, BlockFacts
  <2>3. /\ \A k \in 0 .. DataSize(base, m) - 1 : made.body[DataTotal(m - 1) + k] = made.image[WholeTotal(m - 1) + k]
        /\ \A k \in DataSize(base, m) .. DataSize(base, m) + ZeroSize(base, m) - 1 :
             made.image[WholeTotal(m - 1) + k] = 0
    BY <1>1, <1>2, <1>4, BlockFacts
  <2> QED BY <1>4, <1>5, <2>1, <2>2, <2>3
<1>7. w + s + z <= n
  <2>1. Size(made.image) \in Nat
    BY <1>2, BaseFacts
  <2> QED BY <1>2, <1>6, <2>1
<1>8. src = t + (d + s) /\ dst = t + (w + s + z)
  BY <1>0, <1>1, <1>6 DEF BodyInv
<1>9. dst - z = t + w + s /\ dst' = t + w /\ src' = t + d
  <2>1. dst' = dst - z - s /\ src' = src - s
    BY <1>0, <1>5 DEF MoveBlock
  <2> QED BY <1>2, <1>6, <1>8, <2>1
<1> DEFINE zeroed == Overlay(out, t + w + s, Zeros(z))
<1>10. out' = Overlay(zeroed, t + w, Slice(zeroed, t + d, s))
  BY <1>0, <1>5, <1>9 DEF MoveBlock
<1> DEFINE cells == [k \in 0 .. n - 1 |-> IF k < w + s + z THEN Packing[k] ELSE Image[k]]
<1>11. Holds(out, t, n, cells)
  <2>1. BodyIs(Moving(m))
    BY <1>0, <1>1 DEF BodyInv
  <2>2. Moving(m) = cells
    BY <1>0, <1>6 DEF Moving
  <2> QED BY <1>0, <1>2, <2>1, <2>2 DEF Holds, BodyIs
<1>12. \A k \in 0 .. n - 1 : cells[k] = IF k < w + s + z THEN Packing[k] ELSE Image[k]
  OBVIOUS
<1> HIDE DEF cells, zeroed
<1>13. /\ DOMAIN out' = 0 .. t + n - 1 /\ SameHeader(out', out, t)
       /\ \A k \in 0 .. n - 1 : out'[t + k] = IF w <= k /\ k < w + s THEN cells[d + (k - w)]
                                             ELSE IF w + s <= k /\ k < w + s + z THEN 0 ELSE cells[k]
  <2>1. t \in Nat /\ n \in Nat /\ d \in Nat /\ w \in Nat /\ s \in Nat /\ z \in Nat /\ d <= w
    BY <1>2, <1>6
  <2>2. Spreadable(out, t, n, cells, d, w, s, z)
    BY <1>7, <1>11, <2>1 DEF Spreadable
  <2>3. SpreadCells(Spread(out, t, d, w, s, z), out, t, n, cells, d, w, s, z)
    BY <2>1, <2>2, BlockSpread
  <2>4. out' = Spread(out, t, d, w, s, z)
    BY <1>10 DEF Spread, zeroed
  <2> QED BY <2>3, <2>4 DEF SpreadCells
<1>14. ASSUME NEW k \in 0 .. n - 1
       PROVE  out'[t + k] = IF k < w THEN Packing[k] ELSE Image[k]
  <2>1. CASE k < w
    <3>1. out'[t + k] = cells[k] /\ k < w + s + z
      BY <1>6, <1>13, <2>1
    <3> QED BY <1>12, <2>1, <3>1
  <2>2. CASE w <= k /\ k < w + s
    <3>1. PICK q \in 0 .. s - 1 : q = k - w
      BY <1>6, <2>2
    <3>2. d + q \in 0 .. n - 1 /\ d + q < w + s + z /\ d + q < Size(made.body) /\ k < Size(made.image) /\ k = w + q
      <4>1. Size(made.image) \in Nat /\ Size(made.body) \in Nat
        BY <1>2, BaseFacts
      <4> QED BY <1>2, <1>6, <2>2, <3>1, <4>1
    <3>3. out'[t + k] = cells[d + q]
      BY <1>13, <2>2, <3>1
    <3>4. cells[d + q] = Packing[d + q] /\ Packing[d + q] = made.body[d + q]
      BY <1>2, <1>12, <3>2
    <3>5. Image[k] = made.image[w + q]
      BY <1>2, <3>2
    <3>6. made.body[d + q] = made.image[w + q]
      BY <1>6, <3>1
    <3>7. ~(k < w)
      BY <1>6, <2>2
    <3> QED BY <3>3, <3>4, <3>5, <3>6, <3>7
  <2>3. CASE w + s <= k /\ k < w + s + z
    <3>1. PICK q \in s .. s + z - 1 : q = k - w
      BY <1>6, <2>3
    <3>2. k < Size(made.image) /\ k = w + q /\ ~(k < w) /\ ~(k < w + s)
      <4>1. Size(made.image) \in Nat
        BY <1>2, BaseFacts
      <4> QED BY <1>6, <2>3, <3>1, <4>1
    <3>3. out'[t + k] = 0
      BY <1>13, <2>3, <3>2
    <3>4. Image[k] = made.image[w + q]
      BY <1>2, <3>2
    <3>5. made.image[w + q] = 0
      BY <1>6, <3>1
    <3> QED BY <3>2, <3>3, <3>4, <3>5
  <2>4. CASE w + s + z <= k
    <3>1. ~(k < w) /\ ~(k < w + s) /\ ~(k < w + s + z)
      BY <1>6, <2>4
    <3> QED BY <1>12, <1>13, <3>1
  <2> QED BY <1>6, <2>1, <2>2, <2>3, <2>4
<1>15. BodyIs(Moving(i))'
  <2>1. /\ Moving(l)' = Moving(l)
        /\ \A k \in 0 .. n - 1 : Moving(l)[k] = IF k < w THEN Packing[k] ELSE Image[k]
    BY <1>0, <1>5, SameBody DEF Moving
  <2>2. \A k \in 0 .. n - 1 : out'[t + k] = Moving(l)'[k]
    BY <1>14, <2>1
  <2> QED BY <1>0, <1>4, <2>2 DEF BodyIs
<1>16. src' = patch'.targetSize + DataTotal(i)' /\ dst' = patch'.targetSize + WholeTotal(i)'
  <2>1. DataTotal(l)' = DataTotal(l) /\ WholeTotal(l)' = WholeTotal(l)
    BY SameBody
  <2>2. DataTotal(i)' = DataTotal(l)' /\ WholeTotal(i)' = WholeTotal(l)'
    BY <1>4
  <2> QED BY <1>0, <1>5, <1>9, <2>1, <2>2
<1>17. PatcherInv'
  <2>1. DOMAIN out' = DOMAIN out /\ \A k \in 0 .. 2 : out'[k] = out[k]
    BY <1>2, <1>13 DEF SameHeader
  <2>2. base'[Compression] = Basic /\ i' \in 0 .. base'[Info] /\ patch'.newSize >= base'[ImageSize]
    BY <1>0, <1>1, <1>4
  <2> QED BY <1>1, <2>1, <2>2, HeaderKept, StillPrepared, SameFiles
          DEF PatcherInv, Refusals, Steps, Keyed, Copied, Prepared, Checked, Plainly
<1> QED BY <1>1, <1>15, <1>16, <1>17 DEF BodyInv

----------------------------------------------------------------------------
\* The image is there.

\* At the end the body is the image.
LEMMA BasicFinished ==
  ASSUME MadeInv, PatcherInv, BodyInv, UNCHANGED <<base, baseFrame, patch, made>>, BasicDone
  PROVE  PatcherInv' /\ BodyInv' /\ ContentInv'
<1>1. /\ step = "basic" /\ step \in Copied /\ step \in Prepared /\ step \in Keyed /\ base[Compression] = Basic
      /\ i = 0 /\ step' = "format" /\ UNCHANGED <<out, i>> /\ patch.newSize >= base[ImageSize]
  BY DEF BasicDone, Copied, Prepared, Keyed, PatcherInv
<1>2. PatcherInv'
  BY <1>1, HeaderKept, StillPrepared, SameFiles
     DEF PatcherInv, Refusals, Steps, Keyed, Copied, Prepared, Checked, Plainly, Basic, Delta
<1>3. BodyIs(Image)'
  <2>1. BodyIs(Image)
    <3>1. BodyIs(Moving(0))
      BY <1>1 DEF BodyInv
    <3>2. WholeTotal(0) = 0
      BY <1>1, BasicFacts, BlockFacts
    <3>3. \A k \in 0 .. patch.newSize - 1 : Moving(0)[k] = Image[k]
      BY <3>2 DEF Moving
    <3> QED BY <3>1, <3>3 DEF BodyIs
  <2> QED BY <1>1, <2>1, SameBody DEF BodyIs
<1> QED BY <1>1, <1>2, <1>3 DEF BodyInv, ContentInv

\* What the walk of either program is about.
LEMMA ChainFacts ==
  ASSUME MadeInv, baseFrame.magic = "XEX2", base[Compression] = Lzx
  PROVE  Chained
BY BaseFacts DEF Chained, BaseMade

\* The walk starts at the body.
LEMMA LzxStarted ==
  ASSUME MadeInv, PatcherInv, BodyInv, UNCHANGED <<base, baseFrame, patch, made>>, StartLzx
  PROVE  PatcherInv' /\ BodyInv'
<1>0. PICK t : t = patch.targetSize
  OBVIOUS
<1>1. /\ step = "decompress" /\ step \in Copied /\ step \in Prepared /\ step \in Keyed /\ step \in Checked
      /\ base[Compression] = Lzx
      /\ step' = "lzx" /\ UNCHANGED out /\ walk' = WalkFrom(t, base[Info])
  BY <1>0 DEF StartLzx, Copied, Prepared, Keyed, Checked
<1>2. PatcherInv'
  BY <1>1, HeaderKept, StillPrepared, SameFiles
     DEF PatcherInv, Refusals, Steps, Keyed, Copied, Prepared, Checked, Plainly
<1>3. BodyIs(Packing)'
  <2>1. BodyIs(Packing)
    BY <1>1 DEF BodyInv
  <2> QED BY <1>1, <2>1, SameBody DEF BodyIs
<1>4. baseFrame.magic = "XEX2" /\ t \in Nat
  BY <1>0, <1>1, Valid, Sizes
<1>5. Chained /\ base = made.bytes
  BY <1>1, <1>4, ChainFacts, BaseFacts
<1>6. Walking(WalkFrom(t, base[Info]), t)
  BY <1>4, <1>5, WalkStarted
<1>7. Walking(walk, patch.targetSize)'
  BY <1>0, <1>1, <1>6 DEF Walking, AtPart, AtEnd, Gathers, IsWalk, Packs
<1> QED BY <1>1, <1>2, <1>3, <1>7 DEF BodyInv

\* What the walk is about: the body of a file with normal compression.
LEMMA LzxFacts ==
  ASSUME MadeInv, PatcherInv, BodyInv, step = "lzx"
  PROVE  /\ ~patch.none /\ patch.targetSize \in Nat /\ BodySize = Size(made.body) /\ Chained
         /\ Walking(walk, patch.targetSize) /\ HoldsBody(out, patch.targetSize)
<1>1. step \in Checked /\ base[Compression] = Lzx /\ patch.newSize >= BodySize
  BY DEF PatcherInv, Checked, Prepared, Copied, Keyed
<1>2. /\ ~patch.none /\ baseFrame.magic = "XEX2" /\ patch.targetSize \in Nat /\ patch.newSize \in Nat
      /\ BodySize = Size(made.body)
  BY <1>1, Valid, Sizes
<1>3. BodyIs(Packing) /\ Walking(walk, patch.targetSize)
  BY DEF BodyInv
<1>4. Chained /\ Size(made.body) \in Nat /\ DOMAIN made.body = 0 .. Size(made.body) - 1
  BY <1>1, <1>2, ChainFacts, BaseFacts
<1>5. \A k \in DOMAIN made.body : out[patch.targetSize + k] = made.body[k]
  <2> TAKE k \in DOMAIN made.body
  <2>1. k \in 0 .. patch.newSize - 1 /\ k < BodySize
    BY <1>1, <1>2, <1>4
  <2>2. out[patch.targetSize + k] = Packing[k]
    BY <1>3, <2>1 DEF BodyIs
  <2>3. Packing[k] = made.body[k]
    BY <2>1 DEF Packing
  <2> QED BY <2>2, <2>3
<1> QED BY <1>2, <1>3, <1>4, <1>5 DEF HoldsBody

\* It goes on in the body as it was decrypted.
LEMMA Walked ==
  ASSUME MadeInv, PatcherInv, BodyInv, UNCHANGED <<base, baseFrame, patch, made>>, WalkBlocks
  PROVE  PatcherInv' /\ BodyInv'
<1>0. PICK t : t = patch.targetSize
  OBVIOUS
<1>1. step = "lzx" /\ step \in Copied /\ step \in Prepared /\ step \in Keyed
  BY DEF WalkBlocks, Copied, Prepared, Keyed
<1>2. /\ ~patch.none /\ t \in Nat /\ BodySize = Size(made.body) /\ Chained
      /\ Walking(walk, t) /\ HoldsBody(out, t)
  BY <1>0, <1>1, LzxFacts
<1>3. PICK w : w = walk'
  OBVIOUS
<1>4. step' = "lzx" /\ UNCHANGED out /\ Walking(w, t)
  <2>1. CASE walk.inBlock
    <3>1. walk' = ChunkCopied(out, walk) /\ UNCHANGED <<step, out>>
      BY <2>1 DEF WalkBlocks
    <3>2. Walking(ChunkCopied(out, walk), t)
      BY <1>2, <2>1, WalkCopied
    <3> QED BY <1>1, <1>3, <3>1, <3>2
  <2>2. CASE ~walk.inBlock
    <3>1. walk.size # 0
      BY <2>2 DEF WalkBlocks
    <3>2. BlockFits(out, patch.targetSize + BodySize, walk)
      BY <1>0, <1>2, <2>2, <3>1, WalkFits
    <3>3. walk' = BlockOpened(out, walk) /\ UNCHANGED <<step, out>>
      BY <2>2, <3>2 DEF WalkBlocks
    <3>4. Walking(BlockOpened(out, walk), t)
      BY <1>2, <2>2, <3>1, WalkOpened
    <3> QED BY <1>1, <1>3, <3>3, <3>4
  <2> QED BY <2>1, <2>2
<1>5. PatcherInv'
  BY <1>1, <1>4, HeaderKept, StillPrepared, SameFiles
     DEF PatcherInv, Refusals, Steps, Keyed, Copied, Prepared, Checked, Plainly
<1>6. BodyIs(Packing)'
  <2>1. BodyIs(Packing)
    BY <1>1 DEF BodyInv
  <2> QED BY <1>4, <2>1, SameBody DEF BodyIs
<1>7. Walking(walk, patch.targetSize)'
  BY <1>0, <1>3, <1>4 DEF Walking, AtPart, AtEnd, Gathers, IsWalk, Packs
<1> QED BY <1>4, <1>5, <1>6, <1>7 DEF BodyInv


\* The image is written where it is looked for, unless the header is shorter, and
\* only in a file that is too short behind its end.
LEMMA LzxFinished ==
  ASSUME MadeInv, PatcherInv, BodyInv, UNCHANGED <<base, baseFrame, patch, made>>, LzxDone
  PROVE  PatcherInv' /\ BodyInv' /\ ContentInv'
<1>0. PICK t, n, h, m, b, at : /\ t = patch.targetSize /\ n = patch.newSize /\ h = OldHeaderSize
                               /\ m = Size(made.image) /\ b = BodySize /\ at = ImageAt
  OBVIOUS
<1>1. /\ step = "lzx" /\ step \in Copied /\ step \in Prepared /\ step \in Keyed /\ step \in Checked
      /\ base[Compression] = Lzx
  BY DEF LzxDone, Copied, Prepared, Keyed, Checked, PatcherInv
<1>2. ~patch.none /\ Walking(walk, t) /\ ~walk.inBlock /\ walk.size = 0 /\ Chained
  BY <1>0, <1>1, LzxFacts DEF LzxDone
<1>3. /\ t \in Nat /\ n \in Nat /\ t >= 6 /\ DOMAIN out = 0 .. t + n - 1
      /\ h \in Nat /\ m \in Nat /\ b \in Nat /\ base[ImageSize] = m
  BY <1>0, <1>1, Sizes DEF PatcherInv, FieldsEnd
<1>4. at \in Nat /\ at >= t /\ (t >= h => at = t)
  BY <1>0, <1>3 DEF ImageAt, Larger
<1>5. CASE step' # "format"
  <2>1. Overruns /\ step' \in {"crashed", "PatchFailed"}
    BY <1>5 DEF LzxDone, GiveUp
  <2>2. Size(out) = t + n
    <3>1. PICK l \in Nat : l = t + n
      BY <1>3
    <3> QED BY <1>3, <3>1, SizeOf
  <2>3. ShorterFile
    <3>1. at + m > t + n
      BY <1>0, <1>3, <2>1, <2>2 DEF Overruns
    <3> QED BY <1>0, <1>1, <1>2, <1>3, <3>1 DEF ShorterFile
  <2>4. step' \in Refusals \cup {"crashed"}
    BY <2>1 DEF Refusals
  <2>5. PatcherInv'
    BY <1>2, <2>3, <2>4, GaveUp
  <2> QED BY <2>1, <2>5 DEF BodyInv, ContentInv
<1>6. CASE step' = "format"
  <2>1. out' = Overlay(out, at, Expanded(Gathered(walk), base[ImageSize]))
    BY <1>0, <1>6 DEF LzxDone, GiveUp
  <2>2. Expanded(Gathered(walk), base[ImageSize]) = made.image
    BY <1>0, <1>2, <1>3, WalkExpands
  <2>3. DOMAIN made.image = 0 .. m - 1
    BY <1>0, <1>1, Valid, BaseFacts
  <2>4. out' = [k \in 0 .. t + n - 1 |-> IF k - at \in 0 .. m - 1 THEN made.image[k - at] ELSE out[k]]
    BY <1>3, <2>1, <2>2, <2>3 DEF Overlay
  <2>5. DOMAIN out' = DOMAIN out /\ \A k \in 0 .. 2 : out'[k] = out[k]
    BY <1>3, <1>4, <2>4
  <2>6. PatcherInv'
    BY <1>1, <1>6, <2>5, HeaderKept, StillPrepared, SameFiles
       DEF PatcherInv, Refusals, Steps, Keyed, Copied, Prepared, Checked, Plainly, Basic, Lzx, Delta
  <2>7. ASSUME ~ShorterHeader, ~LongerBody
        PROVE  BodyIs(Image)'
    <3>1. at = t
      BY <1>0, <1>1, <1>2, <1>3, <1>4, <2>7 DEF ShorterHeader
    <3>2. ~(m < b /\ m < n)
      BY <1>0, <1>1, <1>2, <1>3, <2>7 DEF LongerBody
    <3>3. ASSUME NEW k \in 0 .. n - 1
          PROVE  out'[t + k] = Image[k]
      <4>1. Image[k] = IF k < m THEN made.image[k] ELSE 0
        BY <1>0, <1>3, <2>3 DEF Image, Resized
      <4>2. t + k \in 0 .. t + n - 1 /\ (t + k) - t = k
        BY <1>3
      <4>3. out'[t + k] = IF k \in 0 .. m - 1 THEN made.image[k] ELSE out[t + k]
        BY <2>4, <3>1, <4>2
      <4>4. ~(k < m) => out[t + k] = 0
        <5>1. BodyIs(Packing)
          BY <1>1 DEF BodyInv
        <5>2. out[t + k] = Packing[k]
          BY <1>0, <5>1 DEF BodyIs
        <5>3. ~(k < m) => ~(k < b)
          BY <1>3, <3>2
        <5>4. Packing[k] = IF k < b THEN made.body[k] ELSE 0
          BY <1>0 DEF Packing
        <5> QED BY <5>2, <5>3, <5>4
      <4> QED BY <1>3, <4>1, <4>3, <4>4
    <3> QED BY <1>0, <3>3, SameBody DEF BodyIs
  <2> QED BY <1>6, <2>6, <2>7, SameFiles DEF BodyInv, ContentInv
<1> QED BY <1>5, <1>6

\* Without compression the body is the image.
LEMMA PlainFinished ==
  ASSUME MadeInv, PatcherInv, BodyInv, UNCHANGED <<base, baseFrame, patch, made>>, Uncompressed
  PROVE  PatcherInv' /\ BodyInv' /\ ContentInv'
<1>1. /\ step = "decompress" /\ step \in Copied /\ step \in Prepared /\ step \in Keyed /\ step \in Checked /\ ~patch.none
      /\ base[Compression] \notin {Basic, Lzx}
  BY DEF Uncompressed, Copied, Prepared, Keyed, Checked, PatcherInv
<1>2. CASE base[Compression] = Delta
  <2>1. step' \in Refusals
    BY <1>2 DEF Uncompressed, GiveUp, Refusals
  <2>2. ~Fits
    BY <1>2 DEF Fits, Suitable
  <2>3. PatcherInv'
    BY <1>1, <2>1, <2>2, GaveUp
  <2> QED BY <2>1, <2>3 DEF BodyInv, ContentInv, Refusals
<1>3. CASE base[Compression] # Delta
  <2>1. step' = "format" /\ UNCHANGED out
    BY <1>3 DEF Uncompressed
  <2>2. PatcherInv'
    BY <1>1, <1>3, <2>1, HeaderKept, StillPrepared, SameFiles
       DEF PatcherInv, Refusals, Steps, Keyed, Copied, Prepared, Checked, Plainly
  <2>3. /\ made.body = made.image /\ BodySize = Size(made.image) /\ Size(made.image) \in Nat
        /\ DOMAIN made.image = 0 .. Size(made.image) - 1
    BY <1>1, Valid, BaseFacts
  <2>4. BodyIs(Packing)
    BY <1>1 DEF BodyInv
  <2>5. \A k \in 0 .. patch.newSize - 1 : Packing[k] = Image[k]
    BY <2>3 DEF Packing, Image, Resized
  <2>6. BodyIs(Image)'
    BY <2>1, <2>4, <2>5, SameBody DEF BodyIs
  <2> QED BY <2>1, <2>2, <2>6 DEF BodyInv, ContentInv
<1> QED BY <1>2, <1>3

----------------------------------------------------------------------------
\* The entries of the update, in turn.

Grown == Resized(made.image, patch.newSize)
Shifted ==
  LET d == patch.image
  IN IF d.sourceOffset > 0 THEN Overlay(Grown, d.targetOffset, Slice(Grown, d.sourceOffset, d.sourceSize)) ELSE Grown

AreSteps(f, N, first, entries) == f = [n \in 0 .. N |-> IF n = 0 THEN first ELSE After(f[n - 1], entries[n])]

\* Up to every entry there is what the entries before it make of the image.
LEMMA StepsUpTo ==
  ASSUME NEW N \in Nat, NEW first, NEW entries
  PROVE  \E f : AreSteps(f, N, first, entries)
<1> DEFINE S == {n \in Nat : \E f : AreSteps(f, n, first, entries)}
<1>1. 0 \in S
  <2> DEFINE f == [n \in 0 .. 0 |-> first]
  <2>1. \A n \in 0 .. 0 : f[n] = IF n = 0 THEN first ELSE After(f[n - 1], entries[n])
    OBVIOUS
  <2>2. f = [n \in 0 .. 0 |-> IF n = 0 THEN first ELSE After(f[n - 1], entries[n])]
    BY <2>1
  <2> HIDE DEF f
  <2>3. AreSteps(f, 0, first, entries)
    BY <2>2 DEF AreSteps
  <2> QED BY <2>3
<1>2. ASSUME NEW m \in 1 .. N, m - 1 \in S
      PROVE  m \in S
  <2>1. PICK f : f = [n \in 0 .. m - 1 |-> IF n = 0 THEN first ELSE After(f[n - 1], entries[n])]
    BY <1>2 DEF AreSteps
  <2> DEFINE g == [n \in 0 .. m |-> IF n = m THEN After(f[m - 1], entries[m]) ELSE f[n]]
  <2>2. \A n \in 0 .. m - 1 : g[n] = f[n]
    OBVIOUS
  <2>3. g[m] = After(f[m - 1], entries[m])
    OBVIOUS
  <2>4. g = [n \in 0 .. m |-> g[n]]
    OBVIOUS
  <2> HIDE DEF g
  <2>5. ASSUME NEW n \in 0 .. m
        PROVE  g[n] = IF n = 0 THEN first ELSE After(g[n - 1], entries[n])
    <3>1. CASE n = 0
      <4>1. f[0] = first
        BY <2>1
      <4> QED BY <2>2, <3>1, <4>1
    <3>2. CASE n \in 1 .. m - 1
      <4>1. f[n] = After(f[n - 1], entries[n])
        BY <2>1, <3>2
      <4>2. g[n] = f[n] /\ g[n - 1] = f[n - 1]
        BY <2>2, <3>2
      <4> QED BY <3>2, <4>1, <4>2
    <3>3. CASE n = m
      <4>1. n # 0 /\ g[m - 1] = f[m - 1]
        BY <2>2, <3>3
      <4> QED BY <2>3, <3>3, <4>1
    <3> QED BY <3>1, <3>2, <3>3
  <2>6. g = [n \in 0 .. m |-> IF n = 0 THEN first ELSE After(g[n - 1], entries[n])]
    BY <2>4, <2>5
  <2>7. AreSteps(g, m, first, entries)
    BY <2>6 DEF AreSteps
  <2> QED BY <2>7
<1> HIDE DEF S
<1>3. N \in S
  BY <1>1, <1>2, Upwards
<1> QED BY <1>3 DEF S

\* The images between the entries of the update, each made of the one before.
LEMMA StepsFacts ==
  ASSUME MadeInv, ~patch.none
  PROVE  /\ UpdateSteps[0] = Shifted
         /\ \A n \in 1 .. Len(patch.entries) : UpdateSteps[n] = After(UpdateSteps[n - 1], patch.entries[n])
<1> DEFINE L == Len(patch.entries)
           entries == patch.entries
           first == Shifted
<1>1. L \in Nat
  BY PatchFacts DEF PatchMade
<1>2. UpdateSteps = CHOOSE f : f = [n \in 0 .. L |-> IF n = 0 THEN first ELSE After(f[n - 1], entries[n])]
  BY DEF UpdateSteps, Shifted, Grown
<1> HIDE DEF L, entries, first
<1>3. \E f : f = [n \in 0 .. L |-> IF n = 0 THEN first ELSE After(f[n - 1], entries[n])]
  <2>1. \E f : AreSteps(f, L, first, entries)
    BY <1>1, StepsUpTo
  <2> QED BY <2>1 DEF AreSteps
<1>4. UpdateSteps = [n \in 0 .. L |-> IF n = 0 THEN first ELSE After(UpdateSteps[n - 1], entries[n])]
  BY <1>2, <1>3
<1> HIDE DEF UpdateSteps
<1>5. UpdateSteps[0] = first
  BY <1>1, <1>4
<1>6. \A n \in 1 .. L : UpdateSteps[n] = After(UpdateSteps[n - 1], entries[n])
  BY <1>1, <1>4
<1> QED BY <1>5, <1>6 DEF L, entries, first

\* No entry changes the image's size.
LEMMA StepsDomain ==
  ASSUME MadeInv, ~patch.none, NEW n \in 0 .. Len(patch.entries)
  PROVE  DOMAIN UpdateSteps[n] = 0 .. patch.newSize - 1
<1> DEFINE S == {m \in 0 .. Len(patch.entries) : DOMAIN UpdateSteps[m] = 0 .. patch.newSize - 1}
<1>1. Len(patch.entries) \in Nat
  BY PatchFacts DEF PatchMade
<1>2. 0 \in S
  BY <1>1, StepsFacts DEF Shifted, Grown, Overlay, Resized
<1>3. ASSUME NEW m \in 1 .. Len(patch.entries), m - 1 \in S
      PROVE  m \in S
  <2>1. UpdateSteps[m] = After(UpdateSteps[m - 1], patch.entries[m])
    BY StepsFacts
  <2>2. DOMAIN After(UpdateSteps[m - 1], patch.entries[m]) = DOMAIN UpdateSteps[m - 1]
    BY DEF After, Overlay
  <2>3. m \in 0 .. Len(patch.entries) /\ DOMAIN UpdateSteps[m - 1] = 0 .. patch.newSize - 1
    BY <1>1, <1>3
  <2> QED BY <2>1, <2>2, <2>3
<1> HIDE DEF S
<1>4. n \in S
  BY <1>1, <1>2, <1>3, Upwards
<1> QED BY <1>4 DEF S

----------------------------------------------------------------------------
\* What is done to the body of the file is what is done to the image.

\* What is laid over the body is laid over the image.
LEMMA OverlayHeld ==
  ASSUME NEW bytes, NEW t \in Nat, NEW n \in Nat, NEW cells, DOMAIN cells = 0 .. n - 1, Holds(bytes, t, n, cells),
         NEW new \in Nat, NEW part
  PROVE  Holds(Overlay(bytes, t + new, part), t, n, Overlay(cells, new, part))
<1>1. DOMAIN bytes = 0 .. t + n - 1 /\ \A k \in 0 .. n - 1 : bytes[t + k] = cells[k]
  BY DEF Holds
<1>2. ASSUME NEW k \in 0 .. n - 1
      PROVE  Overlay(bytes, t + new, part)[t + k] = Overlay(cells, new, part)[k]
  <2>1. t + k \in 0 .. t + n - 1 /\ (t + k) - (t + new) = k - new
    OBVIOUS
  <2>2. Overlay(bytes, t + new, part)[t + k] = IF k - new \in DOMAIN part THEN part[k - new] ELSE bytes[t + k]
    BY <1>1, <2>1 DEF Overlay
  <2>3. Overlay(cells, new, part)[k] = IF k - new \in DOMAIN part THEN part[k - new] ELSE cells[k]
    BY DEF Overlay
  <2> QED BY <1>1, <2>2, <2>3
<1>3. DOMAIN Overlay(bytes, t + new, part) = 0 .. t + n - 1
  BY <1>1 DEF Overlay
<1> QED BY <1>2, <1>3 DEF Holds

Within(old, m, n) == old + m <= n

\* What is taken from the body is taken from the image.
LEMMA SliceHeld ==
  ASSUME NEW bytes, NEW t \in Nat, NEW n \in Nat, NEW cells, Holds(bytes, t, n, cells),
         NEW old \in Nat, NEW m \in Nat, Within(old, m, n)
  PROVE  Slice(bytes, t + old, m) = Slice(cells, old, m)
<1>1. ASSUME NEW k \in 0 .. m - 1
      PROVE  bytes[(t + old) + k] = cells[old + k]
  <2>1. old + k \in 0 .. n - 1 /\ (t + old) + k = t + (old + k)
    BY DEF Within
  <2> QED BY <2>1 DEF Holds
<1> QED BY <1>1 DEF Slice

\* Areas that do not overlap are copied.
LEMMA MoveHeld ==
  ASSUME NEW bytes, NEW t \in Nat, NEW n \in Nat, NEW cells, DOMAIN cells = 0 .. n - 1, Holds(bytes, t, n, cells),
         NEW old \in Nat, NEW new \in Nat, NEW m \in Nat, Within(old, m, n), ~Overlap(old, new, m),
         NEW r \in MoveOutcomes(bytes, t + old, t + new, m)
  PROVE  Holds(r, t, n, Overlay(cells, new, Slice(cells, old, m)))
<1>1. ~Overlap(t + old, t + new, m)
  BY DEF Overlap
<1>2. r = Overlay(bytes, t + new, Slice(bytes, t + old, m))
  BY <1>1 DEF MoveOutcomes
<1>3. Slice(bytes, t + old, m) = Slice(cells, old, m)
  BY SliceHeld
<1>4. Holds(Overlay(bytes, t + new, Slice(cells, old, m)), t, n, Overlay(cells, new, Slice(cells, old, m)))
  BY OverlayHeld
<1> QED BY <1>2, <1>3, <1>4

\* What is expanded against the body is expanded against the image.
LEMMA DataHeld ==
  ASSUME NEW bytes, NEW t \in Nat, NEW n \in Nat, NEW cells, DOMAIN cells = 0 .. n - 1, Holds(bytes, t, n, cells),
         NEW old \in Nat, NEW new \in Nat, NEW m \in Nat, Within(old, m, n)
  PROVE  \A data, r, s : /\ r = Overlay(bytes, t + new, Decoded(data, Slice(bytes, t + old, m)))
                         /\ s = Overlay(cells, new, Decoded(data, Slice(cells, old, m)))
                         => Holds(r, t, n, s)
<1>1. Slice(bytes, t + old, m) = Slice(cells, old, m)
  BY SliceHeld
<1>2. ASSUME NEW part
      PROVE  Holds(Overlay(bytes, t + new, part), t, n, Overlay(cells, new, part))
  BY OverlayHeld
<1> QED BY <1>1, <1>2

\* An entry does to the body what it promises for the image.
LEMMA EntryHeld ==
  ASSUME NEW bytes, NEW t \in Nat, NEW n \in Nat, NEW cells, DOMAIN cells = 0 .. n - 1, Holds(bytes, t, n, cells),
         NEW e, NEW size, EntryMade(e, size), e.kind # "zero" => e.old + e.n <= n, e.kind = "move" => ~Overlap(e.old, e.new, e.n),
         NEW r \in DeltaOutcomes(bytes, t, e)
  PROVE  Holds(r, t, n, After(cells, e))
<1>1. PICK new \in Nat, old \in Nat, m \in Nat : new = e.new /\ old = e.old /\ m = e.n
  BY DEF EntryMade
<1>2. CASE e.kind = "zero"
  <2>1. r = Overlay(bytes, t + new, Zeros(m)) /\ After(cells, e) = Overlay(cells, new, Zeros(m))
    BY <1>1, <1>2 DEF DeltaOutcomes, After
  <2>2. new \in Nat
    BY <1>1
  <2>3. Holds(Overlay(bytes, t + new, Zeros(m)), t, n, Overlay(cells, new, Zeros(m)))
    BY <2>2, OverlayHeld
  <2> QED BY <2>1, <2>3
<1>3. CASE e.kind = "move"
  <2>1. r \in MoveOutcomes(bytes, t + old, t + new, m)
        /\ After(cells, e) = Overlay(cells, new, Slice(cells, old, m))
    BY <1>1, <1>3 DEF DeltaOutcomes, After
  <2>2. Within(old, m, n) /\ ~Overlap(old, new, m)
    BY <1>1, <1>3 DEF Within
  <2>3. new \in Nat /\ old \in Nat /\ m \in Nat
    BY <1>1
  <2>4. Holds(r, t, n, Overlay(cells, new, Slice(cells, old, m)))
    BY <2>1, <2>2, <2>3, MoveHeld
  <2> QED BY <2>1, <2>4
<1>4. CASE e.kind = "data"
  <2>1. r = Overlay(bytes, t + new, Decoded(e.data, Slice(bytes, t + old, m)))
        /\ After(cells, e) = Overlay(cells, new, Decoded(e.data, Slice(cells, old, m)))
    BY <1>1, <1>4 DEF DeltaOutcomes, After
  <2>2. old \in Nat /\ new \in Nat /\ m \in Nat /\ Within(old, m, n)
    BY <1>1, <1>4 DEF Within
  <2>3. \A data, s, v : /\ s = Overlay(bytes, t + new, Decoded(data, Slice(bytes, t + old, m)))
                        /\ v = Overlay(cells, new, Decoded(data, Slice(cells, old, m)))
                        => Holds(s, t, n, v)
    BY <2>2, DataHeld
  <2> QED BY <2>1, <2>3
<1> QED BY <1>2, <1>3, <1>4 DEF EntryMade

----------------------------------------------------------------------------
\* The last steps of the patcher.

\* The image is moved as the update wants it, behind a header that tells of no compression.
LEMMA Moved ==
  ASSUME MadeInv, PatcherInv, ContentInv, UNCHANGED <<base, baseFrame, patch, made>>, FormatAndMove
  PROVE  PatcherInv' /\ BodyInv' /\ ContentInv'
<1>0. PICK t, n, d : t = patch.targetSize /\ n = patch.newSize /\ d = patch.image
  OBVIOUS
<1> DEFINE plain == [out EXCEPT ![Encryption] = None, ![Compression] = None]
<1>1. /\ step = "format" /\ step \in Copied /\ step \in Prepared /\ step \in Keyed /\ step' = "entries" /\ i' = 1
      /\ ~patch.none
  BY DEF FormatAndMove, Copied, Prepared, Keyed, PatcherInv
<1>2. t \in Nat /\ n \in Nat /\ t >= 6 /\ DOMAIN out = 0 .. t + n - 1 /\ HeaderTold
  BY <1>0, <1>1, Sizes DEF PatcherInv, FieldsEnd, Keyed, Copied, Prepared, Checked
<1>3. OutExe = t
  BY <1>0, <1>2 DEF OutExe, HeaderTold
<1>4. /\ DOMAIN plain = DOMAIN out /\ plain[3] = None /\ plain[4] = None
      /\ \A k \in DOMAIN out : k # 3 /\ k # 4 => plain[k] = out[k]
  <2>1. 3 \in DOMAIN out /\ 4 \in DOMAIN out
    BY <1>2
  <2> QED BY <2>1 DEF Encryption, Compression
<1>5. out' \in IF d.sourceOffset > 0 THEN MoveOutcomes(plain, t + d.sourceOffset, t + d.targetOffset, d.sourceSize)
               ELSE {plain}
  BY <1>0, <1>3 DEF FormatAndMove
<1> HIDE DEF plain
<1>6. /\ d.sourceOffset \in Nat /\ d.targetOffset \in Nat /\ d.sourceSize \in Nat
      /\ d.sourceOffset + d.sourceSize <= n /\ Len(patch.entries) \in Nat
  BY <1>0, <1>1, PatchFacts DEF PatchMade, ShiftMade
<1>7. DOMAIN out' = DOMAIN out /\ \A k \in 0 .. t - 1 : out'[k] = plain[k]
  <2>1. CASE d.sourceOffset > 0
    <3>1. out' \in MoveOutcomes(plain, t + d.sourceOffset, t + d.targetOffset, d.sourceSize)
      BY <1>5, <2>1
    <3>2. /\ DOMAIN out' = DOMAIN plain
          /\ \A k \in DOMAIN plain : k \in Int /\ (k < t + d.targetOffset \/ k >= t + d.targetOffset + d.sourceSize)
                                       => out'[k] = plain[k]
      <4>1. t + d.sourceOffset \in Int /\ t + d.targetOffset \in Int /\ d.sourceSize \in Int
        BY <1>2, <1>6
      <4> QED BY <3>1, <4>1, MoveKeeps
    <3>3. PICK x \in Nat : x = d.targetOffset
      BY <1>6
    <3>4. \A k \in DOMAIN plain : k \in Int /\ k < t + x => out'[k] = plain[k]
      BY <3>2, <3>3
    <3>5. \A k \in 0 .. t - 1 : k \in DOMAIN plain /\ k \in Int /\ k < t + x
      BY <1>2, <1>4, <3>3
    <3> QED BY <1>4, <3>2, <3>4, <3>5
  <2>2. CASE ~(d.sourceOffset > 0)
    BY <1>4, <1>5, <2>2
  <2> QED BY <2>1, <2>2
<1>8. \A k \in 0 .. 2 : out'[k] = out[k]
  BY <1>2, <1>4, <1>7
<1>9. out'[Encryption] = None /\ out'[Compression] = None
  BY <1>2, <1>4, <1>7 DEF Encryption, Compression
<1>10. i' \in 1 .. Len(patch'.entries) + 1 /\ ~(i' > 1)
  BY <1>1, <1>6
<1>11. PatcherInv'
  BY <1>1, <1>7, <1>8, <1>9, <1>10, HeaderKept, StillPrepared, SameFiles
     DEF PatcherInv, Refusals, Steps, Keyed, Copied, Prepared, Checked, Plainly
<1>12. ASSUME ~Deviates
       PROVE  BodyIs(UpdateSteps[0])'
  <2>1. ~ShorterHeader /\ ~ShorterFile /\ ~LongerBody /\ (d.sourceOffset > 0 => ~Overlap(d.sourceOffset, d.targetOffset, d.sourceSize))
    BY <1>0, <1>1, <1>12 DEF Deviates, OverlappingMove
  <2>2. BodyIs(Image)
    BY <1>1, <2>1 DEF ContentInv
  <2>3. Holds(plain, t, n, Image)
    <3>1. \A k \in 0 .. n - 1 : out[t + k] = Image[k]
      BY <1>0, <2>2 DEF BodyIs
    <3>2. \A k \in 0 .. n - 1 : t + k \in DOMAIN out /\ t + k # 3 /\ t + k # 4
      BY <1>2
    <3> QED BY <1>2, <1>4, <3>1, <3>2 DEF Holds
  <2>4. Grown = Image /\ DOMAIN Image = 0 .. n - 1
    BY <1>0 DEF Grown, Image, Resized, MadeInv
  <2>5. Holds(out', t, n, Shifted)
    <3>1. CASE d.sourceOffset > 0
      <4>1. out' \in MoveOutcomes(plain, t + d.sourceOffset, t + d.targetOffset, d.sourceSize)
        BY <1>5, <3>1
      <4>2. Shifted = Overlay(Image, d.targetOffset, Slice(Image, d.sourceOffset, d.sourceSize))
        BY <1>0, <2>4, <3>1 DEF Shifted
      <4>3. Within(d.sourceOffset, d.sourceSize, n)
        BY <1>6 DEF Within
      <4> QED BY <1>2, <1>6, <2>1, <2>3, <2>4, <3>1, <4>1, <4>2, <4>3, MoveHeld
    <3>2. CASE ~(d.sourceOffset > 0)
      <4>1. out' = plain /\ Shifted = Image
        BY <1>0, <1>5, <2>4, <3>2 DEF Shifted
      <4> QED BY <2>3, <4>1
    <3> QED BY <3>1, <3>2
  <2>6. UNCHANGED UpdateSteps
    BY DEF UpdateSteps, After
  <2>7. \A k \in 0 .. n - 1 : out'[t + k] = UpdateSteps[0][k]
    BY <1>1, <2>5, StepsFacts DEF Holds
  <2> QED BY <1>0, <2>6, <2>7 DEF BodyIs
<1>13. Deviates' <=> Deviates
  BY SameFiles
<1>14. ~Deviates' => BodyIs(UpdateSteps[i - 1])'
  <2>1. i' - 1 = 0
    BY <1>1
  <2> QED BY <1>12, <1>13, <2>1 DEF BodyIs
<1> QED BY <1>1, <1>11, <1>14 DEF BodyInv, ContentInv


\* A refused key is not the right one, and an entry leaves the header as it is.
LEMMA EntryPatched ==
  ASSUME MadeInv, PatcherInv, ContentInv, UNCHANGED <<base, baseFrame, patch, made>>, PatchImage
  PROVE  PatcherInv' /\ BodyInv' /\ ContentInv'
<1>0. PICK t, n, e, L, x : /\ t = patch.targetSize /\ n = patch.newSize /\ e = patch.entries[i]
                           /\ L = Len(patch.entries) /\ x = i
  OBVIOUS
<1>1. step = "entries" /\ step \in Copied /\ step \in Prepared /\ step \in Keyed /\ ~patch.none /\ i <= L
  BY <1>0 DEF PatchImage, Copied, Prepared, Keyed, PatcherInv
<1>2. t \in Nat /\ n \in Nat /\ t >= 6 /\ DOMAIN out = 0 .. t + n - 1 /\ HeaderTold
  BY <1>0, <1>1, Sizes DEF PatcherInv, FieldsEnd, Keyed, Copied, Prepared, Checked
<1>3. OutExe = t
  BY <1>0, <1>2 DEF OutExe, HeaderTold
<1>4. PatchMade(patch)
  BY <1>1, PatchFacts
<1>5. L \in Nat /\ x \in 1 .. L
  BY <1>0, <1>1, <1>4 DEF PatchMade, PatcherInv
<1>6. EntryMade(e, n) /\ (e.kind # "zero" => e.old + e.n <= n)
  <2>1. x \in 1 .. Len(patch.entries)
    BY <1>0, <1>5
  <2>2. EntryMade(e, n)
    BY <1>0, <1>4, <2>1 DEF PatchMade
  <2> QED BY <2>2 DEF EntryMade
<1>7. NewKey = patch.newKey
  BY <1>1, KeyTold
<1>8. CASE ~Readable
  <2>1. step' \in Refusals
    BY <1>8 DEF PatchImage, GiveUp, Refusals
  <2>2. ~(patch.encryption = None \/ Unwrapped(patch.newKey, patch.key) = patch.dataKey)
    BY <1>7, <1>8 DEF Readable
  <2>3. ~Fits
    BY <1>0, <1>5, <2>2 DEF Fits, Suitable
  <2>4. PatcherInv'
    BY <1>1, <2>1, <2>3, GaveUp
  <2> QED BY <2>1, <2>4 DEF BodyInv, ContentInv, Refusals
<1>9. CASE Readable
  <2>1. out' \in DeltaOutcomes(out, t, e) /\ step' = "entries" /\ i' = i + 1
    BY <1>0, <1>1, <1>3, <1>9 DEF PatchImage
  <2>2. patch.encryption = None \/ Unwrapped(patch.newKey, patch.key) = patch.dataKey
    BY <1>7, <1>9 DEF Readable
  <2>3. /\ DOMAIN out' = DOMAIN out
        /\ \A k \in DOMAIN out : k \in Int /\ (k < t + e.new \/ k >= t + e.new + e.n) => out'[k] = out[k]
    <3>1. t \in Int
      BY <1>2
    <3> QED BY <1>6, <2>1, <3>1, DeltaKeeps
  <2>4. \A k \in 0 .. 4 : out'[k] = out[k]
    <3> TAKE k \in 0 .. 4
    <3>1. PICK new \in Nat : new = e.new
      BY <1>6 DEF EntryMade
    <3>2. k \in DOMAIN out /\ k \in Int /\ k < t + new
      BY <1>2, <3>1
    <3>3. k < t + e.new
      BY <3>1, <3>2
    <3> QED BY <2>3, <3>2, <3>3
  <2>5. out'[Encryption] = None /\ out'[Compression] = None
    <3>1. out[Encryption] = None /\ out[Compression] = None
      BY <1>1 DEF PatcherInv
    <3> QED BY <2>4, <3>1 DEF Encryption, Compression
  <2>6. i' \in 1 .. Len(patch'.entries) + 1 /\ i' - 1 = i
    BY <1>0, <1>5, <2>1
  <2>7. \A k \in 0 .. 2 : out'[k] = out[k]
    BY <2>4
  <2>8. PatcherInv'
    BY <1>1, <2>1, <2>2, <2>3, <2>5, <2>6, <2>7, HeaderKept, StillPrepared, SameFiles
       DEF PatcherInv, Refusals, Steps, Keyed, Copied, Prepared, Checked, Plainly
  <2>9. ASSUME ~Deviates
        PROVE  BodyIs(UpdateSteps[i - 1])'
    <3> DEFINE before == UpdateSteps[x - 1]
    <3>1. e.kind = "move" => ~Overlap(e.old, e.new, e.n)
      <4>1. x \in 1 .. Len(patch.entries)
        BY <1>0, <1>5
      <4> QED BY <1>0, <1>1, <2>9, <4>1 DEF Deviates, OverlappingMove
    <3>2. x - 1 \in 0 .. L
      BY <1>5
    <3>3. DOMAIN before = 0 .. n - 1
      BY <1>0, <1>1, <3>2, StepsDomain
    <3>4. Holds(out, t, n, before)
      <4>1. BodyIs(UpdateSteps[i - 1])
        BY <1>1, <2>9 DEF ContentInv
      <4> QED BY <1>0, <1>2, <4>1 DEF Holds, BodyIs
    <3>5. UpdateSteps[x] = After(before, e)
      <4>1. x \in 1 .. Len(patch.entries)
        BY <1>0, <1>5
      <4> QED BY <1>0, <1>1, <4>1, StepsFacts
    <3> HIDE DEF before
    <3>6. Holds(out', t, n, After(before, e))
      BY <1>2, <1>6, <2>1, <3>1, <3>3, <3>4, EntryHeld
    <3>7. \A k \in 0 .. n - 1 : out'[t + k] = UpdateSteps[x][k]
      BY <3>5, <3>6 DEF Holds
    <3>8. UNCHANGED UpdateSteps
      BY DEF UpdateSteps, After
    <3>9. \A k \in 0 .. n - 1 : out'[t + k] = UpdateSteps'[x][k]
      BY <3>7, <3>8
    <3>10. i' - 1 = x
      BY <1>0, <2>6
    <3> HIDE DEF UpdateSteps
    <3> QED BY <1>0, <3>9, <3>10 DEF BodyIs
  <2>10. Deviates' <=> Deviates
    BY SameFiles
  <2> QED BY <2>1, <2>6, <2>8, <2>9, <2>10 DEF BodyInv, ContentInv
<1> QED BY <1>8, <1>9

\* After the last entry the file is complete.
LEMMA Finished ==
  ASSUME MadeInv, PatcherInv, ContentInv, UNCHANGED <<base, baseFrame, patch, made>>, Finish
  PROVE  PatcherInv' /\ BodyInv' /\ ContentInv'
<1>1. /\ step = "entries" /\ step' = "done" /\ i > Len(patch.entries) /\ UNCHANGED <<out, i>>
      /\ step \in Copied /\ step \in Prepared
  BY DEF Finish, Copied, Prepared, Keyed
<1>2. PatcherInv'
  BY <1>1, HeaderKept, StillPrepared, SameFiles
     DEF PatcherInv, Refusals, Steps, Keyed, Copied, Prepared, Checked, Plainly
<1>3. UNCHANGED UpdateSteps
  BY DEF UpdateSteps, After
<1>4. Deviates' <=> Deviates
  BY SameFiles
<1>5. ~Deviates => BodyIs(UpdateSteps[i - 1])
  BY <1>1 DEF ContentInv
<1> HIDE DEF UpdateSteps
<1> QED BY <1>1, <1>2, <1>3, <1>4, <1>5 DEF BodyInv, ContentInv, BodyIs


----------------------------------------------------------------------------
\* The patcher's part of the invariant.

\* The patcher's part holds at first.

----------------------------------------------------------------------------
\* The patcher's part of the invariant.

\* The patcher's part holds at first.
LEMMA UpdateInit == Init => UpdateInv
<1> SUFFICES ASSUME Init
             PROVE  UpdateInv
  OBVIOUS
<1>1. step = "start"
  BY DEF Init
<1> QED BY <1>1, MadeInit, PatcherInit DEF UpdateInv, BodyInv, ContentInv

\* Every step of the patcher keeps it.
LEMMA ApplyNext ==
  ASSUME UpdateInv, Apply, UNCHANGED <<base, baseFrame, patch, made>>
  PROVE  PatcherInv' /\ BodyInv' /\ ContentInv'
<1> USE DEF UpdateInv
<1>1. CASE CheckHeaders
  <2>1. step' \in Refusals \cup {"check"}
    BY <1>1 DEF CheckHeaders, GiveUp, Refusals
  <2> QED BY <1>1, <2>1, HeadersChecked DEF BodyInv, ContentInv, Refusals
<1>2. CASE CheckPatch
  <2>1. step' \in Refusals \cup {"header"}
    BY <1>2 DEF CheckPatch, GiveUp, Refusals
  <2> QED BY <1>2, <2>1, PatchChecked DEF BodyInv, ContentInv, Refusals
<1>3. CASE MoveHeader
  <2>1. step' = "headerEntries"
    BY <1>3 DEF MoveHeader
  <2> QED BY <1>3, <2>1, HeaderMoved DEF BodyInv, ContentInv
<1>4. CASE PatchHeader
  <2>1. step' = "headerEntries"
    BY <1>4 DEF PatchHeader
  <2> QED BY <1>4, <2>1, HeaderPatched DEF BodyInv, ContentInv
<1>5. CASE CopyBody
  <2>1. step' \in Refusals \cup {"keys"}
    BY <1>5 DEF CopyBody, GiveUp, Refusals
  <2> QED BY <1>5, <2>1, BodyCopied DEF ContentInv, Refusals
<1>6. CASE CheckKeys
  <2>1. step' \in Refusals \cup {"decrypt"}
    BY <1>6 DEF CheckKeys, GiveUp, Refusals
  <2> QED BY <1>6, <2>1, KeysChecked DEF ContentInv, Refusals
<1>7. CASE Decrypt
  <2>1. step' = "decompress"
    BY <1>7 DEF Decrypt
  <2> QED BY <1>7, <2>1, BodyDecrypted DEF ContentInv
<1>8. CASE StartBasic
  <2>1. step' \in Refusals \cup {"basic"}
    BY <1>8 DEF StartBasic, GiveUp, Refusals
  <2> QED BY <1>8, <2>1, BasicStarted DEF ContentInv, Refusals
<1>9. CASE MoveBlock
  <2>1. step' = "basic"
    BY <1>9 DEF MoveBlock
  <2> QED BY <1>9, <2>1, BlockMoved DEF ContentInv
<1>10. CASE StartLzx
  <2>1. step' = "lzx"
    BY <1>10 DEF StartLzx
  <2> QED BY <1>10, <2>1, LzxStarted DEF ContentInv
<1>11. CASE WalkBlocks
  <2>1. step' \in Refusals \cup {"lzx"}
    BY <1>11 DEF WalkBlocks, GiveUp, Refusals
  <2> QED BY <1>11, <2>1, Walked DEF ContentInv, Refusals
<1>12. CASE BasicDone
  BY <1>12, BasicFinished
<1>13. CASE LzxDone
  BY <1>13, LzxFinished
<1>14. CASE Uncompressed
  BY <1>14, PlainFinished
<1>15. CASE FormatAndMove
  BY <1>15, Moved
<1>16. CASE PatchImage
  BY <1>16, EntryPatched
<1>17. CASE Finish
  BY <1>17, Finished
<1> QED BY <1>1, <1>2, <1>3, <1>4, <1>5, <1>6, <1>7, <1>8, <1>9, <1>10, <1>11, <1>12, <1>13, <1>14, <1>15, <1>16, <1>17
        DEF Apply

\* Nothing but the patcher's own steps concerns its variables.
LEMMA PatcherStill ==
  ASSUME UpdateInv, UNCHANGED <<patcherVars, made>>
  PROVE  PatcherInv' /\ BodyInv' /\ ContentInv'
<1>1. UNCHANGED <<base, baseFrame, patch, out, step, i, src, dst, walk, made>>
  BY DEF patcherVars
<1>2. PatcherInv'
  <2>1. HeaderTold' <=> HeaderTold
    BY <1>1 DEF HeaderTold
  <2> QED BY <1>1, <2>1, SameFiles DEF UpdateInv, PatcherInv
<1>3. BodyInv'
  <2>1. UNCHANGED Stored /\ UNCHANGED Packing
    BY <1>1, SameFiles DEF Stored, Packing
  <2>2. \A n : UNCHANGED <<Moving(n), DataTotal(n), WholeTotal(n)>>
    BY <1>1, SameBody
  <2> HIDE DEF Stored, Packing, Moving, DataTotal, WholeTotal
  <2>3. step = "basic" => BodyIs(Moving(i))'
    BY <1>1, <2>2 DEF UpdateInv, BodyInv, BodyIs
  <2>5. step = "basic" =>
          src' = patch'.targetSize + DataTotal(i)' /\ dst' = patch'.targetSize + WholeTotal(i)'
    BY <1>1, <2>2 DEF UpdateInv, BodyInv
  <2>4. step = "lzx" => Walking(walk, patch.targetSize)'
    BY <1>1 DEF UpdateInv, BodyInv, Walking, AtPart, AtEnd, Gathers, IsWalk, Packs
  <2> QED BY <1>1, <2>1, <2>3, <2>4, <2>5 DEF UpdateInv, BodyInv, BodyIs
<1>4. ContentInv'
  <2>1. UNCHANGED UpdateSteps /\ UNCHANGED Image
    BY <1>1 DEF UpdateSteps, After, Image, Resized
  <2>2. /\ Deviates' <=> Deviates
        /\ ShorterHeader' <=> ShorterHeader
        /\ ShorterFile' <=> ShorterFile
        /\ LongerBody' <=> LongerBody
    BY <1>1, SameFiles
  <2> HIDE DEF UpdateSteps, Image
  <2> QED BY <1>1, <2>1, <2>2 DEF UpdateInv, ContentInv, BodyIs
<1> QED BY <1>2, <1>3, <1>4

\* So does every other step.
LEMMA UpdateNext == UpdateInv /\ [Next]_vars => UpdateInv'
<1> SUFFICES ASSUME UpdateInv, [Next]_vars
             PROVE  UpdateInv'
  OBVIOUS
<1>1. MadeInv'
  BY MadeNext DEF UpdateInv
<1>2. UNCHANGED <<base, baseFrame, patch, made>>
  BY Kept
<1>3. CASE Apply
  BY <1>1, <1>2, <1>3, ApplyNext DEF UpdateInv
<1>4. CASE UNCHANGED <<patcherVars, made>>
  BY <1>1, <1>4, PatcherStill DEF UpdateInv
<1>5. CASE Start
  <2>1. CASE patch.none
    <3>1. UNCHANGED <<patcherVars, made>>
      BY <1>5, <2>1 DEF Start, patcherVars
    <3> QED BY <1>4, <3>1
  <2>2. CASE ~patch.none
    <3>1. step' = "headers" /\ ~patch'.none
      BY <1>2, <1>5, <2>2 DEF Start
    <3>2. PatcherInv'
      BY <3>1 DEF PatcherInv, Refusals, Steps, Keyed, Copied, Prepared, Checked, Plainly
    <3> QED BY <1>1, <3>1, <3>2 DEF UpdateInv, BodyInv, ContentInv
  <2> QED BY <2>1, <2>2
<1>6. CASE OpenPatched
  <2>1. UNCHANGED <<patcherVars, made>>
    BY <1>6 DEF OpenPatched
  <2> QED BY <1>4, <2>1
<1>7. CASE UNCHANGED vars
  <2>1. UNCHANGED <<patcherVars, made>>
    BY <1>7 DEF vars
  <2> QED BY <1>4, <2>1
<1> QED BY <1>3, <1>4, <1>5, <1>6, <1>7 DEF Next


----------------------------------------------------------------------------
\* What the loader finds behind the header of a file.

\* Of a base file the body as it was before it was encrypted.
LEMMA BaseSource ==
  ASSUME MadeInv, baseFrame.magic = "XEX2", file = base
  PROVE  /\ FileBody = Size(made.body)
         /\ DOMAIN Source = 0 .. Size(made.body) - 1
         /\ \A k \in 0 .. Size(made.body) - 1 : Source[k] = made.body[k]
<1>0. PICK h, s, body : h = OldHeaderSize /\ s = Size(made.body) /\ body = Slice(base, h, s)
  OBVIOUS
<1>1. s \in Nat /\ h \in Nat /\ base[HeaderSize] = h /\ Size(base) = h + s /\ OldKey \in 1 .. 8
  BY <1>0, BaseFacts DEF OldHeaderSize
<1>2. FileBody = s /\ FileKey = OldKey
  BY <1>1 DEF FileBody, FileKey, OldKey
<1>3. Source = IF base[Encryption] = Normal THEN Decrypted(OldKey, body) ELSE body
  BY <1>0, <1>1, <1>2 DEF Source
<1>4. DOMAIN body = 0 .. s - 1 /\ \A k \in 0 .. s - 1 : body[k] = base[h + k]
  BY <1>0, SliceCells
<1>5. /\ \A k \in 0 .. s - 1 : base[h + k] = IF base[Encryption] = Normal THEN 10 * made.body[k] + OldKey ELSE made.body[k]
      /\ \A k \in 0 .. s - 1 : made.body[k] \in Nat
  BY <1>0, BaseFacts
<1>6. DOMAIN Source = 0 .. s - 1
  BY <1>3, <1>4 DEF Decrypted
<1>7. ASSUME NEW k \in 0 .. s - 1
      PROVE  Source[k] = made.body[k]
  <2>1. CASE base[Encryption] = Normal
    <3>1. body[k] = 10 * made.body[k] + OldKey
      BY <1>4, <1>5, <2>1
    <3>2. Source[k] = IF body[k] % 10 = OldKey THEN body[k] \div 10 ELSE Garbage
      BY <1>3, <1>4, <2>1 DEF Decrypted
    <3>3. PICK x \in Nat, y \in 1 .. 8 : x = made.body[k] /\ y = OldKey
      BY <1>1, <1>5
    <3>4. (10 * x + y) \div 10 = x /\ (10 * x + y) % 10 = y
      OBVIOUS
    <3> QED BY <3>1, <3>2, <3>3, <3>4
  <2>2. CASE base[Encryption] # Normal
    BY <1>3, <1>4, <1>5, <2>2
  <2> QED BY <2>1, <2>2
<1> QED BY <1>0, <1>2, <1>6, <1>7

\* Of a patched file the image behind the new header.
LEMMA PatchedSource ==
  ASSUME UpdateInv, step = "done", file = out
  PROVE  /\ ~patch.none /\ patch.newSize \in Nat /\ Len(patch.entries) \in Nat
         /\ i = Len(patch.entries) + 1
         /\ file[ImageSize] = patch.newSize /\ file[Compression] = None
         /\ FileBody = patch.newSize
         /\ DOMAIN Source = 0 .. patch.newSize - 1
         /\ \A k \in 0 .. patch.newSize - 1 : Source[k] = out[patch.targetSize + k]
<1>0. PICK t, n : t = patch.targetSize /\ n = patch.newSize
  OBVIOUS
<1>1. step \in Copied /\ step \in Checked /\ ~patch.none
  BY DEF Copied, Keyed, Prepared, Checked, UpdateInv, PatcherInv
<1>2. /\ t \in Nat /\ n \in Nat /\ DOMAIN out = 0 .. t + n - 1 /\ HeaderTold
      /\ out[Encryption] = None /\ out[Compression] = None
  BY <1>0, <1>1, Sizes DEF UpdateInv, PatcherInv
<1>3. file[HeaderSize] = t /\ file[ImageSize] = n
  BY <1>0, <1>2 DEF HeaderTold
<1>4. Size(file) = t + n
  <2>1. PICK l \in Nat : l = t + n
    BY <1>2
  <2> QED BY <1>2, <2>1, SizeOf
<1>5. FileBody = n
  BY <1>2, <1>3, <1>4 DEF FileBody
<1>6. Source = Slice(file, t, n)
  BY <1>2, <1>3, <1>5 DEF Source, None, Normal
<1>7. Len(patch.entries) \in Nat /\ i = Len(patch.entries) + 1
  <2>1. PICK L, x : L = Len(patch.entries) /\ x = i
    OBVIOUS
  <2>2. L \in Nat
    BY <1>1, <2>1, PatchFacts DEF UpdateInv, PatchMade
  <2>3. x \in 1 .. L + 1 /\ x > L
    BY <2>1 DEF UpdateInv, PatcherInv
  <2> QED BY <2>1, <2>2, <2>3
<1> QED BY <1>0, <1>1, <1>2, <1>3, <1>5, <1>6, <1>7, SliceCells

\* The updated image as an array.
LEMMA UpdatedCells ==
  ASSUME MadeInv, ~patch.none
  PROVE  Updated = [k \in 0 .. patch.newSize - 1 |-> UpdateSteps[Len(patch.entries)][k]]
<1>1. PICK L : L = Len(patch.entries) /\ L \in Nat
  BY PatchFacts DEF PatchMade
<1>2. L \in 0 .. L
  BY <1>1
<1>3. DOMAIN UpdateSteps[L] = 0 .. patch.newSize - 1
  BY <1>1, <1>2, StepsDomain
<1>4. UpdateSteps[L] = [k \in DOMAIN UpdateSteps[L] |-> UpdateSteps[L][k]]
  <2>1. CASE L = 0
    BY <2>1, StepsFacts DEF Shifted, Grown, Overlay, Resized
  <2>2. CASE L # 0
    <3>1. UpdateSteps[L] = After(UpdateSteps[L - 1], patch.entries[L])
      BY <1>1, <2>2, StepsFacts
    <3> QED BY <3>1 DEF After, Overlay
  <2> QED BY <2>1, <2>2
<1> QED BY <1>1, <1>3, <1>4 DEF Updated

\* The image of a base file that is taken as it is, as an array.
LEMMA MadeCells ==
  ASSUME MadeInv, baseFrame.magic = "XEX2"
  PROVE  made.image = [k \in 0 .. Size(made.image) - 1 |-> made.image[k]] /\ Size(made.image) \in Nat
BY BaseFacts DEF BaseMade, IsArray

----------------------------------------------------------------------------
\* What the loader makes of it.

\* A loader's step, when the file is open, after which its part of the invariant
\* still says the same of the other phases.
LEMMA LoaderStill ==
  ASSUME UpdateInv, LoaderInv, UNCHANGED <<patcherVars, made, file, frame>>, phase # "closed"
  PROVE  /\ phase' # "closed" => IF patch'.none THEN file' = base' ELSE step' = "done" /\ file' = out'
         /\ UNCHANGED <<base, baseFrame, patch, Promised>>
         /\ Deviates' <=> Deviates
<1>1. UNCHANGED <<base, baseFrame, patch, out, step>>
  BY DEF patcherVars
<1>2. UNCHANGED UpdateSteps
  BY <1>1 DEF UpdateSteps, After
<1>3. UNCHANGED Updated
  <2> HIDE DEF UpdateSteps
  <2> QED BY <1>1, <1>2 DEF Updated
<1>4. UNCHANGED Promised
  <2> HIDE DEF Updated
  <2> QED BY <1>1, <1>3 DEF Promised
<1>5. Deviates' <=> Deviates
  BY <1>1, SameFiles
<1> QED BY <1>1, <1>4, <1>5 DEF LoaderInv

\* An opened file with the magic of one is a base file or a patched one.
LEMMA Opened ==
  ASSUME UpdateInv, LoaderInv, phase # "closed", frame.magic = "XEX2"
  PROVE  /\ baseFrame.magic = "XEX2"
         /\ patch.none => file = base /\ Promised = made.image
         /\ ~patch.none => step = "done" /\ file = out /\ Promised = Updated
<1>1. baseFrame = frame
  BY DEF UpdateInv, MadeInv
<1> HIDE DEF Updated
<1> QED BY <1>1 DEF LoaderInv, Promised

\* A base without compression, and a patched file, are taken as they are.
LEMMA LoadedPlain ==
  ASSUME UpdateInv, LoaderInv, UNCHANGED <<patcherVars, made>>, Load, file[Compression] = None, phase' = "pe"
  PROVE  LoaderInv'
<1>1. /\ phase = "header" /\ phase # "closed" /\ frame.magic = "XEX2" /\ UNCHANGED <<file, frame>>
      /\ image' = Slice(Source, 0, file[ImageSize])
  BY DEF Load, Invalid, LoaderInv
<1>2. DOMAIN image' = 0 .. file[ImageSize] - 1
  BY <1>1, SliceCells
<1>3. CASE patch.none
  <2>1. file = base /\ Promised = made.image /\ baseFrame.magic = "XEX2"
    BY <1>1, <1>3, Opened
  <2>2. PICK m : m = Size(made.image) /\ m \in Nat /\ file[ImageSize] = m
    BY <2>1, BaseFacts DEF UpdateInv
  <2>3. made.body = made.image
    BY <2>1, BaseFacts DEF UpdateInv
  <2>4. DOMAIN Source = 0 .. m - 1 /\ \A k \in 0 .. m - 1 : Source[k] = made.image[k]
    BY <2>1, <2>2, <2>3, BaseSource DEF UpdateInv
  <2>5. image' = made.image
    <3>1. image' = [k \in 0 .. m - 1 |-> Source[0 + k]]
      BY <1>1, <2>2 DEF Slice
    <3>2. image' = [k \in 0 .. m - 1 |-> made.image[k]]
      BY <2>2, <2>4, <3>1
    <3> QED BY <2>1, <2>2, <3>2, MadeCells DEF UpdateInv
  <2> QED BY <1>1, <1>2, <2>1, <2>2, <2>5, LoaderStill DEF LoaderInv, Phases, Loading, XexLoaded
<1>4. CASE ~patch.none
  <2>0. PICK t, n : t = patch.targetSize /\ n = patch.newSize
    OBVIOUS
  <2>1. step = "done" /\ file = out /\ Promised = Updated
    BY <1>1, <1>4, Opened
  <2>2. /\ n \in Nat /\ file[ImageSize] = n /\ i - 1 = Len(patch.entries)
        /\ \A k \in 0 .. n - 1 : Source[k] = out[t + k]
    BY <2>0, <2>1, PatchedSource
  <2>3. ASSUME ~Deviates
        PROVE  image' = Updated
    <3>1. \A k \in 0 .. n - 1 : out[t + k] = UpdateSteps[Len(patch.entries)][k]
      BY <2>0, <2>1, <2>2, <2>3 DEF UpdateInv, ContentInv, BodyIs
    <3>2. image' = [k \in 0 .. n - 1 |-> Source[0 + k]]
      BY <1>1, <2>2 DEF Slice
    <3>3. image' = [k \in 0 .. n - 1 |-> UpdateSteps[Len(patch.entries)][k]]
      BY <2>2, <3>1, <3>2
    <3> QED BY <1>4, <2>0, <3>3, UpdatedCells DEF UpdateInv
  <2> HIDE DEF Updated
  <2> QED BY <1>1, <1>2, <2>1, <2>2, <2>3, LoaderStill DEF LoaderInv, Phases, Loading, XexLoaded
<1> QED BY <1>3, <1>4

\* What is loaded at once, and where the blocks start.
LEMMA LoadStarted ==
  ASSUME UpdateInv, LoaderInv, UNCHANGED <<patcherVars, made>>, Load
  PROVE  LoaderInv'
<1>1. phase = "header" /\ phase # "closed" /\ frame.magic = "XEX2" /\ UNCHANGED <<file, frame>>
  BY DEF Load, Invalid, LoaderInv
<1>2. CASE phase' = "invalid"
  BY <1>1, <1>2, LoaderStill DEF LoaderInv, Phases, Loading, XexLoaded
<1>3. CASE phase' # "invalid"
  <2>1. /\ image' = IF file[Compression] = None THEN Slice(Source, 0, file[ImageSize]) ELSE Allocated
        /\ phase' = CASE file[Compression] = None -> "pe"
                      [] file[Compression] = Basic -> "blocks"
                      [] file[Compression] = Lzx -> "walk"
        /\ j' = 1 /\ from' = 0 /\ reading' = WalkFrom(0, file[Info])
        /\ ~(file[Compression] > Lzx)
    BY <1>3 DEF Load, Invalid
  <2>2. CASE file[Compression] = None
    <3>1. phase' = "pe"
      BY <2>1, <2>2 DEF None, Basic, Lzx
    <3> QED BY <2>2, <3>1, LoadedPlain
  <2>3. CASE file[Compression] # None
    <3>1. patch.none /\ file = base /\ baseFrame.magic = "XEX2"
      BY <1>1, <2>3, Opened, PatchedSource
    <3>2. PICK m : m = Size(made.image) /\ m \in Nat /\ file[ImageSize] = m
      BY <3>1, BaseFacts DEF UpdateInv
    <3>3. base[Compression] \in {Basic, Lzx}
      <4>1. base[Compression] \in {None, Basic, Lzx, Delta}
        BY <3>1, BaseFacts DEF UpdateInv
      <4>2. base[Compression] # Delta
        BY <2>1, <3>1 DEF Delta, Lzx
      <4> QED BY <2>3, <3>1, <4>1, <4>2
    <3>4. CASE base[Compression] = Basic
      <4>1. Total(WholeSizes(file), file[Info]) = m /\ base[Info] \in Nat \ {0}
            /\ DataTotal(0) = 0 /\ WholeTotal(0) = 0
        BY <3>1, <3>2, <3>4, BlockFacts DEF UpdateInv, WholeTotal
      <4>2. image' = Zeros(m)
        BY <2>1, <2>3, <3>1, <3>4, <4>1 DEF Allocated
      <4>3. phase' = "blocks"
        BY <2>1, <3>1, <3>4 DEF Basic, None, Lzx
      <4>4. image' = [k \in 0 .. m - 1 |-> IF k < WholeTotal(0) THEN made.image[k] ELSE 0]
        <5>1. \A k \in 0 .. m - 1 : ~(k < WholeTotal(0))
          BY <4>1
        <5> QED BY <4>2, <5>1 DEF Zeros
      <4>5. UNCHANGED <<base, baseFrame, patch>>
        BY DEF patcherVars
      <4>6. j' \in 1 .. base'[Info] + 1 /\ from' = DataTotal(j - 1)'
        <5>1. DataTotal(0)' = DataTotal(0)
          BY <4>5, SameBody
        <5>2. DataTotal(j - 1)' = DataTotal(0)'
          BY <2>1
        <5> QED BY <2>1, <4>1, <4>5, <5>1, <5>2
      <4>7. image' = [k \in 0 .. base'[ImageSize] - 1 |-> IF k < WholeTotal(j - 1)' THEN made'.image[k] ELSE 0]
        <5>1. WholeTotal(0)' = WholeTotal(0)
          BY <4>5, SameBody
        <5>2. WholeTotal(j - 1)' = WholeTotal(0)'
          BY <2>1
        <5> QED BY <3>1, <3>2, <4>4, <4>5, <5>1, <5>2
      <4>8. DOMAIN image' = 0 .. file'[ImageSize] - 1 /\ file'[ImageSize] \in Nat
        BY <1>1, <3>2, <4>4
      <4>9. patch'.none /\ base'[Compression] = Basic
        BY <3>1, <3>4, <4>5
      <4> QED BY <1>1, <4>3, <4>6, <4>7, <4>8, <4>9, LoaderStill DEF LoaderInv, Phases, Loading, XexLoaded
    <3>5. CASE base[Compression] = Lzx
      <4>1. phase' = "walk"
        BY <2>1, <3>1, <3>5 DEF Basic, None, Lzx
      <4>2. image' = Zeros(m)
        BY <2>1, <2>3, <3>1, <3>2, <3>5 DEF Allocated, Basic, Lzx
      <4>3. DOMAIN image' = 0 .. file'[ImageSize] - 1 /\ file'[ImageSize] \in Nat
        BY <1>1, <3>2, <4>2 DEF Zeros
      <4>4. PICK r : r = reading'
        OBVIOUS
      <4>5. Walking(r, 0)
        <5>1. Chained /\ file[Info] = made.bytes[Info]
          BY <3>1, <3>5, ChainFacts, BaseFacts DEF UpdateInv
        <5> QED BY <2>1, <4>4, <5>1, WalkStarted
      <4>6. Walking(reading, 0)'
        BY <4>4, <4>5 DEF Walking, AtPart, AtEnd, Gathers, IsWalk, Packs
      <4>7. patch'.none /\ base'[Compression] = Lzx
        BY <3>1, <3>5 DEF patcherVars
      <4> QED BY <1>1, <4>1, <4>3, <4>6, <4>7, LoaderStill DEF LoaderInv, Phases, Loading, XexLoaded
    <3> QED BY <3>3, <3>4, <3>5
  <2> QED BY <2>2, <2>3
<1> QED BY <1>2, <1>3


\* The data of a block goes where the blocks before it end.
LEMMA BlockLoaded ==
  ASSUME UpdateInv, LoaderInv, UNCHANGED <<patcherVars, made>>, LoadBlock
  PROVE  LoaderInv'
<1>1. /\ phase = "blocks" /\ phase # "closed" /\ phase' = "blocks" /\ UNCHANGED <<file, frame>>
      /\ j' = j + 1 /\ j <= file[Info]
      /\ image' = Overlay(image, Total(WholeSizes(file), j - 1), Slice(Source, from, DataSize(file, j)))
      /\ from' = from + DataSize(file, j)
  BY DEF LoadBlock
<1>2. /\ base[Compression] = Basic /\ frame.magic = "XEX2" /\ patch.none
      /\ j \in 1 .. base[Info] + 1 /\ from = DataTotal(j - 1)
      /\ image = [k \in 0 .. base[ImageSize] - 1 |-> IF k < WholeTotal(j - 1) THEN made.image[k] ELSE 0]
  BY <1>1 DEF LoaderInv, Loading
<1>3. file = base /\ baseFrame.magic = "XEX2"
  BY <1>1, <1>2, Opened
<1>4. PICK n, l, m : n = j /\ l = j - 1 /\ m = Size(made.image) /\ m \in Nat /\ base[ImageSize] = m
  BY <1>3, BaseFacts DEF UpdateInv
<1>5. base[Info] \in Nat
  BY <1>2, <1>3, BlockFacts DEF UpdateInv
<1>6. n \in 1 .. base[Info] /\ n \in 0 .. base[Info] /\ l \in 0 .. base[Info] /\ l = n - 1
  BY <1>1, <1>2, <1>3, <1>4, <1>5
<1>7. PICK d, w, s, z : d = DataTotal(l) /\ w = WholeTotal(l) /\ s = DataSize(base, n) /\ z = ZeroSize(base, n)
  OBVIOUS
<1>8. /\ d \in Nat /\ w \in Nat /\ s \in Nat /\ z \in Nat
      /\ DataTotal(n) = d + s /\ WholeTotal(n) = w + s + z
      /\ d + s <= Size(made.body) /\ w + s + z <= m
      /\ \A k \in 0 .. s - 1 : made.body[d + k] = made.image[w + k]
      /\ \A k \in s .. s + z - 1 : made.image[w + k] = 0
  <2>1. /\ DataTotal(l) \in Nat /\ WholeTotal(l) \in Nat
        /\ DataTotal(n) <= Size(made.body) /\ WholeTotal(n) <= Size(made.image)
        /\ DataSize(base, n) \in Nat /\ ZeroSize(base, n) \in Nat
    BY <1>2, <1>3, <1>6, BlockFacts DEF UpdateInv
  <2>2. DataTotal(n) = DataTotal(n - 1) + DataSize(base, n)
        /\ WholeTotal(n) = WholeTotal(n - 1) + DataSize(base, n) + ZeroSize(base, n)
    BY <1>2, <1>3, <1>6, BlockFacts DEF UpdateInv
  <2>3. /\ \A k \in 0 .. DataSize(base, n) - 1 : made.body[DataTotal(n - 1) + k] = made.image[WholeTotal(n - 1) + k]
        /\ \A k \in DataSize(base, n) .. DataSize(base, n) + ZeroSize(base, n) - 1 :
             made.image[WholeTotal(n - 1) + k] = 0
    BY <1>2, <1>3, <1>6, BlockFacts DEF UpdateInv
  <2> QED BY <1>4, <1>6, <1>7, <2>1, <2>2, <2>3
<1>9. image' = Overlay(image, w, Slice(Source, d, s)) /\ from' = d + s
  BY <1>1, <1>2, <1>3, <1>4, <1>7 DEF WholeTotal
<1>10. image = [k \in 0 .. m - 1 |-> IF k < w THEN made.image[k] ELSE 0]
  BY <1>2, <1>4, <1>7
<1>11. PICK part : part = Slice(Source, d, s) /\ DOMAIN part = 0 .. s - 1 /\ \A k \in 0 .. s - 1 : part[k] = made.image[w + k]
  <2>1. \A k \in 0 .. Size(made.body) - 1 : Source[k] = made.body[k]
    BY <1>3, BaseSource DEF UpdateInv
  <2>2. Size(made.body) \in Nat
    BY <1>3, BaseFacts DEF UpdateInv
  <2>3. DOMAIN Slice(Source, d, s) = 0 .. s - 1 /\ \A k \in 0 .. s - 1 : Slice(Source, d, s)[k] = Source[d + k]
    BY SliceCells
  <2>4. \A k \in 0 .. s - 1 : d + k \in 0 .. Size(made.body) - 1
    BY <1>8, <2>2
  <2>5. \A k \in 0 .. s - 1 : Source[d + k] = made.body[d + k]
    BY <2>1, <2>4
  <2>6. \A k \in 0 .. s - 1 : made.body[d + k] = made.image[w + k]
    BY <1>8
  <2>7. \A k \in 0 .. s - 1 : Slice(Source, d, s)[k] = made.image[w + k]
    BY <2>3, <2>5, <2>6
  <2> QED BY <2>3, <2>7
<1>12. image' = [k \in 0 .. m - 1 |-> IF k - w \in 0 .. s - 1 THEN part[k - w] ELSE image[k]]
  BY <1>9, <1>10, <1>11 DEF Overlay
<1>13. ASSUME NEW k \in 0 .. m - 1
       PROVE  image'[k] = IF k < w + s + z THEN made.image[k] ELSE 0
  <2>1. CASE k < w
    BY <1>8, <1>10, <1>12, <2>1
  <2>2. CASE w <= k /\ k < w + s
    <3>1. PICK q \in 0 .. s - 1 : q = k - w /\ k = w + q
      BY <1>8, <2>2
    <3>2. image'[k] = part[q]
      BY <1>12, <3>1
    <3>3. part[q] = made.image[w + q]
      BY <1>11
    <3>4. k < w + s + z
      BY <1>8, <2>2
    <3> QED BY <3>1, <3>2, <3>3, <3>4
  <2>3. CASE w + s <= k /\ k < w + s + z
    <3>1. PICK q \in s .. s + z - 1 : q = k - w /\ k = w + q
      BY <1>8, <2>3
    <3>2. image'[k] = 0
      BY <1>8, <1>10, <1>12, <2>3
    <3>3. made.image[w + q] = 0
      BY <1>8
    <3> QED BY <2>3, <3>1, <3>2, <3>3
  <2>4. CASE w + s + z <= k
    BY <1>8, <1>10, <1>12, <2>4
  <2> QED BY <1>8, <2>1, <2>2, <2>3, <2>4
<1>14. image' = [k \in 0 .. m - 1 |-> IF k < WholeTotal(n) THEN made.image[k] ELSE 0]
  <2>1. \A k \in 0 .. m - 1 : image'[k] = IF k < WholeTotal(n) THEN made.image[k] ELSE 0
    BY <1>8, <1>13
  <2> QED BY <1>12, <2>1
<1>15. UNCHANGED <<base, baseFrame, patch>>
  BY DEF patcherVars
<1>16. DataTotal(j - 1)' = DataTotal(n) /\ WholeTotal(j - 1)' = WholeTotal(n)
  <2>1. DataTotal(n)' = DataTotal(n) /\ WholeTotal(n)' = WholeTotal(n)
    BY <1>15, SameBody
  <2>2. j' - 1 = n
    BY <1>1, <1>4, <1>6
  <2> QED BY <2>1, <2>2
<1>17. j' \in 1 .. base'[Info] + 1 /\ from' = DataTotal(j - 1)'
  BY <1>1, <1>4, <1>5, <1>6, <1>8, <1>9, <1>15, <1>16
<1>18. image' = [k \in 0 .. base'[ImageSize] - 1 |-> IF k < WholeTotal(j - 1)' THEN made'.image[k] ELSE 0]
  BY <1>4, <1>14, <1>15, <1>16
<1>19. DOMAIN image' = 0 .. file'[ImageSize] - 1 /\ file'[ImageSize] \in Nat
  BY <1>1, <1>3, <1>4, <1>14
<1>20. patch'.none /\ base'[Compression] = Basic
  BY <1>2, <1>15
<1> QED BY <1>1, <1>2, <1>17, <1>18, <1>19, <1>20, LoaderStill DEF LoaderInv, Phases, Loading, XexLoaded

\* With all blocks in place the image is there.
LEMMA AllBlocksLoaded ==
  ASSUME UpdateInv, LoaderInv, UNCHANGED <<patcherVars, made>>, BlocksLoaded
  PROVE  LoaderInv'
<1>1. /\ phase = "blocks" /\ phase # "closed" /\ phase' = "pe" /\ UNCHANGED <<file, frame, image>> /\ j > file[Info]
  BY DEF BlocksLoaded
<1>2. /\ patch.none /\ base[Compression] = Basic /\ frame.magic = "XEX2"
      /\ DOMAIN image = 0 .. file[ImageSize] - 1 /\ file[ImageSize] \in Nat
      /\ j \in 1 .. base[Info] + 1
      /\ image = [k \in 0 .. base[ImageSize] - 1 |-> IF k < WholeTotal(j - 1) THEN made.image[k] ELSE 0]
  BY <1>1 DEF LoaderInv, Loading
<1>3. file = base /\ baseFrame.magic = "XEX2" /\ Promised = made.image
  BY <1>1, <1>2, Opened
<1>4. PICK m : m = Size(made.image) /\ m \in Nat /\ base[ImageSize] = m
  BY <1>3, BaseFacts DEF UpdateInv
<1>5. base[Info] \in Nat /\ WholeTotal(base[Info]) = m
  BY <1>2, <1>3, <1>4, BlockFacts DEF UpdateInv
<1>6. j - 1 = base[Info]
  BY <1>1, <1>2, <1>3, <1>5
<1>7. image = [k \in 0 .. m - 1 |-> made.image[k]]
  <2>1. PICK w : w = WholeTotal(j - 1) /\ w = m
    BY <1>5, <1>6
  <2>2. \A k \in 0 .. m - 1 : k < w
    BY <1>4, <2>1
  <2> QED BY <1>2, <1>4, <2>1, <2>2
<1>8. image = made.image
  BY <1>3, <1>4, <1>7, MadeCells DEF UpdateInv
<1> QED BY <1>1, <1>2, <1>3, <1>8, LoaderStill DEF LoaderInv, Phases, Loading, XexLoaded

\* The walk over the chained blocks goes on.
LEMMA BlocksWalked ==
  ASSUME UpdateInv, LoaderInv, UNCHANGED <<patcherVars, made>>, ReadBlocks
  PROVE  LoaderInv'
<1>1. phase = "walk" /\ phase # "closed" /\ UNCHANGED <<file, frame, image>> /\ (reading.inBlock \/ reading.size # 0)
  BY DEF ReadBlocks, Invalid
<1>2. /\ patch.none /\ base[Compression] = Lzx /\ frame.magic = "XEX2" /\ Walking(reading, 0)
      /\ DOMAIN image = 0 .. file[ImageSize] - 1 /\ file[ImageSize] \in Nat
  BY <1>1 DEF LoaderInv, Loading
<1>3. file = base /\ baseFrame.magic = "XEX2"
  BY <1>1, <1>2, Opened
<1>4. CASE phase' = "invalid"
  BY <1>1, <1>4, LoaderStill DEF LoaderInv, Phases, Loading, XexLoaded
<1>5. CASE phase' # "invalid"
  <2>1. /\ phase' = "walk"
        /\ reading' = IF reading.inBlock THEN ChunkCopied(Source, reading) ELSE BlockOpened(Source, reading)
    BY <1>1, <1>5 DEF ReadBlocks, Invalid
  <2>2. Chained /\ 0 \in Nat
    BY <1>2, <1>3, ChainFacts DEF UpdateInv
  <2>3. HoldsBody(Source, 0)
    <3>1. DOMAIN made.body = 0 .. Size(made.body) - 1
      BY <1>3, BaseFacts DEF UpdateInv
    <3>2. \A k \in 0 .. Size(made.body) - 1 : Source[k] = made.body[k]
      BY <1>3, BaseSource DEF UpdateInv
    <3>3. \A k \in DOMAIN made.body : Source[0 + k] = made.body[k]
      BY <3>1, <3>2
    <3> QED BY <3>3 DEF HoldsBody
  <2>4. PICK r : r = reading'
    OBVIOUS
  <2>5. Walking(r, 0)
    <3>1. CASE reading.inBlock
      BY <1>2, <2>1, <2>2, <2>3, <2>4, <3>1, WalkCopied
    <3>2. CASE ~reading.inBlock
      BY <1>1, <1>2, <2>1, <2>2, <2>3, <2>4, <3>2, WalkOpened
    <3> QED BY <3>1, <3>2
  <2>6. Walking(reading, 0)'
    BY <2>4, <2>5 DEF Walking, AtPart, AtEnd, Gathers, IsWalk, Packs
  <2>7. patch'.none /\ base'[Compression] = Lzx
    BY <1>2 DEF patcherVars
  <2> QED BY <1>1, <1>2, <2>1, <2>6, <2>7, LoaderStill DEF LoaderInv, Phases, Loading, XexLoaded
<1> QED BY <1>4, <1>5

\* At its end the gathered data is expanded to the image.
LEMMA AllBlocksWalked ==
  ASSUME UpdateInv, LoaderInv, UNCHANGED <<patcherVars, made>>, BlocksRead
  PROVE  LoaderInv'
<1>1. /\ phase = "walk" /\ phase # "closed" /\ phase' = "pe" /\ UNCHANGED <<file, frame>>
      /\ ~reading.inBlock /\ reading.size = 0
      /\ image' = Expanded(Gathered(reading), file[ImageSize])
  BY DEF BlocksRead
<1>2. patch.none /\ base[Compression] = Lzx /\ frame.magic = "XEX2" /\ Walking(reading, 0)
  BY <1>1 DEF LoaderInv, Loading
<1>3. file = base /\ baseFrame.magic = "XEX2" /\ Promised = made.image
  BY <1>1, <1>2, Opened
<1>4. PICK m : m = Size(made.image) /\ m \in Nat /\ file[ImageSize] = m /\ DOMAIN made.image = 0 .. m - 1
  BY <1>3, BaseFacts DEF UpdateInv
<1>5. image' = made.image
  <2>1. Chained /\ 0 \in Nat
    BY <1>2, <1>3, ChainFacts DEF UpdateInv
  <2> QED BY <1>1, <1>2, <1>4, <2>1, WalkExpands
<1>6. DOMAIN image' = 0 .. file'[ImageSize] - 1 /\ file'[ImageSize] \in Nat
  BY <1>1, <1>4, <1>5
<1> QED BY <1>1, <1>2, <1>3, <1>5, <1>6, LoaderStill DEF LoaderInv, Phases, Loading, XexLoaded

\* The loader's part holds at first.
LEMMA LoaderInit == Init => LoaderInv
BY DEF Init, LoaderInv, Phases, Loading, XexLoaded

\* Linking an import keeps the image's size, and may be the end.
LEMMA LinkKeeps ==
  ASSUME LinkImport
  PROVE  phase' \in {"imports", "crashed"} /\ DOMAIN image' = DOMAIN image
<1>1. phase = "imports"
  BY DEF LinkImport
<1>2. CASE Find(program.imports[j].thunk) = {}
  BY <1>1, <1>2 DEF LinkImport
<1>3. CASE Find(program.imports[j].thunk) # {}
  <2>1. PICK k, word : k = (CHOOSE q \in Find(program.imports[j].thunk) : TRUE) /\ word = ImportWord(k)
    OBVIOUS
  <2>2. IF TypeOf(word) = 0
        THEN image' = [image EXCEPT ![k] = word] /\ UNCHANGED phase
        ELSE /\ image' = Overlay(image, k, Thunk)
             /\ phase' \in IF k + 3 \in DOMAIN image THEN {phase} ELSE {phase, "crashed"}
    BY <1>3, <2>1 DEF LinkImport
  <2> QED BY <1>1, <2>2 DEF Overlay
<1> QED BY <1>2, <1>3

\* Every step of the loader keeps it.
LEMMA LoadNext ==
  ASSUME UpdateInv, LoaderInv, UNCHANGED <<patcherVars, made>>, LoadImage
  PROVE  LoaderInv'
<1> USE DEF XexLoaded
<1>1. CASE ParseImage
  <2>1. phase = "file" /\ UNCHANGED <<file, frame>>
    BY <1>1 DEF ParseImage, Invalid
  <2>2. \/ phase' = "loaded" /\ frame.magic = "ELF"
        \/ phase' = "header" /\ frame.magic = "XEX2"
        \/ phase' = "invalid"
    BY <1>1 DEF ParseImage, Invalid
  <2> QED BY <2>1, <2>2, LoaderStill DEF LoaderInv, Phases, Loading
<1>2. CASE Load
  BY <1>2, LoadStarted
<1>3. CASE LoadBlock
  BY <1>3, BlockLoaded
<1>4. CASE BlocksLoaded
  BY <1>4, AllBlocksLoaded
<1>5. CASE ReadBlocks
  BY <1>5, BlocksWalked
<1>6. CASE BlocksRead
  BY <1>6, AllBlocksWalked
<1>7. CASE ReadPe
  <2>1. phase = "pe" /\ UNCHANGED <<file, frame, image>> /\ phase' \in {"sections", "invalid"}
    BY <1>7 DEF ReadPe, Invalid
  <2> QED BY <2>1, LoaderStill DEF LoaderInv, Phases, Loading
<1>8. CASE MapSection
  <2>1. phase = "sections" /\ UNCHANGED <<file, frame, image>> /\ phase' \in {"sections", "invalid"}
    BY <1>8 DEF MapSection, Invalid
  <2> QED BY <2>1, LoaderStill DEF LoaderInv, Phases, Loading
<1>9. CASE SectionsMapped
  <2>1. phase = "sections" /\ UNCHANGED <<file, frame, image>> /\ phase' = "imports"
    BY <1>9 DEF SectionsMapped
  <2> QED BY <2>1, LoaderStill DEF LoaderInv, Phases, Loading
<1>10. CASE LinkImport
  <2>1. /\ phase = "imports" /\ UNCHANGED <<file, frame>> /\ phase' \in {"imports", "crashed"}
        /\ DOMAIN image' = DOMAIN image
    BY <1>10, LinkKeeps DEF LinkImport
  <2> QED BY <2>1, LoaderStill DEF LoaderInv, Phases, Loading
<1>11. CASE ImportsDone
  <2>1. phase = "imports" /\ UNCHANGED <<file, frame, image>> /\ phase' = "loaded"
    BY <1>11 DEF ImportsDone
  <2> QED BY <2>1, LoaderStill DEF LoaderInv, Phases, Loading
<1> QED BY <1>1, <1>2, <1>3, <1>4, <1>5, <1>6, <1>7, <1>8, <1>9, <1>10, <1>11 DEF LoadImage

\* While the patcher works no file is open.
LEMMA PatchingFirst ==
  ASSUME UpdateInv, LoaderInv, Apply
  PROVE  phase = "closed"
<1>1. step # "start" /\ step # "done"
  BY DEF Apply, CheckHeaders, CheckPatch, MoveHeader, PatchHeader, CopyBody, CheckKeys, Decrypt, StartBasic,
         MoveBlock, BasicDone, StartLzx, WalkBlocks, LzxDone, Uncompressed, FormatAndMove, PatchImage, Finish
<1> QED BY <1>1 DEF UpdateInv, PatcherInv, LoaderInv

\* So does every other step.
LEMMA LoaderNext == UpdateInv /\ LoaderInv /\ [Next]_vars => LoaderInv'
<1> SUFFICES ASSUME UpdateInv, LoaderInv, [Next]_vars
             PROVE  LoaderInv'
  OBVIOUS
<1> USE DEF XexLoaded
<1>1. CASE Apply /\ UNCHANGED <<loaderVars, made>>
  <2>1. phase' = "closed"
    BY <1>1, PatchingFirst DEF loaderVars
  <2> QED BY <2>1 DEF LoaderInv, Phases, Loading
<1>2. CASE LoadImage /\ UNCHANGED <<patcherVars, made>>
  BY <1>2, LoadNext
<1>3. CASE Start
  <2>1. phase = "closed" /\ UNCHANGED <<base, patch>>
    BY <1>3 DEF Start
  <2>2. CASE patch.none
    <3>1. phase' = "file" /\ file' = base
      BY <1>3, <2>2 DEF Start
    <3> QED BY <2>1, <2>2, <3>1 DEF LoaderInv, Phases, Loading
  <2>3. CASE ~patch.none
    <3>1. phase' = "closed"
      BY <1>3, <2>1, <2>3 DEF Start
    <3> QED BY <3>1 DEF LoaderInv, Phases, Loading
  <2> QED BY <2>2, <2>3
<1>4. CASE OpenPatched
  <2>1. phase' = "file" /\ file' = out' /\ step' = "done" /\ UNCHANGED <<patch, step>>
    BY <1>4 DEF OpenPatched, patcherVars
  <2>2. ~patch'.none
    BY <2>1 DEF UpdateInv, PatcherInv
  <2> QED BY <2>1, <2>2 DEF LoaderInv, Phases, Loading
<1>5. CASE UNCHANGED vars
  <2>1. UNCHANGED <<patcherVars, made, file, frame, image, phase, j, from, reading>>
    BY <1>5 DEF vars, loaderVars
  <2>2. CASE phase = "closed"
    BY <2>1, <2>2 DEF LoaderInv, Phases, Loading
  <2>3. CASE phase # "closed"
    <3>1. UNCHANGED <<base, baseFrame, patch, Promised>> /\ (Deviates' <=> Deviates)
          /\ IF patch'.none THEN file' = base' ELSE step' = "done" /\ file' = out'
      BY <2>1, <2>3, LoaderStill
    <3>2. \A n : UNCHANGED <<DataTotal(n), WholeTotal(n)>>
      BY <2>1, <3>1, SameBody
    <3>3. Walking(reading, 0)' <=> Walking(reading, 0)
      BY <2>1 DEF Walking, AtPart, AtEnd, Gathers, IsWalk, Packs
    <3> QED BY <2>1, <2>3, <3>1, <3>2, <3>3 DEF LoaderInv
  <2> QED BY <2>2, <2>3
<1> QED BY <1>1, <1>2, <1>3, <1>4, <1>5 DEF Next


----------------------------------------------------------------------------
\* The sections of a XEX file.

\* Of a XEX2 file the tables are those of a program.
LEMMA XexProgram ==
  ASSUME MadeInv, frame.magic = "XEX2"
  PROVE  ProgramMade(program)
BY FilesAssumption DEF MadeInv, ElfFile

\* Of an ELF file they are those of an ELF file.
LEMMA ElfProgram ==
  ASSUME MadeInv, frame.magic = "ELF"
  PROVE  ElfMade(program)
BY FilesAssumption DEF MadeInv, BaseMade

\* No two sections share an address.
LEMMA SectionsApart ==
  ASSUME ProgramMade(program), NEW m \in 1 .. Len(program.sections), NEW n \in 1 .. Len(program.sections),
         program.sections[m].size # 0, program.sections[n].size # 0, m # n
  PROVE  Apart(program.sections[m].at, program.sections[m].size, program.sections[n].at, program.sections[n].size)
BY DEF ProgramMade

\* Addresses and sizes are numbers.
LEMMA SectionNumbers ==
  ASSUME ProgramMade(program), NEW m \in 1 .. Len(program.sections)
  PROVE  program.sections[m].at \in Nat /\ program.sections[m].size \in Nat
BY DEF ProgramMade

\* A section that is not empty joins those before it.
LEMMA SectionMapped ==
  ASSUME ProgramMade(program), NEW n \in 1 .. Len(program.sections), program.sections[n].size # 0
  PROVE  MapInto(Mapped(n - 1), SectionOf(n)) = Mapped(n)
<1>1. n \in Nat /\ n >= 1 /\ Len(program.sections) \in Nat
  BY DEF ProgramMade
<1>2. ASSUME NEW m \in 1 .. n - 1, program.sections[m].size # 0
      PROVE  SectionOf(m).base # SectionOf(n).base
  <2>1. m \in 1 .. Len(program.sections) /\ m # n
    BY <1>1
  <2>2. Apart(program.sections[m].at, program.sections[m].size, program.sections[n].at, program.sections[n].size)
    BY <1>2, <2>1, SectionsApart
  <2>3. /\ program.sections[m].at \in Nat /\ program.sections[m].size \in Nat
        /\ program.sections[n].at \in Nat /\ program.sections[n].size \in Nat
    BY <2>1, SectionNumbers
  <2>4. PICK a \in Nat, b \in Nat, s \in Nat, t \in Nat :
          /\ a = program.sections[m].at /\ b = program.sections[n].at
          /\ s = program.sections[m].size /\ t = program.sections[n].size
    BY <2>3
  <2>5. a # b
    <3>1. Apart(a, s, b, t) /\ s # 0 /\ t # 0
      BY <1>2, <2>2, <2>4
    <3> QED BY <3>1 DEF Apart
  <2>6. Base + a # Base + b
    BY <2>5, ImageAssumption
  <2> QED BY <2>4, <2>6 DEF SectionOf
<1>3. ~\E s \in Mapped(n - 1) : s.base = SectionOf(n).base
  BY <1>2 DEF Mapped
<1>4. Mapped(n) = Mapped(n - 1) \cup {SectionOf(n)}
  BY <1>1 DEF Mapped
<1> QED BY <1>3, <1>4 DEF MapInto

\* An empty one does not.
LEMMA SectionSkipped ==
  ASSUME ProgramMade(program), NEW n \in 1 .. Len(program.sections), program.sections[n].size = 0
  PROVE  Mapped(n - 1) = Mapped(n)
<1>1. n \in Nat /\ n >= 1
  BY DEF ProgramMade
<1> QED BY <1>1 DEF Mapped

\* An address is found in the section that holds it, and nowhere else.
LEMMA FindInXex ==
  ASSUME ProgramMade(program), file[ImageSize] \in Nat, sections = Mapped(Len(program.sections)),
         AllWithin(Len(program.sections)), NEW address \in Int
  PROVE  Find(address) = {k \in {address - Base} : InSection(k)}
<1>0. PICK I \in Nat, L \in Nat : I = file[ImageSize] /\ L = Len(program.sections)
  BY DEF ProgramMade
<1>1. Base \in Nat
  BY ImageAssumption
<1> DEFINE A(m) == program.sections[m].at
           S(m) == program.sections[m].size
           Reached(m) == A(m) <= address - Base /\ address - Base < A(m) + S(m) /\ address - Base < I
<1>2. ASSUME NEW m \in 1 .. L
      PROVE  A(m) \in Nat /\ S(m) \in Nat
  BY <1>0, SectionNumbers
<1>3. ASSUME NEW m \in 1 .. L, S(m) # 0
      PROVE  /\ SectionOf(m) \in sections /\ SectionOf(m).base = Base + A(m) /\ SectionOf(m).data = A(m)
             /\ A(m) < I /\ SectionOf(m).size = (IF S(m) > I - A(m) THEN I - A(m) ELSE S(m))
  BY <1>0, <1>3 DEF Mapped, SectionOf, Clamped, AllWithin
<1>4. ASSUME NEW s \in sections
      PROVE  \E m \in 1 .. L : S(m) # 0 /\ s = SectionOf(m)
  BY <1>0 DEF Mapped
<1>5. ASSUME NEW m \in 1 .. L, S(m) # 0
      PROVE  /\ SectionOf(m).base <= address <=> A(m) <= address - Base
             /\ SectionOf(m).base <= address /\ address < SectionOf(m).base + SectionOf(m).size <=> Reached(m)
  <2>1. PICK a \in Nat, z \in Nat : a = A(m) /\ z = S(m)
    BY <1>2
  <2>2. SectionOf(m).base = Base + a /\ SectionOf(m).size = (IF z > I - a THEN I - a ELSE z) /\ a < I
    BY <1>3, <1>5, <2>1
  <2>3. Reached(m) <=> (a <= address - Base /\ address - Base < a + z /\ address - Base < I)
    BY <2>1
  <2>4. PICK x \in Int, y \in Nat : x = address - Base /\ y = Base
    BY <1>1
  <2>5. address = y + x
    BY <2>4
  <2>6. /\ y + a <= y + x <=> a <= x
        /\ y + a <= y + x /\ y + x < (y + a) + (IF z > I - a THEN I - a ELSE z) <=> a <= x /\ x < a + z /\ x < I
    BY <2>2
  <2>7. /\ SectionOf(m).base = y + a /\ SectionOf(m).size = (IF z > I - a THEN I - a ELSE z)
        /\ A(m) = a /\ address - Base = x /\ (Reached(m) <=> a <= x /\ x < a + z /\ x < I)
    BY <2>1, <2>2, <2>3, <2>4
  <2> HIDE DEF Reached, A, S
  <2> QED BY <2>5, <2>6, <2>7
<1>6. ASSUME NEW m \in 1 .. L, NEW n \in 1 .. L, S(m) # 0, Reached(n), A(m) <= address - Base
      PROVE  A(m) <= A(n)
  <2>1. CASE m = n
    BY <1>2, <2>1
  <2>2. CASE m # n
    <3>1. PICK a \in Nat, b \in Nat, s \in Nat, t \in Nat : a = A(m) /\ b = A(n) /\ s = S(m) /\ t = S(n)
      BY <1>2
    <3>2. t # 0
      BY <1>1, <1>6, <3>1
    <3>3. Apart(a, s, b, t)
      BY <1>0, <1>6, <2>2, <3>1, <3>2, SectionsApart
    <3>4. a <= address - Base /\ b <= address - Base /\ address - Base < b + t
      BY <1>6, <3>1
    <3>5. a <= b
      BY <1>1, <3>3, <3>4 DEF Apart
    <3> QED BY <3>1, <3>5
  <2> QED BY <2>1, <2>2
<1>7. InSection(address - Base) <=> \E n \in 1 .. L : Reached(n)
  BY <1>0 DEF InSection
<1>8. ASSUME NEW s \in SectionAt(sections, address)
      PROVE  InSection(address - Base) /\ s.data + (address - s.base) = address - Base
  <2>1. s \in sections /\ s.base <= address /\ address < s.base + s.size
    BY DEF SectionAt
  <2>2. PICK m \in 1 .. L : S(m) # 0 /\ s = SectionOf(m)
    BY <1>4, <2>1
  <2>3. Reached(m)
    BY <1>5, <2>1, <2>2
  <2>4. s.base = Base + A(m) /\ s.data = A(m)
    BY <1>3, <2>2
  <2>5. PICK a \in Nat : a = A(m)
    BY <1>2
  <2>6. a + (address - (Base + a)) = address - Base
    BY <1>1
  <2> QED BY <1>7, <2>3, <2>4, <2>5, <2>6
<1>9. ASSUME InSection(address - Base)
      PROVE  \E s \in SectionAt(sections, address) : TRUE
  <2>1. PICK n \in 1 .. L : Reached(n)
    BY <1>7, <1>9
  <2>2. S(n) # 0
    <3>1. PICK a \in Nat, z \in Nat : a = A(n) /\ z = S(n)
      BY <1>2
    <3>2. a <= address - Base /\ address - Base < a + z
      BY <2>1, <3>1
    <3> QED BY <1>1, <3>1, <3>2
  <2>3. /\ SectionOf(n) \in sections /\ SectionOf(n).base <= address
        /\ address < SectionOf(n).base + SectionOf(n).size
    BY <1>3, <1>5, <2>1, <2>2
  <2>4. ASSUME NEW s \in sections, s.base <= address
        PROVE  s.base <= SectionOf(n).base
    <3>1. PICK m \in 1 .. L : S(m) # 0 /\ s = SectionOf(m)
      BY <1>4, <2>4
    <3>2. A(m) <= address - Base
      BY <1>5, <2>4, <3>1
    <3>3. A(m) <= A(n)
      BY <1>6, <2>1, <3>1, <3>2
    <3>4. s.base = Base + A(m) /\ SectionOf(n).base = Base + A(n)
      BY <1>3, <2>2, <3>1
    <3>5. PICK a \in Nat, b \in Nat : a = A(m) /\ b = A(n)
      BY <1>2
    <3>6. a <= b
      BY <3>3, <3>5
    <3>7. Base + a <= Base + b
      BY <1>1, <3>6
    <3> QED BY <3>4, <3>5, <3>7
  <2>5. SectionOf(n) \in SectionAt(sections, address)
    BY <2>3, <2>4 DEF SectionAt
  <2> QED BY <2>5
<1> HIDE DEF A, S, Reached
<1>10. Find(address) = {s.data + (address - s.base) : s \in SectionAt(sections, address)}
  BY DEF Find, OffsetsAt
<1> QED BY <1>8, <1>9, <1>10


----------------------------------------------------------------------------
\* The sections of an ELF file: of those with one address the first.

Present(m) == program.sections[m].type # Inactive /\ ~Shadowed(m)
ElfMapped(n) == {ElfSection(program, program.sections[m]) : m \in {m \in 1 .. n : Present(m)}}

\* Addresses and sizes are numbers, and the base that is subtracted is added again.
LEMMA ElfNumbers ==
  ASSUME ElfMade(program), NEW m \in 1 .. Len(program.sections)
  PROVE  /\ program.sections[m].address \in Nat /\ program.sections[m].size \in Nat /\ program.sections[m].at \in Nat
         /\ LET s == ElfSection(program, program.sections[m]) IN
            /\ s.base = program.sections[m].address /\ s.size = program.sections[m].size
            /\ s.data = program.sections[m].at
<1>1. /\ program.sections[m].address \in Nat /\ program.sections[m].size \in Nat /\ program.sections[m].at \in Nat
      /\ ElfBase(program) \in Nat
  BY DEF ElfMade
<1>2. PICK a \in Nat, b \in Nat : a = program.sections[m].address /\ b = ElfBase(program)
  BY <1>1
<1>3. b + (a - b) = a
  BY <1>2
<1>4. ElfBase(program) + (program.sections[m].address - ElfBase(program)) = program.sections[m].address
  BY <1>2, <1>3
<1> QED BY <1>1, <1>4 DEF ElfSection

\* Of the sections with one address there is a first one.
LEMMA FirstOfAddress ==
  ASSUME NEW n \in Nat, NEW a,
         \E m \in 1 .. n : program.sections[m].type # Inactive /\ program.sections[m].address = a
  PROVE  \E m \in 1 .. n : Present(m) /\ program.sections[m].address = a
<1> DEFINE U == {m \in Nat : m \in 1 .. n /\ program.sections[m].type # Inactive /\ program.sections[m].address = a}
<1>1. U # {}
  OBVIOUS
<1>2. PICK m \in U : \A k \in U : m <= k
  BY <1>1, LeastNatural
<1>3. m \in 1 .. n /\ program.sections[m].type # Inactive /\ program.sections[m].address = a
  OBVIOUS
<1>4. ~Shadowed(m)
  <2> SUFFICES ASSUME Shadowed(m)
               PROVE  FALSE
    OBVIOUS
  <2>1. PICK k \in 1 .. m - 1 : program.sections[k].type # Inactive /\ program.sections[k].address = a
    BY <1>3 DEF Shadowed
  <2>2. k \in U /\ ~(m <= k)
    BY <1>3, <2>1
  <2> QED BY <1>2, <2>2
<1> QED BY <1>3, <1>4 DEF Present

\* A section joins those before it if none of them has its address.
LEMMA ElfStep ==
  ASSUME ElfMade(program), NEW n \in 1 .. Len(program.sections)
  PROVE  ElfMapped(n) = IF program.sections[n].type = Inactive THEN ElfMapped(n - 1)
                        ELSE MapInto(ElfMapped(n - 1), ElfSection(program, program.sections[n]))
<1>1. n \in Nat /\ n >= 1 /\ Len(program.sections) \in Nat
  BY DEF ElfMade
<1>2. 1 .. n = (1 .. n - 1) \cup {n} /\ n - 1 \in Nat
  BY <1>1
<1>3. ~Present(n) => ElfMapped(n) = ElfMapped(n - 1)
  BY <1>2 DEF ElfMapped
<1>4. Present(n) => ElfMapped(n) = ElfMapped(n - 1) \cup {ElfSection(program, program.sections[n])}
  BY <1>2 DEF ElfMapped
<1>5. CASE program.sections[n].type = Inactive
  BY <1>3, <1>5 DEF Present
<1>6. CASE program.sections[n].type # Inactive
  <2> DEFINE new == ElfSection(program, program.sections[n])
  <2>1. new.base = program.sections[n].address
    BY ElfNumbers
  <2>2. ASSUME NEW m \in 1 .. n - 1
        PROVE  ElfSection(program, program.sections[m]).base = program.sections[m].address
    <3>1. m \in 1 .. Len(program.sections)
      BY <1>1
    <3> QED BY <3>1, ElfNumbers
  <2> HIDE DEF new
  <2>3. (\E s \in ElfMapped(n - 1) : s.base = new.base) <=> Shadowed(n)
    <3>1. ASSUME NEW s \in ElfMapped(n - 1), s.base = new.base
          PROVE  Shadowed(n)
      <4>1. PICK m \in 1 .. n - 1 : Present(m) /\ s = ElfSection(program, program.sections[m])
        BY DEF ElfMapped
      <4> QED BY <2>1, <2>2, <3>1, <4>1 DEF Shadowed, Present
    <3>2. ASSUME Shadowed(n)
          PROVE  \E s \in ElfMapped(n - 1) : s.base = new.base
      <4>1. \E m \in 1 .. n - 1 : Present(m) /\ program.sections[m].address = program.sections[n].address
        BY <1>2, <3>2, FirstOfAddress DEF Shadowed
      <4>2. PICK m \in 1 .. n - 1 : Present(m) /\ program.sections[m].address = program.sections[n].address
        BY <4>1
      <4>3. ElfSection(program, program.sections[m]) \in ElfMapped(n - 1)
        BY <4>2 DEF ElfMapped
      <4> QED BY <2>1, <2>2, <4>2, <4>3
    <3> QED BY <3>1, <3>2
  <2>4. CASE Shadowed(n)
    BY <1>3, <1>6, <2>3, <2>4 DEF Present, MapInto, new
  <2>5. CASE ~Shadowed(n)
    BY <1>4, <1>6, <2>3, <2>5 DEF Present, MapInto, new
  <2> QED BY <2>4, <2>5
<1> QED BY <1>5, <1>6

\* So all are there that no earlier one shadows.
LEMMA ElfAll ==
  ASSUME ElfMade(program)
  PROVE  ElfSections(program) = ElfMapped(Len(program.sections))
<1> DEFINE L == Len(program.sections)
           IsMap(f) == f = [n \in 0 .. L |-> IF n = 0 THEN {}
                                             ELSE IF program.sections[n].type = Inactive THEN f[n - 1]
                                             ELSE MapInto(f[n - 1], ElfSection(program, program.sections[n]))]
           g == CHOOSE f : IsMap(f)
           h == [n \in 0 .. L |-> ElfMapped(n)]
<1>1. L \in Nat
  BY DEF ElfMade
<1>2. ElfSections(program) = g[L]
  BY DEF ElfSections
<1>3. ElfMapped(0) = {}
  BY DEF ElfMapped
<1>4. IsMap(h)
  <2>1. ASSUME NEW n \in 0 .. L
        PROVE  ElfMapped(n) = IF n = 0 THEN {}
                              ELSE IF program.sections[n].type = Inactive THEN h[n - 1]
                              ELSE MapInto(h[n - 1], ElfSection(program, program.sections[n]))
    <3>1. CASE n = 0
      BY <1>3, <3>1
    <3>2. CASE n # 0
      <4>1. n \in 1 .. L /\ n - 1 \in 0 .. L
        BY <1>1, <3>2
      <4>2. h[n - 1] = ElfMapped(n - 1)
        BY <4>1
      <4> HIDE DEF h
      <4> QED BY <3>2, <4>1, <4>2, ElfStep
    <3> QED BY <3>1, <3>2
  <2> QED BY <2>1
<1> HIDE DEF h
<1>5. IsMap(g)
  BY <1>4
<1> HIDE DEF g
<1>6. g[0] = {}
  BY <1>1, <1>5
<1>7. \A n \in 1 .. L : g[n] = IF program.sections[n].type = Inactive THEN g[n - 1]
                               ELSE MapInto(g[n - 1], ElfSection(program, program.sections[n]))
  <2> TAKE n \in 1 .. L
  <2>1. n \in 0 .. L /\ n # 0
    BY <1>1
  <2>2. \A k \in 0 .. L : g[k] = IF k = 0 THEN {}
                                 ELSE IF program.sections[k].type = Inactive THEN g[k - 1]
                                 ELSE MapInto(g[k - 1], ElfSection(program, program.sections[k]))
    BY <1>5
  <2> HIDE DEF IsMap, L
  <2> QED BY <2>1, <2>2
<1> HIDE DEF IsMap
<1> DEFINE U == {n \in Nat : n <= L /\ g[n] # ElfMapped(n)}
<1>8. U = {}
  <2> SUFFICES ASSUME U # {}
               PROVE  FALSE
    OBVIOUS
  <2>1. PICK m \in U : \A k \in U : m <= k
    BY LeastNatural
  <2>2. m \in Nat /\ m <= L /\ g[m] # ElfMapped(m)
    OBVIOUS
  <2>3. m # 0
    BY <1>3, <1>6, <2>2
  <2>4. m - 1 \in Nat /\ m - 1 <= L /\ m - 1 \notin U /\ m \in 1 .. L
    BY <1>1, <2>1, <2>2, <2>3
  <2>5. g[m - 1] = ElfMapped(m - 1)
    BY <2>4
  <2> QED BY <1>7, <2>2, <2>4, <2>5, ElfStep
<1> QED BY <1>1, <1>2, <1>8

\* An address that one section alone covers is found there, others not at all.
LEMMA FindInElf ==
  ASSUME ElfMade(program), sections = ElfMapped(Len(program.sections)), NEW address \in Int
  PROVE  LET covering == {n \in 1 .. Len(program.sections) : Covers(n, address)} IN
         /\ covering = {} => Find(address) = {}
         /\ \A n \in covering :
              ~Shadowed(n) /\ covering = {n} =>
                Find(address) = {program.sections[n].at + (address - program.sections[n].address)}
<1> DEFINE L == Len(program.sections)
           A(m) == program.sections[m].address
           S(m) == program.sections[m].size
           E(m) == ElfSection(program, program.sections[m])
<1>1. ASSUME NEW m \in 1 .. L
      PROVE  /\ A(m) \in Nat /\ S(m) \in Nat
             /\ E(m).base = A(m) /\ E(m).size = S(m) /\ E(m).data = program.sections[m].at
  BY ElfNumbers
<1>2. L \in Nat
  BY DEF ElfMade
<1>3. ASSUME NEW s \in sections
      PROVE  \E m \in 1 .. L : Present(m) /\ s = E(m)
  BY DEF ElfMapped
<1>4. ASSUME NEW m \in 1 .. L, Present(m)
      PROVE  E(m) \in sections
  BY <1>4 DEF ElfMapped
<1>5. ASSUME NEW s \in SectionAt(sections, address)
      PROVE  \E m \in 1 .. L : Present(m) /\ s = E(m) /\ Covers(m, address)
  <2>1. s \in sections /\ s.base <= address /\ address < s.base + s.size
    BY DEF SectionAt
  <2>2. PICK m \in 1 .. L : Present(m) /\ s = E(m)
    BY <1>3, <2>1
  <2>3. A(m) <= address /\ address < A(m) + S(m)
    BY <1>1, <2>1, <2>2
  <2> QED BY <2>2, <2>3 DEF Present, Covers
<1>6. Find(address) = {s.data + (address - s.base) : s \in SectionAt(sections, address)}
  BY DEF Find, OffsetsAt
<1>7. ASSUME {n \in 1 .. L : Covers(n, address)} = {}
      PROVE  Find(address) = {}
  BY <1>5, <1>6, <1>7
<1>8. ASSUME NEW n \in 1 .. L, Covers(n, address), ~Shadowed(n), {m \in 1 .. L : Covers(m, address)} = {n}
      PROVE  Find(address) = {program.sections[n].at + (address - program.sections[n].address)}
  <2>1. Present(n) /\ A(n) <= address /\ address < A(n) + S(n)
    BY <1>8 DEF Present, Covers
  <2>2. E(n) \in sections
    BY <1>4, <2>1
  <2>3. ASSUME NEW s \in sections, s.base <= address
        PROVE  s.base <= E(n).base
    <3>1. PICK m \in 1 .. L : Present(m) /\ s = E(m)
      BY <1>3, <2>3
    <3>2. PICK a \in Nat, b \in Nat, x \in Nat, y \in Nat : a = A(m) /\ b = A(n) /\ x = S(m) /\ y = S(n)
      BY <1>1
    <3>3. s.base = a /\ E(n).base = b
      BY <1>1, <3>1, <3>2
    <3>4. a # b => Apart(a, x, b, y)
      <4>1. program.sections[m].type # Inactive /\ program.sections[n].type # Inactive
        BY <2>1, <3>1 DEF Present
      <4> QED BY <3>2, <4>1 DEF ElfMade
    <3>5. a <= address /\ address < b + y
      BY <2>1, <2>3, <3>2, <3>3
    <3>6. a <= b
      BY <3>4, <3>5 DEF Apart
    <3> QED BY <3>3, <3>6
  <2>4. E(n).base <= address /\ address < E(n).base + E(n).size
    BY <1>1, <2>1
  <2>5. E(n) \in SectionAt(sections, address)
    BY <2>2, <2>3, <2>4 DEF SectionAt
  <2>6. SectionAt(sections, address) = {E(n)}
    BY <1>5, <1>8, <2>5
  <2>7. E(n).data = program.sections[n].at /\ E(n).base = program.sections[n].address
    BY <1>1
  <2> HIDE DEF E
  <2> QED BY <1>6, <2>6, <2>7
<1> QED BY <1>7, <1>8


\* No step but the mapping of sections concerns them.
LEMMA SectionsStill ==
  ASSUME SectionsInv, UNCHANGED <<file, frame, program, sections, phase, j>>
  PROVE  SectionsInv'
<1>1. UNCHANGED ElfSections(program)
  BY DEF ElfSections
<1>2. \A n : UNCHANGED Mapped(n)
  BY DEF Mapped, SectionOf, Clamped
<1>3. \A n : UNCHANGED AllWithin(n)
  BY DEF AllWithin
<1> QED BY <1>1, <1>2, <1>3 DEF SectionsInv, XexLoaded

\* No section is mapped at first.
LEMMA SectionsInit == Init => SectionsInv
BY DEF Init, SectionsInv, XexLoaded

\* Every step keeps what is said about sections.
LEMMA SectionsNext == UpdateInv /\ LoaderInv /\ SectionsInv /\ [Next]_vars => SectionsInv'
<1> SUFFICES ASSUME UpdateInv, LoaderInv, SectionsInv, [Next]_vars
             PROVE  SectionsInv'
  OBVIOUS
<1>1. CASE Apply /\ UNCHANGED <<loaderVars, made>>
  BY <1>1, SectionsStill DEF loaderVars
<1>2. CASE Start
  <2>1. phase = "closed" /\ phase' \in {"closed", "file"} /\ UNCHANGED sections
    BY <1>2 DEF Start
  <2> QED BY <2>1 DEF SectionsInv, XexLoaded
<1>3. CASE OpenPatched
  <2>1. phase = "closed" /\ phase' = "file" /\ UNCHANGED sections
    BY <1>3 DEF OpenPatched
  <2> QED BY <2>1 DEF SectionsInv, XexLoaded
<1>4. CASE UNCHANGED vars
  BY <1>4, SectionsStill DEF vars, loaderVars
<1>5. CASE LoadImage
  <2>1. CASE ParseImage
    <3>1. \/ phase' = "loaded" /\ frame'.magic = "ELF" /\ sections' = ElfSections(program) /\ UNCHANGED program
          \/ phase' = "header" /\ phase = "file" /\ UNCHANGED sections
          \/ phase' = "invalid"
      BY <2>1 DEF ParseImage, Invalid
    <3>2. CASE phase' = "loaded"
      <4>1. frame'.magic = "ELF" /\ sections' = ElfSections(program)'
        BY <3>1, <3>2 DEF ElfSections
      <4> QED BY <3>2, <4>1 DEF SectionsInv, XexLoaded
    <3> QED BY <3>1, <3>2 DEF SectionsInv, XexLoaded
  <2>2. CASE Load
    <3>1. phase = "header" /\ UNCHANGED sections
      BY <2>2 DEF Load, Invalid
    <3>2. phase' = "invalid" \/ (j' = 1 /\ phase' \in {"pe", "blocks", "walk"})
      <4>1. file[Compression] \in {None, Basic, Lzx} \/ phase' = "invalid"
        <5>1. CASE patch.none
          <6>1. file = base
            BY <3>1, <5>1 DEF LoaderInv
          <6>2. file[Compression] \in {None, Basic, Lzx, Delta}
            <7>1. baseFrame.magic = "XEX2"
              BY <3>1, Opened DEF LoaderInv
            <7> QED BY <6>1, <7>1, BaseFacts DEF UpdateInv
          <6>3. file[Compression] = Delta => phase' = "invalid"
            BY <2>2 DEF Load, Invalid, Delta, Lzx
          <6> QED BY <6>2, <6>3
        <5>2. CASE ~patch.none
          BY <3>1, <5>2, PatchedSource DEF LoaderInv
        <5> QED BY <5>1, <5>2
      <4> QED BY <2>2, <4>1 DEF Load, Invalid, None, Basic, Lzx
    <3> QED BY <3>1, <3>2 DEF SectionsInv, XexLoaded
  <2>3. CASE LoadBlock
    <3>1. phase = "blocks" /\ phase' = "blocks" /\ UNCHANGED sections
      BY <2>3 DEF LoadBlock
    <3> QED BY <3>1 DEF SectionsInv, XexLoaded
  <2>4. CASE BlocksLoaded
    <3>1. phase = "blocks" /\ phase' = "pe" /\ j' = 1 /\ UNCHANGED sections
      BY <2>4 DEF BlocksLoaded
    <3> QED BY <3>1 DEF SectionsInv, XexLoaded
  <2>5. CASE ReadBlocks
    <3>1. phase = "walk" /\ UNCHANGED <<j, sections>> /\ phase' \in {"walk", "invalid"}
      BY <2>5 DEF ReadBlocks, Invalid
    <3> QED BY <3>1 DEF SectionsInv, XexLoaded
  <2>6. CASE BlocksRead
    <3>1. phase = "walk" /\ UNCHANGED <<j, sections>> /\ phase' = "pe"
      BY <2>6 DEF BlocksRead
    <3> QED BY <3>1 DEF SectionsInv, XexLoaded
  <2>7. CASE ReadPe
    <3>1. phase = "pe" /\ UNCHANGED <<j, sections, program, file>> /\ phase' \in {"sections", "invalid"}
      BY <2>7 DEF ReadPe, Invalid
    <3>2. CASE phase' = "sections"
      <4>1. Len(program.sections) \in Nat
        BY <3>1, XexProgram DEF UpdateInv, LoaderInv, Loading, ProgramMade
      <4>2. sections' = {} /\ j' = 1 /\ j' - 1 = 0 /\ j' \in 1 .. Len(program'.sections) + 1
        BY <3>1, <4>1 DEF SectionsInv, XexLoaded
      <4>3. Mapped(0)' = {} /\ AllWithin(0)'
        BY DEF Mapped, AllWithin
      <4> QED BY <3>2, <4>2, <4>3 DEF SectionsInv, XexLoaded
    <3> QED BY <3>1, <3>2 DEF SectionsInv, XexLoaded
  <2>8. CASE MapSection
    <3>1. /\ phase = "sections" /\ UNCHANGED <<program, file>> /\ phase' \in {"sections", "invalid"}
          /\ j <= Len(program.sections)
      BY <2>8 DEF MapSection, Invalid
    <3>2. CASE phase' = "sections"
      <4>1. ProgramMade(program)
        BY <3>1, XexProgram DEF UpdateInv, LoaderInv, Loading
      <4>2. PICK n \in 1 .. Len(program.sections) : n = j
        BY <3>1, <4>1 DEF SectionsInv, ProgramMade
      <4>3. sections = Mapped(n - 1) /\ AllWithin(n - 1)
        BY <3>1, <4>2 DEF SectionsInv, XexLoaded
      <4>4. /\ program.sections[n].size # 0 => program.sections[n].at < file[ImageSize]
            /\ sections' = IF program.sections[n].size = 0 THEN sections ELSE MapInto(sections, SectionOf(n))
            /\ j' = n + 1
        <5>1. ~(program.sections[j].size # 0 /\ program.sections[j].at >= file[ImageSize])
          BY <2>8, <3>2 DEF MapSection, Invalid
        <5>2. sections' = IF program.sections[j].size = 0 THEN sections ELSE MapInto(sections, SectionOf(j))
          BY <2>8, <3>2 DEF MapSection, Invalid, SectionOf
        <5>3. j' = j + 1
          BY <2>8, <3>2 DEF MapSection, Invalid
        <5>4. PICK a \in Nat, x \in Nat : a = program.sections[n].at /\ x = file[ImageSize]
          BY <3>1, <4>1, SectionNumbers DEF LoaderInv, Loading
        <5>5. program.sections[n].size # 0 => ~(a >= x)
          BY <4>2, <5>1, <5>4
        <5> QED BY <4>2, <5>2, <5>3, <5>4, <5>5
      <4>5. sections' = Mapped(n)
        BY <4>1, <4>3, <4>4, SectionMapped, SectionSkipped
      <4>6. AllWithin(n)
        <5>1. \A m \in 1 .. n : m \in 1 .. n - 1 \/ m = n
          BY <4>1 DEF ProgramMade
        <5> QED BY <4>3, <4>4, <5>1 DEF AllWithin
      <4>7. UNCHANGED <<Mapped(n), AllWithin(n)>>
        BY <3>1 DEF Mapped, SectionOf, Clamped, AllWithin
      <4>8. j' \in 1 .. Len(program'.sections) + 1 /\ j' - 1 = n
        BY <3>1, <4>1, <4>4 DEF ProgramMade
      <4> QED BY <3>2, <4>5, <4>6, <4>7, <4>8 DEF SectionsInv, XexLoaded
    <3> QED BY <3>1, <3>2 DEF SectionsInv, XexLoaded
  <2>9. CASE SectionsMapped
    <3>1. /\ phase = "sections" /\ UNCHANGED <<program, file, sections>> /\ phase' = "imports"
          /\ j > Len(program.sections)
      BY <2>9 DEF SectionsMapped
    <3>2. PICK L \in Nat : L = Len(program.sections)
      BY <3>1, XexProgram DEF UpdateInv, LoaderInv, Loading, ProgramMade
    <3>3. j - 1 = L
      BY <3>1, <3>2 DEF SectionsInv, XexLoaded
    <3>4. sections' = Mapped(L) /\ AllWithin(L)
      BY <3>1, <3>3 DEF SectionsInv, XexLoaded
    <3>5. UNCHANGED <<Mapped(L), AllWithin(L)>>
      BY <3>1 DEF Mapped, SectionOf, Clamped, AllWithin
    <3> QED BY <3>1, <3>2, <3>4, <3>5 DEF SectionsInv, XexLoaded
  <2>10. CASE LinkImport
    <3>1. phase = "imports" /\ UNCHANGED <<program, file, sections, frame>>
      BY <2>10 DEF LinkImport
    <3>0. phase' \in {"imports", "crashed"}
      BY <3>1, <2>10, LinkKeeps
    <3>2. UNCHANGED <<Mapped(Len(program.sections)), AllWithin(Len(program.sections))>>
      BY <3>1 DEF Mapped, SectionOf, Clamped, AllWithin
    <3> QED BY <3>0, <3>1, <3>2 DEF SectionsInv, XexLoaded
  <2>11. CASE ImportsDone
    <3>1. phase = "imports" /\ phase' = "loaded" /\ UNCHANGED <<program, file, sections, frame>>
      BY <2>11 DEF ImportsDone
    <3>2. frame.magic = "XEX2"
      BY <3>1 DEF LoaderInv, Loading
    <3>3. UNCHANGED <<Mapped(Len(program.sections)), AllWithin(Len(program.sections))>>
      BY <3>1 DEF Mapped, SectionOf, Clamped, AllWithin
    <3> QED BY <3>1, <3>2, <3>3 DEF SectionsInv, XexLoaded
  <2> QED BY <1>5, <2>1, <2>2, <2>3, <2>4, <2>5, <2>6, <2>7, <2>8, <2>9, <2>10, <2>11 DEF LoadImage
<1> QED BY <1>1, <1>2, <1>3, <1>4, <1>5 DEF Next


----------------------------------------------------------------------------
\* Imports.

\* Import n is found or not, and joins those before it.
LEMMA FoundNext ==
  ASSUME NEW n \in Nat, n >= 1
  PROVE  /\ InSection(Offset(n)) => FoundOf(n) = FoundOf(n - 1) \cup {n}
         /\ ~InSection(Offset(n)) => FoundOf(n) = FoundOf(n - 1)
         /\ n \notin FoundOf(n - 1)
<1>1. 1 .. n = (1 .. n - 1) \cup {n} /\ n \notin 1 .. n - 1
  OBVIOUS
<1> QED BY <1>1 DEF FoundOf

\* A function that is found and has a name adds a symbol.
LEMMA SymbolsNext ==
  ASSUME NEW n \in Nat, n >= 1
  PROVE  Symbols(n) =
           IF InSection(Offset(n)) /\ IsFunction(n) /\ OrdinalOf(WordOf(n)) \in program.imports[n].names
             THEN Symbols(n - 1) \cup {<<OrdinalOf(WordOf(n)), program.imports[n].thunk>>} ELSE Symbols(n - 1)
BY FoundNext DEF Symbols

\* When no word is visited twice, the ones of an import are nobody else's.
LEMMA ReachesApart ==
  ASSUME NEW n \in Found, NEW m \in Found, n # m, ~VisitedTwice, NEW k \in Reach(n)
  PROVE  k \notin Reach(m)
BY DEF VisitedTwice

\* What linking import n makes of the image and the symbols.
LEMMA LinkStep ==
  ASSUME UpdateInv, LoaderInv, SectionsInv, LinkImport, NEW n \in 1 .. Len(program.imports), n = j
  PROVE  /\ j' = n + 1 /\ UNCHANGED <<program, file, frame, sections>>
         /\ ~InSection(Offset(n)) => UNCHANGED <<image, symbols, phase>>
         /\ InSection(Offset(n)) =>
              /\ TypeOf(ImportWord(Offset(n))) = 0 =>
                   image' = [image EXCEPT ![Offset(n)] = ImportWord(Offset(n))] /\ UNCHANGED <<symbols, phase>>
              /\ TypeOf(ImportWord(Offset(n))) # 0 =>
                   /\ symbols' = IF OrdinalOf(ImportWord(Offset(n))) \in program.imports[n].names
                                   THEN symbols \cup {<<OrdinalOf(ImportWord(Offset(n))), program.imports[n].thunk>>}
                                   ELSE symbols
                   /\ image' = Overlay(image, Offset(n), Thunk)
                   /\ phase' \in IF Offset(n) + 3 \in DOMAIN image THEN {phase} ELSE {phase, "crashed"}
<1>1. phase = "imports" /\ UNCHANGED <<program, file, frame, sections>> /\ j' = n + 1
  BY DEF LinkImport
<1>2. ProgramMade(program)
  BY <1>1, XexProgram DEF UpdateInv, LoaderInv, Loading
<1>3. Find(program.imports[n].thunk) = {k \in {Offset(n)} : InSection(k)}
  <2>1. /\ sections = Mapped(Len(program.sections)) /\ AllWithin(Len(program.sections))
        /\ file[ImageSize] \in Nat
    BY <1>1 DEF SectionsInv, LoaderInv, Loading
  <2>2. program.imports[n].thunk \in Int
    BY <1>2 DEF ProgramMade
  <2> QED BY <1>2, <2>1, <2>2, FindInXex DEF Offset
<1>4. CASE ~InSection(Offset(n))
  <2>1. Find(program.imports[j].thunk) = {}
    BY <1>3, <1>4
  <2>2. UNCHANGED <<image, symbols, phase>>
    BY <2>1 DEF LinkImport
  <2> QED BY <1>1, <1>4, <2>2
<1>5. CASE InSection(Offset(n))
  <2>1. Find(program.imports[j].thunk) = {Offset(n)}
    BY <1>3, <1>5
  <2>2. PICK k, word : k = (CHOOSE q \in Find(program.imports[j].thunk) : TRUE) /\ word = ImportWord(k)
    OBVIOUS
  <2>3. k = Offset(n) /\ word = ImportWord(Offset(n)) /\ Find(program.imports[j].thunk) # {}
    BY <2>1, <2>2
  <2>4. IF TypeOf(word) = 0
        THEN image' = [image EXCEPT ![k] = word] /\ UNCHANGED <<symbols, phase>>
        ELSE /\ symbols' = IF OrdinalOf(word) \in program.imports[j].names
                             THEN symbols \cup {<<OrdinalOf(word), program.imports[j].thunk>>} ELSE symbols
             /\ image' = Overlay(image, k, Thunk)
             /\ phase' \in IF k + 3 \in DOMAIN image THEN {phase} ELSE {phase, "crashed"}
    BY <2>2, <2>3 DEF LinkImport
  <2> QED BY <1>1, <1>5, <2>3, <2>4
<1> QED BY <1>4, <1>5

\* What has been linked is a matter of what has been loaded.
LEMMA SameLinks ==
  ASSUME UpdateInv, LoaderInv, phase # "closed", UNCHANGED <<patcherVars, made, file, frame, program>>
  PROVE  /\ (Deviates' <=> Deviates) /\ (VisitedTwice' <=> VisitedTwice) /\ UNCHANGED <<Promised, Found>>
         /\ \A n : UNCHANGED <<FoundOf(n), Symbols(n), Offset(n), WordOf(n), Reach(n)>> /\ (IsFunction(n)' <=> IsFunction(n))
<1>1. (Deviates' <=> Deviates) /\ Promised' = Promised
  BY LoaderStill
<1>2. \A n : UNCHANGED <<Offset(n), FoundOf(n)>> /\ UNCHANGED Found
  BY DEF FoundOf, Found, InSection, Offset
<1>3. \A n : UNCHANGED WordOf(n) /\ (IsFunction(n)' <=> IsFunction(n))
  BY <1>1, <1>2 DEF WordOf, IsFunction, Swapped, TypeOf
<1>4. \A n : UNCHANGED Reach(n)
  BY <1>2, <1>3 DEF Reach
<1>5. VisitedTwice' <=> VisitedTwice
  BY <1>2, <1>4 DEF VisitedTwice
<1>6. \A n : UNCHANGED Symbols(n)
  BY <1>2, <1>3 DEF Symbols, OrdinalOf
<1> QED BY <1>1, <1>2, <1>3, <1>4, <1>5, <1>6

\* Linked imports stay so while nothing is done to them.
LEMMA LinkedStill ==
  ASSUME NEW n, UpdateInv, LoaderInv, LinkedBy(n), phase # "closed",
         UNCHANGED <<patcherVars, made, file, frame, program, image, symbols>>
  PROVE  LinkedBy(n)'
<1>1. \A k : (LinkedCell(n, k)' <=> LinkedCell(n, k)) /\ (Untouched(n, k)' <=> Untouched(n, k))
  BY SameLinks DEF LinkedCell, Untouched
<1>2. (Deviates' <=> Deviates) /\ (VisitedTwice' <=> VisitedTwice) /\ Symbols(n)' = Symbols(n)
  BY SameLinks
<1> QED BY <1>1, <1>2 DEF LinkedBy

\* An import that is found is in the image.
LEMMA ImportPlace ==
  ASSUME ProgramMade(program), file[ImageSize] \in Nat, NEW n \in Nat, InSection(Offset(n)),
         program.imports[n].thunk \in Nat
  PROVE  Offset(n) \in 0 .. file[ImageSize] - 1
<1>1. PICK m \in 1 .. Len(program.sections) :
        LET s == program.sections[m] IN
        s.at <= Offset(n) /\ Offset(n) < s.at + s.size /\ Offset(n) < file[ImageSize]
  BY DEF InSection
<1>2. program.sections[m].at \in Nat
  BY SectionNumbers
<1>3. Offset(n) \in Int
  BY ImageAssumption DEF Offset
<1> QED BY <1>1, <1>2, <1>3

\* The cells outside the import's four are left alone.
LEMMA OnlyReached ==
  ASSUME UpdateInv, LoaderInv, SectionsInv, LinkImport, NEW n \in 1 .. Len(program.imports), n = j,
         Offset(n) \in Int, NEW k \in DOMAIN image, k \in Int
  PROVE  /\ DOMAIN image' = DOMAIN image
         /\ ~InSection(Offset(n)) \/ k \notin Offset(n) .. Offset(n) + 3 => image'[k] = image[k]
         /\ TypeOf(ImportWord(Offset(n))) = 0 /\ k # Offset(n) => image'[k] = image[k]
         /\ InSection(Offset(n)) /\ TypeOf(ImportWord(Offset(n))) = 0 /\ k = Offset(n) => image'[k] = ImportWord(k)
         /\ InSection(Offset(n)) /\ TypeOf(ImportWord(Offset(n))) # 0 /\ k \in Offset(n) .. Offset(n) + 3 =>
              image'[k] = Thunk[k - Offset(n)]
<1>1. PICK at, word : at = Offset(n) /\ word = ImportWord(Offset(n)) /\ at \in Int
  OBVIOUS
<1>2. k \in at .. at + 3 <=> k - at \in 0 .. 3
  BY <1>1
<1>3. k = at => k \in at .. at + 3
  BY <1>1
<1>4. DOMAIN Thunk = 0 .. 3
  BY ImageAssumption
<1>5. Overlay(image, at, Thunk)[k] = IF k \in at .. at + 3 THEN Thunk[k - at] ELSE image[k]
  BY <1>2, <1>4 DEF Overlay
<1>6. CASE ~InSection(Offset(n))
  BY <1>6, LinkStep
<1>7. CASE InSection(Offset(n)) /\ TypeOf(word) = 0
  <2>1. image' = [image EXCEPT ![at] = word]
    BY <1>1, <1>7, LinkStep
  <2> QED BY <1>1, <1>3, <1>7, <2>1
<1>8. CASE InSection(Offset(n)) /\ TypeOf(word) # 0
  <2>1. image' = Overlay(image, at, Thunk)
    BY <1>1, <1>8, LinkStep
  <2>2. DOMAIN image' = DOMAIN image
    BY <2>1 DEF Overlay
  <2> QED BY <1>1, <1>3, <1>5, <1>8, <2>1, <2>2
<1> QED BY <1>6, <1>7, <1>8, <1>1

\* An import is linked, and those before it stay linked.
LEMMA Linked ==
  ASSUME UpdateInv, LoaderInv, SectionsInv, ImportsInv, UNCHANGED <<patcherVars, made>>, LinkImport
  PROVE  ImportsInv'
<1>1. /\ phase = "imports" /\ phase # "closed" /\ UNCHANGED <<program, file, frame, sections>>
      /\ j <= Len(program.imports) /\ frame.magic = "XEX2" /\ phase' \in {"imports", "crashed"}
  BY LinkKeeps DEF LinkImport, LoaderInv, Loading
<1>2. ProgramMade(program) /\ DOMAIN image = 0 .. file[ImageSize] - 1 /\ file[ImageSize] \in Nat
  BY <1>1, XexProgram DEF UpdateInv, LoaderInv, Loading
<1>3. PICK n \in 1 .. Len(program.imports) : n = j
  BY <1>1, <1>2 DEF ImportsInv, ProgramMade
<1>4. n \in Nat /\ n >= 1 /\ n - 1 \in Nat /\ Len(program.imports) \in Nat /\ n \in 1 .. n
  BY <1>2 DEF ProgramMade
<1>5. LinkedBy(n - 1)
  BY <1>1, <1>3 DEF ImportsInv
<1>6. program.imports[n].thunk \in Nat /\ Offset(n) \in Int
  BY <1>2, ImageAssumption DEF ProgramMade, Offset
<1>7. InSection(Offset(n)) => Offset(n) \in DOMAIN image /\ n \in Found /\ Offset(n) \in Reach(n)
  <2>1. ASSUME InSection(Offset(n))
        PROVE  Offset(n) \in DOMAIN image
    BY <1>2, <1>4, <1>6, <2>1, ImportPlace
  <2> QED BY <1>6, <2>1 DEF Found, Reach
<1>8. \A k \in DOMAIN image : k \in Int
  BY <1>2
<1>9. DOMAIN image' = DOMAIN image
  BY LinkKeeps
<1>10. ASSUME ~Deviates, NEW k \in DOMAIN image, \A m \in FoundOf(n) : k \notin Offset(m) .. Offset(m) + 3
       PROVE  image'[k] = Promised[k]
  <2>1. \A m \in FoundOf(n - 1) : k \notin Offset(m) .. Offset(m) + 3
    BY <1>4, <1>10, FoundNext
  <2>2. image[k] = Promised[k]
    BY <1>5, <1>10, <2>1 DEF LinkedBy, Untouched
  <2>3. ~InSection(Offset(n)) \/ k \notin Offset(n) .. Offset(n) + 3
    BY <1>4, <1>10, FoundNext
  <2> QED BY <1>3, <1>6, <1>8, <2>2, <2>3, OnlyReached
<1>11. ASSUME NEW m \in FoundOf(n - 1)
       PROVE  m \in Found /\ m # n
  BY <1>4 DEF FoundOf, Found
<1>12. ASSUME ~Deviates, ~VisitedTwice, InSection(Offset(n))
       PROVE  ImportWord(Offset(n)) = WordOf(n)
  <2>1. \A m \in FoundOf(n - 1) : Offset(n) \notin Reach(m)
    BY <1>7, <1>11, <1>12, ReachesApart
  <2>2. image[Offset(n)] = Promised[Offset(n)]
    BY <1>5, <1>7, <1>12, <2>1 DEF LinkedBy, LinkedCell
  <2> QED BY <2>2 DEF ImportWord, WordOf
<1>13. ASSUME ~Deviates, ~VisitedTwice
       PROVE  symbols' = Symbols(n)
  <2>1. symbols = Symbols(n - 1)
    BY <1>5, <1>13 DEF LinkedBy
  <2>2. CASE ~InSection(Offset(n))
    BY <1>3, <1>4, <2>1, <2>2, LinkStep, SymbolsNext
  <2>3. CASE InSection(Offset(n))
    <3>1. ImportWord(Offset(n)) = WordOf(n) /\ (IsFunction(n) <=> TypeOf(ImportWord(Offset(n))) # 0)
      BY <1>12, <1>13, <2>3 DEF IsFunction
    <3>2. CASE IsFunction(n)
      BY <1>3, <1>4, <2>1, <2>3, <3>1, <3>2, LinkStep, SymbolsNext
    <3>3. CASE ~IsFunction(n)
      BY <1>3, <1>4, <2>1, <2>3, <3>1, <3>3, LinkStep, SymbolsNext
    <3> QED BY <3>2, <3>3
  <2> QED BY <2>2, <2>3
<1>14. ASSUME ~Deviates, ~VisitedTwice, NEW k \in DOMAIN image
       PROVE  /\ \A m \in FoundOf(n) : k \in Reach(m) =>
                   image'[k] = IF IsFunction(m) THEN Thunk[k - Offset(m)] ELSE WordOf(m)
              /\ (\A m \in FoundOf(n) : k \notin Reach(m)) => image'[k] = Promised[k]
  <2>1. LinkedCell(n - 1, k)
    BY <1>5, <1>14 DEF LinkedBy
  <2>2. CASE InSection(Offset(n)) /\ k \in Reach(n)
    <3>1. FoundOf(n) = FoundOf(n - 1) \cup {n}
      BY <1>4, <2>2, FoundNext
    <3>2. ImportWord(Offset(n)) = WordOf(n) /\ (IsFunction(n) <=> TypeOf(ImportWord(Offset(n))) # 0)
      BY <1>12, <1>14, <2>2 DEF IsFunction
    <3>3. image'[k] = IF IsFunction(n) THEN Thunk[k - Offset(n)] ELSE WordOf(n)
      <4>1. CASE IsFunction(n)
        <5>1. k \in Offset(n) .. Offset(n) + 3
          BY <2>2, <4>1 DEF Reach
        <5> QED BY <1>3, <1>6, <1>8, <2>2, <3>2, <4>1, <5>1, OnlyReached
      <4>2. CASE ~IsFunction(n)
        <5>1. k = Offset(n)
          BY <1>6, <1>8, <2>2, <4>2 DEF Reach
        <5> QED BY <1>3, <1>6, <1>8, <2>2, <3>2, <4>2, <5>1, OnlyReached
      <4> QED BY <4>1, <4>2
    <3>4. \A m \in FoundOf(n - 1) : k \notin Reach(m)
      BY <1>7, <1>11, <1>14, <2>2, ReachesApart
    <3> QED BY <2>2, <3>1, <3>3, <3>4
  <2>3. CASE ~(InSection(Offset(n)) /\ k \in Reach(n))
    <3>1. image'[k] = image[k]
      <4>1. CASE ~InSection(Offset(n))
        BY <1>3, <1>6, <1>8, <4>1, OnlyReached
      <4>2. CASE InSection(Offset(n)) /\ k \notin Reach(n)
        <5>1. ImportWord(Offset(n)) = WordOf(n) /\ (IsFunction(n) <=> TypeOf(ImportWord(Offset(n))) # 0)
          BY <1>12, <1>14, <4>2 DEF IsFunction
        <5>2. CASE IsFunction(n)
          <6>1. k \notin Offset(n) .. Offset(n) + 3
            BY <4>2, <5>2 DEF Reach
          <6> QED BY <1>3, <1>6, <1>8, <6>1, OnlyReached
        <5>3. CASE ~IsFunction(n)
          <6>1. k # Offset(n)
            BY <1>7, <4>2
          <6> QED BY <1>3, <1>6, <1>8, <5>1, <5>3, <6>1, OnlyReached
        <5> QED BY <5>2, <5>3
      <4> QED BY <2>3, <4>1, <4>2
    <3>2. \A m \in FoundOf(n) : m \in FoundOf(n - 1) \/ k \notin Reach(m)
      BY <1>4, <2>3, FoundNext
    <3>3. \A m \in FoundOf(n - 1) : m \in FoundOf(n)
      BY <1>4, FoundNext
    <3> QED BY <2>1, <3>1, <3>2, <3>3 DEF LinkedCell
  <2> QED BY <2>2, <2>3
<1>15. LinkedBy(n)'
  <2>1. (Deviates' <=> Deviates) /\ (VisitedTwice' <=> VisitedTwice) /\ Symbols(n)' = Symbols(n)
    BY <1>1, SameLinks
  <2>2. ASSUME ~Deviates', NEW k \in DOMAIN image'
        PROVE  Untouched(n, k)'
    <3>1. ~Deviates /\ k \in DOMAIN image
      BY <1>9, <2>1, <2>2
    <3>2. UNCHANGED <<FoundOf(n), Promised>> /\ \A m : UNCHANGED Offset(m)
      BY <1>1, SameLinks
    <3> QED BY <1>10, <3>1, <3>2 DEF Untouched
  <2>3. ASSUME ~Deviates', ~VisitedTwice', NEW k \in DOMAIN image'
        PROVE  LinkedCell(n, k)'
    <3>1. ~Deviates /\ ~VisitedTwice /\ k \in DOMAIN image
      BY <1>9, <2>1, <2>3
    <3>2. /\ UNCHANGED <<FoundOf(n), Promised>>
          /\ \A m : UNCHANGED <<Offset(m), WordOf(m), Reach(m)>> /\ (IsFunction(m)' <=> IsFunction(m))
      BY <1>1, SameLinks
    <3> QED BY <1>14, <3>1, <3>2 DEF LinkedCell
  <2> QED BY <1>13, <2>1, <2>2, <2>3 DEF LinkedBy
<1>16. j' \in 1 .. Len(program'.imports) + 1 /\ j' - 1 = n
  BY <1>1, <1>3, <1>4, LinkStep
<1>17. phase' = "crashed" => \E m \in Found' : Offset(m)' + 3 \notin DOMAIN image'
  <2> SUFFICES ASSUME phase' = "crashed"
               PROVE  \E m \in Found' : Offset(m)' + 3 \notin DOMAIN image'
    OBVIOUS
  <2>1. InSection(Offset(n)) /\ Offset(n) + 3 \notin DOMAIN image
    BY <1>1, <1>3, LinkStep
  <2>2. UNCHANGED <<Found, Offset(n)>>
    BY <1>1, SameLinks
  <2> QED BY <1>7, <1>9, <2>1, <2>2
<1> QED BY <1>1, <1>15, <1>16, <1>17 DEF ImportsInv

\* Before the first import nothing is linked.
LEMMA LinkingStarted ==
  ASSUME UpdateInv, LoaderInv, ImportsInv, UNCHANGED <<patcherVars, made>>, SectionsMapped
  PROVE  ImportsInv'
<1>1. /\ phase = "sections" /\ phase # "closed" /\ phase' = "imports" /\ j' = 1
      /\ UNCHANGED <<file, frame, program, image, symbols>>
  BY DEF SectionsMapped
<1>2. ProgramMade(program)
  BY <1>1, XexProgram DEF UpdateInv, LoaderInv, Loading
<1>3. symbols = {}
  BY <1>1 DEF ImportsInv
<1>4. FoundOf(0)' = {} /\ Symbols(0)' = {}
  BY DEF FoundOf, Symbols
<1>5. (Deviates' <=> Deviates) /\ Promised' = Promised
  BY <1>1, LoaderStill
<1>6. ~Deviates => image = Promised
  BY <1>1 DEF LoaderInv
<1>7. ASSUME ~Deviates', NEW k \in DOMAIN image'
      PROVE  LinkedCell(0, k)' /\ Untouched(0, k)'
  BY <1>1, <1>4, <1>5, <1>6, <1>7 DEF LinkedCell, Untouched
<1>8. LinkedBy(0)'
  BY <1>1, <1>3, <1>4, <1>7 DEF LinkedBy
<1>9. j' \in 1 .. Len(program'.imports) + 1 /\ j' - 1 = 0
  BY <1>1, <1>2 DEF ProgramMade
<1> QED BY <1>1, <1>8, <1>9 DEF ImportsInv

\* Nothing is linked at first.
LEMMA ImportsInit == Init => ImportsInv
BY DEF Init, ImportsInv

\* Before its imports are linked a file has no symbols.
LEMMA Unlinked ==
  ASSUME ImportsInv, phase \notin {"imports", "loaded", "invalid", "crashed"}, UNCHANGED symbols,
         phase' \notin {"imports", "crashed"}, phase' # "loaded" \/ frame'.magic # "XEX2"
  PROVE  ImportsInv'
BY DEF ImportsInv

\* Every step keeps what is said about imports.
LEMMA ImportsNext == UpdateInv /\ LoaderInv /\ SectionsInv /\ ImportsInv /\ [Next]_vars => ImportsInv'
<1> SUFFICES ASSUME UpdateInv, LoaderInv, SectionsInv, ImportsInv, [Next]_vars
             PROVE  ImportsInv'
  OBVIOUS
<1>1. CASE Apply /\ UNCHANGED <<loaderVars, made>>
  <2>1. phase = "closed" /\ phase' = "closed" /\ UNCHANGED symbols
    BY <1>1, PatchingFirst DEF loaderVars
  <2> QED BY <2>1, Unlinked
<1>2. CASE Start
  <2>1. phase = "closed" /\ phase' \in {"closed", "file"} /\ UNCHANGED symbols
    BY <1>2 DEF Start
  <2> QED BY <2>1, Unlinked
<1>3. CASE OpenPatched
  <2>1. phase = "closed" /\ phase' = "file" /\ UNCHANGED symbols
    BY <1>3 DEF OpenPatched
  <2> QED BY <2>1, Unlinked
<1>4. CASE UNCHANGED vars
  <2>1. UNCHANGED <<patcherVars, made, file, frame, program, image, symbols, phase, j>>
    BY <1>4 DEF vars, loaderVars
  <2>2. CASE phase \in {"imports", "loaded", "crashed"}
    <3>1. \A n : LinkedBy(n) => LinkedBy(n)'
      BY <2>1, <2>2, LinkedStill
    <3>2. UNCHANGED Found /\ \A n : UNCHANGED Offset(n)
      BY <2>1, <2>2, SameLinks
    <3> QED BY <2>1, <2>2, <3>1, <3>2 DEF ImportsInv
  <2>3. CASE phase \notin {"imports", "loaded", "crashed"}
    BY <2>1, <2>3 DEF ImportsInv
  <2> QED BY <2>2, <2>3
<1>5. CASE LoadImage /\ UNCHANGED <<patcherVars, made>>
  <2>1. CASE ParseImage
    <3>1. /\ phase = "file" /\ UNCHANGED symbols
          /\ phase' \in {"header", "invalid"} \/ (phase' = "loaded" /\ frame'.magic = "ELF")
      BY <2>1 DEF ParseImage, Invalid
    <3> QED BY <3>1, Unlinked
  <2>2. CASE Load
    <3>1. phase = "header" /\ UNCHANGED symbols
      BY <2>2 DEF Load, Invalid
    <3>2. phase' \in {"pe", "blocks", "walk", "invalid"}
      <4>1. LoaderInv'
        BY <1>5, <2>2, LoadStarted
      <4>2. file[Compression] \in {None, Basic, Lzx} \/ phase' = "invalid"
        <5>1. CASE patch.none
          <6>1. file = base
            BY <3>1, <5>1 DEF LoaderInv
          <6>2. file[Compression] \in {None, Basic, Lzx, Delta}
            <7>1. baseFrame.magic = "XEX2"
              BY <3>1, Opened DEF LoaderInv
            <7> QED BY <6>1, <7>1, BaseFacts DEF UpdateInv
          <6>3. file[Compression] = Delta => phase' = "invalid"
            BY <2>2 DEF Load, Invalid, Delta, Lzx
          <6> QED BY <6>2, <6>3
        <5>2. CASE ~patch.none
          BY <3>1, <5>2, PatchedSource DEF LoaderInv
        <5> QED BY <5>1, <5>2
      <4> QED BY <2>2, <4>2 DEF Load, Invalid, None, Basic, Lzx
    <3> QED BY <3>1, <3>2, Unlinked
  <2>3. CASE LoadBlock \/ BlocksLoaded \/ ReadBlocks \/ BlocksRead \/ ReadPe \/ MapSection
    <3>1. /\ phase \in {"blocks", "walk", "pe", "sections"} /\ UNCHANGED symbols
          /\ phase' \in {"blocks", "walk", "pe", "sections", "invalid"}
      BY <2>3 DEF LoadBlock, BlocksLoaded, ReadBlocks, BlocksRead, ReadPe, MapSection, Invalid
    <3> QED BY <3>1, Unlinked
  <2>4. CASE SectionsMapped
    BY <1>5, <2>4, LinkingStarted
  <2>5. CASE LinkImport
    BY <1>5, <2>5, Linked
  <2>6. CASE ImportsDone
    <3>1. /\ phase = "imports" /\ phase' = "loaded" /\ j > Len(program.imports)
          /\ UNCHANGED <<file, frame, program, image, symbols>>
      BY <2>6 DEF ImportsDone
    <3>2. PICK L \in Nat : L = Len(program.imports)
      BY <3>1, XexProgram DEF UpdateInv, LoaderInv, Loading, ProgramMade
    <3>3. LinkedBy(j - 1) /\ j - 1 = L
      BY <3>1, <3>2 DEF ImportsInv
    <3>4. LinkedBy(L)'
      BY <1>5, <3>1, <3>3, LinkedStill
    <3> QED BY <3>1, <3>2, <3>4 DEF ImportsInv
  <2> QED BY <1>5, <2>1, <2>2, <2>3, <2>4, <2>5, <2>6 DEF LoadImage
<1> QED BY <1>1, <1>2, <1>3, <1>4, <1>5 DEF Next


----------------------------------------------------------------------------
\* The theorems, for every base file with its image and its body, every update and
\* every table of sections and imports that keep to what the makers of files keep
\* to: any number of blocks of any sizes, any chain of blocks and chunks.

\* The invariant holds at first.
LEMMA XexInit == Init => XexInv
BY UpdateInit, LoaderInit, SectionsInit, ImportsInit DEF XexInv

\* Every step keeps it.
LEMMA XexNext == XexInv /\ [Next]_vars => XexInv'
BY UpdateNext, LoaderNext, SectionsNext, ImportsNext DEF XexInv

\* In every state the file that is made, the image that is loaded, its sections
\* and its imports are as the steps behind have to leave them, or a known
\* deviation is named.
THEOREM XexInvariant == Spec => []XexInv
BY XexInit, XexNext, PTL DEF Spec

\* An update that has been applied holds the image of its base, or that was written
\* behind the end of the new file.
LEMMA HoldsImage ==
  ASSUME UpdateInv, step = "done"
  PROVE  patch.newSize >= base[ImageSize] \/ ShorterFile
<1>1. /\ step \in Checked /\ step \in Copied /\ step \in Plainly /\ step \in Plainly \cup {"basic"} /\ ~patch.none
  BY DEF UpdateInv, PatcherInv, Checked, Prepared, Copied, Keyed, Plainly
<1>2. /\ patch.newSize >= BodySize /\ base[Compression] # Delta
      /\ base[Compression] = Basic => patch.newSize >= base[ImageSize]
  BY <1>1 DEF UpdateInv, PatcherInv
<1>3. /\ patch.targetSize \in Nat /\ patch.newSize \in Nat /\ OldHeaderSize \in Nat
      /\ BodySize = Size(made.body) /\ base[ImageSize] \in Nat /\ base[ImageSize] = Size(made.image)
  BY <1>1, Sizes DEF UpdateInv
<1>4. BaseMade(made) /\ base = made.bytes /\ base[Compression] \in {None, Basic, Lzx, Delta}
  BY <1>1, Valid, BaseFacts DEF UpdateInv
<1>5. CASE base[Compression] = None
  <2>1. made.body = made.image
    BY <1>4, <1>5 DEF BaseMade
  <2> QED BY <1>2, <1>3, <2>1
<1>6. CASE base[Compression] = Lzx
  <2>1. PICK a, b, n, t : a = ImageAt /\ b = base[ImageSize] /\ n = patch.newSize /\ t = patch.targetSize
    OBVIOUS
  <2>2. a \in Nat /\ a >= t
    BY <1>3, <2>1 DEF ImageAt, Larger
  <2>3. ~(n >= b) => a + b > t + n
    BY <1>3, <2>1, <2>2
  <2> QED BY <1>1, <1>6, <2>1, <2>3 DEF ShorterFile
<1> QED BY <1>2, <1>4, <1>5, <1>6

\* Of all bases and updates only those that are made for each other are applied,
\* and then the update's image holds the base's, unless the base has normal
\* compression and is written behind the end of the file; those that fit are not
\* refused.
THEOREM UpdatesApplied == Spec => []AppliedWhereItFits
<1>1. XexInv => AppliedWhereItFits
  <2> SUFFICES ASSUME XexInv
               PROVE  AppliedWhereItFits
    OBVIOUS
  <2> USE DEF XexInv
  <2>1. ASSUME step = "done"
        PROVE  Suitable /\ (Fits \/ ShorterFile)
    <3>1. /\ step \in Checked /\ step \in Prepared /\ step \in Copied /\ step \in Keyed /\ step \in Plainly
          /\ ~patch.none
      BY <2>1 DEF UpdateInv, PatcherInv, Checked, Prepared, Copied, Keyed, Plainly
    <3>2. /\ HeadersValid(baseFrame, base) /\ HeadersValid(patch.frame, patch.bytes)
          /\ patch.delta /\ patch.whole /\ Compatible
          /\ patch.targetSize >= FieldsEnd /\ patch.newSize > 0 /\ patch.newSize >= BodySize
          /\ base[Compression] # Delta
          /\ patch.keySource = Wrapped(patch.newKey, OldKey)
      BY <3>1 DEF UpdateInv, PatcherInv
    <3>3. Len(patch.entries) > 0 => patch.encryption = None \/ Unwrapped(patch.newKey, patch.key) = patch.dataKey
      <4>1. Len(patch.entries) \in Nat
        BY <3>1, PatchFacts DEF UpdateInv, PatchMade
      <4>2. i \in 1 .. Len(patch.entries) + 1 /\ i > Len(patch.entries)
        BY <2>1 DEF UpdateInv, PatcherInv
      <4>3. Len(patch.entries) > 0 => i > 1
        BY <4>1, <4>2
      <4> QED BY <2>1, <4>3 DEF UpdateInv, PatcherInv
    <3>4. Suitable
      BY <3>2, <3>3 DEF Suitable, OldKey
    <3> QED BY <2>1, <3>4, HoldsImage DEF Fits
  <2>2. step \in Refusals => ~Fits \/ ShorterFile
    BY DEF UpdateInv, PatcherInv
  <2>3. step = "crashed" => ShorterFile
    BY DEF UpdateInv, PatcherInv
  <2> QED BY <2>1, <2>2, <2>3 DEF AppliedWhereItFits
<1> QED BY <1>1, XexInvariant, PTL

\* Whatever blocks a base has, they are moved apart without losing any of them.
THEOREM UnreadIsKept == Spec => []UnreadKept
<1>1. XexInv => UnreadKept
  <2> SUFFICES ASSUME XexInv, step = "basic", NEW k \in patch.targetSize .. src - 1
               PROVE  out[k] = made.body[k - patch.targetSize]
    BY DEF UnreadKept
  <2> USE DEF XexInv
  <2>1. PICK t, n, x, a, d, w, s :
          /\ t = patch.targetSize /\ n = patch.newSize /\ x = i /\ a = k - t
          /\ d = DataTotal(x) /\ w = WholeTotal(x) /\ s = Size(made.body)
    OBVIOUS
  <2>2. /\ base[Compression] = Basic /\ x \in 0 .. base[Info] /\ n >= BodySize
        /\ step \in Checked /\ step \in Copied
    BY <2>1 DEF UpdateInv, PatcherInv, Checked, Prepared, Copied, Keyed
  <2>3. t \in Nat /\ n \in Nat /\ s \in Nat /\ BodySize = s
    BY <2>1, <2>2, Sizes, Valid, BaseFacts DEF UpdateInv
  <2>4. d \in Nat /\ w \in Nat /\ d <= w /\ d <= s
    BY <2>1, <2>2, Valid, BlockFacts DEF UpdateInv
  <2>5. BodyIs(Moving(x)) /\ src = t + d
    BY <2>1 DEF UpdateInv, BodyInv
  <2>6. k = t + a /\ a \in 0 .. n - 1 /\ a < w /\ a < s
    BY <2>1, <2>2, <2>3, <2>4, <2>5
  <2>7. out[k] = Moving(x)[a]
    BY <2>1, <2>5, <2>6 DEF BodyIs
  <2>8. Moving(x)[a] = Packing[a]
    BY <2>1, <2>6 DEF Moving
  <2>9. Packing[a] = made.body[a]
    BY <2>1, <2>3, <2>6 DEF Packing
  <2> QED BY <2>1, <2>7, <2>8, <2>9
<1> QED BY <1>1, XexInvariant, PTL

\* Whatever is in the base's image, however it is cut into blocks and chunks, and
\* whatever is in the update, the image that is mapped is the promised one, where no
\* known deviation is named.
THEOREM LoadedAsPromised == Spec => []LoadsPromised
<1>1. XexInv => LoadsPromised
  BY DEF XexInv, LoaderInv, LoadsPromised
<1> QED BY <1>1, XexInvariant, PTL

\* Whatever sections a file has, an address is found at its own section's bytes.
THEOREM ContentFound == Spec => []FindsContent
<1>1. XexInv => FindsContent
  <2> SUFFICES ASSUME XexInv, phase = "loaded"
               PROVE  FindsContent
    BY DEF FindsContent
  <2> USE DEF XexInv
  <2>1. Base \in Nat /\ MaxOffset \in Nat
    BY ImageAssumption
  <2>2. CASE frame.magic = "ELF"
    <3>1. ElfMade(program)
      BY <2>2, ElfProgram DEF UpdateInv
    <3>2. sections = ElfMapped(Len(program.sections))
      BY <2>2, <3>1, ElfAll DEF SectionsInv
    <3>3. \A address \in 0 .. Base + MaxOffset : address \in Int
      BY <2>1
    <3> QED BY <2>2, <3>1, <3>2, <3>3, FindInElf DEF FindsContent
  <2>3. CASE frame.magic = "XEX2"
    <3>1. ProgramMade(program) /\ sections = Mapped(Len(program.sections)) /\ AllWithin(Len(program.sections))
      BY <2>3, XexProgram DEF UpdateInv, SectionsInv, XexLoaded
    <3>2. file[ImageSize] \in Nat
      BY <2>3 DEF LoaderInv, XexLoaded
    <3>3. ASSUME NEW offset \in 0 .. MaxOffset
          PROVE  Find(Base + offset) = {k \in {offset} : InSection(k)}
      <4>1. PICK address \in Int : address = Base + offset
        BY <2>1
      <4>2. Find(address) = {k \in {address - Base} : InSection(k)}
        BY <3>1, <3>2, FindInXex
      <4>3. address - Base = offset
        BY <2>1, <4>1
      <4> QED BY <4>1, <4>2, <4>3
    <3> QED BY <2>3, <3>3 DEF FindsContent
  <2> QED BY <2>2, <2>3 DEF LoaderInv
<1> QED BY <1>1, XexInvariant, PTL

\* Whatever imports a file has, nothing but the words and the code of those that are
\* found changes, and where no word is visited twice each is linked by its own word;
\* only code that sticks out of the image can be the end of the program.
THEOREM AllImportsLinked == Spec => []ImportsLinked
<1>1. XexInv => ImportsLinked
  <2> SUFFICES ASSUME XexInv
               PROVE  ImportsLinked
    OBVIOUS
  <2> USE DEF XexInv
  <2>1. Found = FoundOf(Len(program.imports))
    BY DEF Found, FoundOf
  <2>2. phase = "crashed" => \E n \in Found : Offset(n) + 3 \notin DOMAIN image
    BY DEF ImportsInv
  <2>3. ASSUME phase = "loaded", frame.magic = "XEX2", ~Deviates
        PROVE  /\ \A k \in DOMAIN image :
                    (\A n \in Found : k \notin Offset(n) .. Offset(n) + 3) => image[k] = Promised[k]
               /\ ~VisitedTwice =>
                    /\ symbols = {<<OrdinalOf(WordOf(n)), program.imports[n].thunk>> :
                                    n \in {m \in Found : IsFunction(m) /\ OrdinalOf(WordOf(m)) \in program.imports[m].names}}
                    /\ \A k \in DOMAIN image :
                         /\ \A n \in Found : k \in Reach(n) =>
                              image[k] = IF IsFunction(n) THEN Thunk[k - Offset(n)] ELSE WordOf(n)
                         /\ (\A n \in Found : k \notin Reach(n)) => image[k] = Promised[k]
    <3>1. LinkedBy(Len(program.imports))
      BY <2>3 DEF ImportsInv
    <3>2. \A k \in DOMAIN image :
            (\A n \in Found : k \notin Offset(n) .. Offset(n) + 3) => image[k] = Promised[k]
      BY <2>1, <2>3, <3>1 DEF LinkedBy, Untouched
    <3>3. ~VisitedTwice => symbols = Symbols(Len(program.imports))
      BY <2>3, <3>1 DEF LinkedBy
    <3>4. ~VisitedTwice => \A k \in DOMAIN image : LinkedCell(Len(program.imports), k)
      BY <2>3, <3>1 DEF LinkedBy
    <3> QED BY <2>1, <3>2, <3>3, <3>4 DEF Symbols, LinkedCell
  <2> QED BY <2>2, <2>3 DEF ImportsLinked
<1> QED BY <1>1, XexInvariant, PTL
=================================================================================
