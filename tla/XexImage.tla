-------------------------------- MODULE XexImage --------------------------------
(***************************************************************************)
(* A base file, with or without a title update, becomes the image that is  *)
(* recompiled: XexPatcher::apply writes the patched file                   *)
(* (recompiler.cpp:32-51), Xex2LoadImage loads it or the base.             *)
(***************************************************************************)
EXTENDS XexPatcher, XexLoader

CONSTANTS
  Programs,    \* section tables and imports
  Bases,       \* base files, with the images they were made from
  Elves,       \* ELF files: segments and sections
  Patches,     \* patches
  MaxOffset    \* bound: offsets that are looked up

ASSUME ImageAssumption ==
  /\ Thunk \in [0 .. 3 -> Nat] /\ Base \in Nat /\ MaxOffset \in Nat /\ MaxOffset >= FieldsEnd

VARIABLE made   \* how the base file was made: its image and its body

vars == <<patcherVars, loaderVars, made>>

----------------------------------------------------------------------------

\* What the makers of the files keep to, and neither the loader nor the patcher
\* looks at. A base file is a record of
\*   image   the cells of the image
\*   body    what becomes of them, before it is encrypted
\*   parts   normal compression: what the body consists of
\*   bytes   the file: header, then the body
\*   key     frame
IsArray(a) == Size(a) \in Nat /\ a = [k \in 0 .. Size(a) - 1 |-> a[k]]

\* Basic compression: the data of the blocks without the zeros behind it.
BlocksMade(b) ==
  LET f == b.bytes  m == f[Info]  data == DataSizes(f)  whole == WholeSizes(f) IN
  /\ m \in Nat \ {0} /\ Info + 2 * m < f[HeaderSize]
  /\ \A n \in 1 .. m : DataSize(f, n) \in Nat /\ ZeroSize(f, n) \in Nat
  /\ Size(b.body) = Total(data, m) /\ Size(b.image) = Total(whole, m)
  /\ \A n \in 1 .. m :
       /\ \A k \in 0 .. DataSize(f, n) - 1 : b.body[Total(data, n - 1) + k] = b.image[Total(whole, n - 1) + k]
       /\ \A k \in DataSize(f, n) .. DataSize(f, n) + ZeroSize(f, n) - 1 : b.image[Total(whole, n - 1) + k] = 0

\* The cell that holds two of the image, or its last one.
Packs(b, cell, a) ==
  /\ cell \in Nat
  /\ cell \div 10 = b.image[2 * a]
  /\ 2 * a + 1 < Size(b.image) => cell % 10 = b.image[2 * a + 1]

\* Normal compression: a chain of blocks, each of which opens with the size of the
\* next, has chunks of packed cells and is closed by an empty one, with anything
\* behind it up to its end. A part is where it is, the packed cells before it and
\* in it, where its block ends and how long the next block is.
ChainMade(b) ==
  LET f == b.bytes  p == b.parts  last == Len(b.parts) IN
  /\ last \in Nat \ {0}
  /\ p[1].kind = "open" /\ p[1].at = 0 /\ p[1].from = 0 /\ p[1].end = f[Info]
  /\ \A n \in 1 .. last :
       /\ p[n].kind \in {"open", "chunk", "close"}
       /\ p[n].at \in Nat /\ p[n].from \in Nat /\ p[n].n \in Nat /\ p[n].end \in Nat /\ p[n].next \in Nat
       /\ p[n].at < p[n].end /\ p[n].end <= Size(b.body)
       /\ b.body[p[n].at] = CASE p[n].kind = "open" -> p[n].next [] p[n].kind = "chunk" -> p[n].n [] p[n].kind = "close" -> 0
       /\ p[n].kind = "chunk" =>
            /\ p[n].n > 0 /\ p[n].at + p[n].n < p[n].end /\ 2 * (p[n].from + p[n].n) <= Size(b.image) + 1
            /\ \A k \in 1 .. p[n].n : Packs(b, b.body[p[n].at + k], p[n].from + k - 1)
  /\ \A n \in 1 .. last - 1 :
       LET this == p[n]  then == p[n + 1] IN
       IF this.kind = "close"
       THEN then.kind = "open" /\ then.at = this.end /\ then.from = this.from /\ then.end = this.end + this.next
       ELSE /\ then.kind # "open" /\ then.end = this.end /\ then.next = this.next
            /\ then.at = this.at + 1 + (IF this.kind = "chunk" THEN this.n ELSE 0)
            /\ then.from = this.from + (IF this.kind = "chunk" THEN this.n ELSE 0)
  /\ p[last].kind = "close" /\ p[last].next = 0 /\ 2 * p[last].from >= Size(b.image)

BaseMade(b) ==
  LET f == b.bytes IN
  /\ IsArray(b.image) /\ \A k \in DOMAIN b.image : b.image[k] \in 0 .. Byte * Byte - 1
  /\ IsArray(b.body) /\ \A k \in DOMAIN b.body : b.body[k] \in Nat
  /\ IsArray(f) /\ b.key \in 1 .. 8 /\ b.frame.magic # "ELF"
  /\ f[HeaderSize] \in Nat /\ f[HeaderSize] >= FieldsEnd /\ Size(f) = f[HeaderSize] + Size(b.body)
  /\ f[Key] = Wrapped(Retail, b.key) /\ f[ImageSize] = Size(b.image)
  /\ f[Encryption] \in {None, Normal} /\ f[Compression] \in {None, Basic, Lzx, Delta}
  /\ \A k \in DOMAIN b.body :
       f[f[HeaderSize] + k] = IF f[Encryption] = Normal THEN 10 * b.body[k] + b.key ELSE b.body[k]
  /\ f[Compression] = Basic => BlocksMade(b)
  /\ f[Compression] = Lzx => ChainMade(b)
  /\ f[Compression] \in {None, Delta} => b.body = b.image

\* An update tells its sizes and its key with the last entry of its header, and its
\* entries stay within the new header and the new image.
ShiftMade(d) == d.sourceOffset \in Nat /\ d.targetOffset \in Nat /\ d.sourceSize \in Nat

EntryMade(e, size) ==
  /\ e.kind \in {"zero", "move", "data"}
  /\ e.new \in Nat /\ e.old \in Nat /\ e.n \in Nat
  /\ e.new + e.n <= size /\ (e.kind # "zero" => e.old + e.n <= size)
  /\ e.kind = "data" => /\ e.data \in [0 .. e.n - 1 -> Int]
                        /\ \A k \in 0 .. e.n - 1 : -1 - e.data[k] < e.n

TellsHeader(e, p) ==
  /\ e.kind = "data" /\ e.new = 0 /\ e.n > ImageSize
  /\ e.data[HeaderSize] = p.targetSize
  /\ e.data[Key] = Wrapped(Retail, p.newKey)
  /\ e.data[ImageSize] = p.newSize

PatchMade(p) ==
  /\ p.targetSize \in Nat /\ p.newSize \in Nat
  /\ p.newKey \in 1 .. 8 /\ p.keySource \in Nat
  /\ ShiftMade(p.header) /\ ShiftMade(p.image)
  /\ p.image.sourceOffset + p.image.sourceSize <= p.newSize
  /\ p.image.targetOffset + p.image.sourceSize <= p.newSize
  /\ Len(p.headerEntries) \in Nat \ {0} /\ Len(p.entries) \in Nat
  /\ \A n \in 1 .. Len(p.headerEntries) : EntryMade(p.headerEntries[n], p.targetSize)
  /\ TellsHeader(p.headerEntries[Len(p.headerEntries)], p)
  /\ \A n \in 1 .. Len(p.entries) : EntryMade(p.entries[n], p.newSize)

\* No two sections of a table overlap. The sections of an ELF object file all start
\* at 0, so two sections of an ELF file are apart only when they start at different
\* addresses.
Apart(a, n, b, m) == a + n <= b \/ b + m <= a

ProgramMade(g) ==
  /\ Len(g.sections) \in Nat /\ Len(g.imports) \in Nat
  /\ \A n \in 1 .. Len(g.sections) : g.sections[n].at \in Nat /\ g.sections[n].size \in Nat
  /\ \A n, m \in 1 .. Len(g.sections) :
       LET s == g.sections[n]  t == g.sections[m]
       IN n # m /\ s.size # 0 /\ t.size # 0 => Apart(s.at, s.size, t.at, t.size)
  /\ \A n \in 1 .. Len(g.imports) : g.imports[n].thunk \in Nat

ElfMade(g) ==
  /\ Len(g.sections) \in Nat /\ ElfBase(g) \in Nat
  /\ \A n \in 1 .. Len(g.sections) :
       LET s == g.sections[n] IN s.address \in Nat /\ s.size \in Nat /\ s.at \in Nat
  /\ \A n, m \in 1 .. Len(g.sections) :
       LET s == g.sections[n]  t == g.sections[m]
       IN s.type # Inactive /\ t.type # Inactive /\ s.address # t.address
            => Apart(s.address, s.size, t.address, t.size)

ASSUME FilesAssumption ==
  /\ \A b \in Bases : BaseMade(b)
  /\ \A p \in Patches : p.none \/ PatchMade(p)
  /\ \A g \in Programs : ProgramMade(g)
  /\ \A g \in Elves : ElfMade(g)

----------------------------------------------------------------------------

\* An ELF file is an array of cells.
ElfFile == [image |-> Zeros(0), body |-> Zeros(0), parts |-> <<>>, bytes |-> Zeros(MaxOffset), key |-> 0,
            frame |-> [magic |-> "ELF", security |-> 0, count |-> 0]]

Init ==
  \E b \in Bases \cup {ElfFile}, p \in Patches, g \in Programs \cup Elves :
    /\ base = b.bytes /\ baseFrame = b.frame /\ patch = p /\ program = g /\ made = b
    /\ g \in Elves <=> b = ElfFile
    /\ step = "start" /\ out = <<>> /\ i = 0 /\ src = 0 /\ dst = 0 /\ walk = WalkFrom(0, 0)
    /\ phase = "closed" /\ file = <<>> /\ frame = b.frame /\ image = <<>> /\ sections = {} /\ symbols = {}
    /\ j = 0 /\ from = 0 /\ reading = WalkFrom(0, 0)

\* LoadConfig
Start ==
  /\ step = "start" /\ phase = "closed"
  /\ IF patch.none
       THEN file' = base /\ phase' = "file" /\ UNCHANGED step
       ELSE step' = "headers" /\ UNCHANGED <<file, phase>>
  /\ UNCHANGED <<base, baseFrame, patch, out, i, src, dst, walk, made,
                 frame, program, image, sections, symbols, j, from, reading>>

OpenPatched ==
  /\ step = "done" /\ phase = "closed"
  /\ file' = out /\ phase' = "file"
  /\ UNCHANGED <<patcherVars, made, frame, program, image, sections, symbols, j, from, reading>>

Refusals == {"PatchFileInvalid", "PatchIncompatible", "PatchFailed", "XexFileInvalid", "XexFileUnsupported"}

Ended == step \in Refusals \cup {"crashed"} \/ phase \in {"loaded", "invalid", "crashed"}

Next ==
  \/ Start \/ OpenPatched
  \/ Apply /\ UNCHANGED <<loaderVars, made>>
  \/ LoadImage /\ UNCHANGED <<patcherVars, made>>
  \/ Ended /\ UNCHANGED vars

Spec == Init /\ [][Next]_vars

----------------------------------------------------------------------------

\* What the image is after the update: the entries in turn, every move a copy.
After(bytes, delta) ==
  Overlay(bytes, delta.new,
          CASE delta.kind = "zero" -> Zeros(delta.n)
            [] delta.kind = "move" -> Slice(bytes, delta.old, delta.n)
            [] delta.kind = "data" -> Decoded(delta.data, Slice(bytes, delta.old, delta.n)))

UpdateSteps ==
  LET d == patch.image
      grown == Resized(made.image, patch.newSize)
      moved == IF d.sourceOffset > 0 THEN Overlay(grown, d.targetOffset, Slice(grown, d.sourceOffset, d.sourceSize))
               ELSE grown
      after[n \in 0 .. Len(patch.entries)] == IF n = 0 THEN moved ELSE After(after[n - 1], patch.entries[n])
  IN after

Updated == UpdateSteps[Len(patch.entries)]

Promised == IF patch.none THEN made.image ELSE Updated

\* Known deviations: copies of areas that overlap are left to memcpy; a base with
\* normal compression is expanded behind its old header, even when the new one is
\* shorter, and as long as its image was, even when the new file is not; of a body
\* that is longer than its image the end stays behind it.
OverlappingMove ==
  ~patch.none /\
    \/ LET d == patch.image IN
       d.sourceOffset > 0 /\ Overlap(d.sourceOffset, d.targetOffset, d.sourceSize)
    \/ \E n \in 1 .. Len(patch.entries) :
         LET e == patch.entries[n] IN e.kind = "move" /\ Overlap(e.old, e.new, e.n)

ShorterHeader == ~patch.none /\ base[Compression] = Lzx /\ patch.targetSize < OldHeaderSize

ShorterFile ==
  ~patch.none /\ base[Compression] = Lzx /\ ImageAt + base[ImageSize] > patch.targetSize + patch.newSize

LongerBody ==
  ~patch.none /\ base[Compression] = Lzx /\ base[ImageSize] < BodySize /\ base[ImageSize] < patch.newSize

Deviates == OverlappingMove \/ ShorterHeader \/ ShorterFile \/ LongerBody

\* The image that is mapped is the one the file was made from, through either
\* encryption and all compressions, or what the update makes of it, although the
\* patcher works in place and changes the header's size (xex.cpp:178-400,
\* xex_patcher.cpp:281-630).
LoadsPromised == phase = "sections" /\ ~Deviates => image = Promised

\* While blocks are moved apart from the last to the first, what is still to be
\* moved is as it was decrypted (xex_patcher.cpp:477-488).
UnreadKept ==
  step = "basic" =>
    \A k \in patch.targetSize .. src - 1 : out[k] = made.body[k - patch.targetSize]

\* An update is applied to the file it was made for and to no other, and refused
\* when its image cannot hold the data of the base or the image that the data
\* becomes (xex_patcher.cpp:326-341, 366-390). Whether it holds the image is not
\* asked for a base with normal compression: known deviation, the image is then
\* written behind the end of the file, and what becomes of that is open.
Suitable ==
  /\ HeadersValid(baseFrame, base) /\ HeadersValid(patch.frame, patch.bytes)
  /\ patch.delta /\ patch.whole
  /\ patch.keySource = Wrapped(patch.newKey, Unwrapped(Retail, base[Key]))
  /\ patch.newSize > 0 /\ patch.newSize >= BodySize
  /\ base[Compression] # Delta
  /\ Len(patch.entries) > 0 => patch.encryption = None \/ Unwrapped(patch.newKey, patch.key) = patch.dataKey
  /\ Compatible /\ patch.targetSize >= FieldsEnd

Fits == Suitable /\ patch.newSize >= base[ImageSize]

AppliedWhereItFits ==
  /\ step = "done" => Suitable /\ (Fits \/ ShorterFile)
  /\ step \in Refusals => ~Fits \/ ShorterFile
  /\ step = "crashed" => ShorterFile

\* Every address within a section of the table, in a XEX file up to the end of
\* the image, is found at the section's own bytes, and none between or after them
\* (xex.cpp:457-498, image.cpp:7-34, 94-120).
InSection(offset) ==
  \E n \in 1 .. Len(program.sections) :
    LET s == program.sections[n] IN s.at <= offset /\ offset < s.at + s.size /\ offset < file[ImageSize]

\* Known deviations: of two sections of an ELF file with one address only the
\* first is mapped, even if it is empty, and the bytes of a section that the file
\* does not hold are those of what follows in the file.
Shadowed(n) ==
  \E m \in 1 .. n - 1 : program.sections[m].type # Inactive /\ program.sections[m].address = program.sections[n].address

Covers(n, address) ==
  LET s == program.sections[n]
  IN s.type # Inactive /\ s.address <= address /\ address < s.address + s.size

FindsContent ==
  phase = "loaded" =>
    IF frame.magic = "ELF"
    THEN \A address \in 0 .. Base + MaxOffset :
           LET covering == {n \in 1 .. Len(program.sections) : Covers(n, address)} IN
           /\ covering = {} => Find(address) = {}
           /\ \A n \in covering :
                ~Shadowed(n) /\ covering = {n} =>
                  Find(address) = {program.sections[n].at + (address - program.sections[n].address)}
    ELSE \A offset \in 0 .. MaxOffset : Find(Base + offset) = {k \in {offset} : InSection(k)}

\* What the imports are by the words of the image: where they are, the functions
\* among them, and the cells that linking one changes.
Offset(n) == program.imports[n].thunk - Base
Found == {n \in 1 .. Len(program.imports) : InSection(Offset(n))}
WordOf(n) == Swapped(Promised[Offset(n)])
IsFunction(n) == TypeOf(WordOf(n)) # 0
Reach(n) == Offset(n) .. Offset(n) + (IF IsFunction(n) THEN 3 ELSE 0)

\* Known deviation: the code relies on lists that visit no word twice. The second
\* visit swaps the word back, and takes a variable for a function or not by what
\* was its ordinal.
VisitedTwice == \E n, m \in Found : n # m /\ Reach(n) \cap Reach(m) # {}

\* Linked imports: whatever the list, no cell changes that is not within the four
\* of an import; when no word is visited twice a function is code from its first
\* cell on and has a symbol if there is a name for its ordinal, a variable's bytes
\* are swapped once, and nothing else of the image changes. Only code that does
\* not fit into the image is written behind it, which a host may not survive
\* (xex.cpp:500-557).
ImportsLinked ==
  /\ phase = "loaded" /\ frame.magic = "XEX2" /\ ~Deviates =>
       /\ \A k \in DOMAIN image :
            (\A n \in Found : k \notin Offset(n) .. Offset(n) + 3) => image[k] = Promised[k]
       /\ ~VisitedTwice =>
            /\ symbols = {<<OrdinalOf(WordOf(n)), program.imports[n].thunk>> :
                            n \in {m \in Found : IsFunction(m) /\ OrdinalOf(WordOf(m)) \in program.imports[m].names}}
            /\ \A k \in DOMAIN image :
                 /\ \A n \in Found : k \in Reach(n) =>
                      image[k] = IF IsFunction(n) THEN Thunk[k - Offset(n)] ELSE WordOf(n)
                 /\ (\A n \in Found : k \notin Reach(n)) => image[k] = Promised[k]
  /\ phase = "crashed" => \E n \in Found : Offset(n) + 3 \notin DOMAIN image
===============================================================================
