------------------------------- MODULE XexPatcher -------------------------------
(***************************************************************************)
(* XexPatcher::apply (XenonUtils/xex_patcher.cpp 215-633): a base file and *)
(* a delta patch become a file without compression or encryption.          *)
(***************************************************************************)
EXTENDS XexFile

VARIABLES
  base,      \* the cells of the base file
  baseFrame, \* its frame
  patch,     \* the patch: its descriptor and its blocks of entries
  out,       \* outBytes
  step,      \* what apply does next, "done", or why it gave up or "crashed"
  i,         \* basic compression: the block that is moved next; patches: the entry
  src,       \* srcDataCursor
  dst,       \* outDataCursor
  walk       \* normal compression

patcherVars == <<base, baseFrame, patch, out, step, i, src, dst, walk>>

OldHeaderSize == base[HeaderSize]
BodySize == Size(base) - OldHeaderSize
OldKey == Unwrapped(Retail, base[Key])
NewKey == Unwrapped(Retail, out[Key])

\* newXexHeaderSize
Larger(a, b) == IF a > b THEN a ELSE b

GiveUp(why) == step' = why /\ UNCHANGED <<base, baseFrame, patch, out, i, src, dst, walk>>

\* ValidateXex2Headers
HeadersValid(frame, bytes) == frame.magic = "XEX2" /\ FrameSound(frame, bytes)

\* patch.delta: a module patch with a descriptor and the format of one
CheckHeaders ==
  /\ step = "headers"
  /\ IF ~HeadersValid(baseFrame, base) THEN GiveUp("XexFileInvalid")
     ELSE IF ~HeadersValid(patch.frame, patch.bytes) \/ ~patch.delta THEN GiveUp("PatchFileInvalid")
     ELSE step' = "check" /\ UNCHANGED <<base, baseFrame, patch, out, i, src, dst, walk>>

Compatible ==
  LET d == patch.header IN
  /\ d.sourceOffset <= OldHeaderSize
  /\ d.sourceSize <= OldHeaderSize - d.sourceOffset
  /\ d.targetOffset <= patch.targetSize
  /\ d.sourceSize <= patch.targetSize - d.targetOffset
  /\ patch.targetSize <= Size(base)

\* patch.whole: the blocks of the header's entries end within the file
CheckPatch ==
  /\ step = "check"
  /\ IF ~Compatible THEN GiveUp("PatchIncompatible")
     ELSE IF ~patch.whole THEN GiveUp("PatchFileInvalid")
     ELSE /\ step' = "header"
          /\ out' = Overlay(Zeros(Larger(patch.targetSize, OldHeaderSize)), 0, Slice(base, 0, patch.targetSize))
          /\ UNCHANGED <<base, baseFrame, patch, i, src, dst, walk>>

MoveHeader ==
  /\ step = "header"
  /\ LET d == patch.header IN
     out' \in IF d.sourceOffset > 0 THEN MoveOutcomes(out, d.sourceOffset, d.targetOffset, d.sourceSize) ELSE {out}
  /\ step' = "headerEntries" /\ i' = 1
  /\ UNCHANGED <<base, baseFrame, patch, src, dst, walk>>

PatchHeader ==
  /\ step = "headerEntries" /\ i <= Len(patch.headerEntries)
  /\ out' \in DeltaOutcomes(out, 0, patch.headerEntries[i])
  /\ i' = i + 1
  /\ UNCHANGED <<base, baseFrame, patch, step, src, dst, walk>>

\* The header gets the size that the patch wants, and the body of the base
\* file follows it.
CopyBody ==
  /\ step = "headerEntries" /\ i > Len(patch.headerEntries)
  /\ LET header == Resized(out, patch.targetSize) IN
     IF patch.targetSize < FieldsEnd \/ header[ImageSize] = 0 THEN GiveUp("PatchFailed")
     ELSE IF BodySize > header[ImageSize] THEN GiveUp("XexFileInvalid")
     ELSE /\ out' = Overlay(Resized(header, patch.targetSize + header[ImageSize]), patch.targetSize,
                            Slice(base, OldHeaderSize, BodySize))
          /\ step' = "keys"
          /\ UNCHANGED <<base, baseFrame, patch, i, src, dst, walk>>

\* Mutant of CheckKeys: the key is compared before it is decrypted.
CheckKeysWrapped ==
  /\ step = "keys"
  /\ IF Unwrapped(Retail, patch.keySource) # OldKey THEN GiveUp("PatchIncompatible")
     ELSE step' = "decrypt" /\ UNCHANGED <<base, baseFrame, patch, out, i, src, dst, walk>>

\* The patch holds the base's key under the new one.
CheckKeys ==
  /\ step = "keys"
  /\ IF Unwrapped(NewKey, patch.keySource) # OldKey THEN GiveUp("PatchIncompatible")
     ELSE step' = "decrypt" /\ UNCHANGED <<base, baseFrame, patch, out, i, src, dst, walk>>

Decrypt ==
  /\ step = "decrypt"
  /\ out' = IF base[Encryption] = Normal
              THEN Overlay(out, patch.targetSize, Decrypted(OldKey, Slice(out, patch.targetSize, BodySize)))
              ELSE out
  /\ step' = "decompress"
  /\ UNCHANGED <<base, baseFrame, patch, i, src, dst, walk>>

----------------------------------------------------------------------------

\* Mutant of StartBasic: both cursors start behind the data.
StartBasicShort ==
  /\ step = "decompress" /\ base[Compression] = Basic
  /\ LET data == Total(DataSizes(base), base[Info])
         whole == Total(WholeSizes(base), base[Info])
     IN IF Size(out) < patch.targetSize + whole THEN GiveUp("XexFileInvalid")
        ELSE /\ i' = base[Info]
             /\ src' = patch.targetSize + data
             /\ dst' = patch.targetSize + data
             /\ step' = "basic"
             /\ UNCHANGED <<base, baseFrame, patch, out, walk>>

\* Basic compression is undone in place from the last block to the first.
StartBasic ==
  /\ step = "decompress" /\ base[Compression] = Basic
  /\ LET data == Total(DataSizes(base), base[Info])
         whole == Total(WholeSizes(base), base[Info])
     IN IF Size(out) < patch.targetSize + whole THEN GiveUp("XexFileInvalid")
        ELSE /\ i' = base[Info]
             /\ src' = patch.targetSize + data
             /\ dst' = patch.targetSize + whole
             /\ step' = "basic"
             /\ UNCHANGED <<base, baseFrame, patch, out, walk>>

MoveBlock ==
  /\ step = "basic" /\ i > 0
  /\ LET n == DataSize(base, i)
         zeroed == Overlay(out, dst - ZeroSize(base, i), Zeros(ZeroSize(base, i)))
     IN /\ dst' = dst - ZeroSize(base, i) - n
        /\ src' = src - n
        /\ out' = Overlay(zeroed, dst', Slice(zeroed, src', n))
  /\ i' = i - 1
  /\ UNCHANGED <<base, baseFrame, patch, step, walk>>

BasicDone ==
  /\ step = "basic" /\ i = 0
  /\ step' = "format"
  /\ UNCHANGED <<base, baseFrame, patch, out, i, src, dst, walk>>

StartLzx ==
  /\ step = "decompress" /\ base[Compression] = Lzx
  /\ walk' = WalkFrom(patch.targetSize, base[Info])
  /\ step' = "lzx"
  /\ UNCHANGED <<base, baseFrame, patch, out, i, src, dst>>

WalkBlocks ==
  /\ step = "lzx" /\ (walk.inBlock \/ walk.size # 0)
  /\ IF walk.inBlock
       THEN walk' = ChunkCopied(out, walk) /\ UNCHANGED <<base, baseFrame, patch, out, step, i, src, dst>>
     ELSE IF ~BlockFits(out, patch.targetSize + BodySize, walk) THEN GiveUp("PatchFailed")
     ELSE walk' = BlockOpened(out, walk) /\ UNCHANGED <<base, baseFrame, patch, out, step, i, src, dst>>

\* The image is written behind the larger of the two headers, with the size it
\* had, and nobody asks whether outBytes is that long.
ImageAt == Larger(patch.targetSize, OldHeaderSize)
Overruns == ImageAt + base[ImageSize] > Size(out)

\* Where outBytes ends too early the heap behind it is overwritten: it may stop,
\* fail to decompress, or go on.
LzxDone ==
  /\ step = "lzx" /\ ~walk.inBlock /\ walk.size = 0
  /\ \/ /\ out' = Overlay(out, ImageAt, Expanded(Gathered(walk), base[ImageSize]))
        /\ step' = "format"
        /\ UNCHANGED <<base, baseFrame, patch, i, src, dst, walk>>
     \/ Overruns /\ \E why \in {"crashed", "PatchFailed"} : GiveUp(why)

Uncompressed ==
  /\ step = "decompress" /\ base[Compression] \notin {Basic, Lzx}
  /\ IF base[Compression] = Delta THEN GiveUp("XexFileUnsupported")
     ELSE step' = "format" /\ UNCHANGED <<base, baseFrame, patch, out, i, src, dst, walk>>

----------------------------------------------------------------------------

\* The header says that nothing is compressed or encrypted; then the image is
\* moved as the patch's descriptor wants it. outExe: where the new header ends.
OutExe == out[HeaderSize]

FormatAndMove ==
  /\ step = "format"
  /\ LET plain == [out EXCEPT ![Encryption] = None, ![Compression] = None]
         d == patch.image
     IN out' \in IF d.sourceOffset > 0
                   THEN MoveOutcomes(plain, OutExe + d.sourceOffset, OutExe + d.targetOffset, d.sourceSize)
                   ELSE {plain}
  /\ step' = "entries" /\ i' = 1
  /\ UNCHANGED <<base, baseFrame, patch, src, dst, walk>>

\* With a key that is not the one the data was encrypted with, no hash matches.
Readable == patch.encryption = None \/ Unwrapped(NewKey, patch.key) = patch.dataKey

PatchImage ==
  /\ step = "entries" /\ i <= Len(patch.entries)
  /\ IF ~Readable THEN GiveUp("PatchFailed")
     ELSE /\ out' \in DeltaOutcomes(out, OutExe, patch.entries[i])
          /\ i' = i + 1
          /\ UNCHANGED <<base, baseFrame, patch, step, src, dst, walk>>

\* Success: the caller writes outBytes to the new file.
Finish ==
  /\ step = "entries" /\ i > Len(patch.entries)
  /\ step' = "done"
  /\ UNCHANGED <<base, baseFrame, patch, out, i, src, dst, walk>>

Apply ==
  \/ CheckHeaders \/ CheckPatch \/ MoveHeader \/ PatchHeader \/ CopyBody \/ CheckKeys \/ Decrypt
  \/ StartBasic \/ MoveBlock \/ BasicDone \/ StartLzx \/ WalkBlocks \/ LzxDone \/ Uncompressed
  \/ FormatAndMove \/ PatchImage \/ Finish
===============================================================================
