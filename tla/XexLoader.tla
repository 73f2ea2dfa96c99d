-------------------------------- MODULE XexLoader --------------------------------
(***************************************************************************)
(* Image::ParseImage and Xex2LoadImage (XenonUtils/image.cpp 53-70,        *)
(* xex.cpp 134-557): a file becomes an image, its sections are mapped and  *)
(* its imports are linked.                                                 *)
(***************************************************************************)
EXTENDS XexFile, ImageSections

CONSTANTS
  Base,    \* the address of the image
  Thunk    \* the four cells of code that replace a function's import

VARIABLES
  file,      \* the cells of the file
  frame,     \* its magic, and where its tables are: FrameSound
  program,   \* what its image describes: headers, sections and imports
  image,     \* image.data
  sections,  \* image.sections: records of base, size and data
  symbols,   \* image.symbols: ordinals, which stand for names, with addresses
  phase,     \* what is loaded next, "loaded", "invalid" or "crashed"
  j,         \* block, section or import
  from,      \* srcData
  reading    \* normal compression

loaderVars == <<file, frame, program, image, sections, symbols, phase, j, from, reading>>

FileBody == Size(file) - file[HeaderSize]
FileKey == Unwrapped(Retail, file[Key])

Invalid == phase' = "invalid" /\ UNCHANGED <<file, frame, program, image, sections, symbols, j, from, reading>>

\* decryptedData, or the file itself
Source ==
  LET body == Slice(file, file[HeaderSize], FileBody)
  IN IF file[Encryption] = Normal THEN Decrypted(FileKey, body) ELSE body

\* The buffer holds what the blocks describe, or what the header says.
Allocated ==
  Zeros(IF file[Compression] = Basic THEN Total(WholeSizes(file), file[Info]) ELSE file[ImageSize])

\* Image::ParseImage: nothing is loaded from other files.
ParseImage ==
  /\ phase = "file"
  /\ CASE frame.magic = "ELF" /\ Size(file) >= MagicSize ->
            /\ phase' = "loaded"
            /\ image' = file /\ sections' = ElfSections(program)
            /\ UNCHANGED <<file, frame, program, symbols, j, from, reading>>
       [] frame.magic = "XEX2" /\ Size(file) >= MagicSize ->
            phase' = "header" /\ UNCHANGED <<file, frame, program, image, sections, symbols, j, from, reading>>
       [] OTHER -> Invalid

Load ==
  /\ phase = "header"
  /\ IF \/ ~FrameSound(frame, file)
        \/ file[ImageSize] = 0 \/ file[Compression] > Lzx
        \/ file[Compression] = None /\ file[ImageSize] > FileBody
        \/ file[Compression] = Basic /\ Size(Allocated) = 0
        \/ file[Compression] = Basic /\ Total(DataSizes(file), file[Info]) > FileBody
       THEN Invalid
     ELSE /\ image' = IF file[Compression] = None THEN Slice(Source, 0, file[ImageSize]) ELSE Allocated
          /\ phase' = CASE file[Compression] = None -> "pe"
                        [] file[Compression] = Basic -> "blocks"
                        [] file[Compression] = Lzx -> "walk"
          /\ j' = 1 /\ from' = 0 /\ reading' = WalkFrom(0, file[Info])
          /\ UNCHANGED <<file, frame, program, sections, symbols>>

\* Mutant of LoadBlock: the zeros of a block are forgotten.
LoadBlockDense ==
  /\ phase = "blocks" /\ j <= file[Info]
  /\ image' = Overlay(image, Total(DataSizes(file), j - 1), Slice(Source, from, DataSize(file, j)))
  /\ from' = from + DataSize(file, j)
  /\ j' = j + 1
  /\ UNCHANGED <<file, frame, program, sections, symbols, phase, reading>>

LoadBlock ==
  /\ phase = "blocks" /\ j <= file[Info]
  /\ image' = Overlay(image, Total(WholeSizes(file), j - 1), Slice(Source, from, DataSize(file, j)))
  /\ from' = from + DataSize(file, j)
  /\ j' = j + 1
  /\ UNCHANGED <<file, frame, program, sections, symbols, phase, reading>>

BlocksLoaded ==
  /\ phase = "blocks" /\ j > file[Info]
  /\ phase' = "pe" /\ j' = 1
  /\ UNCHANGED <<file, frame, program, image, sections, symbols, from, reading>>

ReadBlocks ==
  /\ phase = "walk" /\ (reading.inBlock \/ reading.size # 0)
  /\ IF ~reading.inBlock /\ ~BlockFits(Source, FileBody, reading) THEN Invalid
     ELSE /\ reading' = IF reading.inBlock THEN ChunkCopied(Source, reading) ELSE BlockOpened(Source, reading)
          /\ UNCHANGED <<file, frame, program, image, sections, symbols, phase, j, from>>

BlocksRead ==
  /\ phase = "walk" /\ ~reading.inBlock /\ reading.size = 0
  /\ image' = Expanded(Gathered(reading), file[ImageSize])
  /\ phase' = "pe"
  /\ UNCHANGED <<file, frame, program, sections, symbols, j, from, reading>>

----------------------------------------------------------------------------

\* The sizes of IMAGE_DOS_HEADER, IMAGE_NT_HEADERS32 and IMAGE_SECTION_HEADER
DosHeader == 1
NtHeaders == 1
SectionHeader == 1
MaxSections == 96

PeSound(pe, count) ==
  /\ pe.dos /\ file[ImageSize] >= DosHeader + NtHeaders
  /\ pe.at < file[ImageSize] - NtHeaders
  /\ pe.nt
  /\ count \in 1 .. MaxSections
  /\ pe.at + NtHeaders + count * SectionHeader <= file[ImageSize]

ReadPe ==
  /\ phase = "pe"
  /\ IF ~PeSound(program.pe, Len(program.sections)) THEN Invalid
     ELSE /\ phase' = "sections"
          /\ UNCHANGED <<file, frame, program, image, sections, symbols, j, from, reading>>

\* Mutant of Clamped: a section keeps its size.
ClampedNever(s) == s.size

Clamped(s) == IF s.size > file[ImageSize] - s.at THEN file[ImageSize] - s.at ELSE s.size

MapSection ==
  /\ phase = "sections" /\ j <= Len(program.sections)
  /\ LET s == program.sections[j] IN
     IF s.size # 0 /\ s.at >= file[ImageSize] THEN Invalid
     ELSE /\ sections' = IF s.size = 0 THEN sections
                         ELSE MapInto(sections, [base |-> Base + s.at, size |-> Clamped(s), code |-> s.code, data |-> s.at])
          /\ j' = j + 1
          /\ UNCHANGED <<file, frame, program, image, symbols, phase, from, reading>>

SectionsMapped ==
  /\ phase = "sections" /\ j > Len(program.sections)
  /\ phase' = "imports" /\ j' = 1
  /\ UNCHANGED <<file, frame, program, image, sections, symbols, from, reading>>

\* image.Find
Find(address) == OffsetsAt(sections, address)

\* ByteSwap of the word of an import, of which two bytes matter, the first and
\* the last; Xex2ThunkData as the host reads it then.
Byte == 3
Swapped(word) == Byte * (word % Byte) + word \div Byte
TypeOf(word) == word % Byte
OrdinalOf(word) == word \div Byte

\* Mutant of ImportWord: the word is read before it is swapped.
ImportWordUnswapped(k) == image[k]

\* What is found at an import, swapped where it is.
ImportWord(k) == Swapped(image[k])

\* The word of a function's import becomes a symbol, if its library has a name for
\* the ordinal, and code; of a variable's the bytes stay swapped. Code that does
\* not fit into the image is written behind it.
LinkImport ==
  /\ phase = "imports" /\ j <= Len(program.imports)
  /\ LET import == program.imports[j] IN
     IF Find(import.thunk) = {} THEN UNCHANGED <<image, symbols, phase>>
     ELSE LET k == CHOOSE k \in Find(import.thunk) : TRUE
              word == ImportWord(k)
          IN IF TypeOf(word) = 0
               THEN image' = [image EXCEPT ![k] = word] /\ UNCHANGED <<symbols, phase>>
             ELSE /\ symbols' = IF OrdinalOf(word) \in import.names
                                  THEN symbols \cup {<<OrdinalOf(word), import.thunk>>} ELSE symbols
                  /\ image' = Overlay(image, k, Thunk)
                  /\ phase' \in IF k + 3 \in DOMAIN image THEN {phase} ELSE {phase, "crashed"}
  /\ j' = j + 1
  /\ UNCHANGED <<file, frame, program, sections, from, reading>>

ImportsDone ==
  /\ phase = "imports" /\ j > Len(program.imports)
  /\ phase' = "loaded"
  /\ UNCHANGED <<file, frame, program, image, sections, symbols, j, from, reading>>

LoadImage ==
  \/ ParseImage \/ Load \/ LoadBlock \/ BlocksLoaded \/ ReadBlocks \/ BlocksRead
  \/ ReadPe \/ MapSection \/ SectionsMapped \/ LinkImport \/ ImportsDone
===============================================================================
