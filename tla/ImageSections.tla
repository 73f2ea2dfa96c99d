------------------------------ MODULE ImageSections ------------------------------
(***************************************************************************)
(* The sections of an Image (XenonUtils/image.h, image.cpp) and the ELF    *)
(* loader. A section is a record of its first address, its size and the    *)
(* offset of its bytes in image.data.                                      *)
(***************************************************************************)
EXTENDS Integers, Sequences

\* Image::Map: the set is ordered by base and keeps the first of two with the same.
MapInto(sections, section) ==
  IF \E s \in sections : s.base = section.base THEN sections ELSE sections \cup {section}

\* Mutant of SectionAt: the section before the address, however long it is.
SectionAtUnbounded(sections, address) ==
  LET before == {s \in sections : s.base <= address}
  IN {s \in before : \A t \in before : t.base <= s.base}

\* Image::FindSection: the one before the upper bound, if it reaches so far.
SectionAt(sections, address) ==
  LET before == {s \in sections : s.base <= address}
  IN {s \in before : (\A t \in before : t.base <= s.base) /\ address < s.base + s.size}

\* Image::Find: offsets into image.data, none or one
OffsetsAt(sections, address) ==
  {s.data + (address - s.base) : s \in SectionAt(sections, address)}

----------------------------------------------------------------------------

\* The types of ELF sections that matter: no section, bytes of the file, zeros
\* that the file does not hold.
Inactive == 0
ProgBits == 1
NoBits == 8

\* image.base: the first PT_LOAD segment's address
ElfBase(elf) ==
  LET loaded == SelectSeq(elf.segments, LAMBDA s : s.load)
  IN IF loaded = <<>> THEN 0 ELSE loaded[1].address

\* Map adds the base to the address relative to it.
ElfSection(elf, s) ==
  LET rva == s.address - ElfBase(elf)
  IN [base |-> ElfBase(elf) + rva, size |-> s.size, code |-> s.code, data |-> s.at]

\* ElfLoadImage: the sections of the table, whatever their type and size
ElfSections(elf) ==
  LET mapped[n \in 0 .. Len(elf.sections)] ==
        IF n = 0 THEN {}
        ELSE IF elf.sections[n].type = Inactive THEN mapped[n - 1]
        ELSE MapInto(mapped[n - 1], ElfSection(elf, elf.sections[n]))
  IN mapped[Len(elf.sections)]
===============================================================================
