------------------------------ MODULE JumpTables ------------------------------
(***************************************************************************)
(* XenonAnalyse: the code sections are searched for the four ways in which *)
(* the compiler dispatches through a jump table, and the tables that they  *)
(* read are written to the switch table file.                              *)
(*                                                                         *)
(* An address is below Half * Half, where the program has 2^16 * 2^16; an  *)
(* instruction is a record, and a table entry is kept at its first byte.   *)
(***************************************************************************)
EXTENDS Integers, Sequences, FiniteSetsExt

CONSTANTS
  Half,         \* values of the upper or lower half of an address
  Reach         \* words that ScanTable looks at (32 in the code)

ASSUME JumpTablesAssumption == Half \in Nat \ {0} /\ Reach \in Nat

VARIABLES
  image,        \* sections: base, size, whether code, words, entries
  pattern,      \* the pattern that is searched for; Len(Patterns) + 1 at the end
  section,      \* the section that is searched
  cursor,       \* the next word of it
  switches,     \* the tables that were printed
  ignored       \* the candidates that were refused with a warning

scanVars == <<image, pattern, section, cursor, switches, ignored>>

Word == Half * Half

Patterns ==
  <<[type |-> "absolute",    ops |-> <<"lis", "addi", "rlwinm", "lwzx", "mtctr", "bctr">>],
    [type |-> "computed",    ops |-> <<"lis", "addi", "lbzx", "rlwinm", "lis", "addi", "add", "mtctr">>],
    [type |-> "byteoffset",  ops |-> <<"lis", "addi", "lbzx", "lis", "addi", "add", "mtctr">>],
    [type |-> "shortoffset", ops |-> <<"lis", "addi", "rlwinm", "lhzx", "lis", "addi", "add", "mtctr">>]>>

Matches(words, ops, from) ==
  {m \in from .. (Len(words) - Len(ops) + 1) :
     \A c \in 1 .. Len(ops) : words[m + c - 1].op = ops[c]}

IsRegionMapped(address, bytes) ==
  \E s \in DOMAIN image :
    /\ address \in image[s].base .. (image[s].base + image[s].size - 1)
    /\ address + bytes <= image[s].base + image[s].size

Entry(address) ==
  LET s == CHOOSE s \in DOMAIN image :
             address \in image[s].base .. (image[s].base + image[s].size - 1)
  IN image[s].entries[address]

----------------------------------------------------------------------------

\* The range check in front of a dispatch: the branch on "greater" nearest to it,
\* and the nearest compare in front of that which sets the same field.  The first
\* word of the section is never looked at.
Behind(m) == {k \in 0 .. (Reach - 1) : m - k > 1}

\* Mutant of Branches: a branch round the default label is not taken for a range check.
BranchesGreater(words, m) == {k \in Behind(m) : words[m - k].op \in {"bgt", "bgtlr"}}

Branches(words, m) == {k \in Behind(m) : words[m - k].op \in {"bgt", "bgtlr", "ble", "blelr"}}

Compares(words, m) ==
  LET b == Min(Branches(words, m)) IN
  {k \in Behind(m) : k > b /\ words[m - k].op = "cmplwi" /\ words[m - k].cr = words[m - b].cr}

Guarded(words, m) == Branches(words, m) # {} /\ Compares(words, m) # {}

\* ScanTable: register, number of cases and default label.
ScanTable(words, m) ==
  LET compare == words[m - Min(Compares(words, m))]
      branch  == words[m - Min(Branches(words, m))]
  IN [r |-> compare.ra, count |-> compare.imm + 1,
      default |-> IF branch.op \in {"bgt", "ble"} THEN branch.target ELSE 0]

\* Mutant of Loaded: the lower half is joined to the upper half, not added.
LoadedJoined(words, m) == ((words[m].imm * Half) % Word) + (words[m + 1].imm % Half)

\* ReadTable: where the entries are, their size, and the label that one means.
Loaded(words, m) == (words[m].imm * Half + words[m + 1].imm) % Word

Stride(type) == CASE type = "absolute" -> 4 [] type = "shortoffset" -> 2 [] OTHER -> 1

LabelBase(words, m, type) ==
  CASE type = "absolute"   -> 0
    [] type = "byteoffset" -> Loaded(words, m + 3)
    [] OTHER               -> Loaded(words, m + 4)

Shift(words, m, type) == IF type = "computed" THEN words[m + 3].sh ELSE 0

Readable(words, m, type, base, count) ==
  /\ IsRegionMapped(base, 24)
  /\ IsRegionMapped(Loaded(words, m), count * Stride(type))
  /\ Shift(words, m, type) <= 24

ReadTable(words, m, type, count) ==
  [k \in 1 .. count |->
     (LabelBase(words, m, type)
        + Entry(Loaded(words, m) + (k - 1) * Stride(type)) * 2 ^ Shift(words, m, type)) % Word]

----------------------------------------------------------------------------

Searching == pattern <= Len(Patterns)
Here == image[section].words
Found == IF image[section].code THEN Matches(Here, Patterns[pattern].ops, cursor) ELSE {}

ScanInit ==
  /\ pattern = 1 /\ section = 1 /\ cursor = 1
  /\ switches = <<>> /\ ignored = <<>>

\* The next match of the pattern in the section.
Match ==
  /\ Searching /\ section <= Len(image) /\ Found # {}
  /\ LET m     == Min(Found)
         type  == Patterns[pattern].type
         base  == image[section].base + 4 * (m - 1)
         table == ScanTable(Here, m)
     IN /\ cursor' = m + 1
        /\ \/ /\ ~Guarded(Here, m)
              /\ UNCHANGED <<switches, ignored>>
           \/ /\ Guarded(Here, m)
              /\ Readable(Here, m, type, base, table.count)
              /\ switches' = Append(switches,
                   [base |-> base, r |-> table.r, default |-> table.default,
                    labels |-> ReadTable(Here, m, type, table.count)])
              /\ UNCHANGED ignored
           \/ /\ Guarded(Here, m)
              /\ ~Readable(Here, m, type, base, table.count)
              /\ ignored' = Append(ignored, base)
              /\ UNCHANGED switches
  /\ UNCHANGED <<image, pattern, section>>

NextSection ==
  /\ Searching /\ section <= Len(image) /\ Found = {}
  /\ section' = section + 1 /\ cursor' = 1
  /\ UNCHANGED <<image, pattern, switches, ignored>>

NextPattern ==
  /\ Searching /\ section > Len(image)
  /\ pattern' = pattern + 1 /\ section' = 1 /\ cursor' = 1
  /\ UNCHANGED <<image, switches, ignored>>

ScanNext == Match \/ NextSection \/ NextPattern
=============================================================================
