------------------------------- MODULE MCXexImage -------------------------------
EXTENDS XexImage, TLC

OfSeq(s) == [k \in 0 .. Len(s) - 1 |-> s[k + 1]]
MCThunk == OfSeq(<<6, 6, 6, 7>>)

Frame(magic, security, count) == [magic |-> magic, security |-> security, count |-> count]

\* Two images, and their cells in pairs, the last with something behind it.
Even == <<3, 7, 1, 5, 8, 2, 1, 0, 2, 4, 6, 3, 1, 2, 0, 0>>
Odd  == <<4, 1, 2, 5, 1, 0, 0, 0, 0, 3, 2, 6, 1>>
Pairs(words, first, n) == [k \in 1 .. n |->
  LET a == 2 * (first + k) - 1 IN 10 * words[a] + (IF a < Len(words) THEN words[a + 1] ELSE 7)]

\* The even one has two blocks, or one with two chunks; the odd one three blocks, of
\* which two have no zeros, or two chained ones, each with a cell behind it.
Part(kind, at, packed, n, end, next) ==
  [kind |-> kind, at |-> at, from |-> packed, n |-> n, end |-> end, next |-> next]

EvenBasic == [image |-> Even, body |-> SubSeq(Even, 1, 7) \o SubSeq(Even, 9, 14), info |-> <<2, 7, 1, 6, 2>>, parts |-> <<>>]
EvenLzx ==
  [image |-> Even, body |-> <<0, 3>> \o Pairs(Even, 0, 3) \o <<5>> \o Pairs(Even, 3, 5) \o <<0>>, info |-> <<12>>,
   parts |-> <<Part("open", 0, 0, 0, 12, 0), Part("chunk", 1, 0, 3, 12, 0), Part("chunk", 5, 3, 5, 12, 0),
               Part("close", 11, 8, 0, 12, 0)>>]
OddBasic == [image |-> Odd, body |-> SubSeq(Odd, 1, 5) \o SubSeq(Odd, 10, 13), info |-> <<3, 3, 0, 2, 4, 4, 0>>, parts |-> <<>>]
OddLzx ==
  [image |-> Odd, body |-> <<7, 4>> \o Pairs(Odd, 0, 4) \o <<0, 9, 0, 3>> \o Pairs(Odd, 4, 3) \o <<0, 5>>, info |-> <<8>>,
   parts |-> <<Part("open", 0, 0, 0, 8, 7), Part("chunk", 1, 0, 4, 8, 7), Part("close", 6, 4, 0, 8, 7),
               Part("open", 8, 4, 0, 15, 0), Part("chunk", 9, 4, 3, 15, 0), Part("close", 13, 7, 0, 15, 0)>>]
EvenPlain == [image |-> Even, body |-> Even, info |-> <<>>, parts |-> <<>>]

FileOf(layout, compression, encryption, tables) ==
  LET told == <<Larger(10, 5 + Len(layout.info)), Wrapped(Retail, 1), Len(layout.image), encryption, compression>> \o layout.info
      header == Resized(OfSeq(told), told[1])
      body == OfSeq(layout.body)
  IN [image |-> OfSeq(layout.image), body |-> body, parts |-> layout.parts, key |-> 1, frame |-> tables,
      bytes |-> Joined(header, IF encryption = Normal THEN Encrypted(1, body) ELSE body)]

Sound == Frame("XEX2", 4, 3)

\* Corrupt frames: another magic, security info beyond the file, more optional
\* headers than the header holds
MCBases ==
  {FileOf(EvenPlain, None, e, Sound) : e \in {None, Normal}}
  \cup {FileOf(EvenBasic, Basic, e, Sound) : e \in {None, Normal}}
  \cup {FileOf(EvenLzx, Lzx, e, Sound) : e \in {None, Normal}}
  \cup {FileOf(EvenPlain, Delta, None, Sound), FileOf(OddBasic, Basic, Normal, Sound), FileOf(OddLzx, Lzx, Normal, Sound)}
  \cup {FileOf(EvenPlain, None, Normal, f) : f \in {Frame("MZ", 4, 3), Frame("XEX2", 27, 3), Frame("XEX2", 4, 9)}}

Zero(new, n) == [kind |-> "zero", new |-> new, n |-> n, old |-> 0, data |-> Zeros(0)]
Move(old, new, n) == [kind |-> "move", new |-> new, n |-> n, old |-> old, data |-> Zeros(0)]
Data(old, new, s) == [kind |-> "data", new |-> new, n |-> Len(s), old |-> old, data |-> OfSeq(s)]

Shift(s, t, n) == [sourceOffset |-> s, targetOffset |-> t, sourceSize |-> n]

\* The entries of the images
MCEntries ==
  {<<>>, <<Zero(1, 2), Move(8, 4, 3), Data(4, 2, <<-3, 7, -1, -2>>)>>, <<Move(2, 4, 5)>>}

\* The first entry of the header writes its size, the new key and the new size.
Update(targetSize, newKey, newSize, entries, headerShift, shift, keyFrom, dataKey) ==
  [none |-> FALSE, targetSize |-> targetSize, newKey |-> newKey, newSize |-> newSize,
   header |-> headerShift, image |-> shift,
   headerEntries |-> <<Data(0, 0, <<targetSize, Wrapped(Retail, newKey) , newSize>>)>>,
   frame |-> Frame("XEX2", 2, 2), bytes |-> OfSeq(<<4, 0, 0, 0, 0>>), delta |-> TRUE, whole |-> TRUE,
   entries |-> entries, keySource |-> Wrapped(newKey, keyFrom),
   encryption |-> Normal, key |-> Wrapped(newKey, 3), dataKey |-> dataKey]

NoPatch == [none |-> TRUE]

Plainest == Update(10, 2, 16, <<>>, Shift(0, 0, 0), Shift(0, 0, 0), 1, 3)

MCPatches ==
  {NoPatch, [Plainest EXCEPT !.frame = Frame("XEX1", 2, 2)], [Plainest EXCEPT !.bytes[HeaderSize] = 6],
   [Plainest EXCEPT !.delta = FALSE], [Plainest EXCEPT !.whole = FALSE]}
  \cup {Update(t, k, n, e, h, s, 1, 3) :
          t \in {8, 10, 12}, k \in {1, 2}, n \in {16, 20}, e \in MCEntries,
          h \in {Shift(0, 0, 0), Shift(6, 5, 1), Shift(11, 0, 0)},
          s \in {Shift(0, 0, 0), Shift(2, 8, 4), Shift(4, 6, 8)}}
  \cup {Update(10, 2, n, <<Zero(1, 2)>>, Shift(0, 0, 0), Shift(0, 0, 0), f, d) :
          n \in {12, 15, 16}, f \in {1, 4}, d \in {3, 5}}

\* Sections in any order, the last sticking out, one stripped, with gaps, or none
\* at all; executable headers that are not. Import tables with variables next to
\* each other and to functions, ordinals with and without a name, an address that
\* is not mapped; words that are visited twice; code that does not fit.
Pe(dos, at, nt) == [dos |-> dos, at |-> at, nt |-> nt]

Import(thunk, names) == [thunk |-> thunk, names |-> names]

Whole ==
  [pe |-> Pe(TRUE, 2, TRUE),
   sections |-> <<[at |-> 9, size |-> 30, code |-> FALSE], [at |-> 1, size |-> 6, code |-> TRUE],
                  [at |-> 77, size |-> 0, code |-> FALSE]>>,
   imports |-> <<Import(102, {}), Import(103, {0, 2}), Import(108, {0}), Import(109, {0, 2}), Import(113, {1})>>]

MCPrograms ==
  {Whole, [Whole EXCEPT !.imports = <<Import(102, {0}), Import(102, {0, 1}), Import(109, {1}), Import(109, {0})>>],
   [Whole EXCEPT !.imports = <<Import(111, {0})>>],
   [Whole EXCEPT !.sections = <<>>], [Whole EXCEPT !.sections = <<[at |-> 40, size |-> 1, code |-> TRUE]>>],
   [Whole EXCEPT !.pe = Pe(TRUE, 16, TRUE)], [Whole EXCEPT !.pe = Pe(TRUE, 12, TRUE)]}

\* Executables with code, data, zeros and a section for debuggers at address 0,
\* with an empty section at the address of another, and one without segments.
Elf(type, address, at, size) == [type |-> type, address |-> address, at |-> at, size |-> size, code |-> FALSE]
Segment(load, address) == [load |-> load, address |-> address]

MCElves ==
  {[segments |-> <<Segment(FALSE, 7), Segment(TRUE, 100), Segment(TRUE, 120)>>,
    sections |-> <<Elf(Inactive, 0, 0, 0), Elf(ProgBits, 104, 6, 5), Elf(ProgBits, 112, 11, 4),
                   Elf(NoBits, 116, 15, 6), Elf(ProgBits, 0, 15, 8), Elf(ProgBits, 0, 20, 3)>>],
   [segments |-> <<Segment(TRUE, 100)>>,
    sections |-> <<Elf(ProgBits, 110, 6, 0), Elf(ProgBits, 110, 6, 8), Elf(ProgBits, 100, 14, 10)>>],
   [segments |-> <<>>, sections |-> <<Elf(ProgBits, 0, 3, 9), Elf(ProgBits, 0, 12, 4)>>]}
===============================================================================
