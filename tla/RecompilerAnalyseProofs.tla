----------------------- MODULE RecompilerAnalyseProofs -----------------------
(***************************************************************************)
(* The safety properties of RecompilerAnalyse that hold of every image and *)
(* configuration. Functions and symbols are only ever added together: what *)
(* is known about an address stays known, so that each pass can rely on    *)
(* what the passes before it registered.                                   *)
(***************************************************************************)
EXTENDS RecompilerAnalyse, NaturalLemmas, SequenceTheorems

Explicit == {"helper", "configured"}
Origins == Explicit \cup {"pdata", "call", "scan"}
FunctionType == [base : Nat, size : Nat \ {0}, from : Origins]
SymbolType == [address : Nat, size : Nat]

TypeOK ==
  /\ input \in Inputs
  /\ phase \in {"helpers", "configured", "pdata", "calls", "skip", "scan", "sort", "extend", "done"}
  /\ index \in Nat /\ section \in Nat \ {0} /\ at \in Nat
  /\ functions \in Seq(FunctionType)
  /\ symbols \in Seq(SymbolType)

\* The section a pass works on, and its position.
Cursor ==
  /\ phase \in {"configured", "pdata", "extend"} => index >= 1
  /\ phase \in {"helpers", "configured", "pdata"} => section = 1
  /\ phase \in {"calls", "scan"} =>
       section \in DOMAIN Sections /\ Sections[section].code /\ Sections[section].base <= at
  /\ phase = "skip" => section \in DOMAIN Sections /\ ~Sections[section].code
  /\ phase \in {"sort", "extend", "done"} => section = Len(Sections) + 1

\* A function starts at a known address, and before .pdata is read every one of
\* them is explicit.
Listed ==
  /\ \A i \in DOMAIN functions : Known(functions[i].base)
  /\ phase \in {"helpers", "configured"} => \A i \in DOMAIN functions : functions[i].from \in Explicit
  /\ DuplicatesAreExplicit
  /\ FunctionsInSection

\* The linear scan has left no hole in the sections behind it either.
NoHole ==
  /\ phase = "scan" => Scanned(section, Min({at, SectionEnd(section)}))
  /\ \A s \in DOMAIN Sections : s < section /\ Sections[s].code => Scanned(s, SectionEnd(s))

\* A call target that the scan of calls has passed is known.
CallKnown(a, s) ==
  input.words[a].op = "bl" /\ input.words[a].n \in CodeAddresses(s) => Known(input.words[a].n)

CallsKnown ==
  /\ \A s \in DOMAIN Sections : s < section => \A a \in CodeAddresses(s) : CallKnown(a, s)
  /\ phase = "calls" =>
       \A a \in CodeAddresses(section) : a < at => CallKnown(a, section)
  /\ phase = "scan" => \A a \in CodeAddresses(section) : CallKnown(a, section)

\* The switch extension relies on a sorted list.
InOrder ==
  phase = "extend" =>
    \A i, j \in DOMAIN functions : i < j => functions[i].base <= functions[j].base

IInv == TypeOK /\ Cursor /\ Listed /\ NoHole /\ CallsKnown /\ InOrder

----------------------------------------------------------------------------
\* Sections.

LEMMA SectionTypes ==
  /\ Len(Sections) \in Nat
  /\ DOMAIN Sections = 1..Len(Sections)
  /\ \A s \in DOMAIN Sections :
       Sections[s].base \in Nat /\ Sections[s].size \in Nat /\ SectionEnd(s) \in Nat
<1> DEFINE T == [base : Nat, size : Nat, code : BOOLEAN]
<1>1. \A x \in T : x.base \in Nat /\ x.size \in Nat
  OBVIOUS
<1>2. Sections \in Seq(T)
  BY SectionsAssumption
<1> HIDE DEF T
<1>3. Len(Sections) \in Nat /\ DOMAIN Sections = 1..Len(Sections) /\ \A s \in DOMAIN Sections : Sections[s] \in T
  BY <1>2
<1> QED BY <1>1, <1>3 DEF SectionEnd

\* The section that is found for an address holds it.
LEMMA FoundSection ==
  ASSUME NEW a \in Nat, FindSection(a) # 0
  PROVE  /\ FindSection(a) \in DOMAIN Sections
         /\ Sections[FindSection(a)].base <= a
         /\ a < SectionEnd(FindSection(a))
<1> DEFINE below == {s \in DOMAIN Sections : Sections[s].base <= a}
<1>1. below # {} /\ a < SectionEnd(Max(below)) /\ FindSection(a) = Max(below)
  BY DEF FindSection
<1>2. below \subseteq Nat /\ \A s \in below : s <= Len(Sections)
  BY SectionTypes
<1>3. Max(below) \in below
  <2> HIDE DEF below
  <2> QED BY <1>1, <1>2, SectionTypes, MaxNat
<1> QED BY <1>1, <1>3

\* An address inside a section is found there, because sections lie apart.
LEMMA SectionHolds ==
  ASSUME NEW s \in DOMAIN Sections, NEW a \in Nat, Sections[s].base <= a, a < SectionEnd(s)
  PROVE  FindSection(a) = s /\ s # 0
<1> DEFINE below == {t \in DOMAIN Sections : Sections[t].base <= a}
<1>1. below \subseteq Nat /\ (\A t \in below : t <= Len(Sections)) /\ s \in below
  BY SectionTypes
<1>2. Max(below) \in below /\ \A t \in below : t <= Max(below)
  <2> HIDE DEF below
  <2> QED BY <1>1, SectionTypes, MaxNat
<1>3. ~(s < Max(below))
  <2> SUFFICES ASSUME s < Max(below) PROVE FALSE
    OBVIOUS
  <2>1. SectionEnd(s) <= Sections[Max(below)].base /\ Sections[Max(below)].base <= a
    BY <1>2, SectionsAssumption DEF Apart
  <2> QED BY <1>2, <2>1, SectionTypes
<1>4. Max(below) = s
  <2>1. Max(below) \in Nat /\ s \in Nat /\ s <= Max(below)
    BY <1>1, <1>2
  <2> HIDE DEF below
  <2> QED BY <1>3, <2>1
<1> QED BY <1>1, <1>4, SectionTypes DEF FindSection

\* The words of an input have operands that are addresses or sizes.
LEMMA WordTypes ==
  ASSUME input \in Inputs, NEW s \in DOMAIN Sections, NEW a \in Nat,
         Sections[s].base <= a, a < SectionEnd(s)
  PROVE  input.words[a].n \in Nat
<1>1. a \in Sections[s].base .. (SectionEnd(s) - 1)
  BY SectionTypes
<1>2. \A t \in DOMAIN Sections : \A b \in Sections[t].base .. (SectionEnd(t) - 1) : input.words[b].n \in Nat
  BY InputsAssumption, Zenon
<1> QED BY <1>1, <1>2

----------------------------------------------------------------------------
\* Registering functions.

\* What FunctionsInSection says of one function
InPlace(f) ==
  \/ f.from = "helper"
  \/ f.from \in {"call", "scan"} /\ f.size = 2
  \/ FindSection(f.base) # 0 /\ End(f) <= SectionEnd(FindSection(f.base))

\* One list behind another
LEMMA Concatenation ==
  ASSUME NEW T, NEW s \in Seq(T), NEW t \in Seq(T)
  PROVE  /\ s \o t \in Seq(T)
         /\ Len(s \o t) = Len(s) + Len(t)
         /\ DOMAIN (s \o t) = 1 .. Len(s) + Len(t)
         /\ \A i \in DOMAIN s : i \in DOMAIN (s \o t) /\ (s \o t)[i] = s[i]
         /\ \A i \in DOMAIN t : Len(s) + i \in DOMAIN (s \o t) /\ (s \o t)[Len(s) + i] = t[i]
<1>1. Len(s) \in Nat /\ DOMAIN s = 1..Len(s) /\ Len(t) \in Nat /\ DOMAIN t = 1..Len(t)
  OBVIOUS
<1>2. s \o t \in Seq(T) /\ Len(s \o t) = Len(s) + Len(t)
  OBVIOUS
<1>3. DOMAIN (s \o t) = 1 .. Len(s) + Len(t)
  BY <1>2
<1>4. \A i \in 1 .. Len(s) + Len(t) : (s \o t)[i] = IF i <= Len(s) THEN s[i] ELSE t[i - Len(s)]
  BY ConcatProperties
<1> QED BY <1>1, <1>2, <1>3, <1>4

\* The two lists after Register.
LEMMA Appended ==
  ASSUME TypeOK, NEW fs \in Seq(FunctionType), Register(fs)
  PROVE  /\ functions' \in Seq(FunctionType) /\ symbols' \in Seq(SymbolType)
         /\ Len(functions') = Len(functions) + Len(fs)
         /\ \A i \in DOMAIN functions : i \in DOMAIN functions' /\ functions'[i] = functions[i]
         /\ \A i \in DOMAIN symbols : i \in DOMAIN symbols' /\ symbols'[i] = symbols[i]
         /\ \A i \in DOMAIN fs :
              /\ Len(functions) + i \in DOMAIN functions' /\ functions'[Len(functions) + i] = fs[i]
              /\ Len(symbols) + i \in DOMAIN symbols'
              /\ symbols'[Len(symbols) + i] = Symbol(fs[i].base, fs[i].size)
<1> DEFINE added == [i \in DOMAIN fs |-> Symbol(fs[i].base, fs[i].size)]
<1>1. ASSUME NEW i \in DOMAIN fs PROVE Symbol(fs[i].base, fs[i].size) \in SymbolType
  <2>1. fs[i] \in FunctionType
    OBVIOUS
  <2> QED BY <2>1 DEF Symbol, SymbolType, FunctionType
<1>2. added \in Seq(SymbolType) /\ Len(added) = Len(fs) /\ DOMAIN added = DOMAIN fs
  BY <1>1
<1>3. functions' = functions \o fs /\ symbols' = symbols \o added
  BY DEF Register
<1>4. functions \in Seq(FunctionType) /\ symbols \in Seq(SymbolType)
  BY DEF TypeOK
<1>5. \A i \in DOMAIN fs : added[i] = Symbol(fs[i].base, fs[i].size)
  OBVIOUS
<1> HIDE DEF added
<1>6. /\ functions' \in Seq(FunctionType)
      /\ Len(functions') = Len(functions) + Len(fs)
      /\ \A i \in DOMAIN functions : i \in DOMAIN functions' /\ functions'[i] = functions[i]
      /\ \A i \in DOMAIN fs :
           Len(functions) + i \in DOMAIN functions' /\ functions'[Len(functions) + i] = fs[i]
  BY <1>3, <1>4, Concatenation
<1>7. /\ symbols' \in Seq(SymbolType)
      /\ \A i \in DOMAIN symbols : i \in DOMAIN symbols' /\ symbols'[i] = symbols[i]
      /\ \A i \in DOMAIN added :
           Len(symbols) + i \in DOMAIN symbols' /\ symbols'[Len(symbols) + i] = added[i]
  BY <1>2, <1>3, <1>4, Concatenation
<1> QED BY <1>2, <1>5, <1>6, <1>7

SymbolsKept == \A i \in DOMAIN symbols : i \in DOMAIN symbols' /\ symbols'[i] = symbols[i]

\* What is known stays known.
LEMMA KnownKept ==
  ASSUME SymbolsKept
  PROVE  /\ \A a : Known(a) => Known(a)'
         /\ \A a : HasSymbol(a) => HasSymbol(a)'
BY DEF SymbolsKept, Known, Matches, HasSymbol

\* Every function of the list after Register is an old one or an added one.
LEMMA AppendedFunctions ==
  ASSUME TypeOK, NEW fs \in Seq(FunctionType), Register(fs), NEW i \in DOMAIN functions'
  PROVE  \/ i \in DOMAIN functions /\ functions'[i] = functions[i]
         \/ \E k \in DOMAIN fs : i = Len(functions) + k /\ functions'[i] = fs[k]
<1>1. functions \in Seq(FunctionType) /\ functions' \in Seq(FunctionType)
  BY Appended DEF TypeOK
<1>2. /\ DOMAIN functions = 1..Len(functions) /\ DOMAIN fs = 1..Len(fs)
      /\ DOMAIN functions' = 1..Len(functions') /\ Len(functions') = Len(functions) + Len(fs)
      /\ Len(functions) \in Nat /\ Len(fs) \in Nat
  BY <1>1, Appended
<1>3. CASE i <= Len(functions)
  BY <1>2, <1>3, Appended
<1>4. CASE ~(i <= Len(functions))
  <2>1. i - Len(functions) \in DOMAIN fs /\ Len(functions) + (i - Len(functions)) = i
    BY <1>2, <1>4
  <2> QED BY <2>1, Appended
<1> QED BY <1>3, <1>4

\* Functions at addresses not known so far, or explicit ones during the first two
\* passes, may be registered.
LEMMA ListedGrown ==
  ASSUME TypeOK, Listed, NEW fs \in Seq(FunctionType), Register(fs),
         \A k \in DOMAIN fs : InPlace(fs[k]),
         \/ \A k \in DOMAIN fs : fs[k].from \in Explicit
         \/ Len(fs) = 1 /\ ~Known(fs[1].base),
         (\A k \in DOMAIN fs : fs[k].from \in Explicit) =>
            \A i \in DOMAIN functions : functions[i].from \in Explicit
  PROVE  /\ SymbolsKept
         /\ \A i \in DOMAIN functions' : Known(functions[i].base)'
         /\ (\A k \in DOMAIN fs : fs[k].from \in Explicit) =>
               \A i \in DOMAIN functions' : functions'[i].from \in Explicit
         /\ DuplicatesAreExplicit'
         /\ FunctionsInSection'
<1>1. SymbolsKept
  BY Appended DEF SymbolsKept
<1>2. ASSUME NEW k \in DOMAIN fs, NEW b, b = fs[k].base PROVE Known(b)'
  <2>1. fs[k] \in FunctionType
    OBVIOUS
  <2>2. /\ Len(symbols) + k \in DOMAIN symbols'
        /\ symbols'[Len(symbols) + k] = Symbol(fs[k].base, fs[k].size)
    BY Appended
  <2> QED BY <1>2, <2>1, <2>2 DEF Known, Matches, Symbol, FunctionType
<1>3. ASSUME NEW i \in DOMAIN functions' PROVE Known(functions[i].base)'
  <2>1. PICK b : b = functions'[i].base
    OBVIOUS
  <2>2. Known(b)'
    <3>1. CASE i \in DOMAIN functions /\ functions'[i] = functions[i]
      BY <1>1, <2>1, <3>1, KnownKept DEF Listed
    <3>2. CASE \E k \in DOMAIN fs : functions'[i] = fs[k]
      BY <1>2, <2>1, <3>2
    <3> QED BY <3>1, <3>2, AppendedFunctions
  <2> QED BY <2>1, <2>2 DEF Known, Matches
<1>4. ASSUME \A k \in DOMAIN fs : fs[k].from \in Explicit
      PROVE  \A i \in DOMAIN functions' : functions'[i].from \in Explicit
  BY <1>4, AppendedFunctions
<1>5. DuplicatesAreExplicit'
  <2>1. CASE \A k \in DOMAIN fs : fs[k].from \in Explicit
    BY <1>4, <2>1 DEF DuplicatesAreExplicit, Explicit
  <2>2. CASE Len(fs) = 1 /\ ~Known(fs[1].base)
    <3> SUFFICES ASSUME NEW i \in DOMAIN functions', NEW j \in DOMAIN functions', i # j,
                        functions'[i].base = functions'[j].base
                 PROVE  {functions'[i].from, functions'[j].from} \subseteq {"helper", "configured"}
      BY DEF DuplicatesAreExplicit
    <3>1. DOMAIN fs = {1}
      BY <2>2
    <3>2. \A k \in DOMAIN functions : functions[k].base # fs[1].base
      BY <2>2 DEF Listed
    <3>3. \/ i \in DOMAIN functions /\ functions'[i] = functions[i]
          \/ i = Len(functions) + 1 /\ functions'[i] = fs[1]
      BY <3>1, AppendedFunctions
    <3>4. \/ j \in DOMAIN functions /\ functions'[j] = functions[j]
          \/ j = Len(functions) + 1 /\ functions'[j] = fs[1]
      BY <3>1, AppendedFunctions
    <3>5. i \in DOMAIN functions /\ functions'[i] = functions[i]
      BY <3>2, <3>3, <3>4
    <3>6. j \in DOMAIN functions /\ functions'[j] = functions[j]
      BY <3>2, <3>3, <3>4
    <3> QED BY <3>5, <3>6 DEF Listed, DuplicatesAreExplicit
  <2> QED BY <2>1, <2>2
<1>6. FunctionsInSection'
  <2>1. ASSUME NEW i \in DOMAIN functions' PROVE InPlace(functions'[i])
    <3>1. CASE i \in DOMAIN functions /\ functions'[i] = functions[i]
      BY <3>1 DEF Listed, FunctionsInSection, InPlace
    <3>2. CASE \E k \in DOMAIN fs : functions'[i] = fs[k]
      BY <3>2
    <3> QED BY <3>1, <3>2, AppendedFunctions
  <2> QED BY <2>1 DEF FunctionsInSection, InPlace
<1> QED BY <1>1, <1>3, <1>4, <1>5, <1>6

\* What the scans have established stays so.
LEMMA ScanKept ==
  ASSUME SymbolsKept, input' = input, skipped \subseteq skipped'
  PROVE  /\ \A s, end : Scanned(s, end) => Scanned(s, end)'
         /\ \A a, s : CallKnown(a, s) => CallKnown(a, s)'
<1>1. \A s, end : Scanned(s, end) => Scanned(s, end)'
  BY KnownKept DEF Scanned
<1>2. ASSUME NEW a, NEW s, CallKnown(a, s) PROVE CallKnown(a, s)'
  <2>1. PICK n : n = input.words[a].n
    OBVIOUS
  <2>2. Known(n) => Known(n)'
    BY KnownKept
  <2> QED BY <1>2, <2>1, <2>2 DEF CallKnown, CodeAddresses, Known, Matches
<1> QED BY <1>1, <1>2

LEMMA ListedSame ==
  ASSUME Listed, UNCHANGED <<functions, symbols>>,
         phase' \in {"helpers", "configured"} => phase \in {"helpers", "configured"}
  PROVE  Listed' /\ SymbolsKept
BY DEF Listed, SymbolsKept, Known, Matches, DuplicatesAreExplicit, FunctionsInSection

\* A clamped function is not empty and stays in its section.
LEMMA ClampedFits ==
  ASSUME NEW a \in Nat, NEW n \in Nat \ {0}, FindSection(a) # 0
  PROVE  /\ Clamped(a, n) \in Nat \ {0}
         /\ a + Clamped(a, n) <= SectionEnd(FindSection(a))
<1> DEFINE rest == SectionEnd(FindSection(a)) - a
<1>1. rest \in Nat \ {0}
  BY FoundSection, SectionTypes
<1>2. SectionEnd(FindSection(a)) \in Nat
  BY FoundSection, SectionTypes
<1>3. Clamped(a, n) \in {n, rest} /\ Clamped(a, n) <= rest
  <2> HIDE DEF rest
  <2>1. Min({n, rest}) \in {n, rest} /\ Min({n, rest}) <= rest
    BY <1>1, MinOfTwo
  <2> QED BY <2>1 DEF Clamped, rest
<1> QED BY <1>1, <1>2, <1>3

\* What Function::Analyze reports of an address in section s
LEMMA AnalyzedFits ==
  ASSUME NEW s \in DOMAIN Sections, NEW a \in Nat, Sections[s].base <= a, a < SectionEnd(s),
         NEW n \in Analyzed(a, s), NEW origin \in {"call", "scan"}
  PROVE  /\ n \in Nat \ {0}
         /\ [base |-> a, size |-> n, from |-> origin] \in FunctionType
         /\ InPlace([base |-> a, size |-> n, from |-> origin])
<1>1. n \in Nat \ {0} /\ (n = 2 \/ a + n <= SectionEnd(s))
  BY SectionTypes DEF Analyzed
<1>2. FindSection(a) = s /\ s # 0
  BY SectionHolds
<1> QED BY <1>1, <1>2 DEF FunctionType, Origins, InPlace, End

----------------------------------------------------------------------------
\* Helpers.

LEMMA NthElement ==
  ASSUME NEW S, S \subseteq Nat, IsFiniteSet(S), NEW i \in 1..Cardinality(S)
  PROVE  Nth(S, i) \in S
<1> DEFINE B == [n \in S |-> {m \in S : m <= n}]
<1>1. B \in [S -> SUBSET S]
  OBVIOUS
<1>2. \A n \in S : B[n] = {m \in S : m <= n}
  OBVIOUS
<1> HIDE DEF B
<1>3. \A n \in S : n \in B[n]
  BY <1>2
<1>4. ASSUME NEW x \in S, NEW y \in S, x < y
      PROVE  B[x] \subseteq B[y] /\ y \notin B[x]
  <2>1. \A m \in S : (m \in B[x] <=> m <= x) /\ (m \in B[y] <=> m <= y)
    BY <1>2
  <2>2. \A m \in S : m <= x => m <= y
    BY <1>4
  <2>3. ~(y <= x)
    BY <1>4
  <2>4. B[x] \subseteq S
    BY <1>2
  <2> QED BY <2>1, <2>2, <2>3, <2>4
<1>5. \E n \in S : Cardinality(B[n]) = i
  <2>1. \A x, y \in S : x # y => x < y \/ y < x
    OBVIOUS
  <2> QED BY <1>1, <1>3, <1>4, <2>1, Numbering
<1> QED BY <1>2, <1>5 DEF Nth

LEMMA HelperSize ==
  ASSUME NEW d \in Nat \ {0}, NEW stride \in Nat, NEW extra \in Nat, stride + extra > 0
  PROVE  d * stride + extra \in Nat \ {0}
<1>1. PICK e \in Nat : d = e + 1
  <2>1. d - 1 \in Nat /\ d = (d - 1) + 1
    OBVIOUS
  <2> QED BY <2>1
<1>2. e * stride \in Nat
  OBVIOUS
<1>3. d * stride = e * stride + stride
  BY <1>1
<1> QED BY <1>2, <1>3

LEMMA FamilyTypes ==
  /\ Len(Families) \in Nat /\ DOMAIN Families = 1..Len(Families)
  /\ \A f \in DOMAIN Families :
       /\ Families[f].first \in Nat /\ Families[f].last \in Nat
       /\ Families[f].stride \in Nat /\ Families[f].extra \in Nat
       /\ Families[f].stride + Families[f].extra > 0
<1> DEFINE T == [first : Nat, last : Nat, stride : Nat, extra : Nat]
<1>1. \A x \in T : x.first \in Nat /\ x.last \in Nat /\ x.stride \in Nat /\ x.extra \in Nat
  OBVIOUS
<1>2. Families \in Seq(T)
  BY FamiliesAssumption
<1> HIDE DEF T
<1>3. Len(Families) \in Nat /\ DOMAIN Families = 1..Len(Families) /\ \A f \in DOMAIN Families : Families[f] \in T
  BY <1>2
<1> QED BY <1>1, <1>3, FamiliesAssumption

LEMMA HelpersListed ==
  ASSUME TypeOK
  PROVE  /\ HelperEntries \in Seq(FunctionType)
         /\ \A k \in DOMAIN HelperEntries : HelperEntries[k].from = "helper"
<1> DEFINE present == {f \in DOMAIN Families :
                         input.helpers[f] # 0 /\ Families[f].first <= index /\ index < Families[f].last}
           Entry(f) == [base |-> input.helpers[f] + (index - Families[f].first) * Families[f].stride,
                        size |-> (Families[f].last - index) * Families[f].stride + Families[f].extra,
                        from |-> "helper"]
<1>1. DOMAIN Families = 1..Len(Families) /\ Len(Families) \in Nat
  BY FamiliesAssumption
<1>2. present \subseteq Nat /\ IsFiniteSet(present)
  <2>1. IsFiniteSet(1..Len(Families))
    BY <1>1, FS_Interval
  <2> QED BY <1>1, <2>1, FS_Subset
<1>3. ASSUME NEW f \in present PROVE Entry(f) \in FunctionType
  <2>1. /\ Families[f].first \in Nat /\ Families[f].last \in Nat
        /\ Families[f].stride \in Nat /\ Families[f].extra \in Nat
        /\ Families[f].stride + Families[f].extra > 0
    BY FamilyTypes
  <2>2. input.helpers[f] \in Nat /\ index \in Nat
    BY InputsAssumption DEF TypeOK
  <2>3. Families[f].last - index \in Nat \ {0} /\ index - Families[f].first \in Nat
    BY <2>1, <2>2
  <2>4. Entry(f).size \in Nat \ {0}
    BY <2>1, <2>3, HelperSize
  <2>5. (index - Families[f].first) * Families[f].stride \in Nat
    BY <2>1, <2>3
  <2> QED BY <2>2, <2>4, <2>5 DEF FunctionType, Origins, Explicit
<1>4. HelperEntries = [i \in 1 .. Cardinality(present) |-> Entry(Nth(present, i))]
  BY DEF HelperEntries
<1>5. Cardinality(present) \in Nat
  BY <1>2, FS_CardinalityType
<1>6. \A f \in present : Entry(f) \in FunctionType /\ Entry(f).from = "helper"
  BY <1>3
<1> HIDE DEF present, Entry
<1>7. \A i \in 1 .. Cardinality(present) : Nth(present, i) \in present
  BY <1>2, NthElement
<1> QED BY <1>4, <1>5, <1>6, <1>7

----------------------------------------------------------------------------
\* The passes.

LEMMA InvariantInit == Init => IInv
<1> SUFFICES ASSUME Init PROVE IInv
  OBVIOUS
<1> DEFINE firsts == {Families[f].first : f \in DOMAIN Families}
<1>1. Min(firsts) \in Nat
  <2>1. 1 \in DOMAIN Families
    BY FamiliesAssumption, FamilyTypes
  <2>2. firsts \subseteq Nat /\ firsts # {}
    BY <2>1, FamilyTypes
  <2> HIDE DEF firsts
  <2> QED BY <2>2, MinNat
<1>2. symbols \in Seq(SymbolType)
  BY InputsAssumption DEF Init, SymbolType
<1>3. TypeOK
  BY <1>1, <1>2 DEF Init, TypeOK
<1>4. Cursor /\ Listed
  BY DEF Init, Cursor, Listed, DuplicatesAreExplicit, FunctionsInSection
<1>5. NoHole /\ CallsKnown /\ InOrder
  BY SectionTypes DEF Init, NoHole, CallsKnown, InOrder
<1> QED BY <1>3, <1>4, <1>5 DEF IInv

\* Before the first scan there is nothing to be said about scans.
LEMMA EarlyPass ==
  ASSUME section' = 1, phase' \in {"helpers", "configured", "pdata"},
         phase' # "helpers" => index' >= 1
  PROVE  Cursor' /\ NoHole' /\ CallsKnown' /\ InOrder'
BY SectionTypes DEF Cursor, NoHole, CallsKnown, InOrder

LEMMA AddHelpersStep == IInv /\ AddHelpers => IInv'
<1> SUFFICES ASSUME IInv, AddHelpers PROVE IInv'
  OBVIOUS
<1>1. /\ TypeOK /\ Listed /\ phase = "helpers" /\ section' = 1 /\ phase' \in {"helpers", "configured"}
      /\ phase' # "helpers" => index' >= 1
  BY DEF IInv, AddHelpers, Cursor
<1>2. HelperEntries \in Seq(FunctionType) /\ \A k \in DOMAIN HelperEntries : HelperEntries[k].from = "helper"
  BY <1>1, HelpersListed
<1>3. Register(HelperEntries)
  BY DEF AddHelpers
<1>4. PICK fs : fs = HelperEntries
  OBVIOUS
<1>5. fs \in Seq(FunctionType) /\ Register(fs) /\ \A k \in DOMAIN fs : fs[k].from = "helper"
  BY <1>2, <1>3, <1>4 DEF Register
<1>6. \A i \in DOMAIN functions : functions[i].from \in Explicit
  BY <1>1 DEF Listed
<1>7. \A k \in DOMAIN fs : InPlace(fs[k]) /\ fs[k].from \in Explicit
  BY <1>5 DEF InPlace, Explicit
<1>8. Listed'
  <2>1. /\ \A i \in DOMAIN functions' : Known(functions[i].base)'
        /\ \A i \in DOMAIN functions' : functions'[i].from \in Explicit
        /\ DuplicatesAreExplicit' /\ FunctionsInSection'
    BY <1>1, <1>5, <1>6, <1>7, ListedGrown
  <2> QED BY <2>1 DEF Listed
<1>9. TypeOK'
  <2>1. functions' \in Seq(FunctionType) /\ symbols' \in Seq(SymbolType)
    BY <1>1, <1>5, Appended
  <2> QED BY <1>1, <2>1 DEF TypeOK, AddHelpers
<1> QED BY <1>1, <1>8, <1>9, EarlyPass DEF IInv

LEMMA AddConfiguredStep == IInv /\ AddConfigured => IInv'
<1> SUFFICES ASSUME IInv, AddConfigured PROVE IInv'
  OBVIOUS
<1>1. TypeOK /\ Listed /\ phase = "configured" /\ section' = 1 /\ phase' = "configured" /\ index' >= 1
  BY DEF IInv, AddConfigured, Cursor
<1>2. PICK a \in DOMAIN input.configured :
        /\ Usable(a)
        /\ Register(<<[base |-> a, size |-> Clamped(a, input.configured[a]), from |-> "configured"]>>)
  BY DEF AddConfigured
<1>3. a \in Nat /\ input.configured[a] \in Nat \ {0} /\ FindSection(a) # 0
  <2>1. /\ input.configured \in [DOMAIN input.configured -> Nat]
        /\ DOMAIN input.configured \subseteq Nat
    BY <1>1, InputsAssumption DEF TypeOK
  <2> QED BY <1>2, <2>1 DEF Usable
<1>4. PICK f : f = [base |-> a, size |-> Clamped(a, input.configured[a]), from |-> "configured"]
  OBVIOUS
<1>5. f \in FunctionType /\ f.from \in Explicit /\ InPlace(f)
  <2>1. /\ Clamped(a, input.configured[a]) \in Nat \ {0}
        /\ a + Clamped(a, input.configured[a]) <= SectionEnd(FindSection(a))
    BY <1>3, ClampedFits
  <2> QED BY <1>3, <1>4, <2>1 DEF FunctionType, Origins, Explicit, InPlace, End
<1>6. <<f>> \in Seq(FunctionType) /\ Register(<<f>>) /\ DOMAIN <<f>> = {1} /\ <<f>>[1] = f
  BY <1>2, <1>4, <1>5
<1>7. PICK fs : fs = <<f>>
  OBVIOUS
<1>8. /\ fs \in Seq(FunctionType) /\ Register(fs)
      /\ \A k \in DOMAIN fs : InPlace(fs[k]) /\ fs[k].from \in Explicit
  BY <1>5, <1>6, <1>7
<1>9. \A i \in DOMAIN functions : functions[i].from \in Explicit
  BY <1>1 DEF Listed
<1>10. Listed'
  <2>1. /\ \A i \in DOMAIN functions' : Known(functions[i].base)'
        /\ \A i \in DOMAIN functions' : functions'[i].from \in Explicit
        /\ DuplicatesAreExplicit' /\ FunctionsInSection'
    BY <1>1, <1>8, <1>9, ListedGrown
  <2> QED BY <2>1 DEF Listed
<1>11. TypeOK'
  <2>1. functions' \in Seq(FunctionType) /\ symbols' \in Seq(SymbolType)
    BY <1>1, <1>8, Appended
  <2> QED BY <1>1, <2>1 DEF TypeOK, AddConfigured
<1> QED BY <1>1, <1>10, <1>11, EarlyPass DEF IInv

LEMMA ConfiguredAddedStep == IInv /\ ConfiguredAdded => IInv'
<1> SUFFICES ASSUME IInv, ConfiguredAdded PROVE IInv'
  OBVIOUS
<1>1. section' = 1 /\ phase' = "pdata" /\ index' >= 1
  BY DEF IInv, ConfiguredAdded, Cursor
<1>2. TypeOK'
  BY DEF IInv, TypeOK, ConfiguredAdded
<1>3. Listed'
  BY <1>1, ListedSame DEF IInv, ConfiguredAdded
<1> QED BY <1>1, <1>2, <1>3, EarlyPass DEF IInv

\* A function found at an address not known so far.
LEMMA NewFunction ==
  ASSUME TypeOK, Listed, NEW f \in FunctionType, Register(<<f>>), InPlace(f), ~Known(f.base),
         f.from \notin Explicit, phase' \notin {"helpers", "configured"}
  PROVE  /\ Listed' /\ SymbolsKept
         /\ functions' \in Seq(FunctionType) /\ symbols' \in Seq(SymbolType)
         /\ Len(symbols) + 1 \in DOMAIN symbols'
         /\ symbols'[Len(symbols) + 1] = Symbol(f.base, f.size)
<1>1. PICK fs : fs = <<f>>
  OBVIOUS
<1>2. /\ fs \in Seq(FunctionType) /\ Register(fs) /\ Len(fs) = 1 /\ ~Known(fs[1].base)
      /\ 1 \in DOMAIN fs /\ fs[1] = f /\ \A k \in DOMAIN fs : fs[k] = f
  BY <1>1
<1>3. ~ \A k \in DOMAIN fs : fs[k].from \in Explicit
  BY <1>2
<1>4. /\ SymbolsKept
      /\ \A i \in DOMAIN functions' : Known(functions[i].base)'
      /\ DuplicatesAreExplicit' /\ FunctionsInSection'
  BY <1>2, <1>3, ListedGrown
<1>5. Listed'
  BY <1>4 DEF Listed
<1> QED BY <1>2, <1>4, <1>5, Appended

LEMMA AddPdataStep == IInv /\ AddPdata => IInv'
<1> SUFFICES ASSUME IInv, AddPdata PROVE IInv'
  OBVIOUS
<1>1. /\ TypeOK /\ Listed /\ phase = "pdata" /\ section' = 1 /\ phase' = "pdata"
      /\ index \in Nat \ {0} /\ index' \in Nat \ {0}
  BY DEF IInv, AddPdata, Cursor, TypeOK
<1>2. CASE Describes(input.pdata[index])
  <2>1. PICK e : e = input.pdata[index]
    OBVIOUS
  <2>2. e.begin \in Nat \ {0} /\ e.length \in Nat \ {0} /\ FindSection(e.begin) # 0 /\ ~Known(e.begin)
    <3>1. input.pdata \in Seq([begin : Nat, length : Nat])
      BY <1>1, InputsAssumption DEF TypeOK
    <3>2. e \in [begin : Nat, length : Nat]
      <4> DEFINE T == [begin : Nat, length : Nat]
      <4>1. input.pdata \in Seq(T) /\ index \in 1..Len(input.pdata)
        BY <1>1, <3>1 DEF AddPdata
      <4> HIDE DEF T
      <4>2. input.pdata[index] \in T
        BY <4>1, ElementOfSeq
      <4> QED BY <2>1, <4>2 DEF T
    <3>3. Describes(e)
      BY <1>2, <2>1
    <3> QED BY <3>2, <3>3 DEF Describes
  <2>3. PICK f : f = [base |-> e.begin, size |-> Clamped(e.begin, e.length), from |-> "pdata"]
    OBVIOUS
  <2>4. f \in FunctionType /\ f.from \notin Explicit /\ InPlace(f) /\ ~Known(f.base)
    <3>1. /\ Clamped(e.begin, e.length) \in Nat \ {0}
          /\ e.begin + Clamped(e.begin, e.length) <= SectionEnd(FindSection(e.begin))
      BY <2>2, ClampedFits
    <3> QED BY <2>2, <2>3, <3>1 DEF FunctionType, Origins, Explicit, InPlace, End
  <2>5. Register(<<f>>)
    BY <1>2, <2>1, <2>3 DEF AddPdata
  <2>6. Listed' /\ functions' \in Seq(FunctionType) /\ symbols' \in Seq(SymbolType)
    BY <1>1, <2>4, <2>5, NewFunction
  <2>7. TypeOK'
    BY <1>1, <2>6 DEF TypeOK, AddPdata
  <2> QED BY <1>1, <2>6, <2>7, EarlyPass DEF IInv
<1>3. CASE ~Describes(input.pdata[index])
  <2>1. UNCHANGED <<functions, symbols>>
    BY <1>3 DEF AddPdata
  <2>2. Listed'
    BY <1>1, <2>1, ListedSame
  <2>3. TypeOK'
    BY <1>1, <2>1 DEF TypeOK, AddPdata
  <2> QED BY <1>1, <2>2, <2>3, EarlyPass DEF IInv
<1> QED BY <1>2, <1>3

\* A section is entered once the ones before it have been scanned.
LEMMA EnterSection ==
  ASSUME NEW s \in Nat \ {0}, s <= Len(Sections) + 1, section' = s, Enter(s), TypeOK,
         \A t \in DOMAIN Sections : t < s /\ Sections[t].code => Scanned(t, SectionEnd(t))',
         \A t \in DOMAIN Sections : t < s => \A a \in CodeAddresses(t) : CallKnown(a, t)'
  PROVE  /\ Cursor' /\ NoHole' /\ CallsKnown' /\ InOrder'
         /\ phase' \in {"calls", "skip", "sort"} /\ at' \in Nat
<1>1. CASE s > Len(Sections)
  <2>1. phase' = "sort" /\ at' = at /\ section' = Len(Sections) + 1
    BY <1>1, SectionTypes DEF Enter
  <2> QED BY <2>1 DEF TypeOK, Cursor, NoHole, CallsKnown, InOrder
<1>2. CASE ~(s > Len(Sections))
  <2>1. s \in DOMAIN Sections /\ at' = Sections[s].base /\ at' \in Nat
    BY <1>2, SectionTypes DEF Enter
  <2>2. CASE Sections[s].code
    <3>1. phase' = "calls"
      BY <1>2, <2>2 DEF Enter
    <3>2. \A a \in CodeAddresses(s) : ~(a < at')
      BY <2>1, SectionTypes DEF CodeAddresses
    <3>3. CallsKnown'
      <4>1. ASSUME NEW a \in CodeAddresses(section)', a < at' PROVE CallKnown(a, section)'
        BY <3>2, <4>1 DEF CodeAddresses
      <4> QED BY <3>1, <4>1 DEF CallsKnown, CodeAddresses
    <3> QED BY <2>1, <2>2, <3>1, <3>3 DEF Cursor, NoHole, InOrder
  <2>3. CASE ~Sections[s].code
    <3>1. phase' = "skip"
      BY <1>2, <2>3 DEF Enter
    <3> QED BY <2>1, <2>3, <3>1 DEF Cursor, NoHole, CallsKnown, InOrder
  <2> QED BY <2>2, <2>3
<1> QED BY <1>1, <1>2

LEMMA PdataAddedStep == IInv /\ PdataAdded => IInv'
<1> SUFFICES ASSUME IInv, PdataAdded PROVE IInv'
  OBVIOUS
<1>1. section' = 1 /\ TypeOK /\ Enter(1) /\ UNCHANGED <<input, index, functions, symbols, skipped>>
  BY DEF IInv, PdataAdded, Cursor
<1>2. ~ \E t \in DOMAIN Sections : t < 1
  BY SectionTypes
<1>3. /\ Cursor' /\ NoHole' /\ CallsKnown' /\ InOrder'
      /\ phase' \in {"calls", "skip", "sort"} /\ at' \in Nat
  BY <1>1, <1>2, SectionTypes, EnterSection
<1>4. Listed'
  BY <1>1, <1>3, ListedSame DEF IInv
<1>5. TypeOK'
  BY <1>1, <1>3 DEF TypeOK
<1> QED BY <1>3, <1>4, <1>5 DEF IInv

LEMMA SectionScannedStep == IInv /\ SectionScanned => IInv'
<1> SUFFICES ASSUME IInv, SectionScanned PROVE IInv'
  OBVIOUS
<1>1. PICK s : s = section + 1
  OBVIOUS
<1>2. /\ TypeOK /\ Listed /\ section \in DOMAIN Sections /\ s \in Nat \ {0} /\ s <= Len(Sections) + 1
      /\ section' = s /\ Enter(s) /\ UNCHANGED <<input, index, functions, symbols, skipped>>
      /\ \A t \in DOMAIN Sections : t < s => t < section \/ t = section
  BY <1>1, SectionTypes DEF IInv, SectionScanned, Cursor, TypeOK, Enter
<1>3. SymbolsKept
  BY <1>2 DEF SymbolsKept
<1>4. ASSUME NEW t \in DOMAIN Sections, t < s, Sections[t].code
      PROVE  Scanned(t, SectionEnd(t))'
  <2>1. Scanned(t, SectionEnd(t))
    <3>1. CASE t < section
      BY <1>4, <3>1 DEF IInv, NoHole
    <3>2. CASE t = section
      <4>1. phase = "scan" /\ at >= SectionEnd(section)
        BY <1>4, <3>2 DEF IInv, Cursor, SectionScanned
      <4>2. Min({at, SectionEnd(section)}) = SectionEnd(section)
        BY <1>2, <4>1, SectionTypes, MinOfTwo DEF TypeOK
      <4> QED BY <3>2, <4>1, <4>2 DEF IInv, NoHole
    <3> QED BY <1>2, <1>4, <3>1, <3>2
  <2>2. SectionEnd(t)' = SectionEnd(t)
    BY DEF SectionEnd
  <2> QED BY <1>2, <1>3, <2>1, <2>2, ScanKept
<1>5. ASSUME NEW t \in DOMAIN Sections, t < s, NEW a \in CodeAddresses(t)
      PROVE  CallKnown(a, t)'
  <2>1. CallKnown(a, t)
    <3>1. CASE t < section
      BY <1>5, <3>1 DEF IInv, CallsKnown
    <3>2. CASE t = section
      <4>1. phase = "scan"
        BY <1>5, <3>2 DEF IInv, Cursor, SectionScanned, CodeAddresses
      <4> QED BY <1>5, <3>2, <4>1 DEF IInv, CallsKnown
    <3> QED BY <1>2, <1>5, <3>1, <3>2
  <2> QED BY <1>2, <1>3, <2>1, ScanKept
<1>6. /\ Cursor' /\ NoHole' /\ CallsKnown' /\ InOrder'
      /\ phase' \in {"calls", "skip", "sort"} /\ at' \in Nat
  BY <1>2, <1>4, <1>5, EnterSection
<1>7. Listed'
  BY <1>2, <1>6, ListedSame DEF IInv
<1>8. TypeOK'
  BY <1>2, <1>6 DEF TypeOK
<1> QED BY <1>6, <1>7, <1>8 DEF IInv

LEMMA ScanCallsStep == IInv /\ ScanCalls => IInv'
<1> SUFFICES ASSUME IInv, ScanCalls PROVE IInv'
  OBVIOUS
<1>1. /\ TypeOK /\ Listed /\ phase = "calls" /\ phase' = "calls" /\ section' = section /\ input' = input
      /\ at \in Nat /\ at' = at + 1 /\ index' = index /\ skipped' = skipped
      /\ section \in DOMAIN Sections /\ Sections[section].code
      /\ Sections[section].base <= at /\ at < SectionEnd(section)
  BY DEF IInv, ScanCalls, Cursor, TypeOK
<1>2. PICK w : w = input.words[at]
  OBVIOUS
<1>3. w.n \in Nat
  BY <1>1, <1>2, WordTypes DEF TypeOK
<1>4. /\ Listed' /\ SymbolsKept
      /\ functions' \in Seq(FunctionType) /\ symbols' \in Seq(SymbolType)
      /\ CallTarget(w) => Known(w.n)'
  <2>1. CASE CallTarget(w)
    <3>1. PICK n \in Analyzed(w.n, section) : Register(<<[base |-> w.n, size |-> n, from |-> "call"]>>)
      BY <1>2, <2>1 DEF ScanCalls
    <3>2. PICK f : f = [base |-> w.n, size |-> n, from |-> "call"]
      OBVIOUS
    <3>3. f \in FunctionType /\ InPlace(f) /\ n \in Nat \ {0}
      BY <1>1, <1>3, <2>1, <3>2, AnalyzedFits DEF CallTarget
    <3>4. Register(<<f>>) /\ ~Known(f.base) /\ f.from \notin Explicit
      BY <2>1, <3>1, <3>2 DEF CallTarget, Explicit
    <3>5. /\ Listed' /\ SymbolsKept
          /\ functions' \in Seq(FunctionType) /\ symbols' \in Seq(SymbolType)
          /\ Len(symbols) + 1 \in DOMAIN symbols'
          /\ symbols'[Len(symbols) + 1] = Symbol(f.base, f.size)
      BY <1>1, <3>3, <3>4, NewFunction
    <3>6. Known(w.n)'
      BY <3>2, <3>3, <3>5 DEF Known, Matches, Symbol
    <3> QED BY <3>5, <3>6
  <2>2. CASE ~CallTarget(w)
    <3>1. UNCHANGED <<functions, symbols>>
      BY <1>2, <2>2 DEF ScanCalls
    <3> QED BY <1>1, <2>2, <3>1, ListedSame DEF TypeOK
  <2> QED BY <2>1, <2>2
<1>5. TypeOK' /\ Cursor'
  <2>1. TypeOK'
    BY <1>1, <1>4 DEF TypeOK
  <2>2. Sections[section'].base <= at'
    BY <1>1, SectionTypes
  <2>3. Sections[section'].code
    BY <1>1
  <2> QED BY <1>1, <2>1, <2>2, <2>3 DEF Cursor
<1>6. NoHole'
  BY <1>1, <1>4, ScanKept DEF IInv, NoHole, SectionEnd
<1>7. CallsKnown'
  <2>1. \A s \in DOMAIN Sections : s < section => \A a \in CodeAddresses(s) : CallKnown(a, s)'
    BY <1>1, <1>4, ScanKept DEF IInv, CallsKnown
  <2>2. ASSUME NEW a \in CodeAddresses(section), a < at' PROVE CallKnown(a, section)'
    <3>1. PICK s : s = section
      OBVIOUS
    <3>2. CallKnown(a, s)'
      <4>1. CASE a < at
        BY <1>1, <1>4, <2>2, <3>1, <4>1, ScanKept DEF IInv, CallsKnown
      <4>2. CASE ~(a < at)
        <5>1. a = at
          BY <1>1, <2>2, <4>2, SectionTypes DEF CodeAddresses
        <5>2. ASSUME w.op = "bl", w.n \in CodeAddresses(s) PROVE Known(w.n)'
          <6>1. w.n >= Sections[section].base /\ w.n < SectionEnd(section)
            BY <1>1, <3>1, <5>2, SectionTypes DEF CodeAddresses
          <6> QED BY <1>4, <5>2, <6>1, KnownKept DEF CallTarget
        <5>3. PICK n : n = w.n
          OBVIOUS
        <5>4. input'.words[a] = w
          BY <1>1, <1>2, <5>1
        <5> QED BY <5>2, <5>3, <5>4 DEF CallKnown, CodeAddresses, Known, Matches
      <4> QED BY <4>1, <4>2
    <3> QED BY <1>1, <3>1, <3>2 DEF CallKnown, CodeAddresses, Known, Matches
  <2> QED BY <1>1, <2>1, <2>2 DEF CallsKnown, CodeAddresses, CallKnown, SectionEnd
<1> QED BY <1>1, <1>4, <1>5, <1>6, <1>7 DEF IInv, InOrder

LEMMA CallsScannedStep == IInv /\ CallsScanned => IInv'
<1> SUFFICES ASSUME IInv, CallsScanned PROVE IInv'
  OBVIOUS
<1>1. /\ TypeOK /\ Listed /\ phase = "calls" /\ phase' = "scan" /\ section' = section
      /\ at \in Nat /\ at >= SectionEnd(section) /\ at' = Sections[section].base
      /\ section \in DOMAIN Sections /\ Sections[section].code
      /\ UNCHANGED <<input, index, section, functions, symbols, skipped>>
  BY DEF IInv, CallsScanned, Cursor, TypeOK
<1>2. Listed' /\ SymbolsKept
  BY <1>1, ListedSame
<1>3. TypeOK' /\ Cursor'
  BY <1>1, SectionTypes DEF TypeOK, Cursor
<1>4. NoHole'
  <2>1. Sections[section].base <= SectionEnd(section)
    BY <1>1, SectionTypes DEF SectionEnd
  <2>2. PICK s, b : s = section /\ b = Min({Sections[section].base, SectionEnd(section)})
    OBVIOUS
  <2>3. b <= Sections[s].base /\ b \in Nat
    BY <1>1, <2>2, SectionTypes, MinOfTwo
  <2>4. Scanned(s, b)'
    BY <1>1, <2>2, <2>3, SectionTypes DEF Scanned
  <2>5. Scanned(section, Min({at, SectionEnd(section)}))'
    BY <1>1, <2>2, <2>4 DEF Scanned, SectionEnd, HasSymbol
  <2> QED BY <1>1, <1>2, <2>5, ScanKept DEF IInv, NoHole, SectionEnd
<1>5. CallsKnown'
  <2>1. \A a \in CodeAddresses(section) : a < at
    BY <1>1, SectionTypes DEF CodeAddresses
  <2>2. PICK s : s = section
    OBVIOUS
  <2>3. \A a \in CodeAddresses(s) : CallKnown(a, s)'
    BY <1>1, <1>2, <2>1, <2>2, ScanKept DEF IInv, CallsKnown
  <2>4. \A t \in DOMAIN Sections : t < section => \A a \in CodeAddresses(t) : CallKnown(a, t)'
    BY <1>1, <1>2, ScanKept DEF IInv, CallsKnown
  <2> QED BY <1>1, <2>2, <2>3, <2>4 DEF CallsKnown, CodeAddresses, CallKnown, SectionEnd
<1> QED BY <1>1, <1>2, <1>3, <1>4, <1>5 DEF IInv, InOrder

\* The linear scan moves over words that belong to a symbol or are skipped.
LEMMA ScanAdvance ==
  ASSUME IInv, InScan, SymbolsKept, Listed', UNCHANGED <<input, phase, section, index>>,
         skipped \subseteq skipped', at' \in Nat, at < at',
         functions' \in Seq(FunctionType), symbols' \in Seq(SymbolType),
         \A a \in at .. (at' - 1) : HasSymbol(a)' \/ a \in skipped'
  PROVE  IInv'
<1>1. /\ TypeOK /\ phase = "scan" /\ phase' = "scan" /\ section' = section /\ input' = input
      /\ at \in Nat /\ at < SectionEnd(section) /\ at' \in Nat /\ index' = index
      /\ section \in DOMAIN Sections /\ Sections[section].code /\ Sections[section].base <= at
  BY DEF IInv, InScan, Cursor, TypeOK
<1>2. TypeOK'
  BY <1>1 DEF TypeOK
<1>3. Cursor'
  <2>1. Sections[section'].base <= at'
    BY <1>1, SectionTypes
  <2>2. Sections[section'].code
    BY <1>1
  <2> QED BY <1>1, <2>1, <2>2 DEF Cursor
<1>4. NoHole'
  <2>1. PICK s, b : s = section /\ b = Min({at', SectionEnd(s)})
    OBVIOUS
  <2>2. b \in Nat /\ b <= at' /\ s \in DOMAIN Sections
    BY <1>1, <2>1, SectionTypes, MinOfTwo
  <2>3. Scanned(s, at)
    <3>1. Min({at, SectionEnd(s)}) = at
      BY <1>1, <2>1, SectionTypes, MinOfTwo
    <3> QED BY <1>1, <2>1, <3>1 DEF IInv, NoHole
  <2>4. Scanned(s, b)'
    <3>1. ASSUME NEW a \in Sections[s].base .. (b - 1) PROVE HasSymbol(a)' \/ a \in skipped'
      <4>1. CASE a < at
        BY <1>1, <2>2, <2>3, <4>1, SectionTypes, KnownKept DEF Scanned
      <4>2. CASE ~(a < at)
        <5>1. a \in at .. (at' - 1)
          BY <1>1, <2>2, <4>2, SectionTypes
        <5> QED BY <5>1
      <4> QED BY <4>1, <4>2
    <3> QED BY <3>1 DEF Scanned, HasSymbol
  <2>5. Scanned(section, Min({at, SectionEnd(section)}))'
    BY <1>1, <2>1, <2>4 DEF Scanned, SectionEnd, HasSymbol
  <2> QED BY <1>1, <2>5, ScanKept DEF IInv, NoHole, SectionEnd
<1>5. CallsKnown'
  <2>1. PICK s : s = section
    OBVIOUS
  <2>2. \A a \in CodeAddresses(s) : CallKnown(a, s)'
    BY <1>1, <2>1, ScanKept DEF IInv, CallsKnown
  <2>3. \A t \in DOMAIN Sections : t < section => \A a \in CodeAddresses(t) : CallKnown(a, t)'
    BY <1>1, ScanKept DEF IInv, CallsKnown
  <2> QED BY <1>1, <2>1, <2>2, <2>3 DEF CallsKnown, CodeAddresses, CallKnown, SectionEnd
<1> QED BY <1>1, <1>2, <1>3, <1>4, <1>5 DEF IInv, InOrder

\* The cursor of the scan lies in a section.
LEMMA ScanCursor ==
  ASSUME IInv, InScan
  PROVE  /\ TypeOK /\ Listed /\ phase = "scan" /\ at \in Nat
         /\ section \in DOMAIN Sections /\ Sections[section].base <= at /\ at < SectionEnd(section)
BY DEF IInv, InScan, Cursor, TypeOK

LEMMA SkipInvalidStep == IInv /\ SkipInvalid => IInv'
<1> SUFFICES ASSUME IInv, SkipInvalid PROVE IInv'
  OBVIOUS
<1>1. InScan /\ UNCHANGED <<input, phase, index, section, functions, symbols>>
  BY DEF SkipInvalid
<1>2. PICK n : n = input.words[at].n
  OBVIOUS
<1>3. n \in Nat
  BY <1>1, <1>2, ScanCursor, WordTypes DEF TypeOK
<1>4. at' \in Nat /\ at < at'
  BY <1>1, <1>2, <1>3, ScanCursor DEF SkipInvalid, Advance
<1>5. skipped' = skipped \cup at .. (at' - 1)
  BY DEF SkipInvalid
<1>6. Listed' /\ SymbolsKept
  BY <1>1, ScanCursor, ListedSame
<1> QED BY <1>1, <1>4, <1>5, <1>6, ScanCursor, ScanAdvance DEF TypeOK

LEMMA SkipFunctionStep == IInv /\ SkipFunction => IInv'
<1> SUFFICES ASSUME IInv, SkipFunction PROVE IInv'
  OBVIOUS
<1>1. InScan /\ Known(at) /\ UNCHANGED <<input, phase, index, section, functions, symbols, skipped>>
  BY DEF SkipFunction
<1>2. PICK k : k = Max(Matches(at))
  OBVIOUS
<1>3. k \in Matches(at)
  <2>1. Matches(at) \subseteq 1..Len(symbols) /\ Len(symbols) \in Nat /\ Matches(at) # {}
    BY <1>1, ScanCursor DEF TypeOK, Matches, Known
  <2>2. Matches(at) \subseteq Nat /\ \A m \in Matches(at) : m <= Len(symbols)
    BY <2>1
  <2> QED BY <1>2, <2>1, <2>2, MaxNat
<1>4. PICK size : size = symbols[k].size
  OBVIOUS
<1>5. k \in DOMAIN symbols /\ symbols[k].address = at /\ size \in Nat \ {0}
  <2>1. k \in DOMAIN symbols /\ symbols[k].address = at /\ symbols[k].size > 0
    BY <1>3 DEF Matches
  <2>2. symbols[k] \in SymbolType
    BY <1>1, <2>1, ScanCursor DEF TypeOK
  <2> QED BY <1>4, <2>1, <2>2 DEF SymbolType
<1>6. at' = at + size
  BY <1>2, <1>4, <1>5 DEF SkipFunction, Advance, Find
<1>7. \A a \in at .. (at' - 1) : HasSymbol(a)'
  BY <1>1, <1>4, <1>5, <1>6, ScanCursor DEF HasSymbol
<1>8. Listed' /\ SymbolsKept
  BY <1>1, ScanCursor, ListedSame
<1>9. at' \in Nat /\ at < at'
  BY <1>1, <1>5, <1>6, ScanCursor
<1> QED BY <1>1, <1>7, <1>8, <1>9, ScanCursor, ScanAdvance DEF TypeOK

LEMMA AnalyzeFunctionStep == IInv /\ AnalyzeFunction => IInv'
<1> SUFFICES ASSUME IInv, AnalyzeFunction PROVE IInv'
  OBVIOUS
<1>1. InScan /\ ~Known(at) /\ UNCHANGED <<input, phase, index, section, skipped>>
  BY DEF AnalyzeFunction
<1>2. PICK n \in Analyzed(at, section) :
        Register(<<[base |-> at, size |-> n, from |-> "scan"]>>) /\ Advance(n)
  BY DEF AnalyzeFunction
<1>3. PICK f : f = [base |-> at, size |-> n, from |-> "scan"]
  OBVIOUS
<1>4. f \in FunctionType /\ InPlace(f) /\ n \in Nat \ {0}
  BY <1>1, <1>3, ScanCursor, AnalyzedFits
<1>5. Register(<<f>>) /\ ~Known(f.base) /\ f.from \notin Explicit
  BY <1>1, <1>2, <1>3 DEF Explicit
<1>6. /\ Listed' /\ SymbolsKept
      /\ functions' \in Seq(FunctionType) /\ symbols' \in Seq(SymbolType)
      /\ Len(symbols) + 1 \in DOMAIN symbols'
      /\ symbols'[Len(symbols) + 1] = Symbol(f.base, f.size)
  BY <1>1, <1>4, <1>5, ScanCursor, NewFunction
<1>7. at' = at + n /\ at' \in Nat /\ at < at'
  BY <1>1, <1>2, <1>4, ScanCursor DEF Advance
<1>8. \A a \in at .. (at' - 1) : HasSymbol(a)'
  BY <1>1, <1>3, <1>4, <1>6, <1>7, ScanCursor DEF HasSymbol, Symbol
<1> QED BY <1>1, <1>6, <1>7, <1>8, ScanAdvance

----------------------------------------------------------------------------
\* Sorting.

\* The functions up to the i-th one in a sorted list
UpTo(fs, i) ==
  {j \in DOMAIN fs : fs[j].base < fs[i].base \/ (fs[j].base = fs[i].base /\ j <= i)}

\* A sorted list holds the same functions, each at one place, by increasing base.
LEMMA SortedList ==
  ASSUME NEW fs \in Seq(FunctionType)
  PROVE  /\ Sorted(fs) \in Seq(FunctionType)
         /\ DOMAIN Sorted(fs) = DOMAIN fs
         /\ \E p \in [DOMAIN fs -> DOMAIN fs] :
              /\ \A k \in DOMAIN fs : Sorted(fs)[k] = fs[p[k]]
              /\ \A k, m \in DOMAIN fs : p[k] = p[m] => k = m
              /\ \A k, m \in DOMAIN fs : k < m => fs[p[k]].base <= fs[p[m]].base
<1> DEFINE S == DOMAIN fs
           B == [i \in S |-> UpTo(fs, i)]
           p == [k \in S |-> CHOOSE i \in S : Rank(fs, i) = k]
<1>1. Len(fs) \in Nat /\ S = 1..Len(fs) /\ IsFiniteSet(S) /\ Cardinality(S) = Len(fs)
  <2>1. Len(fs) \in Nat /\ S = 1..Len(fs)
    OBVIOUS
  <2>2. IsFiniteSet(1..Len(fs)) /\ Cardinality(1..Len(fs)) = Len(fs)
    BY <2>1, FS_Interval
  <2> QED BY <2>1, <2>2
<1>2. \A i \in S : fs[i].base \in Nat
  <2>1. \A i \in S : fs[i] \in FunctionType
    OBVIOUS
  <2> QED BY <2>1 DEF FunctionType
<1>3. B \in [S -> SUBSET S]
  BY DEF UpTo
<1>4. \A i, j \in S : j \in B[i] <=> fs[j].base < fs[i].base \/ (fs[j].base = fs[i].base /\ j <= i)
  BY DEF UpTo
<1>5. \A i \in S : Rank(fs, i) = Cardinality(B[i])
  BY DEF Rank, UpTo
<1>6. /\ \A k \in 1..Cardinality(S) : \E x \in S : Cardinality(B[x]) = k
      /\ \A x, y \in S : Cardinality(B[x]) <= Cardinality(B[y]) => B[x] \subseteq B[y]
  <2> HIDE DEF B, S
  <2>1. \A x \in S : x \in B[x]
    BY <1>1, <1>2, <1>4
  <2>2. ASSUME NEW x \in S, NEW y \in S, x # y
        PROVE  \/ B[x] \subseteq B[y] /\ y \notin B[x]
               \/ B[y] \subseteq B[x] /\ x \notin B[y]
    <3>1. B[x] \subseteq S /\ B[y] \subseteq S
      BY <1>3
    <3>2. CASE fs[x].base < fs[y].base \/ (fs[x].base = fs[y].base /\ x < y)
      BY <1>1, <1>2, <1>4, <3>1, <3>2
    <3>3. CASE fs[y].base < fs[x].base \/ (fs[x].base = fs[y].base /\ y < x)
      BY <1>1, <1>2, <1>4, <3>1, <3>3
    <3>4. fs[x].base \in Nat /\ fs[y].base \in Nat /\ x \in Nat /\ y \in Nat
      BY <1>1, <1>2
    <3> QED BY <2>2, <3>2, <3>3, <3>4
  <2>3. IsFiniteSet(S)
    BY <1>1
  <2>4. \A x, y \in S :
          x # y => \/ B[x] \subseteq B[y] /\ y \notin B[x]
                   \/ B[y] \subseteq B[x] /\ x \notin B[y]
    BY <2>2
  <2> QED BY ONLY <1>3, <2>1, <2>3, <2>4, Numbering, Zenon
<1>7. \A k \in S : p[k] \in S /\ Rank(fs, p[k]) = k
  <2> HIDE DEF B
  <2>1. \A k \in S : \E i \in S : Rank(fs, i) = k
    BY <1>1, <1>5, <1>6
  <2> QED BY <2>1
<1>8. p \in [S -> S] /\ \A k \in S : Sorted(fs)[k] = fs[p[k]]
  BY <1>7 DEF Sorted
<1>9. \A k, m \in S : p[k] = p[m] => k = m
  BY <1>7
<1>10. ASSUME NEW k \in S, NEW m \in S, k < m PROVE fs[p[k]].base <= fs[p[m]].base
  <2>1. p[k] \in S /\ p[m] \in S /\ Cardinality(B[p[k]]) = k /\ Cardinality(B[p[m]]) = m
    BY <1>5, <1>7
  <2> HIDE DEF B, p, S
  <2>2. B[p[k]] \subseteq B[p[m]]
    <3>1. k <= m
      BY <1>1, <1>10
    <3>2. Cardinality(B[p[k]]) <= Cardinality(B[p[m]])
      BY <2>1, <3>1
    <3> QED BY <1>6, <2>1, <3>2
  <2>3. p[k] \in B[p[k]]
    BY <1>1, <1>2, <1>4, <2>1
  <2>4. p[k] \in B[p[m]]
    BY <2>2, <2>3
  <2> QED BY <1>2, <1>4, <2>1, <2>4
<1>11. Sorted(fs) \in Seq(FunctionType) /\ DOMAIN Sorted(fs) = S
  <2>1. \A k \in S : fs[CHOOSE i \in S : Rank(fs, i) = k] \in FunctionType
    <3>1. \A i \in S : fs[i] \in FunctionType
      OBVIOUS
    <3> QED BY <1>7, <3>1
  <2>2. Sorted(fs) \in [1..Len(fs) -> FunctionType]
    BY <1>1, <2>1 DEF Sorted
  <2> QED BY <1>1, <2>2
<1> HIDE DEF p
<1> QED BY <1>8, <1>9, <1>10, <1>11

LEMMA SortStep ==
  ASSUME IInv, Sort
  PROVE  IInv'
<1> USE DEF IInv, Sort
<1>1. PICK p \in [DOMAIN functions -> DOMAIN functions] :
        /\ \A k \in DOMAIN functions : functions'[k] = functions[p[k]]
        /\ \A k, m \in DOMAIN functions : p[k] = p[m] => k = m
        /\ \A k, m \in DOMAIN functions : k < m => functions[p[k]].base <= functions[p[m]].base
  BY SortedList DEF TypeOK
<1>2. functions' \in Seq(FunctionType) /\ DOMAIN functions' = DOMAIN functions
  BY SortedList DEF TypeOK
<1>3. \A a : Known(a)' <=> Known(a)
  BY DEF Known, Matches
<1>4. TypeOK'
  BY <1>2 DEF TypeOK
<1>5. Cursor'
  BY DEF Cursor
<1>6. Listed'
  <2>1. ASSUME NEW i \in DOMAIN functions' PROVE Known(functions[i].base)'
    <3>1. PICK b : b = functions'[i].base
      OBVIOUS
    <3>2. Known(b)
      BY <1>1, <1>2, <3>1 DEF Listed
    <3> QED BY <3>1, <3>2 DEF Known, Matches
  <2>2. DuplicatesAreExplicit'
    BY <1>1, <1>2 DEF Listed, DuplicatesAreExplicit
  <2>3. FunctionsInSection'
    <3>1. \A i \in DOMAIN functions' : InPlace(functions'[i])
      BY <1>1, <1>2 DEF Listed, FunctionsInSection, InPlace
    <3> QED BY <3>1 DEF FunctionsInSection, InPlace
  <2> QED BY <2>1, <2>2, <2>3 DEF Listed
<1>7. SymbolsKept
  BY DEF SymbolsKept
<1>8. NoHole'
  BY <1>7, ScanKept DEF NoHole
<1>9. CallsKnown'
  BY <1>7, ScanKept DEF CallsKnown, CodeAddresses
<1>10. InOrder'
  BY <1>1, <1>2 DEF InOrder
<1> QED BY <1>4, <1>5, <1>6, <1>8, <1>9, <1>10

----------------------------------------------------------------------------
\* Extending.

LEMMA ListedFunctions ==
  ASSUME TypeOK
  PROVE  /\ Len(functions) \in Nat /\ DOMAIN functions = 1..Len(functions)
         /\ \A i \in DOMAIN functions :
              /\ functions[i] \in FunctionType
              /\ functions[i].base \in Nat /\ functions[i].size \in Nat \ {0}
              /\ End(functions[i]) \in Nat /\ functions[i].base < End(functions[i])
<1>1. functions \in Seq(FunctionType)
  BY DEF TypeOK
<1>2. \A i \in DOMAIN functions : functions[i] \in FunctionType
  BY <1>1
<1> QED BY <1>1, <1>2 DEF FunctionType, End

\* The end of a function grows past every label and every case body at a label.
LEMMA GrownProperties ==
  ASSUME TypeOK, NEW i \in DOMAIN functions,
         NEW labels, labels \subseteq Nat, labels # {}, IsFiniteSet(labels)
  PROVE  /\ Grown(i, labels) \in Nat
         /\ \A l \in labels : l < Grown(i, labels)
         /\ \A j \in (i + 1) .. Len(functions) :
              functions[j].base \in labels => End(functions[j]) <= Grown(i, labels)
<1> DEFINE ends == [j \in 1..Len(functions) |-> End(functions[j])]
           bodies == {End(functions[j]) : j \in {k \in (i + 1) .. Len(functions) : functions[k].base \in labels}}
           S == {l + 1 : l \in labels} \cup bodies
<1>1. PICK b \in Nat : \A l \in labels : l <= b
  BY FiniteBounded
<1>2. Len(functions) \in Nat /\ i \in 1..Len(functions) /\ ends \in [1..Len(functions) -> Nat]
  BY ListedFunctions
<1>3. PICK c \in Nat : \A j \in 1..Len(functions) : ends[j] <= c
  <2> HIDE DEF ends
  <2> QED BY <1>2, BoundedFunction
<1>4. \A e \in bodies : e \in Nat /\ e <= c
  BY <1>2, <1>3
<1>5. \A n \in S : n \in Nat /\ n <= b + 1 + c
  <2>1. ASSUME NEW l \in labels PROVE l + 1 \in Nat /\ l + 1 <= b + 1 + c
    BY <1>1, <1>3
  <2>2. ASSUME NEW e \in bodies PROVE e \in Nat /\ e <= b + 1 + c
    <3>1. e \in Nat /\ e <= c
      BY <1>4
    <3> HIDE DEF bodies
    <3> QED BY <1>1, <1>3, <3>1
  <2> HIDE DEF bodies
  <2> QED BY <2>1, <2>2
<1>6. S # {} /\ S \subseteq Nat /\ b + 1 + c \in Nat
  <2>1. \A l \in labels : l + 1 \in S
    OBVIOUS
  <2>2. b + 1 + c \in Nat
    OBVIOUS
  <2> HIDE DEF S
  <2>3. S # {}
    BY <2>1
  <2>4. S \subseteq Nat
    BY <1>5
  <2> QED BY <2>2, <2>3, <2>4
<1>7. Max(S) \in S /\ \A n \in S : n <= Max(S)
  <2> HIDE DEF S
  <2> QED BY <1>5, <1>6, MaxNat
<1>8. Grown(i, labels) = Max(S)
  BY DEF Grown
<1>9. \A l \in labels : l + 1 \in S
  OBVIOUS
<1>10. \A j \in (i + 1) .. Len(functions) : functions[j].base \in labels => End(functions[j]) \in S
  OBVIOUS
<1> HIDE DEF S
<1>11. Max(S) \in Nat
  BY <1>6, <1>7
<1>12. \A l \in labels : l < Max(S)
  BY <1>7, <1>9, <1>11
<1> QED BY <1>7, <1>8, <1>10, <1>11, <1>12

\* The labels past a function are finitely many addresses.
LEMMA TailLabelTypes ==
  ASSUME input \in Inputs, NEW f
  PROVE  TailLabels(f) \subseteq Nat /\ IsFiniteSet(TailLabels(f)) /\ \A l \in TailLabels(f) : l >= End(f)
<1> DEFINE all == UNION {t.labels : t \in input.tables}
<1>1. \A t \in input.tables : t.labels \subseteq Nat
  BY InputsAssumption, Zenon
<1>2. IsFiniteSet(all)
  BY InputsAssumption, Zenon
<1>3. TailLabels(f) \subseteq all
  BY DEF TailLabels
<1>4. all \subseteq Nat
  BY <1>1
<1>5. \A l \in TailLabels(f) : l >= End(f)
  BY DEF TailLabels
<1> HIDE DEF all
<1> QED BY <1>2, <1>3, <1>4, <1>5, FS_Subset

\* What an extension does to the list: the function at the index grows to its
\* labels and the case bodies at them, and stays in its section.
LEMMA Extended ==
  ASSUME TypeOK, Extend, functions' # functions
  PROVE  /\ index \in DOMAIN functions
         /\ DOMAIN functions' = DOMAIN functions
         /\ \A i \in DOMAIN functions : i # index => functions'[i] = functions[i]
         /\ functions'[index] \in FunctionType
         /\ functions'[index].base = functions[index].base
         /\ functions'[index].from = functions[index].from
         /\ End(functions'[index]) = Grown(index, TailLabels(functions[index]))
         /\ End(functions[index]) < End(functions'[index])
         /\ \A l \in TailLabels(functions[index]) : l < End(functions'[index])
         /\ \A j \in (index + 1) .. Len(functions) :
              functions[j].base \in TailLabels(functions[index]) =>
                End(functions[j]) <= End(functions'[index])
         /\ FindSection(functions[index].base) # 0
         /\ End(functions'[index]) <= SectionEnd(FindSection(functions[index].base))
<1>1. PICK i : i = index
  OBVIOUS
<1>2. PICK f : f = functions[i]
  OBVIOUS
<1>3. PICK end : end = Grown(i, TailLabels(f))
  OBVIOUS
<1>4. /\ functions' = [functions EXCEPT ![i].size = end - f.base]
      /\ Extensible(f, end) /\ TailLabels(f) # {} /\ i <= Len(functions)
  BY <1>1, <1>2, <1>3 DEF Extend
<1>5. i \in DOMAIN functions
  <2>1. \/ i \in DOMAIN functions
        \/ i \notin DOMAIN functions
    OBVIOUS
  <2>2. i \notin DOMAIN functions => functions' = functions
    BY <1>4, ListedFunctions DEF TypeOK
  <2> QED BY <2>1, <2>2
<1>6. f \in FunctionType /\ f.base \in Nat /\ End(f) \in Nat /\ f.base < End(f)
  BY <1>2, <1>5, ListedFunctions
<1>7. TailLabels(f) \subseteq Nat /\ IsFiniteSet(TailLabels(f)) /\ \A l \in TailLabels(f) : l >= End(f)
  BY TailLabelTypes DEF TypeOK
<1>8. /\ end \in Nat
      /\ \A l \in TailLabels(f) : l < end
      /\ \A j \in (i + 1) .. Len(functions) :
           functions[j].base \in TailLabels(f) => End(functions[j]) <= end
  BY <1>3, <1>4, <1>5, <1>7, GrownProperties
<1>9. End(f) < end
  BY <1>4, <1>6, <1>7, <1>8
<1>10. PICK g : g = [f EXCEPT !.size = end - f.base]
  OBVIOUS
<1>11. functions' = [functions EXCEPT ![i] = g]
  BY <1>2, <1>4, <1>5, <1>10
<1>12. g \in FunctionType /\ g.base = f.base /\ g.from = f.from /\ g.size = end - f.base
  BY <1>6, <1>8, <1>9, <1>10 DEF FunctionType
<1>13. End(g) = end
  BY <1>6, <1>8, <1>12 DEF End
<1>14. functions'[i] = g /\ DOMAIN functions' = DOMAIN functions
  BY <1>5, <1>11, ListedFunctions
<1>15. \A k \in DOMAIN functions : k # i => functions'[k] = functions[k]
  BY <1>11, ListedFunctions
<1>16. FindSection(f.base) # 0 /\ end <= SectionEnd(FindSection(f.base))
  BY <1>4 DEF Extensible
<1> QED BY <1>1, <1>2, <1>3, <1>5, <1>8, <1>9, <1>12, <1>13, <1>14, <1>15, <1>16

LEMMA ExtendStep ==
  ASSUME IInv, Extend
  PROVE  IInv'
<1>1. /\ TypeOK /\ Cursor /\ Listed /\ NoHole /\ CallsKnown /\ InOrder
      /\ phase = "extend" /\ index' = index + 1
      /\ UNCHANGED <<input, phase, section, at, symbols, skipped>>
  BY DEF IInv, Extend
<1>2. SymbolsKept
  BY <1>1 DEF SymbolsKept
<1>3. Cursor'
  BY <1>1 DEF Cursor, TypeOK
<1>4. NoHole'
  BY <1>1, <1>2, ScanKept DEF NoHole
<1>5. CallsKnown'
  BY <1>1, <1>2, ScanKept DEF CallsKnown
<1>6. CASE functions' = functions
  <2>1. TypeOK'
    BY <1>1, <1>6 DEF TypeOK
  <2>2. Listed'
    BY <1>1, <1>6, ListedSame
  <2>3. InOrder'
    BY <1>1, <1>6 DEF InOrder
  <2> QED BY <1>3, <1>4, <1>5, <2>1, <2>2, <2>3 DEF IInv
<1>7. CASE functions' # functions
  <2>1. /\ DOMAIN functions' = DOMAIN functions /\ Len(functions) \in Nat
        /\ DOMAIN functions = 1..Len(functions)
        /\ \A i \in DOMAIN functions :
             functions'[i].base = functions[i].base /\ functions'[i].from = functions[i].from
    BY <1>1, <1>7, Extended, ListedFunctions
  <2>2. functions' \in Seq(FunctionType)
    <3>1. \A i \in DOMAIN functions : functions'[i] \in FunctionType
      BY <1>1, <1>7, Extended, ListedFunctions
    <3>2. functions' = [i \in 1..Len(functions) |-> functions'[i]]
      BY <1>1, <1>7, <2>1 DEF Extend, TypeOK
    <3> QED BY <2>1, <3>1, <3>2
  <2>3. TypeOK'
    BY <1>1, <2>2 DEF TypeOK
  <2>4. InOrder'
    BY <1>1, <2>1 DEF InOrder
  <2>5. ASSUME NEW i \in DOMAIN functions' PROVE Known(functions[i].base)'
    <3>1. PICK b : b = functions[i].base
      OBVIOUS
    <3>2. Known(b) /\ functions'[i].base = b
      BY <1>1, <2>1, <3>1 DEF Listed
    <3> QED BY <1>1, <3>2 DEF Known, Matches
  <2>6. DuplicatesAreExplicit'
    BY <1>1, <2>1 DEF Listed, DuplicatesAreExplicit
  <2>7. FunctionsInSection'
    <3>1. ASSUME NEW i \in DOMAIN functions PROVE InPlace(functions'[i])
      <4>1. CASE i = index
        BY <1>1, <1>7, <4>1, Extended DEF InPlace
      <4>2. CASE i # index
        BY <1>1, <1>7, <4>2, Extended DEF Listed, FunctionsInSection, InPlace
      <4> QED BY <4>1, <4>2
    <3> QED BY <2>1, <3>1 DEF FunctionsInSection, InPlace
  <2>8. Listed'
    BY <1>1, <2>5, <2>6, <2>7 DEF Listed
  <2> QED BY <1>3, <1>4, <1>5, <2>3, <2>4, <2>8 DEF IInv
<1> QED BY <1>6, <1>7

LEMMA SameStep ==
  ASSUME IInv, UNCHANGED <<input, index, section, at, functions, symbols, skipped>>,
         phase' = phase \/ (phase = "extend" /\ phase' = "done")
  PROVE  IInv'
<1>1. TypeOK'
  BY DEF IInv, TypeOK
<1>2. Cursor'
  BY DEF IInv, Cursor
<1>3. Listed' /\ SymbolsKept
  BY ListedSame DEF IInv
<1>4. NoHole'
  BY <1>3, ScanKept DEF IInv, NoHole
<1>5. CallsKnown'
  BY <1>3, ScanKept DEF IInv, CallsKnown
<1>6. InOrder'
  BY DEF IInv, InOrder
<1> QED BY <1>1, <1>2, <1>3, <1>4, <1>5, <1>6 DEF IInv

----------------------------------------------------------------------------
\* The theorems.

LEMMA InvariantStep == IInv /\ [Next]_vars => IInv'
<1> SUFFICES ASSUME IInv, [Next]_vars PROVE IInv'
  OBVIOUS
<1>1. CASE Finish
  BY <1>1, SameStep DEF Finish
<1>2. CASE Done \/ UNCHANGED vars
  BY <1>2, SameStep DEF Done, vars
<1>3. CASE Sort
  BY <1>3, SortStep
<1>4. CASE Extend
  BY <1>4, ExtendStep
<1> QED
  BY <1>1, <1>2, <1>3, <1>4, AddHelpersStep, AddConfiguredStep, ConfiguredAddedStep, AddPdataStep,
     PdataAddedStep, ScanCallsStep, CallsScannedStep, SkipInvalidStep, SkipFunctionStep,
     AnalyzeFunctionStep, SectionScannedStep DEF Next

\* The inductive invariant: what each pass relies on, and what the passes before
\* it have registered and scanned.
THEOREM Invariant == Spec => []IInv
BY InvariantInit, InvariantStep, PTL DEF Spec

\* Every function in the list has an address, a size that is not zero and an
\* origin, whatever the configuration and .pdata say.
THEOREM FunctionsTyped == Spec => []TypeOK
<1>1. IInv => TypeOK
  BY DEF IInv
<1> QED BY <1>1, Invariant, PTL

\* Two functions of one base are both explicit: what .pdata and the scans find is
\* registered once.
THEOREM Duplicates == Spec => []DuplicatesAreExplicit
<1>1. IInv => DuplicatesAreExplicit
  BY DEF IInv, Listed
<1> QED BY <1>1, Invariant, PTL

\* No function but a helper, or the two words of a shifted tail call, leaves the
\* section it starts in, even after it was extended to its switch labels.
THEOREM InSection == Spec => []FunctionsInSection
<1>1. IInv => FunctionsInSection
  BY DEF IInv, Listed
<1> QED BY <1>1, Invariant, PTL

\* The linear scan leaves no word of a code section without a function, an import
\* or a skipped instruction.
THEOREM NoHoles == Spec => []ScanLeavesNoHole
<1>1. IInv => ScanLeavesNoHole
  <2> SUFFICES ASSUME IInv PROVE ScanLeavesNoHole
    OBVIOUS
  <2>1. ASSUME phase \in {"sort", "extend", "done"}, NEW s \in DOMAIN Sections, Sections[s].code
        PROVE  Scanned(s, SectionEnd(s))
    <3>1. section = Len(Sections) + 1 /\ s \in 1..Len(Sections) /\ Len(Sections) \in Nat
      BY <2>1, SectionTypes DEF IInv, Cursor
    <3>2. s < section
      BY <3>1
    <3> QED BY <2>1, <3>2 DEF IInv, NoHole
  <2> QED BY <2>1 DEF IInv, NoHole, ScanLeavesNoHole
<1> QED BY <1>1, Invariant, PTL

\* When the analysis is over, a function starts at the target of every call within
\* a section.
THEOREM CallsAreResolved == Spec => []CallsResolve
<1>1. IInv => CallsResolve
  <2> SUFFICES ASSUME IInv, phase = "done", NEW s \in DOMAIN Sections, NEW a \in CodeAddresses(s),
                      input.words[a].op = "bl" /\ input.words[a].n \in CodeAddresses(s)
               PROVE  Known(input.words[a].n)
    BY DEF CallsResolve, Resolves
  <2>1. section = Len(Sections) + 1 /\ s \in 1..Len(Sections) /\ Len(Sections) \in Nat
    BY SectionTypes DEF IInv, Cursor
  <2>2. s < section
    BY <2>1
  <2> QED BY <2>2 DEF IInv, CallsKnown, CallKnown
<1> QED BY <1>1, Invariant, PTL

\* An extension passes every label it was made for and the whole of every function
\* that was found at one: the list is sorted, so that none comes before it.
THEOREM CaseBodiesCovered == Spec => ExtensionCoversCaseBodies
<1>1. ASSUME IInv, [Next]_vars, phase = "extend", functions' # functions,
             NEW l \in TailLabels(functions[index])
      PROVE  /\ l < End(functions'[index])
             /\ \A j \in DOMAIN functions :
                  functions[j].base = l => End(functions[j]) <= End(functions'[index])
  <2>1. Extend
    BY <1>1 DEF Next, vars, AddHelpers, AddConfigured, ConfiguredAdded, AddPdata, PdataAdded, ScanCalls,
       CallsScanned, SkipInvalid, SkipFunction, AnalyzeFunction, InScan, SectionScanned, Sort, Finish, Done
  <2>2. TypeOK /\ InOrder
    BY <1>1 DEF IInv
  <2>3. PICK i : i = index
    OBVIOUS
  <2>4. i \in DOMAIN functions /\ l < End(functions'[i])
    BY <1>1, <2>1, <2>2, <2>3, Extended
  <2>5. ASSUME NEW j \in DOMAIN functions, functions[j].base = l
        PROVE  End(functions[j]) <= End(functions'[i])
    <3>1. i \in 1..Len(functions) /\ j \in 1..Len(functions) /\ Len(functions) \in Nat
      BY <2>2, <2>4, ListedFunctions
    <3>2. functions[i].base < l
      <4>1. l \in Nat /\ l >= End(functions[i])
        BY <1>1, <2>2, <2>3, TailLabelTypes DEF TypeOK
      <4>2. functions[i].base \in Nat /\ End(functions[i]) \in Nat /\ functions[i].base < End(functions[i])
        BY <2>2, <2>4, ListedFunctions
      <4> QED BY <4>1, <4>2
    <3>3. functions[i].base \in Nat /\ functions[j].base \in Nat
      BY <2>2, <2>4, ListedFunctions
    <3>4. i < j
      <4>1. CASE j < i
        <5>1. functions[j].base <= functions[i].base
          BY <1>1, <2>2, <2>4, <4>1 DEF InOrder
        <5> QED BY <2>5, <3>2, <3>3, <5>1
      <4>2. CASE i = j
        BY <2>5, <3>2, <3>3, <4>2
      <4> QED BY <3>1, <4>1, <4>2
    <3>5. j \in (i + 1) .. Len(functions)
      BY <3>1, <3>4
    <3> QED BY <1>1, <2>1, <2>2, <2>3, <2>5, <3>5, Extended
  <2> QED BY <2>3, <2>4, <2>5
<1>2. IInv /\ [Next]_vars =>
        [phase = "extend" /\ functions' # functions =>
           \A l \in TailLabels(functions[index]) :
             /\ l < End(functions'[index])
             /\ \A j \in DOMAIN functions :
                  functions[j].base = l => End(functions[j]) <= End(functions'[index])]_vars
  BY <1>1
<1> QED BY <1>2, Invariant, PTL DEF Spec, ExtensionCoversCaseBodies
==============================================================================
