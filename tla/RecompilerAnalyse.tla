-------------------------- MODULE RecompilerAnalyse --------------------------
(***************************************************************************)
(* Recompiler::Analyse of XenonRecomp/recompiler.cpp: the passes that turn *)
(* an image and a configuration into the list of functions to translate.   *)
(* Addresses and sizes are in words; address 0 stands for "not configured".*)
(***************************************************************************)
EXTENDS Integers, Sequences, FiniteSets, FiniteSetsExt

CONSTANTS
  Sections,             \* Image::sections: <<[base, size, code], ...>> by base
  Families,             \* the helper families: <<[first, last, stride, extra], ...>>
  Inputs,               \* the images and configurations considered
  MaxSwitchExtension

\* An input is a record of
\*   helpers     the address of the first helper of each family, or 0
\*   configured  [address -> size], the explicitly configured functions
\*   pdata       <<[begin, length], ...>>, the entries of section .pdata
\*   imports     <<[address, size], ...>>, the symbols of the image loader
\*   words       [address -> [op, n]]: "bl" to address n, an "invalid"
\*               instruction configured to span n words, or "plain"
\*   tables      set of [base, labels], the configured switch tables
SectionEnd(s) == Sections[s].base + Sections[s].size

\* The loaders list sections by base and a well-formed image keeps them apart.
Apart(s, t) == SectionEnd(s) <= Sections[t].base

ASSUME SectionsAssumption ==
  /\ Sections \in Seq([base : Nat, size : Nat, code : BOOLEAN])
  /\ \A s, t \in DOMAIN Sections : s < t => Apart(s, t)

\* A helper saves at least one register: none of them is empty.
ASSUME FamiliesAssumption ==
  /\ Families \in Seq([first : Nat, last : Nat, stride : Nat, extra : Nat])
  /\ Families # <<>>
  /\ \A f \in DOMAIN Families : Families[f].stride + Families[f].extra > 0

\* Addresses and sizes are unsigned; a configuration has finitely many labels.
ASSUME InputsAssumption ==
  \A given \in Inputs :
    /\ given.helpers \in [DOMAIN Families -> Nat]
    /\ given.configured \in [DOMAIN given.configured -> Nat] /\ DOMAIN given.configured \subseteq Nat
    /\ given.pdata \in Seq([begin : Nat, length : Nat])
    /\ given.imports \in Seq([address : Nat, size : Nat])
    /\ \A s \in DOMAIN Sections : \A a \in Sections[s].base .. (SectionEnd(s) - 1) :
         given.words[a].n \in Nat
    /\ \A t \in given.tables : t.base \in Nat /\ t.labels \subseteq Nat
    /\ IsFiniteSet(UNION {t.labels : t \in given.tables})

VARIABLES
  input,
  phase,       \* the pass that is running
  index,       \* its position: helper number, .pdata entry, function
  section,     \* the section being scanned
  at,          \* the address under the scan cursor
  functions,   \* Recompiler::functions: <<[base, size, from], ...>>
  symbols,     \* Image::symbols, in order of insertion
  skipped      \* history: the addresses the scan passed over as invalid

vars == <<input, phase, index, section, at, functions, symbols, skipped>>

End(f) == f.base + f.size

----------------------------------------------------------------------------
\* Lookups.

\* Image::FindSection: the last section that starts at or before a, when a is
\* inside it; 0 stands for nullptr.
FindSection(a) ==
  LET below == {s \in DOMAIN Sections : Sections[s].base <= a} IN
  IF below # {} /\ a < SectionEnd(Max(below)) THEN Max(below) ELSE 0

Symbol(a, n) == [address |-> a, size |-> n]

\* SymbolTable::find: only symbols that start at a are looked at, an empty one
\* holds no address, and the last of several equally close ones is returned.
Matches(a) == {i \in DOMAIN symbols : symbols[i].address = a /\ symbols[i].size > 0}

Known(a) == Matches(a) # {}

Find(a) == symbols[Max(Matches(a))]

\* Mutant of Clamped: the size is not limited.
Unclamped(a, n) == n

\* A size that does not reach past the end of the section a lies in.
Clamped(a, n) == Min({n, SectionEnd(FindSection(a)) - a})

\* Function::Analyze on the rest of section s reports at least one word and
\* stays in the section, unless the two words of a shifted tail call do not
\* (theorem ReportedSizeInRegion of FunctionAnalyzeProofs).
Analyzed(a, s) == (1 .. (SectionEnd(s) - a)) \cup {2}

----------------------------------------------------------------------------
\* Explicit boundaries.

Init ==
  /\ input \in Inputs
  /\ phase = "helpers"
  /\ index = Min({Families[f].first : f \in DOMAIN Families})
  /\ section = 1
  /\ at = 0
  /\ functions = <<>>
  /\ symbols = input.imports
  /\ skipped = {}

Register(fs) ==
  /\ functions' = functions \o fs
  /\ symbols' = symbols \o [i \in DOMAIN fs |-> Symbol(fs[i].base, fs[i].size)]

\* The i-th element of a set of numbers
Nth(S, i) == CHOOSE n \in S : Cardinality({m \in S : m <= n}) = i

\* Helper number index of each configured family that has one.
HelperEntries ==
  LET present == {f \in DOMAIN Families :
                    input.helpers[f] # 0 /\ Families[f].first <= index /\ index < Families[f].last}
      Entry(f) == [base |-> input.helpers[f] + (index - Families[f].first) * Families[f].stride,
                   size |-> (Families[f].last - index) * Families[f].stride + Families[f].extra,
                   from |-> "helper"]
  IN  [i \in 1 .. Cardinality(present) |-> Entry(Nth(present, i))]

AddHelpers ==
  /\ phase = "helpers"
  /\ Register(HelperEntries)
  /\ IF \E f \in DOMAIN Families : index + 1 < Families[f].last
     THEN index' = index + 1 /\ UNCHANGED phase
     ELSE index' = 1 /\ phase' = "configured"
  /\ UNCHANGED <<input, section, at, skipped>>

\* config.functions is an unordered map: its entries come in any order.
Configured ==
  {functions[i].base : i \in {j \in DOMAIN functions : functions[j].from = "configured"}}

Usable(a) == input.configured[a] # 0 /\ FindSection(a) # 0

AddConfigured ==
  /\ phase = "configured"
  /\ \E a \in DOMAIN input.configured \ Configured :
       /\ Usable(a)
       /\ Register(<<[base |-> a, size |-> Clamped(a, input.configured[a]), from |-> "configured"]>>)
  /\ UNCHANGED <<input, phase, index, section, at, skipped>>

ConfiguredAdded ==
  /\ phase = "configured"
  /\ \A a \in DOMAIN input.configured : Usable(a) => a \in Configured
  /\ phase' = "pdata"
  /\ UNCHANGED <<input, index, section, at, functions, symbols, skipped>>

\* Mutant of Describes: an entry that repeats a known function is taken again.
DescribesAnything(e) == e.begin # 0 /\ e.length # 0 /\ FindSection(e.begin) # 0

Describes(e) == e.begin # 0 /\ e.length # 0 /\ FindSection(e.begin) # 0 /\ ~Known(e.begin)

AddPdata ==
  /\ phase = "pdata"
  /\ index <= Len(input.pdata)
  /\ LET e == input.pdata[index] IN
       IF Describes(e)
       THEN Register(<<[base |-> e.begin, size |-> Clamped(e.begin, e.length), from |-> "pdata"]>>)
       ELSE UNCHANGED <<functions, symbols>>
  /\ index' = index + 1
  /\ UNCHANGED <<input, phase, section, at, skipped>>

----------------------------------------------------------------------------
\* The two scans of each code section.

Enter(s) ==
  IF s > Len(Sections)
  THEN phase' = "sort" /\ UNCHANGED at
  ELSE /\ phase' = IF Sections[s].code THEN "calls" ELSE "skip"
       /\ at' = Sections[s].base

PdataAdded ==
  /\ phase = "pdata"
  /\ index > Len(input.pdata)
  /\ Enter(1)
  /\ UNCHANGED <<input, index, section, functions, symbols, skipped>>

\* Mutant of CallTarget: a function that contains the target is good enough.
CallTargetUncontained(w) ==
  /\ w.op = "bl"
  /\ w.n >= Sections[section].base /\ w.n < SectionEnd(section)
  /\ ~\E i \in DOMAIN symbols :
        symbols[i].address <= w.n /\ w.n < symbols[i].address + symbols[i].size

\* bl to an address of the same section at which no function is known.
CallTarget(w) ==
  /\ w.op = "bl"
  /\ w.n >= Sections[section].base /\ w.n < SectionEnd(section)
  /\ ~Known(w.n)

ScanCalls ==
  /\ phase = "calls"
  /\ at < SectionEnd(section)
  /\ LET w == input.words[at] IN
       IF CallTarget(w)
       THEN \E n \in Analyzed(w.n, section) :
              Register(<<[base |-> w.n, size |-> n, from |-> "call"]>>)
       ELSE UNCHANGED <<functions, symbols>>
  /\ at' = at + 1
  /\ UNCHANGED <<input, phase, index, section, skipped>>

CallsScanned ==
  /\ phase = "calls"
  /\ at >= SectionEnd(section)
  /\ phase' = "scan"
  /\ at' = Sections[section].base
  /\ UNCHANGED <<input, index, section, functions, symbols, skipped>>

InScan == phase = "scan" /\ at < SectionEnd(section)

\* Mutant of Advance: nothing makes the scan leave an empty entry.
AdvanceBy(n) == at' = at + n

\* An empty entry is passed over word by word.
Advance(n) == at' = at + (IF n = 0 THEN 1 ELSE n)

Invalid == input.words[at].op = "invalid"

\* An instruction of config.invalidInstructions spans the configured size.
SkipInvalid ==
  /\ InScan /\ Invalid
  /\ Advance(input.words[at].n)
  /\ skipped' = skipped \cup at .. (at' - 1)
  /\ UNCHANGED <<input, phase, index, section, functions, symbols>>

SkipFunction ==
  /\ InScan /\ ~Invalid /\ Known(at)
  /\ Advance(Find(at).size)
  /\ UNCHANGED <<input, phase, index, section, functions, symbols, skipped>>

\* Mutant of AnalyzeFunction: the scan continues one word too far.
AnalyzeFunctionOver ==
  /\ InScan /\ ~Invalid /\ ~Known(at)
  /\ \E n \in Analyzed(at, section) :
       /\ Register(<<[base |-> at, size |-> n, from |-> "scan"]>>)
       /\ Advance(n + 1)
  /\ UNCHANGED <<input, phase, index, section, skipped>>

AnalyzeFunction ==
  /\ InScan /\ ~Invalid /\ ~Known(at)
  /\ \E n \in Analyzed(at, section) :
       /\ Register(<<[base |-> at, size |-> n, from |-> "scan"]>>)
       /\ Advance(n)
  /\ UNCHANGED <<input, phase, index, section, skipped>>

SectionScanned ==
  /\ \/ phase = "scan" /\ at >= SectionEnd(section)
     \/ phase = "skip"
  /\ section' = section + 1
  /\ Enter(section + 1)
  /\ UNCHANGED <<input, index, functions, symbols, skipped>>

----------------------------------------------------------------------------
\* Sorting, and the extension of functions to their trailing switch cases.

\* The position of function i in a list sorted by base. The order std::sort gives
\* functions of one base matters to nothing after it.
Rank(fs, i) ==
  Cardinality({j \in DOMAIN fs : fs[j].base < fs[i].base \/ (fs[j].base = fs[i].base /\ j <= i)})

Sorted(fs) == [k \in DOMAIN fs |-> fs[CHOOSE i \in DOMAIN fs : Rank(fs, i) = k]]

Sort ==
  /\ phase = "sort"
  /\ functions' = Sorted(functions)
  /\ index' = 1
  /\ phase' = "extend"
  /\ UNCHANGED <<input, section, at, symbols, skipped>>

\* The labels past the end of f of the tables inside f.
TailLabels(f) ==
  {l \in UNION {t.labels : t \in {u \in input.tables : f.base <= u.base /\ u.base < End(f)}} :
     l >= End(f)}

\* Mutant of Grown: the case bodies are not looked up.
GrownToLabels(i, labels) == Max({l + 1 : l \in labels})

\* The end of the last label, grown by the functions that start at a label. The
\* list is sorted, so that all of these come before the loop's early exit.
Grown(i, labels) ==
  Max({l + 1 : l \in labels} \cup
      {End(functions[j]) : j \in {k \in (i + 1) .. Len(functions) : functions[k].base \in labels}})

Extensible(f, end) ==
  /\ end <= End(f) + MaxSwitchExtension
  /\ FindSection(f.base) # 0
  /\ end <= SectionEnd(FindSection(f.base))

Extend ==
  /\ phase = "extend"
  /\ index <= Len(functions)
  /\ LET f == functions[index]
         labels == TailLabels(f)
     IN  IF labels # {} /\ Extensible(f, Grown(index, labels))
         THEN functions' = [functions EXCEPT ![index].size = Grown(index, labels) - f.base]
         ELSE UNCHANGED functions
  /\ index' = index + 1
  /\ UNCHANGED <<input, phase, section, at, symbols, skipped>>

Finish ==
  /\ phase = "extend"
  /\ index > Len(functions)
  /\ phase' = "done"
  /\ UNCHANGED <<input, index, section, at, functions, symbols, skipped>>

Done == phase = "done" /\ UNCHANGED vars

Next ==
  \/ AddHelpers \/ AddConfigured \/ ConfiguredAdded \/ AddPdata \/ PdataAdded
  \/ ScanCalls \/ CallsScanned \/ SkipInvalid \/ SkipFunction \/ AnalyzeFunction
  \/ SectionScanned \/ Sort \/ Extend \/ Finish \/ Done

Spec == Init /\ [][Next]_vars /\ WF_vars(Next)

----------------------------------------------------------------------------

\* Two functions with one base would be generated twice under one name.  Only
\* explicit boundaries can collide: an explicitly configured function with a
\* helper, or two helpers.  Whatever .pdata and the two scans find, in whatever
\* order calls, padding and .pdata entries name it, is registered once.
DuplicatesAreExplicit ==
  \A i, j \in DOMAIN functions :
    i # j /\ functions[i].base = functions[j].base =>
      {functions[i].from, functions[j].from} \subseteq {"helper", "configured"}

\* No function leaves the section it starts in, whatever sizes the
\* configuration and .pdata give and however far labels extend it; helpers are
\* taken as configured, and a shifted tail call always has two words.
FunctionsInSection ==
  \A i \in DOMAIN functions :
    LET f == functions[i] IN
    f.from = "helper" \/ (f.from \in {"call", "scan"} /\ f.size = 2) \/
      /\ FindSection(f.base) # 0
      /\ End(f) <= SectionEnd(FindSection(f.base))

HasSymbol(a) ==
  \E i \in DOMAIN symbols : symbols[i].address <= a /\ a < symbols[i].address + symbols[i].size

Scanned(s, end) ==
  \A a \in Sections[s].base .. (end - 1) : HasSymbol(a) \/ a \in skipped

\* The linear scan leaves no hole: every word of a code section behind the
\* cursor belongs to a function or import, or to a skipped instruction.
ScanLeavesNoHole ==
  /\ phase = "scan" => Scanned(section, Min({at, SectionEnd(section)}))
  /\ phase \in {"sort", "extend", "done"} =>
       \A s \in DOMAIN Sections : Sections[s].code => Scanned(s, SectionEnd(s))

CodeAddresses(s) == IF Sections[s].code THEN Sections[s].base .. (SectionEnd(s) - 1) ELSE {}

Resolves(from, to) ==
  \A a \in CodeAddresses(from) :
    input.words[a].op = "bl" /\ input.words[a].n \in CodeAddresses(to) => Known(input.words[a].n)

\* When the analysis is over, a function starts at the target of every call
\* within a section, so that the call is generated and not dropped.
CallsResolve ==
  phase = "done" => \A s \in DOMAIN Sections : Resolves(s, s)

\* An extension reaches past the last trailing label, and contains the whole
\* of every function that was found at one of the labels.
ExtensionCoversCaseBodies ==
  [][phase = "extend" /\ functions' # functions =>
       \A l \in TailLabels(functions[index]) :
         /\ l < End(functions'[index])
         /\ \A j \in DOMAIN functions :
              functions[j].base = l => End(functions[j]) <= End(functions'[index])]_vars

\* The analysis ends, even on instructions and entries configured empty.
Termination == <>(phase = "done")
=============================================================================
