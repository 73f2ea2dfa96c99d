------------------------------ MODULE TestRecompiler ------------------------------
(***************************************************************************)
(* TestRecompiler (XenonRecomp/test_recompiler.cpp): the objects of the    *)
(* processor tests are recompiled, the labels of their disassemblies tell  *)
(* the functions' names, and the annotated sources are turned into         *)
(* main.cpp, which calls every test with its inputs and checks its outputs.*)
(* Addresses are in words. Files end with the end of a line.               *)
(***************************************************************************)
EXTENDS Integers, Sequences, FiniteSets, SequencesExt, Functions, ImageSections

CONSTANTS Directories   \* suites of tests by number: the order of their names

VARIABLES
  suites,     \* the suites in the directory
  phase,      \* "objects", "analyse", "names", "sources", "done"
  todo,       \* suites whose object was not visited
  suite,      \* the suite being worked on
  data,       \* words of its code that were passed
  found,      \* Recompiler::functions: first word and size
  functions,  \* functions by suite: the recompiled ones
  symbols,    \* labels to functions
  reported,   \* what was printed
  line,       \* lines of the source that were read
  expects,    \* what the parser reads: "label", "inputs", "code", "outputs"
  test,       \* the test that is being written
  tests,      \* the tests in main.cpp
  main        \* what its main calls

vars == <<suites, phase, todo, suite, data, found, functions, symbols, reported,
          line, expects, test, tests, main>>

----------------------------------------------------------------------------
\* A suite is made of tests. Each has a label, inputs, code and outputs; a
\* remark in the code and a missing blank line behind it are unusual.

ConditionRegister == -1   \* an output

Line(kind, it) == [kind |-> kind, it |-> it]
Lined(kind, them) == [k \in DOMAIN them |-> Line(kind, them[k])]

\* A remark stands before the last instruction.
CodeLines(t) ==
  LET code == Lined("code", t.code)
  IN IF t.remark THEN InsertAt(code, Len(code), Line("remark", 0)) ELSE code

LinesOf(t) ==
  <<Line("label", t.name)>> \o Lined("input", t.inputs) \o CodeLines(t) \o Lined("output", t.outputs)
    \o (IF t.gap THEN <<Line("blank", 0)>> ELSE <<>>)

Source(s) == FlattenSeq([n \in DOMAIN s.tests |-> LinesOf(s.tests[n])])
Code(s) == FlattenSeq([n \in DOMAIN s.tests |-> s.tests[n].code])

\* The label of a test is where the code of those before it ends.
AddressOf(s, n) ==
  LET end[m \in 0 .. n] == IF m = 0 THEN 0 ELSE end[m - 1] + Len(s.tests[m].code) IN end[n - 1]

----------------------------------------------------------------------------

\* What Function::Analyze promises of the words from one on: FunctionExtent.
Flow(op) ==
  CASE op \in {"plain", "odd"} -> [op |-> "plain"]
    [] op = "skip" -> [op |-> "bc"]
    [] OTHER -> [op |-> "end"]

Region(code, from) ==
  [k \in 0 .. Len(code) - from |->
     IF from + k = Len(code) THEN [op |-> "end"]
     ELSE IF code[from + k + 1] = "skip" THEN [op |-> "bc", t |-> k + 2] ELSE Flow(code[from + k + 1])]

Extents(region, n) ==
  INSTANCE FunctionExtent WITH Words <- n, code <- region, tail <- 0, done <- FALSE, size <- 0

Sizes(code, from) ==
  LET n == Len(code) - from  region == Region(code, from)
  IN Extents(region, n)!Reportable(Extents(region, n)!Reachable)

----------------------------------------------------------------------------

Init ==
  /\ suites \in Directories
  /\ phase = "objects" /\ todo = DOMAIN suites /\ suite = 0
  /\ data = 0 /\ found = {} /\ functions = <<>>
  /\ symbols = <<>> /\ reported = {}
  /\ line = 0 /\ expects = "label" /\ test = <<>> /\ tests = <<>> /\ main = <<>>

Here == suites[suite]

\* The section of code, if it is mapped
CodeSection == {s \in ElfSections(Here.object) : s.code}

\* In the order in which the directory lists them
LoadObject ==
  /\ phase = "objects" /\ todo # {}
  /\ suite' \in todo
  /\ todo' = todo \ {suite'}
  /\ phase' = "analyse" /\ data' = 0 /\ found' = {}
  /\ UNCHANGED <<suites, functions, symbols, reported, line, expects, test, tests, main>>

InCode == phase = "analyse" /\ CodeSection # {} /\ data < Len(Code(Here))

SkipZero ==
  /\ InCode /\ Code(Here)[data + 1] = "zero"
  /\ data' = data + 1
  /\ UNCHANGED <<suites, phase, todo, suite, found, functions, symbols, reported, line, expects, test, tests, main>>

AnalyseFunction ==
  /\ InCode /\ Code(Here)[data + 1] # "zero"
  /\ \E code \in {Code(Here)}, base \in {data} :
       \E size \in Sizes(code, base) :
         /\ found' = found \cup {[base |-> base, size |-> size]}
         /\ data' = base + size
  /\ UNCHANGED <<suites, phase, todo, suite, functions, symbols, reported, line, expects, test, tests, main>>

\* An instruction without translation is the generator's to report.
Recompiled(fn) == \A k \in fn.base + 1 .. fn.base + fn.size : Code(Here)[k] # "odd"

\* A suite has an entry in functions when one of them was recompiled.
RecompileObject ==
  /\ phase = "analyse" /\ ~InCode
  /\ LET good == {fn \in found : Recompiled(fn)} IN
     /\ functions' = IF good = {} THEN functions
                     ELSE [s \in DOMAIN functions \cup {suite} |->
                             IF s = suite THEN {fn.base : fn \in good} ELSE functions[s]]
     /\ reported' = reported \cup {<<"unimplemented", suite, fn.base>> : fn \in found \ good}
  /\ phase' = "objects"
  /\ UNCHANGED <<suites, todo, suite, data, found, symbols, line, expects, test, tests, main>>

\* The next suite with functions, by name
Following(s) == {k \in DOMAIN functions : k > s /\ \A m \in DOMAIN functions : m > s => k <= m}

ObjectsDone ==
  /\ phase = "objects" /\ todo = {}
  /\ phase' = "names" /\ suite' = 0
  /\ UNCHANGED <<suites, todo, data, found, functions, symbols, reported, line, expects, test, tests, main>>

\* emplace: the first function with a label keeps it.
Named(s) ==
  LET labels == {n \in DOMAIN suites[s].tests : AddressOf(suites[s], n) \in functions[s]}
      first(name) == CHOOSE n \in labels : suites[s].tests[n].name = name /\
                       \A m \in labels : suites[s].tests[m].name = name => n <= m
  IN [name \in DOMAIN symbols \cup {suites[s].tests[n].name : n \in labels} |->
        IF name \in DOMAIN symbols THEN symbols[name] ELSE <<s, AddressOf(suites[s], first(name))>>]

ReadDisassembly ==
  /\ phase = "names"
  /\ suite' \in Following(suite)
  /\ IF suites[suite'].disassembled
       THEN symbols' = Named(suite') /\ UNCHANGED reported
       ELSE reported' = reported \cup {<<"no disassembly", suite'>>} /\ UNCHANGED symbols
  /\ UNCHANGED <<suites, phase, todo, data, found, functions, line, expects, test, tests, main>>

NamesDone ==
  /\ phase = "names" /\ Following(suite) = {}
  /\ phase' = "sources" /\ suite' = 0
  /\ UNCHANGED <<suites, todo, data, found, functions, symbols, reported, line, expects, test, tests, main>>

----------------------------------------------------------------------------

Lines == IF suite # 0 /\ Here.listed THEN Source(Here) ELSE <<>>
AtEnd == line >= Len(Lines)
NextLine == Lines[line + 1]
Annotation == NextLine.kind \in {"input", "output", "remark"}

Between == phase = "sources" /\ expects = "label" /\ AtEnd

OpenSource ==
  /\ Between
  /\ suite' \in Following(suite)
  /\ line' = 0
  /\ reported' = IF suites[suite'].listed THEN reported ELSE reported \cup {<<"no source", suite'>>}
  /\ UNCHANGED <<suites, phase, todo, data, found, functions, symbols, expects, test, tests, main>>

SourcesDone ==
  /\ Between /\ Following(suite) = {}
  /\ phase' = "done"
  /\ UNCHANGED <<suites, todo, suite, data, found, functions, symbols, reported, line, expects, test, tests, main>>

SeekLabel ==
  /\ phase = "sources" /\ expects = "label" /\ ~AtEnd
  /\ line' = line + 1
  /\ IF NextLine.kind = "label" /\ NextLine.it \in DOMAIN symbols
       THEN expects' = "inputs" /\ test' = [name |-> NextLine.it, body |-> <<>>] /\ UNCHANGED reported
     ELSE /\ reported' = IF NextLine.kind = "label" THEN reported \cup {<<"no symbol", NextLine.it>>} ELSE reported
          /\ UNCHANGED <<expects, test>>
  /\ UNCHANGED <<suites, phase, todo, suite, data, found, functions, symbols, tests, main>>

Call(function) == [kind |-> "call", of |-> function]

Written(what) == [test EXCEPT !.body = @ \o what]

\* The line that ends the inputs is read, too.
ReadInputs ==
  /\ phase = "sources" /\ expects = "inputs"
  /\ line' = IF AtEnd THEN line ELSE line + 1
  /\ IF ~AtEnd /\ Annotation
       THEN /\ test' = IF NextLine.kind = "input" THEN Written(<<NextLine>>) ELSE test
            /\ UNCHANGED expects
       ELSE expects' = "code" /\ UNCHANGED test
  /\ UNCHANGED <<suites, phase, todo, suite, data, found, functions, symbols, reported, tests, main>>

\* Outputs in the condition register are not checked.
Check == IF ~AtEnd /\ NextLine.kind = "output" /\ NextLine.it # ConditionRegister THEN <<NextLine>> ELSE <<>>

\* Everything is skipped up to the next annotation, the first that may be checked.
SkipCode ==
  /\ phase = "sources" /\ expects = "code"
  /\ line' = IF AtEnd THEN line ELSE line + 1
  /\ IF ~AtEnd /\ ~Annotation THEN UNCHANGED <<expects, test>>
     ELSE /\ expects' = "outputs"
          /\ test' = Written(<<Call(symbols[test.name])>> \o Check)
  /\ UNCHANGED <<suites, phase, todo, suite, data, found, functions, symbols, reported, tests, main>>

\* Mutant of ReadOutputs: the outputs go on over blank lines.
ReadOutputsOverBlank ==
  /\ phase = "sources" /\ expects = "outputs"
  /\ line' = IF AtEnd THEN line ELSE line + 1
  /\ IF ~AtEnd /\ (Annotation \/ NextLine.kind = "blank")
       THEN test' = Written(Check) /\ UNCHANGED <<expects, tests, main>>
       ELSE /\ tests' = Append(tests, test) /\ main' = Append(main, test.name)
            /\ expects' = "label" /\ UNCHANGED test
  /\ UNCHANGED <<suites, phase, todo, suite, data, found, functions, symbols, reported>>

\* The line that ends the outputs is read, whatever it is.
ReadOutputs ==
  /\ phase = "sources" /\ expects = "outputs"
  /\ line' = IF AtEnd THEN line ELSE line + 1
  /\ IF ~AtEnd /\ Annotation
       THEN test' = Written(Check) /\ UNCHANGED <<expects, tests, main>>
       ELSE /\ tests' = Append(tests, test) /\ main' = Append(main, test.name)
            /\ expects' = "label" /\ UNCHANGED test
  /\ UNCHANGED <<suites, phase, todo, suite, data, found, functions, symbols, reported>>

Next ==
  \/ LoadObject \/ SkipZero \/ AnalyseFunction \/ RecompileObject \/ ObjectsDone
  \/ ReadDisassembly \/ NamesDone
  \/ OpenSource \/ SeekLabel \/ ReadInputs \/ SkipCode \/ ReadOutputs \/ SourcesDone
  \/ phase = "done" /\ UNCHANGED vars

Spec == Init /\ [][Next]_vars

----------------------------------------------------------------------------

\* What a test promises to do.
Promise(s, n) ==
  LET t == suites[s].tests[n] IN
  [name |-> t.name,
   body |-> Lined("input", t.inputs) \o <<Call(<<s, AddressOf(suites[s], n)>>)>>
              \o Lined("output", SelectSeq(t.outputs, LAMBDA it : it # ConditionRegister))]

\* Known deviations. A test without outputs, with a remark in its code or without
\* a blank line behind it loses checks, and the tests behind it; of two tests with
\* one name the second calls the first one's function; and an object whose first
\* section is not its code is passed over, all of its sections having one address.
Tidy(t) == t.outputs # <<>> /\ ~t.remark /\ t.gap

Distinct(s, n) ==
  \A r \in DOMAIN suites : \A m \in DOMAIN suites[r].tests :
    suites[r].tests[m].name = suites[s].tests[n].name => <<r, m>> = <<s, n>>

CodeFirst(s) == \E section \in ElfSections(suites[s].object) : section.code

Sound(s, n) ==
  /\ CodeFirst(s) /\ Distinct(s, n)
  /\ \A m \in 1 .. n : Tidy(suites[s].tests[m])

\* Can the test be run: its own code and that before it return, and its
\* instructions have translations.
Runnable(s, n) ==
  /\ suites[s].disassembled /\ suites[s].listed
  /\ \A m \in 1 .. n : Last(suites[s].tests[m].code) \in {"end", "zero"}
  /\ \A k \in DOMAIN suites[s].tests[n].code : suites[s].tests[n].code[k] # "odd"

\* Why a test that cannot is not there
Excused(s, n) ==
  \/ <<"no symbol", suites[s].tests[n].name>> \in reported
  \/ <<"no source", s>> \in reported
  \/ \E a \in 0 .. AddressOf(suites[s], n) : <<"unimplemented", s, a>> \in reported

\* No test is lost without a word: of a suite that is written as usual, each test
\* that can be run is in main.cpp and called there once, with all its inputs before
\* the call of its own function and all its outputs checked after it, and of every
\* other one something is reported (test_recompiler.cpp:32-276).
TestsRunOrReported ==
  phase = "done" =>
    \A s \in DOMAIN suites : \A n \in DOMAIN suites[s].tests :
      Sound(s, n) =>
        LET name == suites[s].tests[n].name
            written == {k \in DOMAIN tests : tests[k].name = name}
            promised == /\ \E k \in written : written = {k} /\ tests[k] = Promise(s, n)
                        /\ Cardinality({k \in DOMAIN main : main[k] = name}) = 1
        IN promised \/ (~Runnable(s, n) /\ written = {} /\ Excused(s, n))
===============================================================================
