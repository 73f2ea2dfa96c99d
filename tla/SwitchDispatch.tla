----------------------------- MODULE SwitchDispatch -----------------------------
(***************************************************************************)
(* From a compiled switch statement to the switch that the recompiler      *)
(* generates for it: XenonAnalyse finds the tables of an image             *)
(* (JumpTables), RecompilerConfig::Load reads them, and the dispatch is    *)
(* run, by the console and by the generated code.                          *)
(*                                                                         *)
(* The compiler checks the range of the index, loads an entry of the table *)
(* through it and jumps.  A dispatch d is described by                     *)
(*   type   which of the four patterns                                     *)
(*   cases  the number of cases                                            *)
(*   bias   what is added to the value before it is compared               *)
(*   guard  the branch after the compare; "none" if the value is known     *)
(*          to be in range                                                 *)
(*   gap    the instructions between the range check and the dispatch      *)
(*   cut    whether the image lacks the end of the table (a table that is  *)
(*          made at run time, or code that only looks like a dispatch)     *)
(***************************************************************************)
EXTENDS JumpTables, SequencesExt

CONSTANTS
  Layouts,      \* for every code section of an image, the dispatches in it
  Values        \* values that are switched on

VARIABLES
  layout,       \* the layout and whether a word precedes its first dispatch
  phase,        \* "scan", "run" or "done"
  running,      \* the dispatch that is run and the value switched on
  pc,           \* section and word that is executed
  regs,         \* the general registers, of four times the width of a word
  greater,      \* the "greater" bit of the condition fields
  ctr,          \* the count register
  target        \* where the console and the generated code go

runVars == <<layout, phase, running, pc, regs, greater, ctr, target>>
vars == <<scanVars, runVars>>

Wide == 4 * Word
Registers == {0, 3, 11, 12}
Fields == {0, 6}

Nowhere == -1        \* a call of what is not a function
Unreachable == -2    \* the default of the generated switch

----------------------------------------------------------------------------

\* What the compiler makes of a switch statement.
Low(a) == ((a + Half \div 2) % Half) - Half \div 2
High(a) == LET h == (a - Low(a)) \div Half IN IF h >= Half \div 2 THEN h - Half ELSE h

Load(a) == <<[op |-> "lis", rt |-> 12, imm |-> High(a)],
             [op |-> "addi", rt |-> 12, ra |-> 12, imm |-> Low(a)]>>
Shifted(rs, sh) == <<[op |-> "rlwinm", ra |-> 0, rs |-> rs, sh |-> sh]>>
Indexed(op, rb) == <<[op |-> op, rt |-> 0, ra |-> 12, rb |-> rb]>>
AddLabel(base) == Load(base) \o <<[op |-> "add", rt |-> 12, ra |-> 12, rb |-> 0]>>
Jump(r) == <<[op |-> "mtctr", rs |-> r], [op |-> "bctr"]>>

Index(d) == IF d.bias = 0 THEN 3 ELSE 11

Core(d, table, base) ==
  CASE d.type = "absolute" ->
         Load(table) \o Shifted(Index(d), 2) \o Indexed("lwzx", 0) \o Jump(0)
    [] d.type = "computed" ->
         Load(table) \o Indexed("lbzx", Index(d)) \o Shifted(0, 2) \o AddLabel(base) \o Jump(12)
    [] d.type = "byteoffset" ->
         Load(table) \o Indexed("lbzx", Index(d)) \o AddLabel(base) \o Jump(12)
    [] d.type = "shortoffset" ->
         Load(table) \o Shifted(Index(d), 1) \o Indexed("lhzx", 0) \o AddLabel(base) \o Jump(12)

Bias(d) ==
  IF d.bias = 0 THEN <<>> ELSE <<[op |-> "addi", rt |-> 11, ra |-> 3, imm |-> d.bias]>>

Compare(d) == <<[op |-> "cmplwi", cr |-> 6, ra |-> Index(d), imm |-> d.cases - 1]>>

\* "ble" goes round a branch to the default label.
Guard(d, at, default) ==
  CASE d.guard = "none"  -> <<>>
    [] d.guard = "bgt"   -> Compare(d) \o <<[op |-> "bgt", cr |-> 6, target |-> default]>>
    [] d.guard = "bgtlr" -> Compare(d) \o <<[op |-> "bgtlr", cr |-> 6]>>
    [] d.guard = "ble"   -> Compare(d) \o <<[op |-> "ble", cr |-> 6, target |-> at + 12],
                                            [op |-> "b", target |-> default]>>

CoreLength(d) ==
  CASE d.type = "absolute" -> 6 [] d.type = "byteoffset" -> 8 [] OTHER -> 9

GuardLength(d) == CASE d.guard = "none" -> 0 [] d.guard = "ble" -> 3 [] OTHER -> 2

\* The word of the dispatch proper, the word after it, and the length of it all
\* with the bodies of the cases, of a word each.
CoreWord(d) == Len(Bias(d)) + GuardLength(d) + Len(d.gap) + 1
EndWord(d) == CoreWord(d) + CoreLength(d)
LengthOf(d) == EndWord(d) - 1 + d.cases

\* The cases are laid out last to first.
LabelOf(d, at, k) == at + 4 * (EndWord(d) - 1 + d.cases - k)

EntryOf(d, at, k) ==
  LET base == at + 4 * (EndWord(d) - 1) IN
  CASE d.type = "absolute" -> LabelOf(d, at, k)
    [] d.type = "computed" -> (LabelOf(d, at, k) - base) \div 4
    [] OTHER               -> LabelOf(d, at, k) - base

Code(d, at, table) ==
  Bias(d) \o Guard(d, at + 4 * Len(Bias(d)), at + 4 * LengthOf(d)) \o d.gap
    \o Core(d, table, at + 4 * (EndWord(d) - 1)) \o [k \in 1 .. d.cases |-> [op |-> "body"]]

----------------------------------------------------------------------------

\* Where things are: the code sections, and a section for every table.
CodeBase(s) == Word \div 2 + (s - 1) * (Word \div 8)
TableBase(s, n) == (3 * Word) \div 4 + (s - 1) * (Word \div 16) + (n - 1) * ((3 * Half) \div 4) + 4

Dispatches(l) == {<<s, n>> \in (1 .. Len(l.code)) \X (1 .. 2) : n <= Len(l.code[s])}

\* The first word of a dispatch.
StartWord(l, s, n) ==
  l.pad + 1 + (IF n = 1 THEN 0 ELSE LengthOf(l.code[s][1]))

CodeSection(l, s) ==
  LET piece(n) == Code(l.code[s][n], CodeBase(s) + 4 * (StartWord(l, s, n) - 1), TableBase(s, n))
      words == [k \in 1 .. l.pad |-> [op |-> "body"]]
                 \o FlattenSeq([n \in 1 .. Len(l.code[s]) |-> piece(n)])
  IN [base |-> CodeBase(s), size |-> 4 * Len(words), code |-> TRUE, words |-> words, entries |-> <<>>]

TableSection(l, s, n) ==
  LET d    == l.code[s][n]
      at   == CodeBase(s) + 4 * (StartWord(l, s, n) - 1)
      step == Stride(d.type)
      held == IF d.cut THEN d.cases - 1 ELSE d.cases
  IN [base |-> TableBase(s, n), size |-> held * step, code |-> FALSE, words |-> <<>>,
      entries |-> [a \in {TableBase(s, n) + (k - 1) * step : k \in 1 .. held} |->
                     EntryOf(d, at, (a - TableBase(s, n)) \div step + 1)]]

Linked(l) ==
  [s \in 1 .. Len(l.code) |-> CodeSection(l, s)]
    \o SetToSeq({TableSection(l, x[1], x[2]) : x \in Dispatches(l)})

Init ==
  /\ ScanInit
  /\ layout \in [code : Layouts, pad : {0, 1}]
  /\ image = Linked(layout)
  /\ phase = "scan" /\ running = [at |-> <<1, 1>>, value |-> 0] /\ pc = <<1, 1>> /\ ctr = 0
  /\ regs = [r \in Registers |-> 0] /\ greater = [f \in Fields |-> FALSE]
  /\ target = [console |-> Nowhere, generated |-> Nowhere]

Scan == phase = "scan" /\ ScanNext /\ UNCHANGED runVars

----------------------------------------------------------------------------

AddressOf(s, w) == image[s].base + 4 * (w - 1)

\* RecompilerConfig::Load: the first table of a base is kept.
SwitchTables ==
  [b \in {switches[k].base : k \in DOMAIN switches} |->
     switches[Min({k \in DOMAIN switches : switches[k].base = b})]]

\* Recompiler::Recompile: the table that is pending at a bctr.
Pending(s, w) ==
  {q \in 1 .. w : /\ AddressOf(s, q) \in DOMAIN SwitchTables
                  /\ \A p \in q .. (w - 1) : image[s].words[p].op # "bctr"}

Generated(s, w) ==
  IF Pending(s, w) = {} THEN Nowhere
  ELSE LET table == SwitchTables[AddressOf(s, Min(Pending(s, w)))]
           index == regs[table.r]
       IN IF index < Len(table.labels) THEN table.labels[index + 1] ELSE Unreachable

\* A value is switched on.
Run(s, n, x) ==
  /\ phase = "scan" /\ ~Searching
  /\ ~layout.code[s][n].cut
  /\ layout.code[s][n].guard = "none" => x + layout.code[s][n].bias \in 0 .. (layout.code[s][n].cases - 1)
  /\ phase' = "run" /\ running' = [at |-> <<s, n>>, value |-> x]
  /\ pc' = <<s, StartWord(layout, s, n)>>
  /\ regs' = [regs EXCEPT ![3] = x]
  /\ UNCHANGED <<scanVars, layout, greater, ctr, target>>

Written(i) ==
  CASE i.op = "lis"    -> (i.imm * Half) % Wide
    [] i.op = "addi"   -> (regs[i.ra] + i.imm) % Wide
    [] i.op = "add"    -> (regs[i.ra] + regs[i.rb]) % Wide
    [] i.op = "rlwinm" -> ((regs[i.rs] % Word) * 2 ^ i.sh) % Word
    [] OTHER           -> Entry((regs[i.ra] + regs[i.rb]) % Word)

Compute(i) ==
  /\ i.op \in {"lis", "addi", "add", "rlwinm", "lwzx", "lhzx", "lbzx"}
  /\ regs' = [regs EXCEPT ![IF i.op = "rlwinm" THEN i.ra ELSE i.rt] = Written(i)]
  /\ pc' = <<pc[1], pc[2] + 1>>
  /\ UNCHANGED <<greater, ctr, target, phase>>

Check(i) ==
  /\ i.op = "cmplwi"
  /\ greater' = [greater EXCEPT ![i.cr] = regs[i.ra] % Word > i.imm]
  /\ pc' = <<pc[1], pc[2] + 1>>
  /\ UNCHANGED <<regs, ctr, target, phase>>

MoveToCtr(i) ==
  /\ i.op = "mtctr"
  /\ ctr' = regs[i.rs] % Word
  /\ pc' = <<pc[1], pc[2] + 1>>
  /\ UNCHANGED <<regs, greater, target, phase>>

\* The default label, the same for both.
Leave(i) ==
  /\ i.op = "b" \/ (i.op \in {"bgt", "bgtlr"} /\ greater[i.cr])
  /\ phase' = "done"
  /\ UNCHANGED <<regs, greater, ctr, target, pc>>

Pass(i) ==
  /\ i.op \in {"nop", "ble"} \/ (i.op \in {"bgt", "bgtlr"} /\ ~greater[i.cr])
  /\ pc' = <<pc[1], pc[2] + (IF i.op = "ble" /\ ~greater[i.cr] THEN 2 ELSE 1)>>
  /\ UNCHANGED <<regs, greater, ctr, target, phase>>

Dispatch(i) ==
  /\ i.op = "bctr"
  /\ target' = [console |-> ctr, generated |-> Generated(pc[1], pc[2])]
  /\ phase' = "done"
  /\ UNCHANGED <<regs, greater, ctr, pc>>

Execute ==
  /\ phase = "run"
  /\ LET i == image[pc[1]].words[pc[2]] IN
       Compute(i) \/ Check(i) \/ MoveToCtr(i) \/ Leave(i) \/ Pass(i) \/ Dispatch(i)
  /\ UNCHANGED <<scanVars, layout, running>>

Ended == phase # "run" /\ ~Searching /\ UNCHANGED vars

Next ==
  \/ Scan
  \/ \E x \in Values, sn \in Dispatches(layout) : Run(sn[1], sn[2], x)
  \/ Execute
  \/ Ended

Spec == Init /\ [][Next]_vars

----------------------------------------------------------------------------

CompareWord(l, s, n) == StartWord(l, s, n) + Len(Bias(l.code[s][n]))
BaseWord(l, s, n) == StartWord(l, s, n) + CoreWord(l.code[s][n]) - 1

\* The compare is within reach of the scan, and not the section's first word.
Detectable(l, s, n) ==
  /\ l.code[s][n].guard # "none"
  /\ CompareWord(l, s, n) > 1
  /\ BaseWord(l, s, n) - CompareWord(l, s, n) < Reach

\* Known deviation: a dispatch without a range check takes the range check of the
\* one before it when that is within reach.
StrayGuard(l, s, n) ==
  /\ n = 2 /\ l.code[s][2].guard = "none" /\ l.code[s][1].guard # "none"
  /\ CompareWord(l, s, 1) > 1
  /\ BaseWord(l, s, 2) - CompareWord(l, s, 1) < Reach

TableFor(l, s, n, table) ==
  LET d == l.code[s][n] IN
  /\ table.r = Index(d) /\ Len(table.labels) = d.cases
  /\ d.guard = "bgt" =>
       table.default = CodeBase(s) + 4 * (StartWord(l, s, n) - 1) + 4 * LengthOf(d)

\* At its end XenonAnalyse has printed, once, the table of every dispatch whose
\* range check it can see, with the register, the number of cases and the default
\* label of that range check; it has refused those whose table is not wholly in
\* the image, and printed nothing else.
TablesFound ==
  ~Searching =>
    /\ \A x \in Dispatches(layout) :
         LET s == x[1] n == x[2] base == AddressOf(s, BaseWord(layout, s, n))
             mine == {k \in DOMAIN switches : switches[k].base = base}
         IN /\ Detectable(layout, s, n) /\ ~layout.code[s][n].cut =>
                 Cardinality(mine) = 1 /\ \A k \in mine : TableFor(layout, s, n, switches[k])
            /\ Detectable(layout, s, n) /\ layout.code[s][n].cut =>
                 mine = {} /\ base \in Range(ignored)
            /\ ~Detectable(layout, s, n) /\ ~StrayGuard(layout, s, n) => mine = {}
    /\ \A k \in DOMAIN switches :
         \E x \in Dispatches(layout) :
           switches[k].base = AddressOf(x[1], BaseWord(layout, x[1], x[2]))

\* Wherever the console's dispatch jumps, through the entries in memory, the
\* generated switch goes to the same place, unless the index does not fit a word.
CasesFollow ==
  LET s == running.at[1] n == running.at[2] IN
  /\ phase = "done" /\ target.console # Nowhere /\ Detectable(layout, s, n)
  /\ running.value + layout.code[s][n].bias < Word
  => target.generated = target.console
=============================================================================
