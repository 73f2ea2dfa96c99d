-------------------------- MODULE RecompileFunction --------------------------
(***************************************************************************)
(* Recompiler::Recompile(const Function&) and the branch handling of       *)
(* Recompiler::Recompile(instruction) in XenonRecomp/recompiler.cpp: the   *)
(* translation of one function to C++ statements with labels and gotos.    *)
(* Words are numbered from the function's base.                            *)
(***************************************************************************)
EXTENDS Integers, FiniteSets

CONSTANTS
  Length,       \* words from the function's base to the end it is emitted to
  Inputs        \* the functions considered

\* An input is a record of
\*   words    [0..Length-1 -> [op, t]]; op is "b", "bc" or "bdz" (a branch to t,
\*            conditional, counting), "bl" (a call, bctrl too), "setjmp", "blr",
\*            "condlr" (a conditional return, bnectr too), "bctr", "fpu" or "vmx"
\*            (floating point), "mtfsf", "mffs" or "other"
\*   size     Function::size; more than Length when the section ends before it
\*   tables   [base -> set of labels], config.switchTables
\*   hooks    [address -> [after, falls, leaves, gotos]], config.midAsmHooks
VARIABLES
  input,
  phase,       \* "labels", "emit", then "compiled"
  base,        \* the word under the loop cursor
  labels,      \* the addresses that may be jumped to
  table,       \* switchTable: the base of the table waiting for its bctr
  csrState,    \* "Unknown", "FPU" or "VMX"
  out          \* what was emitted: [word -> statement]

vars == <<input, phase, base, labels, table, csrState, out>>

NoTable == -1      \* config.switchTables.end()

Words == 0 .. (Length - 1)

ASSUME LengthAssumption == Length \in Nat

\* Targets are words apart; hooks and tables lie in the function, and no two tables
\* describe one bctr; a function is cut off, never drawn out.
ASSUME InputsAssumption ==
  \A i \in Inputs :
    /\ \A p \in Words : i.words[p].t \in Int
    /\ DOMAIN i.hooks \subseteq Words
    /\ DOMAIN i.tables \subseteq Words
    /\ \A b \in DOMAIN i.tables : i.tables[b] \subseteq Int
    /\ \A b, c \in DOMAIN i.tables : b < c => \E q \in b .. (c - 1) : i.words[q].op = "bctr"
    /\ i.size \in Int /\ i.size >= Length

Word == input.words[base]

\* The test every bounded branch makes: fn.base <= t < fn.base + fn.size.
Inside(t) == t >= 0 /\ t < input.size

----------------------------------------------------------------------------

Init ==
  /\ input \in Inputs
  /\ phase = "labels"
  /\ base = 0
  /\ labels = {}
  /\ table = NoTable
  /\ csrState = "Unknown"
  /\ out = <<>>

\* The targets of the branch at base that the first pass makes labels for.
BranchLabels == IF Word.op \in {"b", "bc", "bdz"} THEN {Word.t} ELSE {}

TableLabels == IF base \in DOMAIN input.tables THEN input.tables[base] ELSE {}

HookLabels == IF base \in DOMAIN input.hooks THEN input.hooks[base].gotos ELSE {}

\* Mutant of CollectLabels: the targets of hooks are forgotten.
CollectBranchLabels ==
  /\ phase = "labels"
  /\ base < Length
  /\ labels' = labels \cup BranchLabels \cup TableLabels
  /\ base' = base + 1
  /\ UNCHANGED <<input, phase, table, csrState, out>>

CollectLabels ==
  /\ phase = "labels"
  /\ base < Length
  /\ labels' = labels \cup BranchLabels \cup TableLabels \cup HookLabels
  /\ base' = base + 1
  /\ UNCHANGED <<input, phase, table, csrState, out>>

LabelsCollected ==
  /\ phase = "labels"
  /\ base = Length
  /\ phase' = "emit"
  /\ base' = 0
  /\ UNCHANGED <<input, labels, table, csrState, out>>

----------------------------------------------------------------------------
\* A statement: whether a label precedes it, what it does to the flush mode,
\* whether it calls, and how control leaves it: it falls through, returns or
\* tail calls, or goes to a label.

\* A word without an effect on control.
Falls == [falls |-> TRUE, leaves |-> FALSE, gotos |-> {}]

Leaves == [falls |-> FALSE, leaves |-> TRUE, gotos |-> {}]

\* b: a goto inside the function, a call and return outside.
Branch(t) ==
  [falls |-> FALSE, leaves |-> ~Inside(t), gotos |-> IF Inside(t) THEN {t} ELSE {}]

\* printConditionalBranch: the same under a condition.
ConditionalBranch(t) == [Branch(t) EXCEPT !.falls = TRUE]

\* bdz, bdnz and their conditional forms: a goto wherever the target is.
CountedBranch(t) == [falls |-> TRUE, leaves |-> FALSE, gotos |-> {t}]

\* bctr with a table: a case returns when its label lies outside.
Switch(ls) ==
  [falls |-> FALSE, leaves |-> \E l \in ls : ~Inside(l), gotos |-> {l \in ls : Inside(l)}]

\* The pending table, taken up at its base and held until the next bctr.
Pending ==
  IF table = NoTable /\ base \in DOMAIN input.tables THEN base ELSE table

Control ==
  CASE Word.op = "b"                      -> Branch(Word.t)
    [] Word.op = "bc"                     -> ConditionalBranch(Word.t)
    [] Word.op = "bdz"                    -> CountedBranch(Word.t)
    [] Word.op = "blr"                    -> Leaves
    [] Word.op = "condlr"                 -> [Falls EXCEPT !.leaves = TRUE]
    [] Word.op = "bctr"                   ->
         IF Pending # NoTable THEN Switch(input.tables[Pending]) ELSE Leaves
    [] OTHER                              -> Falls

\* Mutant of StateAtLabel: the state of the code above is assumed at a label.
StateAcrossLabel == csrState

\* Anyone could jump to a label: the flush mode is not known there.
StateAtLabel == IF base \in labels THEN "Unknown" ELSE csrState

\* printSetFlushMode: nothing when the mode is known to be right, a test of
\* the stored mode when it is not known, and no test when it is known wrong.
FlushFor(mode) ==
  IF StateAtLabel = mode THEN "none"
  ELSE IF StateAtLabel = "Unknown" THEN "test" ELSE "set"

Mode == IF Word.op = "fpu" THEN "FPU" ELSE "VMX"

Calls == {"bl", "setjmp"}

\* The flush mode that is known after the word.
StateAfter ==
  IF Word.op \in {"fpu", "vmx"} THEN Mode
  ELSE IF Word.op \in Calls THEN "Unknown" ELSE StateAtLabel

\* Mutant of Consumed: the switch leaves the table pending.
ConsumedNever == Pending

\* bctr uses the table up.
Consumed == IF Word.op = "bctr" THEN NoTable ELSE Pending

EmitWord ==
  /\ phase = "emit"
  /\ base < Length
  /\ out' = [p \in 0 .. base |->
               IF p < base THEN out[p]
               ELSE [label   |-> base \in labels,
                     flush   |-> IF Word.op \in {"fpu", "vmx"} THEN FlushFor(Mode) ELSE "none",
                     control |-> Control]]
  /\ csrState' = StateAfter
  /\ table' = Consumed
  /\ base' = base + 1
  /\ UNCHANGED <<input, phase, labels>>

Emitted ==
  /\ phase = "emit"
  /\ base = Length
  /\ phase' = "compiled"
  /\ UNCHANGED <<input, base, labels, table, csrState, out>>

Translate == CollectLabels \/ LabelsCollected \/ EmitWord \/ Emitted

----------------------------------------------------------------------------

\* The labels that precede a statement, and the gotos of the statements and of
\* the hooks around them.
LabelsOf == {p \in DOMAIN out : out[p].label}

GotosOf(ops) == UNION {out[p].control.gotos : p \in {q \in DOMAIN out : input.words[q].op \in ops}}

HookGotos == UNION {input.hooks[p].gotos : p \in DOMAIN input.hooks}

BoundedBranches == {"b", "bc", "bctr"}

\* The compiler finds a label for every goto. The count register branches do not
\* test where they go.
Compiles == GotosOf(BoundedBranches \cup {"bdz"}) \cup HookGotos \subseteq LabelsOf

\* Hooks jump within their function, as the configuration requires, and the
\* function was not cut off at the end of its section.
WellConfigured == HookGotos \subseteq Words /\ input.size = Length

\* Every goto that a bounded branch, a switch or a hook emits has its label,
\* although labels are collected in a pass of their own before.
GotosHaveLabels ==
  phase = "compiled" /\ WellConfigured => GotosOf(BoundedBranches) \cup HookGotos \subseteq LabelsOf
=============================================================================
