------------------------- MODULE GeneratedCodeProofs -------------------------
(***************************************************************************)
(* For functions of any length, with any tables and hooks: every goto has  *)
(* its label, every floating point instruction runs in its own mode, and   *)
(* GeneratedCode implements GuestFlow.  The first needs only the two       *)
(* passes (TranslationInv); the second relates the state the translator    *)
(* assumed at each word to the state of the host that executes it          *)
(* (FlowInv); the third says of every statement that was emitted how       *)
(* control leaves it, in terms of the guest's words and tables alone       *)
(* (ControlInv), and relates the table the translator holds to the tables  *)
(* whose bctr is still to come (TableInv).                                 *)
(***************************************************************************)
EXTENDS GeneratedCode, TLAPS

\* The labels the first pass makes for the word at p.
LabelsFor(p) ==
  (IF input.words[p].op \in {"b", "bc", "bdz"} THEN {input.words[p].t} ELSE {})
    \cup (IF p \in DOMAIN input.tables THEN input.tables[p] ELSE {})
    \cup (IF p \in DOMAIN input.hooks THEN input.hooks[p].gotos ELSE {})

\* The words the first pass has been over.
Seen == IF phase = "labels" THEN base ELSE Length

Goto == BoundedBranches \cup {"bdz"}

\* The gotos of the statement at p were collected; those of bounded branches stay inside.
GotosRight(p) ==
  /\ input.words[p].op \in BoundedBranches =>
       \A t \in out[p].control.gotos : t \in labels /\ t \in Int /\ Inside(t)
  /\ input.words[p].op \notin Goto => out[p].control.gotos = {}

TranslationInv ==
  /\ input \in Inputs
  /\ phase \in {"labels", "emit", "compiled"}
  /\ base \in 0 .. Length
  /\ phase = "compiled" => base = Length
  /\ table = NoTable \/ (table \in Words /\ table \in DOMAIN input.tables)
  /\ phase = "labels" => table = NoTable
  /\ \A p \in Words : p < Seen => LabelsFor(p) \subseteq labels
  /\ phase = "labels" => DOMAIN out = {}
  /\ phase # "labels" => DOMAIN out = 0 .. (base - 1)
  /\ \A p \in DOMAIN out : (out[p].label <=> p \in labels) /\ GotosRight(p)

States == {"Unknown", "FPU", "VMX"}

ModeOf(p) == IF input.words[p].op = "fpu" THEN "FPU" ELSE "VMX"

\* The state assumed at the word p, when st[p] is the one known above it.
Before(st, p) == IF p \in labels THEN "Unknown" ELSE st[p]

\* The statement at p was translated from the state before it to the one after.
Follows(st, p) ==
  /\ input.words[p].op \in {"fpu", "vmx"} =>
       /\ st[p + 1] = ModeOf(p)
       /\ out[p].flush = IF Before(st, p) = ModeOf(p) THEN "none"
                         ELSE IF Before(st, p) = "Unknown" THEN "test" ELSE "set"
  /\ input.words[p].op \notin {"fpu", "vmx"} =>
       /\ st[p + 1] = IF input.words[p].op \in Calls THEN "Unknown" ELSE Before(st, p)
       /\ out[p].flush = "none"

Assumed(st) ==
  /\ st[0] = "Unknown"
  /\ phase = "labels" => csrState = "Unknown"
  /\ phase # "labels" => st[base] = csrState
  /\ \A p \in DOMAIN out : Follows(st, p)

\* A host in mode h may run code translated for state s.
Suits(h, s) == s = "Unknown" \/ h = (s = "VMX")

HostRight(st) ==
  /\ csr = host
  /\ env.csr = env.host
  /\ at \in 0 .. Length
  /\ phase # "compiled" => at = 0
  /\ at < Length => Suits(host, Before(st, at))
  /\ armed # Length => armed \in Words /\ input.words[armed].op = "setjmp"

FlowInv == \E st \in [0 .. Length -> States] : Assumed(st) /\ HostRight(st)

----------------------------------------------------------------------------

LEMMA TranslationStart == Init => TranslationInv
<1> SUFFICES ASSUME Init PROVE TranslationInv
  OBVIOUS
<1>1. DOMAIN out = {}
  BY DEF Init
<1>2. Seen = 0
  BY DEF Init, Seen
<1> QED BY <1>1, <1>2, LengthAssumption DEF Init, TranslationInv, Words

\* The first pass collects what the word under the cursor asks for.
LEMMA CollectStep ==
  ASSUME TranslationInv, CollectLabels
  PROVE  TranslationInv'
<1>1. base < Length /\ phase = "labels" /\ base \in Words
  BY LengthAssumption DEF CollectLabels, TranslationInv, Words
<1>2. base' = base + 1 /\ UNCHANGED <<input, phase, table, csrState, out>>
  BY DEF CollectLabels
<1>3. labels' = labels \cup LabelsFor(base)
  BY DEF CollectLabels, BranchLabels, TableLabels, HookLabels, LabelsFor, Word
<1>4. Seen = base /\ Seen' = base + 1
  BY <1>1, <1>2 DEF Seen
<1>5. ASSUME NEW p \in Words, p < base + 1
      PROVE  LabelsFor(p)' \subseteq labels'
  <2>1. LabelsFor(p)' = LabelsFor(p)
    BY <1>2 DEF LabelsFor
  <2>2. CASE p < base
    BY <2>1, <2>2, <1>3, <1>4 DEF TranslationInv
  <2>3. CASE p = base
    BY <2>1, <2>3, <1>3
  <2> QED BY <2>2, <2>3, <1>5, LengthAssumption DEF TranslationInv, Words
<1>6. base' \in 0 .. Length
  BY <1>1, <1>2, LengthAssumption DEF Words
<1>7. DOMAIN out' = {}
  BY <1>1, <1>2 DEF TranslationInv
<1> QED BY <1>1, <1>2, <1>4, <1>5, <1>6, <1>7 DEF TranslationInv, NoTable, Words

LEMMA CollectedStep ==
  ASSUME TranslationInv, LabelsCollected
  PROVE  TranslationInv'
<1>1. phase = "labels" /\ base = Length /\ phase' = "emit" /\ base' = 0
  BY DEF LabelsCollected
<1>2. UNCHANGED <<input, labels, table, csrState, out>>
  BY DEF LabelsCollected
<1>3. Seen = Length /\ Seen' = Length
  BY <1>1 DEF Seen
<1>4. \A p \in Words : LabelsFor(p)' = LabelsFor(p)
  BY <1>2 DEF LabelsFor
<1>5. DOMAIN out' = {} /\ DOMAIN out' = 0 .. (base' - 1)
  BY <1>1, <1>2 DEF TranslationInv
<1> QED BY <1>1, <1>2, <1>3, <1>4, <1>5, LengthAssumption DEF TranslationInv, NoTable, Words

\* The statement of the word under the cursor goes only to labels.
LEMMA ControlRight ==
  ASSUME TranslationInv, EmitWord
  PROVE  /\ Word.op \in BoundedBranches =>
              \A t \in Control.gotos : t \in labels /\ t \in Int /\ Inside(t)
         /\ Word.op \notin Goto => Control.gotos = {}
<1>1. phase = "emit" /\ base \in Words /\ Seen = Length
  BY LengthAssumption DEF EmitWord, TranslationInv, Words, Seen
<1>2. Word.t \in Int
  BY <1>1, InputsAssumption DEF TranslationInv, Word
<1>3. \A p \in Words : LabelsFor(p) \subseteq labels
  BY <1>1, LengthAssumption DEF TranslationInv, Words
<1>4. CASE Word.op \in {"b", "bc"}
  <2>1. Word.t \in labels
    BY <1>1, <1>3, <1>4 DEF LabelsFor, Word
  <2>2. Control.gotos = IF Inside(Word.t) THEN {Word.t} ELSE {}
    BY <1>4 DEF Control, Branch, ConditionalBranch
  <2> QED BY <1>2, <1>4, <2>1, <2>2 DEF Goto, BoundedBranches
<1>5. CASE Word.op = "bctr" /\ Pending # NoTable
  <2>1. Pending \in Words /\ Pending \in DOMAIN input.tables
    BY <1>1, <1>5 DEF Pending, TranslationInv
  <2>2. input.tables[Pending] \subseteq labels
    BY <2>1, <1>3 DEF LabelsFor
  <2>3. input.tables[Pending] \subseteq Int
    BY <2>1, InputsAssumption DEF TranslationInv
  <2>4. Control.gotos = {l \in input.tables[Pending] : Inside(l)}
    BY <1>5 DEF Control, Switch
  <2> QED BY <1>5, <2>2, <2>3, <2>4 DEF Goto, BoundedBranches
<1>6. CASE Word.op = "bctr" /\ Pending = NoTable
  BY <1>6 DEF Control, Leaves, Goto, BoundedBranches
<1>7. CASE Word.op \notin {"b", "bc", "bctr", "bdz"}
  BY <1>7 DEF Control, Leaves, Falls, Goto, BoundedBranches
<1>8. CASE Word.op = "bdz"
  BY <1>8 DEF Goto, BoundedBranches
<1> QED BY <1>4, <1>5, <1>6, <1>7, <1>8

\* What a step of the second pass appends.
LEMMA EmittedWord ==
  ASSUME TranslationInv, EmitWord
  PROVE  /\ base \in Words
         /\ DOMAIN out = 0 .. (base - 1) /\ DOMAIN out' = 0 .. base
         /\ \A p \in 0 .. (base - 1) : out'[p] = out[p]
         /\ out'[base].label <=> base \in labels
         /\ out'[base].flush = IF Word.op \in {"fpu", "vmx"} THEN FlushFor(Mode) ELSE "none"
         /\ out'[base].control = Control
<1>1. base \in Words /\ base \in Int
  BY LengthAssumption DEF EmitWord, TranslationInv, Words
<1>2. DOMAIN out = 0 .. (base - 1)
  BY DEF EmitWord, TranslationInv
<1>3. DOMAIN out' = 0 .. base
  BY DEF EmitWord
<1>4. \A p \in 0 .. (base - 1) : out'[p] = out[p]
  BY <1>1 DEF EmitWord
<1>5. out'[base] = [label   |-> base \in labels,
                    flush   |-> IF Word.op \in {"fpu", "vmx"} THEN FlushFor(Mode) ELSE "none",
                    control |-> Control]
  BY <1>1 DEF EmitWord, Words
<1>6. /\ out'[base].label = (base \in labels)
      /\ out'[base].flush = IF Word.op \in {"fpu", "vmx"} THEN FlushFor(Mode) ELSE "none"
      /\ out'[base].control = Control
  <2> DEFINE l == base \in labels
             f == IF Word.op \in {"fpu", "vmx"} THEN FlushFor(Mode) ELSE "none"
             c == Control
  <2>1. out'[base] = [label |-> l, flush |-> f, control |-> c]
    BY <1>5, Zenon
  <2> HIDE DEF l, f, c
  <2>2. out'[base].label = l /\ out'[base].flush = f /\ out'[base].control = c
    BY <2>1
  <2> QED BY <2>2, Zenon DEF l, f, c
<1>7. out'[base].label <=> base \in labels
  BY <1>6, Zenon
<1> QED BY <1>1, <1>2, <1>3, <1>4, <1>6, <1>7, Zenon

LEMMA EmitStep ==
  ASSUME TranslationInv, EmitWord
  PROVE  TranslationInv'
<1>1. base < Length /\ phase = "emit" /\ base' = base + 1 /\ UNCHANGED <<input, phase, labels>>
  BY DEF EmitWord
<1>2. base \in Words
  BY EmittedWord
<1>3. Seen = Length /\ Seen' = Length
  BY <1>1 DEF Seen
<1>4. \A p \in Words : LabelsFor(p)' = LabelsFor(p)
  BY <1>1 DEF LabelsFor
<1>5. table' = NoTable \/ (table' \in Words /\ table' \in DOMAIN input.tables)
  BY <1>2 DEF EmitWord, Consumed, Pending, TranslationInv
<1>6. ASSUME NEW p \in DOMAIN out'
      PROVE  (out'[p].label <=> p \in labels') /\ GotosRight(p)'
  <2>1. p \in 0 .. base
    BY EmittedWord
  <2>2. CASE p \in 0 .. (base - 1)
    <3>1. out'[p] = out[p] /\ p \in DOMAIN out
      BY <2>2, EmittedWord
    <3>2. (out[p].label <=> p \in labels) /\ GotosRight(p)
      BY <3>1 DEF TranslationInv
    <3> QED BY <1>1, <3>1, <3>2 DEF GotosRight, Inside
  <2>3. CASE p = base
    <3>1. out'[p].control = Control /\ (out'[p].label <=> p \in labels)
      BY <2>3, EmittedWord
    <3>2. input'.words[p].op = Word.op
      BY <2>3, <1>1 DEF Word
    <3> QED BY <1>1, <3>1, <3>2, ControlRight DEF GotosRight, Inside
  <2> QED BY <2>1, <2>2, <2>3, <1>2 DEF Words
<1>7. DOMAIN out' = 0 .. (base' - 1)
  BY <1>1, <1>2, EmittedWord DEF Words
<1>8. base' \in 0 .. Length
  BY <1>1, <1>2, LengthAssumption DEF Words
<1> QED BY <1>1, <1>3, <1>4, <1>5, <1>6, <1>7, <1>8 DEF TranslationInv, Words

\* Steps that leave the translator alone.
LEMMA TranslationKept ==
  ASSUME TranslationInv, UNCHANGED vars
  PROVE  TranslationInv'
BY DEF TranslationInv, vars, Seen, LabelsFor, GotosRight, Inside

LEMMA EmittedStep ==
  ASSUME TranslationInv, Emitted
  PROVE  TranslationInv'
<1>1. phase = "emit" /\ base = Length /\ phase' = "compiled"
  BY DEF Emitted
<1>2. UNCHANGED <<input, base, labels, table, csrState, out>>
  BY DEF Emitted
<1>3. Seen' = Seen
  BY <1>1 DEF Seen
<1> QED BY <1>1, <1>2, <1>3 DEF TranslationInv, LabelsFor, GotosRight, Inside

LEMMA TranslationStep == TranslationInv /\ [Next]_allVars => TranslationInv'
<1> SUFFICES ASSUME TranslationInv, [Next]_allVars PROVE TranslationInv'
  OBVIOUS
<1>1. CASE TranslateFunction
  BY <1>1, CollectStep, CollectedStep, EmitStep, EmittedStep DEF TranslateFunction, Translate
<1>2. CASE UNCHANGED vars
  BY <1>2, TranslationKept
<1> QED
  BY <1>1, <1>2
  DEF Next, HookDiverts, RunStatement, Call, LongJump, Finished, allVars

\* Every goto that a bounded branch, a switch or a hook emits has its label.
THEOREM GotosLabelled == Spec => []GotosHaveLabels
<1>1. TranslationInv => GotosHaveLabels
  <2> SUFFICES ASSUME TranslationInv, phase = "compiled", WellConfigured
               PROVE  GotosOf(BoundedBranches) \cup HookGotos \subseteq LabelsOf
    BY DEF GotosHaveLabels
  <2>1. DOMAIN out = Words /\ Seen = Length
    BY DEF TranslationInv, Words, Seen
  <2>2. LabelsOf = {p \in Words : p \in labels}
    BY <2>1 DEF LabelsOf, TranslationInv
  <2>3. ASSUME NEW t \in GotosOf(BoundedBranches)
        PROVE  t \in LabelsOf
    <3>1. PICK p \in DOMAIN out : input.words[p].op \in BoundedBranches /\ t \in out[p].control.gotos
      BY DEF GotosOf
    <3>2. t \in labels /\ t \in Int /\ Inside(t)
      BY <3>1 DEF TranslationInv, GotosRight
    <3>3. t \in Words
      BY <3>2, LengthAssumption DEF Inside, WellConfigured, Words
    <3> QED BY <2>2, <3>2, <3>3
  <2>4. ASSUME NEW t \in HookGotos
        PROVE  t \in LabelsOf
    <3>1. PICK p \in DOMAIN input.hooks : t \in input.hooks[p].gotos
      BY DEF HookGotos
    <3>2. p \in Words
      BY InputsAssumption DEF TranslationInv
    <3>3. t \in LabelsFor(p) /\ p < Seen
      BY <3>1, <3>2, <2>1, LengthAssumption DEF LabelsFor, Words
    <3>4. t \in labels /\ t \in Words
      BY <3>2, <3>3 DEF TranslationInv, WellConfigured
    <3> QED BY <2>2, <3>4
  <2> QED BY <2>3, <2>4
<1>2. Spec => []TranslationInv
  BY TranslationStart, TranslationStep, PTL DEF Spec, RunInit
<1> QED BY <1>1, <1>2, PTL

----------------------------------------------------------------------------

LEMMA FlowStart == RunInit => FlowInv
<1> SUFFICES ASSUME RunInit PROVE FlowInv
  OBVIOUS
<1> DEFINE st == [p \in 0 .. Length |-> "Unknown"]
<1>1. st \in [0 .. Length -> States] /\ st[0] = "Unknown"
  BY LengthAssumption DEF States
<1>2. Assumed(st)
  BY <1>1 DEF RunInit, Init, Assumed
<1>3. HostRight(st)
  <2>1. csr = host /\ env.csr = env.host
    BY DEF RunInit
  <2>2. at = 0 /\ armed = Length /\ labels = {}
    BY DEF RunInit, Init
  <2>3. Before(st, 0) = "Unknown"
    BY <1>1, <2>2 DEF Before
  <2> QED BY <2>1, <2>2, <2>3, LengthAssumption DEF HostRight, Suits
<1> QED BY <1>1, <1>2, <1>3 DEF FlowInv

\* The translator changes what it assumes only ahead of the cursor, and nothing runs yet.
LEMMA TranslateFlow ==
  ASSUME TranslationInv, FlowInv, TranslateFunction
  PROVE  FlowInv'
<1>1. PICK st \in [0 .. Length -> States] : Assumed(st) /\ HostRight(st)
  BY DEF FlowInv
<1>2. phase # "compiled" /\ at = 0 /\ UNCHANGED <<input, at, host, csr, armed, env>>
  BY <1>1 DEF TranslateFunction, Translate, CollectLabels, LabelsCollected, EmitWord, Emitted,
              runVars, HostRight
<1>3. ASSUME NEW s, s[0] = "Unknown"
      PROVE  HostRight(s)'
  <2>1. Before(s, 0)' = "Unknown"
    BY <1>3 DEF Before
  <2>2. at' < Length => Suits(host', Before(s, at)')
    BY <1>2, <2>1 DEF Suits, Before
  <2>3. csr' = host' /\ env'.csr = env'.host
    BY <1>1, <1>2 DEF HostRight
  <2> QED BY <1>1, <1>2, <2>2, <2>3 DEF HostRight
<1>4. CASE CollectLabels
  <2>1. Assumed(st)'
    BY <1>1, <1>4 DEF Assumed, CollectLabels, TranslationInv
  <2> QED BY <1>1, <1>3, <2>1 DEF FlowInv, Assumed
<1>5. CASE LabelsCollected
  <2>1. Assumed(st)'
    BY <1>1, <1>5 DEF Assumed, LabelsCollected, TranslationInv
  <2> QED BY <1>1, <1>3, <2>1 DEF FlowInv, Assumed
<1>6. CASE EmitWord
  <2>1. base \in Words /\ base + 1 \in 0 .. Length /\ phase' = "emit" /\ phase = "emit" /\ base' = base + 1
    BY <1>6, EmittedWord, LengthAssumption DEF EmitWord, Words
  <2>2. st[base] = csrState /\ csrState \in States
    BY <1>1, <2>1, LengthAssumption DEF Assumed, TranslationInv
  <2>3. StateAtLabel = Before(st, base)
    BY <2>2 DEF StateAtLabel, Before
  <2>4. csrState' = StateAfter /\ csrState' \in States
    BY <1>6, <2>2 DEF EmitWord, StateAfter, StateAtLabel, Mode, States
  <2>5. PICK s \in [0 .. Length -> States] : s = [st EXCEPT ![base + 1] = csrState']
    BY <2>1, <2>4
  <2>6. s[base + 1] = csrState' /\ \A p \in 0 .. base : s[p] = st[p]
    BY <2>1, <2>5, LengthAssumption DEF Words
  <2>7. ASSUME NEW p \in DOMAIN out' PROVE Follows(s, p)'
    <3>1. p \in 0 .. base /\ UNCHANGED <<labels, input>>
      BY <1>6, EmittedWord DEF EmitWord
    <3>2. Before(s, p)' = Before(st, p)
      BY <2>6, <3>1 DEF Before
    <3>3. CASE p = base
      <4>1. out'[p].flush = IF Word.op \in {"fpu", "vmx"} THEN FlushFor(Mode) ELSE "none"
        BY <1>6, <3>3, EmittedWord
      <4>2. input'.words[p].op = Word.op /\ ModeOf(p)' = Mode
        BY <3>1, <3>3 DEF Word, Mode, ModeOf
      <4>3. s[p + 1] = StateAfter
        BY <2>4, <2>6, <3>3
      <4> QED BY <2>3, <3>2, <3>3, <4>1, <4>2, <4>3 DEF Follows, StateAfter, FlushFor
    <3>4. CASE p \in 0 .. (base - 1)
      <4>1. out'[p] = out[p] /\ p \in DOMAIN out
        BY <1>6, <3>4, EmittedWord
      <4>2. s[p + 1] = st[p + 1]
        BY <2>1, <2>6, <3>4 DEF Words
      <4>3. Follows(st, p) /\ ModeOf(p)' = ModeOf(p)
        BY <1>1, <3>1, <4>1 DEF Assumed, ModeOf
      <4> QED BY <3>1, <3>2, <4>1, <4>2, <4>3 DEF Follows
    <3> QED BY <2>1, <3>1, <3>3, <3>4 DEF Words
  <2>8. s[0] = "Unknown"
    BY <1>1, <2>1, <2>6 DEF Assumed, Words
  <2>9. Assumed(s)'
    BY <2>1, <2>6, <2>7, <2>8 DEF Assumed
  <2> QED BY <1>3, <2>8, <2>9 DEF FlowInv
<1>7. CASE Emitted
  <2>1. UNCHANGED <<input, base, labels, csrState, out>> /\ phase = "emit" /\ phase' = "compiled"
    BY <1>7 DEF Emitted
  <2>2. Assumed(st)'
    BY <1>1, <2>1 DEF Assumed, Follows, Before, ModeOf
  <2> QED BY <1>1, <1>3, <2>2 DEF FlowInv, Assumed
<1> QED BY <1>4, <1>5, <1>6, <1>7 DEF TranslateFunction, Translate

----------------------------------------------------------------------------

\* Code that compiles jumps, out of statements and hooks, to labels within the function.
LEMMA Targets ==
  ASSUME TranslationInv, Running, NEW p \in Words
  PROVE  /\ \A t \in out[p].control.gotos : t \in labels /\ t \in Words
         /\ \A t \in HookAt(p).gotos : t \in labels /\ t \in Words
<1>1. DOMAIN out = Words
  BY DEF Running, TranslationInv, Words
<1>2. \A t \in LabelsOf : t \in labels /\ t \in Words
  BY <1>1 DEF LabelsOf, TranslationInv
<1>3. GotosOf(Goto) \subseteq LabelsOf /\ HookGotos \subseteq LabelsOf
  BY DEF Running, Compiles, Goto
<1>4. \A t \in out[p].control.gotos : t \in labels /\ t \in Words
  <2>1. CASE input.words[p].op \in Goto
    BY <1>1, <1>2, <1>3, <2>1 DEF GotosOf
  <2>2. CASE input.words[p].op \notin Goto
    BY <1>1, <2>2 DEF TranslationInv, GotosRight
  <2> QED BY <2>1, <2>2
<1>5. \A t \in HookAt(p).gotos : t \in labels /\ t \in Words
  BY <1>2, <1>3 DEF HookAt, NoHook, HookGotos
<1> QED BY <1>4, <1>5

\* Where control may go from p: to a label, out, or to the next word.
Successors(p) == {t \in labels : t \in Words} \cup {Length, p + 1}

LEMMA AfterOnward ==
  ASSUME TranslationInv, Running, NEW p \in Words
  PROVE  After(p) \subseteq Successors(p)
BY Targets DEF After, Continue, Successors

\* A host that suits the state after p suits whatever follows p.
LEMMA Arrives ==
  ASSUME NEW st, NEW h, NEW p \in Words, NEW t \in Successors(p), Suits(h, st[p + 1])
  PROVE  t \in 0 .. Length /\ (t < Length => Suits(h, Before(st, t)))
<1>1. t \in 0 .. Length
  BY LengthAssumption DEF Successors, Words
<1>2. CASE t \in labels
  BY <1>1, <1>2 DEF Suits, Before
<1>3. CASE t = Length
  BY <1>1, <1>3, LengthAssumption
<1>4. CASE t = p + 1 /\ t \notin labels
  <2>1. Before(st, t) = st[p + 1]
    BY <1>4 DEF Before
  <2> QED BY <1>1, <2>1
<1> QED BY <1>2, <1>3, <1>4 DEF Successors

\* The mode a statement leaves behind.
LEMMA FlushResult ==
  ASSUME csr = host, Statement.flush # "none" => input.words[at].op \in {"fpu", "vmx"}
  PROVE  /\ FlushMode.csr = FlushMode.host
         /\ Statement.flush \in {"test", "set"} => FlushMode.host = (input.words[at].op = "vmx")
         /\ Statement.flush = "none" => FlushMode.host = host
<1> DEFINE w == input.words[at].op = "vmx"
           kept == [host |-> host, csr |-> csr]
<1>1. FlushMode =
        CASE Statement.flush = "set"             -> [host |-> w, csr |-> w]
          [] Statement.flush = "test" /\ csr # w -> [host |-> w, csr |-> w]
          [] input.words[at].op = "mtfsf"        -> [kept EXCEPT !.host = csr]
          [] input.words[at].op = "mffs"         -> [kept EXCEPT !.csr = host]
          [] OTHER                               -> kept
  BY Zenon DEF FlushMode
<1> HIDE DEF w
<1>2. [kept EXCEPT !.host = csr] = kept /\ [kept EXCEPT !.csr = host] = kept
  OBVIOUS
<1>3. kept.host = host /\ kept.csr = host
  OBVIOUS
<1>4. [host |-> w, csr |-> w].host = w /\ [host |-> w, csr |-> w].csr = w
  OBVIOUS
<1> HIDE DEF kept
<1>5. CASE Statement.flush = "set" \/ (Statement.flush = "test" /\ csr # w)
  <2>1. input.words[at].op \notin {"mtfsf", "mffs"}
    BY <1>5
  <2>2. FlushMode = [host |-> w, csr |-> w]
    BY <1>1, <1>5, <2>1
  <2>3. FlushMode.host = w /\ FlushMode.csr = w
    BY <2>2, <1>4, Zenon
  <2> QED BY <1>5, <2>3 DEF w
<1>6. CASE ~(Statement.flush = "set" \/ (Statement.flush = "test" /\ csr # w))
  <2>1. FlushMode = kept
    BY <1>1, <1>2, <1>6
  <2>2. FlushMode.host = host /\ FlushMode.csr = host
    BY <2>1, <1>3, Zenon
  <2>3. Statement.flush = "test" => host = w
    BY <1>6
  <2> QED BY <1>6, <2>2, <2>3 DEF w
<1> QED BY <1>5, <1>6

\* The statement at `at' runs in its mode and leaves one that suits what was assumed behind it.
LEMMA StatementRuns ==
  ASSUME TranslationInv, NEW st \in [0 .. Length -> States], Assumed(st), HostRight(st), Running
  PROVE  /\ input.words[at].op \in {"fpu", "vmx"} => FlushMode.host = (input.words[at].op = "vmx")
         /\ Suits(FlushMode.host, st[at + 1])
<1>1. at \in Words /\ at \in DOMAIN out
  BY LengthAssumption DEF Running, HostRight, TranslationInv, Words
<1>2. Follows(st, at) /\ Suits(host, Before(st, at)) /\ csr = host
  BY <1>1 DEF Assumed, HostRight, Running
<1>3. CASE input.words[at].op \in {"fpu", "vmx"}
  <2>1. (ModeOf(at) = "VMX") = (input.words[at].op = "vmx") /\ ModeOf(at) # "Unknown"
    BY <1>3 DEF ModeOf
  <2>2. FlushMode.host = (input.words[at].op = "vmx")
    <3>1. CASE Before(st, at) = ModeOf(at)
      <4>1. host = (ModeOf(at) = "VMX")
        BY <1>2, <2>1, <3>1, Zenon DEF Suits
      <4>2. Statement.flush = "none"
        BY <1>2, <1>3, <3>1 DEF Follows, Statement
      <4>3. FlushMode.host = host
        BY <1>2, <4>2, FlushResult, Zenon
      <4> QED BY <2>1, <4>1, <4>3, Zenon
    <3>2. CASE Before(st, at) # ModeOf(at)
      <4>1. Statement.flush \in {"test", "set"}
        BY <1>2, <1>3, <3>2 DEF Follows, Statement
      <4> QED BY <1>2, <1>3, <4>1, FlushResult, Zenon
    <3> QED BY <3>1, <3>2, Zenon
  <2>3. st[at + 1] = ModeOf(at)
    BY <1>2, <1>3 DEF Follows
  <2> QED BY <2>1, <2>2, <2>3, Zenon DEF Suits
<1>4. CASE input.words[at].op \notin {"fpu", "vmx"}
  <2>1. Statement.flush = "none" /\ st[at + 1] \in {"Unknown", Before(st, at)}
    BY <1>2, <1>4 DEF Follows, Statement
  <2>2. FlushMode.host = host
    BY <1>2, <2>1, FlushResult, Zenon
  <2> QED BY <1>2, <1>4, <2>1, <2>2, Zenon DEF Suits
<1> QED BY <1>3, <1>4

LEMMA RunFlow ==
  ASSUME TranslationInv, FlowInv, HookDiverts \/ RunStatement \/ Call \/ LongJump
  PROVE  FlowInv'
<1>1. PICK st \in [0 .. Length -> States] : Assumed(st) /\ HostRight(st)
  BY DEF FlowInv
<1>2. Running /\ UNCHANGED vars
  BY DEF HookDiverts, RunStatement, Call, LongJump, Reached
<1>3. at \in Words /\ phase' = "compiled" /\ at \in DOMAIN out
  BY <1>1, <1>2, LengthAssumption DEF Running, HostRight, Words, vars, TranslationInv
<1>4. Assumed(st)'
  BY <1>1, <1>2 DEF vars, Assumed, Follows, Before, ModeOf
<1>5. \A t : Before(st, t)' = Before(st, t)
  BY <1>2 DEF vars, Before
<1>6. Follows(st, at)
  BY <1>1, <1>3 DEF Assumed
<1>7. SUFFICES HostRight(st)'
  BY <1>1, <1>4 DEF FlowInv
<1>8. CASE HookDiverts
  <2>1. at' \in {t \in labels : t \in Words} \cup {Length}
    BY <1>2, <1>3, <1>8, Targets DEF HookDiverts, Continue
  <2>2. UNCHANGED <<host, csr, armed, env, input>>
    BY <1>8 DEF HookDiverts, vars
  <2>3. at' \in 0 .. Length /\ (at' < Length => Before(st, at') = "Unknown")
    BY <2>1, LengthAssumption DEF Words, Before
  <2>4. at' < Length => Suits(host', Before(st, at)')
    BY <1>5, <2>3 DEF Suits, Before
  <2>5. csr' = host' /\ env'.csr = env'.host
    BY <1>1, <2>2 DEF HostRight
  <2> QED BY <1>1, <1>3, <2>2, <2>3, <2>4, <2>5 DEF HostRight
<1>9. CASE RunStatement
  <2>1. at' \in Continue(Statement.control, After(at)) /\ host' = FlushMode.host /\ csr' = FlushMode.csr
    BY <1>9 DEF RunStatement
  <2>2. at' \in Successors(at)
    BY <1>2, <1>3, <2>1, Targets, AfterOnward DEF Continue, Statement, Successors
  <2>3. Suits(host', st[at + 1])
    BY <1>1, <1>2, <2>1, StatementRuns, Zenon
  <2>4. at' \in 0 .. Length /\ (at' < Length => Suits(host', Before(st, at')))
    BY <1>3, <2>2, <2>3, Arrives
  <2>5. csr' = host'
    BY <1>1, <1>6, <2>1, FlushResult DEF HostRight, Follows, Statement
  <2>6. CASE input.words[at].op = "setjmp"
    <3>1. armed' = at /\ env' = [host |-> host, csr |-> csr]
      BY <1>9, <2>6 DEF RunStatement
    <3>2. env'.csr = env'.host
      BY <1>1, <3>1 DEF HostRight
    <3> QED BY <1>2, <1>3, <2>4, <2>5, <2>6, <3>1, <3>2 DEF HostRight, vars, Before
  <2>7. CASE input.words[at].op # "setjmp"
    <3>1. UNCHANGED <<armed, env, input>>
      BY <1>2, <1>9, <2>7 DEF RunStatement, vars
    <3>2. env'.csr = env'.host
      BY <1>1, <3>1 DEF HostRight
    <3> QED BY <1>1, <1>2, <1>3, <2>4, <2>5, <3>1, <3>2 DEF HostRight, vars, Before
  <2> QED BY <2>6, <2>7
<1>10. CASE Call
  <2>1. at' \in Successors(at) /\ input.words[at].op = "bl"
    BY <1>2, <1>3, <1>10, AfterOnward DEF Call
  <2>2. Suits(host', st[at + 1])
    BY <1>6, <2>1 DEF Suits, Follows, Calls
  <2>3. at' \in 0 .. Length /\ (at' < Length => Suits(host', Before(st, at')))
    BY <1>3, <2>1, <2>2, Arrives
  <2>4. csr' = host' /\ env' = env /\ armed' = armed /\ input' = input
    BY <1>2, <1>10 DEF Call, vars
  <2>5. env'.csr = env'.host
    BY <1>1, <2>4 DEF HostRight
  <2> QED BY <1>1, <1>2, <1>3, <2>3, <2>4, <2>5 DEF HostRight, vars, Before
<1>11. CASE LongJump
  <2>1. armed \in Words /\ input.words[armed].op = "setjmp" /\ armed \in DOMAIN out
    BY <1>1, <1>2, <1>11 DEF LongJump, HostRight, Running, TranslationInv, Words
  <2>2. at' \in Successors(armed)
    BY <1>2, <1>11, <2>1, AfterOnward DEF LongJump
  <2>3. Suits(host', st[armed + 1])
    BY <1>1, <2>1 DEF Suits, Assumed, Follows, Calls
  <2>4. at' \in 0 .. Length /\ (at' < Length => Suits(host', Before(st, at')))
    BY <2>1, <2>2, <2>3, Arrives
  <2>5. host' = env.host /\ csr' = env.csr /\ UNCHANGED <<armed, env, input>>
    BY <1>2, <1>11 DEF LongJump, vars
  <2>6. csr' = host' /\ env'.csr = env'.host
    BY <1>1, <2>5 DEF HostRight
  <2> QED BY <1>1, <1>2, <1>3, <2>4, <2>5, <2>6 DEF HostRight, vars, Before
<1> QED BY <1>8, <1>9, <1>10, <1>11

LEMMA FlowStep == TranslationInv /\ FlowInv /\ [Next]_allVars => FlowInv'
<1> SUFFICES ASSUME TranslationInv, FlowInv, [Next]_allVars PROVE FlowInv'
  OBVIOUS
<1>1. CASE TranslateFunction
  BY <1>1, TranslateFlow
<1>2. CASE HookDiverts \/ RunStatement \/ Call \/ LongJump
  BY <1>2, RunFlow
<1>3. CASE UNCHANGED allVars
  <2>1. PICK st \in [0 .. Length -> States] : Assumed(st) /\ HostRight(st)
    BY DEF FlowInv
  <2>2. Assumed(st)'
    BY <1>3, <2>1 DEF allVars, vars, Assumed, Follows, Before, ModeOf
  <2>3. HostRight(st)'
    <3>1. UNCHANGED <<input, phase, labels, at, host, csr, armed, env>>
      BY <1>3 DEF allVars, vars, runVars
    <3>2. csr' = host' /\ env'.csr = env'.host
      BY <2>1, <3>1 DEF HostRight
    <3>3. at' < Length => Suits(host', Before(st, at)')
      BY <2>1, <3>1 DEF HostRight, Before
    <3> QED BY <2>1, <3>1, <3>2, <3>3 DEF HostRight
  <2> QED BY <2>1, <2>2, <2>3 DEF FlowInv
<1> QED BY <1>1, <1>2, <1>3 DEF Next, Finished

\* Every floating point instruction runs in its own flush mode, in whatever order
\* labels, calls, longjmps and hooks lead to it.
THEOREM ModesRight == Spec => FlushModeRight
<1> DEFINE Right == RunStatement /\ input.words[at].op \in {"fpu", "vmx"} =>
                      host' = (input.words[at].op = "vmx")
<1>1. ASSUME TranslationInv, FlowInv
      PROVE  Right
  <2> SUFFICES ASSUME RunStatement, input.words[at].op \in {"fpu", "vmx"}
               PROVE  host' = (input.words[at].op = "vmx")
    OBVIOUS
  <2>1. PICK st \in [0 .. Length -> States] : Assumed(st) /\ HostRight(st)
    BY <1>1 DEF FlowInv
  <2>2. Running /\ host' = FlushMode.host
    BY DEF RunStatement, Reached
  <2> QED BY <1>1, <2>1, <2>2, StatementRuns, Zenon
<1>2. Spec => [][Right]_allVars
  BY <1>1, TranslationStart, TranslationStep, FlowStart, FlowStep, PTL DEF Spec, RunInit
<1> QED BY <1>2 DEF FlushModeRight

----------------------------------------------------------------------------
(* The refinement of GuestFlow. *)

\* The tables that begin before n and whose bctr does not.
Open(n) ==
  {b \in DOMAIN input.tables : b < n /\ \A q \in b .. (n - 1) : input.words[q].op # "bctr"}

TableInv ==
  phase = "emit" =>
    /\ table # NoTable => table \in Open(base)
    /\ table = NoTable => Open(base) = {}

\* Where the word at p may jump.
Destinations(p) ==
  IF input.words[p].op \in {"b", "bc", "bdz"} THEN {input.words[p].t}
  ELSE IF input.words[p].op = "bctr" THEN UNION {input.tables[b] : b \in Guest!TablesOf(p)}
  ELSE {}

LeavesAt(p) ==
  \/ input.words[p].op \in {"blr", "condlr"}
  \/ input.words[p].op = "bctr" /\ Guest!TablesOf(p) = {}
  \/ input.words[p].op \in BoundedBranches /\ \E t \in Destinations(p) : ~Inside(t)

ControlAt(c, p) ==
  /\ c.gotos \subseteq Destinations(p)
  /\ c.leaves => LeavesAt(p)
  /\ c.falls => Guest!FallsThrough(p)

ControlInv == \A p \in DOMAIN out : ControlAt(out[p].control, p)

----------------------------------------------------------------------------

\* The table held at a word, with the one that begins there, is the one the guest uses.
LEMMA PendingTable ==
  ASSUME TranslationInv, TableInv, EmitWord
  PROVE  /\ Pending # NoTable => Guest!TablesOf(base) = {Pending}
         /\ Pending = NoTable => Guest!TablesOf(base) = {}
<1>1. base \in Words /\ phase = "emit" /\ input \in Inputs
  BY EmittedWord DEF EmitWord, TranslationInv
<1>2. DOMAIN input.tables \subseteq Words
  BY <1>1, InputsAssumption
<1>3. \A b, c \in DOMAIN input.tables : b < c => \E q \in b .. (c - 1) : input.words[q].op = "bctr"
  BY <1>1, InputsAssumption
<1>4. Guest!TablesOf(base) = Open(base) \cup {b \in DOMAIN input.tables : b = base}
  <2>1. \A b \in DOMAIN input.tables : b <= base <=> b < base \/ b = base
    BY <1>1, <1>2 DEF Words
  <2>2. \A q : q \notin base .. (base - 1)
    BY <1>1 DEF Words
  <2> QED BY <2>1, <2>2 DEF Guest!TablesOf, Open
<1>5. \A b, c \in Guest!TablesOf(base) : b = c
  <2> SUFFICES ASSUME NEW b \in Guest!TablesOf(base), NEW c \in Guest!TablesOf(base), b < c
               PROVE  FALSE
    BY <1>2 DEF Guest!TablesOf, Words
  <2>1. PICK q \in b .. (c - 1) : input.words[q].op = "bctr"
    BY <1>3 DEF Guest!TablesOf
  <2>2. q \in b .. (base - 1)
    BY <2>1, <1>1, <1>2 DEF Guest!TablesOf, Words
  <2> QED BY <2>1, <2>2 DEF Guest!TablesOf
<1>6. CASE table # NoTable
  <2>1. Pending = table /\ Pending \in Guest!TablesOf(base)
    BY <1>1, <1>4, <1>6 DEF TableInv, Pending
  <2> QED BY <1>5, <1>6, <2>1
<1>7. CASE table = NoTable
  <2>1. Open(base) = {}
    BY <1>1, <1>7 DEF TableInv
  <2>2. Pending = IF base \in DOMAIN input.tables THEN base ELSE NoTable
    BY <1>7 DEF Pending
  <2>3. base # NoTable
    BY <1>1 DEF Words, NoTable
  <2> QED BY <1>4, <2>1, <2>2, <2>3
<1> QED BY <1>6, <1>7

LEMMA TableStep == TranslationInv /\ TableInv /\ [Next]_allVars => TableInv'
<1> SUFFICES ASSUME TranslationInv, TableInv, [Next]_allVars PROVE TableInv'
  OBVIOUS
<1>1. CASE CollectLabels
  BY <1>1 DEF CollectLabels, TableInv
<1>2. CASE LabelsCollected
  <2>1. table' = NoTable /\ base' = 0 /\ input' = input /\ input \in Inputs
    BY <1>2 DEF LabelsCollected, TranslationInv
  <2>2. Open(base)' = {}
    BY <2>1, InputsAssumption DEF Open, Words
  <2> QED BY <2>1, <2>2 DEF TableInv
<1>3. CASE EmitWord
  <2>1. base \in Words /\ base' = base + 1 /\ input' = input /\ input \in Inputs
    BY <1>3, EmittedWord DEF EmitWord, TranslationInv
  <2>2. \A b \in DOMAIN input.tables : b \in Words
    BY <2>1, InputsAssumption
  <2>3. Open(base)' = {b \in Guest!TablesOf(base) : Word.op # "bctr"}
    <3>1. \A b \in Words : b < base' <=> b <= base
      BY <2>1 DEF Words
    <3>2. \A b \in Words : b <= base => b .. (base' - 1) = (b .. (base - 1)) \cup {base}
      BY <2>1 DEF Words
    <3>3. ASSUME NEW b \in DOMAIN input.tables, b <= base
          PROVE  (\A q \in b .. (base' - 1) : input.words[q].op # "bctr")
                   <=> (\A q \in b .. (base - 1) : input.words[q].op # "bctr") /\ Word.op # "bctr"
      BY <2>2, <3>2, <3>3 DEF Word
    <3>4. \A b : b \in Open(base)' <=>
                  b \in DOMAIN input.tables /\ b < base' /\ \A q \in b .. (base' - 1) : input.words[q].op # "bctr"
      BY <2>1 DEF Open
    <3>5. \A b : b \in Open(base)' <=> b \in Guest!TablesOf(base) /\ Word.op # "bctr"
      BY <2>2, <3>1, <3>3, <3>4 DEF Guest!TablesOf
    <3> QED BY <3>5
  <2>4. table' = IF Word.op = "bctr" THEN NoTable ELSE Pending
    BY <1>3 DEF EmitWord, Consumed
  <2>5. /\ Pending # NoTable => Guest!TablesOf(base) = {Pending}
        /\ Pending = NoTable => Guest!TablesOf(base) = {}
    BY <1>3, PendingTable
  <2> QED BY <2>3, <2>4, <2>5 DEF TableInv
<1>4. CASE Emitted
  BY <1>4 DEF Emitted, TableInv
<1>5. CASE UNCHANGED vars
  BY <1>5 DEF vars, TableInv, Open
<1> QED
  BY <1>1, <1>2, <1>3, <1>4, <1>5
  DEF Next, TranslateFunction, Translate, HookDiverts, RunStatement, Call, LongJump, Finished, allVars

\* The statement of a word leads where the word leads.
LEMMA ControlEmitted ==
  ASSUME TranslationInv, TableInv, EmitWord
  PROVE  ControlAt(Control, base)
<1> USE DEF ControlAt, Destinations, LeavesAt, Guest!FallsThrough
<1>1. Word = input.words[base]
  BY DEF Word
<1>2. CASE Word.op \in {"b", "bc"}
  BY <1>1, <1>2 DEF Control, Branch, ConditionalBranch, BoundedBranches
<1>3. CASE Word.op = "bdz"
  BY <1>1, <1>3 DEF Control, CountedBranch
<1>4. CASE Word.op \in {"blr", "condlr"}
  BY <1>1, <1>4 DEF Control, Leaves, Falls
<1>5. CASE Word.op = "bctr"
  <2>1. CASE Pending # NoTable
    <3>1. Destinations(base) = input.tables[Pending]
      BY <1>1, <1>5, <2>1, PendingTable
    <3>2. Control = Switch(input.tables[Pending])
      BY <1>5, <2>1 DEF Control
    <3> HIDE DEF Destinations
    <3> QED BY <1>1, <1>5, <3>1, <3>2 DEF Switch, BoundedBranches
  <2>2. CASE Pending = NoTable
    <3>1. Control = Leaves
      BY <1>5, <2>2 DEF Control
    <3> QED BY <1>1, <1>5, <2>2, <3>1, PendingTable DEF Leaves
  <2> QED BY <2>1, <2>2
<1>6. CASE Word.op \notin {"b", "bc", "bdz", "blr", "condlr", "bctr"}
  BY <1>1, <1>6 DEF Control, Falls
<1> QED BY <1>2, <1>3, <1>4, <1>5, <1>6

LEMMA ControlStep == TranslationInv /\ TableInv /\ ControlInv /\ [Next]_allVars => ControlInv'
<1> SUFFICES ASSUME TranslationInv, TableInv, ControlInv, [Next]_allVars PROVE ControlInv'
  OBVIOUS
<1>1. CASE EmitWord
  <2> SUFFICES ASSUME NEW p \in DOMAIN out' PROVE ControlAt(out[p].control, p)'
    BY DEF ControlInv
  <2>1. input' = input /\ p \in 0 .. base /\ base \in Words
    BY <1>1, EmittedWord DEF EmitWord
  <2>2. ControlAt(out[p].control, p)' <=> ControlAt(out'[p].control, p)
    BY <2>1 DEF ControlAt, Destinations, LeavesAt, Inside, Guest!FallsThrough, Guest!TablesOf
  <2>3. CASE p = base
    <3>1. out'[p].control = Control
      BY <1>1, <2>3, EmittedWord
    <3> QED BY <1>1, <2>2, <2>3, <3>1, ControlEmitted
  <2>4. CASE p \in 0 .. (base - 1)
    <3>1. out'[p] = out[p] /\ p \in DOMAIN out
      BY <1>1, <2>4, EmittedWord
    <3> QED BY <2>2, <3>1 DEF ControlInv
  <2> QED BY <2>1, <2>3, <2>4 DEF Words
<1>2. CASE UNCHANGED <<input, out>>
  BY <1>2
  DEF ControlInv, ControlAt, Destinations, LeavesAt, Inside, Guest!FallsThrough, Guest!TablesOf
<1> QED
  BY <1>1, <1>2
  DEF Next, TranslateFunction, Translate, CollectLabels, LabelsCollected, Emitted,
      HookDiverts, RunStatement, Call, LongJump, Finished, allVars, vars

----------------------------------------------------------------------------

\* What follows a statement follows the guest's word.
LEMMA AfterWord ==
  ASSUME TranslationInv, Running, NEW p \in Words
  PROVE  After(p) \subseteq Guest!Onward(p)
<1>1. HookAt(p) = Guest!HookAt(p)
  BY DEF HookAt, NoHook, Guest!HookAt, Guest!NoHook
<1>2. \A t \in HookAt(p).gotos : Guest!Place(t) = t
  BY Targets DEF Guest!Place, Words
<1> QED BY <1>1, <1>2 DEF After, Continue, Guest!Onward, Guest!Diverted

\* Control leaves a statement where it leaves the guest's word.
LEMMA StatementWord ==
  ASSUME TranslationInv, ControlInv, Running, at \in Words,
         NEW t \in Continue(Statement.control, After(at))
  PROVE  t \in Guest!Jumps(at) \cup (IF Guest!FallsThrough(at) THEN Guest!Onward(at) ELSE {})
<1>1. at \in DOMAIN out /\ input \in Inputs
  BY DEF Running, TranslationInv, Words
<1>2. ControlAt(Statement.control, at)
  BY <1>1 DEF ControlInv, Statement
<1>3. ASSUME t \in Statement.control.gotos PROVE t \in Guest!Jumps(at)
  <2>1. t \in Destinations(at) /\ t \in Words
    BY <1>2, <1>3, Targets DEF ControlAt, Statement
  <2>2. Guest!Place(t) = t
    BY <2>1 DEF Guest!Place, Words
  <2> QED BY <2>1, <2>2 DEF Destinations, Guest!Jumps
<1>4. ASSUME Statement.control.leaves PROVE Length \in Guest!Jumps(at)
  <2>1. LeavesAt(at)
    BY <1>2, <1>4 DEF ControlAt
  <2>2. \A l : ~Inside(l) => l \notin Words
    BY <1>1, InputsAssumption, LengthAssumption DEF Inside, Words
  <2>3. \A l : ~Inside(l) => Guest!Place(l) = Length
    BY <2>2 DEF Guest!Place, Words
  <2>4. CASE input.words[at].op \in {"blr", "condlr"}
    BY <2>4 DEF Guest!Jumps
  <2>5. CASE input.words[at].op = "bctr" /\ Guest!TablesOf(at) = {}
    BY <2>5 DEF Guest!Jumps
  <2>6. CASE input.words[at].op \in BoundedBranches /\ \E l \in Destinations(at) : ~Inside(l)
    <3>1. PICK l \in Destinations(at) : ~Inside(l)
      BY <2>6
    <3>2. Guest!Place(l) = Length
      BY <2>3, <3>1
    <3> QED BY <2>6, <3>1, <3>2 DEF Destinations, BoundedBranches, Guest!Jumps
  <2> QED BY <2>1, <2>4, <2>5, <2>6 DEF LeavesAt
<1>5. ASSUME Statement.control.falls, t \in After(at)
      PROVE  Guest!FallsThrough(at) /\ t \in Guest!Onward(at)
  BY <1>2, <1>5, AfterWord DEF ControlAt
<1> QED BY <1>3, <1>4, <1>5 DEF Continue

LEMMA GuestStep ==
  ASSUME TranslationInv, FlowInv, ControlInv, [Next]_allVars
  PROVE  [Guest!Divert \/ Guest!Execute \/ Guest!LongJump]_(Guest!flowVars)
<1>1. at \in 0 .. Length /\ (armed # Length => armed \in Words)
  BY DEF FlowInv, HostRight
<1>2. ASSUME Running PROVE at \in Words /\ at # Length
  BY <1>1, <1>2, LengthAssumption DEF Running, Words
<1>3. \A p : HookAt(p) = Guest!HookAt(p)
  BY DEF HookAt, NoHook, Guest!HookAt, Guest!NoHook
<1>4. CASE HookDiverts
  <2>1. Running /\ UNCHANGED <<input, armed>> /\ at' \in Continue(HookAt(at), {}) /\ ~HookAt(at).after
    BY <1>4 DEF HookDiverts, vars
  <2>2. \A t \in HookAt(at).gotos : Guest!Place(t) = t
    BY <1>2, <2>1, Targets DEF Guest!Place, Words
  <2>3. at' \in Guest!Diverted(at)
    BY <1>3, <2>1, <2>2 DEF Continue, Guest!Diverted
  <2> QED BY <1>2, <1>3, <2>1, <2>3 DEF Guest!Divert
<1>5. CASE RunStatement
  <2>1. Reached /\ Running /\ input' = input /\ at' \in Continue(Statement.control, After(at))
    BY <1>5 DEF RunStatement, Reached, vars
  <2>2. armed' = IF input.words[at].op = "setjmp" THEN at ELSE armed
    BY <1>5 DEF RunStatement
  <2>3. Guest!Reaches
    BY <1>2, <1>3, <2>1 DEF Reached, Guest!Reaches
  <2>4. at' \in Guest!Jumps(at) \cup (IF Guest!FallsThrough(at) THEN Guest!Onward(at) ELSE {})
    BY <1>2, <2>1, StatementWord
  <2> QED BY <2>1, <2>2, <2>3, <2>4 DEF Guest!Execute
<1>6. CASE Call
  <2>1. Reached /\ Running /\ UNCHANGED <<input, armed>> /\ at' \in After(at) /\ input.words[at].op = "bl"
    BY <1>6 DEF Call, Reached, vars
  <2>2. Guest!Reaches
    BY <1>2, <1>3, <2>1 DEF Reached, Guest!Reaches
  <2>3. at' \in Guest!Onward(at) /\ Guest!FallsThrough(at)
    BY <1>2, <2>1, AfterWord DEF Guest!FallsThrough
  <2> QED BY <2>1, <2>2, <2>3 DEF Guest!Execute
<1>7. CASE LongJump
  <2>1. /\ Reached /\ Running /\ UNCHANGED <<input, armed>> /\ armed # Length
        /\ at' \in After(armed) /\ input.words[at].op = "bl"
    BY <1>7 DEF LongJump, Reached, vars
  <2>2. Guest!Reaches
    BY <1>2, <1>3, <2>1 DEF Reached, Guest!Reaches
  <2>3. at' \in Guest!Onward(armed)
    BY <1>1, <2>1, AfterWord
  <2> QED BY <2>1, <2>2, <2>3 DEF Guest!LongJump
<1>8. CASE UNCHANGED <<input, at, armed>>
  BY <1>8 DEF Guest!flowVars
<1> QED
  BY <1>4, <1>5, <1>6, <1>7, <1>8
  DEF Next, TranslateFunction, Translate, CollectLabels, LabelsCollected, EmitWord, Emitted, Finished,
      allVars, vars, runVars

\* The generated code goes only where the guest's code goes, over branches, switches,
\* hooks, calls and longjmps.
THEOREM GuestFollowed == Spec => FollowsGuest
<1>1. RunInit => TableInv /\ ControlInv /\ Guest!FlowInit
  BY DEF RunInit, Init, TableInv, ControlInv, Guest!FlowInit
<1> QED
  BY <1>1, TranslationStart, TranslationStep, FlowStart, FlowStep, TableStep, ControlStep, GuestStep, PTL
  DEF Spec, RunInit, FollowsGuest, Guest!FlowSpec
==============================================================================
