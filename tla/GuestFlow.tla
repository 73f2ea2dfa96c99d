------------------------------ MODULE GuestFlow ------------------------------
(***************************************************************************)
(* The control flow of one guest function, as the console's processor and  *)
(* the configuration define it.  Words are numbered from the function's    *)
(* base; position Length stands for everywhere outside the function.       *)
(***************************************************************************)
EXTENDS Integers, FiniteSets

CONSTANTS
  Length        \* words of the function

VARIABLES
  input,        \* the function: its words, switch tables and mid-asm hooks
  at,           \* the word about to be executed
  armed         \* the setjmp that was last called, or Length

flowVars == <<input, at, armed>>

\* Where a branch to word t goes.
Place(t) == IF t \in 0 .. (Length - 1) THEN t ELSE Length

\* A switch table describes the first bctr at or after its base.
TablesOf(p) ==
  {b \in DOMAIN input.tables : b <= p /\ \A q \in b .. (p - 1) : input.words[q].op # "bctr"}

\* Where the instruction at p may jump, and whether it may go on to the next.
Jumps(p) ==
  LET w == input.words[p] IN
  CASE w.op \in {"b", "bc", "bdz"} -> {Place(w.t)}
    [] w.op \in {"blr", "condlr"}  -> {Length}
    [] w.op = "bctr"               ->
         IF TablesOf(p) = {} THEN {Length}
         ELSE {Place(l) : l \in UNION {input.tables[b] : b \in TablesOf(p)}}
    [] OTHER                       -> {}

FallsThrough(p) == input.words[p].op \notin {"b", "blr", "bctr"}

\* A mid-asm hook runs before or after its instruction, when the instruction
\* falls through; it may jump, return or let the function go on.
NoHook == [after |-> FALSE, falls |-> TRUE, leaves |-> FALSE, gotos |-> {}]

HookAt(p) == IF p \in DOMAIN input.hooks THEN input.hooks[p] ELSE NoHook

Diverted(p) ==
  {Place(t) : t \in HookAt(p).gotos} \cup (IF HookAt(p).leaves THEN {Length} ELSE {})

Onward(p) ==
  IF HookAt(p).after
  THEN Diverted(p) \cup (IF HookAt(p).falls THEN {p + 1} ELSE {})
  ELSE {p + 1}

FlowInit == at = 0 /\ armed = Length

Divert ==
  /\ at # Length
  /\ ~HookAt(at).after
  /\ at' \in Diverted(at)
  /\ UNCHANGED <<input, armed>>

Reaches == at # Length /\ (HookAt(at).after \/ HookAt(at).falls)

Execute ==
  /\ Reaches
  /\ at' \in Jumps(at) \cup (IF FallsThrough(at) THEN Onward(at) ELSE {})
  /\ armed' = IF input.words[at].op = "setjmp" THEN at ELSE armed
  /\ UNCHANGED input

\* A called function jumps back to the setjmp of this one.
LongJump ==
  /\ Reaches
  /\ input.words[at].op = "bl"
  /\ armed # Length
  /\ at' \in Onward(armed)
  /\ UNCHANGED <<input, armed>>

FlowSpec == FlowInit /\ [][Divert \/ Execute \/ LongJump]_flowVars
=============================================================================
