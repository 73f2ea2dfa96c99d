----------------------------- MODULE LocalVariables -----------------------------
(***************************************************************************)
(* The options that keep guest registers in local variables of the         *)
(* generated functions (Recompiler::Recompile).  The helpers of a program  *)
(* are detected (CrtHelpers), and it is run: by the console, whose         *)
(* registers are one set, and as generated code, whose registers are in a  *)
(* context that the functions share or in variables of the running one.    *)
(***************************************************************************)
EXTENDS GuestProgram

CONSTANTS
  Programs      \* what is linked, see Linked, and the options it is recompiled with

ASSUME LocalVariablesAssumption ==
  \A p \in Programs : p.options \subseteq {"skip_lr", "ctr", "cr", "non_argument", "non_volatile"}

VARIABLES
  program,
  phase,        \* "scan", "run" or "done"
  pc, regs, mem,                \* the console
  at, ctx, frames, memory,      \* the generated code
  elided        \* whether the console is in a helper whose call generates nothing

runVars == <<program, phase, pc, regs, mem, at, ctx, frames, memory, elided>>
vars == <<helperVars, runVars>>

----------------------------------------------------------------------------

\* Mutant of Local: the upper vector registers stay in the context.
LocalLower(r) ==
  \/ "non_argument" \in program.options /\ r \in NonArgument
  \/ "non_volatile" \in program.options /\ r \in NonVolatile /\ r[2] < 64
  \/ "cr" \in program.options /\ r = Cr
  \/ "ctr" \in program.options /\ r = Ctr

\* The lambdas r, f, v, cr and ctr: which registers are variables of the function.
Local(r) ==
  \/ "non_argument" \in program.options /\ r \in NonArgument
  \/ "non_volatile" \in program.options /\ r \in NonVolatile
  \/ "cr" \in program.options /\ r = Cr
  \/ "ctr" \in program.options /\ r = Ctr

\* PPCContext, as the macros of the generated configuration header leave it.
VectorInContext == "non_volatile" \notin program.options

InContext(r) ==
  /\ r[1] = "v" => VectorInContext
  /\ r \in NonVolatile => "non_volatile" \notin program.options
  /\ r \in NonArgument => "non_argument" \notin program.options
  /\ r = Lr => "skip_lr" \notin program.options
  /\ r = Ctr => "ctr" \notin program.options
  /\ r = Cr => "cr" \notin program.options

Console(r) == IF r = <<"r", 0>> THEN 0 ELSE regs[r]

Generated(r) ==
  IF r = <<"r", 0>> THEN 0
  ELSE IF Local(r) THEN frames[Len(frames)].locals[r] ELSE ctx[r]

InitialRegisters ==
  [r \in AllRegisters |->
     CASE r = <<"r", 1>> -> Top
       [] r = <<"r", 3>> -> 1
       [] r \in NonVolatile -> 40 + r[2]
       [] OTHER -> 0]

Locals == [r \in AllRegisters |-> 0]

Init ==
  /\ ScanInit
  /\ program \in Programs
  /\ image = Linked(program)
  /\ config = [h \in Helpers |-> IF h \in program.configured THEN TrueAddress(program, h) ELSE 0]
  /\ phase = "scan" /\ elided = "no"
  /\ pc = WordOf(program, "main", 0) /\ at = pc
  /\ regs = InitialRegisters
  /\ ctx = [r \in {r \in AllRegisters : InContext(r)} |-> regs[r]]
  /\ mem = [c \in Cells |-> 0] /\ memory = mem
  /\ frames = <<[back |-> 0, locals |-> Locals]>>

Scan == phase = "scan" /\ ScanNext /\ UNCHANGED runVars

Run ==
  /\ phase = "scan" /\ ~Scanning /\ phase' = "run"
  /\ UNCHANGED <<helperVars, program, pc, regs, mem, at, ctx, frames, memory, elided>>

----------------------------------------------------------------------------

\* Writes of the generated code.
GeneratedWrite(r, n) ==
  IF Local(r)
  THEN /\ frames' = [frames EXCEPT ![Len(frames)].locals[r] = n]
       /\ UNCHANGED ctx
  ELSE /\ ctx' = [ctx EXCEPT ![r] = n]
       /\ UNCHANGED frames

\* What an instruction does, given the registers as one side reads them.
Cell(n) == 8 * ((n % Width) \div 8)
Class(op) ==
  CASE op \in {"ld", "std", "lwz", "stw"} -> "r" [] op \in {"lfd", "stfd"} -> "f" [] OTHER -> "v"
Indexed(op) == op \in {"lvx", "stvx", "lvx128", "stvx128"}

Place(i, Read(_)) ==
  Cell(Read(<<"r", i.ra>>) + (IF Indexed(i.op) THEN Read(<<"r", i.rb>>) ELSE i.d))

Loads == {"ld", "lwz", "lfd", "lvx", "lvx128"}
Stores == {"std", "stw", "stfd", "stvx", "stvx128"}
Moves == {"mr", "add", "addi", "cmpwi", "mtctr", "mflr", "mtlr"}

Written(i) ==
  CASE i.op \in Loads -> <<Class(i.op), i.rt>>
    [] i.op = "addi"  -> <<"r", i.rt>>
    [] i.op = "cmpwi" -> Cr
    [] i.op = "mtctr" -> Ctr
    [] i.op = "mtlr"  -> Lr
    [] OTHER          -> i.rt

Value(i, Read(_), m) ==
  CASE i.op \in Loads -> m[Place(i, Read)]
    [] i.op = "addi"  -> (Read(<<"r", i.ra>>) + i.d) % Width
    [] i.op = "add"   -> (Read(i.rt) + Read(i.from)) % Width
    [] i.op = "cmpwi" -> IF Read(i.from) = i.d THEN 1 ELSE 0
    [] i.op = "mflr"  -> Read(Lr)
    [] OTHER          -> Read(i.from)

\* skip_lr: nothing is generated that reads or sets the link register.
Skipped(i) == i.op \in {"mflr", "mtlr"} /\ "skip_lr" \in program.options

----------------------------------------------------------------------------

\* The generated code takes the step that the console takes, except inside a
\* helper whose call it leaves out.
Together == elided = "no"

Compute(i) ==
  /\ i.op \in Loads \cup Moves
  /\ regs' = [regs EXCEPT ![Written(i)] = Value(i, Console, mem)]
  /\ pc' = pc + 1
  /\ IF Together
       THEN /\ at' = at + 1
            /\ IF Skipped(i) THEN UNCHANGED <<ctx, frames>>
               ELSE GeneratedWrite(Written(i), Value(i, Generated, memory))
       ELSE UNCHANGED <<at, ctx, frames>>
  /\ UNCHANGED <<mem, memory, elided, phase>>

Store(i) ==
  /\ i.op \in Stores
  /\ mem' = [mem EXCEPT ![Place(i, Console)] = Console(<<Class(i.op), i.rt>>)]
  /\ pc' = pc + 1
  /\ IF Together
       THEN /\ memory' = [memory EXCEPT ![Place(i, Generated)] = Generated(<<Class(i.op), i.rt>>)]
            /\ at' = at + 1
       ELSE UNCHANGED <<memory, at>>
  /\ UNCHANGED <<regs, ctx, frames, elided, phase>>

\* Branches within a function.
Branch(i) ==
  /\ i.op = "bne"
  /\ pc' = pc + (IF Console(Cr) = 0 THEN i.by ELSE 1)
  /\ at' = at + (IF Generated(Cr) = 0 THEN i.by ELSE 1)
  /\ UNCHANGED <<regs, mem, ctx, frames, memory, elided, phase>>

BranchCount(i) ==
  /\ i.op = "bdnz"
  /\ LET n == (Console(Ctr) - 1) % Width
         g == (Generated(Ctr) - 1) % Width
     IN /\ regs' = [regs EXCEPT ![Ctr] = n]
        /\ GeneratedWrite(Ctr, g)
        /\ pc' = pc + (IF n # 0 THEN i.by ELSE 1)
        /\ at' = at + (IF g # 0 THEN i.by ELSE 1)
  /\ UNCHANGED <<mem, memory, elided, phase>>

\* printFunctionCall: calls of the helpers that are known by name are left out
\* when the registers they save are variables of each function.
LeftOut(i) ==
  /\ "non_volatile" \in program.options
  /\ CodeBase + 4 * (WordOf(program, i.to, i.k) - 1) \in HelperEntries

Called(i) ==
  /\ i.op = "bl"
  /\ pc' = WordOf(program, i.to, i.k)
  /\ regs' = [regs EXCEPT ![Lr] = pc + 1]
  /\ ctx' = IF "skip_lr" \in program.options THEN ctx ELSE [ctx EXCEPT ![Lr] = at + 1]
  /\ IF LeftOut(i)
       THEN /\ elided' = "call" /\ at' = at + 1
            /\ UNCHANGED frames
       ELSE /\ at' = pc'
            /\ frames' = Append(frames, [back |-> at + 1, locals |-> Locals])
            /\ UNCHANGED elided
  /\ UNCHANGED <<mem, memory, phase>>

\* A branch out of the function is a call and a return; the caller's variables end.
Left(i) ==
  /\ i.op = "b"
  /\ pc' = WordOf(program, i.to, i.k)
  /\ LET back == frames[Len(frames)].back IN
       IF LeftOut(i)
       THEN elided' = "jump" /\ at' = back /\ frames' = Front(frames)
       ELSE /\ at' = pc' /\ frames' = Append(Front(frames), [back |-> back, locals |-> Locals])
            /\ UNCHANGED elided
  /\ UNCHANGED <<regs, mem, ctx, memory, phase>>

\* The console returns through its link register, the generated function to its
\* caller.
Returned(i) ==
  /\ i.op = "blr"
  /\ pc' = regs[Lr]
  /\ elided' = "no"
  /\ phase' = IF pc' = 0 THEN "done" ELSE "run"
  /\ IF Together
       THEN at' = frames[Len(frames)].back /\ frames' = Front(frames)
       ELSE UNCHANGED <<at, frames>>
  /\ UNCHANGED <<regs, mem, ctx, memory>>

Execute ==
  /\ phase = "run"
  /\ LET i == image[2].words[pc] IN
       \/ Compute(i) \/ Store(i)
       \/ Branch(i) \/ BranchCount(i)
       \/ Called(i) \/ Left(i) \/ Returned(i)
  /\ UNCHANGED <<helperVars, program>>

Ended == phase = "done" /\ UNCHANGED vars

Next == Scan \/ Run \/ Execute \/ Ended

Spec == Init /\ [][Next]_vars

----------------------------------------------------------------------------

\* What an earlier decoy is taken for.
Fooled(h) ==
  /\ \/ program.decoy = "words" /\ h = "saveGpr14"
     \/ program.decoy = "setjmp" /\ h = "saveFpr14"
  /\ h \notin program.configured
  /\ WordOf(program, "decoy", 0) < WordOf(program, h, 0)

\* When the image is scanned, every helper that is linked is known at its address,
\* unless other code that looks the same comes before it and no address is
\* configured (known deviation).
HelpersFound ==
  ~Scanning =>
    \A h \in Helpers \ {g \in Helpers : Fooled(g)} : AddressOfHelper(h) = TrueAddress(program, h)

\* Known deviation: the helpers of the floating and vector registers take their
\* base in r12, which no called function sees if it is a variable of its caller.
ParameterLost ==
  /\ "non_argument" \in program.options
  /\ \E fn \in {program.main, program.f} :
       /\ fn.way \in {"fpr", "vmx", "vmx64"}
       /\ \E h \in {SaveHelper(fn.way), RestHelper(fn.way)} :
            ~LeftOut([to |-> h, k |-> fn.k])

\* Wherever the generated code is, it is where the console is, with the same stack
\* pointer, the same argument or result, the same data in memory, and, in those
\* registers that are not variables, the same non-volatile registers; and every
\* register that is not a variable is a member of the context.
Same ==
  /\ at = pc
  /\ \A r \in AllRegisters \ {Lr} : Local(r) \/ r \in DOMAIN ctx
  /\ \A r \in {<<"r", 1>>, <<"r", 3>>} \cup {n \in NonVolatile : ~Local(n)} : ctx[r] = regs[r]
  /\ \A c \in Cells : c >= Top => memory[c] = mem[c]

SameBehaviour == phase \in {"run", "done"} /\ Together /\ ~ParameterLost => Same

\* Registers that are said never to leave the function that uses them may be
\* variables of it, for whichever of the options.
NeverLeaves == phase \in {"run", "done"} /\ Together => Same
=============================================================================
