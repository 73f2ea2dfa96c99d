---------------------------- MODULE GeneratedCode ----------------------------
(***************************************************************************)
(* The code that RecompileFunction emits, executed on the host: where      *)
(* control goes, and in which flush mode floating point instructions run.  *)
(* The flush mode is a pair of bits of the host's control register; each   *)
(* thread keeps a copy in ctx.fpscr.csr, and PPCFPSCRRegister of           *)
(* XenonUtils/ppc_context.h writes the register only through the copy.     *)
(***************************************************************************)
EXTENDS RecompileFunction

VARIABLES
  at,        \* the statement about to be executed; Length once the function is left
  host,      \* does the host flush denormals
  csr,       \* does ctx.fpscr.csr say so
  armed,     \* the statement after the last setjmp, or Length
  env        \* the register and its copy when setjmp saved them

runVars == <<at, host, csr, armed, env>>

allVars == <<vars, runVars>>

RunInit ==
  /\ Init
  /\ at = 0
  /\ host \in BOOLEAN
  /\ csr = host
  /\ armed = Length
  /\ env = [host |-> host, csr |-> csr]

TranslateFunction == Translate /\ UNCHANGED runVars

Running == phase = "compiled" /\ Compiles /\ at < Length

Statement == out[at]

\* disableFlushMode and enableFlushMode test the copy; the unconditional forms
\* always write.  mtfsf writes the copy to the register, mffs reads it back.
FlushMode ==
  LET w      == input.words[at].op = "vmx"
      wanted == [host |-> w, csr |-> w]
      kept   == [host |-> host, csr |-> csr]
  IN
  CASE Statement.flush = "set"                   -> wanted
    [] Statement.flush = "test" /\ csr # w       -> wanted
    [] input.words[at].op = "mtfsf"              -> [kept EXCEPT !.host = csr]
    [] input.words[at].op = "mffs"               -> [kept EXCEPT !.csr = host]
    [] OTHER                                     -> kept

NoHook == [after |-> FALSE, falls |-> TRUE, leaves |-> FALSE, gotos |-> {}]

HookAt(p) == IF p \in DOMAIN input.hooks THEN input.hooks[p] ELSE NoHook

\* How control goes on from a statement or a hook c, when f is what follows it.
Continue(c, f) ==
  c.gotos \cup (IF c.leaves THEN {Length} ELSE {}) \cup (IF c.falls THEN f ELSE {})

\* What follows the statement at p: the hook after it, when there is one.
After(p) == IF HookAt(p).after THEN Continue(HookAt(p), {p + 1}) ELSE {p + 1}

\* A hook in front of the statement jumps or returns.
HookDiverts ==
  /\ Running
  /\ ~HookAt(at).after
  /\ at' \in Continue(HookAt(at), {})
  /\ UNCHANGED <<vars, host, csr, armed, env>>

Reached == Running /\ (HookAt(at).after \/ HookAt(at).falls)

\* The statement itself; setjmp stores the context and returns for the first time.
RunStatement ==
  /\ Reached
  /\ input.words[at].op # "bl"
  /\ at' \in Continue(Statement.control, After(at))
  /\ host' = FlushMode.host
  /\ csr' = FlushMode.csr
  /\ IF input.words[at].op = "setjmp"
     THEN armed' = at /\ env' = [host |-> host, csr |-> csr]
     ELSE UNCHANGED <<armed, env>>
  /\ UNCHANGED vars

\* The callee is generated code: it returns in either mode, copy and register
\* in agreement.
Call ==
  /\ Reached
  /\ input.words[at].op = "bl"
  /\ at' \in After(at)
  /\ host' \in BOOLEAN
  /\ csr' = host'
  /\ UNCHANGED <<vars, armed, env>>

\* The callee calls longjmp: setjmp returns again, and ctx is what it saved. The
\* host's longjmp brings back its control register.
LongJump ==
  /\ Reached
  /\ input.words[at].op = "bl"
  /\ armed # Length
  /\ at' \in After(armed)
  /\ host' = env.host
  /\ csr' = env.csr
  /\ UNCHANGED <<vars, armed, env>>

Finished ==
  /\ phase = "compiled"
  /\ ~Running
  /\ UNCHANGED allVars

Next ==
  \/ TranslateFunction
  \/ HookDiverts \/ RunStatement \/ Call \/ LongJump
  \/ Finished

Spec == RunInit /\ [][Next]_allVars

----------------------------------------------------------------------------

\* "The FPU expects denormalized numbers to remain unmodified, while VMX
\* instructions always flush them": in whatever order labels, calls, longjmps
\* and hooks lead to a floating point instruction, it runs in its own mode,
\* although the translator leaves out every change it takes for unnecessary.
FlushModeRight ==
  [][RunStatement /\ input.words[at].op \in {"fpu", "vmx"} =>
       host' = (input.words[at].op = "vmx")]_allVars

\* The generated code goes where the guest code goes.
Guest == INSTANCE GuestFlow

FollowsGuest == Guest!FlowSpec
=============================================================================
