----------------------------- MODULE SharedMemory -----------------------------
(***************************************************************************)
(* Threads that run generated code on one memory: the statements that      *)
(* XenonRecomp/recompiler.cpp emits for loads, stores, lwarx, stwcx. (and  *)
(* their 64-bit forms), sync, lwsync and eieio, on an x86 host whose       *)
(* processors buffer their stores.                                         *)
(***************************************************************************)
EXTENDS Integers, Sequences, FiniteSetsExt

CONSTANTS
  Threads,
  Addresses,
  Byte,         \* values of a byte; a word has two, the guest's in reverse
  Programs      \* what the threads do: functions [Threads -> Seq([op, a, v])]

Modulus == Byte * Byte

Words == 0 .. (Modulus - 1)

Operations == [op : {"load", "store", "bump", "add", "lock"}, a : Addresses, v : Words]

\* A plain load behind a plain store, which only a full barrier would keep in
\* order, is outside of what the generated code preserves.
Ordered(p) ==
  \A i, j \in DOMAIN p :
    i < j /\ p[i].op \in {"store", "bump"} /\ p[j].op = "load" =>
      \E k \in i .. j : p[k].op \in {"add", "lock"}

ASSUME ByteAssumption == Byte \in Nat /\ Byte > 1

ASSUME OrderedAssumption ==
  /\ Programs \subseteq [Threads -> Seq(Operations)]
  /\ \A p \in Programs : \A t \in Threads : Ordered(p[t])

VARIABLES
  program,
  pc,          \* [thread -> the operation it executes]
  step,        \* [thread -> the instruction of that operation it executes next]
  memory,      \* [address -> word], as the host sees it
  buffer,      \* [thread -> stores that have not reached memory: [a, word]]
  reg,         \* [thread -> the guest register that was loaded last]
  reserved,    \* [thread -> ctx.reserved]
  log          \* history: [thread -> the values its operations have read]

vars == <<program, pc, step, memory, buffer, reg, reserved, log>>

\* __builtin_bswap32
Swap(w) == (w % Byte) * Byte + w \div Byte

\* The guest's compiler: an operation as instructions.
Instructions(o) ==
  CASE o.op = "store"           -> <<"sync", "store">>
    [] o.op \in {"add", "lock"} -> <<"lwarx", "stwcx">>
    [] OTHER                    -> <<o.op>>

----------------------------------------------------------------------------

Init ==
  /\ program \in Programs
  /\ pc = [t \in Threads |-> 1]
  /\ step = [t \in Threads |-> 1]
  /\ memory = [a \in Addresses |-> 0]
  /\ buffer = [t \in Threads |-> <<>>]
  /\ reg = [t \in Threads |-> 0]
  /\ reserved = [t \in Threads |-> 0]
  /\ log = [t \in Threads |-> <<>>]

Running(t) == pc[t] <= Len(program[t])

Current(t) == program[t][pc[t]]

At(t, instructions) == Running(t) /\ Instructions(Current(t))[step[t]] \in instructions

Advance(t) ==
  IF step[t] < Len(Instructions(Current(t)))
  THEN step' = [step EXCEPT ![t] = @ + 1] /\ UNCHANGED pc
  ELSE step' = [step EXCEPT ![t] = 1] /\ pc' = [pc EXCEPT ![t] = @ + 1]

\* The word thread t sees at a: its own latest store, or memory.
Sees(t, a) ==
  LET own == {i \in DOMAIN buffer[t] : buffer[t][i].a = a} IN
  IF own = {} THEN memory[a] ELSE buffer[t][Max(own)].word

\* PPC_LOAD_U32
Load(t) ==
  /\ At(t, {"load"})
  /\ reg' = [reg EXCEPT ![t] = Swap(Sees(t, Current(t).a))]
  /\ log' = [log EXCEPT ![t] = Append(@, reg'[t])]
  /\ Advance(t)
  /\ UNCHANGED <<program, memory, buffer, reserved>>

\* PPC_STORE_U32 of a constant, or of the register plus a constant.
Store(t) ==
  /\ At(t, {"store", "bump"})
  /\ LET o == Current(t)
         value == (o.v + (IF o.op = "bump" THEN reg[t] ELSE 0)) % Modulus
     IN  buffer' = [buffer EXCEPT ![t] = Append(@, [a |-> o.a, word |-> Swap(value)])]
  /\ Advance(t)
  /\ UNCHANGED <<program, memory, reg, reserved, log>>

\* Mutant of Drain: stores reach memory in any order.
DrainAny(t) ==
  /\ \E i \in DOMAIN buffer[t] :
       /\ memory' = [memory EXCEPT ![buffer[t][i].a] = buffer[t][i].word]
       /\ buffer' = [buffer EXCEPT ![t] = SubSeq(@, 1, i - 1) \o SubSeq(@, i + 1, Len(@))]
  /\ UNCHANGED <<program, pc, step, reg, reserved, log>>

\* The processor writes its oldest store to memory.
Drain(t) ==
  /\ buffer[t] # <<>>
  /\ memory' = [memory EXCEPT ![buffer[t][1].a] = buffer[t][1].word]
  /\ buffer' = [buffer EXCEPT ![t] = Tail(@)]
  /\ UNCHANGED <<program, pc, step, reg, reserved, log>>

\* lwarx, and the branch back to it while a lock is not zero.
LoadReserved(t) ==
  /\ At(t, {"lwarx"})
  /\ reserved' = [reserved EXCEPT ![t] = Sees(t, Current(t).a)]
  /\ reg' = [reg EXCEPT ![t] = Swap(reserved'[t])]
  /\ IF Current(t).op = "lock" /\ reg'[t] # 0 THEN UNCHANGED <<pc, step>> ELSE Advance(t)
  /\ UNCHANGED <<program, memory, buffer, log>>

New(t) == IF Current(t).op = "lock" THEN 1 ELSE (Current(t).v + reg[t]) % Modulus

\* Mutant of Unchanged: the comparison is with the guest's form of the word.
UnchangedSwapped(t) == memory[Current(t).a] = reg[t]

Unchanged(t) == memory[Current(t).a] = reserved[t]

\* stwcx. and the branch back to lwarx when it fails: a compare and swap, which
\* first lets all earlier stores of the thread reach memory.
StoreConditional(t) ==
  /\ At(t, {"stwcx"})
  /\ buffer[t] = <<>>
  /\ IF Unchanged(t)
     THEN /\ memory' = [memory EXCEPT ![Current(t).a] = Swap(New(t))]
          /\ log' = [log EXCEPT ![t] = Append(@, reg[t])]
          /\ Advance(t)
     ELSE /\ step' = [step EXCEPT ![t] = @ - 1]
          /\ UNCHANGED <<memory, log, pc>>
  /\ UNCHANGED <<program, buffer, reg, reserved>>

\* sync, lwsync and eieio generate nothing.
Barrier(t) ==
  /\ At(t, {"sync"})
  /\ Advance(t)
  /\ UNCHANGED <<program, memory, buffer, reg, reserved, log>>

Run(t) ==
  \/ Load(t) \/ Store(t) \/ LoadReserved(t) \/ StoreConditional(t) \/ Barrier(t)

Finished == \A t \in Threads : ~Running(t) /\ buffer[t] = <<>>

Next ==
  \/ \E t \in Threads : Run(t) \/ Drain(t)
  \/ Finished /\ UNCHANGED vars

\* The host schedules every thread, and every store reaches memory some day.
Fairness == \A t \in Threads : WF_vars(Run(t)) /\ WF_vars(Drain(t))

Spec == Init /\ [][Next]_vars /\ Fairness

----------------------------------------------------------------------------

\* The operation of thread t that takes effect next: one that stores has taken
\* effect once its word is in memory, and only stores are ever left behind.
Position(t) == pc[t] - Len(buffer[t])

\* Whatever the interleaving of the threads and the delay of their stores,
\* each atomic sequence, load and store of the guest takes effect as a whole,
\* in program order: no update is lost and no lock is held twice.
Sequential == INSTANCE SequentialMemory WITH
  memory   <- [a \in Addresses |-> Swap(memory[a])],
  position <- [t \in Threads |-> Position(t)]

FollowsSequential == Sequential!SeqSpec

\* Every thread gets through: atomic sequences are retried only when another
\* one succeeded, and a thread that waits for a lock notices its release.
Termination == <>Finished
=============================================================================
