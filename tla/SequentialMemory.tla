--------------------------- MODULE SequentialMemory ---------------------------
(***************************************************************************)
(* What guest threads expect of the memory they share: their loads, stores *)
(* and atomic sequences (lwarx ... stwcx.) take effect one at a time, in   *)
(* program order.                                                          *)
(***************************************************************************)
EXTENDS Integers, Sequences

CONSTANTS
  Threads,
  Modulus     \* a word wraps at this value

VARIABLES
  program,    \* [thread -> sequence of operations [op, a, v]]
  memory,     \* [address -> value]
  position,   \* [thread -> the operation it executes next]
  log         \* [thread -> the values it has read]

seqVars == <<program, memory, position, log>>

SeqInit ==
  /\ \A a \in DOMAIN memory : memory[a] = 0
  /\ position = [t \in Threads |-> 1]
  /\ log = [t \in Threads |-> <<>>]

\* What a thread has read last; its register is zero before.
Latest(t) == IF log[t] = <<>> THEN 0 ELSE log[t][Len(log[t])]

\* "load" reads, "store" writes v, "bump" writes the value read last plus v,
\* "add" adds v atomically, "lock" waits for 0 and writes 1.
Effect(t) ==
  LET o   == program[t][position[t]]
      old == memory[o.a]
      Reads == log' = [log EXCEPT ![t] = Append(@, old)]
      Writes(v) == memory' = [memory EXCEPT ![o.a] = v % Modulus]
  IN
  \/ o.op = "load" /\ Reads /\ UNCHANGED memory
  \/ o.op = "store" /\ Writes(o.v) /\ UNCHANGED log
  \/ o.op = "bump" /\ Writes(Latest(t) + o.v) /\ UNCHANGED log
  \/ o.op = "add" /\ Writes(old + o.v) /\ Reads
  \/ o.op = "lock" /\ old = 0 /\ Writes(1) /\ Reads

Operate(t) ==
  /\ position[t] <= Len(program[t])
  /\ Effect(t)
  /\ position' = [position EXCEPT ![t] = @ + 1]
  /\ UNCHANGED program

SeqSpec == SeqInit /\ [][\E t \in Threads : Operate(t)]_seqVars
=============================================================================
