-------------------------- MODULE SharedMemoryProofs --------------------------
(***************************************************************************)
(* SharedMemory implements SequentialMemory, for any number of threads,    *)
(* addresses and values, and all programs that OrderedAssumption allows.   *)
(***************************************************************************)
EXTENDS SharedMemory, NaturalLemmas, SequenceTheorems

Atomic == {"add", "lock"}
Storing == {"store", "bump"}
StoreType == [a : Addresses, word : Words]

TypeOK ==
  /\ program \in Programs
  /\ pc \in [Threads -> Nat] /\ step \in [Threads -> {1, 2}]
  /\ memory \in [Addresses -> Words]
  /\ buffer \in [Threads -> Seq(StoreType)]
  /\ reg \in [Threads -> Words] /\ reserved \in [Threads -> Words]
  /\ log \in [Threads -> Seq(Words)]

Last(l) == IF l = <<>> THEN 0 ELSE l[Len(l)]

\* What an operation o stores that does not read, after the reads l.
Stored(o, l) == (o.v + (IF o.op = "bump" THEN Last(l) ELSE 0)) % Modulus

\* The buffer b holds the stores of the operations before c, in their order.
Buffered(p, c, b, l) ==
  /\ Len(b) < c /\ c <= Len(p) + 1
  /\ \A i \in 1 .. Len(b) :
       /\ p[c - Len(b) + i - 1].op \in Storing
       /\ b[i] = [a |-> p[c - Len(b) + i - 1].a, word |-> Swap(Stored(p[c - Len(b) + i - 1], l))]

\* Between lwarx and stwcx. the register holds the reserved word, and a lock was
\* seen free.
Within(p, c, s, r, w) ==
  s = 2 =>
    /\ c <= Len(p) /\ p[c].op \in {"store"} \cup Atomic
    /\ p[c].op \in Atomic => r = Swap(w)
    /\ p[c].op = "lock" => r = 0

\* Outside of atomic sequences the register holds what was read last.
Holds(p, c, r, l) == c <= Len(p) /\ p[c].op \notin Atomic => r = Last(l)

Consistent(p, c, s, b, r, w, l) == Buffered(p, c, b, l) /\ Within(p, c, s, r, w) /\ Holds(p, c, r, l)

ThreadInv(t) == Consistent(program[t], pc[t], step[t], buffer[t], reg[t], reserved[t], log[t])

IInv == TypeOK /\ \A t \in Threads : ThreadInv(t)

----------------------------------------------------------------------------
\* Words.

\* A word is split into its two bytes in one way only.
LEMMA Bytes ==
  ASSUME NEW q \in Nat, NEW r \in Nat, r < Byte
  PROVE  (q * Byte + r) % Byte = r /\ (q * Byte + r) \div Byte = q
<1> DEFINE n == q * Byte + r
           d == n \div Byte
           m == n % Byte
<1>1. Byte \in Nat /\ Byte > 1 /\ n \in Nat
  BY ByteAssumption
<1>2. d \in Nat /\ m \in Nat /\ m < Byte /\ n = d * Byte + m
  BY <1>1
<1>3. d * Byte + m = q * Byte + r
  BY <1>2
<1> HIDE DEF n, d, m
<1>4. ~(d < q)
  <2> SUFFICES ASSUME d < q PROVE FALSE
    OBVIOUS
  <2>1. PICK k \in Nat : q = d + 1 + k
    <3>1. q = d + 1 + (q - d - 1) /\ q - d - 1 \in Nat
      BY <1>2
    <3> QED BY <3>1
  <2>2. q * Byte = d * Byte + Byte + k * Byte /\ k * Byte \in Nat /\ d * Byte \in Nat
    BY <1>1, <1>2, <2>1
  <2> QED BY <1>1, <1>2, <1>3, <2>2
<1>5. ~(q < d)
  <2> SUFFICES ASSUME q < d PROVE FALSE
    OBVIOUS
  <2>1. PICK k \in Nat : d = q + 1 + k
    <3>1. d = q + 1 + (d - q - 1) /\ d - q - 1 \in Nat
      BY <1>2
    <3> QED BY <3>1
  <2>2. d * Byte = q * Byte + Byte + k * Byte /\ k * Byte \in Nat /\ q * Byte \in Nat
    BY <1>1, <1>2, <2>1
  <2> QED BY <1>1, <1>2, <1>3, <2>2
<1>6. d = q
  BY <1>2, <1>4, <1>5
<1>7. m = r
  <2>1. q * Byte \in Nat
    BY <1>1
  <2> QED BY <1>2, <1>3, <1>6, <2>1
<1> QED BY <1>6, <1>7 DEF n, d, m

LEMMA WordBytes ==
  ASSUME NEW w \in Words
  PROVE  /\ w % Byte \in Nat /\ w % Byte < Byte /\ w \div Byte \in Nat /\ w \div Byte < Byte
         /\ w = (w \div Byte) * Byte + (w % Byte)
<1>1. Byte \in Nat /\ Byte > 1 /\ w \in Nat /\ w < Byte * Byte
  BY ByteAssumption DEF Words, Modulus
<1>2. w % Byte \in Nat /\ w % Byte < Byte /\ w \div Byte \in Nat /\ w = (w \div Byte) * Byte + (w % Byte)
  BY <1>1
<1>3. w \div Byte < Byte
  <2> DEFINE d == w \div Byte
  <2> SUFFICES ASSUME Byte <= d PROVE FALSE
    BY <1>1, <1>2
  <2> HIDE DEF d
  <2>1. d \in Nat /\ d * Byte <= w
    <3>1. d \in Nat
      BY <1>2 DEF d
    <3>2. d * Byte \in Nat
      BY <1>1, <3>1
    <3> QED BY <1>1, <1>2, <3>1, <3>2 DEF d
  <2>2. PICK k \in Nat : d = Byte + k
    <3>1. d = Byte + (d - Byte) /\ d - Byte \in Nat
      BY <1>1, <2>1
    <3> QED BY <3>1
  <2>3. d * Byte = Byte * Byte + k * Byte /\ k * Byte \in Nat /\ Byte * Byte \in Nat
    BY <1>1, <2>2
  <2> QED BY <1>1, <2>1, <2>3
<1> QED BY <1>2, <1>3

LEMMA WordOfBytes ==
  ASSUME NEW q \in Nat, NEW r \in Nat, q < Byte, r < Byte
  PROVE  q * Byte + r \in Words
<1>1. Byte \in Nat /\ Byte > 1
  BY ByteAssumption
<1>2. PICK k \in Nat : Byte = q + 1 + k
  <2>1. Byte = q + 1 + (Byte - q - 1) /\ Byte - q - 1 \in Nat
    BY <1>1
  <2> QED BY <2>1
<1>3. /\ q * Byte \in Nat /\ k * Byte \in Nat /\ Byte * Byte \in Nat
      /\ Byte * Byte = q * Byte + Byte + k * Byte
  <2>1. Byte * Byte = (q + 1 + k) * Byte
    BY <1>2
  <2>2. (q + 1 + k) * Byte = q * Byte + Byte + k * Byte
    BY <1>1
  <2>3. q * Byte \in Nat /\ k * Byte \in Nat /\ Byte * Byte \in Nat
    BY <1>1
  <2> QED BY <2>1, <2>2, <2>3
<1> QED BY <1>1, <1>3 DEF Words, Modulus

\* The byte swap is its own inverse.
LEMMA SwapSwap ==
  ASSUME NEW w \in Words
  PROVE  Swap(w) \in Words /\ Swap(Swap(w)) = w
<1> DEFINE q == w \div Byte
           r == w % Byte
<1>1. r \in Nat /\ r < Byte /\ q \in Nat /\ q < Byte /\ w = q * Byte + r /\ Swap(w) = r * Byte + q
  BY WordBytes DEF Swap
<1> HIDE DEF q, r
<1>2. Swap(w) \in Words
  BY <1>1, WordOfBytes
<1>3. (r * Byte + q) % Byte = q /\ (r * Byte + q) \div Byte = r
  BY <1>1, Bytes
<1>4. Swap(r * Byte + q) = q * Byte + r
  BY <1>3 DEF Swap
<1> QED BY <1>1, <1>2, <1>4

LEMMA ModulusProperties ==
  /\ Modulus \in Nat /\ Modulus > 1
  /\ \A n \in Nat : n % Modulus \in Words
  /\ \A w \in Words : w \in Nat /\ w % Modulus = w
  /\ 0 \in Words /\ 1 \in Words /\ Swap(0) = 0
<1>1. Byte \in Nat /\ Byte > 1
  BY ByteAssumption
<1>2. Modulus \in Nat /\ Modulus > 1
  <2>1. PICK k \in Nat : Byte = 2 + k
    <3>1. Byte = 2 + (Byte - 2) /\ Byte - 2 \in Nat
      BY <1>1
    <3> QED BY <3>1
  <2>2. Byte * Byte = Byte + Byte + k * Byte /\ k * Byte \in Nat
    <3>1. Byte * Byte = (2 + k) * Byte
      BY <2>1
    <3>2. (2 + k) * Byte = Byte + Byte + k * Byte /\ k * Byte \in Nat
      BY <1>1
    <3> QED BY <3>1, <3>2
  <2> QED BY <1>1, <2>2 DEF Modulus
<1>3. Swap(0) = 0
  <2>1. 0 % Byte = 0 /\ 0 \div Byte = 0
    BY <1>1
  <2> QED BY <1>1, <2>1 DEF Swap
<1>4. \A n \in Nat : n % Modulus \in Nat /\ n % Modulus < Modulus
  BY <1>2
<1>5. \A n \in Nat : n < Modulus => n % Modulus = n
  BY <1>2
<1> HIDE DEF Modulus
<1> QED BY <1>2, <1>3, <1>4, <1>5 DEF Words


----------------------------------------------------------------------------
\* One thread.

LEMMA Instruction ==
  ASSUME NEW o \in Operations, NEW s \in {1, 2}, s = 2 => o.op \in {"store"} \cup Atomic
  PROVE  LET i == Instructions(o)[s]
             n == Len(Instructions(o))
         IN  /\ i = "load" => o.op = "load" /\ s = 1 /\ n = 1
             /\ i \in {"store", "bump"} => o.op \in Storing /\ s = n
             /\ i = "lwarx" => o.op \in Atomic /\ s = 1 /\ n = 2
             /\ i = "stwcx" => o.op \in Atomic /\ s = 2 /\ n = 2
             /\ i = "sync" => o.op = "store" /\ s = 1 /\ n = 2
<1>1. o.op \in {"load", "store", "bump", "add", "lock"}
  BY DEF Operations
<1>2. CASE o.op = "store"
  <2>1. Instructions(o) = <<"sync", "store">>
    BY <1>2 DEF Instructions
  <2> QED BY <1>2, <2>1 DEF Storing
<1>3. CASE o.op \in Atomic
  <2>1. Instructions(o) = <<"lwarx", "stwcx">>
    BY <1>3 DEF Instructions, Atomic
  <2> QED BY <1>3, <2>1
<1>4. CASE o.op \in {"load", "bump"}
  <2>1. Instructions(o) = <<o.op>> /\ s = 1
    BY <1>4 DEF Instructions, Atomic
  <2> QED BY <1>4, <2>1 DEF Storing
<1> QED BY <1>1, <1>2, <1>3, <1>4 DEF Atomic

\* No load is reached while a store of its thread is delayed.
LEMMA LoadAfterStores ==
  ASSUME NEW p \in Seq(Operations), Ordered(p), NEW c \in 1..Len(p), p[c].op = "load",
         NEW b, Len(b) \in Nat, NEW l, Buffered(p, c, b, l)
  PROVE  Len(b) = 0
<1> SUFFICES ASSUME Len(b) # 0 PROVE FALSE
  OBVIOUS
<1>1. Len(p) \in Nat /\ DOMAIN p = 1..Len(p)
  OBVIOUS
<1>2. Len(b) \in 1..Len(b) /\ c - Len(b) + Len(b) - 1 = c - 1
  BY <1>1
<1>3. p[c - 1].op \in Storing /\ c - 1 \in 1..Len(p)
  <2>1. p[c - Len(b) + Len(b) - 1].op \in Storing /\ Len(b) < c
    BY <1>2 DEF Buffered
  <2>2. c - 1 \in 1..Len(p)
    BY <1>1, <2>1
  <2> QED BY <1>2, <2>1, <2>2
<1>4. PICK k \in (c - 1) .. c : p[k].op \in Atomic
  BY <1>1, <1>3 DEF Ordered, Storing, Atomic
<1>5. k = c - 1 \/ k = c
  BY <1>1, <1>4
<1> QED BY <1>3, <1>4, <1>5 DEF Storing, Atomic

LEMMA LoadedThread ==
  ASSUME NEW p \in Seq(Operations), NEW c \in 1..Len(p), NEW b, Len(b) = 0,
         NEW l \in Seq(Words), NEW x \in Words, NEW w
  PROVE  Consistent(p, c + 1, 1, b, x, w, Append(l, x))
<1>1. Len(p) \in Nat /\ Append(l, x) # <<>> /\ Append(l, x)[Len(Append(l, x))] = x
  OBVIOUS
<1>2. Last(Append(l, x)) = x
  BY <1>1 DEF Last
<1> QED BY <1>1, <1>2 DEF Consistent, Buffered, Within, Holds

LEMMA StoredThread ==
  ASSUME NEW p \in Seq(Operations), NEW c \in 1..Len(p), NEW b \in Seq(StoreType),
         NEW l, NEW s, NEW r, NEW w, NEW x,
         Consistent(p, c, s, b, r, w, l), p[c].op \in Storing,
         x = [a |-> p[c].a, word |-> Swap(Stored(p[c], l))]
  PROVE  Consistent(p, c + 1, 1, Append(b, x), r, w, l)
<1>1. Len(p) \in Nat /\ Len(b) \in Nat
  OBVIOUS
<1>2. Len(Append(b, x)) = Len(b) + 1 /\ Append(b, x)[Len(b) + 1] = x
      /\ \A i \in 1..Len(b) : Append(b, x)[i] = b[i]
  OBVIOUS
<1>3. Buffered(p, c + 1, Append(b, x), l)
  <2>1. \A i \in Int : (c + 1) - (Len(b) + 1) + i - 1 = c - Len(b) + i - 1
    BY <1>1
  <2>2. c - Len(b) + (Len(b) + 1) - 1 = c
    BY <1>1
  <2>3. ASSUME NEW i \in 1..(Len(b) + 1)
        PROVE  /\ p[c - Len(b) + i - 1].op \in Storing
               /\ Append(b, x)[i] = [a |-> p[c - Len(b) + i - 1].a,
                                     word |-> Swap(Stored(p[c - Len(b) + i - 1], l))]
    <3>1. CASE i = Len(b) + 1
      BY <1>2, <2>2, <3>1
    <3>2. CASE i # Len(b) + 1
      <4>1. i \in 1..Len(b)
        BY <1>1, <3>2
      <4> QED BY <1>2, <4>1 DEF Consistent, Buffered
    <3> QED BY <3>1, <3>2
  <2>4. \A i \in 1..(Len(b) + 1) : (c + 1) - (Len(b) + 1) + i - 1 = c - Len(b) + i - 1
    BY <1>1, <2>1
  <2>5. Len(b) + 1 < c + 1 /\ c + 1 <= Len(p) + 1
    BY <1>1 DEF Consistent, Buffered
  <2> QED BY <1>2, <2>3, <2>4, <2>5 DEF Buffered
<1>4. p[c].op \notin Atomic
  BY DEF Storing, Atomic
<1>5. r = Last(l)
  BY <1>1, <1>4 DEF Consistent, Holds
<1> QED BY <1>3, <1>5 DEF Consistent, Within, Holds

LEMMA DrainedThread ==
  ASSUME NEW p \in Seq(Operations), NEW c \in Nat, NEW b \in Seq(StoreType), b # <<>>,
         NEW l, NEW s, NEW r, NEW w, Consistent(p, c, s, b, r, w, l)
  PROVE  /\ Consistent(p, c, s, Tail(b), r, w, l)
         /\ c - Len(b) \in 1..Len(p)
         /\ p[c - Len(b)].op \in Storing
         /\ b[1] = [a |-> p[c - Len(b)].a, word |-> Swap(Stored(p[c - Len(b)], l))]
<1>1. Len(p) \in Nat /\ Len(b) \in Nat /\ Len(b) > 0
  OBVIOUS
<1>2. Len(Tail(b)) = Len(b) - 1 /\ \A i \in 1..(Len(b) - 1) : Tail(b)[i] = b[i + 1]
  OBVIOUS
<1>3. /\ Len(b) < c /\ c <= Len(p) + 1
      /\ \A i \in 1..Len(b) :
           /\ p[c - Len(b) + i - 1].op \in Storing
           /\ b[i] = [a |-> p[c - Len(b) + i - 1].a, word |-> Swap(Stored(p[c - Len(b) + i - 1], l))]
  BY DEF Consistent, Buffered
<1>4. Buffered(p, c, Tail(b), l)
  <2>1. ASSUME NEW i \in 1..(Len(b) - 1)
        PROVE  /\ p[c - (Len(b) - 1) + i - 1].op \in Storing
               /\ Tail(b)[i] = [a |-> p[c - (Len(b) - 1) + i - 1].a,
                                word |-> Swap(Stored(p[c - (Len(b) - 1) + i - 1], l))]
    <3>1. i + 1 \in 1..Len(b) /\ c - (Len(b) - 1) + i - 1 = c - Len(b) + (i + 1) - 1
      BY <1>1
    <3> QED BY <1>2, <1>3, <3>1
  <2>2. Len(b) - 1 < c
    BY <1>1, <1>3
  <2> QED BY <1>2, <1>3, <2>1, <2>2 DEF Buffered
<1>5. 1 \in 1..Len(b) /\ c - Len(b) + 1 - 1 = c - Len(b) /\ c - Len(b) \in 1..Len(p)
  BY <1>1, <1>3
<1> QED BY <1>3, <1>4, <1>5 DEF Consistent


----------------------------------------------------------------------------
\* The whole state.

LEMMA Facts ==
  ASSUME IInv, NEW t \in Threads
  PROVE  /\ program[t] \in Seq(Operations) /\ Ordered(program[t]) /\ Len(program[t]) \in Nat
         /\ pc[t] \in Nat /\ step[t] \in {1, 2} /\ buffer[t] \in Seq(StoreType) /\ Len(buffer[t]) \in Nat
         /\ reg[t] \in Words /\ reserved[t] \in Words /\ log[t] \in Seq(Words)
         /\ Running(t) =>
              /\ pc[t] \in 1..Len(program[t]) /\ Current(t) = program[t][pc[t]]
              /\ Current(t) \in Operations /\ Current(t).a \in Addresses /\ Current(t).v \in Words
         /\ step[t] = 2 => Current(t).op \in {"store"} \cup Atomic
         /\ Consistent(program[t], pc[t], step[t], buffer[t], reg[t], reserved[t], log[t])
<1>1. /\ program[t] \in Seq(Operations) /\ Ordered(program[t]) /\ Len(program[t]) \in Nat
      /\ pc[t] \in Nat /\ step[t] \in {1, 2} /\ buffer[t] \in Seq(StoreType) /\ Len(buffer[t]) \in Nat
      /\ reg[t] \in Words /\ reserved[t] \in Words /\ log[t] \in Seq(Words)
  <2>1. program \in [Threads -> Seq(Operations)] /\ Ordered(program[t])
    BY OrderedAssumption DEF IInv, TypeOK
  <2> QED BY <2>1 DEF IInv, TypeOK
<1>2. Consistent(program[t], pc[t], step[t], buffer[t], reg[t], reserved[t], log[t])
  BY DEF IInv, ThreadInv
<1>3. ASSUME Running(t)
      PROVE  /\ pc[t] \in 1..Len(program[t]) /\ Current(t) = program[t][pc[t]]
             /\ Current(t) \in Operations /\ Current(t).a \in Addresses /\ Current(t).v \in Words
  <2>1. pc[t] \in 1..Len(program[t])
    BY <1>1, <1>2, <1>3 DEF Consistent, Buffered, Running
  <2>2. program[t][pc[t]] \in Operations
    BY <1>1, <2>1
  <2> QED BY <2>1, <2>2 DEF Current, Operations
<1>4. step[t] = 2 => Current(t).op \in {"store"} \cup Atomic
  BY <1>2 DEF Consistent, Within, Current
<1> QED BY <1>1, <1>2, <1>3, <1>4

LEMMA SeesWord ==
  ASSUME IInv, NEW t \in Threads, NEW a \in Addresses
  PROVE  Sees(t, a) \in Words /\ (Len(buffer[t]) = 0 => Sees(t, a) = memory[a])
<1> DEFINE own == {i \in DOMAIN buffer[t] : buffer[t][i].a = a}
<1>1. buffer[t] \in Seq(StoreType) /\ Len(buffer[t]) \in Nat /\ DOMAIN buffer[t] = 1..Len(buffer[t])
  BY Facts
<1>2. memory[a] \in Words
  BY DEF IInv, TypeOK
<1>3. ASSUME own # {} PROVE Max(own) \in 1..Len(buffer[t])
  <2>1. own \subseteq Nat /\ \A n \in own : n <= Len(buffer[t])
    BY <1>1
  <2>2. Max(own) \in own
    BY <1>1, <1>3, <2>1, MaxNat
  <2> QED BY <1>1, <2>2
<1>4. ASSUME own # {} PROVE buffer[t][Max(own)].word \in Words
  <2>1. buffer[t][Max(own)] \in StoreType
    BY <1>1, <1>3, <1>4, ElementOfSeq
  <2> QED BY <2>1 DEF StoreType
<1>5. Len(buffer[t]) = 0 => own = {}
  BY <1>1
<1> QED BY <1>2, <1>4, <1>5 DEF Sees

\* Only thread t has moved, and it moved to a consistent state.
LEMMA OneThread ==
  ASSUME IInv, NEW t \in Threads, TypeOK',
         program' = program,
         \A u \in Threads \ {t} :
           /\ pc'[u] = pc[u] /\ step'[u] = step[u] /\ buffer'[u] = buffer[u]
           /\ reg'[u] = reg[u] /\ reserved'[u] = reserved[u] /\ log'[u] = log[u],
         Consistent(program[t], pc'[t], step'[t], buffer'[t], reg'[t], reserved'[t], log'[t])
  PROVE  IInv'
<1> SUFFICES ASSUME NEW u \in Threads PROVE ThreadInv(u)'
  BY DEF IInv
<1>1. CASE u = t
  BY <1>1 DEF ThreadInv
<1>2. CASE u # t
  <2>1. /\ pc'[u] = pc[u] /\ step'[u] = step[u] /\ buffer'[u] = buffer[u]
        /\ reg'[u] = reg[u] /\ reserved'[u] = reserved[u] /\ log'[u] = log[u]
    BY <1>2
  <2>2. Consistent(program[u], pc[u], step[u], buffer[u], reg[u], reserved[u], log[u])
    BY DEF IInv, ThreadInv
  <2> QED BY <2>1, <2>2 DEF ThreadInv
<1> QED BY <1>1, <1>2

\* A step of which the guest's memory shows nothing.
LEMMA Unseen ==
  ASSUME program' = program, memory' = memory, log' = log,
         \A u \in Threads : pc'[u] - Len(buffer'[u]) = pc[u] - Len(buffer[u])
  PROVE  UNCHANGED Sequential!seqVars
<1>1. [u \in Threads |-> Position(u)]' = [u \in Threads |-> Position(u)]
  BY DEF Position
<1>2. [a \in Addresses |-> Swap(memory[a])]' = [a \in Addresses |-> Swap(memory[a])]
  BY DEF Swap
<1> QED BY <1>1, <1>2 DEF Sequential!seqVars


LEMMA InitStep == Init => IInv /\ Sequential!SeqInit
<1> SUFFICES ASSUME Init PROVE IInv /\ Sequential!SeqInit
  OBVIOUS
<1>1. TypeOK
  BY ModulusProperties DEF Init, TypeOK
<1>2. ASSUME NEW t \in Threads PROVE ThreadInv(t)
  <2>1. program[t] \in Seq(Operations)
    BY OrderedAssumption DEF Init
  <2>2. pc[t] = 1 /\ step[t] = 1 /\ buffer[t] = <<>> /\ reg[t] = 0 /\ log[t] = <<>> /\ Len(<<>>) = 0
    BY DEF Init
  <2>3. Last(<<>>) = 0
    BY DEF Last
  <2> QED BY <2>1, <2>2, <2>3 DEF ThreadInv, Consistent, Buffered, Within, Holds
<1>3. Sequential!SeqInit
  BY ModulusProperties DEF Init, Sequential!SeqInit, Position
<1> QED BY <1>1, <1>2, <1>3 DEF IInv

LEMMA LoadStep ==
  ASSUME IInv, NEW t \in Threads, Load(t)
  PROVE  IInv' /\ Sequential!Operate(t)
<1> DEFINE o == Current(t)
           x == Swap(Sees(t, o.a))
<1>1. Running(t) /\ Instructions(o)[step[t]] = "load"
  BY DEF Load, At
<1>2. pc[t] \in 1..Len(program[t]) /\ o = program[t][pc[t]] /\ o \in Operations /\ o.a \in Addresses
  BY <1>1, Facts
<1>3. o.op = "load" /\ step[t] = 1 /\ Len(Instructions(o)) = 1
  BY <1>1, <1>2, Facts, Instruction
<1>4. Len(buffer[t]) = 0
  BY <1>2, <1>3, Facts, LoadAfterStores DEF Consistent
<1>5. Sees(t, o.a) = memory[o.a] /\ x \in Words
  BY <1>2, <1>4, SeesWord, SwapSwap
<1>6. /\ reg' = [reg EXCEPT ![t] = x] /\ log' = [log EXCEPT ![t] = Append(@, x)]
      /\ step' = [step EXCEPT ![t] = 1] /\ pc' = [pc EXCEPT ![t] = @ + 1]
      /\ UNCHANGED <<program, memory, buffer, reserved>>
  <2>1. reg' = [reg EXCEPT ![t] = x] /\ reg \in [Threads -> Words]
    BY DEF Load, IInv, TypeOK
  <2>2. reg'[t] = x
    BY <2>1
  <2> QED BY <1>3, <2>1, <2>2 DEF Load, Advance
<1> HIDE DEF o, x
<1>7. IInv'
  <2>1. TypeOK'
    BY <1>5, <1>6 DEF IInv, TypeOK
  <2>2. /\ pc'[t] = pc[t] + 1 /\ step'[t] = 1 /\ reg'[t] = x /\ log'[t] = Append(log[t], x)
        /\ buffer'[t] = buffer[t] /\ reserved'[t] = reserved[t]
    BY <1>6 DEF IInv, TypeOK
  <2>3. Consistent(program[t], pc[t] + 1, 1, buffer[t], x, reserved[t], Append(log[t], x))
    BY <1>2, <1>4, <1>5, Facts, LoadedThread
  <2> QED BY <1>6, <2>1, <2>2, <2>3, OneThread DEF IInv, TypeOK
<1>8. Sequential!Operate(t)
  <2>1. Position(t) = pc[t]
    BY <1>2, <1>4, Facts DEF Position
  <2>2. [u \in Threads |-> Position(u)]' = [[u \in Threads |-> Position(u)] EXCEPT ![t] = @ + 1]
    <3>1. ASSUME NEW u \in Threads
          PROVE  pc'[u] - Len(buffer'[u]) = IF u = t THEN pc[u] - Len(buffer[u]) + 1 ELSE pc[u] - Len(buffer[u])
      BY <1>6, Facts DEF IInv, TypeOK
    <3> QED BY <3>1 DEF Position
  <2>3. [a \in Addresses |-> Swap(memory[a])]' = [a \in Addresses |-> Swap(memory[a])]
    BY <1>6 DEF Swap
  <2>4. Sequential!Effect(t)
    <3>1. [u \in Threads |-> Position(u)][t] = pc[t]
      BY <2>1
    <3>2. [a \in Addresses |-> Swap(memory[a])][o.a] = x
      BY <1>2, <1>5 DEF x
    <3> QED BY <1>2, <1>3, <1>6, <2>3, <3>1, <3>2 DEF Sequential!Effect
  <2> QED BY <1>2, <1>6, <2>1, <2>2, <2>4, Facts DEF Sequential!Operate
<1> QED BY <1>7, <1>8

LEMMA StoreStep ==
  ASSUME IInv, NEW t \in Threads, Store(t)
  PROVE  IInv' /\ UNCHANGED Sequential!seqVars
<1> DEFINE o == Current(t)
           value == (o.v + (IF o.op = "bump" THEN reg[t] ELSE 0)) % Modulus
           x == [a |-> o.a, word |-> Swap(value)]
<1>1. Running(t) /\ Instructions(o)[step[t]] \in {"store", "bump"}
  BY DEF Store, At
<1>2. pc[t] \in 1..Len(program[t]) /\ o = program[t][pc[t]] /\ o \in Operations /\ o.a \in Addresses
      /\ o.v \in Words
  BY <1>1, Facts
<1>3. o.op \in Storing /\ Len(Instructions(o)) = step[t]
  BY <1>1, <1>2, Facts, Instruction
<1>4. /\ buffer' = [buffer EXCEPT ![t] = Append(@, x)]
      /\ step' = [step EXCEPT ![t] = 1] /\ pc' = [pc EXCEPT ![t] = @ + 1]
      /\ UNCHANGED <<program, memory, reg, reserved, log>>
  <2>1. ~(step[t] < Len(Instructions(o)))
    BY <1>3, Facts
  <2> QED BY <2>1 DEF Store, Advance
<1>5. value = Stored(o, log[t]) /\ value \in Words
  <2>1. reg[t] = Last(log[t])
    BY <1>2, <1>3, Facts DEF Consistent, Holds, Storing, Atomic
  <2>2. o.v + (IF o.op = "bump" THEN reg[t] ELSE 0) \in Nat
    <3>1. o.v \in Nat /\ reg[t] \in Nat
      BY <1>2, Facts, ModulusProperties
    <3> QED BY <3>1
  <2> QED BY <2>1, <2>2, ModulusProperties DEF Stored
<1>6. x \in StoreType
  BY <1>2, <1>5, SwapSwap DEF StoreType
<1> HIDE DEF o, x, value
<1>7. IInv'
  <2>1. TypeOK'
    <3>1. Append(buffer[t], x) \in Seq(StoreType)
      BY <1>6, Facts
    <3> QED BY <1>4, <3>1 DEF IInv, TypeOK
  <2>2. /\ pc'[t] = pc[t] + 1 /\ step'[t] = 1 /\ reg'[t] = reg[t] /\ log'[t] = log[t]
        /\ buffer'[t] = Append(buffer[t], x) /\ reserved'[t] = reserved[t]
    BY <1>4 DEF IInv, TypeOK
  <2>3. Consistent(program[t], pc[t] + 1, 1, Append(buffer[t], x), reg[t], reserved[t], log[t])
    <3>1. x = [a |-> program[t][pc[t]].a, word |-> Swap(Stored(program[t][pc[t]], log[t]))]
      BY <1>2, <1>5 DEF x
    <3>2. program[t][pc[t]].op \in Storing
      BY <1>2, <1>3
    <3> QED BY <1>2, <3>1, <3>2, Facts, StoredThread
  <2> QED BY <1>4, <2>1, <2>2, <2>3, OneThread DEF IInv, TypeOK
<1>8. ASSUME NEW u \in Threads
      PROVE  pc'[u] - Len(buffer'[u]) = pc[u] - Len(buffer[u])
  <2>1. CASE u = t
    <3>1. Len(Append(buffer[t], x)) = Len(buffer[t]) + 1
      BY Facts
    <3>2. pc'[t] = pc[t] + 1 /\ buffer'[t] = Append(buffer[t], x)
      BY <1>4 DEF IInv, TypeOK
    <3> QED BY <2>1, <3>1, <3>2, Facts
  <2>2. CASE u # t
    BY <1>4, <2>2 DEF IInv, TypeOK
  <2> QED BY <2>1, <2>2
<1> QED BY <1>4, <1>7, <1>8, Unseen


LEMMA DrainStep ==
  ASSUME IInv, NEW t \in Threads, Drain(t)
  PROVE  IInv' /\ Sequential!Operate(t)
<1> DEFINE k == pc[t] - Len(buffer[t])
           o == program[t][k]
           x == buffer[t][1]
           y == Stored(o, log[t])
<1>1. /\ buffer[t] # <<>>
      /\ memory' = [memory EXCEPT ![x.a] = x.word] /\ buffer' = [buffer EXCEPT ![t] = Tail(@)]
      /\ UNCHANGED <<program, pc, step, reg, reserved, log>>
  BY DEF Drain
<1>2. /\ Consistent(program[t], pc[t], step[t], Tail(buffer[t]), reg[t], reserved[t], log[t])
      /\ k \in 1..Len(program[t]) /\ o.op \in Storing /\ x = [a |-> o.a, word |-> Swap(y)]
  <2>1. /\ program[t] \in Seq(Operations) /\ pc[t] \in Nat /\ buffer[t] \in Seq(StoreType)
        /\ Consistent(program[t], pc[t], step[t], buffer[t], reg[t], reserved[t], log[t])
    BY Facts
  <2> QED BY <1>1, <2>1, DrainedThread
<1>3. o \in Operations /\ o.a \in Addresses /\ o.v \in Nat /\ k \in Nat
  <2>1. o \in Operations /\ k \in Nat
    BY <1>2, Facts
  <2> QED BY <2>1, ModulusProperties DEF Operations
<1>4. Last(log[t]) \in Nat /\ y \in Words
  <2>1. Last(log[t]) \in Words
    <3>1. CASE log[t] = <<>>
      BY <3>1, ModulusProperties DEF Last
    <3>2. CASE log[t] # <<>>
      <4>1. Len(log[t]) \in 1..Len(log[t])
        BY <3>2, Facts
      <4>2. log[t][Len(log[t])] \in Words
        BY <4>1, Facts, ElementOfSeq
      <4> QED BY <3>2, <4>2 DEF Last
    <3> QED BY <3>1, <3>2
  <2>2. Last(log[t]) \in Nat
    BY <2>1, ModulusProperties
  <2>3. o.v + (IF o.op = "bump" THEN Last(log[t]) ELSE 0) \in Nat
    BY <1>3, <2>2
  <2> QED BY <2>2, <2>3, ModulusProperties DEF Stored
<1>5. Swap(y) \in Words /\ Swap(Swap(y)) = y
  BY <1>4, SwapSwap
<1>6. Tail(buffer[t]) \in Seq(StoreType) /\ Len(Tail(buffer[t])) = Len(buffer[t]) - 1
  BY <1>1, Facts
<1>7. /\ \A u \in Threads \ {t} : buffer'[u] = buffer[u]
      /\ buffer'[t] = Tail(buffer[t])
      /\ memory' = [memory EXCEPT ![o.a] = Swap(y)]
  BY <1>1, <1>2 DEF IInv, TypeOK
<1> HIDE DEF k, o, x, y
<1>8. IInv'
  <2>1. TypeOK'
    <3>1. memory' \in [Addresses -> Words]
      BY <1>5, <1>7 DEF IInv, TypeOK
    <3>2. buffer' \in [Threads -> Seq(StoreType)]
      BY <1>1, <1>6 DEF IInv, TypeOK
    <3> QED BY <1>1, <3>1, <3>2 DEF IInv, TypeOK
  <2> QED BY <1>1, <1>2, <1>7, <2>1, OneThread
<1>9. Sequential!Operate(t)
  <2>1. [u \in Threads |-> Position(u)]' = [[u \in Threads |-> Position(u)] EXCEPT ![t] = @ + 1]
    <3>1. ASSUME NEW u \in Threads
          PROVE  pc'[u] - Len(buffer'[u]) = IF u = t THEN pc[u] - Len(buffer[u]) + 1 ELSE pc[u] - Len(buffer[u])
      <4>1. pc[t] \in Nat /\ Len(buffer[t]) \in Nat /\ pc' = pc
        BY <1>1, Facts
      <4>2. CASE u = t
        <5>1. Len(buffer'[t]) = Len(buffer[t]) - 1
          BY <1>6, <1>7
        <5>2. pc[t] - (Len(buffer[t]) - 1) = pc[t] - Len(buffer[t]) + 1
          BY <4>1
        <5> QED BY <4>1, <4>2, <5>1, <5>2
      <4>3. CASE u # t
        BY <1>7, <4>1, <4>3
      <4> QED BY <4>2, <4>3
    <3> QED BY <3>1 DEF Position
  <2>2. [a \in Addresses |-> Swap(memory[a])]' = [[a \in Addresses |-> Swap(memory[a])] EXCEPT ![o.a] = y]
    <3>1. ASSUME NEW a \in Addresses PROVE Swap(memory'[a]) = IF a = o.a THEN y ELSE Swap(memory[a])
      BY <1>5, <1>7 DEF IInv, TypeOK
    <3>2. [a \in Addresses |-> Swap(memory[a])]' = [a \in Addresses |-> Swap(memory'[a])]
      BY DEF Swap
    <3> QED BY <3>1, <3>2
  <2>3. [u \in Threads |-> Position(u)][t] = k
    BY DEF Position, k
  <2>4. y = IF o.op = "bump" THEN (Sequential!Latest(t) + o.v) % Modulus ELSE o.v % Modulus
    <3>1. Sequential!Latest(t) = Last(log[t])
      BY DEF Sequential!Latest, Last
    <3>2. o.v + 0 = o.v /\ o.v + Last(log[t]) = Last(log[t]) + o.v
      BY <1>3, <1>4
    <3> QED BY <3>1, <3>2 DEF y, Stored
  <2>5. Sequential!Effect(t)
    <3>1. o.op = "store" \/ o.op = "bump"
      BY <1>2 DEF Storing
    <3>2. o = program[t][k] /\ UNCHANGED log
      BY <1>1 DEF o
    <3> QED BY <2>2, <2>3, <2>4, <3>1, <3>2 DEF Sequential!Effect
  <2> QED BY <1>1, <1>2, <2>1, <2>3, <2>5, Facts DEF Sequential!Operate
<1> QED BY <1>8, <1>9

LEMMA LoadReservedStep ==
  ASSUME IInv, NEW t \in Threads, LoadReserved(t)
  PROVE  IInv' /\ UNCHANGED Sequential!seqVars
<1> DEFINE o == Current(t)
           w == Sees(t, o.a)
<1>1. Running(t) /\ Instructions(o)[step[t]] = "lwarx"
  BY DEF LoadReserved, At
<1>2. pc[t] \in 1..Len(program[t]) /\ o = program[t][pc[t]] /\ o \in Operations /\ o.a \in Addresses
  BY <1>1, Facts
<1>3. o.op \in Atomic /\ step[t] = 1 /\ Len(Instructions(o)) = 2
  BY <1>1, <1>2, Facts, Instruction
<1>4. w \in Words /\ Swap(w) \in Words
  BY <1>2, SeesWord, SwapSwap
<1>5. /\ reserved' = [reserved EXCEPT ![t] = w] /\ reg' = [reg EXCEPT ![t] = Swap(w)]
      /\ \/ step' = step /\ pc' = pc
         \/ (o.op = "lock" => Swap(w) = 0) /\ step' = [step EXCEPT ![t] = 2] /\ pc' = pc
      /\ UNCHANGED <<program, memory, buffer, log>>
  <2>1. reserved' = [reserved EXCEPT ![t] = w] /\ reserved \in [Threads -> Words]
    BY DEF LoadReserved, IInv, TypeOK
  <2>2. reserved'[t] = w
    BY <2>1
  <2>3. reg' = [reg EXCEPT ![t] = Swap(w)] /\ reg \in [Threads -> Words]
    BY <2>2 DEF LoadReserved, IInv, TypeOK
  <2>4. reg'[t] = Swap(w)
    BY <2>3
  <2>5. step[t] < Len(Instructions(o)) /\ step[t] + 1 = 2
    BY <1>3
  <2> QED BY <2>1, <2>3, <2>4, <2>5 DEF LoadReserved, Advance
<1> HIDE DEF o, w
<1>6. IInv'
  <2>1. TypeOK'
    BY <1>4, <1>5 DEF IInv, TypeOK
  <2>2. /\ pc'[t] = pc[t] /\ reg'[t] = Swap(w) /\ reserved'[t] = w
        /\ step'[t] = 1 \/ (step'[t] = 2 /\ (o.op = "lock" => Swap(w) = 0))
    BY <1>3, <1>5 DEF IInv, TypeOK
  <2>3. ASSUME NEW s, s = 1 \/ (s = 2 /\ (o.op = "lock" => Swap(w) = 0))
        PROVE  Consistent(program[t], pc[t], s, buffer[t], Swap(w), w, log[t])
    <3>1. Buffered(program[t], pc[t], buffer[t], log[t])
      BY Facts DEF Consistent
    <3> QED BY <1>2, <1>3, <2>3, <3>1, Facts DEF Consistent, Within, Holds
  <2> QED BY <1>5, <2>1, <2>2, <2>3, OneThread DEF IInv, TypeOK
<1> QED BY <1>5, <1>6, Unseen

LEMMA BarrierStep ==
  ASSUME IInv, NEW t \in Threads, Barrier(t)
  PROVE  IInv' /\ UNCHANGED Sequential!seqVars
<1> DEFINE o == Current(t)
<1>1. Running(t) /\ Instructions(o)[step[t]] = "sync"
  BY DEF Barrier, At
<1>2. pc[t] \in 1..Len(program[t]) /\ o = program[t][pc[t]] /\ o \in Operations
  BY <1>1, Facts
<1>3. o.op = "store" /\ step[t] = 1 /\ Len(Instructions(o)) = 2
  BY <1>1, <1>2, Facts, Instruction
<1>4. step' = [step EXCEPT ![t] = 2] /\ UNCHANGED <<program, pc, memory, buffer, reg, reserved, log>>
  <2>1. step[t] < Len(Instructions(o)) /\ step[t] + 1 = 2
    BY <1>3
  <2> QED BY <2>1 DEF Barrier, Advance
<1> HIDE DEF o
<1>5. IInv'
  <2>1. TypeOK'
    BY <1>4 DEF IInv, TypeOK
  <2>2. Consistent(program[t], pc[t], 2, buffer[t], reg[t], reserved[t], log[t])
    <3>1. "store" \notin Atomic
      BY DEF Atomic
    <3>2. Buffered(program[t], pc[t], buffer[t], log[t]) /\ Holds(program[t], pc[t], reg[t], log[t])
      BY Facts DEF Consistent
    <3> QED BY <1>2, <1>3, <3>1, <3>2, Facts DEF Consistent, Within
  <2> QED BY <1>4, <2>1, <2>2, OneThread DEF IInv, TypeOK
<1> QED BY <1>4, <1>5, Unseen


\* A stwcx. that succeeds finds the word its lwarx has read, and the thread's
\* own stores in memory.
LEMMA SwappedThread ==
  ASSUME IInv, NEW t \in Threads, StoreConditional(t), Unchanged(t)
  PROVE  /\ pc[t] \in 1..Len(program[t]) /\ Current(t) = program[t][pc[t]]
         /\ Current(t).op \in Atomic /\ Current(t).a \in Addresses
         /\ reg[t] = Swap(memory[Current(t).a]) /\ (Current(t).op = "lock" => reg[t] = 0)
         /\ New(t) \in Words
         /\ New(t) = (IF Current(t).op = "lock" THEN 1 ELSE reg[t] + Current(t).v) % Modulus
         /\ Len(buffer[t]) = 0
         /\ memory' = [memory EXCEPT ![Current(t).a] = Swap(New(t))]
         /\ log' = [log EXCEPT ![t] = Append(@, reg[t])]
         /\ step' = [step EXCEPT ![t] = 1] /\ pc' = [pc EXCEPT ![t] = @ + 1]
         /\ UNCHANGED <<program, buffer, reg, reserved>>
<1> DEFINE o == Current(t)
<1>1. Running(t) /\ Instructions(o)[step[t]] = "stwcx"
  BY DEF StoreConditional, At
<1>2. pc[t] \in 1..Len(program[t]) /\ o = program[t][pc[t]] /\ o \in Operations /\ o.a \in Addresses
      /\ o.v \in Words
  BY <1>1, Facts
<1>3. o.op \in Atomic /\ step[t] = 2 /\ Len(Instructions(o)) = 2
  BY <1>1, <1>2, Facts, Instruction
<1>4. reg[t] = Swap(reserved[t]) /\ (o.op = "lock" => reg[t] = 0)
  BY <1>2, <1>3, Facts DEF Consistent, Within
<1>5. New(t) \in Words /\ New(t) = (IF o.op = "lock" THEN 1 ELSE reg[t] + o.v) % Modulus
  <2>1. o.v \in Nat /\ reg[t] \in Nat
    BY <1>2, Facts, ModulusProperties
  <2>2. o.v + reg[t] \in Nat /\ o.v + reg[t] = reg[t] + o.v
    BY <2>1
  <2>3. 1 % Modulus = 1 /\ (o.v + reg[t]) % Modulus \in Words /\ 1 \in Words
    BY <2>2, ModulusProperties
  <2> QED BY <2>2, <2>3 DEF New
<1>6. step' = [step EXCEPT ![t] = 1] /\ pc' = [pc EXCEPT ![t] = @ + 1]
  <2>1. ~(step[t] < Len(Instructions(o)))
    BY <1>3
  <2> QED BY <2>1 DEF StoreConditional, Advance
<1> QED BY <1>2, <1>3, <1>4, <1>5, <1>6 DEF StoreConditional, Unchanged

LEMMA SwapStep ==
  ASSUME IInv, NEW t \in Threads, StoreConditional(t), Unchanged(t)
  PROVE  IInv' /\ Sequential!Operate(t)
<1>1. PICK o, new : o = Current(t) /\ new = New(t)
  OBVIOUS
<1>2. /\ pc[t] \in 1..Len(program[t]) /\ o = program[t][pc[t]]
      /\ o.op \in Atomic /\ o.a \in Addresses
      /\ reg[t] = Swap(memory[o.a]) /\ (o.op = "lock" => reg[t] = 0)
      /\ new \in Words
      /\ new = (IF o.op = "lock" THEN 1 ELSE reg[t] + o.v) % Modulus
      /\ Len(buffer[t]) = 0
      /\ memory' = [memory EXCEPT ![o.a] = Swap(new)]
      /\ log' = [log EXCEPT ![t] = Append(@, reg[t])]
      /\ step' = [step EXCEPT ![t] = 1] /\ pc' = [pc EXCEPT ![t] = @ + 1]
      /\ UNCHANGED <<program, buffer, reg, reserved>>
  BY <1>1, SwappedThread
<1>3. Swap(new) \in Words /\ Swap(Swap(new)) = new
  BY <1>2, SwapSwap
<1>4. IInv'
  <2>1. TypeOK'
    <3>1. memory' \in [Addresses -> Words] /\ pc' \in [Threads -> Nat] /\ step' \in [Threads -> {1, 2}]
      BY <1>2, <1>3 DEF IInv, TypeOK
    <3>2. log' \in [Threads -> Seq(Words)]
      <4>1. Append(log[t], reg[t]) \in Seq(Words)
        BY Facts
      <4> QED BY <1>2, <4>1 DEF IInv, TypeOK
    <3> QED BY <1>2, <3>1, <3>2 DEF IInv, TypeOK
  <2>2. /\ pc'[t] = pc[t] + 1 /\ step'[t] = 1 /\ reg'[t] = reg[t] /\ log'[t] = Append(log[t], reg[t])
        /\ buffer'[t] = buffer[t] /\ reserved'[t] = reserved[t]
    BY <1>2 DEF IInv, TypeOK
  <2>3. Consistent(program[t], pc[t] + 1, 1, buffer[t], reg[t], reserved[t], Append(log[t], reg[t]))
    BY <1>2, Facts, LoadedThread
  <2>4. \A u \in Threads \ {t} :
          /\ pc'[u] = pc[u] /\ step'[u] = step[u] /\ buffer'[u] = buffer[u]
          /\ reg'[u] = reg[u] /\ reserved'[u] = reserved[u] /\ log'[u] = log[u]
    BY <1>2 DEF IInv, TypeOK
  <2> QED BY <1>2, <2>1, <2>2, <2>3, <2>4, OneThread
<1>5. Sequential!Operate(t)
  <2>1. [u \in Threads |-> Position(u)]' = [[u \in Threads |-> Position(u)] EXCEPT ![t] = @ + 1]
    <3>1. ASSUME NEW u \in Threads
          PROVE  pc'[u] - Len(buffer'[u]) = IF u = t THEN pc[u] - Len(buffer[u]) + 1 ELSE pc[u] - Len(buffer[u])
      BY <1>2, Facts DEF IInv, TypeOK
    <3> QED BY <3>1 DEF Position
  <2>2. [a \in Addresses |-> Swap(memory[a])]' = [[a \in Addresses |-> Swap(memory[a])] EXCEPT ![o.a] = new]
    <3>1. ASSUME NEW a \in Addresses PROVE Swap(memory'[a]) = IF a = o.a THEN new ELSE Swap(memory[a])
      BY <1>2, <1>3 DEF IInv, TypeOK
    <3>2. [a \in Addresses |-> Swap(memory[a])]' = [a \in Addresses |-> Swap(memory'[a])]
      BY DEF Swap
    <3> QED BY <3>1, <3>2
  <2>3. [u \in Threads |-> Position(u)][t] = pc[t] /\ [a \in Addresses |-> Swap(memory[a])][o.a] = reg[t]
    BY <1>2, Facts DEF Position
  <2>4. Sequential!Effect(t)
    <3>1. o.op = "add" \/ o.op = "lock"
      BY <1>2 DEF Atomic
    <3> QED BY <1>2, <2>2, <2>3, <3>1 DEF Sequential!Effect
  <2> QED BY <1>2, <2>1, <2>3, <2>4, Facts DEF Sequential!Operate
<1> QED BY <1>4, <1>5

LEMMA RetryStep ==
  ASSUME IInv, NEW t \in Threads, StoreConditional(t), ~Unchanged(t)
  PROVE  IInv' /\ UNCHANGED Sequential!seqVars
<1> DEFINE o == Current(t)
<1>1. Running(t) /\ Instructions(o)[step[t]] = "stwcx"
  BY DEF StoreConditional, At
<1>2. pc[t] \in 1..Len(program[t]) /\ o = program[t][pc[t]] /\ o \in Operations
  BY <1>1, Facts
<1>3. o.op \in Atomic /\ step[t] = 2
  BY <1>1, <1>2, Facts, Instruction
<1>4. step' = [step EXCEPT ![t] = 1] /\ UNCHANGED <<program, pc, memory, buffer, reg, reserved, log>>
  BY <1>3 DEF StoreConditional
<1> HIDE DEF o
<1>5. IInv'
  <2>1. TypeOK'
    BY <1>4 DEF IInv, TypeOK
  <2>2. Consistent(program[t], pc[t], 1, buffer[t], reg[t], reserved[t], log[t])
    BY Facts DEF Consistent, Within
  <2> QED BY <1>4, <2>1, <2>2, OneThread DEF IInv, TypeOK
<1> QED BY <1>4, <1>5, Unseen

LEMMA Step ==
  ASSUME IInv, [Next]_vars
  PROVE  IInv' /\ [\E t \in Threads : Sequential!Operate(t)]_(Sequential!seqVars)
<1>1. CASE \E t \in Threads : Run(t) \/ Drain(t)
  <2>1. PICK t \in Threads : Run(t) \/ Drain(t)
    BY <1>1
  <2> QED BY <2>1, LoadStep, StoreStep, LoadReservedStep, SwapStep, RetryStep, BarrierStep, DrainStep DEF Run
<1>2. CASE UNCHANGED vars
  <2>1. IInv'
    BY <1>2 DEF vars, IInv, TypeOK, ThreadInv
  <2>2. UNCHANGED Sequential!seqVars
    BY <1>2, Unseen DEF vars
  <2> QED BY <2>1, <2>2
<1> QED BY <1>1, <1>2 DEF Next

\* The inductive invariant: the buffer of each thread holds the stores of its last
\* operations, and the register what the thread has read.
THEOREM Invariant == Spec => []IInv
<1>1. IInv /\ [Next]_vars => IInv'
  BY Step
<1> QED BY <1>1, InitStep, PTL DEF Spec

\* The refinement: whatever the interleaving of the threads and the delay of their
\* stores, loads, stores and atomic sequences take effect one at a time and in
\* program order.
THEOREM SequentialFollowed == Spec => FollowsSequential
<1>1. IInv /\ [Next]_vars => [\E t \in Threads : Sequential!Operate(t)]_(Sequential!seqVars)
  BY Step
<1>2. Init => Sequential!SeqInit
  BY InitStep
<1> QED BY <1>1, <1>2, Invariant, PTL DEF Spec, FollowsSequential, Sequential!SeqSpec
=============================================================================
