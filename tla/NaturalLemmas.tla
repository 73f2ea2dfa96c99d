---------------------------- MODULE NaturalLemmas ----------------------------
(***************************************************************************)
(* Least and greatest elements of sets of naturals, bounds of finite ones, *)
(* and the position of an element among finitely many: what the proofs     *)
(* about several modules need of FiniteSetsExt's Max and Min, and of lists *)
(* arranged by counting.                                                   *)
(***************************************************************************)
EXTENDS Integers, FiniteSets, FiniteSetsExt, FiniteSetTheorems, WellFoundedInduction, TLAPS

\* Every nonempty set of naturals has a least element.
LEMMA LeastNatural ==
  ASSUME NEW S, S \subseteq Nat, S # {}
  PROVE  \E m \in S : \A n \in S : m <= n
<1>1. \A x, y \in Nat : y < x => <<y, x>> \in OpToRel(<, Nat)
  BY DEF OpToRel
<1>2. \E x \in S : \A y \in S : ~ (y < x)
  BY <1>1, NatLessThanWellFounded, WFMin, Zenon
<1> QED BY <1>2

\* Max returns the greatest element of a nonempty bounded set of naturals.
LEMMA MaxNat ==
  ASSUME NEW S, S \subseteq Nat, S # {}, NEW b \in Nat, \A n \in S : n <= b
  PROVE  Max(S) \in S /\ \A n \in S : n <= Max(S)
<1> DEFINE U == {m \in Nat : \A n \in S : n <= m}
<1>1. U \subseteq Nat /\ U # {}
  OBVIOUS
<1>2. PICK m \in U : \A n \in U : m <= n
  <2> HIDE DEF U
  <2> QED BY <1>1, LeastNatural
<1>3. m \in S
  <2> SUFFICES ASSUME m \notin S PROVE FALSE
    OBVIOUS
  <2>1. \A n \in S : n < m
    BY <1>2
  <2>2. m # 0
    <3> PICK n \in S : TRUE
      OBVIOUS
    <3> QED BY <2>1
  <2>3. m - 1 \in U
    BY <1>2, <2>1, <2>2
  <2> QED BY <1>2, <2>3
<1>4. \E x \in S : \A y \in S : x >= y
  BY <1>2, <1>3
<1> QED BY <1>4 DEF Max

\* The smaller of two naturals.
LEMMA MinOfTwo ==
  ASSUME NEW a \in Nat, NEW b \in Nat
  PROVE  Min({a, b}) \in {a, b} /\ Min({a, b}) <= a /\ Min({a, b}) <= b
<1>1. \E x \in {a, b} : \A y \in {a, b} : x =< y
  OBVIOUS
<1> QED BY <1>1 DEF Min

\* Min returns the least element of a nonempty set of naturals.
LEMMA MinNat ==
  ASSUME NEW S, S \subseteq Nat, S # {}
  PROVE  Min(S) \in S /\ \A n \in S : Min(S) <= n
<1>1. \E x \in S : \A y \in S : x =< y
  BY LeastNatural
<1> QED BY <1>1 DEF Min

\* Finitely many naturals have a common bound.
LEMMA BoundedFunction ==
  ASSUME NEW n \in Nat, NEW f \in [1..n -> Nat]
  PROVE  \E b \in Nat : \A i \in 1..n : f[i] <= b
<1> DEFINE Bounded(k) == \E b \in Nat : \A i \in 1..k : f[i] <= b
           U == {k \in 0..n : ~Bounded(k)}
<1>1. Bounded(0)
  OBVIOUS
<1>2. ASSUME NEW k \in 1..n, Bounded(k - 1)
      PROVE  Bounded(k)
  <2>1. PICK b \in Nat : \A i \in 1..(k - 1) : f[i] <= b
    BY <1>2
  <2>2. f[k] \in Nat /\ b + f[k] \in Nat
    OBVIOUS
  <2>3. ASSUME NEW i \in 1..k PROVE f[i] <= b + f[k]
    <3>1. f[i] \in Nat /\ (i # k => i \in 1..(k - 1))
      OBVIOUS
    <3>2. CASE i = k
      BY <2>2, <3>2
    <3>3. CASE i # k
      BY <2>1, <2>2, <3>1, <3>3
    <3> QED BY <3>2, <3>3
  <2> QED BY <2>2, <2>3
<1> HIDE DEF Bounded
<1>3. U = {}
  <2> SUFFICES ASSUME U # {} PROVE FALSE
    OBVIOUS
  <2>1. PICK k \in U : \A j \in U : k <= j
    <3>1. U \subseteq Nat
      OBVIOUS
    <3> HIDE DEF U
    <3> QED BY <3>1, LeastNatural
  <2>2. k \in 1..n /\ ~Bounded(k)
    BY <1>1
  <2>3. k - 1 \notin U /\ k - 1 \in 0..n
    BY <2>1, <2>2
  <2> QED BY <1>2, <2>2, <2>3
<1>4. Bounded(n)
  BY <1>3
<1> QED BY <1>4 DEF Bounded

\* A finite set of naturals has a bound.
LEMMA FiniteBounded ==
  ASSUME NEW S, S \subseteq Nat, IsFiniteSet(S)
  PROVE  \E b \in Nat : \A n \in S : n <= b
<1>1. PICK n \in Nat : ExistsSurjection(1..n, S)
  BY FS_NatSurjection
<1>2. PICK f : f \in [1..n -> S] /\ \A s \in S : \E i \in 1..n : f[i] = s
  BY <1>1 DEF ExistsSurjection, Surjection
<1>3. f \in [1..n -> Nat]
  BY <1>2
<1> QED BY <1>2, <1>3, BoundedFunction

\* A function that is one-to-one from a finite set to a set of the same size
\* reaches every element of it.
LEMMA PigeonHole ==
  ASSUME NEW S, IsFiniteSet(S), NEW T, IsFiniteSet(T), Cardinality(S) = Cardinality(T),
         NEW f \in [S -> T], \A x, y \in S : f[x] = f[y] => x = y
  PROVE  \A t \in T : \E x \in S : f[x] = t
<1>1. f \in Injection(S, T)
  BY DEF Injection, IsInjective
<1>2. f \in Surjection(S, T)
  BY <1>1, FS_Injection
<1> QED BY <1>2 DEF Surjection

\* Elements that each come with the set of those up to them, a chain, are numbered
\* by the sizes of these sets: every number up to the size of the whole is one of
\* them, and a greater number has the greater set.
LEMMA Numbering ==
  ASSUME NEW S, IsFiniteSet(S), NEW B \in [S -> SUBSET S],
         \A x \in S : x \in B[x],
         \A x, y \in S :
           x # y =>
             \/ B[x] \subseteq B[y] /\ y \notin B[x]
             \/ B[y] \subseteq B[x] /\ x \notin B[y]
  PROVE  /\ \A k \in 1..Cardinality(S) : \E x \in S : Cardinality(B[x]) = k
         /\ \A x, y \in S : Cardinality(B[x]) <= Cardinality(B[y]) => B[x] \subseteq B[y]
<1> DEFINE rank == [x \in S |-> Cardinality(B[x])]
<1>1. ASSUME NEW x \in S
      PROVE  IsFiniteSet(B[x]) /\ Cardinality(B[x]) \in 1..Cardinality(S)
  <2>1. IsFiniteSet(B[x]) /\ Cardinality(B[x]) <= Cardinality(S)
    BY FS_Subset
  <2>2. Cardinality(B[x]) \in Nat /\ Cardinality(S) \in Nat /\ Cardinality(B[x]) # 0
    BY <2>1, FS_CardinalityType, FS_EmptySet
  <2> QED BY <2>1, <2>2
<1>2. ASSUME NEW x \in S, NEW y \in S, B[x] \subseteq B[y], y \notin B[x]
      PROVE  Cardinality(B[x]) < Cardinality(B[y])
  <2>1. IsFiniteSet(B[y]) /\ Cardinality(B[x]) \in Int /\ Cardinality(B[y]) \in Int
    BY <1>1
  <2>2. Cardinality(B[x]) <= Cardinality(B[y]) /\ (Cardinality(B[x]) = Cardinality(B[y]) => B[x] = B[y])
    BY <1>2, <2>1, FS_Subset
  <2>3. B[x] # B[y]
    BY <1>2
  <2> QED BY <2>1, <2>2, <2>3
<1>3. rank \in [S -> 1..Cardinality(S)]
  BY <1>1
<1>4. Cardinality(S) \in Nat
  BY FS_CardinalityType
<1>5. IsFiniteSet(1..Cardinality(S)) /\ Cardinality(1..Cardinality(S)) = Cardinality(S)
  BY <1>4, FS_Interval
<1>6. ASSUME NEW x \in S, NEW y \in S, rank[x] = rank[y] PROVE x = y
  <2>1. Cardinality(B[x]) = Cardinality(B[y]) /\ Cardinality(B[x]) \in Int
    BY <1>1, <1>6
  <2> QED BY <1>2, <2>1
<1>7. \A k \in 1..Cardinality(S) : \E x \in S : rank[x] = k
  <2>1. \A x, y \in S : rank[x] = rank[y] => x = y
    BY <1>6
  <2> DEFINE T == 1..Cardinality(S)
  <2>2. rank \in [S -> T] /\ IsFiniteSet(T) /\ Cardinality(S) = Cardinality(T)
    BY <1>3, <1>5
  <2> HIDE DEF rank, T
  <2>3. IsFiniteSet(S)
    OBVIOUS
  <2>4. \A k \in T : \E x \in S : rank[x] = k
    BY ONLY <2>1, <2>2, <2>3, PigeonHole
  <2> QED BY <2>4 DEF T
<1>8. ASSUME NEW x \in S, NEW y \in S, Cardinality(B[x]) <= Cardinality(B[y])
      PROVE  B[x] \subseteq B[y]
  <2>1. ~(Cardinality(B[y]) < Cardinality(B[x]))
    BY <1>1, <1>8
  <2> QED BY <1>2, <2>1
<1> QED BY <1>7, <1>8
==============================================================================
