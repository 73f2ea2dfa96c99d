--------------------------- MODULE FunctionExtent ---------------------------
(***************************************************************************)
(* What Function::Analyze promises its callers: given the words that follow *)
(* a function's first address, it reports how far the function extends.    *)
(*                                                                         *)
(* A program is a function from word indices (relative to the function's   *)
(* base) to instructions.  Only what an instruction does to control flow   *)
(* is kept:                                                                *)
(*   "plain"    no effect (this includes every linking branch: bl, bctrl)  *)
(*   "end"      ends the path: blr, bctr, a zero padding word, or a word   *)
(*              the disassembler does not know                             *)
(*   "condret"  conditional blr/bctr: falls through or leaves              *)
(*   "b", "bc"  branch, conditional branch, to word index t                *)
(***************************************************************************)
EXTENDS Integers

CONSTANTS
  Words    \* whole words in the analysed region

VARIABLES
  code,    \* [0..Words -> instruction]: the region and the word after it
  tail,    \* 1 when the region ends with a fraction of a word, otherwise 0
  done,    \* has the analysis returned
  size     \* the reported size, in words

absVars == <<code, tail, done, size>>

\* (size + 3) & ~3: the largest size that may be reported.
RegionWords == Words + tail

ShiftedTailCall == code[1] = [op |-> "b", t |-> 2]

\* Where control goes from word i within the function.  A branch below the
\* base, and a conditional branch out of the region, is a tail call.
Successors(i) ==
  LET w == code[i] IN
  CASE w.op \in {"plain", "condret"}  -> {i + 1}
    [] w.op = "b"                     -> {w.t} \cap Nat
    [] w.op = "bc"                    -> {i + 1} \cup ({w.t} \cap 0..(RegionWords - 1))
    [] OTHER                          -> {}

\* S holds the entry and everything S leads to.
Closed(S) ==
  /\ 0 \in S
  /\ \A i \in S \cap 0..Words : \A j \in Successors(i) : j \in 0..Words => j \in S

Reachable == {i \in 0..Words : \A S \in SUBSET (0..Words) : Closed(S) => i \in S}

\* The length of the run of words of R that starts at the base.
Extent(R) ==
  CHOOSE n \in 0..(Words + 1) : 0..(n - 1) \subseteq R /\ n \notin R

\* Code on which the size is determined: no reachable path leaves the region
\* other than through a tail call or return, and no conditional branch goes
\* to the instruction after itself.
Regular(R) ==
  \A i \in R :
    /\ Successors(i) \subseteq 0..(Words - 1)
    /\ ~(code[i].op = "bc" /\ code[i].t = i + 1)

\* What may be reported when R is the code reachable from the base.
Reportable(R) ==
  {n \in 1..RegionWords : n <= Extent(R) /\ (Regular(R) => n = Extent(R))}

AbsInit == done = FALSE /\ size = 0

Report ==
  /\ ~done
  /\ done' = TRUE
  /\ UNCHANGED <<code, tail>>
  /\ size' \in IF ShiftedTailCall THEN {2} ELSE Reportable(Reachable)

AbsSpec == AbsInit /\ [][Report]_absVars
=============================================================================
