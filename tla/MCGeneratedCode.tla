--------------------------- MODULE MCGeneratedCode ---------------------------
EXTENDS GeneratedCode, TLC

Plain(ops) == [op : ops, t : {0}]

Function(words, tables, hooks, size) ==
  [words |-> words, tables |-> tables, hooks |-> hooks, size |-> size]

\* Branches back, forward and to the word behind the function.
Branches == [op : {"b", "bc", "bdz"}, t : {0, 2, 3}]

\* Three words of every kind, without tables and hooks.
Straight ==
  {Function(w, <<>>, <<>>, 3) :
     w \in [0 .. 2 -> Branches \cup Plain({"other", "fpu", "vmx", "mtfsf", "bl", "setjmp",
                                           "blr", "condlr", "bctr"})]}

\* Floating point around switches; a table may begin before its bctr, and a
\* case may lie outside.
Switches ==
  {Function(w, tbl, <<>>, 3) :
     w \in [0 .. 2 -> Plain({"fpu", "vmx", "bctr", "mffs"}) \cup [op : {"bc"}, t : {0}]],
     tbl \in {0 :> {0, 2}, 1 :> {0, 3}, 2 :> {1}}}

\* The second table begins behind the bctr of the first.
TwoSwitches ==
  {Function([p \in 0 .. 2 |-> IF p = 2 THEN [op |-> "bctr", t |-> 0] ELSE w[p]],
            (0 :> {1, 2}) @@ (n :> {0}), <<>>, 3) :
     w \in {v \in [0 .. 1 -> Plain({"fpu", "vmx", "bctr"})] : \E p \in 0 .. 1 : v[p].op = "bctr"},
     n \in {2}}

\* A hook before or after the word in the middle.
MCHooks ==
  {[after |-> a, falls |-> e.falls, leaves |-> e.leaves, gotos |-> e.gotos] :
     a \in BOOLEAN,
     e \in {[falls |-> TRUE,  leaves |-> FALSE, gotos |-> {}],
            [falls |-> FALSE, leaves |-> TRUE,  gotos |-> {0}],
            [falls |-> TRUE,  leaves |-> FALSE, gotos |-> {2}],
            [falls |-> FALSE, leaves |-> FALSE, gotos |-> {0, 2}]}}

HookedFunctions ==
  {Function(w, <<>>, 1 :> h, 3) :
     w \in [0 .. 2 -> Plain({"fpu", "vmx", "bl", "setjmp", "blr"}) \cup [op : {"bc"}, t : {2}]],
     h \in MCHooks}

\* The section ends one word before the function does.
CutOff ==
  {Function(w, <<>>, <<>>, 4) :
     w \in [0 .. 2 -> Plain({"fpu", "vmx"}) \cup [op : {"bc"}, t : {0, 3}]]}

MCInputs == Straight \cup Switches \cup TwoSwitches \cup HookedFunctions \cup CutOff
=============================================================================
