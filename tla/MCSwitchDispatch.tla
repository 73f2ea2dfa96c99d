--------------------------- MODULE MCSwitchDispatch ---------------------------
EXTENDS SwitchDispatch

Types == {"absolute", "computed", "byteoffset", "shortoffset"}
Guards == {"none", "bgt", "bgtlr", "ble"}

Nops(n) == [k \in 1 .. n |-> [op |-> "nop"]]

\* Nothing, another compare, or so much that the range check is just within or
\* just beyond the reach of 14.
Gaps == {<<>>, <<[op |-> "cmplwi", cr |-> 0, ra |-> 3, imm |-> 1]>>, Nops(11), Nops(12)}

Single(types, guards, gaps, biases, cases, cuts) ==
  [type : types, guard : guards, gap : gaps, bias : biases, cases : cases, cut : cuts]

\* One dispatch in every form; two in one section or in two, in some forms.
MCLayouts ==
  {<<<<d>>>> : d \in Single(Types, Guards, Gaps, {0, 2, -2}, {1, 3}, BOOLEAN)}
  \cup {<<<<d, e>>>> : d \in Single(Types, {"bgt", "ble"}, {<<>>}, {0}, {2}, {FALSE}),
                       e \in Single(Types, {"none", "bgtlr"}, {<<>>}, {0, 2}, {2}, {FALSE})}
  \cup {<<<<d>>, <<e>>>> : d \in Single(Types, {"bgt"}, {<<>>}, {0}, {2}, BOOLEAN),
                           e \in Single(Types, {"ble"}, {<<>>}, {2}, {2}, {FALSE})}

MCValues == {0, 1, 2, 3, 4, 4094, 4095}
===============================================================================
