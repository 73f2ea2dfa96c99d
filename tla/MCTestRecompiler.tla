----------------------------- MODULE MCTestRecompiler -----------------------------
EXTENDS TestRecompiler

Test(name, k, code, outputs, remark, gap) ==
  [name |-> name, inputs |-> <<10 * k, 10 * k + 1>>, code |-> code, outputs |-> outputs,
   remark |-> remark, gap |-> gap]

\* Code that returns, that skips a return, with padding, with an instruction that
\* has no translation, without a return
Codes == {<<"plain", "end">>, <<"skip", "end", "end">>, <<"end", "zero">>, <<"odd", "end">>, <<"plain">>}

Tests(name, k) ==
  {Test(name, k, c, <<ConditionRegister, 10 * k + 5>>, FALSE, TRUE) : c \in Codes}
  \cup {Test(name, k, <<"plain", "end">>, <<>>, FALSE, TRUE),
        Test(name, k, <<"plain", "end">>, <<10 * k + 5, 10 * k + 6>>, TRUE, TRUE),
        Test(name, k, <<"plain", "end">>, <<10 * k + 5>>, FALSE, FALSE)}

Section(code) == [type |-> ProgBits, address |-> 0, at |-> 0, size |-> 9, code |-> code]
Object(first) ==
  [segments |-> <<>>,
   sections |-> <<[Section(FALSE) EXCEPT !.type = Inactive], Section(first), Section(~first)>>]

Suite(ts, disassembled, listed, first) ==
  [tests |-> ts, disassembled |-> disassembled, listed |-> listed, object |-> Object(first)]

MCDirectories ==
  {<<Suite(<<a, b>>, TRUE, TRUE, TRUE), c>> :
     a \in Tests(1, 1), b \in Tests(2, 2),
     c \in {Suite(<<t>>, TRUE, TRUE, TRUE) : t \in Tests(3, 3) \cup Tests(2, 4)}
           \cup {Suite(<<t, t2>>, TRUE, TRUE, TRUE) : t \in Tests(3, 3), t2 \in Tests(4, 5)}
           \cup {Suite(<<t>>, d, l, f) : t \in Tests(3, 3), d \in BOOLEAN, l \in BOOLEAN, f \in BOOLEAN}}
===============================================================================
