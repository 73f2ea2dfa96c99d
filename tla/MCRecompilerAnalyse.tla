------------------------ MODULE MCRecompilerAnalyse ------------------------
EXTENDS RecompilerAnalyse, TLC

\* Code at 1..3 with data right behind it, nothing at 5, code at 6..7.
MCSections ==
  <<[base |-> 1, size |-> 3, code |-> TRUE],
    [base |-> 4, size |-> 1, code |-> FALSE],
    [base |-> 6, size |-> 2, code |-> TRUE]>>

\* Two families of two helpers: one word each, and one word for two.
MCFamilies ==
  <<[first |-> 14, last |-> 16, stride |-> 1, extra |-> 1],
    [first |-> 15, last |-> 16, stride |-> 2, extra |-> 1]>>

Addresses == 1 .. 8

Plain == [op |-> "plain", n |-> 0]

\* At most one call and one invalid instruction.
MCWords ==
  {[a \in Addresses |->
      IF a = c.at THEN [op |-> "bl", n |-> c.to]
      ELSE IF a = v.at THEN [op |-> "invalid", n |-> v.span] ELSE Plain] :
     c \in {[at |-> 0, to |-> 0]} \cup [at : {2, 7}, to : {1, 3, 6, 4}],
     v \in {[at |-> 0, span |-> 0]} \cup [at : {3}, span : {0, 4}]}

MCPdata ==
  {<<>>} \cup {<<[begin |-> b, length |-> n], [begin |-> 6, length |-> 1]>> :
                 b \in {0, 2, 5, 6}, n \in {0, 9}}

MCConfigured ==
  {<<>>} \cup {(1 :> n) @@ (5 :> 1) : n \in {0, 1, 7}}

MCTables == {{}} \cup {{[base |-> 1, labels |-> {1, l}]} : l \in {2, 3, 4}}

\* The loader names an import thunk at 6, or none.
MCInputs ==
  [helpers : {<<0, 0>>, <<1, 2>>}, configured : MCConfigured, pdata : MCPdata,
   imports : {<<>>, <<Symbol(6, 2)>>}, words : MCWords, tables : MCTables]
=============================================================================
