------------------------- MODULE MCFunctionAnalyze -------------------------
EXTENDS FunctionAnalyze

\* Branches to every word of the region, to the word before it and to the two
\* words after it.
MCTargets == -1 .. (Words + 1)

MCInsns ==
  [op : {"plain", "end", "condret"}, t : {0}] \cup [op : {"b", "bc"}, t : MCTargets]
=============================================================================
