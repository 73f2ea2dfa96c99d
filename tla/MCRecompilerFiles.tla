--------------------------- MODULE MCRecompilerFiles ---------------------------
EXTENDS RecompilerFiles, TLC

MCCompatible == {<<"x1", "p1">>, <<"x2", "p2">>}

T(n, b) == [size |-> n, body |-> b]

\* The first text is the same for all images; the second differs between two
\* images of one size; the third exists for the larger images only.
MCTexts ==
  (<<"x1", None>>   :> <<T(1, "a"), T(2, "b")>>) @@
  (<<"x2", None>>   :> <<T(1, "a"), T(2, "c")>>) @@
  (<<"x1", "p1">>   :> <<T(1, "a"), T(3, "d"), T(1, "e")>>) @@
  (<<"x2", "p2">>   :> <<T(1, "a"), T(2, "b"), T(1, "f")>>) @@
  (<<"torn", "torn">> :> <<T(1, "a")>>)
=============================================================================
