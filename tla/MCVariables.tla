----------------------------- MODULE MCVariables -----------------------------
\* A plain text with a separator in it, one with a quote and the empty one, and a
\* clock that is set back and forward.
EXTENDS Variables

MCTexts == {<<>>, <<7, Separator, 8>>, <<7, Quote>>}
MCClocks == {-3, 0, 2}
=============================================================================
