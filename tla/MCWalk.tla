------------------------------- MODULE MCWalk -------------------------------
\* A subtree with a grandchild of Root, and an object behind it.
EXTENDS Walk

MCRoot == <<1>>
MCOids == {<<1, 1>>, <<1, 1, 1>>, <<1, 2>>, <<1, 3>>, <<2>>}
=============================================================================
