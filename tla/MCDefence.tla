------------------------------ MODULE MCDefence ------------------------------
\* Places of the board for TLC.
EXTENDS Defence

Middle == {<<1, 1>>, <<3, 1>>, <<2, 2>>, <<4, 5>>, <<1, 4>>, <<4, 2>>, <<5, 3>>}
=============================================================================
