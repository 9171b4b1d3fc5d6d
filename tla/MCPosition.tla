----------------------------- MODULE MCPosition -----------------------------
\* Areas of the board for TLC.
EXTENDS Position

Row      == {<<0, 0>>, <<1, 0>>, <<2, 0>>, <<3, 0>>}
Triangle == Row \cup {<<0, 1>>, <<0, 2>>, <<0, 3>>, <<1, 2>>, <<2, 1>>}
=============================================================================
