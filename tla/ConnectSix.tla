----------------------------- MODULE ConnectSix -----------------------------
(***************************************************************************)
(* The rules of connect-six that the move code of connect_six.js and the   *)
(* opening of consix.cpp are written for: Black opens with one stone       *)
(* and from then on the sides take turns to put two stones on empty        *)
(* places.  The end of the game is not part of the rules the two ends of a *)
(* connection share: neither refuses a move after a row of six.            *)
(***************************************************************************)
CONSTANTS Cell, BLACK, WHITE, EMPTY

VARIABLES board, turn

vars == <<board, turn>>

Other(side) == IF side = BLACK THEN WHITE ELSE BLACK

Init == board = [c \in Cell |-> EMPTY] /\ turn = BLACK

\* The opening stone.
Open(c) == /\ \A d \in Cell : board[d] = EMPTY
           /\ board' = [board EXCEPT ![c] = BLACK]
           /\ turn = BLACK /\ turn' = WHITE

Move(c, d) == /\ \E e \in Cell : board[e] # EMPTY
              /\ c # d /\ board[c] = EMPTY /\ board[d] = EMPTY
              /\ board' = [board EXCEPT ![c] = turn, ![d] = turn]
              /\ turn' = Other(turn)

Next == \/ \E c \in Cell : Open(c)
        \/ \E c, d \in Cell : Move(c, d)

Spec == Init /\ [][Next]_vars
=============================================================================
