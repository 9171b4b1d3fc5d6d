------------------------------ MODULE Defence ------------------------------
(***************************************************************************)
(* What the engine makes of threats (consix/search.cpp).  A side threatens *)
(* where its next two stones could make a row; ThreatNum is how many       *)
(* stones it takes to meet all that it threatens.  The search plays by it: *)
(* with a threat of its own it wins, more than two of the other side it    *)
(* takes for lost, and one or two it answers.                              *)
(*                                                                         *)
(* GetAllLineInfor is called here with which = 0 or 1; with 2, 3 and 7 it  *)
(* leaves the list of lines empty and ThreatNum is the bare sum, which the *)
(* ordering and the leaves of the search use (AdjustStepValue, Discount).  *)
(*                                                                         *)
(* AnalyzeLine finds the number of a line by the shape table; here it is   *)
(* what the table holds: 1, 2, or 3 for more than 2.  EnsureThreatNum puts *)
(* the lines together: it tries stones on the threat points, and looks     *)
(* with AnalyzeLineSegID whether a row is still to be had.                 *)
(***************************************************************************)
EXTENDS Position

\* A threat has stones of its side already.
ASSUME ThreatAssumption == 2 < Six

\* The least number of places that meet each of some sets, if it is 1 or 2.
Meet(places, sets) == \A s \in sets : s \cap places # {}
Pairs(points)      == {xy \in {{x, y} : x, y \in points} : Cardinality(xy) = 2}
Least(sets) == LET points == UNION sets IN
  IF sets = {} THEN 0
  ELSE IF \E p \in points : Meet({p}, sets) THEN 1
  ELSE IF \E xy \in Pairs(points) : Meet(xy, sets) THEN 2
  ELSE 3

LineThreatNum(id, side) == Least(ThreatSets(LineInfo[side][id][0], side))

\* The direction of a line, by the ranges of their numbers.
Direction(id) == IF id < N THEN 0
                 ELSE IF id < 2 * N THEN 2
                 ELSE IF id < 2 * N + (2 * N - 2 * Six + 1) THEN 1
                 ELSE 3

\* The board with stones of a side on a set of places.
With(board, places, side) == [p \in Point |-> IF p \in places THEN side ELSE board[p]]

\* A row that stones on one or two places make is found from one of them.
RowSeen(board, places, side) ==
  \E p \in places, k \in Angle : SegHasRow(With(board, places, side), p, k, side)

\* The threat points, one or two at a time, whose stones make a row.
Rows(side) == {xy \in {{x, y} : x, y \in ThreatPoint(side)} : RowSeen(Board, xy, side)}

\* Mutant: only the rows that one stone makes are looked for.
DefendedSingle(rows, stones, side) == LET board == With(Board, stones, NEXT(side)) IN
  \A xy \in rows : xy \cap stones # {} \/ Cardinality(xy) = 2 \/ ~RowSeen(board, xy, side)

\* Defend in the loops: with stones of the other side on some threat points no
\* row is found that stones on the others make.
Defended(rows, stones, side) == LET board == With(Board, stones, NEXT(side)) IN
  \A xy \in rows : xy \cap stones # {} \/ ~RowSeen(board, xy, side)

\* Mutant: two stones are not tried.
EnsureThreatNumOnce(side, sum) == LET rows == Rows(side) IN
  IF \E p \in ThreatPoint(side) : Defended(rows, {p}, side) THEN 1 ELSE sum

\* One stone on a threat point, then two.
EnsureThreatNum(side, sum) == LET rows == Rows(side) IN
  IF \E p \in ThreatPoint(side) : Defended(rows, {p}, side) THEN 1
  ELSE IF \E xy \in Pairs(ThreatPoint(side)) : Defended(rows, xy, side) THEN 2
  ELSE sum

\* ThreatNum of GetAllLineInfor: the sum over the lines if they are parallel.
ThreatNum(side) ==
  LET sum   == SumFunction([id \in LineIDs |-> LineThreatNum(id, side)])
      lines == {id \in LineIDs : ThreatOf(LineInfo[side][id][1], side) # {}}
  IN IF sum < 2 \/ Cardinality({Direction(id) : id \in lines}) < 2 THEN sum
     ELSE EnsureThreatNum(side, sum)

-----------------------------------------------------------------------------
(* The answers.  "side" is the side that threatens. *)

\* Mutant: any two threat points will do.
DefendForMultiThreatAny(side, num) == Pairs(ThreatPoint(side))

\* Mutant: more than two threats are to be met as well.
DefendForMultiThreatAll(side, num) == LET rows == Rows(side) IN
  {xy \in Pairs(ThreatPoint(side)) : Defended(rows, xy, side)}

\* Two threat points that leave no row, or any two if more are needed.
DefendForMultiThreat(side, num) == LET rows == Rows(side) IN
  {xy \in Pairs(ThreatPoint(side)) : num >= 3 \/ Defended(rows, xy, side)}

\* A threat point that leaves no threat on the lines.
Leaves(p, side) == LET board == With(Board, {p}, NEXT(side)) IN
  \E id \in LineIDs :
    ThreatOf(Analyze([i \in DOMAIN PointsOf[id] |-> board[PointsOf[id][i]]], side), side) # {}
Meeting(side) == {p \in ThreatPoint(side) : ~Leaves(p, side)}

\* Such a point and a second place; when no such point has one, any threat point
\* (ConstructComPoint).  The second places are those that some shape of a line
\* speaks for: which they are, and whether there is any, is left open.
DefendForSingleThreat(side, second, others) ==
  UNION {{{p, q} : q \in others \ {p}} : p \in IF second THEN Meeting(side) ELSE ThreatPoint(side)}

\* The list of moves; without a threat any two places may be on it, or none.
Answers(side, second, others) == LET num == ThreatNum(side) IN
  CASE num >= 2 -> DefendForMultiThreat(side, num)
    [] num = 1  -> DefendForSingleThreat(side, second, others)
    [] OTHER    -> Pairs(others)

Human == NEXT(ComputerColor)

\* ComputerMove without a threat of its own: a step of the list, the search
\* decides which.  "second" is whether a threat point that leaves no threat has a
\* second place.  If the list is empty its first step is read all the same; the
\* game of the model goes no further.  Bound: the places that meet no threat are
\* in Area.
Asked == Thinking /\ ~Strange /\ Going /\ NoThreat(ComputerColor)
Answer(second) == /\ Asked /\ Open(2)
                  /\ \E xy \in Answers(Human, second, Free) : Play(Board, InOrder(xy))

Game == \/ Opening \/ HumanMove \/ StrangeMove \/ WinMove
        \/ \E second \in BOOLEAN : Answer(second)
        \/ \E p \in Area : HumanOpening(p)

GameSpec == Init /\ [][Game]_vars
-----------------------------------------------------------------------------
(* Properties *)

\* All that a side threatens, on the board.
Threats(side) == UNION {
  {{PointsOf[id][j] : j \in s} :
     s \in ThreatSets([i \in DOMAIN PointsOf[id] |-> Board[PointsOf[id][i]]], side)} : id \in LineIDs}
Inner(side) == \A s \in Threats(side) : \E p \in s : ~Border(p)

\* ThreatNum is never more than 2 (a position taken for won or lost) where two
\* stones meet all threats, nor 2 where one stone does: of the number the moves
\* are chosen by, not of the bare sum.
NeverMore == Going => \A side \in Side : Least(Threats(side)) < 3 =>
  ThreatNum(side) <= Least(Threats(side))

\* Nor is a threat overlooked, unless a row lacks places on the border only: from
\* there AnalyzeLineSegID does not see all rows.
NeverLess == Going => \A side \in Side : Inner(side) =>
  ThreatNum(side) >= Least(Threats(side))

\* Two threats or more have an answer: ComputerMove takes the first of the list
\* of DefendForMultiThreat unseen.
AnswerThere == LET num == ThreatNum(Human) IN
  Asked /\ num >= 2 => DefendForMultiThreat(Human, num) # {}

\* After the answer to what one or two stones meet no threat is left, unless there
\* was one on the border, or no threat point that meets it had a second place.
AnswerMeets ==
  [][Answer(TRUE) /\ Inner(Human) /\ Least(Threats(Human)) < 3 => Threats(Human)' = {}]_vars
=============================================================================
