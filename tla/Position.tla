------------------------------ MODULE Position ------------------------------
(***************************************************************************)
(* The position the engine searches (consix/search.cpp): the board, what   *)
(* is known of each line of it, and the hash key.  A move changes them     *)
(* incrementally; MaxSearch and MinSearch make moves and take them back,   *)
(* and look at the lines after single stones (probes) on the way.  Which   *)
(* moves and probes the search tries is left open, and how deep it goes.   *)
(*                                                                         *)
(* What AnalyzeLine finds on a line depends on the stones of the line      *)
(* alone and stands here for itself: an entry of LineInfo is the stones it *)
(* was computed from.  HashBoard's random numbers stand for themselves     *)
(* too: a key is the set of the <<side, point>> that are in its XOR.       *)
(***************************************************************************)
EXTENDS Integers, Sequences, FiniteSets, SequencesExt

CONSTANTS N, Six,            \* size of the board, stones of a winning row: 19 and 6
          Area,              \* bound: the points moves and probes are tried on
          MaxStones,         \* bound: stones of the game
          MaxFrames,         \* bound: moves and probes under way
          BLACK, WHITE, EMPTY

Point == (0 .. N - 1) \X (0 .. N - 1)
Side  == {BLACK, WHITE}

ASSUME BoardAssumption ==
  /\ N \in Nat /\ Six \in Nat /\ 1 < Six /\ Six < N
  /\ Area \subseteq Point /\ MaxStones \in Nat /\ MaxFrames \in Nat
  /\ BLACK # WHITE /\ EMPTY \notin {BLACK, WHITE}

VARIABLES Board, LineInfo, HashKey64, Player, StepID, ComputerColor,
          frames,     \* the moves and probes under way, the calls of the search
          shown,      \* auxiliary: the board as the steps played make it
          stray       \* auxiliary: places of stones that are in no step

vars == <<Board, LineInfo, HashKey64, Player, StepID, ComputerColor, frames, shown, stray>>

NEXT(side) == IF side = BLACK THEN WHITE ELSE BLACK

-----------------------------------------------------------------------------
(* The lines *)

Angle == 0 .. 3
Increasement == [k \in Angle |-> << <<1, 0>>, <<1, -1>>, <<0, 1>>, <<1, 1>> >>[k + 1]]
Shift(p, k, i) == <<p[1] + i * Increasement[k][1], p[2] + i * Increasement[k][2]>>

\* Mutant: the shortest diagonals that matter are left out.
LongEnoughStrict(p, k) == CASE k = 1 -> p[1] + p[2] > Six - 1 /\ p[1] + p[2] < 2 * N - Six
                            [] k = 3 -> p[2] - p[1] > Six - N - 1 /\ p[2] - p[1] < N - Six + 1
                            [] OTHER -> TRUE

\* The diagonals of fewer than six points have no entry.
LongEnough(p, k) == CASE k = 1 -> p[1] + p[2] > Six - 2 /\ p[1] + p[2] < 2 * N - Six
                      [] k = 3 -> p[2] - p[1] > Six - N - 1 /\ p[2] - p[1] < N - Six + 1
                      [] OTHER -> TRUE

LineID(p, k) == CASE k = 0 -> p[2]
                  [] k = 1 -> 2 * N + p[1] + p[2] - (Six - 1)
                  [] k = 2 -> N + p[1]
                  [] k = 3 -> 2 * N + (2 * N - 2 * Six + 1) + (N - Six) + p[2] - p[1]

LineIDs == 0 .. 2 * N + 2 * (2 * N - 2 * Six + 1) - 1

\* The entries for a point, and the direction of one of them.
Cross == [p \in Point |-> {LineID(p, k) : k \in {a \in Angle : LongEnough(p, a)}}]
DirOf(p, id) == CHOOSE k \in Angle : LongEnough(p, k) /\ LineID(p, k) = id

\* Where GetLineValueForCross begins to read a line.
Start(p, k) == CASE k = 0 -> <<0, p[2]>>
                 [] k = 2 -> <<p[1], 0>>
                 [] OTHER -> LET back == CHOOSE i \in 0 .. N - 1 :
                                           /\ Shift(p, k, -i) \in Point
                                           /\ Shift(p, k, -i - 1) \notin Point
                             IN Shift(p, k, -back)

\* The points of a line from its start to the border.
FromBorder(s, k) == [i \in 1 .. Cardinality({j \in 0 .. N - 1 : Shift(s, k, j) \in Point}) |->
                       Shift(s, k, i - 1)]
Reach == [p \in Point |-> [k \in Angle |-> FromBorder(Start(p, k), k)]]

\* What is found for a side on a line: nothing when it has no stone there.
Analyze(stones, side) == IF \E i \in DOMAIN stones : stones[i] = side THEN stones ELSE <<>>
AnalyzeLine(board, p, k, side) == Analyze([i \in DOMAIN Reach[p][k] |-> board[Reach[p][k][i]]], side)

-----------------------------------------------------------------------------
(* The parts of an entry: 0 is Value and ThreatNum; 1, 2 and 3 are         *)
(* ThreatPoint, BigPotenPoint and SmaPotenPoint; 4 is the three lists that *)
(* no probe asks for.  "which" names the list a caller wants: 0 all of     *)
(* them, 7 none.                                                           *)

Part == 0 .. 4
Computed(which) == IF which = 0 THEN Part ELSE {0, which} \cap Part

\* The switches fall through from "which" to the end.
Copied(which) == {0} \cup {f \in Part : f >= which}

\* The entries for some points.
Crossing(points) == UNION {Cross[p] : p \in Range(points)}

\* UpdateLineForCross of both sides at each of the points: their entries are
\* computed anew.  A line through two of them is computed twice, alike.  (On a line
\* with a threat ValuateShape fills the other lists when one is asked for alone, and
\* leaves them empty when all are: an entry here is the stones it was computed from,
\* which tells a stale one and not this.)
UpdateLineForCross(info, board, points, which) ==
  [side \in Side |-> [id \in LineIDs |->
     IF id \in Crossing(points)
     THEN LET p == CHOOSE q \in Range(points) : id \in Cross[q]
          IN [f \in Part |->
                CASE f \in Computed(which[side]) -> AnalyzeLine(board, p, DirOf(p, id), side)
                  [] f \in Copied(which[side]) \ Computed(which[side]) -> <<>>
                  [] OTHER -> info[side][id][f]]
     ELSE info[side][id]]]

\* Mutant: only the list the caller wants is copied.
CopyLineOne(from, to, points, which) ==
  [side \in Side |-> [id \in LineIDs |->
     IF id \in Crossing(points)
     THEN [f \in Part |-> IF f \in {0, which[side]} THEN from[side][id][f] ELSE to[side][id][f]]
     ELSE to[side][id]]]

\* BackupLine and RecoverLine of both sides at each of the points: the parts
\* "which" stands for are copied from one set of entries to another.
CopyLine(from, to, points, which) ==
  [side \in Side |-> [id \in LineIDs |->
     IF id \in Crossing(points)
     THEN [f \in Part |-> IF f \in Copied(which[side]) THEN from[side][id][f] ELSE to[side][id][f]]
     ELSE to[side][id]]]

NewLines == [s \in Side |-> [id \in LineIDs |-> [f \in Part |-> <<>>]]]

\* The "which" of each side of a move.
AllParts == [s \in Side |-> 0]

-----------------------------------------------------------------------------
(* Threats and rows *)

Window(stones, i) == SubSeq(stones, i, i + Six - 1)
Count(seq, x)     == Cardinality({j \in DOMAIN seq : seq[j] = x})
HasRow(stones, side) == \E i \in 1 .. Len(stones) - Six + 1 : Count(Window(stones, i), side) = Six

\* Where a window lacks at most two stones of a row and holds none of the other
\* side, one of its empty places must be taken to meet the threat: they are
\* threat points.
ThreatSets(stones, side) ==
  {{j \in i .. i + Six - 1 : stones[j] = EMPTY} :
     i \in {w \in 1 .. Len(stones) - Six + 1 :
              /\ Count(Window(stones, w), NEXT(side)) = 0
              /\ Count(Window(stones, w), side) >= Six - 2}}
ThreatOf(stones, side) == UNION ThreatSets(stones, side)

\* UniquePoint sorts a list of points by column, then row; here also the points
\* of a line.
Before(p, q) == p[1] < q[1] \/ (p[1] = q[1] /\ p[2] < q[2])
InOrder(S) == [n \in 1 .. Cardinality(S) |->
  CHOOSE x \in S : Cardinality({y \in S : Before(y, x)}) = n - 1]
PointsOf == [id \in LineIDs |-> InOrder({p \in Point : id \in Cross[p]})]

\* GetAllLineInfor: ThreatPoint of all lines, and whether ThreatNum is 0.
ThreatPoint(side) ==
  UNION {{PointsOf[id][j] : j \in ThreatOf(LineInfo[side][id][1], side)} : id \in LineIDs}
NoThreat(side) == \A id \in LineIDs : ThreatOf(LineInfo[side][id][0], side) = {}

\* The four loops of the function of that name.
WinOrLose(side) ==
  \/ \E i \in 0 .. N - 1, j \in 0 .. N - Six : \A n \in 0 .. Six - 1 : Board[<<i, j + n>>] = side
  \/ \E i \in 0 .. N - 1, j \in 0 .. N - Six : \A n \in 0 .. Six - 1 : Board[<<j + n, i>>] = side
  \/ \E i \in 0 .. N - Six, j \in Six - 1 .. N - 1 :
       \A n \in 0 .. Six - 1 : Board[<<i + n, j - n>>] = side
  \/ \E i \in 0 .. N - Six, j \in 0 .. N - Six :
       \A n \in 0 .. Six - 1 : Board[<<i + n, j + n>>] = side

-----------------------------------------------------------------------------
(* Moves *)

\* start_game and InitGame.
Init == /\ Board = [p \in Point |-> EMPTY] /\ shown = Board
        /\ LineInfo = NewLines
        /\ HashKey64 = {}
        /\ Player = BLACK /\ StepID = 0
        /\ ComputerColor \in Side
        /\ frames = <<>> /\ stray = {}

Put(board, points, x) == [p \in Point |-> IF p \in Range(points) THEN x ELSE board[p]]
Toggle(key, e)         == IF e \in key THEN key \ {e} ELSE key \cup {e}
KeyAfter(points, side) == LET first == Toggle(HashKey64, <<side, points[1]>>)
                          IN IF Len(points) = 1 THEN first ELSE Toggle(first, <<side, points[2]>>)

\* The stones are put on a board, and UpdateBoard.
Place(board, points, side) ==
  /\ Board' = Put(board, points, side)
  /\ HashKey64' = KeyAfter(points, side)
  /\ LineInfo' = UpdateLineForCross(LineInfo, Board', points, AllParts)

\* A step is played from a board, and the page draws it.
Play(board, points) == /\ Place(board, points, Player)
                       /\ shown' = Put(shown, points, Player)
                       /\ Player' = NEXT(Player) /\ StepID' = StepID + 1
                       /\ stray' = {p \in Point : Board'[p] # shown'[p]}
                       /\ UNCHANGED <<ComputerColor, frames>>

Center == <<(N - 1) \div 2, (N - 1) \div 2>>
Stones == {p \in Point : Board[p] # EMPTY}

\* Bounds: a game ends at a row of six, with MaxStones stones, and with stones
\* that are in no step; the page and the engine would go on.
Going   == stray = {} /\ \A s \in Side : ~WinOrLose(s)
Open(n) == frames = <<>> /\ Going /\ Cardinality(Stones) + n <= MaxStones

\* computer_move of the black engine: the opening, which has no second stone.
Opening == /\ ComputerColor = BLACK /\ StepID = 0
           /\ Play(Board, <<Center>>)

\* Two empty places.  Bound: of the two orders of their stones one is tried.
Free  == {p \in Area : Board[p] = EMPTY}
Steps == {s \in Free \X Free : Before(s[1], s[2])}

\* human_move: the page sends its opening as two stones on one place.
HumanOpening(p) == /\ ComputerColor = WHITE /\ StepID = 0
                   /\ Play(Board, <<p, p>>)

HumanMove == /\ Player # ComputerColor /\ StepID > 0 /\ Open(2)
             /\ \E s \in Steps : Play(Board, s)

Thinking == Player = ComputerColor /\ StepID > 0
Strange  == StepID = 1 /\ Board[Center] = EMPTY

\* ConStrangeStep: two places beside the human's opening, towards the center.
BesideOpening(p) ==
  CASE p[1] <= Center[1] /\ p[2] <= Center[2] -> <<Shift(p, 0, 1), Shift(p, 2, 1)>>
    [] p[1] <= Center[1] /\ p[2] > Center[2]  -> <<Shift(p, 2, -1), Shift(p, 0, 1)>>
    [] p[1] > Center[1] /\ p[2] <= Center[2]  -> <<Shift(p, 0, -1), Shift(p, 2, 1)>>
    [] OTHER                                  -> <<Shift(p, 0, -1), Shift(p, 2, -1)>>

StrangeMove == /\ Thinking /\ Strange /\ Open(2)
               /\ \E p \in Stones : Play(Board, BesideOpening(p))

\* AnalyzeLineSegID: from a point back to a stone of the other side or to the
\* first place on the border, then on to a stone of the other side or off the
\* board.  Only whether it finds a row of six is of interest here.
Border(p) == p[1] \in {0, N - 1} \/ p[2] \in {0, N - 1}
SegHasRow(board, p, k, side) ==
  LET back == CHOOSE i \in 0 .. N - 1 :
                /\ board[Shift(p, k, -i)] = NEXT(side) \/ Border(Shift(p, k, -i))
                /\ \A j \in 0 .. i - 1 : /\ board[Shift(p, k, -j)] # NEXT(side)
                                         /\ ~Border(Shift(p, k, -j))
      from == IF board[Shift(p, k, -back)] = NEXT(side) THEN 1 - back ELSE -back
      seg  == {i \in from .. N : \A j \in from .. i :
                 Shift(p, k, j) \in Point /\ board[Shift(p, k, j)] # NEXT(side)}
  IN \E i \in seg : \A j \in i .. i + Six - 1 : j \in seg /\ board[Shift(p, k, j)] = side

\* The pairs ConstructWinStep tries, in its order: UniquePoint has sorted the
\* threat points with the largest column, then row, first.
Tries == LET list == Reverse(InOrder(ThreatPoint(ComputerColor)))
             pairs == {ij \in (DOMAIN list) \X (DOMAIN list) : ij[1] < ij[2]}
             order == InOrder(pairs)
         IN [n \in DOMAIN order |-> <<list[order[n][1]], list[order[n][2]]>>]

\* The board with the stones of the first n tries, which stay on it.
Tried(n) == [p \in Point |-> IF \E i \in 1 .. n : p \in Range(Tries[i]) THEN ComputerColor ELSE Board[p]]
Wins(n)  == \E p \in Range(Tries[n]), k \in Angle : SegHasRow(Tried(n), p, k, ComputerColor)

\* ConstructWinStep with the first try that it takes for a win.  If there is
\* none its step has the column -1, and what computer_move does with it is
\* undefined: the model stops.
WinMove == /\ Thinking /\ ~Strange /\ Open(2)
           /\ ~NoThreat(ComputerColor)
           /\ \E n \in DOMAIN Tries :
                /\ Wins(n) /\ \A i \in 1 .. n - 1 : ~Wins(i)
                /\ Play(Tried(n), Tries[n])

\* The step the search has found best: any two empty places.
SearchMove == /\ Thinking /\ ~Strange /\ Open(2) /\ NoThreat(ComputerColor)
              /\ \E s \in Steps : Play(Board, s)

-----------------------------------------------------------------------------
(* The search *)

Moves     == {i \in DOMAIN frames : frames[i].kind = "move"}
Mover     == IF Cardinality(Moves) % 2 = 0 THEN ComputerColor ELSE NEXT(ComputerColor)
Probing   == frames # <<>> /\ Last(frames).kind = "probe"

\* A call with its LineTemp.  which is that of the mover and of the other side.
Frame(kind, points, which) ==
  LET w == [s \in Side |-> IF s = Mover THEN which[1] ELSE which[2]]
  IN [kind |-> kind, side |-> Mover, points |-> points, which |-> w,
      LineTemp |-> CopyLine(LineInfo, NewLines, points, w)]

\* MakeMove, in ComputerMove, MaxSearch or MinSearch.
MakeMove(step) ==
  /\ ~Probing
  /\ frames' = Append(frames, Frame("move", step, <<0, 0>>))
  /\ Place(Board, step, Mover)
  /\ UNCHANGED <<Player, StepID, ComputerColor, shown, stray>>

\* Mutant: the key stays.
BackMoveKeepsKey ==
  /\ frames # <<>> /\ Last(frames).kind = "move"
  /\ LET f == Last(frames) IN
     /\ Board' = Put(Board, f.points, EMPTY)
     /\ LineInfo' = CopyLine(f.LineTemp, LineInfo, f.points, f.which)
  /\ frames' = Front(frames)
  /\ UNCHANGED <<HashKey64, Player, StepID, ComputerColor, shown, stray>>

\* BackMove, with RecoverBoard.
BackMove ==
  /\ frames # <<>> /\ Last(frames).kind = "move"
  /\ LET f == Last(frames) IN
     /\ Board' = Put(Board, f.points, EMPTY)
     /\ HashKey64' = KeyAfter(f.points, f.side)
     /\ LineInfo' = CopyLine(f.LineTemp, LineInfo, f.points, f.which)
  /\ frames' = Front(frames)
  /\ UNCHANGED <<Player, StepID, ComputerColor, shown, stray>>

\* The stones of the mover a probe puts, and the lists it asks for: one stone
\* where the moves are constructed, where the search may go deeper, and where
\* its value is discounted; two for the values of the moves (AdjustStepValue),
\* and for the discount of two threats, one inside the other.
ProbeOf(points, which) ==
  \/ ~Probing /\ <<Len(points), which>> \in {<<1, <<0, 0>>>>, <<2, <<2, 2>>>>}
  \/ /\ ~Probing /\ frames # <<>> /\ Len(points) = 1
     /\ which \in {<<2, 1>>, <<3, 1>>, <<2, 2>>, <<7, 7>>}
  \/ /\ Probing /\ Len(points) = 1 /\ which = <<7, 7>>
     /\ Last(frames).which[Mover] = 7 /\ frames[Len(frames) - 1].kind = "move"

Whiches == {<<0, 0>>, <<2, 1>>, <<3, 1>>, <<2, 2>>, <<7, 7>>}

\* BackupLine, the stones, UpdateLineForCross.
Probe(points, which) ==
  /\ ProbeOf(points, which)
  /\ frames' = Append(frames, Frame("probe", points, which))
  /\ Board' = Put(Board, points, Mover)
  /\ LineInfo' = UpdateLineForCross(LineInfo, Board', points, Last(frames').which)
  /\ UNCHANGED <<HashKey64, Player, StepID, ComputerColor, shown, stray>>

\* The stones are taken back, and RecoverLine.
EndProbe ==
  /\ Probing
  /\ LET f == Last(frames) IN
     /\ Board' = Put(Board, f.points, EMPTY)
     /\ LineInfo' = CopyLine(f.LineTemp, LineInfo, f.points, f.which)
  /\ frames' = Front(frames)
  /\ UNCHANGED <<HashKey64, Player, StepID, ComputerColor, shown, stray>>

-----------------------------------------------------------------------------
\* MaxSearch and MinSearch go on when the mover has no threat.  Their other
\* cut-offs are left open: the model tries what they leave out as well.
Deeper == /\ Len(frames) < MaxFrames /\ Thinking /\ ~Strange /\ Going
          /\ Probing \/ NoThreat(Mover)
          /\ \/ \E s \in Steps : MakeMove(s)
             \/ \E s \in Steps \cup {<<p>> : p \in Free}, w \in Whiches : Probe(s, w)

Next == \/ Opening \/ HumanMove \/ StrangeMove \/ WinMove \/ SearchMove
        \/ Deeper \/ BackMove \/ EndProbe
        \/ \E p \in Area : HumanOpening(p)

Spec == Init /\ [][Next]_vars
-----------------------------------------------------------------------------
(* Properties *)

\* The board as the steps played and some of the calls under way make it.
Played(calls) == [p \in Point |-> LET on == {i \in calls : p \in Range(frames[i].points)}
                                  IN IF on = {} THEN shown[p] ELSE frames[Max(on)].side]

\* What the search reads of a side: in a probe the values and the list it asked for.
Wanted(side) == IF Probing THEN Computed(Last(frames).which[side]) ELSE Part

\* Whatever moves and probes have been made and taken back, and however their
\* lines cross: what is read of a line is what is on it now.  UpdateLineForCross
\* computes the lines of the stones that change anew, and RecoverLine copies back.
LinesCurrent == stray = {} => \A side \in Side, id \in LineIDs : \A f \in Wanted(side) :
  LineInfo[side][id][f] = Analyze([i \in DOMAIN PointsOf[id] |-> Board[PointsOf[id][i]]], side)

\* The search leaves no trace: under its calls the board is that of the steps
\* played, and the key is that of the stones of steps and moves.  The stone of the
\* human's opening alone is not in it: human_move gives it to UpdateBoard twice.
StonesOf(board) == {<<board[p], p>> : p \in {q \in Point : board[q] # EMPTY}}
NoTrace == stray = {} =>
  /\ Board = Played(DOMAIN frames)
  /\ HashKey64 \subseteq StonesOf(Played(Moves))
  /\ Cardinality(StonesOf(Played(Moves)) \ HashKey64)
       = IF ComputerColor = WHITE /\ StepID > 0 THEN 1 ELSE 0

\* The end of the game as WinOrLose finds it on the board, with four loops of its
\* own, is a row of six in the line data the search plays by.
SixIsSeen == stray = {} => \A side \in Side :
  WinOrLose(side) <=> \E id \in LineIDs : HasRow(LineInfo[side][id][0], side)

\* The step ConstructWinStep returns as a win ("step.LValue=WINLOSE") makes a row
\* of six of the stones that are in steps.
ShowsRow(board, side) == \E id \in LineIDs :
  HasRow([i \in DOMAIN PointsOf[id] |-> board[PointsOf[id][i]]], side)
WinStepWins == [][WinMove => ShowsRow(shown', ComputerColor)]_vars
=============================================================================
