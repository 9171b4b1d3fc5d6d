--------------------------- MODULE GamePlayProofs ---------------------------
(***************************************************************************)
(* For a board of any size and any kind of game: the engine searches only  *)
(* when it is the turn of its own colour.  When the user waits for his     *)
(* turn and the engine finds its steps, page and session have the same     *)
(* stones whenever nothing is under way, and the game follows the rules.   *)
(***************************************************************************)
EXTENDS GamePlay, SequenceTheorems, TLAPS

Colors == {BLACK, WHITE}
Stone  == {BLACK, WHITE, EMPTY}
Steps  == [side : Stone, first : Cell \cup {None}, second : Cell \cup {None}]

Requests  == Strange \cup {Start(m) : m \in {1, 2}} \cup {Move(s) : s \in Steps}
Replies   == [side : Colors, first : Cell \cup {None}, second : Cell \cup {None}]
Responses == {Text} \cup {Reply(s) : s \in Replies}

TypesHold == /\ habits \in Games /\ button \in 0 .. 2 /\ mode \in 0 .. 2
             /\ view \in [Cell -> Stone] /\ board \in [Cell -> Stone]
             /\ cur \in Steps
             /\ cur.side = EMPTY => cur.second = None
             /\ up \in Seq(Requests) /\ down \in Seq(Responses)
             /\ player \in Colors /\ color \in Stone
             /\ stepId \in Nat /\ thinking \in BOOLEAN

-----------------------------------------------------------------------------
(* The turns of the session *)

\* Until the game is open the start is the first of the requests; from then on the
\* engine's turn and its search go together.
TurnsHold ==
  IF color = EMPTY
  THEN /\ ~thinking
       /\ mode # 0 => up # <<>> /\ Head(up) = Start(mode)
  ELSE mode # 0 /\ player = IF thinking THEN color ELSE Other(color)

\* Nothing is sent before the socket is open.
Closed == mode = 0 => up = <<>> /\ down = <<>> /\ color = EMPTY

\* The only start is the first of the requests of a game that is not open.
OneStart == \A i \in DOMAIN up : IsStart(up[i]) => i = 1 /\ color = EMPTY

EInv == TypesHold /\ TurnsHold /\ Closed /\ OneStart

-----------------------------------------------------------------------------
(* The game of a user who waits *)

\* A queue carries one step, s.
Carries(q, s) == \E i \in DOMAIN q : /\ Val(q[i], "step") = s
                                     /\ \A j \in DOMAIN q \ {i} : Val(q[j], "step") = None

\* The stones of a step on a board.
Put(b, s) == [b EXCEPT ![s.first] = s.side, ![s.second] = s.side]

\* The step is one the rules allow on the board: an opening of one stone, or two.
Legal(b, s) == /\ s.side \in Colors /\ s.first \in Cell /\ s.second \in Cell
               /\ b[s.first] = EMPTY /\ b[s.second] = EMPTY
               /\ s.first = s.second <=> b = Empty

\* The user's step is on its way.
Sent == /\ Carries(up, cur) /\ ~HasStep(down) /\ ~thinking
        /\ mode = 2 => color # EMPTY
        /\ cur.side = player /\ Legal(board, cur) /\ view = Put(board, cur)

\* The engine is to open the game.
Asked == /\ ~HasStep(up) /\ ~HasStep(down) /\ mode = 2
         /\ IF thinking THEN color # EMPTY ELSE color = EMPTY
         /\ board = Empty /\ view = Empty /\ cur.side = EMPTY

\* The engine searches.
Searches == /\ ~HasStep(up) /\ ~HasStep(down) /\ thinking /\ stepId # 0
            /\ view = board /\ cur.side = Other(player)

\* The engine's step is on its way.
Answered == /\ ~HasStep(up) /\ ~thinking
            /\ \E s \in Replies : /\ Carries(down, s) /\ s.first \in Cell
                                  /\ s.side = color /\ board = Draw(s)

\* Nothing is on its way: the user has not begun, has put one of two stones, or
\* has seen the engine's step.
Rests == /\ ~HasStep(up) /\ ~HasStep(down) /\ ~thinking
         /\ color = EMPTY => mode # 2
         /\ \/ cur.side = EMPTY /\ mode # 2 /\ board = Empty /\ view = Empty
            \/ /\ cur.side = player /\ cur.second = None /\ board # Empty
               /\ board[cur.first] = EMPTY /\ view = [board EXCEPT ![cur.first] = cur.side]
            \/ /\ cur.side = Other(player) /\ cur.second # None /\ board # Empty
               /\ view = board

GInv == /\ EInv
        /\ stepId = 0 <=> board = Empty
        /\ stepId = 0 => player = BLACK
        /\ color = EMPTY => stepId = 0
        /\ Sent \/ Asked \/ Searches \/ Answered \/ Rests

-----------------------------------------------------------------------------
(* Messages *)

\* A step is not None.
LEMMA StepIsValue == \A s \in Steps : s # None
BY ValueAssumption DEF Steps, Stone

\* The engine's steps are among those a message may carry.
LEMMA ReplyIsStep == Replies \subseteq Steps
BY DEF Replies, Steps, Colors, Stone

\* What the session finds in a start: a mode, and no step.
LEMMA StartVals ==
  ASSUME NEW m \in {1, 2}
  PROVE  /\ Val(Start(m), "step") = None /\ IsStart(Start(m)) /\ ~IsStep(Start(m))
         /\ Start(m).mode = m /\ Val(Start(m), "mode") = m
BY ValueAssumption DEF Val, Start, IsStart, IsStep, IsRequest

\* What it finds in a move: a step, and no mode.
LEMMA MoveVals ==
  ASSUME NEW s \in Steps
  PROVE  /\ Val(Move(s), "step") = s /\ ~IsStart(Move(s)) /\ IsStep(Move(s))
         /\ Move(s).step = s /\ Val(Move(s), "mode") = None
BY ValueAssumption, StepIsValue DEF Val, Move, IsStart, IsStep, IsRequest

\* A message that is no move has no step, and opens no game.
LEMMA StrangeVals ==
  ASSUME NEW msg \in Strange
  PROVE  Val(msg, "step") = None /\ ~IsStart(msg) /\ ~IsStep(msg) /\ Val(msg, "mode") # 2
BY ValueAssumption DEF Val, Strange, IsStart, IsStep, IsRequest

\* What the page finds in a response.
LEMMA ResponseVals ==
  /\ Val(Text, "step") = None
  /\ \A s \in Steps : Val(Reply(s), "step") = s
BY DEF Val, Text, Reply

-----------------------------------------------------------------------------
(* Queues *)

\* A message more or less without a step changes nothing of the steps in a queue.
LEMMA AppendSilent ==
  ASSUME NEW S, NEW q \in Seq(S), NEW msg \in S, Val(msg, "step") = None
  PROVE  /\ Append(q, msg) \in Seq(S)
         /\ HasStep(Append(q, msg)) <=> HasStep(q)
         /\ \A s \in Steps : Carries(q, s) => Carries(Append(q, msg), s)
<1>1. /\ Append(q, msg) \in Seq(S) /\ Len(Append(q, msg)) = Len(q) + 1 /\ Len(q) \in Nat
      /\ DOMAIN q = 1 .. Len(q) /\ DOMAIN Append(q, msg) = 1 .. (Len(q) + 1)
      /\ \A i \in 1 .. Len(q) : Append(q, msg)[i] = q[i]
      /\ Append(q, msg)[Len(q) + 1] = msg
  BY AppendProperties, LenProperties
<1>2. HasStep(Append(q, msg)) <=> HasStep(q)
  BY <1>1 DEF HasStep
<1>3. ASSUME NEW s \in Steps, Carries(q, s) PROVE Carries(Append(q, msg), s)
  <2>1. PICK i \in 1 .. Len(q) : /\ Val(q[i], "step") = s
                                 /\ \A j \in 1 .. Len(q) \ {i} : Val(q[j], "step") = None
    BY <1>1, <1>3 DEF Carries
  <2>2. \A j \in 1 .. (Len(q) + 1) : j \in 1 .. Len(q) \/ j = Len(q) + 1
    BY <1>1
  <2> QED
    BY <1>1, <2>1, <2>2 DEF Carries
<1> QED
  BY <1>1, <1>2, <1>3

\* A step added to a queue without one.
LEMMA AppendStep ==
  ASSUME NEW S, NEW q \in Seq(S), NEW msg \in S, NEW s \in Steps, Val(msg, "step") = s,
         ~HasStep(q)
  PROVE  Append(q, msg) \in Seq(S) /\ Carries(Append(q, msg), s)
<1>1. /\ Append(q, msg) \in Seq(S) /\ Len(Append(q, msg)) = Len(q) + 1 /\ Len(q) \in Nat
      /\ DOMAIN q = 1 .. Len(q) /\ DOMAIN Append(q, msg) = 1 .. (Len(q) + 1)
      /\ \A i \in 1 .. Len(q) : Append(q, msg)[i] = q[i]
      /\ Append(q, msg)[Len(q) + 1] = msg
  BY AppendProperties, LenProperties
<1>2. \A j \in 1 .. (Len(q) + 1) : j \in 1 .. Len(q) \/ j = Len(q) + 1
  BY <1>1
<1> QED
  BY <1>1, <1>2 DEF Carries, HasStep

\* The first message is taken.
LEMMA TailSteps ==
  ASSUME NEW S, NEW q \in Seq(S), q # <<>>
  PROVE  /\ Tail(q) \in Seq(S) /\ Head(q) \in S /\ Head(q) = q[1] /\ 1 \in DOMAIN q
         /\ ~HasStep(q) => Val(Head(q), "step") = None /\ ~HasStep(Tail(q))
         /\ \A s \in Steps : Carries(q, s) =>
              IF Val(Head(q), "step") = None THEN Carries(Tail(q), s)
              ELSE Val(Head(q), "step") = s /\ ~HasStep(Tail(q))
<1>1. /\ Tail(q) \in Seq(S) /\ Head(q) \in S /\ Head(q) = q[1]
      /\ Len(q) \in Nat \ {0} /\ Len(Tail(q)) = Len(q) - 1
      /\ DOMAIN q = 1 .. Len(q) /\ DOMAIN Tail(q) = 1 .. (Len(q) - 1)
      /\ \A i \in 1 .. (Len(q) - 1) : Tail(q)[i] = q[i + 1]
  BY HeadTailProperties, LenProperties, EmptySeq
<1>2. ~HasStep(q) => Val(Head(q), "step") = None /\ ~HasStep(Tail(q))
  BY <1>1 DEF HasStep
<1>3. ASSUME NEW s \in Steps, Carries(q, s)
      PROVE  IF Val(Head(q), "step") = None THEN Carries(Tail(q), s)
             ELSE Val(Head(q), "step") = s /\ ~HasStep(Tail(q))
  <2>1. PICK i \in 1 .. Len(q) : /\ Val(q[i], "step") = s
                                 /\ \A j \in 1 .. Len(q) \ {i} : Val(q[j], "step") = None
    BY <1>1, <1>3 DEF Carries
  <2>2. CASE i = 1
    <3>1. \A j \in 1 .. (Len(q) - 1) : j + 1 \in 1 .. Len(q) \ {1}
      BY <1>1
    <3>2. ~HasStep(Tail(q))
      BY <1>1, <2>1, <2>2, <3>1 DEF HasStep
    <3> QED
      BY <1>1, <2>1, <2>2, <3>2, StepIsValue
  <2>3. CASE i # 1
    <3>1. i - 1 \in 1 .. (Len(q) - 1) /\ Val(Tail(q)[i - 1], "step") = s
      BY <1>1, <2>1, <2>3
    <3>2. \A j \in 1 .. (Len(q) - 1) \ {i - 1} : Val(Tail(q)[j], "step") = None
      <4> SUFFICES ASSUME NEW j \in 1 .. (Len(q) - 1) \ {i - 1}
                   PROVE  Val(Tail(q)[j], "step") = None
        OBVIOUS
      <4>1. j + 1 \in 1 .. Len(q) \ {i} /\ Tail(q)[j] = q[j + 1]
        BY <1>1
      <4> QED
        BY <2>1, <4>1
    <3>3. Val(Head(q), "step") = None
      BY <1>1, <2>1, <2>3
    <3> QED
      BY <1>1, <3>1, <3>2, <3>3 DEF Carries
  <2> QED
    BY <2>2, <2>3
<1> QED
  BY <1>1, <1>2, <1>3

\* A queue that carries a step has one.
LEMMA CarriesHas ==
  ASSUME NEW q, NEW s \in Steps, Carries(q, s)
  PROVE  HasStep(q)
BY StepIsValue DEF Carries, HasStep

\* The first message of a queue, and the places of the others, after one is added or
\* taken.
LEMMA QueueEnds ==
  ASSUME NEW S, NEW q \in Seq(S), NEW msg \in S
  PROVE  /\ Append(q, msg) \in Seq(S) /\ Append(q, msg) # <<>>
         /\ Head(Append(q, msg)) = IF q = <<>> THEN msg ELSE Head(q)
         /\ \A i \in DOMAIN Append(q, msg) :
              (i \in DOMAIN q /\ Append(q, msg)[i] = q[i]) \/ (i = Len(q) + 1 /\ Append(q, msg)[i] = msg)
         /\ q = <<>> => Len(q) = 0
         /\ q # <<>> => /\ Tail(q) \in Seq(S) /\ Head(q) = q[1] /\ 1 \in DOMAIN q
                        /\ \A i \in DOMAIN Tail(q) :
                             i + 1 \in DOMAIN q /\ i + 1 # 1 /\ Tail(q)[i] = q[i + 1]
BY AppendProperties, HeadTailProperties, LenProperties, EmptySeq

-----------------------------------------------------------------------------
(* The turns: every step keeps EInv *)

\* The initial states: no game is open.
LEMMA TurnsInit == Init => EInv
<1> SUFFICES ASSUME Init PROVE EInv
  OBVIOUS
<1>1. up \in Seq(Requests) /\ down \in Seq(Responses)
  BY DEF Init
<1>2. cur \in Steps /\ cur.side = EMPTY /\ cur.second = None
  BY DEF Init, Step, Steps, Stone
<1>3. TypesHold
  <2>1. view \in [Cell -> Stone] /\ board \in [Cell -> Stone]
    BY DEF Init, Empty, Stone
  <2>2. player \in Colors /\ color \in Stone /\ stepId \in Nat /\ thinking \in BOOLEAN
    BY DEF Init, Stone, Colors
  <2> QED
    BY <1>1, <1>2, <2>1, <2>2 DEF Init, TypesHold
<1>4. TurnsHold /\ Closed /\ OneStart
  BY DEF Init, TurnsHold, Closed, OneStart
<1> QED
  BY <1>3, <1>4 DEF EInv

\* The page opens the game with the only start there is.
LEMMA OnOpenTurns == EInv /\ OnOpen => EInv'
<1> SUFFICES ASSUME EInv, OnOpen PROVE EInv'
  OBVIOUS
<1> USE DEF EInv, OnOpen, session
<1>1. button \in {1, 2} /\ up = <<>> /\ Start(button) \in Requests /\ color = EMPTY
  BY DEF TypesHold, Closed, Requests
<1>2. /\ up' \in Seq(Requests) /\ up' # <<>> /\ Head(up') = Start(button)
      /\ \A i \in DOMAIN up' : i = 1
  BY <1>1, QueueEnds DEF TypesHold
<1>3. TypesHold'
  BY <1>1, <1>2 DEF TypesHold
<1>4. TurnsHold' /\ Closed' /\ OneStart'
  BY <1>1, <1>2 DEF TurnsHold, Closed, OneStart
<1> QED
  BY <1>3, <1>4

\* A click: what is sent is a step, and behind the start.
LEMMA ClickTurns == ASSUME NEW c \in Cell, EInv, Click(c) PROVE EInv'
<1> USE DEF EInv, Click, MoveChess, session
<1>1. cur' \in Steps /\ cur'.side \in Colors /\ cur' = AfterClick(c)
  BY PlayAssumption DEF TypesHold, AfterClick, Steps, Stone, Colors, Step, Other
<1>2. Move(cur') \in Requests /\ ~IsStart(Move(cur'))
  BY <1>1, MoveVals DEF Requests
<1>3. up' = up \/ (mode # 0 /\ up' = Append(up, Move(cur')))
  OBVIOUS
<1>4. TypesHold'
  <2>1. view' \in [Cell -> Stone]
    BY <1>1 DEF TypesHold, Stone, Colors
  <2>2. up' \in Seq(Requests)
    BY <1>2, <1>3, QueueEnds DEF TypesHold
  <2>3. cur'.side # EMPTY
    BY <1>1, PlayAssumption DEF Colors
  <2> QED
    BY <1>1, <2>1, <2>2, <2>3 DEF TypesHold
<1>5. TurnsHold' /\ Closed'
  BY <1>2, <1>3, QueueEnds DEF TypesHold, TurnsHold, Closed
<1>6. OneStart'
  BY <1>2, <1>3, QueueEnds DEF TypesHold, OneStart
<1> QED
  BY <1>4, <1>5, <1>6

\* Another message is no start.
LEMMA OtherTurns == EInv /\ SendOther => EInv'
<1> SUFFICES ASSUME EInv, SendOther PROVE EInv'
  OBVIOUS
<1> USE DEF EInv, SendOther, session
<1>1. PICK msg \in Strange : up' = Append(up, msg)
  OBVIOUS
<1>2. msg \in Requests /\ ~IsStart(msg)
  BY StrangeVals DEF Requests
<1>3. TypesHold'
  BY <1>1, <1>2, QueueEnds DEF TypesHold
<1>4. TurnsHold' /\ Closed' /\ OneStart'
  BY <1>1, <1>2, QueueEnds DEF TypesHold, TurnsHold, Closed, OneStart
<1> QED
  BY <1>3, <1>4

\* The page takes a response.
LEMMA OnMessageTurns == EInv /\ OnMessage => EInv'
<1> SUFFICES ASSUME EInv, OnMessage PROVE EInv'
  OBVIOUS
<1> USE DEF EInv, OnMessage, session
<1>1. Head(down) \in Responses /\ Tail(down) \in Seq(Responses)
  BY HeadTailProperties DEF TypesHold
<1>2. TypesHold'
  <2>1. CASE Val(Head(down), "step") = None
    BY <1>1, <2>1 DEF TypesHold
  <2>2. CASE Val(Head(down), "step") # None
    <3>1. PICK s \in Replies : Val(Head(down), "step") = s
      BY <1>1, <2>2, ResponseVals, ReplyIsStep DEF Responses
    <3>2. \/ view' = view /\ cur' = s
          \/ /\ s.first \in Cell /\ view' = Draw(s)
             /\ cur' = [s EXCEPT !.second = IF @ = None THEN s.first ELSE @]
      BY <2>2, <3>1 DEF Replies
    <3>3. view' \in [Cell -> Stone]
      BY <3>2 DEF Draw, Replies, Colors, Stone, TypesHold
    <3>4. cur' \in Steps /\ cur'.side \in Colors
      BY <3>2 DEF Replies, Steps, Colors, Stone
    <3>5. cur'.side # EMPTY
      BY <3>4, PlayAssumption DEF Colors
    <3> QED
      BY <1>1, <3>3, <3>4, <3>5 DEF TypesHold
  <2> QED
    BY <2>1, <2>2
<1>3. TurnsHold' /\ Closed' /\ OneStart'
  BY <1>2 DEF TypesHold, TurnsHold, Closed, OneStart
<1> QED
  BY <1>2, <1>3

\* The session takes a request from its queue.
LEMMA Received ==
  ASSUME EInv, Receive
  PROVE  /\ up' \in Seq(Requests) /\ Head(up) \in Requests /\ Head(up) = up[1] /\ 1 \in DOMAIN up
         /\ \A i \in DOMAIN up' : ~IsStart(up'[i])
         /\ mode # 0
<1>1. /\ Tail(up) \in Seq(Requests) /\ Head(up) \in Requests /\ Head(up) = up[1]
      /\ 1 \in DOMAIN up
      /\ \A i \in DOMAIN Tail(up) : i + 1 \in DOMAIN up /\ i + 1 # 1 /\ Tail(up)[i] = up[i + 1]
  BY QueueEnds, HeadTailProperties DEF EInv, TypesHold, Receive
<1> QED
  BY <1>1 DEF EInv, OneStart, Closed, Receive

\* A text is one of the responses.
LEMMA TextQueued == \A q \in Seq(Responses) : Append(q, Text) \in Seq(Responses)
BY AppendProperties DEF Responses

\* start_game sets the colours, whoever asks for it.
LEMMA StartGameTurns == EInv /\ StartGame => EInv'
<1> SUFFICES ASSUME EInv, StartGame PROVE EInv'
  OBVIOUS
<1> USE DEF StartGame, page
<1>1. /\ up' \in Seq(Requests) /\ mode # 0 /\ \A i \in DOMAIN up' : ~IsStart(up'[i])
      /\ Head(up).mode \in {1, 2}
  <2>1. /\ up' \in Seq(Requests) /\ mode # 0 /\ \A i \in DOMAIN up' : ~IsStart(up'[i])
        /\ Head(up) \in Requests
    BY Received
  <2>2. Head(up) \in {Start(m) : m \in {1, 2}}
    BY <2>1, MoveVals, StrangeVals DEF Requests
  <2> QED
    BY <2>1, <2>2, StartVals
<1>2. down' \in Seq(Responses)
  <2>1. down' \in {down, Append(down, Text)}
    OBVIOUS
  <2> QED
    BY <2>1, TextQueued DEF EInv, TypesHold
<1>3. color' \in Colors /\ color' # EMPTY
  BY PlayAssumption DEF Colors
<1>4. TypesHold'
  BY <1>1, <1>2, <1>3 DEF EInv, TypesHold, Empty, Stone, Colors
<1>5. TurnsHold'
  BY <1>1, <1>3, PlayAssumption DEF TurnsHold, Other
<1>6. Closed' /\ OneStart'
  BY <1>1 DEF Closed, OneStart
<1> QED
  BY <1>4, <1>5, <1>6 DEF EInv

\* A step is taken only when a game is open, in the human's turn, and ends it.
LEMMA HumanMoveTurns == EInv /\ HumanMove => EInv'
<1> SUFFICES ASSUME EInv, HumanMove PROVE EInv'
  OBVIOUS
<1> USE DEF HumanMove, page
<1>1. /\ up' \in Seq(Requests) /\ mode # 0 /\ \A i \in DOMAIN up' : ~IsStart(up'[i])
      /\ Head(up) \in Requests
  BY Received
<1>2. Head(up) \in {Move(s) : s \in Steps}
  BY <1>1, StartVals, StrangeVals DEF Requests
<1>3. PICK s \in Steps : Head(up).step = s
  BY <1>2, MoveVals
<1>4. board' \in [Cell -> Stone]
  BY <1>3 DEF EInv, TypesHold, Steps
<1>5. color # EMPTY
  BY <1>1, <1>2, StartVals, MoveVals DEF EInv, TurnsHold, TypesHold, Receive
<1>6. player' \in Colors
  BY PlayAssumption DEF Other, Colors
<1>7. TypesHold'
  <2>1. /\ habits' \in Games /\ button' \in 0 .. 2 /\ mode' \in 0 .. 2
        /\ view' \in [Cell -> Stone] /\ cur' \in Steps
        /\ cur'.side = EMPTY => cur'.second = None
    BY DEF EInv, TypesHold
  <2>2. down' \in Seq(Responses)
    BY DEF EInv, TypesHold
  <2>3. color' \in Stone /\ stepId' \in Nat /\ thinking' \in BOOLEAN
    BY DEF EInv, TypesHold
  <2> QED
    BY <1>1, <1>4, <1>6, <2>1, <2>2, <2>3 DEF TypesHold
<1>8. TurnsHold'
  BY <1>5, PlayAssumption DEF EInv, TypesHold, TurnsHold, Other, Colors, Stone, Receive
<1>9. Closed' /\ OneStart'
  BY <1>1 DEF Closed, OneStart
<1> QED
  BY <1>7, <1>8, <1>9 DEF EInv

\* A request that is refused is no start.
LEMMA RefuseTurns == EInv /\ Refuse => EInv'
<1> SUFFICES ASSUME EInv, Refuse PROVE EInv'
  OBVIOUS
<1> USE DEF Refuse, page
<1>1. /\ up' \in Seq(Requests) /\ mode # 0 /\ \A i \in DOMAIN up' : ~IsStart(up'[i])
  BY Received
<1>2. down' \in Seq(Responses)
  BY TextQueued DEF EInv, TypesHold
<1>3. color # EMPTY
  BY <1>1, StartVals DEF EInv, TurnsHold, TypesHold
<1>4. TypesHold'
  BY <1>1, <1>2 DEF EInv, TypesHold
<1>5. TurnsHold' /\ Closed' /\ OneStart'
  BY <1>1, <1>3 DEF EInv, TypesHold, TurnsHold, Closed, OneStart
<1> QED
  BY <1>4, <1>5 DEF EInv

\* The engine's step ends its turn.
LEMMA ComputerMoveTurns == EInv /\ ComputerMove => EInv'
<1> SUFFICES ASSUME EInv, ComputerMove PROVE EInv'
  OBVIOUS
<1> USE DEF ComputerMove, page
<1>1. color \in Colors /\ color # EMPTY /\ player = color /\ mode # 0
  BY DEF EInv, TypesHold, TurnsHold, Stone, Colors
<1>2. board' \in [Cell -> Stone] /\ down' \in Seq(Responses)
  <2>1. CASE stepId = 0
    <3>1. Reply(Step(BLACK, Center, None)) \in Responses
      BY PlayAssumption DEF Responses, Replies, Step, Colors
    <3>2. /\ board' = [board EXCEPT ![Center] = BLACK]
          /\ down' = Append(down, Reply(Step(BLACK, Center, None)))
      BY <2>1
    <3>3. board' \in [Cell -> Stone]
      BY <3>2 DEF EInv, TypesHold, Stone
    <3> QED
      BY <3>1, <3>2, <3>3, QueueEnds DEF EInv, TypesHold
  <2>2. CASE stepId # 0
    <3>1. CASE \E c, d \in {e \in Cell : board[e] = EMPTY} :
                  /\ c # d
                  /\ \E e \in {c} \cup (IF "stray" \in habits THEN {p \in Cell : board[p] = EMPTY}
                                                              ELSE {}) :
                       board' = [board EXCEPT ![c] = color, ![d] = color, ![e] = color]
                  /\ down' = Append(down, Reply(Step(color, c, d)))
      <4>1. PICK c, d \in Cell, e \in Cell :
              /\ board' = [board EXCEPT ![c] = color, ![d] = color, ![e] = color]
              /\ down' = Append(down, Reply(Step(color, c, d)))
        BY <3>1
      <4>2. Reply(Step(color, c, d)) \in Responses
        BY <1>1 DEF Responses, Replies, Step
      <4> QED
        BY <1>1, <4>1, <4>2, QueueEnds DEF EInv, TypesHold
    <3>2. CASE \E c, d \in Cell \cup {None} :
                  /\ board' = [e \in Cell |-> IF e \in {c, d} THEN color ELSE board[e]]
                  /\ down' = Append(down, Reply(Step(color, None, d)))
      <4>1. PICK c, d \in Cell \cup {None} :
              /\ board' = [e \in Cell |-> IF e \in {c, d} THEN color ELSE board[e]]
              /\ down' = Append(down, Reply(Step(color, None, d)))
        BY <3>2
      <4>2. Reply(Step(color, None, d)) \in Responses
        BY <1>1 DEF Responses, Replies, Step
      <4> QED
        BY <1>1, <4>1, <4>2, QueueEnds DEF EInv, TypesHold, Stone, Colors
    <3> QED
      BY <2>2, <3>1, <3>2
  <2> QED
    BY <2>1, <2>2
<1>3. player' \in Colors
  BY PlayAssumption DEF Other, Colors
<1>4. TypesHold'
  <2>1. stepId' = stepId + 1 /\ thinking' = FALSE /\ UNCHANGED <<page, up, color>>
    BY Zenon
  <2> HIDE DEF ComputerMove
  <2>2. thinking' \in BOOLEAN
    BY <2>1
  <2>4. stepId' \in Nat
    BY <2>1 DEF EInv, TypesHold
  <2>5. color' \in Stone
    BY <2>1 DEF EInv, TypesHold
  <2>3. /\ habits' \in Games /\ button' \in 0 .. 2 /\ mode' \in 0 .. 2
        /\ view' \in [Cell -> Stone] /\ up' \in Seq(Requests) /\ cur' \in Steps
        /\ cur'.side = EMPTY => cur'.second = None
    BY <2>1 DEF EInv, TypesHold
  <2> QED
    BY <1>2, <1>3, <2>2, <2>3, <2>4, <2>5 DEF TypesHold
<1>5. TurnsHold' /\ Closed' /\ OneStart'
  BY <1>1 DEF EInv, TurnsHold, Closed, OneStart
<1> QED
  BY <1>4, <1>5 DEF EInv

\* Every step keeps the turns.
LEMMA TurnsNext == EInv /\ [Next]_vars => EInv'
<1> SUFFICES ASSUME EInv, [Next]_vars PROVE EInv'
  OBVIOUS
<1>1. CASE UNCHANGED vars
  BY <1>1 DEF vars, EInv, TypesHold, TurnsHold, Closed, OneStart
<1>2. ASSUME NEW m \in {1, 2}, ButtonClick(m) PROVE EInv'
  BY <1>2 DEF ButtonClick, session, EInv, TypesHold, TurnsHold, Closed, OneStart
<1> QED
  BY <1>1, <1>2, ClickTurns, OnOpenTurns, OtherTurns, OnMessageTurns, StartGameTurns,
     HumanMoveTurns, RefuseTurns, ComputerMoveTurns DEF Next, Engine

\* The engine searches only in its own turn, in every kind of game.
THEOREM EngineTurnHolds == Spec => []EngineTurn
<1>1. EInv => EngineTurn
  BY DEF EInv, TurnsHold, EngineTurn
<1> QED
  BY <1>1, TurnsInit, TurnsNext, PTL DEF Spec
-----------------------------------------------------------------------------
(* The game of a user who waits: every step keeps GInv *)

\* The parts of GInv beside the turns.
Phase == Sent \/ Asked \/ Searches \/ Answered \/ Rests
Count == /\ stepId = 0 <=> board = Empty
         /\ stepId = 0 => player = BLACK
         /\ color = EMPTY => stepId = 0

\* A message to the engine that carries no step leaves the game where it is.
LEMMA SilentUp ==
  ASSUME EInv, Phase,
         \A s \in Steps : Carries(up, s) => Carries(up', s),
         ~HasStep(up) => ~HasStep(up'),
         UNCHANGED <<mode, view, cur, down, board, player, stepId, color, thinking>>
  PROVE  Phase'
BY DEF Phase, Sent, Asked, Searches, Answered, Rests, EInv, TypesHold, Draw

\* A message to the page that carries no step does, too.
LEMMA SilentDown ==
  ASSUME EInv, Phase,
         \A s \in Steps : Carries(down, s) => Carries(down', s),
         ~HasStep(down) => ~HasStep(down'),
         UNCHANGED <<mode, view, cur, up, board, player, stepId, color, thinking>>
  PROVE  Phase'
BY ReplyIsStep DEF Phase, Sent, Asked, Searches, Answered, Rests, EInv, TypesHold, Draw

\* A board that is not the empty one has a stone.
LEMMA NotEmpty ==
  ASSUME NEW b \in [Cell -> Stone]
  PROVE  b # Empty <=> \E e \in Cell : b[e] # EMPTY
BY DEF Empty

\* The socket opens.
LEMMA OnOpenGame == ASSUME EInv, Count, Phase, OnOpen PROVE Phase'
<1> USE DEF OnOpen, session
<1>1. /\ up = <<>> /\ down = <<>> /\ color = EMPTY /\ ~thinking /\ stepId = 0 /\ board = Empty
      /\ mode = 0 /\ mode' \in {1, 2}
  BY DEF EInv, Closed, TurnsHold, Count, TypesHold
<1>2. ~HasStep(up) /\ ~HasStep(down) /\ \A s \in Steps : ~Carries(up, s) /\ ~Carries(down, s)
  BY <1>1 DEF HasStep, Carries
<1>3. Rests
  BY <1>1, <1>2, ReplyIsStep DEF Phase, Sent, Asked, Searches, Answered, EInv, TypesHold
<1>4. ~HasStep(up')
  <2>1. button \in {1, 2} /\ Start(button) \in Requests
    BY DEF EInv, TypesHold, Requests
  <2> QED
    BY <1>2, <2>1, StartVals, AppendSilent DEF EInv, TypesHold
<1>5. cur.side = EMPTY /\ view = Empty
  BY <1>1, <1>3 DEF Rests
<1> QED
  BY <1>1, <1>2, <1>4, <1>5 DEF Phase, Asked, Rests

\* A click of a user who waits is made when nothing is under way.
LEMMA ClickRests ==
  ASSUME EInv, Phase, Orderly, NEW c \in Cell, Click(c)
  PROVE  Rests /\ mode # 0 /\ Opening
<1>1. ~Waiting /\ mode # 0 /\ Opening
  BY DEF Click, Orderly
<1>2. ~thinking /\ ~HasStep(up) /\ ~HasStep(down)
  BY <1>1 DEF Waiting
<1>3. ~Sent /\ ~Searches /\ ~Answered
  BY <1>2, CarriesHas, ReplyIsStep DEF Sent, Searches, Answered, EInv, TypesHold
<1>4. ~Asked
  <2> SUFFICES ASSUME Asked PROVE FALSE
    OBVIOUS
  <2>1. up # <<>> /\ Head(up) = Start(2)
    BY <1>1, <1>2 DEF Asked, EInv, TurnsHold
  <2>2. up[1] = Start(2) /\ 1 \in DOMAIN up
    BY <2>1, TailSteps DEF EInv, TypesHold
  <2> QED
    BY <1>1, <2>2, StartVals DEF Waiting
<1> QED
  BY <1>1, <1>3, <1>4 DEF Phase

\* A click: the opening, the second of two stones, which is sent, or the first.
LEMMA ClickGame ==
  ASSUME EInv, EInv', Count, Phase, Orderly, NEW c \in Cell, Click(c)
  PROVE  Phase'
<1> USE DEF session
<1>1. Rests /\ mode # 0 /\ Opening
  BY ClickRests
<1>2. /\ view[c] = EMPTY /\ cur' = AfterClick(c) /\ view' = [view EXCEPT ![c] = cur'.side]
      /\ up' = IF cur'.second # None THEN Append(up, Move(cur')) ELSE up
      /\ UNCHANGED <<mode, down, board, player, stepId, color, thinking>>
  BY <1>1 DEF Click, MoveChess
<1>3. ~HasStep(up) /\ ~HasStep(down) /\ ~thinking /\ (color = EMPTY => mode # 2)
  BY <1>1 DEF Rests
<1>4. /\ view \in [Cell -> Stone] /\ board \in [Cell -> Stone] /\ cur \in Steps /\ player \in Colors
      /\ up \in Seq(Requests) /\ cur' \in Steps /\ None \notin Cell
      /\ cur.side # EMPTY => cur.first \in Cell
  BY PlayAssumption DEF EInv, TypesHold, Steps, Click, Room
<1>5. cur'.second # None => Carries(up', cur')
  BY <1>2, <1>3, <1>4, MoveVals, AppendStep DEF Requests
<1>6. CASE cur.side = EMPTY /\ mode # 2 /\ board = Empty /\ view = Empty
  <2>1. cur' = Step(BLACK, c, c) /\ player = BLACK
    BY <1>2, <1>6 DEF AfterClick, Count
  <2>2. cur'.side = BLACK /\ cur'.first = c /\ cur'.second = c
    BY <2>1 DEF Step
  <2>3. Legal(board, cur') /\ view' = Put(board, cur')
    BY <1>2, <1>4, <1>6, <2>2 DEF Legal, Put, Colors
  <2> QED
    BY <1>2, <1>3, <1>4, <1>5, <1>6, <2>1, <2>2, <2>3 DEF Phase, Sent
<1>7. CASE /\ cur.side = player /\ cur.second = None /\ board # Empty
           /\ board[cur.first] = EMPTY /\ view = [board EXCEPT ![cur.first] = cur.side]
  <2>1. cur.side # EMPTY /\ cur.first \in Cell
    BY <1>4, <1>7, PlayAssumption DEF Colors
  <2>2. cur' = [cur EXCEPT !.second = c]
    BY <1>2, <1>7, <2>1 DEF AfterClick
  <2>3. cur'.side = player /\ cur'.first = cur.first /\ cur'.second = c
    BY <1>4, <1>7, <2>2 DEF Steps
  <2>4. c # cur.first /\ board[c] = EMPTY
    BY <1>2, <1>4, <1>7, <2>1
  <2>5. Legal(board, cur') /\ view' = Put(board, cur')
    BY <1>2, <1>4, <1>7, <2>1, <2>3, <2>4 DEF Legal, Put
  <2> QED
    BY <1>2, <1>3, <1>4, <1>5, <2>3, <2>5 DEF Phase, Sent
<1>8. CASE cur.side = Other(player) /\ cur.second # None /\ board # Empty /\ view = board
  <2>1. cur.side # EMPTY /\ Other(cur.side) = player
    BY <1>4, <1>8, PlayAssumption DEF Colors, Other
  <2>2. cur' = Step(player, c, None)
    BY <1>2, <1>8, <2>1 DEF AfterClick
  <2>3. cur'.side = player /\ cur'.first = c /\ cur'.second = None
    BY <2>2 DEF Step
  <2> QED
    BY <1>2, <1>3, <1>8, <2>3 DEF Phase, Rests
<1> QED
  BY <1>1, <1>6, <1>7, <1>8 DEF Rests

\* A message that is no move.
LEMMA OtherGame == ASSUME EInv, Phase, SendOther PROVE Phase'
<1>1. PICK msg \in Strange : up' = Append(up, msg)
  BY DEF SendOther
<1>2. msg \in Requests /\ Val(msg, "step") = None
  BY StrangeVals DEF Requests
<1>3. (\A s \in Steps : Carries(up, s) => Carries(up', s)) /\ (~HasStep(up) => ~HasStep(up'))
  BY <1>1, <1>2, AppendSilent DEF EInv, TypesHold
<1> QED
  BY <1>3, SilentUp DEF SendOther, session

\* The page takes a text, or the engine's step.
LEMMA OnMessageGame == ASSUME EInv, Count, Phase, OnMessage PROVE Phase'
<1> USE DEF session
<1>1. /\ down # <<>> /\ down \in Seq(Responses) /\ down' = Tail(down)
      /\ Head(down) \in Responses
      /\ HasStep(down) \/ Val(Head(down), "step") = None
  BY TailSteps DEF OnMessage, EInv, TypesHold
<1>2. CASE Val(Head(down), "step") = None
  <2>1. /\ \A s \in Steps : Carries(down, s) => Carries(down', s)
        /\ ~HasStep(down) => ~HasStep(down')
    BY <1>1, <1>2, TailSteps
  <2> QED
    BY <1>2, <2>1, SilentDown DEF OnMessage
<1>3. CASE Val(Head(down), "step") # None
  <2>1. Answered
    BY <1>1, <1>3 DEF Phase, Sent, Asked, Searches, Rests
  <2>2. PICK s \in Replies : /\ Carries(down, s) /\ s.first \in Cell
                             /\ s.side = color /\ board = Draw(s)
    BY <2>1 DEF Answered
  <2>3. Val(Head(down), "step") = s /\ ~HasStep(down')
    BY <1>1, <1>3, <2>2, TailSteps, ReplyIsStep
  <2>4. view' = board /\ cur' = [s EXCEPT !.second = IF @ = None THEN s.first ELSE @]
    BY <1>3, <2>2, <2>3, PlayAssumption DEF OnMessage
  <2>5. cur'.side = color /\ cur'.second # None /\ s.first \in Cell
    BY <2>2, <2>4, PlayAssumption DEF Replies
  <2>6. color \in Colors /\ color # EMPTY
    BY <2>2, PlayAssumption DEF Replies, Colors
  <2>7. ~thinking /\ ~HasStep(up) /\ color = Other(player)
    BY <2>1, <2>6, PlayAssumption DEF Answered, EInv, TypesHold, TurnsHold, Other, Colors
  <2>8. board # Empty
    <3>1. board[s.first] = s.side /\ s.side # EMPTY
      BY <2>2, <2>5, <2>6 DEF Draw, EInv, TypesHold
    <3> QED
      BY <2>5, <3>1 DEF Empty
  <2>9. UNCHANGED <<mode, up, board, player, color, thinking>>
    BY DEF OnMessage
  <2> QED
    BY <2>3, <2>4, <2>5, <2>6, <2>7, <2>8, <2>9 DEF Phase, Rests
<1> QED
  BY <1>2, <1>3

\* The session opens the game.
LEMMA StartGameGame == ASSUME EInv, EInv', Count, Phase, StartGame PROVE Count' /\ Phase'
<1> USE DEF StartGame, page
<1>1. /\ Head(up) = Start(mode) /\ mode \in {1, 2} /\ color = EMPTY /\ ~thinking
      /\ Val(Head(up), "step") = None /\ Head(up).mode = mode
  <2>1. color = EMPTY /\ mode # 0
    BY Received DEF EInv, OneStart
  <2>2. Head(up) = Start(mode) /\ mode \in {1, 2} /\ ~thinking
    BY <2>1 DEF EInv, TypesHold, TurnsHold
  <2> QED
    BY <2>1, <2>2, StartVals
<1>2. stepId = 0 /\ board = Empty /\ player = BLACK
  BY <1>1 DEF Count
<1>3. /\ \A s \in Steps : Carries(up, s) => Carries(up', s)
      /\ ~HasStep(up) => ~HasStep(up')
  BY <1>1, TailSteps DEF Receive, EInv, TypesHold
<1>4. color' \in Colors /\ color' # EMPTY
  BY PlayAssumption DEF Colors
<1>5. Count'
  BY <1>4 DEF Count
<1>6. ~Searches /\ ~Answered
  BY <1>1, PlayAssumption DEF Searches, Answered, Replies, Colors
<1>7. CASE mode = 1
  <2>1. ~HasStep(down) => ~HasStep(down')
    <3>1. down' = Append(down, Text) /\ Text \in Responses
      BY <1>1, <1>7 DEF Responses
    <3> QED
      BY <3>1, AppendSilent, ResponseVals DEF EInv, TypesHold
  <2>2. /\ ~thinking' /\ board' = board /\ player' = player
        /\ mode' = mode /\ view' = view /\ cur' = cur
    BY <1>1, <1>2, <1>7
  <2>3. Sent \/ Rests
    BY <1>6, <1>7 DEF Phase, Asked
  <2>4. cur \in Steps
    BY DEF EInv, TypesHold
  <2> HIDE DEF StartGame
  <2>5. CASE Sent
    BY <1>3, <1>5, <1>7, <2>1, <2>2, <2>4, <2>5 DEF Sent, Phase
  <2>6. CASE Rests
    BY <1>3, <1>5, <1>7, <2>1, <2>2, <2>6 DEF Rests, Phase
  <2> QED
    BY <2>3, <2>5, <2>6
<1>8. CASE mode = 2
  <2>1. Asked
    BY <1>1, <1>6, <1>8 DEF Phase, Sent, Rests
  <2>2. /\ thinking' /\ board' = Empty /\ mode' = mode /\ view' = view /\ cur' = cur
        /\ down' = down
    BY <1>1, <1>8
  <2> HIDE DEF StartGame
  <2> QED
    BY <1>3, <1>4, <1>5, <1>8, <2>1, <2>2 DEF Phase, Asked
<1> QED
  BY <1>1, <1>5, <1>7, <1>8

\* The session takes the user's step, which is the one on its way, and is legal.
LEMMA HumanMoveStep ==
  ASSUME EInv, Phase, HumanMove
  PROVE  /\ Sent /\ color # EMPTY /\ ~HasStep(up')
         /\ board' = Put(board, cur) /\ Legal(board, cur) /\ cur.side = player
<1> USE DEF HumanMove
<1>1. up # <<>> /\ up \in Seq(Requests) /\ Head(up) \in Requests /\ up' = Tail(up) /\ mode # 0
      /\ cur \in Steps /\ mode \in 0 .. 2
  BY Received DEF Receive, EInv, TypesHold
<1>2. PICK s \in Steps : Head(up) = Move(s)
  BY <1>1, StartVals, StrangeVals DEF Requests
<1>3. Val(Head(up), "step") = s /\ s # None /\ Head(up).step = s
  BY <1>2, MoveVals, StepIsValue
<1>4. Sent
  BY <1>1, <1>3, TailSteps DEF Phase, Asked, Searches, Answered, Rests
<1>5. Carries(up, cur)
  BY <1>4 DEF Sent
<1>6. s = cur /\ ~HasStep(up')
  BY <1>1, <1>3, <1>5, TailSteps
<1>7. color # EMPTY
  BY <1>1, <1>2, StartVals, MoveVals DEF EInv, TurnsHold
<1> QED
  BY <1>3, <1>4, <1>6, <1>7 DEF Sent, Put

\* Then it is the engine's turn to search.
LEMMA HumanMoveGame == ASSUME EInv, EInv', Count, Phase, HumanMove PROVE Count' /\ Phase'
<1>1. /\ Sent /\ color # EMPTY /\ ~HasStep(up')
      /\ board' = Put(board, cur) /\ Legal(board, cur) /\ cur.side = player
  BY HumanMoveStep
<1>2. /\ player' = Other(player) /\ stepId' = stepId + 1 /\ thinking' = TRUE
      /\ UNCHANGED <<mode, view, cur, color, down>>
  BY DEF HumanMove, page
<1>3. stepId' # 0 /\ board \in [Cell -> Stone] /\ player \in Colors
  BY <1>2 DEF EInv, TypesHold
<1>4. board' # Empty
  <2>1. board'[cur.first] \in Colors /\ cur.first \in Cell
    BY <1>1, <1>3 DEF Put, Legal
  <2> QED
    BY <2>1, PlayAssumption DEF Empty, Colors
<1>5. Count'
  BY <1>1, <1>2, <1>3, <1>4 DEF Count
<1>6. view' = board' /\ cur'.side = Other(player') /\ ~HasStep(down')
  BY <1>1, <1>2, <1>3, PlayAssumption DEF Sent, Other, Colors
<1> QED
  BY <1>1, <1>2, <1>3, <1>5, <1>6 DEF Phase, Searches

\* The session refuses a message.
LEMMA RefuseGame == ASSUME EInv, Phase, Refuse PROVE Phase'
<1> USE DEF Refuse, page
<1>1. up # <<>> /\ up \in Seq(Requests) /\ Head(up) \in Requests /\ up' = Tail(up)
      /\ down \in Seq(Responses) /\ cur \in Steps
  BY Received DEF Receive, EInv, TypesHold
<1>2. Val(Head(up), "step") = None
  BY <1>1, StartVals, MoveVals, StrangeVals DEF Requests
<1>3. /\ \A s \in Steps : Carries(up, s) => Carries(up', s)
      /\ ~HasStep(up) => ~HasStep(up')
  BY <1>1, <1>2, TailSteps
<1>4. /\ \A s \in Steps : Carries(down, s) => Carries(down', s)
      /\ ~HasStep(down) => ~HasStep(down')
  <2>1. down' \in {down, Append(down, Text)} /\ Text \in Responses
    BY DEF Responses
  <2> QED
    BY <1>1, <2>1, AppendSilent, ResponseVals
<1>5. UNCHANGED <<mode, view, cur, board, player, stepId, color, thinking>>
  OBVIOUS
<1> HIDE DEF Refuse
<1> QED
  BY <1>1, <1>3, <1>4, <1>5, ReplyIsStep DEF Phase, Sent, Asked, Searches, Answered, Rests, Draw

\* What the engine puts on the board when it leaves no stray stones.
LEMMA ComputerMoveStep ==
  ASSUME EInv, Count, Phase, Orderly, ComputerMove
  PROVE  /\ player = color /\ color \in Colors /\ view = board /\ ~HasStep(up) /\ ~HasStep(down)
         /\ \/ /\ board = Empty /\ color = BLACK /\ board' = [board EXCEPT ![Center] = BLACK]
               /\ down' = Append(down, Reply(Step(BLACK, Center, None)))
            \/ \E c, d \in Cell :
                 /\ board # Empty /\ c # d /\ board[c] = EMPTY /\ board[d] = EMPTY
                 /\ board' = [board EXCEPT ![c] = color, ![d] = color]
                 /\ down' = Append(down, Reply(Step(color, c, d)))
<1>1. thinking /\ board \in [Cell -> Stone] /\ color \in Stone
  BY DEF ComputerMove, EInv, TypesHold
<1>2. player = color /\ color \in Colors
  BY <1>1 DEF EInv, TurnsHold, TypesHold, Stone, Colors
<1>3. Asked \/ Searches
  BY <1>1 DEF Phase, Sent, Answered, Rests
<1>4. view = board /\ ~HasStep(up) /\ ~HasStep(down)
  BY <1>3 DEF Asked, Searches
<1>5. CASE stepId = 0
  BY <1>2, <1>4, <1>5 DEF ComputerMove, Count
<1>6. CASE stepId # 0
  <2>1. PICK c, d \in {e \in Cell : board[e] = EMPTY} :
          /\ c # d
          /\ \E e \in {c} : board' = [board EXCEPT ![c] = color, ![d] = color, ![e] = color]
          /\ down' = Append(down, Reply(Step(color, c, d)))
    BY <1>6 DEF ComputerMove, Orderly
  <2>2. board' = [board EXCEPT ![c] = color, ![d] = color]
    BY <1>1, <2>1
  <2> QED
    BY <1>2, <1>4, <1>6, <2>1, <2>2 DEF Count
<1> QED
  BY <1>5, <1>6

\* The engine's step is on its way to the page.
LEMMA ComputerMoveGame ==
  ASSUME EInv, EInv', Count, Phase, Orderly, ComputerMove
  PROVE  Count' /\ Phase'
<1>1. /\ stepId' = stepId + 1 /\ ~thinking' /\ view' = view /\ up' = up /\ color' = color
      /\ stepId \in Nat /\ down \in Seq(Responses) /\ board \in [Cell -> Stone]
  BY Zenon DEF ComputerMove, page, EInv, TypesHold
<1>2. /\ player = color /\ color \in Colors /\ view = board /\ ~HasStep(up) /\ ~HasStep(down)
      /\ \/ /\ board = Empty /\ color = BLACK /\ board' = [board EXCEPT ![Center] = BLACK]
            /\ down' = Append(down, Reply(Step(BLACK, Center, None)))
         \/ \E c, d \in Cell :
              /\ board # Empty /\ c # d /\ board[c] = EMPTY /\ board[d] = EMPTY
              /\ board' = [board EXCEPT ![c] = color, ![d] = color]
              /\ down' = Append(down, Reply(Step(color, c, d)))
  BY ComputerMoveStep
<1> DEFINE Gives(s) == /\ s.first \in Cell /\ s.side = color
                       /\ board' = Draw(s) /\ down' = Append(down, Reply(s))
           Played == \E e \in Cell : board'[e] # EMPTY
<1>3. (\E s \in Replies : Gives(s)) /\ Played
  <2>1. color # EMPTY /\ Center \in Cell /\ None \notin Cell
    BY <1>2, PlayAssumption DEF Colors
  <2>2. CASE /\ board = Empty /\ color = BLACK /\ board' = [board EXCEPT ![Center] = BLACK]
             /\ down' = Append(down, Reply(Step(BLACK, Center, None)))
    <3>1. /\ Step(BLACK, Center, None) \in Replies /\ Step(BLACK, Center, None).side = color
          /\ Step(BLACK, Center, None).first \in Cell
      BY <1>2, <2>1, <2>2 DEF Step, Replies
    <3>2. board' = Draw(Step(BLACK, Center, None))
      BY <1>1, <1>2, <2>1, <2>2 DEF Draw, Step
    <3>3. board'[Center] # EMPTY
      BY <1>1, <2>1, <2>2
    <3> QED
      BY <2>1, <2>2, <3>1, <3>2, <3>3
  <2>3. ASSUME NEW c \in Cell, NEW d \in Cell,
               board' = [board EXCEPT ![c] = color, ![d] = color],
               down' = Append(down, Reply(Step(color, c, d)))
        PROVE  (\E s \in Replies : Gives(s)) /\ Played
    <3>1. /\ Step(color, c, d) \in Replies /\ Step(color, c, d).side = color
          /\ Step(color, c, d).first \in Cell
      BY <1>2 DEF Step, Replies
    <3>2. board' = Draw(Step(color, c, d))
      BY <1>1, <1>2, <2>1, <2>3 DEF Draw, Step
    <3>3. board'[c] # EMPTY
      BY <1>1, <2>1, <2>3
    <3> QED
      BY <2>3, <3>1, <3>2, <3>3
  <2> QED
    BY <1>2, <2>2, <2>3
<1>4. stepId' # 0 /\ board' # Empty /\ color' # EMPTY
  BY <1>1, <1>2, <1>3, PlayAssumption DEF Empty, Colors
<1>5. Count'
  BY <1>4 DEF Count
<1>6. PICK s \in Replies : Gives(s)
  BY <1>3
<1>7. Carries(down', s)
  <2>1. Reply(s) \in Responses /\ s \in Steps
    BY ReplyIsStep DEF Responses
  <2> QED
    BY <1>1, <1>2, <1>6, <2>1, ResponseVals, AppendStep
<1>8. Answered'
  BY <1>1, <1>2, <1>6, <1>7 DEF Answered, Draw
<1> QED
  BY <1>5, <1>8 DEF Phase

\* The board changes only with the steps of the session.
LEMMA CountStays == Count /\ UNCHANGED <<board, player, stepId, color>> => Count'
BY DEF Count

\* The page and the engine begin with an empty board.
LEMMA GInit == Init => GInv
<1> SUFFICES ASSUME Init PROVE GInv
  OBVIOUS
<1>1. ~HasStep(up) /\ ~HasStep(down)
  BY DEF Init, HasStep
<1>2. Rests
  BY <1>1 DEF Init, Rests, Step
<1> QED
  BY <1>2, TurnsInit DEF Init, GInv

\* Every step of an orderly game keeps GInv.
LEMMA GNext == EInv /\ (Orderly => GInv) /\ [Next]_vars => (Orderly => GInv)'
<1> SUFFICES ASSUME EInv, GInv, [Next]_vars, Orderly PROVE GInv'
  <2>1. [Next]_vars => habits' = habits
    BY DEF Next, Engine, vars, page, session, ButtonClick, Click, MoveChess, OnOpen, OnMessage,
       SendOther, StartGame, HumanMove, Refuse, ComputerMove
  <2> QED
    BY <2>1 DEF Orderly
<1>1. EInv'
  BY TurnsNext
<1>2. Count /\ Phase
  BY DEF GInv, Count, Phase
<1> SUFFICES Count' /\ Phase'
  BY <1>1 DEF GInv, Count, Phase
<1>3. CASE UNCHANGED vars
  BY <1>2, <1>3 DEF vars, Count, Phase, Sent, Asked, Searches, Answered, Rests, Draw, Carries, HasStep
<1>4. ASSUME NEW m \in {1, 2}, ButtonClick(m) PROVE Count' /\ Phase'
  BY <1>2, <1>4 DEF ButtonClick, session, Count, Phase, Sent, Asked, Searches, Answered, Rests,
     Draw, Carries, HasStep
<1>5. ASSUME NEW c \in Cell, Click(c) PROVE Count' /\ Phase'
  BY <1>1, <1>2, <1>5, ClickGame, CountStays DEF Click, MoveChess, session
<1>6. CASE OnOpen
  BY <1>2, <1>6, OnOpenGame, CountStays DEF OnOpen, session
<1>7. CASE OnMessage
  BY <1>2, <1>7, OnMessageGame, CountStays DEF OnMessage, session
<1>8. CASE SendOther
  BY <1>2, <1>8, OtherGame, CountStays DEF SendOther, session
<1>9. CASE Refuse
  BY <1>2, <1>9, RefuseGame, CountStays DEF Refuse
<1>10. CASE StartGame
  BY <1>1, <1>2, <1>10, StartGameGame
<1>11. CASE HumanMove
  BY <1>1, <1>2, <1>11, HumanMoveGame
<1>12. CASE ComputerMove
  BY <1>1, <1>2, <1>12, ComputerMoveGame
<1> QED
  BY <1>3, <1>4, <1>5, <1>6, <1>7, <1>8, <1>9, <1>10, <1>11, <1>12 DEF Next, Engine

\* When nothing is under way and the user has not put the first of two stones,
\* page and engine have the same stones, in an orderly game.
THEOREM AgreementHolds == Spec => []Agreement
<1>1. EInv /\ (Orderly => GInv) => Agreement
  <2> SUFFICES ASSUME GInv, up = <<>>, down = <<>>, ~thinking, ~HalfStep PROVE view = board
    BY DEF Agreement
  <2>1. ~Sent /\ ~Answered /\ ~Searches
    BY DEF Sent, Answered, Searches, Carries
  <2>2. CASE Asked
    BY <2>2 DEF Asked
  <2>3. CASE Rests
    <3>1. ~(cur.side = player /\ cur.second = None)
      BY PlayAssumption DEF HalfStep, GInv, EInv, TypesHold, Colors
    <3> QED
      BY <2>3, <3>1 DEF Rests
  <2> QED
    BY <2>1, <2>2, <2>3 DEF GInv
<1> QED
  BY <1>1, TurnsInit, TurnsNext, GInit, GNext, PTL DEF Spec
-----------------------------------------------------------------------------
(* The rules: each step on the engine's board is a turn *)

\* A step of the game in progress is one of the rules, or none.
LEMMA RulesStep == EInv /\ (Orderly => GInv) /\ [Next]_vars => [Rules!Next]_(Rules!vars)
<1> SUFFICES ASSUME EInv, Orderly => GInv, [Next]_vars PROVE [Rules!Next]_(Rules!vars)
  OBVIOUS
<1>1. habits' = habits /\ (Orderly' <=> Orderly)
  BY DEF Orderly, Next, Engine, vars, page, session, ButtonClick, Click, MoveChess, OnOpen, OnMessage,
     SendOther, StartGame, HumanMove, Refuse, ComputerMove
<1>2. CASE ~Orderly
  BY <1>1, <1>2 DEF Rules!vars
<1>3. CASE Orderly
  <2>1. /\ Count /\ Phase /\ board \in [Cell -> Stone] /\ player \in Colors /\ color \in Stone
    BY <1>3 DEF GInv, Count, Phase, EInv, TypesHold
  <2>2. CASE UNCHANGED <<board, player>>
    BY <1>1, <1>3, <2>2 DEF Rules!vars
  <2>3. CASE StartGame
    <3>1. color = EMPTY
      BY <2>3, Received DEF StartGame, EInv, OneStart
    <3>2. UNCHANGED <<board, player>>
      BY <2>1, <2>3, <3>1 DEF StartGame, Count
    <3> QED
      BY <2>2, <3>2
  <2>4. CASE HumanMove
    <3>1. /\ board' = Put(board, cur) /\ Legal(board, cur) /\ cur.side = player /\ color # EMPTY
          /\ player' = Other(player) /\ ~thinking
      BY <2>1, <2>4, HumanMoveStep DEF HumanMove, Receive
    <3>2. CASE board = Empty
      <4>1. player = BLACK
        BY <2>1, <3>2 DEF Count
      <4>2. Rules!Open(cur.first)
        BY <1>1, <1>3, <2>1, <3>1, <3>2, <4>1, PlayAssumption DEF Rules!Open, Put, Legal, Empty, Other
      <4> QED
        BY <3>1, <4>2 DEF Rules!Next, Legal
    <3>3. CASE board # Empty
      <4>1. Rules!Move(cur.first, cur.second)
        BY <1>1, <1>3, <2>1, <3>1, <3>3, NotEmpty DEF Rules!Move, Rules!Other, Put, Legal, Other
      <4> QED
        BY <3>1, <4>1 DEF Rules!Next, Legal
    <3> QED
      BY <3>2, <3>3
  <2>5. CASE ComputerMove
    <3>1. player' = Other(player)
      BY <2>5, Zenon DEF ComputerMove
    <3>2. /\ player = color
          /\ \/ board = Empty /\ color = BLACK /\ board' = [board EXCEPT ![Center] = BLACK]
             \/ \E c, d \in Cell :
                  /\ board # Empty /\ c # d /\ board[c] = EMPTY /\ board[d] = EMPTY
                  /\ board' = [board EXCEPT ![c] = color, ![d] = color]
      BY <1>3, <2>1, <2>5, ComputerMoveStep
    <3>3. CASE board = Empty /\ color = BLACK /\ board' = [board EXCEPT ![Center] = BLACK]
      <4>1. Rules!Open(Center)
        BY <1>1, <1>3, <2>1, <3>1, <3>2, <3>3, PlayAssumption DEF Rules!Open, Empty, Other
      <4> QED
        BY <4>1, PlayAssumption DEF Rules!Next
    <3>4. ASSUME NEW c \in Cell, NEW d \in Cell,
                 board # Empty, c # d, board[c] = EMPTY, board[d] = EMPTY,
                 board' = [board EXCEPT ![c] = color, ![d] = color]
          PROVE  Rules!Next
      <4>1. Rules!Move(c, d)
        BY <1>1, <1>3, <2>1, <3>1, <3>2, <3>4, NotEmpty DEF Rules!Move, Rules!Other, Other
      <4> QED
        BY <4>1 DEF Rules!Next
    <3> QED
      BY <3>2, <3>3, <3>4
  <2> QED
    BY <2>2, <2>3, <2>4, <2>5 DEF Next, Engine, vars, session, ButtonClick, Click, MoveChess,
       OnOpen, OnMessage, SendOther, Refuse
<1> QED
  BY <1>2, <1>3

\* The game on the engine's board follows the rules, turn by turn, when the user
\* waits for his turn and the engine finds its steps.
THEOREM FollowsRulesHolds == Spec => FollowsRules
<1>1. Init => Rules!Init
  BY DEF Init, Rules!Init, Empty
<1> QED
  BY <1>1, TurnsInit, TurnsNext, GInit, GNext, RulesStep, PTL DEF Spec, FollowsRules, Rules!Spec
=============================================================================
