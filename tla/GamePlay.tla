------------------------------ MODULE GamePlay ------------------------------
(***************************************************************************)
(* One game between a browser and the engine: the page (game.js and        *)
(* connect_six.js), the two directions of its connection, and the session  *)
(* object of the engine (consix.cpp).  The handler thread between them     *)
(* passes one request at a time to the engine and its response back, in    *)
(* order, so it shows as the two queues alone.                             *)
(***************************************************************************)
EXTENDS Integers, Sequences, FiniteSets

CONSTANTS Cell,      \* places of the board
          Center,    \* place (9,9)
          None,      \* coordinates -1,-1
          BLACK, WHITE, EMPTY,
          Games,     \* kinds of game, each the set of what happens in it beyond
                     \* turns that wait for each other: "early", the user plays
                     \* before the game is open or before the engine's opening;
                     \* "hasty", while it thinks; "stray", the engine leaves a stone
                     \* that is in no step on its board; "nostep", it may find no
                     \* step; "other", the client also sends messages that are no
                     \* moves
          Spare      \* bound: see Room

ASSUME PlayAssumption == /\ Center \in Cell /\ None \notin Cell
                         /\ BLACK # WHITE /\ EMPTY \notin {BLACK, WHITE}
                         /\ Games \subseteq SUBSET {"early", "hasty", "stray", "nostep", "other"} /\ Spare \in Nat

\* What a message carries is never None.
ASSUME ValueAssumption ==
  /\ None \notin [side : {BLACK, WHITE, EMPTY}, first : Cell \cup {None}, second : Cell \cup {None}]
  /\ None \notin {"consix", "other", "move", "start", 1, 2, 3}

VARIABLES habits,          \* the kind of this game
          button,          \* m_mode of game.js: 0, or the mode chosen
          mode,            \* m_mode of connect_six.js, set when the socket opens
          view, cur,       \* m_board and m_cur_step
          up, down,        \* messages on their way to the engine and to the page
          board, player, stepId, color,   \* CSearch of the session
          thinking         \* the engine is in computer_move

page    == <<habits, button, mode, view, cur>>
session == <<board, player, stepId, color, thinking>>
vars    == <<habits, button, mode, view, cur, up, down, board, player, stepId, color, thinking>>

Empty == [c \in Cell |-> EMPTY]
Other(side) == IF side = BLACK THEN WHITE ELSE BLACK
Step(s, f, g)  == [side |-> s, first |-> f, second |-> g]

\* A message is what its keys stand for; the session gives a step or a text.
Start(m) == [type |-> "consix", cmd |-> "start", mode |-> m]
Move(s)  == [type |-> "consix", cmd |-> "move", step |-> s]
Reply(s) == [cmd |-> "move", step |-> s]
Text     == [error |-> "text"]

\* get_val_by_key: None when the message lacks the key.
Val(msg, key) == IF key \in DOMAIN msg THEN msg[key] ELSE None
HasStep(queue) == \E i \in DOMAIN queue : Val(queue[i], "step") # None

\* Messages without a type, a command, a mode that there is, or anything to do.
Strange == {[cmd |-> "move"], [type |-> "consix"], [type |-> "other", cmd |-> "move"],
            [type |-> "consix", cmd |-> "move", mode |-> 3], [type |-> "consix", cmd |-> "move"]}

Init == /\ habits \in Games
        /\ button = 0 /\ mode = 0
        /\ view = Empty /\ cur = Step(EMPTY, None, None)
        /\ up = <<>> /\ down = <<>>
        /\ board = Empty /\ player = BLACK /\ stepId = 0 /\ color = EMPTY
        /\ thinking = FALSE

-----------------------------------------------------------------------------
(* The page *)

\* button_click: the mode is chosen once, and the socket begins to open.
ButtonClick(m) == /\ button = 0 /\ button' = m
                  /\ UNCHANGED <<habits, mode, view, cur, up, down, session>>

\* onopen: start_game.
OnOpen == /\ button # 0 /\ mode = 0
          /\ mode' = button
          /\ up' = Append(up, Start(button))
          /\ UNCHANGED <<habits, button, view, cur, down, session>>

\* Mutant: the opening is two stones.
AfterClickDouble(c) == CASE cur.side = EMPTY  -> Step(BLACK, c, None)
                         [] cur.side # EMPTY /\ cur.second = None -> [cur EXCEPT !.second = c]
                         [] OTHER -> Step(Other(cur.side), c, None)

\* m_cur_step after a click on place c.
AfterClick(c) == CASE cur.side = EMPTY  -> Step(BLACK, c, c)
                   [] cur.side # EMPTY /\ cur.second = None -> [cur EXCEPT !.second = c]
                   [] OTHER -> Step(Other(cur.side), c, None)

\* Mutant: a step is sent whether a game is open or not.
MoveChessUngated(c) == /\ cur' = AfterClick(c)
                       /\ view' = [view EXCEPT ![c] = cur'.side]
                       /\ up' = IF cur'.second # None THEN Append(up, Move(cur')) ELSE up
                       /\ UNCHANGED <<habits, button, mode, down, session>>

\* move_chess: the stone is drawn, and a step that is complete is sent.
MoveChess(c) == /\ cur' = AfterClick(c)
                /\ view' = [view EXCEPT ![c] = cur'.side]
                /\ up' = IF mode # 0 /\ cur'.second # None THEN Append(up, Move(cur')) ELSE up
                /\ UNCHANGED <<habits, button, mode, down, session>>

\* A step of the engine is to come: the opening of mode 2, or a reply.
Opening == mode # 2 \/ \E c \in Cell : view[c] # EMPTY
Waiting == \/ thinking
           \/ \E i \in DOMAIN up : Val(up[i], "mode") = 2
           \/ HasStep(up) \/ HasStep(down)

\* Bounds: the user stops before the board is too full for the engine's reply, in
\* a game that is not orderly Spare places earlier, and after a step that has no place.
Room == /\ cur.side = EMPTY \/ cur.first # None
        /\ Cardinality({c \in Cell : view[c] = EMPTY})
             >= (IF cur.second = None THEN 3 ELSE 4) + (IF habits = {} THEN 0 ELSE Spare)

\* The user puts a stone on an empty place.
Click(c) == /\ view[c] = EMPTY /\ Room
            /\ (mode # 0 /\ Opening) \/ "early" \in habits
            /\ ~Waiting \/ "hasty" \in habits
            /\ MoveChess(c)

\* Another message from the same client.  Bound: one at a time, and not before
\* the answer to the one before is read.
SendOther == /\ "other" \in habits /\ mode # 0
             /\ \A i \in DOMAIN up : up[i] \notin Strange
             /\ \A i \in DOMAIN down : down[i] # Text
             /\ \E msg \in Strange : up' = Append(up, msg)
             /\ UNCHANGED <<habits, button, mode, view, cur, down, session>>

\* Mutant: the second stone of the engine's step is not drawn.
DrawFirst(s) == [view EXCEPT ![s.first] = s.side]

\* m_board after a step of the engine; the opening has no second stone.
Draw(s) == [view EXCEPT ![s.first] = s.side, ![IF s.second = None THEN s.first ELSE s.second] = s.side]

\* on_message: a text without a step is ignored; of a step at column -1 m_board
\* has no such column, and on_message ends there, with the step read and not drawn.
OnMessage == /\ down # <<>> /\ down' = Tail(down)
             /\ LET s == Val(Head(down), "step") IN
                \/ s = None /\ UNCHANGED <<view, cur>>
                \/ /\ s # None /\ s.first = None
                   /\ cur' = s /\ UNCHANGED view
                \/ /\ s # None /\ s.first # None
                   /\ view' = Draw(s)
                   /\ cur' = [s EXCEPT !.second = IF @ = None THEN s.first ELSE @]
             /\ UNCHANGED <<habits, button, mode, up, session>>

-----------------------------------------------------------------------------
(* The session *)

\* What handle_service passes on, and the session takes for a message to itself.
IsRequest(msg) == Val(msg, "type") = "consix" /\ Val(msg, "cmd") # None
IsStart(msg)   == IsRequest(msg) /\ Val(msg, "mode") \in {1, 2}
IsStep(msg)    == IsRequest(msg) /\ Val(msg, "mode") = None /\ Val(msg, "step") # None

\* The session takes its next message.
Receive == ~thinking /\ up # <<>> /\ up' = Tail(up)

\* handle_consix with a mode: start_game, then computer_move in mode 2.
StartGame == /\ Receive /\ IsStart(Head(up))
             /\ board' = Empty /\ player' = BLACK /\ stepId' = 0
             /\ color' = IF Head(up).mode = 1 THEN WHITE ELSE BLACK
             /\ IF Head(up).mode = 1
                THEN down' = Append(down, Text) /\ thinking' = FALSE
                ELSE thinking' = TRUE /\ UNCHANGED down
             /\ UNCHANGED page

\* Mutant: the engine does not reply.
HumanMoveSilent == /\ Receive /\ IsStep(Head(up))
                   /\ LET s == Head(up).step IN
                      board' = [board EXCEPT ![s.first] = s.side, ![s.second] = s.side]
                   /\ player' = Other(player) /\ stepId' = stepId + 1
                   /\ UNCHANGED <<page, color, thinking, down>>

\* handle_consix with a step: human_move, then computer_move.
HumanMove == /\ Receive /\ IsStep(Head(up))
             /\ LET s == Head(up).step IN
                board' = [board EXCEPT ![s.first] = s.side, ![s.second] = s.side]
             /\ player' = Other(player) /\ stepId' = stepId + 1
             /\ thinking' = TRUE
             /\ UNCHANGED <<page, color, down>>

\* Any other message is answered with an error, by handle_service if it is for
\* another game, or not at all if it lacks its type or command.
Refuse == /\ Receive /\ ~IsStart(Head(up)) /\ ~IsStep(Head(up))
          /\ down' = IF Val(Head(up), "type") = "other" \/ IsRequest(Head(up))
                     THEN Append(down, Text) ELSE down
          /\ UNCHANGED <<page, board, player, stepId, color, thinking>>

\* computer_move: the opening in the center, or the step CSearch::ComputerMove
\* finds, on two empty places; the response carries the step.  A search for a win
\* may leave stones of other pairs on the board (see Position).  It may also find
\* no pair, as with five own stones in a stretch of six: then the first place is
\* column -1 and its row and the second place are not initialised, the writes to
\* Board set up to two places, and the step is sent all the same.  (Those writes
\* may also hit other memory; ComputerColor and Player have the value they write.
\* When they kill the engine, or a list of moves is empty and its first is read,
\* it is EngineDies of EngineHost.)
ComputerMove ==
  /\ thinking
  /\ \/ /\ stepId = 0
        /\ board' = [board EXCEPT ![Center] = BLACK]
        /\ down' = Append(down, Reply(Step(BLACK, Center, None)))
     \/ /\ stepId # 0
        /\ \E c, d \in {e \in Cell : board[e] = EMPTY} :
             /\ c # d
             /\ \E e \in {c} \cup (IF "stray" \in habits THEN {p \in Cell : board[p] = EMPTY} ELSE {}) :
                  board' = [board EXCEPT ![c] = color, ![d] = color, ![e] = color]
             /\ down' = Append(down, Reply(Step(color, c, d)))
     \/ /\ stepId # 0 /\ "nostep" \in habits
        /\ \E c, d \in Cell \cup {None} :
             /\ board' = [e \in Cell |-> IF e \in {c, d} THEN color ELSE board[e]]
             /\ down' = Append(down, Reply(Step(color, None, d)))
  /\ player' = Other(player) /\ stepId' = stepId + 1
  /\ thinking' = FALSE
  /\ UNCHANGED <<page, up, color>>

-----------------------------------------------------------------------------
Engine == StartGame \/ HumanMove \/ Refuse \/ ComputerMove

Next == \/ \E m \in {1, 2} : ButtonClick(m)
        \/ \E c \in Cell : Click(c)
        \/ OnOpen \/ OnMessage \/ SendOther \/ Engine

Spec == Init /\ [][Next]_vars

\* The connection delivers and the engine answers; the user may stop at any time.
FairSpec == Spec /\ WF_vars(OnOpen) /\ WF_vars(OnMessage) /\ WF_vars(Engine)
-----------------------------------------------------------------------------
(* Properties *)

\* The user waits for his turn, and the engine finds its steps and leaves no other
\* stones behind.
Orderly  == habits \subseteq {"other"}
HalfStep == cur.side # EMPTY /\ cur.second = None

\* When nothing is under way and the user has not put the first of two stones,
\* the page and the engine have the same stones on the board, in an orderly game.
Agreement == Orderly /\ up = <<>> /\ down = <<>> /\ ~thinking /\ ~HalfStep => view = board

\* Whatever the user does, an impatient one included, and whatever step the engine
\* finds or does not find, it searches only when it is the turn of its own colour:
\* the session counts turns by requests and never looks at the side a step names.
EngineTurn == thinking => player = color

\* If the user waits for his turn and the engine finds its steps, which the code
\* alone does not ensure (see ComputerMove), the game on the engine's board follows
\* the rules of connect-six turn by turn, colours, opening and empty places of the
\* user's stones included, although neither the page nor the session checks them.
Rules == INSTANCE ConnectSix WITH board <- IF Orderly THEN board ELSE Empty,
                                  turn <- IF Orderly THEN player ELSE BLACK
FollowsRules == Rules!Spec

User     == IF mode = 2 THEN WHITE ELSE BLACK
StepDone == mode # 0 /\ cur.side = User /\ cur.second # None
Chosen2  == mode = 2 /\ cur.side = EMPTY
Drawn    == /\ cur.side = Other(User)
            /\ \A c \in {cur.first, cur.second} : c \in Cell /\ view[c] = cur.side

\* If the engine lives and finds its steps, every step a user who waits completes,
\* and the choice to let the engine begin, is followed by a step of the engine
\* drawn on the page: no message that is no move can keep it away.
TurnComes == Orderly /\ (StepDone \/ Chosen2) ~> Drawn
=============================================================================
