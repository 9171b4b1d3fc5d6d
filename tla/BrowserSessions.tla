-------------------------- MODULE BrowserSessions --------------------------
(***************************************************************************)
(* What the WebSocket server promises to the browsers, one by one: what    *)
(* happens to a browser depends on its own requests only.  It is let in,   *)
(* may open one game, gets the answers to its own requests, and when it    *)
(* leaves its game is closed first.  `ServerLife` is shown to implement    *)
(* it.                                                                     *)
(***************************************************************************)
CONSTANT Browser

VARIABLES serving,   \* browsers that are let in
          playing,   \* browsers with a game on the engine
          asking     \* browsers that wait for an answer

vars == <<serving, playing, asking>>

Init == serving = {} /\ playing = {} /\ asking = {}

Enter(b) == /\ b \notin serving
            /\ serving' = serving \cup {b}
            /\ UNCHANGED <<playing, asking>>

\* A request; it may open the browser's game, and it may need no answer.
Ask(b) == /\ b \in serving \ asking
          /\ asking' \in {asking, asking \cup {b}}
          /\ playing' \in {playing, playing \cup {b}}
          /\ UNCHANGED serving

Answer(b) == /\ b \in asking
             /\ asking' = asking \ {b}
             /\ UNCHANGED <<serving, playing>>

EndGame(b) == /\ b \in playing \ asking
              /\ playing' = playing \ {b}
              /\ UNCHANGED <<serving, asking>>

Leave(b) == /\ b \in serving \ (playing \cup asking)
            /\ serving' = serving \ {b}
            /\ UNCHANGED <<playing, asking>>

Next == \E b \in Browser : Enter(b) \/ Ask(b) \/ Answer(b) \/ EndGame(b) \/ Leave(b)

Spec == Init /\ [][Next]_vars
=============================================================================
