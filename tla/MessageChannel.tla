--------------------------- MODULE MessageChannel ---------------------------
(***************************************************************************)
(* What a websocket connection promises to the service behind it: the      *)
(* messages the client has sent are handled in the order they were sent,   *)
(* each once and unchanged, until the server closes the connection.        *)
(***************************************************************************)
EXTENDS Naturals, Sequences

CONSTANT Message

VARIABLES sent, got, open

Init == sent = <<>> /\ got = <<>> /\ open = TRUE

Submit == /\ Len(sent') = Len(sent) + 1 /\ SubSeq(sent', 1, Len(sent)) = sent
          /\ sent'[Len(sent')] \in Message
          /\ UNCHANGED <<got, open>>

Handle == /\ open /\ Len(got) < Len(sent)
          /\ got' = Append(got, sent[Len(got) + 1])
          /\ UNCHANGED <<sent, open>>

Close == open /\ open' = FALSE /\ UNCHANGED <<sent, got>>

Next == Submit \/ Handle \/ Close

Spec == Init /\ [][Next]_<<sent, got, open>>
=============================================================================
