----------------------------- MODULE FrameStream -----------------------------
(***************************************************************************)
(* How a handler thread turns the bytes of a connection into messages:     *)
(* communicate of Communicate.c, which serves RFC 6455 with parseMessage   *)
(* and getRemainingMessage, hybi-00 with getWholeMessage, and hixie-75 not *)
(* at all, and the part of handleClient's loop that carries the bytes of   *)
(* the next message over.  recv returns any part of what has arrived.  A   *)
(* byte is <<n, i>>, the i-th byte of the n-th frame the client sent;      *)
(* masking is the identity on a byte that arrived and turns a zero byte    *)
(* into Garbage.                                                           *)
(***************************************************************************)
EXTENDS Integers, Sequences, SequencesExt

CONSTANTS Kind,        \* kinds of client: the type of the connection, the frames it
                       \* sends, whether it is hasty and sends before it has the
                       \* answer to the message before, and whether a recv may end
                       \* within the request or the header of a frame
          BUFFERSIZE,
          MAXMESSAGE,
          MaxFrames,   \* bound: frames a client sends
          MaxLost      \* bound: bytes lost when it hangs up

Op == {"text", "cont", "close", "other"}

\* Opcode, FIN bit, size of the header and of the payload.  A text of hybi-00
\* has one byte before it and one behind.
FrameType == [op : Op, fin : BOOLEAN, skip : {1, 6, 8, 14}, len : Nat]
Type      == {"RFC6455", "HYBI00", "HIXIE75"}

ASSUME StreamAssumption ==
  /\ Kind \subseteq [type : Type, frames : SUBSET FrameType, hasty : BOOLEAN, splits : BOOLEAN]
  /\ \A k \in Kind : \A f \in k.frames :
       /\ k.type = "HYBI00" <=> f.skip = 1
       /\ k.type = "HYBI00" => f.op \in {"text", "close"} /\ f.fin
  /\ BUFFERSIZE \in Nat /\ BUFFERSIZE > 14 /\ MAXMESSAGE \in Nat /\ MaxFrames \in Nat
  /\ MaxLost \in Nat

VARIABLES kind,              \* which kind of client it is
          sent, wire, eof,   \* its frames, the bytes not yet received, hung up
          pc, next,          \* the handler and its local next
          buffer,            \* communicate's buffer
          m,                 \* n->message: len, msg, next, and the opcode of its first frame
          got                \* messages passed to handle_service

client  == <<kind, sent, wire, eof>>
handler == <<pc, next, buffer, m, got>>
vars    == <<kind, sent, wire, eof, pc, next, buffer, m, got>>

Garbage == <<0, 0>>
Smaller(a, b) == IF a <= b THEN a ELSE b
Bytes(n, f) == [i \in 1 .. f.skip + f.len + IF f.skip = 1 THEN 1 ELSE 0 |-> <<n, i>>]
NewMessage  == [len |-> 0, msg |-> <<>>, next |-> <<>>, op |-> "none"]

\* A client that has sent nothing yet.
NewClient == kind \in Kind /\ sent = <<>> /\ wire = <<>> /\ eof = FALSE

-----------------------------------------------------------------------------
(* The client: a message is one frame, or a text frame and its             *)
(* continuations, and nothing follows a close frame.                       *)

Closing   == sent # <<>> /\ Last(sent).op = "close"
InMessage == sent # <<>> /\ Last(sent).op \in {"text", "cont"} /\ ~Last(sent).fin

Send(f) == /\ f \in kind.frames /\ Len(sent) < MaxFrames /\ ~eof /\ ~Closing
           /\ kind.hasty \/ Len(got) = Len(sent)
           /\ f.op = "cont" <=> InMessage
           /\ sent' = Append(sent, f)
           /\ wire' = wire \o Bytes(Len(sent) + 1, f)
           /\ UNCHANGED <<kind, eof, handler>>

\* The client goes; of what has not arrived by then the end may be lost.
Hangup == /\ ~eof /\ eof' = TRUE
          /\ \E k \in 0 .. Smaller(MaxLost, Len(wire)) : wire' = SubSeq(wire, 1, Len(wire) - k)
          /\ UNCHANGED <<kind, sent, handler>>

-----------------------------------------------------------------------------
(* The handler *)

FrameOf(byte) == sent[byte[1]]

\* The bytes a recv of at most room bytes may return.  Unless the client splits
\* headers, the network cuts between headers and payloads; a full buffer cuts
\* anywhere.
Chunks(room) ==
  {k \in 1 .. Smaller(room, Len(wire)) :
     \/ kind.splits \/ k = room \/ k = Len(wire)
     \/ wire[k + 1][2] = 1 \/ wire[k + 1][2] > FrameOf(wire[k + 1]).skip}

\* Mutant: what is left over is taken for less than a header.
NeedMoreAlways == TRUE

\* Mutant: six bytes are enough for every header.
NeedMoreSix == Len(next) <= 6

\* The bytes left over are too few to hold a header and a byte of its payload.
NeedMore == Len(next) <= IF Len(next) <= 6 THEN 6 ELSE FrameOf(next[1]).skip

Closed == pc' = "closed" /\ UNCHANGED <<next, buffer, m, got>>

\* The first recv of a frame, or none when enough of it is left over.
Read == /\ pc = "read" /\ kind.type = "RFC6455"
        /\ \/ /\ NeedMore
              /\ \E k \in Chunks(BUFFERSIZE - Len(next)) :
                   /\ buffer' = next \o SubSeq(wire, 1, k)
                   /\ wire' = SubSeq(wire, k + 1, Len(wire))
           \/ /\ ~NeedMore
              /\ buffer' = next /\ UNCHANGED wire
        /\ m' = [m EXCEPT !.op = IF @ = "none" THEN FrameOf(buffer'[1]).op ELSE @]
        /\ next' = <<>> /\ pc' = "parse"
        /\ UNCHANGED <<kind, sent, eof, got>>

ReadEnd == /\ pc = "read" /\ kind.type # "HIXIE75" /\ NeedMore /\ wire = <<>> /\ eof
           /\ Closed /\ UNCHANGED client

Head1 == FrameOf(buffer[1])
Total == m.len + Head1.len

\* parseMessage refuses a frame: the header is not whole (the size that remains
\* of the buffer wraps around, and malloc fails), or the message is too long.
Refuse == /\ pc = "parse" /\ buffer[1][2] = 1
          /\ Len(buffer) < Head1.skip \/ Total > MAXMESSAGE
          /\ Closed /\ UNCHANGED client

\* m->next after the part of the buffer behind the header is copied.
Cut(body) == IF Len(body) > Total THEN SubSeq(body, Total + 1, Len(body)) ELSE m.next

\* The rest of parseMessage up to getRemainingMessage.  The memory for the
\* message is new: the payload of earlier fragments is zero bytes in it.  The
\* fragment is copied behind those bytes before the sizes are compared: when more
\* than the fragment is in the buffer the copy may run past the memory, after which
\* the handler closes the connection or dies of what it has overwritten.
\* Frames are read from their first byte; what parseMessage makes of other
\* bytes as a header is not modelled, and the handler stops there.
Parse == /\ pc = "parse" /\ buffer[1][2] = 1
         /\ Len(buffer) >= Head1.skip /\ Total <= MAXMESSAGE
         /\ LET body   == SubSeq(buffer, Head1.skip + 1, Len(buffer))
                copied == Smaller(Len(body), Total)
                size   == m.len + copied
            IN /\ m' = [m EXCEPT !.len = Total, !.next = Cut(body),
                                 !.msg = [i \in 1 .. m.len |-> Garbage] \o SubSeq(body, 1, copied)]
               /\ pc' \in CASE size < Total -> {"rest"}
                            [] size = Total -> {"done"}
                            [] size > Total -> {"closed", "crashed"}
         /\ UNCHANGED <<client, next, buffer, got>>

\* The bytes of a chunk behind the end of the message.
RestNext(chunk) ==
  LET lack == m.len - Len(m.msg)
  IN IF Len(chunk) > lack THEN SubSeq(chunk, lack + 1, Len(chunk)) ELSE m.next

\* Mutant: the message is taken as whole one byte early.
WholeEarly(msg) == Len(msg) >= m.len - 1

Whole(msg) == Len(msg) >= m.len

\* The bytes of a chunk that belong to the message.
Mine(chunk) == SubSeq(chunk, 1, Smaller(Len(chunk), m.len - Len(m.msg)))

\* One round of getRemainingMessage.
Rest == /\ pc = "rest"
        /\ \E k \in Chunks(BUFFERSIZE) :
             LET msg == m.msg \o Mine(SubSeq(wire, 1, k))
             IN /\ wire' = SubSeq(wire, k + 1, Len(wire))
                /\ m' = [m EXCEPT !.msg = msg, !.next = RestNext(SubSeq(wire, 1, k))]
                /\ pc' = IF Whole(msg) THEN "done" ELSE "rest"
        /\ UNCHANGED <<kind, sent, eof, next, buffer, got>>

RestEnd == /\ pc \in {"rest", "more"} /\ wire = <<>> /\ eof
           /\ Closed /\ UNCHANGED client

\* The frame is whole and not the last of its message: read the next one.
Fragment == /\ pc = "done" /\ ~Head1.fin
            /\ pc' = "read"
            /\ UNCHANGED <<client, next, buffer, m, got>>

\* Mutant: the loop over the fragments is gone.
HandleEvery == /\ pc = "done" /\ m.op = "text"
               /\ got' = Append(got, m.msg)
               /\ next' = m.next /\ m' = NewMessage /\ buffer' = <<>>
               /\ pc' = "read" /\ UNCHANGED client

\* A text: handle_service, then handleClient's loop goes round.
Handle == /\ pc = "done" /\ Head1.fin /\ m.op = "text"
          /\ got' = Append(got, m.msg)
          /\ next' = m.next /\ m' = NewMessage /\ buffer' = <<>>
          /\ pc' = "read" /\ UNCHANGED client

\* A close frame, or one of a kind the server does not handle.
Leave == /\ pc = "done" /\ Head1.fin /\ m.op # "text"
         /\ Closed /\ UNCHANGED client

-----------------------------------------------------------------------------
(* The older types *)

\* The byte 0 that starts a text of hybi-00, and the byte 0xFF that ends it; the
\* two in the other order are its close frame.
Starts(byte) == byte[2] = IF FrameOf(byte).op = "close" THEN 2 ELSE 1
Ends(byte)   == byte[2] = IF FrameOf(byte).op = "close" THEN 1 ELSE FrameOf(byte).len + 2

\* What getWholeMessage makes of bytes: it takes those before the first that
\* ends a text, and drops those behind it.
Whether(bytes) == \E i \in DOMAIN bytes : Ends(bytes[i])
Before(bytes)  == IF Whether(bytes) THEN SubSeq(bytes, 1, SelectInSeq(bytes, Ends) - 1) ELSE bytes

\* The first recv of a text of hybi-00.  At any other byte communicate returns
\* no text all the same, and handle_service reads at address 0.
HybiRead == /\ pc = "read" /\ kind.type = "HYBI00"
            /\ \E k \in Chunks(BUFFERSIZE) : LET bytes == SubSeq(wire, 2, k) IN
                 /\ wire' = SubSeq(wire, k + 1, Len(wire))
                 /\ buffer' = SubSeq(wire, 1, k)
                 /\ IF Starts(wire[1])
                    THEN /\ m' = [m EXCEPT !.msg = Before(bytes), !.op = "text"]
                         /\ pc' = IF Whether(bytes) THEN "done" ELSE "more"
                    ELSE /\ pc' = IF Ends(wire[1]) THEN "closed" ELSE "crashed"
                         /\ UNCHANGED m
            /\ UNCHANGED <<kind, sent, eof, next, got>>

\* One round of the loop of getWholeMessage.
HybiRest == /\ pc = "more"
            /\ \E k \in Chunks(BUFFERSIZE) : LET bytes == SubSeq(wire, 1, k) IN
                 /\ wire' = SubSeq(wire, k + 1, Len(wire))
                 /\ m' = [m EXCEPT !.msg = @ \o Before(bytes)]
                 /\ pc' = IF Whether(bytes) THEN "done"
                          ELSE IF Len(m'.msg) >= MAXMESSAGE THEN "closed" ELSE "more"
            /\ UNCHANGED <<kind, sent, eof, next, buffer, got>>

\* communicate does nothing for hixie-75, and there is no text to handle.
Hixie == /\ pc = "read" /\ kind.type = "HIXIE75"
         /\ pc' = "crashed" /\ UNCHANGED <<client, next, buffer, m, got>>

HandlerNext == \/ Read \/ ReadEnd \/ Refuse \/ Parse \/ Rest \/ RestEnd \/ Fragment \/ Handle \/ Leave
               \/ HybiRead \/ HybiRest \/ Hixie

-----------------------------------------------------------------------------
(* Properties *)

Byte  == {Garbage} \cup ((1 .. MaxFrames) \X Nat)
Ended == pc \in {"closed", "crashed"}

\* A message over MAXMESSAGE is refused; of hybi-00 one of that size already,
\* when the byte that ends it comes in a recv of its own.
TooLong(f) == IF f.skip = 1 THEN f.len >= MAXMESSAGE ELSE f.len > MAXMESSAGE

\* Clients that send every message in one frame, and none that is empty.
OneFrame == \A f \in kind.frames : f.fin
NoEmpty  == \A f \in kind.frames : f.len > 0 \/ f.op = "close"

\* Clients of hybi-00 that wait for an answer before they send again.
Waits == kind.type = "HYBI00" => ~kind.hasty

\* The messages sent in full.
Payload(n, f) == SubSeq(Bytes(n, f), f.skip + 1, f.skip + f.len)
Texts ==
  FoldLeft(LAMBDA t, n :
             LET part == t.part \o Payload(n, sent[n])
             IN IF sent[n].fin
                THEN [whole |-> IF sent[n].op \in {"text", "cont"} THEN Append(t.whole, part) ELSE t.whole,
                      part |-> <<>>]
                ELSE [t EXCEPT !.part = part],
           [whole |-> <<>>, part |-> <<>>], [n \in 1 .. Len(sent) |-> n]).whole

\* The texts of a client that sends each in one frame, up to its first frame of
\* another kind, at which the server leaves.
Submitted == [n \in {n \in DOMAIN sent : \A j \in 1 .. n : sent[j].op = "text"} |-> Payload(n, sent[n])]

\* The messages handled are the messages sent, in their order, each once and
\* whole, for clients that send every message in one frame and, of hybi-00, wait:
\* of what comes with the end of a text getWholeMessage drops the next text.  A
\* message in two fragments is handled without the bytes of the first (see Parse),
\* although communicate is to "get the full message and remove the masking from it".
FrameChannel == INSTANCE MessageChannel
                WITH Message <- Seq(Byte), sent <- IF OneFrame /\ Waits THEN Submitted ELSE <<>>,
                     got <- IF OneFrame /\ Waits THEN got ELSE <<>>, open <- ~Ended
DeliversFrames == FrameChannel!Spec

\* No message is handled before its last fragment has been sent, fragments that
\* come in one recv with the next ones included.
NotEarly == Len(got) <= Len(Texts)

\* A message the client has sent in full is handled, unless the connection ends.
\* handle_service is taken to return (CallReturns of EngineHost says when it does).
AllHandled == \A k \in 1 .. MaxFrames :
  OneFrame /\ Waits /\ NoEmpty /\ Len(Texts) >= k ~> Len(got) >= k \/ Ended
=============================================================================
