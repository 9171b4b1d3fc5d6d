----------------------------- MODULE Connection -----------------------------
(***************************************************************************)
(* A browser's connection from its first byte on.  handleClient collects   *)
(* the request, sendHandshake of Handshake.c answers it, and the loop of   *)
(* handleClient reads frames (FrameStream).  What is in the request is the *)
(* matter of Handshake; here it is a number of bytes.  For each type of    *)
(* connection the size of the answer is computed first, memory of that     *)
(* size is allocated, and the answer is put together in it piece by piece. *)
(***************************************************************************)
EXTENDS FrameStream

CONSTANTS HeadLen,   \* size of a request up to its empty line
          Sizes      \* bound: sizes of the fields of a request

ASSUME RequestAssumption == HeadLen \in Nat /\ HeadLen >= 14 /\ Sizes \subseteq Nat

VARIABLES string,    \* bytes of the request received
          h,         \* n->headers: the sizes of its fields; -1 for none
          piece,     \* memcpy calls made
          memlen     \* bytes written

response == <<string, h, piece, memlen>>

-----------------------------------------------------------------------------
(* The request *)

\* The fields of a request that are in the answer.  Before the request is there
\* and after the answer they play no part.
Request == IF kind.type = "RFC6455"
           THEN [upgrade : Sizes, accept : Sizes, host : {0}, resource : {0},
                 origin : {-1}, protocol : {-1, 4}]
           ELSE [upgrade : Sizes, accept : Sizes, host : Sizes, resource : Sizes,
                 origin : Sizes \cup {-1}, protocol : {-1, 4}]
NoFields == [upgrade |-> 0, accept |-> 0, host |-> 0, resource |-> 0, origin |-> -1, protocol |-> -1]

\* Behind the empty line of a hybi-00 request there are eight bytes of its key.
Behind == IF kind.type = "HYBI00" THEN 8 ELSE 0

\* What a recv may return of the request.
Arrives == LET rest == HeadLen + Behind - string IN
  {k \in 1 .. Smaller(BUFFERSIZE, rest) : kind.splits \/ k \in {BUFFERSIZE, rest}}

\* The loop ends at the empty line, or eight bytes behind it.  A first recv of
\* less than 14 bytes is taken for SSL, and without its key a request of hybi-00
\* is refused (parseHeaders).
Receive == /\ pc = "request"
           /\ \E k \in Arrives :
                /\ string' = string + k
                /\ pc' = CASE string = 0 /\ k < 14              -> "closed"
                           [] string' = HeadLen + Behind       -> "respond"
                           [] string' = HeadLen /\ Behind # 0  -> "closed"
                           [] OTHER                            -> "request"
           /\ h' \in IF pc' = "respond" THEN Request ELSE {NoFields}
           /\ UNCHANGED <<client, next, buffer, m, got, piece, memlen>>

ReceiveEnd == pc = "request" /\ eof /\ Closed /\ UNCHANGED <<client, response>>

-----------------------------------------------------------------------------
(* The answer *)

\* Handshake.h: sizes of the fixed parts.
HEADER     == [RFC6455 |-> 34, HYBI00 |-> 43, HIXIE75 |-> 44]
LOCATION   == [HYBI00 |-> 24, HIXIE75 |-> 20]
ORIGIN     == [HYBI00 |-> 22, HIXIE75 |-> 18]
PROTOCOL   == [RFC6455 |-> 24, HYBI00 |-> 24, HIXIE75 |-> 20]
UPGRADE    == 9
CONNECTION == 21
KEY        == 22

\* Mutant: the end of the line of the origin is not counted.
OriginSizeShort == IF h.origin < 0 THEN 0 ELSE ORIGIN[kind.type] + h.origin

\* The parts a request may lack.
OriginSize   == IF h.origin < 0 THEN 0 ELSE ORIGIN[kind.type] + h.origin + 2
ProtocolSize == IF h.protocol < 0 THEN 0 ELSE PROTOCOL[kind.type] + h.protocol + 2

\* The size as computed before the answer is written.
length ==
  HEADER[kind.type] + UPGRADE + h.upgrade + CONNECTION + 6 + ProtocolSize
  + CASE kind.type = "RFC6455" -> KEY + h.accept
      [] kind.type = "HYBI00"  -> OriginSize + LOCATION["HYBI00"] + 5 + h.host + h.resource + h.accept
      [] kind.type = "HIXIE75" -> OriginSize + LOCATION["HIXIE75"] + 5 + h.host + h.resource

\* The sizes of the pieces, in the order they are copied.
Opening  == <<HEADER[kind.type], UPGRADE, h.upgrade, 2, CONNECTION>>
Origin   == IF h.origin < 0 THEN <<>> ELSE <<ORIGIN[kind.type], h.origin, 2>>
Location == <<LOCATION[kind.type], 5, h.host, h.resource, 2>>
Protocol == IF h.protocol < 0 THEN <<>> ELSE <<PROTOCOL[kind.type], h.protocol, 2>>

Pieces ==
  CASE kind.type = "RFC6455" -> Opening \o Protocol \o <<KEY, h.accept, 4>>
    [] kind.type = "HYBI00"  -> Opening \o Origin \o Location \o Protocol \o <<2, h.accept>>
    [] kind.type = "HIXIE75" -> Opening \o Origin \o Location \o Protocol \o <<2>>

Init == /\ NewClient
        /\ pc = "request" /\ next = <<>> /\ buffer = <<>> /\ m = NewMessage /\ got = <<>>
        /\ string = 0 /\ h = NoFields /\ piece = 0 /\ memlen = 0

\* One memcpy.
Copy == /\ pc = "respond" /\ piece < Len(Pieces)
        /\ piece' = piece + 1 /\ memlen' = memlen + Pieces[piece + 1]
        /\ UNCHANGED <<client, handler, string, h>>

\* The answer is sent, unless its size is not as computed.
Respond == /\ pc = "respond" /\ piece = Len(Pieces)
           /\ pc' = IF memlen = length THEN "read" ELSE "closed"
           /\ string' = 0 /\ h' = NoFields /\ piece' = 0 /\ memlen' = 0
           /\ UNCHANGED <<client, next, buffer, m, got>>

-----------------------------------------------------------------------------
\* A client sends frames when it has the answer, and may go at any time.
Streams == \E f \in UNION {k.frames : k \in Kind} :
             pc \notin {"request", "respond"} /\ Send(f) /\ UNCHANGED response
Leaves  == Hangup /\ UNCHANGED response
Handles == Receive \/ ReceiveEnd \/ Copy \/ Respond \/ (HandlerNext /\ UNCHANGED response)

Next == Streams \/ Leaves \/ Handles

Spec == Init /\ [][Next]_<<vars, response>>

\* recv returns when bytes are there, and the thread runs on.
FairSpec == Spec /\ WF_<<vars, response>>(Handles)
-----------------------------------------------------------------------------
(* Properties *)

\* The frame in communicate's buffer is a later fragment, and there is more behind it.
Crowded == /\ Ended /\ buffer # <<>> /\ m.len > Head1.len
           /\ Len(buffer) > Head1.skip + Head1.len

\* No memcpy and no recv writes behind its memory: the answer fits the size that
\* was computed for it, what is carried over leaves room in the buffer, and what is
\* written of a message fits its length, but where parseMessage has ended the
\* connection at a later fragment that came with more bytes in one recv.
Fits == /\ pc = "respond" => memlen <= length
        /\ Len(next) < BUFFERSIZE /\ Len(buffer) <= BUFFERSIZE
        /\ kind.type = "RFC6455" => Len(m.msg) <= m.len \/ Crowded

\* A request of hybi-00 whose empty line is the last the buffer holds is taken for
\* whole, and refused without its key.
FillsBuffer == kind.type = "HYBI00" /\ \E q \in 1 .. HeadLen : HeadLen = q * BUFFERSIZE

\* When the network cuts no request and no header, the server ends a connection
\* only after the client has hung up or has sent a frame other than text, or a
\* message that is too long, although the server's own buffer does cut them.
NotDropped == Ended /\ OneFrame /\ Waits /\ ~kind.splits =>
                \/ eof \/ kind.type = "HIXIE75" \/ FillsBuffer
                \/ \E n \in DOMAIN sent : sent[n].op \notin {"text", "cont"} \/ TooLong(sent[n])
=============================================================================
