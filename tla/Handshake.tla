------------------------------ MODULE Handshake ------------------------------
(***************************************************************************)
(* How handler threads read the headers of their clients: parseHeaders and *)
(* isNeedleInHaystack of Handshake.c, both built on strtok, whose position *)
(* is one static variable of the C library for all threads.  A call        *)
(* strtok(NULL, ...) is two steps: it reads the position, and it stores    *)
(* the next one; a call with a string stores a position there.             *)
(*                                                                         *)
(* A client sends the request of an RFC 6455 handshake: a list of fields.  *)
(* A token is <<text, field>>, where the text is the request of a thread   *)
(* or the file of hosts it has read.                                       *)
(***************************************************************************)
EXTENDS Integers, SequencesExt

CONSTANTS Thread,
          Requests,    \* the requests clients send, each a sequence of Field
          Lines        \* the lines of the file of hosts after the number, as fields

Field  == {"get", "host", "badhost", "upgrade", "connection", "version", "key", "line"}
Needed == {"upgrade", "connection", "version", "key"}

VARIABLES request,   \* n->string of each thread
          pc, pos,   \* each thread's place, and the position its strtok call has read
          olds,      \* the static position of strtok: owner, and index of the last token
          headers,   \* n->headers: the tokens taken for fields of the request
          hay        \* the tokens taken for hosts

vars == <<request, pc, pos, olds, headers, hay>>

String(t) == <<"string", t>>
File(t)   == <<"file", t>>
Nowhere   == [text |-> <<"none", 0>>, at |-> 0]
Content(text) == IF text[1] = "string" THEN request[text[2]] ELSE <<"line">> \o Lines

Init == /\ request \in [Thread -> Requests]
        /\ pc = [t \in Thread |-> "wait"] /\ pos = [t \in Thread |-> Nowhere]
        /\ olds = Nowhere
        /\ headers = [t \in Thread |-> <<>>] /\ hay = [t \in Thread |-> <<>>]

Goto(t, label) == pc' = [pc EXCEPT ![t] = label]

\* parseHeaders: strtok(string), and the first line must be a GET.
Begin(t) == /\ pc[t] = "wait"
            /\ olds' = [text |-> String(t), at |-> 1]
            /\ headers' = [headers EXCEPT ![t] = << <<String(t), request[t][1]>> >>]
            /\ Goto(t, IF request[t][1] = "get" THEN "load" ELSE "rejected")
            /\ UNCHANGED <<request, pos, hay>>

\* strtok(NULL) in the loop of parseHeaders.
Load(t) == /\ pc[t] = "load"
           /\ pos' = [pos EXCEPT ![t] = olds]
           /\ Goto(t, "store")
           /\ UNCHANGED <<request, olds, headers, hay>>

\* The token behind a position, if there is one.
More(p)  == p.at < Len(Content(p.text))
After(p) == [p EXCEPT !.at = @ + 1]
Token(p) == <<p.text, Content(p.text)[p.at + 1]>>

Store(t) == /\ pc[t] = "store"
            /\ IF More(pos[t])
               THEN /\ olds' = After(pos[t])
                    /\ headers' = [headers EXCEPT ![t] = Append(@, Token(pos[t]))]
                    /\ Goto(t, "load")
               ELSE /\ olds' = pos[t] /\ Goto(t, "host")
                    /\ UNCHANGED headers
            /\ UNCHANGED <<request, pos, hay>>

\* Of two fields of a kind the last one counts.
Fields(t) == {headers[t][i][2] : i \in DOMAIN headers[t]}
IsHost(token) == token[2] \in {"host", "badhost"}
HasHost(t) == \E i \in DOMAIN headers[t] : IsHost(headers[t][i])
HostOf(t)  == Last(SelectSeq(headers[t], IsHost))[2]

\* isNeedleInHaystack: the file is read, and its first line is the number.
OpenHosts(t) == /\ pc[t] = "host"
                /\ IF HasHost(t)
                   THEN Goto(t, "hostLoad") /\ olds' = [text |-> File(t), at |-> 1]
                   ELSE Goto(t, "check") /\ UNCHANGED olds
                /\ UNCHANGED <<request, pos, headers, hay>>

HostLoad(t) == /\ pc[t] = "hostLoad"
               /\ pos' = [pos EXCEPT ![t] = olds]
               /\ Goto(t, "hostStore")
               /\ UNCHANGED <<request, olds, headers, hay>>

\* The hosts read allow the host of the request.
Allowed(t, hosts) == \E i \in DOMAIN hosts : hosts[i][2] = HostOf(t)

\* One host is read, and after the last one the host is looked for.  When a line
\* is missing the function returns 0, as it does for a host it has found.
HostStore(t) ==
  /\ pc[t] = "hostStore"
  /\ IF More(pos[t])
     THEN olds' = After(pos[t]) /\ hay' = [hay EXCEPT ![t] = Append(@, Token(pos[t]))]
     ELSE olds' = pos[t] /\ UNCHANGED hay
  /\ Goto(t, CASE ~More(pos[t])                -> "check"
               [] More(pos[t]) /\ Len(hay'[t]) < Len(Lines) -> "hostLoad"
               [] OTHER -> IF Allowed(t, hay'[t]) THEN "check" ELSE "rejected")
  /\ UNCHANGED <<request, pos, headers>>

Complete(t) == Needed \subseteq Fields(t) /\ HasHost(t)

\* The rest of parseHeaders, and sendHandshake.
Check(t) == /\ pc[t] = "check"
            /\ Goto(t, IF Complete(t) THEN "accepted" ELSE "rejected")
            /\ UNCHANGED <<request, pos, olds, headers, hay>>

Step(t) == \/ Load(t) \/ Store(t) \/ OpenHosts(t) \/ HostLoad(t) \/ HostStore(t) \/ Check(t)

Next == \E t \in Thread : Begin(t) \/ Step(t)

Spec == Init /\ [][Next]_vars
-----------------------------------------------------------------------------
(* Properties *)

\* The fields found for a client are those of its own request ("split the header
\* string into pieces that we place in the header struct in the node parameter").
OwnPieces == \A t \in Thread : \A i \in DOMAIN headers[t] : headers[t][i][1] = String(t)
=============================================================================
