----------------------------- MODULE EngineHost -----------------------------
(***************************************************************************)
(* The handler threads of the WebSocket server and the engine at the other *)
(* end of their connections: the accept loop and the sessions of           *)
(* consix/main.cpp, and socket_send and socket_recv of socket_i.c at both  *)
(* ends, called by handle_service and handle_close (service.c) and by      *)
(* handle_client (main.cpp).                                               *)
(*                                                                         *)
(* main passes each thread the address of its own variable socket_client,  *)
(* and the thread reads the descriptor from there: whatever main has       *)
(* accepted by then.  No session closes its descriptor when it ends, so    *)
(* the n-th accept returns descriptor n.                                   *)
(*                                                                         *)
(* A message is its length, sent with one call, and a body whose parts     *)
(* arrive in any cut; an item of a stream is <<kind, call, parts>>.  The   *)
(* four bytes of a length are assumed to arrive together, as they do on    *)
(* the loopback interface.  A session that reads a part where it expects a *)
(* length, or the other way round, is "lost": what it makes of the bytes   *)
(* is not modelled.                                                        *)
(***************************************************************************)
EXTENDS Integers, Sequences, FiniteSets

CONSTANTS Browsers,  \* bound: browsers that may start a game
          Fds,       \* descriptors the engine's process may have beyond its own
          MaxBody,   \* bound: parts of a body
          Settings   \* what may happen: prompt, killed, and how many browsers
                     \* start and requests each of them makes

Process == {"engine", "server"}
ASSUME HostAssumption ==
  /\ Browsers \in Nat /\ Fds \in Nat /\ MaxBody \in Nat \ {0}
  /\ Settings \subseteq [prompt : BOOLEAN, killed : SUBSET Process,
                        browsers : 0 .. Browsers, requests : Nat]

Conn == 1 .. Browsers   \* the c-th connection is that of the c-th browser to start

VARIABLES
  setting,        \* of this behaviour.  prompt: a new thread runs before main's next
                  \* accept; killed: the processes that may be killed
  handler,        \* a handler thread: pc, parts left of the body it sends or receives,
                  \* calls so far, the call of its last answer, its descriptor is open
  session,        \* thread t of the engine: sock, which is 0 when not created, -1 when
                  \* not running yet, and then its descriptor; pc, left, call under way
  sopen,          \* the engine's descriptors
  up, down,       \* bytes on their way
  asked,          \* connections asked for
  accepted, socket_client, mpc,   \* main: connections accepted, its variable, its place
  seen            \* auxiliary: the last call of a connection that was handled

streams == <<up, down>>
main    == <<accepted, socket_client, mpc>>
vars    == <<setting, handler, session, sopen, streams, asked, main, seen>>

Length(n, size) == <<"length", n, size>>
Copies(n, k)    == [i \in 1 .. k |-> <<"part", n, 0>>]
Rest(stream, k) == SubSeq(stream, k + 1, Len(stream))

\* The first k items of a stream are parts.
Parts(stream, k) == k <= Len(stream) /\ \A i \in 1 .. k : stream[i][1] = "part"
Starts(stream, kind) == stream # <<>> /\ Head(stream)[1] = kind

\* What a send leaves on a stream: nothing when the peer is gone.
Put(stream, items, peer) == IF peer THEN stream \o items ELSE stream

Init == /\ setting \in Settings
        /\ handler = [b \in Conn |-> [pc |-> "out", left |-> 0, calls |-> 0, answer |-> 0, open |-> FALSE]]
        /\ session = [t \in Conn |-> [sock |-> 0, pc |-> "recvLen", left |-> 0, call |-> 0]]
        /\ sopen = [c \in Conn |-> FALSE]
        /\ up = [c \in Conn |-> <<>>] /\ down = [c \in Conn |-> <<>>]
        /\ asked = 0 /\ accepted = 0 /\ socket_client = 0 /\ mpc = "accept"
        /\ seen = [c \in Conn |-> 0]

-----------------------------------------------------------------------------
(* The handler threads *)

\* connect_server at a browser's start; the kernel completes the connection.
Connect == /\ asked < setting.browsers /\ mpc # "returned"
           /\ handler[asked + 1].pc = "out"
           /\ asked' = asked + 1
           /\ handler' = [handler EXCEPT ![asked'].pc = "idle", ![asked'].open = TRUE]
           /\ sopen' = [sopen EXCEPT ![asked'] = TRUE]
           /\ UNCHANGED <<setting, session, streams, main, seen>>

Request(b) ==
  /\ handler[b].pc = "idle" /\ handler[b].calls < setting.requests
  /\ handler' = [handler EXCEPT ![b].pc = "sendLen", ![b].calls = @ + 1, ![b].answer = 0]
  /\ UNCHANGED <<setting, session, sopen, streams, asked, main, seen>>

\* socket_send: the length.  A failure closes the descriptor, and
\* handle_service goes on to socket_recv all the same.
SendLen(b) ==
  /\ handler[b].pc = "sendLen"
  /\ \/ /\ handler[b].open
        /\ \E size \in 1 .. MaxBody :
             /\ up' = [up EXCEPT ![b] = Put(@, <<Length(handler[b].calls, size)>>, sopen[b])]
             /\ handler' = [handler EXCEPT ![b].pc = "sendBody", ![b].left = size]
     \/ /\ ~handler[b].open \/ ~sopen[b]
        /\ handler' = [handler EXCEPT ![b].pc = "recvLen", ![b].open = FALSE]
        /\ UNCHANGED up
  /\ UNCHANGED <<setting, session, sopen, down, asked, main, seen>>

\* The loop over the body; when send fails it counts backwards and goes on.
SendBody(b) ==
  /\ handler[b].pc = "sendBody"
  /\ \/ \E k \in 1 .. handler[b].left :
          /\ up' = [up EXCEPT ![b] = Put(@, Copies(handler[b].calls, k), sopen[b])]
          /\ handler' = [handler EXCEPT ![b].left = @ - k,
                           ![b].pc = IF handler[b].left = k THEN "recvLen" ELSE "sendBody"]
     \/ ~sopen[b] /\ handler' = [handler EXCEPT ![b].pc = "spin"] /\ UNCHANGED up
  /\ UNCHANGED <<setting, session, sopen, down, asked, main, seen>>

\* socket_recv: the length.
RecvLen(b) ==
  /\ handler[b].pc = "recvLen" /\ handler[b].open /\ down[b] # <<>>
  /\ down' = [down EXCEPT ![b] = Tail(@)]
  /\ handler' = IF Starts(down[b], "length")
                THEN [handler EXCEPT ![b].pc = "recvBody", ![b].left = Head(down[b])[3]]
                ELSE [handler EXCEPT ![b].pc = "lost"]
  /\ UNCHANGED <<setting, session, sopen, up, asked, main, seen>>

\* socket_recv returns an error: the peer is gone, or the descriptor closed.
\* A reset closes the descriptor too.
RecvLenFails(b) ==
  /\ handler[b].pc = "recvLen"
  /\ ~handler[b].open \/ (~sopen[b] /\ down[b] = <<>>)
  /\ \E open \in {handler[b].open, FALSE} :
       handler' = [handler EXCEPT ![b].pc = "idle", ![b].open = open]
  /\ UNCHANGED <<setting, session, sopen, streams, asked, main, seen>>

\* The loop over the body; at the end of the stream it goes on for ever.
RecvBody(b) ==
  /\ handler[b].pc = "recvBody"
  /\ \/ \E k \in 1 .. handler[b].left :
          /\ Parts(down[b], k) /\ down' = [down EXCEPT ![b] = Rest(@, k)]
          /\ handler' = IF handler[b].left = k
                        THEN [handler EXCEPT ![b].pc = "idle", ![b].left = 0,
                                             ![b].answer = Head(down[b])[2]]
                        ELSE [handler EXCEPT ![b].left = @ - k]
     \/ /\ ~sopen[b] /\ down[b] = <<>>
        /\ handler' = [handler EXCEPT ![b].pc = "spin"] /\ UNCHANGED down
     \/ /\ Starts(down[b], "length")
        /\ handler' = [handler EXCEPT ![b].pc = "lost"] /\ UNCHANGED down
  /\ UNCHANGED <<setting, session, sopen, up, asked, main, seen>>

\* handle_close, when the browser has left.
HandleClose(b) ==
  /\ handler[b].pc = "idle"
  /\ handler' = [handler EXCEPT ![b].pc = "left", ![b].open = FALSE]
  /\ UNCHANGED <<setting, session, sopen, streams, asked, main, seen>>

ServerDies ==
  /\ "server" \in setting.killed
  /\ handler' = [b \in Conn |-> [handler[b] EXCEPT !.pc = "killed", !.open = FALSE]]
  /\ UNCHANGED <<setting, session, sopen, streams, asked, main, seen>>

-----------------------------------------------------------------------------
(* The engine: main *)

AllBegun == \A t \in Conn : session[t].sock # -1

Accept == /\ mpc = "accept" /\ accepted < asked /\ accepted < Fds
          /\ setting.prompt => AllBegun
          /\ accepted' = accepted + 1
          /\ socket_client' = accepted + 1
          /\ mpc' = "create"
          /\ UNCHANGED <<setting, handler, session, sopen, streams, asked, seen>>

\* Mutant: a thread is created for the first connection only.
CreateOnce == /\ mpc = "create"
              /\ session' = IF accepted = 1 THEN [session EXCEPT ![accepted].sock = -1] ELSE session
              /\ mpc' = "accept"
              /\ UNCHANGED <<setting, handler, sopen, streams, asked, accepted, socket_client, seen>>

\* pthread_create and pthread_detach.
Create == /\ mpc = "create"
          /\ session' = [session EXCEPT ![accepted].sock = -1]
          /\ mpc' = "accept"
          /\ UNCHANGED <<setting, handler, sopen, streams, asked, accepted, socket_client, seen>>

\* The process ends: its descriptors are closed, what it has sent still arrives.
EngineEnds == /\ mpc' = "returned"
              /\ session' = [t \in Conn |-> [session[t] EXCEPT !.pc = "dead"]]
              /\ sopen' = [c \in Conn |-> FALSE]
              /\ up' = [c \in Conn |-> <<>>]
              /\ UNCHANGED <<setting, handler, down, asked, accepted, socket_client, seen>>

\* accept finds no free descriptor, and main returns.
AcceptFails == /\ mpc = "accept" /\ accepted < asked /\ accepted = Fds
               /\ setting.prompt => AllBegun
               /\ EngineEnds

EngineDies == "engine" \in setting.killed /\ mpc # "returned" /\ EngineEnds

-----------------------------------------------------------------------------
(* The engine: handle_client in thread t *)

At(t, pc) == session[t].sock > 0 /\ session[t].pc = pc

\* Mutant: the thread counts the sessions itself.
BeginCounted(t) ==
  /\ session[t].sock = -1 /\ mpc # "returned"
  /\ session' = [session EXCEPT ![t].sock = Cardinality({u \in Conn : session[u].sock > 0}) + 1]
  /\ UNCHANGED <<setting, handler, sopen, streams, asked, main, seen>>

\* The first statements.
Begin(t) ==
  /\ session[t].sock = -1 /\ mpc # "returned"
  /\ session' = [session EXCEPT ![t].sock = socket_client]
  /\ UNCHANGED <<setting, handler, sopen, streams, asked, main, seen>>

SessionRecvLen(t) ==
  /\ At(t, "recvLen")
  /\ LET c == session[t].sock IN
     /\ up[c] # <<>> /\ up' = [up EXCEPT ![c] = Tail(@)]
     /\ session' = IF Starts(up[c], "length")
                   THEN [session EXCEPT ![t].pc = "recvBody", ![t].call = Head(up[c])[2],
                                        ![t].left = Head(up[c])[3]]
                   ELSE [session EXCEPT ![t].pc = "lost"]
  /\ UNCHANGED <<setting, handler, sopen, down, asked, main, seen>>

\* Mutant: a recv that returns fewer parts than wanted ends the loop.
SessionRecvShort(t) ==
  /\ At(t, "recvBody")
  /\ LET c == session[t].sock IN
     \E k \in 1 .. session[t].left : Parts(up[c], k) /\ up' = [up EXCEPT ![c] = Rest(@, k)]
  /\ session' = [session EXCEPT ![t].left = 0, ![t].pc = "handle"]
  /\ UNCHANGED <<setting, handler, sopen, down, asked, main, seen>>

SessionRecvBody(t) ==
  /\ At(t, "recvBody")
  /\ LET c == session[t].sock IN
     \/ \E k \in 1 .. session[t].left :
          /\ Parts(up[c], k) /\ up' = [up EXCEPT ![c] = Rest(@, k)]
          /\ session' = [session EXCEPT ![t].left = @ - k,
                           ![t].pc = IF session[t].left = k THEN "handle" ELSE "recvBody"]
     \/ /\ ~handler[c].open /\ up[c] = <<>>
        /\ session' = [session EXCEPT ![t].pc = "spin"] /\ UNCHANGED up
     \/ /\ Starts(up[c], "length")
        /\ session' = [session EXCEPT ![t].pc = "lost"] /\ UNCHANGED up
  /\ UNCHANGED <<setting, handler, sopen, down, asked, main, seen>>

\* Mutant: the session answers with what it computed for the request before.
HandleConsixLate(t) ==
  /\ At(t, "handle")
  /\ seen' = [seen EXCEPT ![session[t].sock] = session[t].call]
  /\ session' = [session EXCEPT ![t].pc = "sendLen", ![t].call = seen[session[t].sock]]
  /\ UNCHANGED <<setting, handler, sopen, streams, asked, main>>

\* Mutant: the session goes on without an answer.
HandleConsixSilent(t) ==
  /\ At(t, "handle")
  /\ seen' = [seen EXCEPT ![session[t].sock] = session[t].call]
  /\ session' = [session EXCEPT ![t].pc = "recvLen"]
  /\ UNCHANGED <<setting, handler, sopen, streams, asked, main>>

\* handle_consix, which always has an answer to a request with a type.
HandleConsix(t) ==
  /\ At(t, "handle")
  /\ seen' = [seen EXCEPT ![session[t].sock] = session[t].call]
  /\ session' = [session EXCEPT ![t].pc = "sendLen"]
  /\ UNCHANGED <<setting, handler, sopen, streams, asked, main>>

SessionSendLen(t) ==
  /\ At(t, "sendLen")
  /\ LET c == session[t].sock IN
     \/ /\ sopen[c]
        /\ \E size \in 1 .. MaxBody :
             /\ down' = [down EXCEPT ![c] = Put(@, <<Length(session[t].call, size)>>, handler[c].open)]
             /\ session' = [session EXCEPT ![t].pc = "sendBody", ![t].left = size]
        /\ UNCHANGED sopen
     \/ /\ ~handler[c].open \/ ~sopen[c]
        /\ sopen' = [sopen EXCEPT ![c] = FALSE]
        /\ session' = [session EXCEPT ![t].pc = "ended"]
        /\ UNCHANGED down
  /\ UNCHANGED <<setting, handler, up, asked, main, seen>>

\* When the peer is gone the session stays in its loop.  (The engine does not ignore
\* SIGPIPE as the server does: a send to a server that has died may also end the whole
\* process, which is EngineDies.)
SessionSendBody(t) ==
  /\ At(t, "sendBody")
  /\ LET c == session[t].sock IN
     \/ \E k \in 1 .. session[t].left :
          /\ down' = [down EXCEPT ![c] = Put(@, Copies(session[t].call, k), handler[c].open)]
          /\ session' = [session EXCEPT ![t].left = @ - k,
                           ![t].pc = IF session[t].left = k THEN "recvLen" ELSE "sendBody"]
     \/ /\ ~handler[c].open \/ ~sopen[c]
        /\ session' = [session EXCEPT ![t].pc = "spin"] /\ UNCHANGED down
  /\ UNCHANGED <<setting, handler, sopen, up, asked, main, seen>>

HungUp(c) == up[c] = <<>> /\ ~handler[c].open

\* Mutant: the end of the stream is not noticed.
SessionEndRetry(t) == At(t, "recvLen") /\ HungUp(session[t].sock) /\ UNCHANGED vars

\* The peer has closed: the thread ends, and its descriptor stays open.
SessionEnd(t) ==
  /\ At(t, "recvLen") /\ HungUp(session[t].sock)
  /\ session' = [session EXCEPT ![t].pc = "ended"]
  /\ UNCHANGED <<setting, handler, sopen, streams, asked, main, seen>>

-----------------------------------------------------------------------------
HandlerNext(b) == SendLen(b) \/ SendBody(b) \/ RecvLen(b) \/ RecvLenFails(b) \/ RecvBody(b)
Main           == Accept \/ AcceptFails \/ Create
SessionNext(t) == \/ Begin(t) \/ SessionRecvLen(t) \/ SessionRecvBody(t) \/ HandleConsix(t)
                  \/ SessionSendLen(t) \/ SessionSendBody(t) \/ SessionEnd(t)

Next == \/ Connect \/ ServerDies \/ Main \/ EngineDies
        \/ \E x \in Conn : Request(x) \/ HandleClose(x) \/ HandlerNext(x) \/ SessionNext(x)

Spec == Init /\ [][Next]_vars

\* A thread runs on when the call it is in can return.
FairSpec == Spec /\ WF_vars(Main)
                 /\ \A x \in Conn : WF_vars(HandlerNext(x)) /\ WF_vars(SessionNext(x))
-----------------------------------------------------------------------------
(* Properties *)

Sessions(c) == {t \in Conn : session[t].sock = c}
OneOf(c)    == session[CHOOSE t \in Sessions(c) : TRUE]

\* Neither end takes a part of a body for a length, the two ends never wait for
\* each other, and nothing is left on a stream when no request is under way: the
\* stream carries no mark to find the next message by, and unread bytes would be
\* taken for the next answer.  With two sessions on one connection it would fail.
InStep == \A c \in Conn : Cardinality(Sessions(c)) = 1 =>
  /\ handler[c].pc # "lost" /\ OneOf(c).pc # "lost"
  /\ handler[c].pc = "idle" /\ handler[c].open => down[c] = <<>>
  /\ handler[c].pc = "recvLen" /\ handler[c].open /\ down[c] = <<>> /\ OneOf(c).pc = "recvLen"
       => up[c] # <<>>

\* A request gets its own answer or none, and the sessions see it at most once,
\* when each thread has read its descriptor before the next accept.
Call(b) == INSTANCE RemoteCall WITH
             calls <- handler[b].calls, answer <- handler[b].answer, seen <- seen[b],
             busy <- handler[b].pc \notin {"out", "idle", "left", "killed"}
OwnAnswer == /\ \A b \in Conn : Call(b)!Init
             /\ [][setting.prompt => \A b \in Conn : [Call(b)!Next]_(Call(b)!vars)]_vars

\* Then a call returns while both processes live, whatever the sizes and the cuts
\* of the bodies, also when others are served.
CallReturns == \A b \in Conn :
  setting.prompt /\ handler[b].pc \notin {"out", "idle", "left"}
    ~> handler[b].pc \in {"idle", "left", "killed"} \/ mpc = "returned"

\* When a browser has left, the sessions on its connection end, those that start
\* after it too.  A session that is out of step ("lost", with two on a connection)
\* counts as ended: what becomes of it has no model.
SessionEnds == \A c \in Conn :
  handler[c].pc = "left" ~> \A t \in Sessions(c) : session[t].pc \in {"ended", "dead", "lost"}

\* A thread that reads socket_client late may serve a later connection, never an
\* older one whose session is running already.
NeverOlder == \A t \in Conn : session[t].sock > 0 => session[t].sock >= t

\* A connection is left without a session only if another has two: no session is
\* lost, it is given away.
GivenAway == (mpc = "accept" /\ AllBegun) /\ (\E c \in 1 .. accepted : Sessions(c) = {})
               => \E c \in 1 .. accepted : Cardinality(Sessions(c)) > 1

\* The last connection gets a session, unless a newer one comes or the engine ends.
LastGetsSession == \A c \in Conn :
  asked = c ~> Sessions(c) # {} \/ asked > c \/ mpc = "returned"
=============================================================================
