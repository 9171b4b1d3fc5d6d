------------------------------ MODULE ConnTable ------------------------------
(***************************************************************************)
(* The table of engine connections of the WebSocket server (service.c):    *)
(* which browser plays on which engine session.  A handler thread looks up *)
(* and changes the table in handle_service and handle_close without a      *)
(* lock: a step is one store of a field, one turn of a loop of get_socket  *)
(* or del_socket's shift, or del_socket's whole search.                    *)
(*                                                                         *)
(* A client is named by the address of its structure, the key the table    *)
(* uses.  malloc gives the address of a closed client to a later one, so a *)
(* client that comes back here is a new browser at an old address.         *)
(***************************************************************************)
EXTENDS Integers, FiniteSets

CONSTANTS Client,      \* addresses of client structures
          Socket,      \* descriptors an engine connection can get; 0 is none
          MaxConnect,  \* MAX_CONNECT
          NULL,        \* the null pointer, and the owner of a closed session
          Gone,        \* the owner of a session whose browser has left
          Lost,        \* the owner of a connection whose engine has died
          Together,    \* bound: the threads that are in handle_service at once
          Scenarios    \* the sets of faults that may come together:
                       \* "overlap", threads are in handle_service at once;
                       \* "restart", a browser sends a second start;
                       \* "refusal", the engine is unreachable;
                       \* "death", the engine dies and is started again

ASSUME TableAssumption == /\ MaxConnect \in Nat \ {0} /\ Together \in Nat \ {0}
                          /\ 0 \notin Socket
                          /\ NULL \notin Client /\ Gone \notin Client \cup {NULL}
                          /\ Lost \notin Client \cup {NULL, Gone}
                          /\ Scenarios \subseteq SUBSET {"overlap", "restart", "refusal", "death"}

VARIABLES num,         \* g_cur_con_num
          para,        \* g_con_para, and the memory on both sides of it
          pc, i, sock, tmp,   \* the thread of each client: its place and locals
          alive,       \* clients with a connection to the browser
          started,     \* auxiliary: clients that have sent a start
          owner,       \* auxiliary: the client that opened each open session
          sentOn,      \* auxiliary: the session of the last request of a client
          reply,       \* auxiliary: the answer to its last request
          faults       \* auxiliary: what may happen in this behaviour

table   == <<num, para>>
thread  == <<pc, i, sock, tmp>>
outside == <<alive, started, owner, sentOn, reply, faults>>
vars    == <<num, para, pc, i, sock, tmp, alive, started, owner, sentOn, reply, faults>>

Slot  == -1 .. (MaxConnect + 3)
Inner == 0 .. (MaxConnect - 1)

Clear == [pclient |-> NULL, socket |-> 0]

Init == /\ num = 0
        /\ para = [k \in Slot |-> Clear]
        /\ pc = [c \in Client |-> "idle"]
        /\ i = [c \in Client |-> 0]
        /\ sock = [c \in Client |-> 0]
        /\ tmp = [c \in Client |-> 0]
        /\ alive = {} /\ started = {}
        /\ owner = [s \in Socket |-> NULL]
        /\ sentOn = [c \in Client |-> 0]
        /\ reply = [c \in Client |-> "none"]
        /\ faults \in Scenarios

Goto(c, label) == pc' = [pc EXCEPT ![c] = label]

\* The thread returns to its caller; its locals go out of scope.
Return(c) == /\ Goto(c, "idle")
             /\ i' = [i EXCEPT ![c] = 0]
             /\ sock' = [sock EXCEPT ![c] = 0]
             /\ tmp' = [tmp EXCEPT ![c] = 0]

Closing == {"closeLookup", "find", "shift", "dropLoad", "dropStore", "leave"}

Quiet == \A c \in Client : pc[c] = "idle"

\* A thread enters service.c.  Bound: a thread that closes a game is alone, although
\* handle_close takes no lock either; only calls of handle_service overlap.
Enter(c, label) ==
  /\ pc[c] = "idle" /\ c \in alive
  /\ \/ Quiet
     \/ /\ "overlap" \in faults
        /\ label \notin Closing /\ \A d \in Client : pc[d] \notin Closing
        /\ Cardinality({d \in Client : pc[d] # "idle"}) < Together
  /\ Goto(c, label)

\* A browser connects; its structure gets an address that is free.
Connected(c) == /\ c \notin alive
                /\ alive' = alive \cup {c}
                /\ UNCHANGED <<table, thread, started, owner, sentOn, reply, faults>>

\* handle_service on a request with cmd:start.
Start(c) == /\ Enter(c, "check")
            /\ c \in started => "restart" \in faults
            /\ started' = started \cup {c}
            /\ reply' = [reply EXCEPT ![c] = "none"]
            /\ UNCHANGED <<table, i, sock, tmp, alive, owner, sentOn, faults>>

\* handle_service on any other request.
Move(c) == /\ Enter(c, "lookup")
           /\ reply' = [reply EXCEPT ![c] = "none"]
           /\ UNCHANGED <<table, i, sock, tmp, alive, started, owner, sentOn, faults>>

-----------------------------------------------------------------------------
(* handle_service: start *)

\* Mutants: the limit is tested one too late, or one too early.
AtLimitLate  == num > MaxConnect
AtLimitEarly == num + 1 >= MaxConnect

\* The test of the limit, made before connect_server and again by add_socket.
AtLimit == num >= MaxConnect

Check(c) == /\ pc[c] = "check"
            /\ \/ /\ AtLimit
                  /\ reply' = [reply EXCEPT ![c] = "full"]
                  /\ Return(c)
               \/ /\ ~AtLimit
                  /\ Goto(c, "connect")
                  /\ UNCHANGED <<i, sock, tmp, reply>>
            /\ UNCHANGED <<table, alive, started, owner, sentOn, faults>>

\* connect_server: a descriptor that is not in use, or 0.
ConnectServer(c) ==
  /\ pc[c] = "connect"
  /\ \/ \E s \in Socket : /\ owner[s] = NULL
                          /\ owner' = [owner EXCEPT ![s] = c]
                          /\ sock' = [sock EXCEPT ![c] = s]
     \/ /\ "refusal" \in faults \/ \A s \in Socket : owner[s] # NULL
        /\ sock' = [sock EXCEPT ![c] = 0]
        /\ UNCHANGED owner
  /\ Goto(c, "recheck")
  /\ UNCHANGED <<table, i, tmp, alive, started, sentOn, reply, faults>>

\* add_socket; when it fails the handler returns without an answer.
Recheck(c) == /\ pc[c] = "recheck"
              /\ \/ AtLimit /\ Return(c)
                 \/ ~AtLimit /\ Goto(c, "putClient") /\ UNCHANGED <<i, sock, tmp>>
              /\ UNCHANGED <<table, outside>>

PutClient(c) == /\ pc[c] = "putClient"
                /\ para' = [para EXCEPT ![num].pclient = c]
                /\ Goto(c, "putSocket")
                /\ UNCHANGED <<num, i, sock, tmp, outside>>

PutSocket(c) == /\ pc[c] = "putSocket"
                /\ para' = [para EXCEPT ![num].socket = sock[c]]
                /\ Goto(c, "countLoad")
                /\ UNCHANGED <<num, i, sock, tmp, outside>>

CountLoad(c) == /\ pc[c] = "countLoad"
                /\ tmp' = [tmp EXCEPT ![c] = num]
                /\ Goto(c, "countStore")
                /\ UNCHANGED <<table, i, sock, outside>>

CountStore(c) == /\ pc[c] = "countStore"
                 /\ num' = tmp[c] + 1
                 /\ Goto(c, "lookup")
                 /\ UNCHANGED <<para, i, sock, tmp, outside>>

-----------------------------------------------------------------------------
(* get_socket, then the exchange with the engine *)

\* One turn of the loop that goes past another client's entry.
NextEntry(c) == /\ pc[c] \in {"lookup", "closeLookup"}
                /\ i[c] < num /\ para[i[c]].pclient # c
                /\ i' = [i EXCEPT ![c] = @ + 1]
                /\ UNCHANGED <<table, pc, sock, tmp, outside>>

\* Mutant: the search does not compare the client.
HitAnyClient(c, label) == /\ i[c] < num
                          /\ para[i[c]].socket # 0
                          /\ sock' = [sock EXCEPT ![c] = para[i[c]].socket]
                          /\ Goto(c, label)
                          /\ UNCHANGED <<i, tmp>>

\* The turn that finds the client's entry, with a session in it.
Hit(c, label) == /\ i[c] < num /\ para[i[c]].pclient = c
                 /\ para[i[c]].socket # 0
                 /\ sock' = [sock EXCEPT ![c] = para[i[c]].socket]
                 /\ Goto(c, label)
                 /\ UNCHANGED <<i, tmp>>

\* get_socket returns 0: no entry, or an entry without a session.
Miss(c) == \/ i[c] >= num
           \/ i[c] < num /\ para[i[c]].pclient = c /\ para[i[c]].socket = 0

GetSocket(c) == /\ pc[c] = "lookup"
                /\ Hit(c, "exchange") \/ (Miss(c) /\ Return(c))
                /\ UNCHANGED <<table, outside>>

\* socket_send and socket_recv; on a descriptor that is closed both fail.  When
\* the engine is gone recv sees the end, or one of the two fails and socket_error
\* closes the descriptor; the entry stays.  (A thread that never comes out of the
\* loop over the body is one that does not take this step.)
Exchange(c) ==
  /\ pc[c] = "exchange"
  /\ IF owner[sock[c]] \notin {NULL, Lost}
     THEN /\ sentOn' = [sentOn EXCEPT ![c] = sock[c]]
          /\ reply' = [reply EXCEPT ![c] = "answer"]
          /\ UNCHANGED owner
     ELSE /\ \/ UNCHANGED owner
             \/ owner' = [owner EXCEPT ![sock[c]] = NULL]
          /\ UNCHANGED <<sentOn, reply>>
  /\ Return(c)
  /\ UNCHANGED <<table, alive, started, faults>>

\* The engine's process dies and with it all sessions; it is started again.
EngineDies == /\ "death" \in faults
              /\ owner' = [s \in Socket |-> IF owner[s] = NULL THEN NULL ELSE Lost]
              /\ UNCHANGED <<table, thread, alive, started, sentOn, reply, faults>>

-----------------------------------------------------------------------------
(* handle_close and del_socket *)

Close(c) == /\ Enter(c, "closeLookup")
            /\ UNCHANGED <<table, i, sock, tmp, outside>>

CloseGetSocket(c) ==
  /\ pc[c] = "closeLookup"
  /\ Hit(c, "find") \/ (Miss(c) /\ Goto(c, "leave") /\ UNCHANGED <<i, sock, tmp>>)
  /\ UNCHANGED <<table, outside>>

\* The index del_socket shifts from: the first entry with the socket, or 0.
IsIndex(k, s) == LET hits == {m \in 0 .. (num - 1) : para[m].socket = s}
                 IN  IF hits = {} THEN k = 0 ELSE k \in hits /\ \A m \in hits : k <= m

Find(c) == /\ pc[c] = "find"
           /\ \E k \in 0 .. (MaxConnect + 2) : /\ IsIndex(k, sock[c])
                                               /\ i' = [i EXCEPT ![c] = k]
           /\ Goto(c, "shift")
           /\ UNCHANGED <<table, sock, tmp, outside>>

Shift(c) == /\ pc[c] = "shift" /\ i[c] < num - 1
            /\ para' = [para EXCEPT ![i[c]] = para[i[c] + 1]]
            /\ i' = [i EXCEPT ![c] = @ + 1]
            /\ UNCHANGED <<num, pc, sock, tmp, outside>>

\* Mutant: the last entry is left as it was.
ClearLastForgets(c) == /\ pc[c] = "shift" /\ i[c] >= num - 1
                       /\ Goto(c, "dropLoad")
                       /\ UNCHANGED <<table, i, sock, tmp, outside>>

ClearLast(c) == /\ pc[c] = "shift" /\ i[c] >= num - 1
                /\ para' = [para EXCEPT ![num - 1] = Clear]
                /\ Goto(c, "dropLoad")
                /\ UNCHANGED <<num, i, sock, tmp, outside>>

DropLoad(c) == /\ pc[c] = "dropLoad"
               /\ tmp' = [tmp EXCEPT ![c] = num]
               /\ Goto(c, "dropStore")
               /\ UNCHANGED <<table, i, sock, outside>>

\* The count goes down, and the session's descriptor is closed.
DropStore(c) == /\ pc[c] = "dropStore"
                /\ num' = tmp[c] - 1
                /\ owner' = [owner EXCEPT ![sock[c]] = NULL]
                /\ Goto(c, "leave")
                /\ UNCHANGED <<para, i, sock, tmp, alive, started, sentOn, reply, faults>>

\* The handler thread frees the client structure and ends.  Sessions of its
\* that are still open stay open.
Leave(c) == /\ pc[c] = "leave"
            /\ alive' = alive \ {c}
            /\ started' = started \ {c}
            /\ owner' = [s \in Socket |-> IF owner[s] = c THEN Gone ELSE owner[s]]
            /\ sentOn' = [sentOn EXCEPT ![c] = 0]
            /\ reply' = [reply EXCEPT ![c] = "none"]
            /\ Return(c)
            /\ UNCHANGED <<table, faults>>

-----------------------------------------------------------------------------
Step(c) == \/ Check(c) \/ ConnectServer(c) \/ Recheck(c)
           \/ PutClient(c) \/ PutSocket(c) \/ CountLoad(c) \/ CountStore(c)
           \/ NextEntry(c) \/ GetSocket(c) \/ Exchange(c)
           \/ CloseGetSocket(c) \/ Find(c) \/ Shift(c) \/ ClearLast(c)
           \/ DropLoad(c) \/ DropStore(c) \/ Leave(c)

Next == \/ \E c \in Client : Connected(c) \/ Start(c) \/ Move(c) \/ Close(c) \/ Step(c)
        \/ EngineDies

Spec == Init /\ [][Next]_vars
-----------------------------------------------------------------------------
(* Properties *)

Label == {"idle", "check", "connect", "recheck", "putClient", "putSocket", "countLoad",
          "countStore", "lookup", "exchange", "closeLookup", "find", "shift", "dropLoad",
          "dropStore", "leave"}

Entry == [pclient : Client \cup {NULL}, socket : Socket \cup {0}]

\* Every variable of the table and of the handler threads has its type.
TypeOK == /\ num \in Int
          /\ para \in [Slot -> Entry]
          /\ pc \in [Client -> Label]
          /\ i \in [Client -> Int] /\ tmp \in [Client -> Int]
          /\ sock \in [Client -> Socket \cup {0}]
          /\ alive \subseteq Client /\ started \subseteq Client
          /\ owner \in [Socket -> Client \cup {NULL, Gone, Lost}]
          /\ sentOn \in [Client -> Socket \cup {0}]
          /\ reply \in [Client -> {"none", "full", "answer"}]
          /\ faults \in Scenarios

TakeTurns == "overlap" \notin faults

\* No more than MAX_CONNECT engine connections are counted ("exceed max
\* connect!") as long as the threads take turns, and one more when two starts race,
\* because the limit is tested before connect_server is called and the count is
\* stored after it.  (Three threads can go further: a count that is out of date
\* when it is stored lets starts in again while another one holds a higher count.)
Capacity == /\ TakeTurns => num \in 0 .. MaxConnect
            /\ Together <= 2 => num \in 0 .. (MaxConnect + 1)

\* add_socket and del_socket only write inside g_con_para when threads take turns.
InBounds == TakeTurns =>
  \A c \in Client : /\ pc[c] \in {"putClient", "putSocket"} => num \in Inner
                    /\ pc[c] = "shift" => i[c] \in Inner /\ num - 1 \in Inner

\* Between calls the entries in use are the first g_cur_con_num ones, and the
\* others are cleared: the shift of del_socket leaves no gap and no remainder.
Compact == TakeTurns /\ Quiet =>
             /\ \A k \in Slot \ (0 .. (num - 1)) : para[k] = Clear
             /\ \A k \in 0 .. (num - 1) : para[k].pclient # NULL

\* A browser's requests only reach an engine session opened for it, never one
\* of another browser or of an earlier one at the same address, when no browser
\* has left an entry behind by a second start and threads take turns.
Isolation == faults \subseteq {"refusal"} =>
  \A c \in Client : sentOn[c] # 0 /\ pc[c] # "leave" => owner[sentOn[c]] = c

\* As long as a browser is connected its requests go to one and the same
\* session, whatever other browsers start and close in between: a game is not
\* split over two engines.  A death of the engine is left out, like in Isolation:
\* a descriptor that socket_error closes stays in the table and is given out again.
Affinity ==
  [][TakeTurns /\ "death" \notin faults =>
       \A c \in Client : sentOn[c] # 0 /\ c \in alive' => sentOn'[c] = sentOn[c]]_vars

\* A start is refused with "exceed max connect!" only when MAX_CONNECT other
\* browsers have started a game and are still connected, when each starts once
\* and the engine is reachable.
FullMeansFull ==
  [][\A c \in Client : faults = {} /\ reply[c] # "full" /\ reply'[c] = "full"
                         => Cardinality(started \ {c}) >= MaxConnect]_vars
=============================================================================
