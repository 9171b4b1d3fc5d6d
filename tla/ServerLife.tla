----------------------------- MODULE ServerLife -----------------------------
(***************************************************************************)
(* The life of a handler thread of the WebSocket server (Websocket.c and   *)
(* handshake_error of Errors.c): main accepts a browser and allocates its  *)
(* structure; the thread shakes hands, enters the client list, serves      *)
(* requests and at the end closes the game and leaves the list, which      *)
(* frees the structure.  After a failed handshake the structure is freed   *)
(* first, and the thread's cleanup handler runs with the old address.      *)
(*                                                                         *)
(* A call of the client list is one step, as ClientRegistry has it, and    *)
(* `members` is the list as a set.  A call of service.c is one step, too:  *)
(* calls that overlap are the subject of ConnTable.  A thread whose        *)
(* structure another thread has freed goes on with what the memory still   *)
(* holds; what else it may read there has no model.                        *)
(***************************************************************************)
EXTENDS Naturals, Sequences, FiniteSets

CONSTANTS Thread,     \* handler threads, one for each connection of a browser
          Address,    \* addresses of client structures
          NULL,       \* the null pointer, no thread, no engine connection
          MaxConnect, \* MAX_CONNECT
          Scenarios   \* the sets of circumstances that may come together:
                      \* "reuse", malloc gives out an address that a thread still
                      \* has after it was freed; "refusal", the engine is
                      \* unreachable; "restart", a browser sends a second start

ASSUME LifeAssumption == /\ NULL \notin Thread \cup Address /\ MaxConnect \in Nat
                         /\ Scenarios \subseteq SUBSET {"reuse", "refusal", "restart"}

VARIABLES heap,      \* addresses in use
          socket,    \* socket[a]: the thread whose browser's socket is in structure a
          members,   \* ws_list
          table,     \* table[a]: the entries of g_con_para with client a, oldest first,
                     \* each the thread that opened the session, or NULL for socket 0
          pc, n,     \* each thread's place, and its client
          asking,    \* auxiliary: threads whose browser waits for an answer
          started,   \* auxiliary: threads whose browser has sent a start
          heirs,     \* auxiliary: threads accepted at an address another thread had
          faults     \* auxiliary: what may happen in this behaviour

aux  == <<asking, started, heirs, faults>>
vars == <<heap, socket, members, table, pc, n, asking, started, heirs, faults>>

Init == /\ heap = {} /\ members = {}
        /\ socket = [a \in Address |-> NULL]
        /\ table = [a \in Address |-> <<>>]
        /\ pc = [t \in Thread |-> "none"]
        /\ n = [t \in Thread |-> NULL]
        /\ asking = {} /\ started = {} /\ heirs = {}
        /\ faults \in Scenarios

Goto(t, from, to) == pc[t] = from /\ pc' = [pc EXCEPT ![t] = to]

InUse == {n[t] : t \in Thread}

\* What malloc may return for a new structure.
Available == Address \ (heap \cup IF "reuse" \in faults THEN {} ELSE InUse)

\* main: accept, client_new and pthread_create.
Accept(t, a) == /\ Goto(t, "none", "handshake")
                /\ a \in Available
                /\ heap' = heap \cup {a}
                /\ socket' = [socket EXCEPT ![a] = t]
                /\ n' = [n EXCEPT ![t] = a]
                /\ heirs' = IF a \in InUse THEN heirs \cup {t} ELSE heirs
                /\ UNCHANGED <<members, table, asking, started, faults>>

\* handshake_error frees the structure; pthread_exit then runs cleanup_client.
Reject(t) == /\ Goto(t, "handshake", "cleanup")
             /\ heap' = heap \ {n[t]}
             /\ UNCHANGED <<socket, members, table, n, aux>>

\* parseHeaders, sendHandshake and list_add.
Join(t) == /\ Goto(t, "handshake", "serve")
           /\ members' = members \cup {n[t]}
           /\ UNCHANGED <<heap, socket, table, n, aux>>

\* communicate returns a message of the browser whose socket is in the structure,
\* and handle_service a response or none.
Reply(t) == \/ Goto(t, "serve", "answer") /\ asking' = asking \cup {socket[n[t]]}
            \/ Goto(t, "serve", "serve")  /\ UNCHANGED asking

Full == Cardinality(UNION {{a} \X DOMAIN table[a] : a \in Address}) >= MaxConnect

\* A message that adds no entry: no start, or "exceed max connect!".
Request(t) == Reply(t) /\ UNCHANGED <<heap, socket, members, table, n, started, heirs, faults>>

\* A start: connect_server and add_socket, with 0 if the engine is unreachable.
Start(t) == /\ Reply(t) /\ ~Full
            /\ t \in started => "restart" \in faults
            /\ started' = started \cup {t}
            /\ \E s \in {t} \cup (IF "refusal" \in faults THEN {NULL} ELSE {}) :
                 table' = [table EXCEPT ![n[t]] = Append(@, s)]
            /\ UNCHANGED <<heap, socket, members, n, heirs, faults>>

\* Mutant: the response goes to the client that came last.
AnswerNewest(t) == /\ Goto(t, "answer", "serve")
                   /\ \E a \in members : asking' = asking \ {socket[a]}
                   /\ UNCHANGED <<heap, socket, members, table, n, started, heirs, faults>>

\* send_to_client: list_multicast_one writes on the socket of the structure.
Answer(t) == /\ Goto(t, "answer", "serve")
             /\ asking' = IF n[t] \in members THEN asking \ {socket[n[t]]} ELSE asking
             /\ UNCHANGED <<heap, socket, members, table, n, started, heirs, faults>>

\* communicate returns something else than CONTINUE.
Disconnect(t) == /\ Goto(t, "serve", "close")
                 /\ UNCHANGED <<heap, socket, members, table, n, aux>>

\* Mutant: the thread only leaves the list.
HandleCloseSkipped(t) == /\ Goto(t, "close", "remove") \/ Goto(t, "cleanup", "cleanupRemove")
                         /\ UNCHANGED <<heap, socket, members, table, n, aux>>

\* handle_close, from handleClient or from cleanup_client: the first entry of the
\* client is deleted, unless its socket is 0.
HandleClose(t) == /\ Goto(t, "close", "remove") \/ Goto(t, "cleanup", "cleanupRemove")
                  /\ LET entries == table[n[t]] IN
                     table' = IF entries # <<>> /\ Head(entries) # NULL
                              THEN [table EXCEPT ![n[t]] = Tail(entries)] ELSE table
                  /\ UNCHANGED <<heap, socket, members, n, aux>>

\* The thread ends.
Ends(t) == /\ n' = [n EXCEPT ![t] = NULL]
           /\ started' = started \ {t} /\ heirs' = heirs \ {t}
           /\ UNCHANGED <<socket, table, asking, faults>>

\* Mutants: some client of the list is removed; the structure is freed whether it
\* was in the list or not.
ListRemoveOther(t) == /\ Goto(t, "remove", "none") \/ Goto(t, "cleanupRemove", "none")
                      /\ \E a \in members : heap' = heap \ {a} /\ members' = members \ {a}
                      /\ Ends(t)

ListRemoveFrees(t) == /\ Goto(t, "remove", "none") \/ Goto(t, "cleanupRemove", "none")
                      /\ heap' = heap \ {n[t]} /\ members' = members \ {n[t]}
                      /\ Ends(t)

\* list_remove frees the structure when it is in the list.
ListRemove(t) == /\ Goto(t, "remove", "none") \/ Goto(t, "cleanupRemove", "none")
                 /\ heap' = IF n[t] \in members THEN heap \ {n[t]} ELSE heap
                 /\ members' = members \ {n[t]}
                 /\ Ends(t)

-----------------------------------------------------------------------------
Step(t) == \/ \E a \in Address : Accept(t, a)
           \/ Reject(t) \/ Join(t) \/ Request(t) \/ Start(t) \/ Answer(t)
           \/ Disconnect(t) \/ HandleClose(t) \/ ListRemove(t)

Next == \E t \in Thread : Step(t)

Spec == Init /\ [][Next]_vars
-----------------------------------------------------------------------------
(* Properties *)

Serving == {"serve", "answer", "close", "remove"}

\* Every variable has its type.
TypeOK == /\ heap \subseteq Address /\ members \subseteq Address
          /\ socket \in [Address -> Thread \cup {NULL}]
          /\ table \in [Address -> Seq(Thread \cup {NULL})]
          /\ pc \in [Thread -> {"none", "handshake", "cleanup", "cleanupRemove"} \cup Serving]
          /\ n \in [Thread -> Address \cup {NULL}]
          /\ asking \subseteq Thread /\ started \subseteq Thread /\ heirs \subseteq Thread
          /\ faults \in Scenarios

\* handshake_error, list_remove and the cleanup handler, which is given an address
\* that was freed before, never free an address twice: what is in the list, and the
\* structure of a thread that shakes hands, is allocated.  Even where malloc has
\* given the address to another browser in between.
NoDoubleFree == /\ members \subseteq heap
             /\ \A t \in Thread : pc[t] = "handshake" => n[t] \in heap

\* A thread keeps its structure, with its own browser's socket and in the list, until
\* it gives it up: closing one browser takes no other's away.  The one exception are
\* browsers accepted at an address that another thread still had: the cleanup handler
\* of a failed handshake removes whoever has its address by then.
OwnStructure == \A t \in Thread \ heirs :
                  /\ pc[t] = "handshake" \/ pc[t] \in Serving => n[t] \in heap /\ socket[n[t]] = t
                  /\ pc[t] \in Serving => n[t] \in members

\* When every thread has ended nothing is left behind: no structure and no place in
\* the list, whatever has happened; and no entry of the table, unless the engine was
\* unreachable or a browser has sent a second start (handle_close leaves an entry of
\* socket 0, and all but one entry of a browser).
NothingLeft == (\A t \in Thread : pc[t] = "none") =>
                 /\ heap = {} /\ members = {}
                 /\ faults \subseteq {"reuse"} => \A a \in Address : table[a] = <<>>

Calm    == faults = {}
Players == {t \in Thread : \E a \in Address : \E k \in DOMAIN table[a] : table[a][k] = t}

\* The browsers see the server as if each had its own: an answer goes to the
\* browser that asked, and a game is closed before its browser's place is given
\* up, by its own thread.  This needs an engine that is reachable, one start of each
\* browser, and no browser accepted at an address that is still in use.
Sessions == INSTANCE BrowserSessions WITH
              Browser <- Thread,
              serving <- IF Calm THEN {socket[a] : a \in members} ELSE {},
              playing <- IF Calm THEN Players ELSE {},
              asking  <- IF Calm THEN asking ELSE {}
RefinesSessions == Sessions!Spec
=============================================================================
