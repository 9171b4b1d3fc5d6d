---------------------------- MODULE ListShutdown ----------------------------
(***************************************************************************)
(* The shutdown of the WebSocket server: sigint_handler (Websocket.c) runs *)
(* list_free (Datastructures.c) in whichever thread the signal interrupts, *)
(* while the other handler threads go on with their calls of the client    *)
(* list.  The interrupted thread stands still until the handler is done,   *)
(* and it keeps the mutex if it has it.                                    *)
(***************************************************************************)
EXTENDS ClientList

CONSTANTS Main,     \* the main thread, which blocks in accept; also the
                    \* handler as the holder of the mutex
          Target    \* the threads the signal may interrupt

ASSUME ShutdownAssumption == /\ Main \notin Thread \cup Client \cup {NULL}
                             /\ Target \subseteq Thread \cup {Main}

VARIABLES hpc,      \* place of the handler
          victim,   \* the interrupted thread
          hn,       \* n of list_free
          present,  \* auxiliary: the clients in the list when list_free has the mutex
          closed    \* auxiliary: the clients list_free has closed and freed

handler == <<hpc, victim, hn, present, closed>>
all     == <<vars, handler>>

InitShutdown == /\ Init
                /\ hpc = "none" /\ victim = NULL /\ hn = NULL
                /\ present = {} /\ closed = {}

\* The signal arrives, once: a second one, and the SIGINT that send_to_client raises
\* when memory has run out, are not modelled.
Signal(t) == /\ hpc = "none" /\ t \in Target
             /\ hpc' = "lock" /\ victim' = t
             /\ UNCHANGED <<vars, hn, present, closed>>

\* Mutant: list_free does not take the mutex.
FreeLockUnguarded == /\ hpc = "lock"
                     /\ hn' = first /\ hpc' = "free"
                     /\ present' = Range(members)
                     /\ UNCHANGED <<vars, victim, closed>>

FreeLock == /\ hpc = "lock" /\ lock = NULL
            /\ lock' = Main
            /\ hn' = first /\ hpc' = "free"
            /\ present' = Range(members)
            /\ UNCHANGED <<list, pc, local, heap, fresh, members, effect, victim, closed>>

\* Mutants: the walk frees every other client; the cursor stays.
FreeNodeSkips == /\ hpc = "free" /\ hn # NULL
                 /\ hn' = IF next[hn] = NULL THEN NULL ELSE next[next[hn]]
                 /\ heap' = heap \ {hn} /\ closed' = closed \cup {hn}
                 /\ UNCHANGED <<list, lock, pc, local, fresh, members, effect, hpc, victim, present>>

FreeNodeStays == /\ hpc = "free" /\ hn # NULL
                 /\ heap' = heap \ {hn} /\ closed' = closed \cup {hn}
                 /\ UNCHANGED <<list, lock, pc, local, fresh, members, effect, hpc, victim, hn, present>>

\* ws_closeframe, shutdown, client_free, close and free of one client.  The thread
\* of a hybi-00 client is also cancelled (ws_closeframe); the model lets it run on.
FreeNode == /\ hpc = "free" /\ hn # NULL
            /\ hn' = next[hn]
            /\ heap' = heap \ {hn} /\ closed' = closed \cup {hn}
            /\ UNCHANGED <<list, lock, pc, local, fresh, members, effect, hpc, victim, present>>

FreeUnlock == /\ hpc = "free" /\ hn = NULL
              /\ first' = NULL /\ last' = NULL
              /\ lock' = NULL /\ members' = <<>>
              /\ hpc' = "exit"
              /\ UNCHANGED <<next, len, pc, local, heap, fresh, effect, victim, hn, present, closed>>

Exit == /\ hpc = "exit" /\ hpc' = "exited"
        /\ UNCHANGED <<vars, victim, hn, present, closed>>

Handler == FreeLock \/ FreeNode \/ FreeUnlock \/ Exit

\* The threads that are not interrupted go on until list_free is through.  In the
\* code they run until exit, with a list that list_free has freed: what they read of
\* it between the two has no model.
Others == /\ hpc \notin {"exit", "exited"}
          /\ \/ \E c \in Client : ClientNew(c)
             \/ \E t \in Thread \ {victim} : \/ Step(t)
                                             \/ \E c \in Client, op \in {"add", "send", "remove"} :
                                                  Call(t, c, op)
          /\ UNCHANGED handler

\* After exit nothing runs.
Stopped == hpc = "exited" /\ UNCHANGED all

NextShutdown == Handler \/ Others \/ Stopped \/ \E t \in Thread \cup {Main} : Signal(t)

SpecShutdown == InitShutdown /\ [][NextShutdown]_all

\* A thread that is not interrupted goes on inside the critical section, the
\* handler goes on, and a mutex that is free again and again is had in the end.
FairShutdown == /\ SpecShutdown
                /\ \A t \in Thread : WF_all(Others /\ pc[t] \in Critical /\ Step(t))
                /\ WF_all(FreeNode) /\ WF_all(FreeUnlock) /\ WF_all(Exit)
                /\ SF_all(FreeLock)
-----------------------------------------------------------------------------
(* Properties *)

\* list_free never frees a client twice, nor follows the pointer of one that a
\* handler thread has freed in the meantime.
FreedOnce == hpc = "free" /\ hn # NULL => hn \in heap

\* Every client that was in the list when the shutdown began is closed by it.
AllClosed == hpc \in {"exit", "exited"} => closed = present

\* The handler "shuts down the server in a safe way": after the signal it exits.
ShutdownEnds == hpc = "lock" ~> hpc = "exited"
=============================================================================
