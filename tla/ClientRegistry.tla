-------------------------- MODULE ClientRegistry --------------------------
(***************************************************************************)
(* What the client list of the WebSocket server promises its callers: a    *)
(* set of connected clients kept in order of arrival, on which a call acts *)
(* in one indivisible step.  `ClientList` is shown to implement it.        *)
(***************************************************************************)
EXTENDS SequencesExt

CONSTANTS Thread,     \* the threads that call the list
          Client,     \* the addresses a client structure can have
          NULL        \* no client

VARIABLES members,    \* the clients in the list, oldest first
          arg,        \* arg[t]: the client that the call of thread t is about
          effect      \* effect[t]: whether that call has found its client

vars == <<members, arg, effect>>

Init == /\ members = <<>>
        /\ arg = [t \in Thread |-> NULL]
        /\ effect = [t \in Thread |-> "none"]

Call(t, c) == /\ arg' = [arg EXCEPT ![t] = c]
              /\ effect' = [effect EXCEPT ![t] = "none"]
              /\ UNCHANGED members

\* A client joins once, at the end.
Join(t) == /\ effect[t] = "none"
           /\ arg[t] \notin Range(members)
           /\ members' = Append(members, arg[t])
           /\ effect' = [effect EXCEPT ![t] = "found"]
           /\ UNCHANGED arg

Leave(t) == /\ effect[t] = "none"
            /\ \E i \in DOMAIN members : /\ members[i] = arg[t]
                                         /\ members' = RemoveAt(members, i)
            /\ effect' = [effect EXCEPT ![t] = "found"]
            /\ UNCHANGED arg

Deliver(t) == /\ effect[t] = "none"
              /\ arg[t] \in Range(members)
              /\ effect' = [effect EXCEPT ![t] = "found"]
              /\ UNCHANGED <<members, arg>>

\* Only a client that is not in the list may be missed.
Miss(t) == /\ effect[t] = "none"
           /\ arg[t] \notin Range(members)
           /\ effect' = [effect EXCEPT ![t] = "missed"]
           /\ UNCHANGED <<members, arg>>

Next == \E t \in Thread : \/ \E c \in Client : Call(t, c)
                          \/ Join(t)
                          \/ Leave(t)
                          \/ Deliver(t)
                          \/ Miss(t)

Spec == Init /\ [][Next]_vars
=============================================================================
