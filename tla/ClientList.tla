----------------------------- MODULE ClientList -----------------------------
(***************************************************************************)
(* The linked list of connected clients (`ws_list`, Datastructures.c) and  *)
(* the three operations the handler threads call on it: list_add,          *)
(* list_remove and list_multicast_one.  Every call takes the list's mutex, *)
(* walks the chain of `next` pointers one node per step, and lets go of    *)
(* the mutex at the end.  A client structure lives at an address that      *)
(* malloc hands out again after free.                                      *)
(*                                                                         *)
(* `members` is an auxiliary variable: the list a reader has in mind.  It  *)
(* never guards a step; the invariants say the pointers spell it.          *)
(***************************************************************************)
EXTENDS SequencesExt, Integers

CONSTANTS Thread,     \* handler threads
          Client,     \* addresses of client structures
          NULL        \* the null pointer, and the holder of a free mutex

ASSUME NullAssumption == NULL \notin Thread \cup Client

VARIABLES first, last, next, len,   \* ws_list, and next[c] of each ws_client
          lock,                     \* the thread that holds l->lock
          pc, arg, n, p,            \* locals of the call of each thread
          heap,                     \* addresses malloc has handed out
          fresh,                    \* those no thread has put in the list yet
          members,                  \* auxiliary: the list as a sequence
          effect                    \* auxiliary: what the call of t has done

list  == <<first, last, next, len>>
local == <<arg, n, p>>
vars  == <<first, last, next, len, lock, pc, arg, n, p, heap, fresh, members, effect>>

Pointer == Client \cup {NULL}

Init == /\ first = NULL /\ last = NULL /\ len = 0
        /\ next = [c \in Client |-> NULL]
        /\ lock = NULL
        /\ pc = [t \in Thread |-> "idle"]
        /\ arg = [t \in Thread |-> NULL]
        /\ n = [t \in Thread |-> NULL]
        /\ p = [t \in Thread |-> NULL]
        /\ heap = {} /\ fresh = {}
        /\ members = <<>>
        /\ effect = [t \in Thread |-> "none"]

Goto(t, label) == pc' = [pc EXCEPT ![t] = label]
Found(t)       == effect' = [effect EXCEPT ![t] = "found"]
Missed(t)      == effect' = [effect EXCEPT ![t] = "missed"]

\* client_new: malloc never returns an address that is in use.
ClientNew(c) == /\ c \notin heap
                /\ heap' = heap \cup {c}
                /\ fresh' = fresh \cup {c}
                /\ next' = [next EXCEPT ![c] = NULL]
                /\ UNCHANGED <<first, last, len, lock, pc, local, members, effect>>

\* A thread enters one of the operations.  Only list_add needs a client of the
\* caller's own; the others get an address that may be dangling.
Call(t, c, op) == /\ pc[t] = "idle"
                  /\ op = "add" => c \in fresh
                  /\ fresh' = IF op = "add" THEN fresh \ {c} ELSE fresh
                  /\ Goto(t, op)
                  /\ arg' = [arg EXCEPT ![t] = c]
                  /\ effect' = [effect EXCEPT ![t] = "none"]
                  /\ UNCHANGED <<list, lock, n, p, heap, members>>

Unlock(t) == /\ pc[t] = "unlock"
             /\ lock' = NULL
             /\ Goto(t, "idle")
             /\ UNCHANGED <<list, local, heap, fresh, members, effect>>

-----------------------------------------------------------------------------
(* list_add *)

AddLock(t) == /\ pc[t] = "add" /\ lock = NULL
              /\ lock' = t
              /\ Goto(t, "link")
              /\ UNCHANGED <<list, local, heap, fresh, members, effect>>

AddLink(t) == /\ pc[t] = "link"
              /\ last' = arg[t]
              /\ \/ /\ first # NULL
                    /\ next' = [next EXCEPT ![last] = arg[t]]
                    /\ UNCHANGED first
                 \/ /\ first = NULL
                    /\ first' = arg[t]
                    /\ UNCHANGED next
              /\ len' = len + 1
              /\ members' = Append(members, arg[t])
              /\ Found(t)
              /\ Goto(t, "unlock")
              /\ UNCHANGED <<lock, local, heap, fresh>>

-----------------------------------------------------------------------------
(* list_multicast_one *)

\* Mutant: the walk starts without the mutex.
SendLockUnguarded(t) == /\ pc[t] = "send"
                        /\ n' = [n EXCEPT ![t] = first]
                        /\ Goto(t, IF first = NULL THEN "idle" ELSE "sendWalk")
                        /\ UNCHANGED <<list, lock, arg, p, heap, fresh, members, effect>>

SendLock(t) == /\ pc[t] = "send" /\ lock = NULL
               /\ lock' = t
               /\ n' = [n EXCEPT ![t] = first]
               /\ \/ /\ first = NULL
                     /\ Missed(t) /\ Goto(t, "unlock")
                  \/ /\ first # NULL
                     /\ Goto(t, "sendWalk") /\ UNCHANGED effect
               /\ UNCHANGED <<list, arg, p, heap, fresh, members>>

\* Mutant: the walk stops in front of the last client.
SendWalkSkipsLast(t) == /\ pc[t] = "sendWalk" /\ n[t] # arg[t]
                        /\ n' = [n EXCEPT ![t] = next[n[t]]]
                        /\ \/ /\ next[n[t]] \in {last, NULL}
                              /\ Missed(t) /\ Goto(t, "unlock")
                           \/ /\ next[n[t]] \notin {last, NULL}
                              /\ UNCHANGED <<pc, effect>>
                        /\ UNCHANGED <<list, lock, arg, p, heap, fresh, members>>

SendWalk(t) == /\ pc[t] = "sendWalk" /\ n[t] # arg[t]
               /\ n' = [n EXCEPT ![t] = next[n[t]]]
               /\ \/ /\ next[n[t]] = NULL
                     /\ Missed(t) /\ Goto(t, "unlock")
                  \/ /\ next[n[t]] # NULL
                     /\ UNCHANGED <<pc, effect>>
               /\ UNCHANGED <<list, lock, arg, p, heap, fresh, members>>

\* ws_send writes the frame on the socket of the client found.
SendHit(t) == /\ pc[t] = "sendWalk" /\ n[t] = arg[t]
              /\ Found(t)
              /\ Goto(t, "unlock")
              /\ UNCHANGED <<list, lock, local, heap, fresh, members>>

-----------------------------------------------------------------------------
(* list_remove *)

\* The local p is not initialised: it can hold anything.
RemoveLock(t) == /\ pc[t] = "remove" /\ lock = NULL
                 /\ lock' = t
                 /\ n' = [n EXCEPT ![t] = first]
                 /\ \E junk \in Pointer : p' = [p EXCEPT ![t] = junk]
                 /\ \/ /\ first = NULL
                       /\ Missed(t) /\ Goto(t, "unlock")
                    \/ /\ first # NULL
                       /\ Goto(t, "removeWalk") /\ UNCHANGED effect
                 /\ UNCHANGED <<list, arg, heap, fresh, members>>

\* Mutant: the walk does not go on to the next client.
RemoveWalkStays(t) == /\ pc[t] = "removeWalk" /\ n[t] # arg[t]
                      /\ p' = [p EXCEPT ![t] = n[t]]
                      /\ UNCHANGED <<list, lock, arg, n, pc, heap, fresh, members, effect>>

RemoveWalk(t) == /\ pc[t] = "removeWalk" /\ n[t] # arg[t]
                 /\ p' = [p EXCEPT ![t] = n[t]]
                 /\ n' = [n EXCEPT ![t] = next[n[t]]]
                 /\ \/ /\ next[n[t]] = NULL
                       /\ Missed(t) /\ Goto(t, "fix")
                    \/ /\ next[n[t]] # NULL
                       /\ UNCHANGED <<pc, effect>>
                 /\ UNCHANGED <<list, lock, arg, heap, fresh, members>>

RemoveUnlink(t) == /\ pc[t] = "removeWalk" /\ n[t] = arg[t]
                   /\ \/ /\ n[t] = first
                         /\ first' = next[n[t]]
                         /\ UNCHANGED next
                      \/ /\ n[t] # first
                         /\ next' = [next EXCEPT ![p[t]] = next[n[t]]]
                         /\ UNCHANGED first
                   /\ last' = IF n[t] = last THEN p[t] ELSE last
                   /\ \E i \in DOMAIN members : /\ members[i] = n[t]
                                                /\ members' = RemoveAt(members, i)
                   /\ Found(t)
                   /\ Goto(t, "free")
                   /\ UNCHANGED <<len, lock, local, heap, fresh>>

\* ws_closeframe, shutdown, client_free, close and free of the node.
RemoveFree(t) == /\ pc[t] = "free"
                 /\ heap' = heap \ {n[t]}
                 /\ len' = len - 1
                 /\ Goto(t, "fix")
                 /\ UNCHANGED <<first, last, next, lock, local, fresh, members, effect>>

\* Mutant: `last` is only repaired when one client is left.
RemoveFixOneOnly(t) == /\ pc[t] = "fix"
                       /\ first' = IF len = 0 THEN NULL ELSE first
                       /\ last' = IF len = 1 THEN first ELSE last
                       /\ Goto(t, "unlock")
                       /\ UNCHANGED <<next, len, lock, local, heap, fresh, members, effect>>

RemoveFix(t) == /\ pc[t] = "fix"
                /\ first' = IF len = 0 THEN NULL ELSE first
                /\ last' = CASE len = 0 -> NULL
                             [] len = 1 -> first
                             [] OTHER   -> last
                /\ Goto(t, "unlock")
                /\ UNCHANGED <<next, len, lock, local, heap, fresh, members, effect>>

-----------------------------------------------------------------------------
Step(t) == \/ AddLock(t) \/ AddLink(t)
           \/ SendLock(t) \/ SendWalk(t) \/ SendHit(t)
           \/ RemoveLock(t) \/ RemoveWalk(t) \/ RemoveUnlink(t)
           \/ RemoveFree(t) \/ RemoveFix(t)
           \/ Unlock(t)

Next == \/ \E c \in Client : ClientNew(c)
        \/ \E t \in Thread, c \in Client, op \in {"add", "send", "remove"} : Call(t, c, op)
        \/ \E t \in Thread : Step(t)

Spec == Init /\ [][Next]_vars

\* A handler thread that can run is eventually scheduled.
Fairness == \A t \in Thread : WF_vars(Step(t))

FairSpec == Spec /\ Fairness

-----------------------------------------------------------------------------
(* Properties *)

Label == {"idle", "add", "send", "remove", "link", "sendWalk", "removeWalk",
          "free", "fix", "unlock"}

\* The pcs at which the thread is inside the critical section.
Critical == {"link", "sendWalk", "removeWalk", "free", "fix", "unlock"}

\* Every variable of the list, of the threads and of the heap has its type.
TypeOK == /\ first \in Pointer /\ last \in Pointer
          /\ next \in [Client -> Pointer]
          /\ len \in Nat
          /\ lock \in Thread \cup {NULL}
          /\ pc \in [Thread -> Label]
          /\ arg \in [Thread -> Pointer]
          /\ n \in [Thread -> Pointer] /\ p \in [Thread -> Pointer]
          /\ heap \subseteq Client /\ fresh \subseteq Client
          /\ members \in Seq(Client)
          /\ effect \in [Thread -> {"none", "found", "missed"}]

\* Following `next` from `first` visits the sequence s and stops.
Spells(s) == /\ first = IF s = <<>> THEN NULL ELSE s[1]
             /\ \A i \in DOMAIN s : next[s[i]] = IF i = Len(s) THEN NULL ELSE s[i + 1]

LastOf(s) == IF s = <<>> THEN NULL ELSE s[Len(s)]

Changing == \E t \in Thread : pc[t] \in {"free", "fix"}

\* Whenever no removal is half done, the pointers of ws_list spell the list of
\* clients in order of arrival, `last` is its last node and `len` its length:
\* the uninitialised `p` of list_remove, copied to `last`, is always repaired.
WellFormed == ~Changing => /\ Spells(members)
                           /\ last = LastOf(members)
                           /\ len = Len(members)

\* A walk only looks at nodes that are still allocated: list_remove frees a
\* node only after it is unlinked, and no other walk can be on it.
NoDanglingWalk ==
  \A t \in Thread : pc[t] \in {"sendWalk", "removeWalk", "free"} => n[t] \in heap

\* No node of the list is freed while it is linked, and none is linked twice.
Registered == IsInjective(members) /\ Range(members) \subseteq heap \ fresh

\* The handler threads see the list as if every call were one step: a walk
\* finds its client exactly when the client is in the list.
Registry == INSTANCE ClientRegistry
RefinesRegistry == Registry!Spec

\* A thread that has the mutex gives it back: every walk of the chain ends.
LockReleased == \A t \in Thread : lock = t ~> lock # t
=============================================================================
