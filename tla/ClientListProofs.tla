-------------------------- MODULE ClientListProofs --------------------------
(***************************************************************************)
(* The client list is well formed, never touches a freed node and behaves  *)
(* like its registry, for any number of threads and of addresses.  These   *)
(* proofs are about ClientList alone: ShutdownAssumption is cited only in  *)
(* the last part, which is about ListShutdown.                             *)
(***************************************************************************)
EXTENDS ListShutdown, SequenceTheorems, TLAPS

\* What RemoveAt returns, element by element.
LEMMA RemoveAtElements ==
  ASSUME NEW S, NEW s \in Seq(S), NEW i \in DOMAIN s
  PROVE  /\ RemoveAt(s, i) \in Seq(S)
         /\ Len(RemoveAt(s, i)) = Len(s) - 1
         /\ \A j \in 1..(Len(s) - 1) : RemoveAt(s, i)[j] = IF j < i THEN s[j] ELSE s[j + 1]
<1> DEFINE a == SubSeq(s, 1, i - 1)
           b == SubSeq(s, i + 1, Len(s))
<1>1. i \in 1..Len(s) /\ Len(s) \in Nat
  OBVIOUS
<1>2. a \in Seq(S) /\ Len(a) = i - 1 /\ \A j \in 1..(i - 1) : a[j] = s[j]
  BY <1>1
<1>3. b \in Seq(S) /\ Len(b) = Len(s) - i /\ \A j \in 1..(Len(s) - i) : b[j] = s[i + j]
  BY <1>1
<1>4. RemoveAt(s, i) = a \o b
  BY DEF RemoveAt
<1> HIDE DEF a, b
<1>5. a \o b \in Seq(S) /\ Len(a \o b) = Len(s) - 1
  BY <1>1, <1>2, <1>3
<1>6. ASSUME NEW j \in 1..(Len(s) - 1)
      PROVE  (a \o b)[j] = IF j < i THEN s[j] ELSE s[j + 1]
  <2>1. CASE j < i
    <3>1. (a \o b)[j] = a[j]
      BY <2>1, <1>1, <1>2, <1>3
    <3>2. a[j] = s[j]
      BY <2>1, <1>1, <1>2
    <3> QED
      BY <2>1, <3>1, <3>2
  <2>2. CASE ~(j < i)
    <3>0. j > Len(a) /\ j \in 1..(Len(a) + Len(b))
      BY <2>2, <1>2, <1>3
    <3>1. (a \o b)[j] = b[j - (i - 1)]
      <4>1. (a \o b)[j] = b[j - Len(a)]
        BY <3>0, <1>1, SMTT(30)
      <4> QED
        BY <4>1, <1>2
    <3>2. b[j - (i - 1)] = s[i + (j - (i - 1))]
      BY <2>2, <1>1, <1>3
    <3> QED
      BY <2>2, <3>1, <3>2, <1>1
  <2> QED
    BY <2>1, <2>2
<1> QED
  BY <1>4, <1>5, <1>6

-----------------------------------------------------------------------------
(* The inductive invariant *)

Walking(t) == pc[t] \in {"sendWalk", "removeWalk"}
Adding(t)  == pc[t] \in {"add", "link"}
Pending(t) == pc[t] \in {"add", "link", "send", "remove", "sendWalk", "removeWalk"}

\* A thread is in the critical section exactly when it holds the mutex.
Mutex == \A t \in Thread : pc[t] \in Critical <=> lock = t

Linked == /\ Spells(members)
          /\ members # <<>> \/ ~Changing => last = LastOf(members)
          /\ len = Len(members) + (IF \E t \in Thread : pc[t] = "free" THEN 1 ELSE 0)

\* A walk at the i-th node has not met its client before.
At(t, i) == /\ n[t] = members[i]
            /\ \A j \in 1..(i - 1) : members[j] # arg[t]
            /\ pc[t] = "removeWalk" /\ i > 1 => p[t] = members[i - 1]

Cursor == \A t \in Thread : Walking(t) => \E i \in DOMAIN members : At(t, i)

\* The node being freed is out of the list.
Unlinked == \A t \in Thread : pc[t] = "free" =>
              n[t] \in heap \ fresh /\ \A i \in DOMAIN members : members[i] # n[t]

\* The client of a list_add is allocated, in no list, and nobody else's.
Own == \A t \in Thread : Adding(t) =>
         /\ arg[t] \in heap \ fresh
         /\ next[arg[t]] = NULL
         /\ \A i \in DOMAIN members : members[i] # arg[t]
         /\ \A u \in Thread \ {t} : Adding(u) => arg[u] # arg[t]
         /\ \A u \in Thread : pc[u] = "free" => n[u] # arg[t]

Fresh == fresh \subseteq heap /\ \A c \in fresh : next[c] = NULL

Calls == \A t \in Thread : /\ pc[t] # "idle" => arg[t] \in Client
                           /\ Pending(t) => effect[t] = "none"

IInv == /\ TypeOK /\ Mutex /\ Linked /\ Registered
        /\ Cursor /\ Unlinked /\ Own /\ Fresh /\ Calls

\* The step ClientNew (client_new) keeps the invariant.
LEMMA ClientNewKeeps ==
  ASSUME IInv, NEW c \in Client, ClientNew(c)
  PROVE  IInv'
<1> USE NullAssumption DEF IInv, ClientNew, local, Pointer, Label, Critical
<1>1. TypeOK'
  BY DEF TypeOK
<1>2. Mutex'
  BY DEF TypeOK, Mutex
<1>3. Linked'
  BY DEF TypeOK, Linked, Spells, LastOf, Changing, Registered, Range
<1>4. Registered'
  BY DEF TypeOK, Registered, Range, IsInjective
<1>5. Cursor'
  BY DEF TypeOK, Mutex, Cursor, At, Walking
<1>6. Unlinked'
  BY DEF TypeOK, Mutex, Unlinked
<1>7. Own'
  BY DEF TypeOK, Own, Adding
<1>8. Fresh'
  BY DEF TypeOK, Fresh
<1>9. Calls'
  BY DEF TypeOK, Calls, Pending
<1> QED
  BY <1>1, <1>2, <1>3, <1>4, <1>5, <1>6, <1>7, <1>8, <1>9 DEF IInv

\* The step Call (handleClient) keeps the invariant.
LEMMA CallKeeps ==
  ASSUME IInv, NEW t \in Thread, NEW c \in Client, NEW op \in {"add", "send", "remove"}, Call(t, c, op)
  PROVE  IInv'
<1> USE NullAssumption DEF IInv, Call, Goto, list, Pointer, Label, Critical
<1>1. TypeOK'
  BY DEF TypeOK
<1>2. Mutex'
  BY DEF TypeOK, Mutex
<1>3. Linked'
  BY DEF TypeOK, Mutex, Linked, Spells, LastOf, Changing
<1>4. Registered'
  BY DEF TypeOK, Registered, Range, IsInjective
<1>5. Cursor'
  <2> SUFFICES ASSUME NEW u \in Thread, Walking(u)'
               PROVE  \E i \in DOMAIN members' : At(u, i)'
    BY DEF Cursor
  <2>1. u # t /\ Walking(u)
    BY DEF TypeOK, Walking
  <2>2. n' = n /\ p' = p /\ members' = members /\ arg'[u] = arg[u] /\ pc'[u] = pc[u]
    BY <2>1 DEF TypeOK
  <2> QED
    BY <2>1, <2>2 DEF Cursor, At
<1>6. Unlinked'
  BY DEF TypeOK, Mutex, Unlinked
<1>7. Own'
  BY DEF TypeOK, Own, Adding, Fresh, Registered, Range, Unlinked
<1>8. Fresh'
  BY DEF TypeOK, Fresh
<1>9. Calls'
  BY DEF TypeOK, Calls, Pending
<1> QED
  BY <1>1, <1>2, <1>3, <1>4, <1>5, <1>6, <1>7, <1>8, <1>9 DEF IInv

\* The step Unlock (list_add) keeps the invariant.
LEMMA UnlockKeeps ==
  ASSUME IInv, NEW t \in Thread, Unlock(t)
  PROVE  IInv'
<1> USE NullAssumption DEF IInv, Unlock, Goto, list, local, Pointer, Label, Critical
<1>1. TypeOK'
  BY DEF TypeOK
<1>2. Mutex'
  BY DEF TypeOK, Mutex
<1>3. Linked'
  BY DEF TypeOK, Mutex, Linked, Spells, LastOf, Changing
<1>4. Registered'
  BY DEF TypeOK, Registered, Range, IsInjective
<1>5. Cursor'
  BY DEF TypeOK, Mutex, Cursor, At, Walking
<1>6. Unlinked'
  BY DEF TypeOK, Mutex, Unlinked
<1>7. Own'
  BY DEF TypeOK, Own, Adding
<1>8. Fresh'
  BY DEF TypeOK, Fresh
<1>9. Calls'
  BY DEF TypeOK, Calls, Pending
<1> QED
  BY <1>1, <1>2, <1>3, <1>4, <1>5, <1>6, <1>7, <1>8, <1>9 DEF IInv

\* The step AddLock (list_add) keeps the invariant.
LEMMA AddLockKeeps ==
  ASSUME IInv, NEW t \in Thread, AddLock(t)
  PROVE  IInv'
<1> USE NullAssumption DEF IInv, AddLock, Goto, list, local, Pointer, Label, Critical
<1>1. TypeOK'
  BY DEF TypeOK
<1>2. Mutex'
  BY DEF TypeOK, Mutex
<1>3. Linked'
  BY DEF TypeOK, Mutex, Linked, Spells, LastOf, Changing
<1>4. Registered'
  BY DEF TypeOK, Registered, Range, IsInjective
<1>5. Cursor'
  BY DEF TypeOK, Mutex, Cursor, At, Walking
<1>6. Unlinked'
  BY DEF TypeOK, Mutex, Unlinked
<1>7. Own'
  BY DEF TypeOK, Own, Adding
<1>8. Fresh'
  BY DEF TypeOK, Fresh
<1>9. Calls'
  BY DEF TypeOK, Calls, Pending
<1> QED
  BY <1>1, <1>2, <1>3, <1>4, <1>5, <1>6, <1>7, <1>8, <1>9 DEF IInv

\* The step AddLink (list_add) keeps the invariant.
LEMMA AddLinkKeeps ==
  ASSUME IInv, NEW t \in Thread, AddLink(t)
  PROVE  IInv'
<1> USE NullAssumption DEF IInv, AddLink, Goto, Found, local, Pointer, Label, Critical
<1>1. TypeOK'
  <2>1. arg[t] \in Client
    BY DEF Calls
  <2> QED
    BY <2>1 DEF TypeOK
<1>2. Mutex'
  BY DEF TypeOK, Mutex
<1>3. Linked'
  BY DEF TypeOK, Mutex, Linked, Spells, LastOf, Changing, Own, Adding, Registered, Range, IsInjective
<1>4. Registered'
  BY DEF TypeOK, Registered, Range, IsInjective, Own, Adding
<1>5. Cursor'
  BY DEF TypeOK, Mutex, Cursor, At, Walking
<1>6. Unlinked'
  BY DEF TypeOK, Mutex, Unlinked
<1>7. Own'
  BY DEF TypeOK, Mutex, Own, Adding, Linked, LastOf, Spells, Changing, Registered, Range
<1>8. Fresh'
  BY DEF TypeOK, Mutex, Fresh, Own, Adding, Linked, LastOf, Spells, Changing, Registered, Range
<1>9. Calls'
  BY DEF TypeOK, Calls, Pending
<1> QED
  BY <1>1, <1>2, <1>3, <1>4, <1>5, <1>6, <1>7, <1>8, <1>9 DEF IInv

\* The step SendLock (list_multicast_one) keeps the invariant.
LEMMA SendLockKeeps ==
  ASSUME IInv, NEW t \in Thread, SendLock(t)
  PROVE  IInv'
<1> USE NullAssumption DEF IInv, SendLock, Goto, Missed, list, Pointer, Label, Critical
<1>1. TypeOK'
  BY DEF TypeOK
<1>2. Mutex'
  BY DEF TypeOK, Mutex
<1>3. Linked'
  BY DEF TypeOK, Mutex, Linked, Spells, LastOf, Changing
<1>4. Registered'
  BY DEF TypeOK, Registered, Range, IsInjective
<1>5. Cursor'
  <2> SUFFICES ASSUME NEW u \in Thread, Walking(u)'
               PROVE  \E i \in DOMAIN members' : At(u, i)'
    BY DEF Cursor
  <2>1. u = t
    BY DEF TypeOK, Mutex, Walking
  <2>2. first # NULL /\ members # <<>> /\ n'[t] = members[1]
    BY <2>1 DEF TypeOK, Walking, Linked, Spells
  <2>3. 1 \in DOMAIN members
    BY <2>2 DEF TypeOK
  <2>4. At(u, 1)'
    BY <2>1, <2>2, <2>3 DEF TypeOK, At
  <2> QED
    BY <2>3, <2>4
<1>6. Unlinked'
  BY DEF TypeOK, Mutex, Unlinked
<1>7. Own'
  BY DEF TypeOK, Own, Adding
<1>8. Fresh'
  BY DEF TypeOK, Fresh
<1>9. Calls'
  BY DEF TypeOK, Calls, Pending
<1> QED
  BY <1>1, <1>2, <1>3, <1>4, <1>5, <1>6, <1>7, <1>8, <1>9 DEF IInv

\* The step SendWalk (list_multicast_one) keeps the invariant.
LEMMA SendWalkKeeps ==
  ASSUME IInv, NEW t \in Thread, SendWalk(t)
  PROVE  IInv'
<1> USE NullAssumption DEF IInv, SendWalk, Goto, Missed, list, Pointer, Label, Critical
<1>1. TypeOK'
  <2>1. n[t] \in Client
    BY DEF TypeOK, Cursor, At, Walking
  <2> QED
    BY <2>1 DEF TypeOK
<1>2. Mutex'
  BY DEF TypeOK, Mutex
<1>3. Linked'
  BY DEF TypeOK, Mutex, Linked, Spells, LastOf, Changing
<1>4. Registered'
  BY DEF TypeOK, Registered, Range, IsInjective
<1>5. Cursor'
  <2> SUFFICES ASSUME NEW u \in Thread, Walking(u)'
               PROVE  \E i \in DOMAIN members' : At(u, i)'
    BY DEF Cursor
  <2>1. u = t /\ Walking(t) /\ next[n[t]] # NULL /\ pc' = pc
    BY DEF TypeOK, Mutex, Walking
  <2>2. PICK i \in DOMAIN members : At(t, i)
    BY <2>1 DEF Cursor
  <2>3. i + 1 \in DOMAIN members /\ n'[t] = members[i + 1]
    BY <2>1, <2>2 DEF TypeOK, Linked, Spells, At
  <2>4. At(u, i + 1)'
    BY <2>1, <2>2, <2>3 DEF TypeOK, At
  <2> QED
    BY <2>1, <2>3, <2>4
<1>6. Unlinked'
  BY DEF TypeOK, Mutex, Unlinked
<1>7. Own'
  BY DEF TypeOK, Own, Adding
<1>8. Fresh'
  BY DEF TypeOK, Fresh
<1>9. Calls'
  BY DEF TypeOK, Calls, Pending
<1> QED
  BY <1>1, <1>2, <1>3, <1>4, <1>5, <1>6, <1>7, <1>8, <1>9 DEF IInv

\* The step SendHit (list_multicast_one) keeps the invariant.
LEMMA SendHitKeeps ==
  ASSUME IInv, NEW t \in Thread, SendHit(t)
  PROVE  IInv'
<1> USE NullAssumption DEF IInv, SendHit, Goto, Found, list, local, Pointer, Label, Critical
<1>1. TypeOK'
  BY DEF TypeOK
<1>2. Mutex'
  BY DEF TypeOK, Mutex
<1>3. Linked'
  BY DEF TypeOK, Mutex, Linked, Spells, LastOf, Changing
<1>4. Registered'
  BY DEF TypeOK, Registered, Range, IsInjective
<1>5. Cursor'
  BY DEF TypeOK, Mutex, Cursor, At, Walking
<1>6. Unlinked'
  BY DEF TypeOK, Mutex, Unlinked
<1>7. Own'
  BY DEF TypeOK, Own, Adding
<1>8. Fresh'
  BY DEF TypeOK, Fresh
<1>9. Calls'
  BY DEF TypeOK, Calls, Pending
<1> QED
  BY <1>1, <1>2, <1>3, <1>4, <1>5, <1>6, <1>7, <1>8, <1>9 DEF IInv

\* The step RemoveLock (list_remove) keeps the invariant.
LEMMA RemoveLockKeeps ==
  ASSUME IInv, NEW t \in Thread, RemoveLock(t)
  PROVE  IInv'
<1> USE NullAssumption DEF IInv, RemoveLock, Goto, Missed, list, Pointer, Label, Critical
<1>1. TypeOK'
  BY DEF TypeOK
<1>2. Mutex'
  BY DEF TypeOK, Mutex
<1>3. Linked'
  BY DEF TypeOK, Mutex, Linked, Spells, LastOf, Changing
<1>4. Registered'
  BY DEF TypeOK, Registered, Range, IsInjective
<1>5. Cursor'
  <2> SUFFICES ASSUME NEW u \in Thread, Walking(u)'
               PROVE  \E i \in DOMAIN members' : At(u, i)'
    BY DEF Cursor
  <2>1. u = t
    BY DEF TypeOK, Mutex, Walking
  <2>2. first # NULL /\ members # <<>> /\ n'[t] = members[1]
    BY <2>1 DEF TypeOK, Walking, Linked, Spells
  <2>3. 1 \in DOMAIN members
    BY <2>2 DEF TypeOK
  <2>4. At(u, 1)'
    BY <2>1, <2>2, <2>3 DEF TypeOK, At
  <2> QED
    BY <2>3, <2>4
<1>6. Unlinked'
  BY DEF TypeOK, Mutex, Unlinked
<1>7. Own'
  BY DEF TypeOK, Own, Adding
<1>8. Fresh'
  BY DEF TypeOK, Fresh
<1>9. Calls'
  BY DEF TypeOK, Calls, Pending
<1> QED
  BY <1>1, <1>2, <1>3, <1>4, <1>5, <1>6, <1>7, <1>8, <1>9 DEF IInv

\* The step RemoveWalk (list_remove) keeps the invariant.
LEMMA RemoveWalkKeeps ==
  ASSUME IInv, NEW t \in Thread, RemoveWalk(t)
  PROVE  IInv'
<1> USE NullAssumption DEF IInv, RemoveWalk, Goto, Missed, list, Pointer, Label, Critical
<1>1. TypeOK'
  <2>1. n[t] \in Client
    BY DEF TypeOK, Cursor, At, Walking
  <2> QED
    BY <2>1 DEF TypeOK
<1>2. Mutex'
  BY DEF TypeOK, Mutex
<1>3. Linked'
  BY DEF TypeOK, Mutex, Linked, Spells, LastOf, Changing
<1>4. Registered'
  BY DEF TypeOK, Registered, Range, IsInjective
<1>5. Cursor'
  <2> SUFFICES ASSUME NEW u \in Thread, Walking(u)'
               PROVE  \E i \in DOMAIN members' : At(u, i)'
    BY DEF Cursor
  <2>1. u = t /\ Walking(t) /\ next[n[t]] # NULL /\ pc' = pc
    BY DEF TypeOK, Mutex, Walking
  <2>2. PICK i \in DOMAIN members : At(t, i)
    BY <2>1 DEF Cursor
  <2>3. i + 1 \in DOMAIN members /\ n'[t] = members[i + 1]
    BY <2>1, <2>2 DEF TypeOK, Linked, Spells, At
  <2>4. At(u, i + 1)'
    BY <2>1, <2>2, <2>3 DEF TypeOK, At
  <2> QED
    BY <2>1, <2>3, <2>4
<1>6. Unlinked'
  BY DEF TypeOK, Mutex, Unlinked
<1>7. Own'
  BY DEF TypeOK, Own, Adding
<1>8. Fresh'
  BY DEF TypeOK, Fresh
<1>9. Calls'
  BY DEF TypeOK, Calls, Pending
<1> QED
  BY <1>1, <1>2, <1>3, <1>4, <1>5, <1>6, <1>7, <1>8, <1>9 DEF IInv

\* The step RemoveUnlink (list_remove) keeps the invariant.
LEMMA RemoveUnlinkKeeps ==
  ASSUME IInv, NEW t \in Thread, RemoveUnlink(t)
  PROVE  IInv'
<1> USE NullAssumption DEF IInv, RemoveUnlink, Goto, Found, local, Pointer, Label, Critical
<1>1. PICK i \in DOMAIN members : At(t, i) /\ n[t] = members[i]
  BY DEF Cursor, Walking, At
<1>2. lock = t /\ pc[t] = "removeWalk" /\ \A u \in Thread \ {t} : pc[u] \notin Critical
  BY DEF TypeOK, Mutex
<1>3. \A j \in DOMAIN members : members[j] = n[t] => j = i
  BY <1>1 DEF Registered, IsInjective, TypeOK
<1>4. members' = RemoveAt(members, i)
  BY <1>3
<1>5. /\ i \in 1..Len(members) /\ Len(members) \in Nat
      /\ n[t] \in Client /\ next[n[t]] \in Pointer
  BY <1>1 DEF TypeOK
<1>6. /\ members' \in Seq(Client)
      /\ Len(members') = Len(members) - 1
      /\ DOMAIN members' = 1..(Len(members) - 1)
      /\ \A j \in 1..(Len(members) - 1) :
           members'[j] = IF j < i THEN members[j] ELSE members[j + 1]
  <2>1. members \in Seq(Client)
    BY DEF TypeOK
  <2>2. /\ RemoveAt(members, i) \in Seq(Client)
        /\ Len(RemoveAt(members, i)) = Len(members) - 1
        /\ \A j \in 1..(Len(members) - 1) :
             RemoveAt(members, i)[j] = IF j < i THEN members[j] ELSE members[j + 1]
    BY <2>1, RemoveAtElements
  <2>3. DOMAIN RemoveAt(members, i) = 1..(Len(members) - 1)
    BY <2>2
  <2> QED
    BY <2>2, <2>3, <1>4
<1>7. \A j \in DOMAIN members' : \E k \in DOMAIN members : k # i /\ members'[j] = members[k]
  BY <1>5, <1>6
<1>8. TypeOK'
  BY <1>1, <1>5, <1>6 DEF TypeOK
<1>9. Mutex'
  BY DEF TypeOK, Mutex
<1>10. Linked'
  <2>1. n[t] = first <=> i = 1
    BY <1>1, <1>3, <1>5 DEF Linked, Spells
  <2>2. n[t] = last <=> i = Len(members)
    BY <1>1, <1>2, <1>3, <1>5 DEF Linked, LastOf, Changing, TypeOK, Critical
  <2>3. i > 1 => p[t] = members[i - 1]
    BY <1>1, <1>2 DEF At
  <2>4. Spells(members)'
    <3>1. next[n[t]] = IF i = Len(members) THEN NULL ELSE members[i + 1]
      BY <1>1, <1>5 DEF Linked, Spells
    <3>2. CASE i = 1
      <4>1. next' = next /\ first' = next[n[t]]
        BY <2>1, <3>2
      <4>2. \A j \in 1..(Len(members) - 1) : members'[j] = members[j + 1]
        BY <3>2, <1>6
      <4>3. \A j \in 1..Len(members) :
              next[members[j]] = IF j = Len(members) THEN NULL ELSE members[j + 1]
        BY <1>5 DEF Linked, Spells
      <4>4. \A j \in 1..(Len(members) - 1) :
              next'[members'[j]] = IF j = Len(members') THEN NULL ELSE members'[j + 1]
        <5> TAKE j \in 1..(Len(members) - 1)
        <5>1. next'[members'[j]] = next[members[j + 1]]
          BY <4>1, <4>2
        <5>2. j + 1 \in 1..Len(members)
          BY <1>5
        <5>3. next[members[j + 1]] = IF j + 1 = Len(members) THEN NULL ELSE members[(j + 1) + 1]
          BY <4>3, <5>2
        <5>4. j # Len(members) - 1 => members'[j + 1] = members[(j + 1) + 1]
          BY <4>2, <1>5
        <5> QED
          BY <5>1, <5>3, <5>4, <1>5, <1>6
      <4>5. first' = IF members' = <<>> THEN NULL ELSE members'[1]
        <5>1. CASE Len(members) = 1
          BY <3>1, <3>2, <4>1, <5>1, <1>6
        <5>2. CASE Len(members) # 1
          <6>1. 1 \in 1..(Len(members) - 1)
            <7>1. \A k \in Nat : 1 \in 1..k /\ k # 1 => 1 \in 1..(k - 1)
              OBVIOUS
            <7> QED
              BY <7>1, <5>2, <1>5, <3>2
          <6>2. members' # <<>>
            BY <6>1, <1>6
          <6>3. members'[1] = members[2]
            BY <6>1, <4>2
          <6>4. first' = members[2]
            BY <3>1, <3>2, <4>1, <5>2
          <6> QED
            BY <6>2, <6>3, <6>4
        <5> QED
          BY <5>1, <5>2
      <4> QED
        BY <4>4, <4>5, <1>6 DEF Spells
    <3>3. CASE i # 1
      <4>1. next' = [next EXCEPT ![members[i - 1]] = next[n[t]]] /\ first' = first
        BY <2>1, <2>3, <3>3, <1>5
      <4>2. \A j \in 1..Len(members) : members[j] = members[i - 1] => j = i - 1
        BY <3>3, <1>5 DEF Registered, IsInjective, TypeOK
      <4>3. \A j \in DOMAIN members' :
              next'[members'[j]] = IF j = Len(members') THEN NULL ELSE members'[j + 1]
        <5>1. \A k \in 1..Len(members) :
                next[members[k]] = IF k = Len(members) THEN NULL ELSE members[k + 1]
          BY <1>5 DEF Linked, Spells
        <5>2. next \in [Client -> Pointer] /\ \A k \in 1..Len(members) : members[k] \in Client
          BY <1>5 DEF TypeOK
        <5>3. \A k \in 1..Len(members) :
                next'[members[k]] = IF k = i - 1 THEN next[n[t]] ELSE next[members[k]]
          BY <4>1, <4>2, <5>2, <3>3, <1>5
        <5> SUFFICES ASSUME NEW j \in 1..(Len(members) - 1)
                     PROVE  next'[members'[j]] =
                              IF j = Len(members) - 1 THEN NULL ELSE members'[j + 1]
          BY <1>6
        <5>4. CASE j < i - 1
          <6>1. members'[j] = members[j] /\ members'[j + 1] = members[j + 1]
            BY <5>4, <1>5, <1>6
          <6>2. j \in 1..Len(members) /\ j # Len(members) /\ j # Len(members) - 1
            BY <5>4, <1>5
          <6>3. next'[members[j]] = next[members[j]]
            BY <5>3, <5>4, <6>2, <1>5
          <6> QED
            BY <6>1, <6>2, <6>3, <5>1
        <5>5. CASE j = i - 1
          BY <5>3, <5>5, <3>1, <3>3, <1>5, <1>6
        <5>6. CASE j > i - 1
          BY <5>1, <5>3, <5>6, <1>5, <1>6
        <5> QED
          BY <5>4, <5>5, <5>6, <1>5
      <4>4. first' = IF members' = <<>> THEN NULL ELSE members'[1]
        BY <3>3, <4>1, <1>5, <1>6 DEF Linked, Spells, TypeOK
      <4> QED
        BY <4>3, <4>4 DEF Spells
    <3> QED
      BY <3>2, <3>3
  <2>5. members' # <<>> => last' = LastOf(members)'
    <3>1. last = members[Len(members)]
      BY <1>2, <1>5 DEF Linked, LastOf, Changing, TypeOK, Critical
    <3> QED
      BY <2>2, <2>3, <3>1, <1>5, <1>6 DEF LastOf
  <2>6. (\E u \in Thread : pc'[u] = "free") /\ ~(\E u \in Thread : pc[u] = "free")
    BY <1>2 DEF TypeOK
  <2>7. len' = Len(members') + (IF \E u \in Thread : pc'[u] = "free" THEN 1 ELSE 0)
    BY <2>6, <1>5, <1>6 DEF Linked
  <2>8. Changing'
    BY <2>6 DEF Changing
  <2> QED
    BY <2>4, <2>5, <2>7, <2>8 DEF Linked
<1>11. Registered'
  <2>1. \A j, k \in DOMAIN members' : members'[j] = members'[k] => j = k
    <3>1. \A j, k \in 1..Len(members) : members[j] = members[k] => j = k
      BY <1>5 DEF Registered, IsInjective
    <3> DEFINE from(j) == IF j < i THEN j ELSE j + 1
    <3>2. \A j \in 1..(Len(members) - 1) :
            from(j) \in 1..Len(members) /\ members'[j] = members[from(j)]
      BY <1>5, <1>6
    <3> SUFFICES ASSUME NEW j \in 1..(Len(members) - 1), NEW k \in 1..(Len(members) - 1),
                        members'[j] = members'[k]
                 PROVE  j = k
      BY <1>6
    <3>3. from(j) = from(k)
      BY <3>1, <3>2
    <3> QED
      BY <3>3, <1>5
  <2>2. \A j \in DOMAIN members' : members'[j] \in heap \ fresh
    BY <1>7 DEF Registered, Range
  <2> QED
    BY <2>1, <2>2 DEF Registered, IsInjective, Range
<1>12. Cursor'
  BY <1>2 DEF TypeOK, Cursor, Walking
<1>13. Unlinked'
  <2>1. n[t] \in heap \ fresh
    BY <1>1 DEF Registered, Range
  <2>2. \A j \in DOMAIN members' : members'[j] # n[t]
    BY <1>3, <1>7
  <2>3. \A u \in Thread : pc'[u] = "free" => u = t
    BY <1>2 DEF TypeOK
  <2> QED
    BY <2>1, <2>2, <2>3 DEF Unlinked
<1>14. Own'
  <2> SUFFICES ASSUME NEW u \in Thread, Adding(u)'
               PROVE  /\ arg[u] \in heap \ fresh
                      /\ next'[arg[u]] = NULL
                      /\ \A j \in DOMAIN members' : members'[j] # arg[u]
                      /\ \A v \in Thread \ {u} : Adding(v)' => arg[v] # arg[u]
                      /\ \A v \in Thread : pc'[v] = "free" => n[v] # arg[u]
    BY DEF Own
  <2>1. /\ \A v \in Thread : Adding(v)' => Adding(v)
        /\ \A v \in Thread : pc'[v] = "free" => v = t
    BY <1>2 DEF TypeOK, Adding
  <2>2. /\ arg[u] \in heap \ fresh
        /\ next[arg[u]] = NULL
        /\ \A j \in DOMAIN members : members[j] # arg[u]
        /\ \A v \in Thread \ {u} : Adding(v) => arg[v] # arg[u]
    BY <2>1 DEF Own
  <2>3. n[t] # first => p[t] = members[i - 1] /\ i - 1 \in DOMAIN members
    BY <1>1, <1>2, <1>5 DEF At, Linked, Spells
  <2>4. next'[arg[u]] = next[arg[u]]
    BY <2>2, <2>3 DEF TypeOK
  <2> QED
    BY <2>1, <2>2, <2>4, <1>1, <1>7
<1>15. Fresh'
  <2>1. n[t] # first => p[t] = members[i - 1] /\ i - 1 \in DOMAIN members
    BY <1>1, <1>2, <1>5 DEF At, Linked, Spells
  <2> QED
    BY <2>1 DEF Fresh, Registered, Range, TypeOK
<1>16. Calls'
  BY DEF TypeOK, Calls, Pending
<1> QED
  BY <1>8, <1>9, <1>10, <1>11, <1>12, <1>13, <1>14, <1>15, <1>16

\* The step RemoveFree (list_remove) keeps the invariant.
LEMMA RemoveFreeKeeps ==
  ASSUME IInv, NEW t \in Thread, RemoveFree(t)
  PROVE  IInv'
<1> USE NullAssumption DEF IInv, RemoveFree, Goto, local, Pointer, Label, Critical
<1>1. TypeOK'
  <2>1. len = Len(members) + 1 /\ Len(members) \in Nat
    BY DEF Linked, TypeOK
  <2>2. len' \in Nat
    BY <2>1
  <2> QED
    BY <2>2 DEF TypeOK
<1>2. Mutex'
  BY DEF TypeOK, Mutex
<1>3. Linked'
  BY DEF TypeOK, Mutex, Linked, Spells, LastOf, Changing
<1>4. Registered'
  BY DEF TypeOK, Registered, Range, IsInjective, Unlinked
<1>5. Cursor'
  BY DEF TypeOK, Mutex, Cursor, At, Walking
<1>6. Unlinked'
  BY DEF TypeOK, Mutex, Unlinked
<1>7. Own'
  BY DEF TypeOK, Own, Adding
<1>8. Fresh'
  BY DEF TypeOK, Fresh, Unlinked
<1>9. Calls'
  BY DEF TypeOK, Calls, Pending
<1> QED
  BY <1>1, <1>2, <1>3, <1>4, <1>5, <1>6, <1>7, <1>8, <1>9 DEF IInv

\* The step RemoveFix (list_remove) keeps the invariant.
LEMMA RemoveFixKeeps ==
  ASSUME IInv, NEW t \in Thread, RemoveFix(t)
  PROVE  IInv'
<1> USE NullAssumption DEF IInv, RemoveFix, Goto, local, Pointer, Label, Critical
<1>1. TypeOK'
  BY DEF TypeOK
<1>2. Mutex'
  BY DEF TypeOK, Mutex
<1>3. Linked'
  BY DEF TypeOK, Mutex, Linked, Spells, LastOf, Changing
<1>4. Registered'
  BY DEF TypeOK, Registered, Range, IsInjective
<1>5. Cursor'
  BY DEF TypeOK, Mutex, Cursor, At, Walking
<1>6. Unlinked'
  BY DEF TypeOK, Mutex, Unlinked
<1>7. Own'
  BY DEF TypeOK, Own, Adding
<1>8. Fresh'
  BY DEF TypeOK, Fresh
<1>9. Calls'
  BY DEF TypeOK, Calls, Pending
<1> QED
  BY <1>1, <1>2, <1>3, <1>4, <1>5, <1>6, <1>7, <1>8, <1>9 DEF IInv

-----------------------------------------------------------------------------
(* Theorems *)

\* The initial states satisfy the invariant.
LEMMA InitHolds == Init => IInv
BY NullAssumption
   DEF Init, IInv, TypeOK, Mutex, Linked, Registered, Cursor, Unlinked, Own, Fresh, Calls,
       Walking, Adding, Pending, Spells, LastOf, Changing, Pointer, Label, Critical, Range,
       IsInjective

\* Every step keeps the invariant.
LEMMA NextKeeps == IInv /\ [Next]_vars => IInv'
<1> SUFFICES ASSUME IInv, [Next]_vars
             PROVE  IInv'
  OBVIOUS
<1>1. CASE UNCHANGED vars
  BY <1>1 DEF vars, list, local, IInv, TypeOK, Mutex, Linked, Registered, Cursor, At, Unlinked,
       Own, Fresh, Calls, Walking, Adding, Pending, Spells, LastOf, Changing
<1>2. ASSUME NEW c \in Client, ClientNew(c)
      PROVE  IInv'
  BY <1>2, ClientNewKeeps
<1>3. ASSUME NEW t \in Thread, NEW c \in Client, NEW op \in {"add", "send", "remove"},
             Call(t, c, op)
      PROVE  IInv'
  BY <1>3, CallKeeps
<1>4. ASSUME NEW t \in Thread, Step(t)
      PROVE  IInv'
  BY <1>4, UnlockKeeps, AddLockKeeps, AddLinkKeeps, SendLockKeeps, SendWalkKeeps, SendHitKeeps,
     RemoveLockKeeps, RemoveWalkKeeps, RemoveUnlinkKeeps, RemoveFreeKeeps, RemoveFixKeeps
     DEF Step
<1> QED
  BY <1>1, <1>2, <1>3, <1>4 DEF Next

\* The invariant holds in every state of every run.
THEOREM InvariantHolds == Spec => []IInv
<1>1. IInv /\ [Next]_vars => IInv'
  BY NextKeeps
<1> QED
  BY InitHolds, <1>1, PTL DEF Spec

\* Every variable keeps its type; `first`, `last` and `next` never leave the
\* addresses and the null pointer.
THEOREM TypeCorrect == Spec => []TypeOK
<1>1. IInv => TypeOK
  BY DEF IInv
<1> QED
  BY <1>1, InvariantHolds, PTL

\* list_add and list_remove leave first, next, last and len in agreement.
THEOREM ListWellFormed == Spec => []WellFormed
<1>1. IInv => WellFormed
  BY DEF IInv, Linked, WellFormed, Changing
<1> QED
  BY <1>1, InvariantHolds, PTL

\* No walk of list_remove or list_multicast_one is ever on a freed node.
THEOREM WalksAreSafe == Spec => []NoDanglingWalk
<1>1. IInv => NoDanglingWalk
  BY DEF IInv, NoDanglingWalk, Cursor, At, Walking, Unlinked, Registered, Range
<1> QED
  BY <1>1, InvariantHolds, PTL

\* A linked client is allocated, and linked once.
THEOREM MembersRegistered == Spec => []Registered
<1>1. IInv => Registered
  BY DEF IInv
<1> QED
  BY <1>1, InvariantHolds, PTL

-----------------------------------------------------------------------------
(* Refinement: every call acts on the list in one step *)

\* A walk that has reached the end of the chain has seen every member.
LEMMA EndOfWalk ==
  ASSUME IInv, NEW t \in Thread, Walking(t), n[t] # arg[t], next[n[t]] = NULL
  PROVE  arg[t] \notin Range(members)
<1>1. PICK i \in DOMAIN members : At(t, i)
  BY DEF IInv, Cursor
<1>2. i = Len(members)
  <2>1. members[i] = n[t] /\ members \in Seq(Client) /\ i \in 1 .. Len(members)
    BY <1>1 DEF At, IInv, TypeOK
  <2>2. next[n[t]] = IF i = Len(members) THEN NULL ELSE members[i + 1]
    BY <1>1, <2>1 DEF IInv, Linked, Spells
  <2>3. i # Len(members) => members[i + 1] \in Client
    BY <2>1
  <2> QED
    BY <2>2, <2>3, NullAssumption
<1>3. \A j \in DOMAIN members : members[j] # arg[t]
  BY <1>1, <1>2 DEF At, IInv, TypeOK
<1> QED
  BY <1>3 DEF Range

\* A list whose first node is the null pointer has no members.
LEMMA EmptyList == IInv /\ first = NULL => Range(members) = {}
BY NullAssumption DEF IInv, TypeOK, Linked, Spells, Range

\* A step of the list is a step of the registry or leaves it unchanged.
LEMMA StepRefines ==
  ASSUME IInv, [Next]_vars
  PROVE  [Registry!Next]_(Registry!vars)
<1> USE DEF Registry!vars, Registry!Next
<1>1. CASE UNCHANGED vars
  BY <1>1 DEF vars, local
<1>2. ASSUME NEW c \in Client, ClientNew(c)
      PROVE  UNCHANGED Registry!vars
  BY <1>2 DEF ClientNew, local
<1>3. ASSUME NEW t \in Thread, NEW c \in Client, NEW op \in {"add", "send", "remove"},
             Call(t, c, op)
      PROVE  Registry!Call(t, c)
  BY <1>3 DEF Call, Registry!Call
<1>4. ASSUME NEW t \in Thread, Step(t)
      PROVE  [Registry!Next]_(Registry!vars)
  <2>1. CASE \/ Unlock(t) \/ AddLock(t) \/ RemoveFree(t) \/ RemoveFix(t)
    BY <2>1 DEF Unlock, AddLock, RemoveFree, RemoveFix, local
  <2>2. CASE AddLink(t)
    <3>1. effect[t] = "none" /\ arg[t] \notin Range(members)
      BY <2>2 DEF AddLink, IInv, Calls, Pending, Own, Adding, Range
    <3>2. Registry!Join(t)
      BY <2>2, <3>1 DEF AddLink, Registry!Join, Range, Registry!Range, local, Found
    <3> QED
      BY <3>2
  <2>3. CASE SendLock(t) \/ RemoveLock(t)
    <3>1. effect[t] = "none"
      BY <2>3 DEF SendLock, RemoveLock, IInv, Calls, Pending
    <3>2. CASE first = NULL
      <4>1. arg[t] \notin Range(members)
        BY <3>2, EmptyList
      <4>2. Registry!Miss(t)
        BY <2>3, <3>1, <3>2, <4>1 DEF SendLock, RemoveLock, Registry!Miss, Range, Registry!Range, Missed
      <4> QED
        BY <4>2
    <3>3. CASE first # NULL
      BY <2>3, <3>3 DEF SendLock, RemoveLock
    <3> QED
      BY <3>2, <3>3
  <2>4. CASE SendWalk(t) \/ RemoveWalk(t)
    <3>1. effect[t] = "none" /\ Walking(t) /\ n[t] # arg[t]
      BY <2>4 DEF SendWalk, RemoveWalk, IInv, Calls, Pending, Walking
    <3>2. CASE next[n[t]] = NULL
      <4>1. arg[t] \notin Range(members)
        BY <3>1, <3>2, EndOfWalk
      <4>2. Registry!Miss(t)
        BY <2>4, <3>1, <3>2, <4>1 DEF SendWalk, RemoveWalk, Registry!Miss, Range, Registry!Range, Missed
      <4> QED
        BY <4>2
    <3>3. CASE next[n[t]] # NULL
      BY <2>4, <3>3 DEF SendWalk, RemoveWalk
    <3> QED
      BY <3>2, <3>3
  <2>5. CASE SendHit(t)
    <3>1. effect[t] = "none" /\ arg[t] \in Range(members)
      BY <2>5 DEF SendHit, IInv, Calls, Pending, Cursor, At, Walking, Range
    <3>2. Registry!Deliver(t)
      BY <2>5, <3>1 DEF SendHit, Registry!Deliver, Range, Registry!Range, Found, local
    <3> QED
      BY <3>2
  <2>6. CASE RemoveUnlink(t)
    <3>1. effect[t] = "none"
      BY <2>6 DEF RemoveUnlink, IInv, Calls, Pending
    <3>2. Registry!Leave(t)
      BY <2>6, <3>1 DEF RemoveUnlink, Registry!Leave, RemoveAt, Registry!RemoveAt, Found, local
    <3> QED
      BY <3>2
  <2> QED
    BY <1>4, <2>1, <2>2, <2>3, <2>4, <2>5, <2>6 DEF Step
<1> QED
  BY <1>1, <1>2, <1>3, <1>4 DEF Next

\* The pointer walks under the mutex implement the registry: a send reaches its
\* client exactly when it is in the list, a removal takes out that client only.
THEOREM ImplementsRegistry == Spec => RefinesRegistry
<1>1. Init => Registry!Init
  BY DEF Init, Registry!Init
<1>2. IInv /\ [Next]_vars => [Registry!Next]_(Registry!vars)
  BY StepRefines
<1> QED
  BY <1>1, <1>2, InvariantHolds, PTL DEF Spec, Registry!Spec, RefinesRegistry

-----------------------------------------------------------------------------
(***************************************************************************)
(* The shutdown.  list_free closes every client of the list once,          *)
(* whichever thread the signal interrupts, for any number of threads and   *)
(* of addresses.  Up to the moment list_free has the mutex the invariant   *)
(* of the list holds; from then on the threads may still allocate clients, *)
(* at addresses just freed, but no call gets in.                           *)
(***************************************************************************)

\* Nobody else is inside a call that has the mutex.
Outside == \A t \in Thread : pc[t] \notin Critical

\* What the handler and the waiting threads hold, from FreeLock to FreeUnlock.
Kinds == /\ next \in [Client -> Pointer] /\ pc \in [Thread -> Label]
         /\ arg \in [Thread -> Pointer]
         /\ heap \subseteq Client /\ fresh \subseteq heap
         /\ members \in Seq(Client) /\ IsInjective(members)

\* The walk of list_free at the k-th client: those before it are closed, the chain
\* from there on is as it was.
Freeing(k) == /\ hn = IF k > Len(members) THEN NULL ELSE members[k]
              /\ closed = {members[j] : j \in 1 .. (k - 1)}
              /\ \A j \in k .. Len(members) :
                   /\ members[j] \in heap \ fresh
                   /\ next[members[j]] = IF j = Len(members) THEN NULL ELSE members[j + 1]

ShInv == /\ hpc \in {"none", "lock", "free", "exit", "exited"}
         /\ hpc \in {"none", "lock"} => IInv /\ closed = {}
         /\ hpc = "free" => /\ lock = Main /\ Kinds /\ Outside
                            /\ present = Range(members)
                            /\ \E k \in 1 .. (Len(members) + 1) : Freeing(k)
         /\ hpc \in {"exit", "exited"} => Outside /\ closed = present

-----------------------------------------------------------------------------
\* Before list_free has the mutex the threads keep the invariant of the list.
LEMMA OthersBefore ==
  ASSUME ShInv, hpc \in {"none", "lock"}, Others
  PROVE  ShInv'
<1>1. Next
  BY DEF Others, Next
<1>2. IInv'
  BY <1>1, NextKeeps DEF ShInv
<1> QED
  BY <1>2 DEF ShInv, Others, handler

\* list_free gets the mutex when no thread is in the critical section.
LEMMA FreeLockKeeps ==
  ASSUME ShInv, FreeLock
  PROVE  ShInv'
<1>1. IInv /\ closed = {} /\ hpc' = "free" /\ lock' = Main /\ lock = NULL
  BY DEF ShInv, FreeLock
<1>2. Kinds'
  BY <1>1 DEF FreeLock, list, local, Kinds, IInv, TypeOK, Registered, Fresh
<1>3. Outside /\ Outside'
  BY <1>1, NullAssumption DEF FreeLock, Outside, IInv, Mutex
<1>4. present' = Range(members')
  BY DEF FreeLock
<1>5. 1 \in 1 .. (Len(members') + 1)
  BY <1>1 DEF FreeLock, IInv, TypeOK
<1>6. Freeing(1)'
  <2>1. members' = members /\ members \in Seq(Client) /\ hn' = first /\ next' = next
        /\ heap' = heap /\ fresh' = fresh /\ closed' = closed
    BY <1>1 DEF FreeLock, list, IInv, TypeOK
  <2>2. hn' = IF 1 > Len(members') THEN NULL ELSE members'[1]
    BY <1>1, <2>1 DEF IInv, Linked, Spells
  <2>3. closed' = {members'[j] : j \in 1 .. (1 - 1)}
    BY <1>1, <2>1
  <2>4. ASSUME NEW j \in 1 .. Len(members')
        PROVE  /\ members'[j] \in heap' \ fresh'
               /\ next'[members'[j]] = IF j = Len(members') THEN NULL ELSE members'[j + 1]
    BY <1>1, <2>1 DEF IInv, Linked, Spells, Registered, Range
  <2> QED
    BY <2>2, <2>3, <2>4 DEF Freeing
<1> QED
  BY <1>1, <1>2, <1>3, <1>4, <1>5, <1>6 DEF ShInv

\* Two elements of the list at different places are different clients.
LEMMA Distinct ==
  ASSUME Kinds, NEW j \in DOMAIN members, NEW k \in DOMAIN members, j # k
  PROVE  members[j] # members[k]
BY DEF Kinds, IsInjective

\* One client freed: its successor was read before, and nobody else's changes.
LEMMA FreeNodeKeeps ==
  ASSUME ShInv, FreeNode
  PROVE  ShInv'
<1>1. /\ lock = Main /\ Kinds /\ Outside /\ present = Range(members)
      /\ hpc = "free" /\ hpc' = "free"
  BY DEF ShInv, FreeNode
<1>2. PICK k \in 1 .. (Len(members) + 1) : Freeing(k)
  BY DEF ShInv, FreeNode
<1>3. UNCHANGED <<next, members, fresh, pc, arg, lock, present>>
  BY DEF FreeNode, list, local
<1>4. Len(members) \in Nat /\ k \in 1 .. Len(members) /\ hn = members[k]
  <2>1. Len(members) \in Nat
    BY <1>1 DEF Kinds
  <2> QED
    BY <1>2, <2>1 DEF Freeing, FreeNode
<1>5. members[k] \in heap \ fresh /\ k \in DOMAIN members /\ DOMAIN members = 1 .. Len(members)
  BY <1>1, <1>2, <1>4 DEF Freeing, Kinds
<1>6. Kinds' /\ Outside'
  BY <1>1, <1>3, <1>4, <1>5 DEF Kinds, Outside, FreeNode
<1>7. Freeing(k + 1)'
  <2>1. hn' = IF k + 1 > Len(members) THEN NULL ELSE members[k + 1]
    BY <1>2, <1>4 DEF Freeing, FreeNode
  <2>2. closed' = {members[j] : j \in 1 .. ((k + 1) - 1)}
    BY <1>2, <1>4 DEF Freeing, FreeNode
  <2>3. ASSUME NEW j \in (k + 1) .. Len(members)
        PROVE  /\ members[j] \in heap' \ fresh
               /\ next[members[j]] = IF j = Len(members) THEN NULL ELSE members[j + 1]
    <3>1. j \in k .. Len(members) /\ j \in DOMAIN members /\ j # k
      BY <1>4, <1>5
    <3>2. members[j] # hn
      BY <1>1, <1>4, <1>5, <3>1, Distinct
    <3> QED
      BY <1>2, <3>1, <3>2 DEF Freeing, FreeNode
  <2> QED
    BY <1>3, <2>1, <2>2, <2>3 DEF Freeing
<1>8. k + 1 \in 1 .. (Len(members') + 1)
  BY <1>3, <1>4
<1> QED
  BY <1>1, <1>3, <1>6, <1>7, <1>8 DEF ShInv

\* At the end of the chain every client is closed.
LEMMA FreeUnlockKeeps ==
  ASSUME ShInv, FreeUnlock
  PROVE  ShInv'
<1>1. Kinds /\ Outside /\ present = Range(members) /\ hpc' = "exit"
  BY DEF ShInv, FreeUnlock
<1>2. PICK k \in 1 .. (Len(members) + 1) : Freeing(k)
  BY DEF ShInv, FreeUnlock
<1>3. Len(members) \in Nat /\ DOMAIN members = 1 .. Len(members)
      /\ \A j \in 1 .. Len(members) : members[j] # NULL
  BY <1>1, NullAssumption DEF Kinds
<1>4. k = Len(members) + 1
  <2>1. hn = NULL
    BY DEF FreeUnlock
  <2>2. hn = IF k > Len(members) THEN NULL ELSE members[k]
    BY <1>2 DEF Freeing
  <2>3. k \in 1 .. Len(members) => members[k] # NULL
    BY <1>3
  <2> QED
    BY <1>3, <2>1, <2>2, <2>3
<1>5. closed = {members[j] : j \in 1 .. Len(members)}
  <2>1. closed = {members[j] : j \in 1 .. (k - 1)}
    BY <1>2 DEF Freeing
  <2>2. k - 1 = Len(members)
    BY <1>3, <1>4
  <2> QED
    BY <2>1, <2>2
<1>6. closed' = present'
  BY <1>1, <1>3, <1>5 DEF Range, FreeUnlock
<1>7. Outside'
  BY <1>1 DEF Outside, FreeUnlock
<1> QED
  BY <1>1, <1>6, <1>7 DEF ShInv

\* While list_free has the mutex a thread can only allocate a client or come to
\* wait for the mutex.
LEMMA OthersWait ==
  ASSUME ShInv, hpc = "free", Others
  PROVE  \/ \E c \in Client : ClientNew(c)
         \/ \E t \in Thread, c \in Client, op \in {"add", "send", "remove"} : Call(t, c, op)
<1>1. lock # NULL /\ Outside
  BY ShutdownAssumption DEF ShInv
<1>2. ASSUME NEW t \in Thread, Step(t) PROVE FALSE
  BY <1>1, <1>2 DEF Step, Outside, Critical, AddLock, AddLink, SendLock, SendWalk, SendHit,
     RemoveLock, RemoveWalk, RemoveUnlink, RemoveFree, RemoveFix, Unlock
<1> QED
  BY <1>2 DEF Others

\* A client allocated meanwhile may have the address of a freed one, but never that
\* of one still to be freed; a thread that comes to wait changes no pointer.
LEMMA OthersDuring ==
  ASSUME ShInv, hpc = "free", Others
  PROVE  ShInv'
<1>1. lock = Main /\ Kinds /\ Outside /\ present = Range(members) /\ UNCHANGED handler
  BY DEF ShInv, Others
<1>2. PICK k \in 1 .. (Len(members) + 1) : Freeing(k)
  BY DEF ShInv
<1>3. members \in Seq(Client)
  BY <1>1 DEF Kinds
<1>4. ASSUME NEW c \in Client, ClientNew(c)
      PROVE  ShInv'
  <2>1. UNCHANGED <<members, pc, arg, lock>>
    BY <1>4 DEF ClientNew, local
  <2>2. Kinds' /\ Outside'
    BY <1>1, <1>4, <2>1 DEF ClientNew, Kinds, Outside, Pointer
  <2>3. Freeing(k)'
    <3>1. ASSUME NEW j \in k .. Len(members)
          PROVE  /\ members[j] \in heap' \ fresh'
                 /\ next'[members[j]] = next[members[j]]
      <4>1. members[j] \in heap \ fresh
        BY <1>2 DEF Freeing
      <4> QED
        BY <1>1, <1>4, <4>1 DEF ClientNew, Kinds
    <3> QED
      BY <1>1, <1>2, <2>1, <3>1 DEF Freeing, handler
  <2> QED
    BY <1>1, <1>2, <2>1, <2>2, <2>3 DEF ShInv, handler
<1>5. ASSUME NEW t \in Thread, NEW c \in Client, NEW op \in {"add", "send", "remove"},
             Call(t, c, op)
      PROVE  ShInv'
  <2>1. UNCHANGED <<members, next, heap, lock>> /\ fresh' \subseteq fresh
    BY <1>5 DEF Call, list
  <2>2. pc' = [pc EXCEPT ![t] = op] /\ arg' = [arg EXCEPT ![t] = c]
    BY <1>5 DEF Call, Goto
  <2>3. Kinds' /\ Outside'
    BY <1>1, <2>1, <2>2 DEF Kinds, Outside, Pointer, Label, Critical
  <2>4. Freeing(k)'
    BY <1>1, <1>2, <2>1 DEF Freeing, handler
  <2> QED
    BY <1>1, <1>2, <2>1, <2>3, <2>4 DEF ShInv, handler
<1> QED
  BY <1>4, <1>5, OthersWait

\* Initially no signal has arrived.
LEMMA ShutdownInit == InitShutdown => ShInv
<1> SUFFICES ASSUME InitShutdown PROVE ShInv
  OBVIOUS
<1>1. IInv
  BY InitHolds DEF InitShutdown
<1> QED
  BY <1>1 DEF ShInv, InitShutdown

\* Every step keeps the invariant.
LEMMA ShutdownKeeps == ShInv /\ [NextShutdown]_all => ShInv'
<1> SUFFICES ASSUME ShInv, [NextShutdown]_all PROVE ShInv'
  OBVIOUS
<1>1. CASE FreeLock
  BY <1>1, FreeLockKeeps
<1>2. CASE FreeNode
  BY <1>2, FreeNodeKeeps
<1>3. CASE FreeUnlock
  BY <1>3, FreeUnlockKeeps
<1>4. CASE Exit
  BY <1>4 DEF Exit, ShInv, Outside, vars
<1>5. CASE Others
  <2>1. hpc \in {"none", "lock", "free"}
    BY <1>5 DEF Others, ShInv
  <2> QED
    BY <1>5, <2>1, OthersBefore, OthersDuring
<1>6. ASSUME NEW t \in Thread \cup {Main}, Signal(t) PROVE ShInv'
  <2>1. IInv'
    BY <1>6, NextKeeps DEF Signal, ShInv
  <2> QED
    BY <1>6, <2>1 DEF Signal, ShInv
<1>7. CASE UNCHANGED all
  <2>1. UNCHANGED <<hpc, hn, present, closed, next, pc, arg, lock, heap, fresh, members>>
    BY <1>7 DEF all, vars, handler
  <2>2. IInv => IInv'
    BY <1>7, NextKeeps DEF all
  <2>3. (Outside => Outside') /\ (Kinds => Kinds')
    BY <2>1 DEF Outside, Kinds
  <2>4. \A k \in 1 .. (Len(members) + 1) : Freeing(k) => Freeing(k)'
    BY <2>1 DEF Freeing
  <2> QED
    BY <2>1, <2>2, <2>3, <2>4 DEF ShInv
<1> QED
  BY <1>1, <1>2, <1>3, <1>4, <1>5, <1>6, <1>7 DEF NextShutdown, Handler, Stopped

\* The invariant of the list up to the shutdown, and of list_free after it, whichever
\* thread the signal interrupts.
THEOREM ShutdownInvariant == SpecShutdown => []ShInv
BY ShutdownInit, ShutdownKeeps, PTL DEF SpecShutdown

\* list_free never frees a client twice, nor one a handler thread has freed: the
\* client at its cursor is allocated.
THEOREM FreedOnceHolds == SpecShutdown => []FreedOnce
<1>1. ShInv => FreedOnce
  <2> SUFFICES ASSUME ShInv, hpc = "free", hn # NULL PROVE hn \in heap
    BY DEF FreedOnce
  <2>1. PICK k \in 1 .. (Len(members) + 1) : Freeing(k)
    BY DEF ShInv
  <2>2. Len(members) \in Nat
    BY DEF ShInv, Kinds
  <2> QED
    BY <2>1, <2>2 DEF Freeing
<1> QED
  BY <1>1, ShutdownInvariant, PTL

\* Every client that is in the list when list_free has the mutex is closed by it, and
\* no other.
THEOREM AllClosedHolds == SpecShutdown => []AllClosed
<1>1. ShInv => AllClosed
  BY DEF ShInv, AllClosed
<1> QED
  BY <1>1, ShutdownInvariant, PTL

\* The shutdown pulls no node away from a walk of list_remove or list_multicast_one.
THEOREM WalksSafeInShutdown == SpecShutdown => []NoDanglingWalk
<1>1. ShInv => NoDanglingWalk
  <2> SUFFICES ASSUME ShInv PROVE NoDanglingWalk
    OBVIOUS
  <2>1. CASE IInv
    BY <2>1 DEF IInv, NoDanglingWalk, Cursor, At, Walking, Unlinked, Registered, Range
  <2>2. CASE Outside
    BY <2>2 DEF Outside, NoDanglingWalk, Critical
  <2> QED
    BY <2>1, <2>2 DEF ShInv
<1> QED
  BY <1>1, ShutdownInvariant, PTL
=============================================================================
