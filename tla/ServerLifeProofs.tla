-------------------------- MODULE ServerLifeProofs --------------------------
(***************************************************************************)
(* For any number of browsers and addresses, and whatever address malloc   *)
(* gives out: no structure is freed twice, a browser keeps its own unless  *)
(* it was accepted at an address still in use, and nothing is left behind. *)
(* In calm circumstances every browser is served as if it were alone.      *)
(***************************************************************************)
EXTENDS ServerLife, FiniteSetTheorems, SequenceTheorems, TLAPS

Seated == {"serve", "answer", "close"}

-----------------------------------------------------------------------------
(* The inductive invariant *)

\* A thread has an address while it lives, where a browser's socket was stored; a
\* browser that has sent a start is served.
Addressed == /\ \A t \in Thread : pc[t] # "none" <=> n[t] # NULL
             /\ \A t \in Thread : n[t] # NULL => socket[n[t]] \in Thread
             /\ \A t \in started : pc[t] \in Serving

\* A structure that is allocated is that of the browser whose socket is in it, whose
\* thread shakes hands or has put it in the list; and a thread that shakes hands has
\* its own.
Kept == /\ members \subseteq heap
        /\ \A t \in Thread : pc[t] = "handshake" =>
             n[t] \in heap /\ socket[n[t]] = t /\ n[t] \notin members
        /\ \A a \in heap :
             /\ socket[a] \in Thread /\ n[socket[a]] = a
             /\ pc[socket[a]] = "handshake" \/ (pc[socket[a]] \in Serving /\ a \in members)

\* No other thread has the address of one that is at work, unless it inherited it.
Sole == \A t \in Thread \ heirs, u \in Thread :
          /\ pc[t] = "handshake" \/ pc[t] \in Serving
          /\ n[u] = n[t]
          => u = t

\* The browsers at address a that have started a game and not closed it.
Starters(a) == {t \in started : n[t] = a /\ pc[t] \in Seated}

\* Each entry of the table is one of a browser that will close one.
Counted == /\ IsFiniteSet(started)
           /\ faults \subseteq {"reuse"} => \A a \in Address :
                /\ Len(table[a]) <= Cardinality(Starters(a))
                /\ \A k \in DOMAIN table[a] : table[a][k] # NULL

\* In calm circumstances threads have addresses of their own, an entry is that of its
\* own browser, and a browser waits while its thread answers.
Single == Calm =>
  /\ \A t, u \in Thread : n[t] = n[u] /\ n[t] # NULL => t = u
  /\ \A a \in Address : table[a] # <<>> =>
       \E t \in started : n[t] = a /\ pc[t] \in Seated /\ table[a] = <<t>>
  /\ heirs = {}
  /\ asking = {t \in Thread : pc[t] = "answer"}

LInv == TypeOK /\ Addressed /\ Kept /\ OwnStructure /\ Sole /\ Counted /\ Single

-----------------------------------------------------------------------------
(* Every step keeps the invariant *)

\* The initial states satisfy the invariant.
LEMMA InitHolds == Init => LInv
<1> SUFFICES ASSUME Init PROVE LInv
  OBVIOUS
<1> USE LifeAssumption DEF Init, Serving
<1>1. TypeOK
  BY DEF TypeOK
<1>2. Addressed /\ Kept /\ OwnStructure /\ Sole
  BY DEF Addressed, Kept, OwnStructure, Sole
<1>3. Counted
  <2>1. IsFiniteSet(started)
    BY FS_EmptySet
  <2>2. ASSUME NEW a \in Address
        PROVE  Starters(a) = {} /\ Len(table[a]) = 0 /\ DOMAIN table[a] = {}
    BY DEF Starters
  <2>3. Cardinality({}) = 0
    BY FS_EmptySet
  <2> HIDE DEF Init
  <2>4. ASSUME NEW a \in Address
        PROVE  /\ Len(table[a]) <= Cardinality(Starters(a))
               /\ \A k \in DOMAIN table[a] : table[a][k] # NULL
    <3>1. Cardinality(Starters(a)) = 0
      BY <2>2, <2>3, Zenon
    <3> QED
      BY <2>2, <3>1
  <2> QED
    BY <2>1, <2>4 DEF Counted
<1>4. Single
  BY DEF Single
<1> QED
  BY <1>1, <1>2, <1>3, <1>4 DEF LInv

\* The table's count is kept by a step that changes no entry and no starter.
LEMMA CountKept ==
  ASSUME Counted, UNCHANGED <<table, started, faults>>,
         \A t \in started : n'[t] = n[t] /\ (pc'[t] \in Seated <=> pc[t] \in Seated)
  PROVE  Counted'
<1>1. ASSUME NEW a \in Address PROVE Starters(a)' = Starters(a)
  BY DEF Starters
<1>2. IsFiniteSet(started')
  BY DEF Counted
<1>3. ASSUME NEW a \in Address, faults' \subseteq {"reuse"}
      PROVE  /\ Len(table'[a]) <= Cardinality(Starters(a)')
             /\ \A k \in DOMAIN table'[a] : table'[a][k] # NULL
  BY <1>1, <1>3 DEF Counted
<1> QED
  BY <1>2, <1>3 DEF Counted

\* The step Accept (main) keeps the invariant.
LEMMA AcceptKeeps ==
  ASSUME LInv, NEW t \in Thread, NEW a \in Address, Accept(t, a)
  PROVE  LInv'
<1> USE LifeAssumption DEF LInv, Accept, Goto
<1>0. /\ a \notin heap /\ n[t] = NULL /\ t \notin started
      /\ Calm => \A u \in Thread : n[u] # a
  BY DEF Available, InUse, Addressed, Calm, TypeOK, Serving
<1>1. TypeOK'
  BY DEF TypeOK
<1>2. Addressed'
  BY <1>0 DEF Addressed, TypeOK
<1>3. Kept'
  BY <1>0 DEF Kept, TypeOK
<1>4. OwnStructure'
  BY <1>0 DEF OwnStructure, InUse, TypeOK, Serving
<1>5. Sole'
  BY <1>0 DEF Sole, OwnStructure, InUse, TypeOK, Serving
<1>6. Counted'
  BY <1>0, CountKept DEF TypeOK
<1>7. Single'
  BY <1>0 DEF Single, Calm, InUse, TypeOK, Seated
<1> QED
  BY <1>1, <1>2, <1>3, <1>4, <1>5, <1>6, <1>7

\* The step Reject (handshake_error) keeps the invariant.
LEMMA RejectKeeps ==
  ASSUME LInv, NEW t \in Thread, Reject(t)
  PROVE  LInv'
<1> USE LifeAssumption DEF LInv, Reject, Goto, aux
<1>0. n[t] \in heap /\ socket[n[t]] = t /\ n[t] \notin members /\ t \notin started
  BY DEF Kept, Addressed, TypeOK, Serving
<1>1. TypeOK'
  BY DEF TypeOK
<1>2. Addressed'
  BY <1>0 DEF Addressed, TypeOK
<1>3. Kept'
  BY <1>0 DEF Kept, TypeOK
<1>4. OwnStructure'
  BY <1>0 DEF OwnStructure, TypeOK, Serving
<1>5. Sole'
  BY DEF Sole, TypeOK, Serving
<1>6. Counted'
  BY <1>0, CountKept DEF TypeOK
<1>7. Single'
  BY <1>0 DEF Single, Calm, TypeOK, Seated
<1> QED
  BY <1>1, <1>2, <1>3, <1>4, <1>5, <1>6, <1>7

\* The step Join (handleClient) keeps the invariant.
LEMMA JoinKeeps ==
  ASSUME LInv, NEW t \in Thread, Join(t)
  PROVE  LInv'
<1> USE LifeAssumption DEF LInv, Join, Goto, aux
<1>0. n[t] \in heap /\ socket[n[t]] = t /\ n[t] \notin members /\ t \notin started
  BY DEF Kept, Addressed, TypeOK, Serving
<1>1. TypeOK'
  BY <1>0 DEF TypeOK, Serving
<1>2. Addressed'
  BY <1>0 DEF Addressed, TypeOK
<1>3. Kept'
  BY <1>0 DEF Kept, TypeOK, Serving
<1>4. OwnStructure'
  BY <1>0 DEF OwnStructure, TypeOK, Serving
<1>5. Sole'
  BY DEF Sole, TypeOK, Serving
<1>6. Counted'
  BY <1>0, CountKept DEF TypeOK
<1>7. Single'
  BY <1>0 DEF Single, Calm, TypeOK, Seated
<1> QED
  BY <1>1, <1>2, <1>3, <1>4, <1>5, <1>6, <1>7

\* A request and the answer to it leave all but the waiting browsers alone.
LEMMA RequestKeeps ==
  ASSUME LInv, NEW t \in Thread, Request(t)
  PROVE  LInv'
<1> USE LifeAssumption DEF LInv, Request, Reply, Goto
<1>0. /\ pc[t] = "serve" /\ n[t] \in Address /\ socket[n[t]] \in Thread
      /\ Calm => socket[n[t]] = t
  BY DEF Addressed, TypeOK, OwnStructure, Single, Serving
<1>1. TypeOK'
  BY <1>0 DEF TypeOK, Serving
<1>2. Addressed'
  BY <1>0 DEF Addressed, TypeOK, Serving
<1>3. Kept'
  BY <1>0 DEF Kept, TypeOK, Serving
<1>4. OwnStructure'
  BY <1>0 DEF OwnStructure, TypeOK, Serving
<1>5. Sole'
  BY <1>0 DEF Sole, TypeOK, Serving
<1>6. Counted'
  BY <1>0, CountKept DEF TypeOK, Seated
<1>7. Single'
  BY <1>0 DEF Single, Calm, TypeOK, Seated
<1> QED
  BY <1>1, <1>2, <1>3, <1>4, <1>5, <1>6, <1>7

\* A start adds an entry and a starter.
LEMMA StartCounts ==
  ASSUME LInv, NEW t \in Thread, Start(t)
  PROVE  Counted'
<1>1. /\ pc[t] = "serve" /\ n[t] \in Address /\ t \in started => "restart" \in faults
      /\ started' = started \cup {t} /\ n' = n /\ faults' = faults
      /\ pc' \in {[pc EXCEPT ![t] = "serve"], [pc EXCEPT ![t] = "answer"]}
  BY LifeAssumption DEF Start, Reply, Goto, LInv, Addressed, TypeOK
<1>2. IsFiniteSet(started')
  BY <1>1, FS_AddElement DEF LInv, Counted
<1>3. ASSUME NEW a \in Address, faults' \subseteq {"reuse"}
      PROVE  /\ Len(table'[a]) <= Cardinality(Starters(a)')
             /\ \A k \in DOMAIN table'[a] : table'[a][k] # NULL
  <2>1. t \notin started /\ table' = [table EXCEPT ![n[t]] = Append(@, t)]
    BY <1>1, <1>3 DEF Start
  <2>2. /\ Len(table[a]) <= Cardinality(Starters(a)) /\ table \in [Address -> Seq(Thread \cup {NULL})]
        /\ \A k \in DOMAIN table[a] : table[a][k] # NULL
    BY <1>1, <1>3 DEF LInv, Counted, TypeOK
  <2>3. \A u \in started : pc'[u] \in Seated <=> pc[u] \in Seated
    BY <1>1, <2>1 DEF LInv, TypeOK
  <2>4. CASE a # n[t]
    <3>1. Starters(a)' = Starters(a) /\ table'[a] = table[a]
      BY <1>1, <2>1, <2>2, <2>3, <2>4 DEF Starters
    <3> QED
      BY <2>2, <3>1
  <2>5. CASE a = n[t]
    <3>1. pc'[t] \in Seated
      BY <1>1 DEF LInv, TypeOK, Seated
    <3>2. Starters(a)' = Starters(a) \cup {t} /\ t \notin Starters(a)
      BY <1>1, <2>1, <2>3, <2>5, <3>1 DEF Starters
    <3>3. IsFiniteSet(Starters(a))
      BY FS_Subset DEF Starters, LInv, Counted
    <3>4. Cardinality(Starters(a)') = Cardinality(Starters(a)) + 1 /\ Cardinality(Starters(a)) \in Nat
      BY <3>2, <3>3, FS_AddElement, FS_CardinalityType
    <3>5. table'[a] = Append(table[a], t) /\ table[a] \in Seq(Thread \cup {NULL})
      BY <2>1, <2>2, <2>5
    <3>6. /\ Len(table'[a]) = Len(table[a]) + 1 /\ Len(table[a]) \in Nat
          /\ DOMAIN table'[a] = 1 .. (Len(table[a]) + 1) /\ DOMAIN table[a] = 1 .. Len(table[a])
          /\ \A k \in 1 .. Len(table[a]) : table'[a][k] = table[a][k]
          /\ table'[a][Len(table[a]) + 1] = t
      BY <3>5, AppendProperties, LenProperties
    <3>7. \A k \in 1 .. (Len(table[a]) + 1) : k \in 1 .. Len(table[a]) \/ k = Len(table[a]) + 1
      BY <3>6
    <3>8. t # NULL
      BY LifeAssumption
    <3>9. Len(table'[a]) <= Cardinality(Starters(a)')
      BY <2>2, <3>4, <3>6
    <3> QED
      BY <2>2, <3>6, <3>7, <3>8, <3>9
  <2> QED
    BY <2>4, <2>5
<1> QED
  BY <1>2, <1>3 DEF Counted

\* The step Start (handle_service) keeps the invariant.
LEMMA StartKeeps ==
  ASSUME LInv, NEW t \in Thread, Start(t)
  PROVE  LInv'
<1> USE LifeAssumption DEF LInv, Start, Reply, Goto
<1>0. /\ pc[t] = "serve" /\ n[t] \in Address /\ socket[n[t]] \in Thread
      /\ Calm => socket[n[t]] = t
  BY DEF Addressed, TypeOK, OwnStructure, Single, Serving
<1>1. TypeOK'
  <2>1. table' \in [Address -> Seq(Thread \cup {NULL})]
    <3>1. PICK s \in Thread \cup {NULL} : table' = [table EXCEPT ![n[t]] = Append(@, s)]
      OBVIOUS
    <3>2. Append(table[n[t]], s) \in Seq(Thread \cup {NULL})
      BY <1>0, AppendProperties DEF TypeOK
    <3> QED
      BY <3>1, <3>2 DEF TypeOK
  <2> QED
    BY <1>0, <2>1 DEF TypeOK, Serving
<1>2. Addressed'
  BY <1>0 DEF Addressed, TypeOK, Serving
<1>3. Kept'
  BY <1>0 DEF Kept, TypeOK, Serving
<1>4. OwnStructure'
  BY <1>0 DEF OwnStructure, TypeOK, Serving
<1>5. Sole'
  BY <1>0 DEF Sole, TypeOK, Serving
<1>6. Counted'
  BY StartCounts
<1>7. Single'
  <2> SUFFICES ASSUME Calm PROVE Single'
    BY DEF Single, Calm
  <2>1. t \notin started /\ table' = [table EXCEPT ![n[t]] = Append(@, t)]
    BY DEF Calm
  <2>2. table[n[t]] = <<>>
    BY <1>0, <2>1 DEF Single, TypeOK
  <2>3. table'[n[t]] = <<t>> /\ \A a \in Address \ {n[t]} : table'[a] = table[a]
    BY <1>0, <2>1, <2>2 DEF TypeOK
  <2>4. /\ pc' \in {[pc EXCEPT ![t] = "serve"], [pc EXCEPT ![t] = "answer"]}
        /\ n' = n /\ started' = started \cup {t} /\ heirs' = heirs
    OBVIOUS
  <2>5. asking' = {u \in Thread : pc'[u] = "answer"}
    BY <1>0 DEF Single, Calm, TypeOK
  <2> HIDE DEF Start, Reply, Goto
  <2>6. ASSUME NEW a \in Address, table'[a] # <<>>
        PROVE  \E u \in started' : n'[u] = a /\ pc'[u] \in Seated /\ table'[a] = <<u>>
    <3>1. CASE a = n[t]
      BY <1>0, <2>3, <2>4, <3>1 DEF TypeOK, Seated
    <3>2. CASE a # n[t]
      <4>1. PICK u \in started : n[u] = a /\ pc[u] \in Seated /\ table[a] = <<u>>
        BY <2>3, <2>6, <3>2 DEF Single
      <4>2. u # t /\ pc'[u] = pc[u]
        BY <2>4, <3>2, <4>1 DEF TypeOK
      <4> QED
        BY <2>3, <2>4, <3>2, <4>1, <4>2
    <3> QED
      BY <3>1, <3>2
  <2> QED
    BY <2>4, <2>5, <2>6 DEF Single
<1> QED
  BY <1>1, <1>2, <1>3, <1>4, <1>5, <1>6, <1>7

\* The step Answer (send_to_client) keeps the invariant.
LEMMA AnswerKeeps ==
  ASSUME LInv, NEW t \in Thread, Answer(t)
  PROVE  LInv'
<1> USE LifeAssumption DEF LInv, Answer, Goto
<1>0. /\ pc[t] = "answer" /\ Calm => n[t] \in members /\ socket[n[t]] = t
  BY DEF OwnStructure, Single, Serving
<1>1. TypeOK'
  BY <1>0 DEF TypeOK, Serving
<1>2. Addressed'
  BY <1>0 DEF Addressed, TypeOK, Serving
<1>3. Kept'
  BY <1>0 DEF Kept, TypeOK, Serving
<1>4. OwnStructure'
  BY <1>0 DEF OwnStructure, TypeOK, Serving
<1>5. Sole'
  BY <1>0 DEF Sole, TypeOK, Serving
<1>6. Counted'
  BY <1>0, CountKept DEF TypeOK, Seated
<1>7. Single'
  BY <1>0 DEF Single, Calm, TypeOK, Seated
<1> QED
  BY <1>1, <1>2, <1>3, <1>4, <1>5, <1>6, <1>7

\* The step Disconnect (handleClient) keeps the invariant.
LEMMA DisconnectKeeps ==
  ASSUME LInv, NEW t \in Thread, Disconnect(t)
  PROVE  LInv'
<1> USE LifeAssumption DEF LInv, Disconnect, Goto, aux
<1>1. TypeOK'
  BY DEF TypeOK, Serving
<1>2. Addressed'
  BY DEF Addressed, TypeOK, Serving
<1>3. Kept'
  BY DEF Kept, TypeOK, Serving
<1>4. OwnStructure'
  BY DEF OwnStructure, TypeOK, Serving
<1>5. Sole'
  BY DEF Sole, TypeOK, Serving
<1>6. Counted'
  BY CountKept DEF TypeOK, Seated
<1>7. Single'
  BY DEF Single, Calm, TypeOK, Seated
<1> QED
  BY <1>1, <1>2, <1>3, <1>4, <1>5, <1>6, <1>7

\* handle_close takes an entry away, and at most one starter.
LEMMA CloseCounts ==
  ASSUME LInv, NEW t \in Thread, HandleClose(t)
  PROVE  Counted'
<1>1. /\ pc[t] \in {"close", "cleanup"} /\ n[t] \in Address
      /\ pc' \in {[pc EXCEPT ![t] = "remove"], [pc EXCEPT ![t] = "cleanupRemove"]}
      /\ n' = n /\ started' = started /\ faults' = faults
      /\ table \in [Address -> Seq(Thread \cup {NULL})] /\ pc'[t] \notin Seated
  BY LifeAssumption DEF HandleClose, Goto, aux, LInv, Addressed, TypeOK, Seated
<1>2. IsFiniteSet(started)
  BY DEF LInv, Counted
<1>3. ASSUME NEW a \in Address, faults' \subseteq {"reuse"}
      PROVE  /\ Len(table'[a]) <= Cardinality(Starters(a)')
             /\ \A k \in DOMAIN table'[a] : table'[a][k] # NULL
  <2>1. /\ Len(table[a]) <= Cardinality(Starters(a))
        /\ \A k \in DOMAIN table[a] : table[a][k] # NULL
    BY <1>1, <1>3 DEF LInv, Counted
  <2>2. \A u \in started \ {t} : pc'[u] = pc[u]
    BY <1>1 DEF LInv, TypeOK
  <2>3. CASE a # n[t]
    <3>1. Starters(a)' = Starters(a)
      BY <1>1, <2>2, <2>3 DEF Starters
    <3>2. table'[a] = table[a]
      BY <1>1, <2>3 DEF HandleClose
    <3> QED
      BY <2>1, <3>1, <3>2
  <2>4. CASE a = n[t]
    <3>1. Starters(a)' = Starters(a) \ {t}
      BY <1>1, <2>2 DEF Starters
    <3>2. IsFiniteSet(Starters(a)) /\ Cardinality(Starters(a)) \in Nat
      BY <1>2, FS_Subset, FS_CardinalityType DEF Starters
    <3>3. /\ Cardinality(Starters(a)') \in Nat
          /\ Cardinality(Starters(a)') >= Cardinality(Starters(a)) - 1
      <4>1. CASE t \in Starters(a)
        <5>1. Cardinality(Starters(a)') = Cardinality(Starters(a) \ {t})
          BY <3>1, Zenon
        <5>2. /\ Cardinality(Starters(a) \ {t}) = Cardinality(Starters(a)) - 1
              /\ Cardinality(Starters(a) \ {t}) \in Nat
          BY <3>2, <4>1, FS_RemoveElement, FS_CardinalityType
        <5> QED
          BY <3>2, <5>1, <5>2
      <4>2. CASE t \notin Starters(a)
        <5>1. Starters(a)' = Starters(a)
          BY <3>1, <4>2
        <5> QED
          BY <3>2, <5>1
      <4> QED
        BY <4>1, <4>2
    <3>4. CASE table[a] = <<>>
      <4>1. table'[a] = <<>>
        BY <2>4, <3>4 DEF HandleClose
      <4>2. Len(table'[a]) = 0 /\ DOMAIN table'[a] = {}
        BY <4>1
      <4> QED
        BY <3>3, <4>2
    <3>5. CASE table[a] # <<>>
      <4>1. table[a] \in Seq(Thread \cup {NULL})
        BY <1>1
      <4>2. /\ Head(table[a]) = table[a][1] /\ Len(table[a]) \in Nat \ {0}
            /\ Len(Tail(table[a])) = Len(table[a]) - 1
            /\ DOMAIN table[a] = 1 .. Len(table[a])
            /\ DOMAIN Tail(table[a]) = 1 .. (Len(table[a]) - 1)
            /\ \A k \in 1 .. (Len(table[a]) - 1) : Tail(table[a])[k] = table[a][k + 1]
        BY <3>5, <4>1, HeadTailProperties, LenProperties, EmptySeq
      <4>3. 1 \in 1 .. Len(table[a]) /\ \A k \in 1 .. (Len(table[a]) - 1) : k + 1 \in 1 .. Len(table[a])
        BY <4>2
      <4>4. Head(table[a]) # NULL
        BY <2>1, <4>2, <4>3
      <4>5. table'[a] = Tail(table[a])
        BY <1>1, <2>4, <3>5, <4>4 DEF HandleClose
      <4>6. Len(table'[a]) <= Cardinality(Starters(a)')
        BY <2>1, <3>2, <3>3, <4>2, <4>5
      <4> QED
        BY <2>1, <4>2, <4>3, <4>5, <4>6
    <3> QED
      BY <3>4, <3>5
  <2> QED
    BY <2>3, <2>4
<1> QED
  BY <1>1, <1>2, <1>3 DEF Counted

\* The step HandleClose (handle_close) keeps the invariant.
LEMMA HandleCloseKeeps ==
  ASSUME LInv, NEW t \in Thread, HandleClose(t)
  PROVE  LInv'
<1> USE LifeAssumption DEF LInv, HandleClose, Goto, aux
<1>0. n[t] \in Address
  BY DEF Addressed, TypeOK
<1>1. TypeOK'
  <2>1. table' \in [Address -> Seq(Thread \cup {NULL})]
    BY <1>0, HeadTailProperties DEF TypeOK
  <2> QED
    BY <1>0, <2>1 DEF TypeOK, Serving
<1>2. Addressed'
  BY <1>0 DEF Addressed, TypeOK, Serving
<1>3. Kept'
  <2>1. UNCHANGED <<heap, members, n, socket>>
    OBVIOUS
  <2>2. \/ pc[t] = "close" /\ pc' = [pc EXCEPT ![t] = "remove"]
        \/ pc[t] = "cleanup" /\ pc' = [pc EXCEPT ![t] = "cleanupRemove"]
    OBVIOUS
  <2> HIDE DEF HandleClose
  <2> QED
    BY <2>1, <2>2 DEF Kept, TypeOK, Serving
<1>4. OwnStructure'
  BY <1>0 DEF OwnStructure, TypeOK, Serving
<1>5. Sole'
  BY <1>0 DEF Sole, TypeOK, Serving
<1>6. Counted'
  BY CloseCounts
<1>7. Single'
  <2> SUFFICES ASSUME Calm PROVE Single'
    BY DEF Single, Calm
  <2>1. table'[n[t]] = <<>> /\ \A a \in Address \ {n[t]} : table'[a] = table[a]
    <3>1. table[n[t]] = <<>> \/ \E u \in Thread : table[n[t]] = <<u>>
      BY <1>0 DEF Single, TypeOK
    <3> QED
      BY <1>0, <3>1 DEF TypeOK
  <2>2. \A u \in Thread \ {t} : pc'[u] = pc[u]
    BY DEF TypeOK
  <2>3. asking' = {u \in Thread : pc'[u] = "answer"}
    BY DEF Single, TypeOK
  <2>4. n' = n /\ started' = started /\ heirs' = heirs
    OBVIOUS
  <2> HIDE DEF HandleClose, Goto
  <2>5. ASSUME NEW a \in Address, table'[a] # <<>>
        PROVE  \E u \in started' : n'[u] = a /\ pc'[u] \in Seated /\ table'[a] = <<u>>
    <3>1. a # n[t] /\ table'[a] = table[a]
      BY <2>1, <2>5
    <3>2. PICK u \in started : n[u] = a /\ pc[u] \in Seated /\ table[a] = <<u>>
      BY <2>5, <3>1 DEF Single
    <3>3. u # t /\ u \in Thread
      BY <3>1, <3>2 DEF TypeOK
    <3> QED
      BY <2>2, <2>4, <3>1, <3>2, <3>3
  <2> QED
    BY <2>3, <2>4, <2>5 DEF Single
<1> QED
  BY <1>1, <1>2, <1>3, <1>4, <1>5, <1>6, <1>7

\* The step ListRemove (list_remove) keeps the invariant.
LEMMA ListRemoveKeeps ==
  ASSUME LInv, NEW t \in Thread, ListRemove(t)
  PROVE  LInv'
<1> USE LifeAssumption DEF LInv, ListRemove, Ends, Goto
<1>0. n[t] \in Address /\ pc[t] \in {"remove", "cleanupRemove"}
  BY DEF Addressed, TypeOK
<1>1. TypeOK'
  BY DEF TypeOK, Serving
<1>2. Addressed'
  BY <1>0 DEF Addressed, TypeOK, Serving
<1>3. Kept'
  BY <1>0 DEF Kept, TypeOK, Serving
<1>4. OwnStructure'
  BY <1>0 DEF OwnStructure, Sole, TypeOK, Serving
<1>5. Sole'
  BY <1>0 DEF Sole, TypeOK, Addressed, Serving
<1>6. Counted'
  <2>1. \A a \in Address : Starters(a)' = Starters(a)
    BY <1>0 DEF Starters, TypeOK, Seated
  <2>2. IsFiniteSet(started')
    BY FS_Subset DEF Counted
  <2>3. ASSUME NEW a \in Address, faults' \subseteq {"reuse"}
        PROVE  /\ Len(table'[a]) <= Cardinality(Starters(a)')
               /\ \A k \in DOMAIN table'[a] : table'[a][k] # NULL
    BY <2>1, <2>3 DEF Counted
  <2> QED
    BY <2>2, <2>3 DEF Counted
<1>7. Single'
  BY <1>0 DEF Single, Calm, TypeOK, Seated
<1> QED
  BY <1>1, <1>2, <1>3, <1>4, <1>5, <1>6, <1>7

\* Every step keeps the invariant.
LEMMA NextKeeps == LInv /\ [Next]_vars => LInv'
<1> SUFFICES ASSUME LInv, [Next]_vars
             PROVE  LInv'
  OBVIOUS
<1>1. CASE UNCHANGED vars
  <2>1. Counted'
    BY <1>1, CountKept DEF vars, LInv
  <2> QED
    BY <1>1, <2>1 DEF vars, LInv, TypeOK, Addressed, Kept, OwnStructure, Sole, Single, Calm
<1>2. ASSUME NEW t \in Thread, Step(t) PROVE LInv'
  BY <1>2, AcceptKeeps, RejectKeeps, JoinKeeps, RequestKeeps, StartKeeps, AnswerKeeps,
     DisconnectKeeps, HandleCloseKeeps, ListRemoveKeeps DEF Step
<1> QED
  BY <1>1, <1>2 DEF Next

-----------------------------------------------------------------------------
(* Theorems *)

\* The invariant holds in every state, whatever address malloc gives out.
THEOREM InvariantHolds == Spec => []LInv
BY InitHolds, NextKeeps, PTL DEF Spec

\* No structure is freed twice, the cleanup handler's address notwithstanding.
THEOREM NoDoubleFreeHolds == Spec => []NoDoubleFree
<1>1. LInv => NoDoubleFree
  BY DEF LInv, Kept, NoDoubleFree
<1> QED
  BY <1>1, InvariantHolds, PTL

\* A thread keeps its structure until it gives it up itself, unless it was accepted
\* at an address another thread still had (handleClient).
THEOREM StructuresOwned == Spec => []OwnStructure
<1>1. LInv => OwnStructure
  BY DEF LInv
<1> QED
  BY <1>1, InvariantHolds, PTL

\* A server without threads has no structure and no client left, and no entry of the
\* table, unless the engine was unreachable or a browser has started twice.
THEOREM ServerLeavesNothing == Spec => []NothingLeft
<1>1. LInv => NothingLeft
  <2> SUFFICES ASSUME LInv, \A t \in Thread : pc[t] = "none"
               PROVE  /\ heap = {} /\ members = {}
                      /\ faults \subseteq {"reuse"} => \A a \in Address : table[a] = <<>>
    BY DEF NothingLeft
  <2>1. heap = {} /\ members = {}
    BY DEF LInv, Kept, Serving
  <2>2. ASSUME NEW a \in Address, faults \subseteq {"reuse"} PROVE table[a] = <<>>
    <3>1. Starters(a) = {}
      BY DEF Starters, Seated, LInv, TypeOK
    <3>2. Cardinality(Starters(a)) = Cardinality({})
      BY <3>1, Zenon
    <3>3. Len(table[a]) <= Cardinality(Starters(a))
      BY <2>2 DEF LInv, Counted
    <3>4. table[a] \in Seq(Thread \cup {NULL}) /\ Cardinality({}) = 0
      BY FS_EmptySet DEF LInv, TypeOK
    <3>5. Len(table[a]) = 0
      BY <3>2, <3>3, <3>4, LenProperties
    <3> QED
      BY <3>4, <3>5, EmptySeq
  <2> QED
    BY <2>1, <2>2
<1> QED
  BY <1>1, InvariantHolds, PTL

-----------------------------------------------------------------------------
(* Refinement *)

\* The sets the refinement mapping stands for, by the threads' places.
Mapped == Calm => /\ {socket[a] : a \in members} = {t \in Thread : pc[t] \in Serving}
                  /\ Players = {t \in Thread : pc[t] \in Seated /\ table[n[t]] = <<t>>}

\* The mapped sets are what the threads' places say.
LEMMA Mapping == LInv => Mapped
<1> SUFFICES ASSUME LInv, Calm
             PROVE  /\ {socket[a] : a \in members} = {t \in Thread : pc[t] \in Serving}
                    /\ Players = {t \in Thread : pc[t] \in Seated /\ table[n[t]] = <<t>>}
  BY DEF Mapped
<1> USE LifeAssumption DEF LInv, TypeOK
<1>1. ASSUME NEW a \in members
      PROVE  \E t \in Thread : socket[a] = t /\ pc[t] \in Serving
  BY DEF Kept
<1>2. ASSUME NEW t \in Thread, pc[t] \in Serving
      PROVE  n[t] \in members /\ socket[n[t]] = t
  BY <1>2 DEF OwnStructure, Single, Calm
<1>3. ASSUME NEW t \in Thread, NEW a \in Address, NEW k \in DOMAIN table[a], table[a][k] = t
      PROVE  pc[t] \in Seated /\ table[n[t]] = <<t>>
  <2>1. table[a] # <<>>
    BY <1>3
  <2>2. PICK u \in started : n[u] = a /\ pc[u] \in Seated /\ table[a] = <<u>>
    BY <2>1 DEF Single
  <2>3. k = 1 /\ u = t
    BY <1>3, <2>2
  <2> QED
    BY <2>2, <2>3
<1>4. ASSUME NEW t \in Thread, pc[t] \in Seated, table[n[t]] = <<t>>
      PROVE  t \in Players
  <2>1. n[t] \in Address /\ 1 \in DOMAIN table[n[t]] /\ table[n[t]][1] = t
    BY <1>4 DEF Addressed, Seated
  <2> QED
    BY <2>1 DEF Players
<1>5. Players = {t \in Thread : pc[t] \in Seated /\ table[n[t]] = <<t>>}
  BY <1>3, <1>4 DEF Players
<1> QED
  BY <1>1, <1>2, <1>5

\* The same of the state after a step.
LEMMA MappingAfter == LInv' => Mapped'
BY Mapping, PTL

\* In calm circumstances the entry of a thread's address is its own, or there is none.
LEMMA OwnEntry ==
  ASSUME LInv, Calm, NEW t \in Thread, n[t] \in Address
  PROVE  /\ table[n[t]] = <<>> \/ (table[n[t]] = <<t>> /\ t \in started /\ pc[t] \in Seated)
         /\ \A u \in Thread : n[u] = n[t] => u = t
BY LifeAssumption DEF LInv, Single, TypeOK

\* A step of one thread is a step of its browser, or leaves all browsers alone.
LEMMA StepRefines ==
  ASSUME LInv, LInv', NEW t \in Thread, Step(t)
  PROVE  [Sessions!Next]_(Sessions!vars)
<1> DEFINE serving == IF Calm THEN {socket[a] : a \in members} ELSE {}
           playing == IF Calm THEN Players ELSE {}
           waiting == IF Calm THEN asking ELSE {}
           Enter == /\ t \notin serving /\ serving' = serving \cup {t}
                    /\ playing' = playing /\ waiting' = waiting
           Ask == /\ t \in serving \ waiting
                  /\ waiting' = waiting \/ waiting' = waiting \cup {t}
                  /\ playing' = playing \/ playing' = playing \cup {t}
                  /\ serving' = serving
           Answered == /\ t \in waiting /\ waiting' = waiting \ {t}
                       /\ serving' = serving /\ playing' = playing
           EndGame == /\ t \in playing \ waiting /\ playing' = playing \ {t}
                      /\ serving' = serving /\ waiting' = waiting
           Leave == /\ t \in serving \ (playing \cup waiting) /\ serving' = serving \ {t}
                    /\ playing' = playing /\ waiting' = waiting
           Nothing == serving' = serving /\ playing' = playing /\ waiting' = waiting
<1>1. faults' = faults
  BY DEF Step, Accept, Reject, Join, Request, Start, Answer, Disconnect, HandleClose,
         ListRemove, Ends, aux
<1>2. CASE ~Calm
  <2>1. serving = {} /\ playing = {} /\ waiting = {}
    BY <1>2
  <2>2. serving' = {} /\ playing' = {} /\ waiting' = {}
    BY <1>1, <1>2 DEF Calm
  <2> QED
    BY <2>1, <2>2 DEF Sessions!vars
<1>3. CASE Calm
  <2>0. Mapped /\ Mapped' /\ Calm'
    BY <1>1, <1>3, Mapping, MappingAfter DEF Calm
  <2>1. serving = {u \in Thread : pc[u] \in Serving}
    BY <2>0, <1>3 DEF Mapped
  <2>2. playing = {u \in Thread : pc[u] \in Seated /\ table[n[u]] = <<u>>}
    BY <2>0, <1>3 DEF Mapped
  <2>3. serving' = {u \in Thread : pc'[u] \in Serving}
    BY <2>0 DEF Mapped
  <2>4. playing' = {u \in Thread : pc'[u] \in Seated /\ table'[n'[u]] = <<u>>}
    BY <2>0 DEF Mapped
  <2>5. waiting = {u \in Thread : pc[u] = "answer"} /\ waiting' = {u \in Thread : pc'[u] = "answer"}
    BY <2>0, <1>3 DEF LInv, Single
  <2> HIDE DEF serving, playing, waiting
  <2>6. Enter \/ Ask \/ Answered \/ EndGame \/ Leave \/ Nothing
    <3> USE <2>1, <2>2, <2>3, <2>4, <2>5, LifeAssumption DEF Goto, Serving, Seated
    <3>0. TypeOK
      BY DEF LInv
    <3>1. CASE \E a \in Address : Accept(t, a)
      BY <3>0, <3>1 DEF Accept, TypeOK
    <3>2. CASE Reject(t)
      BY <3>0, <3>2 DEF Reject, TypeOK
    <3>3. CASE Join(t)
      <4>1. n[t] \in Address /\ pc[t] = "handshake"
        BY <3>0, <3>3 DEF Join, TypeOK, LInv, Addressed
      <4>2. table[n[t]] = <<>>
        BY <4>1, <1>3, OwnEntry
      <4>3. pc'[t] = "serve" /\ (\A u \in Thread \ {t} : pc'[u] = pc[u]) /\ n' = n /\ table' = table
        BY <3>0, <3>3 DEF Join, TypeOK
      <4>4. playing' = playing
        BY <4>1, <4>2, <4>3
      <4>5. t \notin serving /\ serving' = serving \cup {t}
        BY <4>1, <4>3
      <4>6. waiting' = waiting
        BY <4>1, <4>3
      <4> QED
        BY <4>4, <4>5, <4>6
    <3>4. CASE Request(t)
      BY <3>0, <3>4 DEF Request, Reply, TypeOK
    <3>5. CASE Start(t)
      <4>1. n[t] \in Address /\ pc[t] = "serve" /\ t \notin started
        BY <1>3, <3>0, <3>5 DEF Start, Reply, Calm, TypeOK, LInv, Addressed
      <4>2. table[n[t]] = <<>> /\ \A u \in Thread : n[u] = n[t] => u = t
        BY <4>1, <1>3, OwnEntry
      <4>3. table' = [table EXCEPT ![n[t]] = Append(@, t)] /\ n' = n
        BY <1>3, <3>5 DEF Start, Calm
      <4>4. table'[n[t]] = <<t>> /\ \A u \in Thread \ {t} : table'[n[u]] = table[n[u]]
        BY <3>0, <4>1, <4>2, <4>3 DEF TypeOK
      <4>5. pc'[t] \in {"serve", "answer"} /\ \A u \in Thread \ {t} : pc'[u] = pc[u]
        BY <3>0, <3>5 DEF Start, Reply, TypeOK
      <4>6. serving' = serving
        BY <4>1, <4>5
      <4>7. playing' = playing \cup {t}
        BY <4>1, <4>3, <4>4, <4>5
      <4>8. waiting' = waiting \/ waiting' = waiting \cup {t}
        BY <4>1, <4>5
      <4>9. t \in serving \ waiting
        BY <4>1
      <4> QED
        BY <4>6, <4>7, <4>8, <4>9
    <3>6. CASE Answer(t)
      BY <3>0, <3>6 DEF Answer, TypeOK
    <3>7. CASE Disconnect(t)
      BY <3>0, <3>7 DEF Disconnect, TypeOK
    <3>8. CASE HandleClose(t)
      <4>1. n[t] \in Address /\ n' = n /\ pc[t] \in {"close", "cleanup"}
        BY <3>0, <3>8 DEF HandleClose, TypeOK, LInv, Addressed
      <4>2. \/ table[n[t]] = <<>>
            \/ table[n[t]] = <<t>> /\ t \in started /\ pc[t] \in Seated
        BY <4>1, <1>3, OwnEntry
      <4>3. \A u \in Thread : n[u] = n[t] => u = t
        BY <4>1, <1>3, OwnEntry
      <4>4. table'[n[t]] = <<>> /\ \A u \in Thread \ {t} : table'[n[u]] = table[n[u]]
        <5>1. CASE table[n[t]] = <<>>
          BY <3>8, <5>1 DEF HandleClose
        <5>2. CASE table[n[t]] = <<t>>
          <6>1. Head(<<t>>) = t /\ Tail(<<t>>) = <<>> /\ <<t>> # <<>>
            OBVIOUS
          <6> QED
            BY <3>0, <3>8, <4>1, <4>3, <5>2, <6>1 DEF HandleClose, TypeOK
        <5> QED
          BY <4>2, <5>1, <5>2
      <4>5. pc'[t] \in {"remove", "cleanupRemove"} /\ (pc[t] = "close" <=> pc'[t] = "remove")
            /\ \A u \in Thread \ {t} : pc'[u] = pc[u]
        BY <3>0, <3>8 DEF HandleClose, TypeOK
      <4>6. serving' = serving /\ waiting' = waiting
        BY <4>1, <4>5
      <4>7. playing' = playing \ {t}
        BY <4>1, <4>4, <4>5
      <4>8. t \notin waiting
        BY <4>1
      <4>9. CASE t \in playing
        BY <4>6, <4>7, <4>8, <4>9
      <4>10. CASE t \notin playing
        <5>1. playing' = playing
          BY <4>7, <4>10
        <5> QED
          BY <4>6, <5>1
      <4> QED
        BY <4>9, <4>10
    <3>9. CASE ListRemove(t)
      BY <3>0, <3>9 DEF ListRemove, Ends, TypeOK
    <3> QED
      BY <3>1, <3>2, <3>3, <3>4, <3>5, <3>6, <3>7, <3>8, <3>9 DEF Step
  <2> USE DEF serving, playing, waiting
  <2>7. CASE Enter
    BY <2>7 DEF Sessions!Next, Sessions!Enter
  <2>8. CASE Ask
    BY <2>8 DEF Sessions!Next, Sessions!Ask
  <2>9. CASE Answered
    BY <2>9 DEF Sessions!Next, Sessions!Answer
  <2>10. CASE EndGame
    BY <2>10 DEF Sessions!Next, Sessions!EndGame
  <2>11. CASE Leave
    BY <2>11 DEF Sessions!Next, Sessions!Leave
  <2>12. CASE Nothing
    BY <2>12 DEF Sessions!vars
  <2> QED
    BY <2>6, <2>7, <2>8, <2>9, <2>10, <2>11, <2>12
<1> QED
  BY <1>2, <1>3

\* Every browser is served as if it were the only one, in calm circumstances.
THEOREM ImplementsSessions == Spec => RefinesSessions
<1>1. Init => Sessions!Init
  BY LifeAssumption DEF Init, Players, Sessions!Init
<1>2. LInv /\ LInv' /\ [Next]_vars => [Sessions!Next]_(Sessions!vars)
  <2> SUFFICES ASSUME LInv, LInv', [Next]_vars
               PROVE  [Sessions!Next]_(Sessions!vars)
    OBVIOUS
  <2>1. CASE UNCHANGED vars
    BY <2>1 DEF vars, Sessions!vars, Calm, Players
  <2>2. CASE Next
    BY <2>2, StepRefines DEF Next
  <2> QED
    BY <2>1, <2>2
<1> QED
  BY InvariantHolds, <1>1, <1>2, PTL DEF RefinesSessions, Sessions!Spec, Spec
=============================================================================
