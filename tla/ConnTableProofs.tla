--------------------------- MODULE ConnTableProofs ---------------------------
(***************************************************************************)
(* When the handler threads take turns in service.c, the connection table  *)
(* never holds more than MAX_CONNECT entries, is never written outside its *)
(* bounds and has no gaps, whatever the browsers and the engine do; two    *)
(* threads at once exceed the limit by one.  A browser's requests reach    *)
(* the session opened for it, and the same one from its start to its end.  *)
(***************************************************************************)
EXTENDS ConnTable, FiniteSetTheorems, TLAPS

\* The count is that of a table within its limit.
Bounded == num \in 0 .. MaxConnect

-----------------------------------------------------------------------------
(* The inductive invariant *)

\* At most one thread is in service.c.
Alone == \A c, d \in Client : pc[c] # "idle" /\ pc[d] # "idle" => c = d

\* The first m entries are in use and the others are cleared.
Packed(m) == /\ \A k \in Slot \ (0 .. (m - 1)) : para[k] = Clear
             /\ \A k \in 0 .. (m - 1) : para[k].pclient # NULL

Adding   == {"putSocket", "countLoad", "countStore"}
Dropping == {"dropLoad", "dropStore"}

\* The table between the stores of add_socket, and of del_socket.
HalfAdded(c) == /\ num < MaxConnect
                /\ \A k \in Slot \ (0 .. num) : para[k] = Clear
                /\ \A k \in 0 .. (num - 1) : para[k].pclient # NULL
                /\ pc[c] = "putSocket" \/ pc[c] \in Adding => para[num].pclient # NULL
                /\ pc[c] = "countStore" => tmp[c] = num

HalfDropped(c) == /\ num > 0
                  /\ Packed(num - 1)
                  /\ pc[c] = "dropStore" => tmp[c] = num

\* What the place of the running thread says of the table and of its locals.
Phase(c) == /\ pc[c] \notin Adding \cup Dropping => Packed(num)
            /\ pc[c] \in {"connect", "recheck", "putClient"} => num < MaxConnect
            /\ pc[c] \in Adding => HalfAdded(c)
            /\ pc[c] \in {"lookup", "closeLookup"} => i[c] \in 0 .. num
            /\ pc[c] = "find" => num > 0
            /\ pc[c] = "shift" => num > 0 /\ i[c] \in 0 .. (num - 1)
            /\ pc[c] \in Dropping => HalfDropped(c)
            /\ pc[c] \in {"check", "connect", "recheck", "putClient"} \cup Adding => i[c] = 0

TInv == /\ TypeOK /\ Alone /\ Bounded
        /\ Quiet => Packed(num)
        /\ \A c \in Client : IF pc[c] = "idle" THEN i[c] = 0 ELSE Phase(c)

-----------------------------------------------------------------------------
(* Every step keeps the invariant *)

\* While c is in service.c, every other thread is outside.
LEMMA OthersIdle ==
  ASSUME TInv, NEW c \in Client, pc[c] # "idle"
  PROVE  Phase(c) /\ \A d \in Client \ {c} : pc[d] = "idle" /\ i[d] = 0
BY DEF TInv, Alone

\* Storing one field of an entry gives an entry.
LEMMA EntryUpdate ==
  ASSUME NEW e \in Entry, NEW c \in Client, NEW s \in Socket \cup {0}
  PROVE  /\ [e EXCEPT !.pclient = c] \in Entry
         /\ [e EXCEPT !.socket = s] \in Entry
         /\ [e EXCEPT !.pclient = c].pclient = c
         /\ [e EXCEPT !.socket = s].pclient = e.pclient
BY DEF Entry

\* The step Connected (main) keeps the invariant.
LEMMA ConnectedKeeps ==
  ASSUME TInv, TakeTurns, NEW c \in Client, Connected(c)
  PROVE  TInv'
<1>0. /\ num \in 0 .. MaxConnect /\ MaxConnect \in Nat
      /\ pc[c] # "idle" => Phase(c) /\ \A d \in Client \ {c} : pc[d] = "idle" /\ i[d] = 0
  BY OthersIdle, TableAssumption DEF TInv, Bounded
<1> USE <1>0, TableAssumption DEF Connected, table, thread, Label, Adding, Dropping, Quiet
<1>1. TypeOK'
  BY DEF TInv, TypeOK
<1>2. Alone'
  BY DEF TInv, Alone, TypeOK
<1>3. Bounded'
  BY DEF TInv, Bounded, TypeOK
<1>4. (Quiet => Packed(num))'
  BY DEF TInv, Packed, Phase, TypeOK
<1>5. (\A d \in Client : IF pc[d] = "idle" THEN i[d] = 0 ELSE Phase(d))'
  BY DEF TInv, Packed, Phase, HalfAdded, HalfDropped, TypeOK
<1> QED
  BY <1>1, <1>2, <1>3, <1>4, <1>5 DEF TInv

\* The step Start (handle_service) keeps the invariant.
LEMMA StartKeeps ==
  ASSUME TInv, TakeTurns, NEW c \in Client, Start(c)
  PROVE  TInv'
<1>0. /\ num \in 0 .. MaxConnect /\ MaxConnect \in Nat
      /\ pc[c] # "idle" => Phase(c) /\ \A d \in Client \ {c} : pc[d] = "idle" /\ i[d] = 0
  BY OthersIdle, TableAssumption DEF TInv, Bounded
<1> USE <1>0, TableAssumption DEF Start, Enter, Goto, Closing, Quiet, TakeTurns, table, Label, Adding, Dropping
<1>1. TypeOK'
  BY DEF TInv, TypeOK
<1>2. Alone'
  BY DEF TInv, Alone, TypeOK
<1>3. Bounded'
  BY DEF TInv, Bounded, TypeOK
<1>4. (Quiet => Packed(num))'
  BY DEF TInv, Packed, Phase, TypeOK
<1>5. (\A d \in Client : IF pc[d] = "idle" THEN i[d] = 0 ELSE Phase(d))'
  BY DEF TInv, Packed, Phase, TypeOK
<1> QED
  BY <1>1, <1>2, <1>3, <1>4, <1>5 DEF TInv

\* The step Move (handle_service) keeps the invariant.
LEMMA MoveKeeps ==
  ASSUME TInv, TakeTurns, NEW c \in Client, Move(c)
  PROVE  TInv'
<1>0. /\ num \in 0 .. MaxConnect /\ MaxConnect \in Nat
      /\ pc[c] # "idle" => Phase(c) /\ \A d \in Client \ {c} : pc[d] = "idle" /\ i[d] = 0
  BY OthersIdle, TableAssumption DEF TInv, Bounded
<1> USE <1>0, TableAssumption DEF Move, Enter, Goto, Closing, Quiet, TakeTurns, table, Label, Adding, Dropping
<1>1. TypeOK'
  BY DEF TInv, TypeOK
<1>2. Alone'
  BY DEF TInv, Alone, TypeOK
<1>3. Bounded'
  BY DEF TInv, Bounded, TypeOK
<1>4. (Quiet => Packed(num))'
  BY DEF TInv, Packed, Phase, TypeOK
<1>5. (\A d \in Client : IF pc[d] = "idle" THEN i[d] = 0 ELSE Phase(d))'
  BY DEF TInv, Packed, Phase, TypeOK
<1> QED
  BY <1>1, <1>2, <1>3, <1>4, <1>5 DEF TInv

\* The step Check (handle_service) keeps the invariant.
LEMMA CheckKeeps ==
  ASSUME TInv, TakeTurns, NEW c \in Client, Check(c)
  PROVE  TInv'
<1>0. /\ num \in 0 .. MaxConnect /\ MaxConnect \in Nat
      /\ pc[c] # "idle" => Phase(c) /\ \A d \in Client \ {c} : pc[d] = "idle" /\ i[d] = 0
  BY OthersIdle, TableAssumption DEF TInv, Bounded
<1> USE <1>0, TableAssumption DEF Check, AtLimit, Return, Goto, table, Label, Adding, Dropping, Quiet
<1>1. TypeOK'
  <2>1. CASE num >= MaxConnect
    BY <2>1 DEF TInv, TypeOK, Hit
  <2>2. CASE num < MaxConnect
    BY <2>2 DEF TInv, TypeOK
  <2> QED
    BY <2>1, <2>2
<1>2. Alone'
  BY DEF TInv, Alone, TypeOK
<1>3. Bounded'
  BY DEF TInv, Bounded, TypeOK
<1>4. (Quiet => Packed(num))'
  BY DEF TInv, Packed, Phase, TypeOK
<1>5. (\A d \in Client : IF pc[d] = "idle" THEN i[d] = 0 ELSE Phase(d))'
  BY DEF TInv, Packed, Phase, TypeOK
<1> QED
  BY <1>1, <1>2, <1>3, <1>4, <1>5 DEF TInv

\* The step ConnectServer (connect_server) keeps the invariant.
LEMMA ConnectServerKeeps ==
  ASSUME TInv, TakeTurns, NEW c \in Client, ConnectServer(c)
  PROVE  TInv'
<1>0. /\ num \in 0 .. MaxConnect /\ MaxConnect \in Nat
      /\ pc[c] # "idle" => Phase(c) /\ \A d \in Client \ {c} : pc[d] = "idle" /\ i[d] = 0
  BY OthersIdle, TableAssumption DEF TInv, Bounded
<1> USE <1>0, TableAssumption DEF ConnectServer, Goto, table, Label, Adding, Dropping, Quiet
<1>1. TypeOK'
  BY DEF TInv, TypeOK
<1>2. Alone'
  BY DEF TInv, Alone, TypeOK
<1>3. Bounded'
  BY DEF TInv, Bounded, TypeOK
<1>4. (Quiet => Packed(num))'
  BY DEF TInv, Packed, Phase, TypeOK
<1>5. (\A d \in Client : IF pc[d] = "idle" THEN i[d] = 0 ELSE Phase(d))'
  BY DEF TInv, Packed, Phase, TypeOK
<1> QED
  BY <1>1, <1>2, <1>3, <1>4, <1>5 DEF TInv

\* The step Recheck (handle_service) keeps the invariant.
LEMMA RecheckKeeps ==
  ASSUME TInv, TakeTurns, NEW c \in Client, Recheck(c)
  PROVE  TInv'
<1>0. /\ num \in 0 .. MaxConnect /\ MaxConnect \in Nat
      /\ pc[c] # "idle" => Phase(c) /\ \A d \in Client \ {c} : pc[d] = "idle" /\ i[d] = 0
  BY OthersIdle, TableAssumption DEF TInv, Bounded
<1> USE <1>0, TableAssumption DEF Recheck, AtLimit, Return, Goto, table, outside, Label, Adding, Dropping, Quiet
<1>1. TypeOK'
  BY DEF TInv, TypeOK
<1>2. Alone'
  BY DEF TInv, Alone, TypeOK
<1>3. Bounded'
  BY DEF TInv, Bounded, TypeOK
<1>4. (Quiet => Packed(num))'
  BY DEF TInv, Packed, Phase, TypeOK
<1>5. (\A d \in Client : IF pc[d] = "idle" THEN i[d] = 0 ELSE Phase(d))'
  BY DEF TInv, Packed, Phase, TypeOK
<1> QED
  BY <1>1, <1>2, <1>3, <1>4, <1>5 DEF TInv

\* The step PutClient (add_socket) keeps the invariant.
LEMMA PutClientKeeps ==
  ASSUME TInv, TakeTurns, NEW c \in Client, PutClient(c)
  PROVE  TInv'
<1>0. /\ num \in 0 .. MaxConnect /\ MaxConnect \in Nat
      /\ pc[c] # "idle" => Phase(c) /\ \A d \in Client \ {c} : pc[d] = "idle" /\ i[d] = 0
  BY OthersIdle, TableAssumption DEF TInv, Bounded
<1> USE <1>0, TableAssumption DEF PutClient, Goto, outside, Label, Adding, Dropping, Quiet
<1>1. TypeOK'
  <2>1. num \in Slot /\ para[num] \in Entry
    BY DEF TInv, TypeOK, Phase, Slot
  <2>2. para' = [para EXCEPT ![num] = [para[num] EXCEPT !.pclient = c]]
    OBVIOUS
  <2>3. [para[num] EXCEPT !.pclient = c] \in Entry
    BY <2>1, EntryUpdate
  <2>4. \A e \in Entry : [para EXCEPT ![num] = e] \in [Slot -> Entry]
    BY <2>1 DEF TInv, TypeOK
  <2> QED
    BY <2>2, <2>3, <2>4 DEF TInv, TypeOK
<1>2. Alone'
  BY DEF TInv, Alone, TypeOK
<1>3. Bounded'
  BY DEF TInv, Bounded, Phase, HalfAdded, HalfDropped, TypeOK
<1>4. (Quiet => Packed(num))'
  BY DEF TInv, Packed, Phase, HalfAdded, HalfDropped, TypeOK, Slot, Entry, Clear
<1>5. (\A d \in Client : IF pc[d] = "idle" THEN i[d] = 0 ELSE Phase(d))'
  BY DEF TInv, Packed, Phase, HalfAdded, HalfDropped, TypeOK, Slot, Entry, Clear
<1> QED
  BY <1>1, <1>2, <1>3, <1>4, <1>5 DEF TInv

\* The step PutSocket (add_socket) keeps the invariant.
LEMMA PutSocketKeeps ==
  ASSUME TInv, TakeTurns, NEW c \in Client, PutSocket(c)
  PROVE  TInv'
<1>0. /\ num \in 0 .. MaxConnect /\ MaxConnect \in Nat
      /\ pc[c] # "idle" => Phase(c) /\ \A d \in Client \ {c} : pc[d] = "idle" /\ i[d] = 0
  BY OthersIdle, TableAssumption DEF TInv, Bounded
<1> USE <1>0, TableAssumption DEF PutSocket, Goto, outside, Label, Adding, Dropping, Quiet
<1>1. TypeOK'
  <2>1. num \in Slot /\ para[num] \in Entry /\ sock[c] \in Socket \cup {0}
    BY DEF TInv, TypeOK, Phase, HalfAdded, Slot
  <2>2. para' = [para EXCEPT ![num] = [para[num] EXCEPT !.socket = sock[c]]]
    OBVIOUS
  <2>3. [para[num] EXCEPT !.socket = sock[c]] \in Entry
    BY <2>1, EntryUpdate
  <2>4. \A e \in Entry : [para EXCEPT ![num] = e] \in [Slot -> Entry]
    BY <2>1 DEF TInv, TypeOK
  <2> QED
    BY <2>2, <2>3, <2>4 DEF TInv, TypeOK
<1>2. Alone'
  BY DEF TInv, Alone, TypeOK
<1>3. Bounded'
  BY DEF TInv, Bounded, Phase, HalfAdded, HalfDropped, TypeOK
<1>4. (Quiet => Packed(num))'
  BY DEF TInv, Packed, Phase, HalfAdded, HalfDropped, TypeOK, Slot, Entry, Clear
<1>5. (\A d \in Client : IF pc[d] = "idle" THEN i[d] = 0 ELSE Phase(d))'
  BY DEF TInv, Packed, Phase, HalfAdded, HalfDropped, TypeOK, Slot, Entry, Clear
<1> QED
  BY <1>1, <1>2, <1>3, <1>4, <1>5 DEF TInv

\* The step CountLoad (add_socket) keeps the invariant.
LEMMA CountLoadKeeps ==
  ASSUME TInv, TakeTurns, NEW c \in Client, CountLoad(c)
  PROVE  TInv'
<1>0. /\ num \in 0 .. MaxConnect /\ MaxConnect \in Nat
      /\ pc[c] # "idle" => Phase(c) /\ \A d \in Client \ {c} : pc[d] = "idle" /\ i[d] = 0
  BY OthersIdle, TableAssumption DEF TInv, Bounded
<1> USE <1>0, TableAssumption DEF CountLoad, Goto, table, outside, Label, Adding, Dropping, Quiet
<1>1. TypeOK'
  BY DEF TInv, TypeOK
<1>2. Alone'
  BY DEF TInv, Alone, TypeOK
<1>3. Bounded'
  BY DEF TInv, Bounded, Phase, HalfAdded, HalfDropped, TypeOK
<1>4. (Quiet => Packed(num))'
  BY DEF TInv, Packed, Phase, HalfAdded, HalfDropped, TypeOK, Slot, Entry, Clear
<1>5. (\A d \in Client : IF pc[d] = "idle" THEN i[d] = 0 ELSE Phase(d))'
  BY DEF TInv, Packed, Phase, HalfAdded, HalfDropped, TypeOK, Slot, Entry, Clear
<1> QED
  BY <1>1, <1>2, <1>3, <1>4, <1>5 DEF TInv

\* The step CountStore (add_socket) keeps the invariant.
LEMMA CountStoreKeeps ==
  ASSUME TInv, TakeTurns, NEW c \in Client, CountStore(c)
  PROVE  TInv'
<1>0. /\ num \in 0 .. MaxConnect /\ MaxConnect \in Nat
      /\ pc[c] # "idle" => Phase(c) /\ \A d \in Client \ {c} : pc[d] = "idle" /\ i[d] = 0
  BY OthersIdle, TableAssumption DEF TInv, Bounded
<1> USE <1>0, TableAssumption DEF CountStore, Goto, outside, Label, Adding, Dropping, Quiet
<1>1. TypeOK'
  BY DEF TInv, TypeOK
<1>2. Alone'
  BY DEF TInv, Alone, TypeOK
<1>3. Bounded'
  BY DEF TInv, Bounded, Phase, HalfAdded, HalfDropped, TypeOK
<1>4. (Quiet => Packed(num))'
  BY DEF TInv, Packed, Phase, HalfAdded, HalfDropped, TypeOK, Slot, Entry, Clear
<1>5. (\A d \in Client : IF pc[d] = "idle" THEN i[d] = 0 ELSE Phase(d))'
  BY DEF TInv, Packed, Phase, HalfAdded, HalfDropped, TypeOK, Slot, Entry, Clear
<1> QED
  BY <1>1, <1>2, <1>3, <1>4, <1>5 DEF TInv

\* The step NextEntry (get_socket) keeps the invariant.
LEMMA NextEntryKeeps ==
  ASSUME TInv, TakeTurns, NEW c \in Client, NextEntry(c)
  PROVE  TInv'
<1>0. /\ num \in 0 .. MaxConnect /\ MaxConnect \in Nat
      /\ pc[c] # "idle" => Phase(c) /\ \A d \in Client \ {c} : pc[d] = "idle" /\ i[d] = 0
  BY OthersIdle, TableAssumption DEF TInv, Bounded
<1> USE <1>0, TableAssumption DEF NextEntry, table, outside, Label, Adding, Dropping, Quiet
<1>1. TypeOK'
  BY DEF TInv, TypeOK
<1>2. Alone'
  BY DEF TInv, Alone, TypeOK
<1>3. Bounded'
  BY DEF TInv, Bounded, TypeOK
<1>4. (Quiet => Packed(num))'
  BY DEF TInv, Packed, Phase, TypeOK
<1>5. (\A d \in Client : IF pc[d] = "idle" THEN i[d] = 0 ELSE Phase(d))'
  BY DEF TInv, Packed, Phase, TypeOK
<1> QED
  BY <1>1, <1>2, <1>3, <1>4, <1>5 DEF TInv

\* The step GetSocket (handle_service) keeps the invariant.
LEMMA GetSocketKeeps ==
  ASSUME TInv, TakeTurns, NEW c \in Client, GetSocket(c)
  PROVE  TInv'
<1>0. /\ num \in 0 .. MaxConnect /\ MaxConnect \in Nat
      /\ pc[c] # "idle" => Phase(c) /\ \A d \in Client \ {c} : pc[d] = "idle" /\ i[d] = 0
  BY OthersIdle, TableAssumption DEF TInv, Bounded
<1> USE <1>0, TableAssumption DEF GetSocket, Return, Goto, table, outside, Label, Adding, Dropping, Quiet
<1>1. TypeOK'
  <2>1. CASE Hit(c, "exchange")
    <3>1. num \in Nat /\ i[c] \in Slot /\ para[i[c]] \in Entry
      BY <2>1 DEF TInv, TypeOK, Phase, Slot, Hit
    <3>2. para[i[c]].socket \in Socket \cup {0}
      BY <3>1 DEF Entry
    <3> QED
      BY <2>1, <3>2 DEF TInv, TypeOK, Hit
  <2>2. CASE Miss(c) /\ Return(c)
    BY <2>2 DEF TInv, TypeOK
  <2> QED
    BY <2>1, <2>2
<1>2. Alone'
  <2>1. CASE Hit(c, "exchange")
    BY <2>1 DEF TInv, Alone, TypeOK, Hit
  <2>2. CASE Miss(c) /\ Return(c)
    BY <2>2 DEF TInv, Alone, TypeOK
  <2> QED
    BY <2>1, <2>2
<1>3. Bounded'
  BY DEF TInv, Bounded, TypeOK
<1>4. (Quiet => Packed(num))'
  BY DEF TInv, Packed, Phase, TypeOK
<1>5. (\A d \in Client : IF pc[d] = "idle" THEN i[d] = 0 ELSE Phase(d))'
  <2>1. CASE Hit(c, "exchange")
    BY <2>1 DEF TInv, Packed, Phase, TypeOK, Hit
  <2>2. CASE Miss(c) /\ Return(c)
    BY <2>2 DEF TInv, Packed, Phase, TypeOK, Miss
  <2> QED
    BY <2>1, <2>2
<1> QED
  BY <1>1, <1>2, <1>3, <1>4, <1>5 DEF TInv

\* The step Exchange (handle_service) keeps the invariant.
LEMMA ExchangeKeeps ==
  ASSUME TInv, TakeTurns, NEW c \in Client, Exchange(c)
  PROVE  TInv'
<1>0. /\ num \in 0 .. MaxConnect /\ MaxConnect \in Nat
      /\ pc[c] # "idle" => Phase(c) /\ \A d \in Client \ {c} : pc[d] = "idle" /\ i[d] = 0
  BY OthersIdle, TableAssumption DEF TInv, Bounded
<1> USE <1>0, TableAssumption DEF Exchange, Return, Goto, table, Label, Adding, Dropping, Quiet
<1>1. TypeOK'
  <2>1. owner' \in [Socket -> Client \cup {NULL, Gone, Lost}]
    BY DEF TInv, TypeOK
  <2> QED
    BY <2>1 DEF TInv, TypeOK
<1>2. Alone'
  BY DEF TInv, Alone, TypeOK
<1>3. Bounded'
  BY DEF TInv, Bounded, TypeOK
<1>4. (Quiet => Packed(num))'
  BY DEF TInv, Packed, Phase, TypeOK
<1>5. (\A d \in Client : IF pc[d] = "idle" THEN i[d] = 0 ELSE Phase(d))'
  BY DEF TInv, Packed, Phase, TypeOK
<1> QED
  BY <1>1, <1>2, <1>3, <1>4, <1>5 DEF TInv

\* The step Close (handle_close) keeps the invariant.
LEMMA CloseKeeps ==
  ASSUME TInv, TakeTurns, NEW c \in Client, Close(c)
  PROVE  TInv'
<1>0. /\ num \in 0 .. MaxConnect /\ MaxConnect \in Nat
      /\ pc[c] # "idle" => Phase(c) /\ \A d \in Client \ {c} : pc[d] = "idle" /\ i[d] = 0
  BY OthersIdle, TableAssumption DEF TInv, Bounded
<1> USE <1>0, TableAssumption DEF Close, Enter, Goto, Closing, Quiet, TakeTurns, table, outside, Label, Adding, Dropping
<1>1. TypeOK'
  BY DEF TInv, TypeOK
<1>2. Alone'
  BY DEF TInv, Alone, TypeOK
<1>3. Bounded'
  BY DEF TInv, Bounded, TypeOK
<1>4. (Quiet => Packed(num))'
  BY DEF TInv, Packed, Phase, TypeOK
<1>5. (\A d \in Client : IF pc[d] = "idle" THEN i[d] = 0 ELSE Phase(d))'
  BY DEF TInv, Packed, Phase, TypeOK
<1> QED
  BY <1>1, <1>2, <1>3, <1>4, <1>5 DEF TInv

\* The step CloseGetSocket (handle_close) keeps the invariant.
LEMMA CloseGetSocketKeeps ==
  ASSUME TInv, TakeTurns, NEW c \in Client, CloseGetSocket(c)
  PROVE  TInv'
<1>0. /\ num \in 0 .. MaxConnect /\ MaxConnect \in Nat
      /\ pc[c] # "idle" => Phase(c) /\ \A d \in Client \ {c} : pc[d] = "idle" /\ i[d] = 0
  BY OthersIdle, TableAssumption DEF TInv, Bounded
<1> USE <1>0, TableAssumption DEF CloseGetSocket, Goto, table, outside, Label, Adding, Dropping, Quiet
<1>1. TypeOK'
  <2>1. CASE Hit(c, "find")
    <3>1. num \in Nat /\ i[c] \in Slot /\ para[i[c]] \in Entry
      BY <2>1 DEF TInv, TypeOK, Phase, Slot, Hit
    <3>2. para[i[c]].socket \in Socket \cup {0}
      BY <3>1 DEF Entry
    <3> QED
      BY <2>1, <3>2 DEF TInv, TypeOK, Hit
  <2>2. CASE Miss(c) /\ Goto(c, "leave") /\ UNCHANGED <<i, sock, tmp>>
    BY <2>2 DEF TInv, TypeOK
  <2> QED
    BY <2>1, <2>2
<1>2. Alone'
  <2>1. CASE Hit(c, "find")
    BY <2>1 DEF TInv, Alone, TypeOK, Hit
  <2>2. CASE Miss(c) /\ Goto(c, "leave") /\ UNCHANGED <<i, sock, tmp>>
    BY <2>2 DEF TInv, Alone, TypeOK
  <2> QED
    BY <2>1, <2>2
<1>3. Bounded'
  BY DEF TInv, Bounded, TypeOK
<1>4. (Quiet => Packed(num))'
  BY DEF TInv, Packed, Phase, TypeOK
<1>5. (\A d \in Client : IF pc[d] = "idle" THEN i[d] = 0 ELSE Phase(d))'
  <2>1. CASE Hit(c, "find")
    BY <2>1 DEF TInv, Packed, Phase, TypeOK, Hit
  <2>2. CASE Miss(c) /\ Goto(c, "leave") /\ UNCHANGED <<i, sock, tmp>>
    BY <2>2 DEF TInv, Packed, Phase, TypeOK, Miss
  <2> QED
    BY <2>1, <2>2
<1> QED
  BY <1>1, <1>2, <1>3, <1>4, <1>5 DEF TInv

\* The step Find (del_socket) keeps the invariant.
LEMMA FindKeeps ==
  ASSUME TInv, TakeTurns, NEW c \in Client, Find(c)
  PROVE  TInv'
<1>0. /\ num \in 0 .. MaxConnect /\ MaxConnect \in Nat
      /\ pc[c] # "idle" => Phase(c) /\ \A d \in Client \ {c} : pc[d] = "idle" /\ i[d] = 0
  BY OthersIdle, TableAssumption DEF TInv, Bounded
<1> USE <1>0, TableAssumption DEF Find, Goto, table, outside, Label, Adding, Dropping, Quiet
<1>1. TypeOK'
  BY DEF TInv, TypeOK
<1>2. Alone'
  BY DEF TInv, Alone, TypeOK
<1>3. Bounded'
  BY DEF TInv, Bounded, TypeOK
<1>4. (Quiet => Packed(num))'
  BY DEF TInv, Packed, Phase, TypeOK
<1>5. (\A d \in Client : IF pc[d] = "idle" THEN i[d] = 0 ELSE Phase(d))'
  <2>1. num > 0 /\ num \in Nat /\ Packed(num)
    BY DEF Phase
  <2>2. i'[c] \in 0 .. (num - 1)
    BY <2>1 DEF IsIndex, TInv, TypeOK
  <2> QED
    BY <2>1, <2>2 DEF TInv, TypeOK, Phase, Packed
<1> QED
  BY <1>1, <1>2, <1>3, <1>4, <1>5 DEF TInv

\* The step Shift (del_socket) keeps the invariant.
LEMMA ShiftKeeps ==
  ASSUME TInv, TakeTurns, NEW c \in Client, Shift(c)
  PROVE  TInv'
<1>0. /\ num \in 0 .. MaxConnect /\ MaxConnect \in Nat
      /\ pc[c] # "idle" => Phase(c) /\ \A d \in Client \ {c} : pc[d] = "idle" /\ i[d] = 0
  BY OthersIdle, TableAssumption DEF TInv, Bounded
<1> USE <1>0, TableAssumption DEF Shift, outside, Label, Adding, Dropping, Quiet
<1>1. TypeOK'
  <2>1. i[c] \in Slot /\ i[c] + 1 \in Slot
    BY DEF Phase, Slot
  <2>2. para[i[c] + 1] \in Entry
    BY <2>1 DEF TInv, TypeOK
  <2>3. para' \in [Slot -> Entry]
    BY <2>1, <2>2 DEF TInv, TypeOK
  <2> QED
    BY <2>3 DEF TInv, TypeOK
<1>2. Alone'
  BY DEF TInv, Alone, TypeOK
<1>3. Bounded'
  BY DEF TInv, Bounded, Phase, HalfAdded, HalfDropped, TypeOK
<1>4. (Quiet => Packed(num))'
  BY DEF TInv, Packed, Phase, HalfAdded, HalfDropped, TypeOK, Slot, Entry, Clear
<1>5. (\A d \in Client : IF pc[d] = "idle" THEN i[d] = 0 ELSE Phase(d))'
  <2>1. num > 0 /\ i[c] \in 0 .. (num - 1) /\ i[c] + 1 \in 0 .. (num - 1) /\ Packed(num)
    BY DEF Phase
  <2>2. Packed(num)'
    <3>1. /\ num' = num /\ i[c] \in Slot
          /\ para' = [para EXCEPT ![i[c]] = para[i[c] + 1]]
          /\ para \in [Slot -> Entry]
      BY <2>1 DEF TInv, TypeOK, Slot
    <3>2. \A k \in Slot : para'[k] = IF k = i[c] THEN para[i[c] + 1] ELSE para[k]
      BY <3>1
    <3>3. \A k \in 0 .. (num - 1) : para'[k].pclient # NULL
      BY <2>1, <3>2 DEF Packed, Slot
    <3>4. \A k \in Slot \ (0 .. (num - 1)) : para'[k] = Clear
      BY <2>1, <3>2 DEF Packed
    <3> QED
      BY <3>1, <3>3, <3>4 DEF Packed
  <2>3. i'[c] \in 0 .. (num' - 1)
    BY <2>1 DEF TInv, TypeOK
  <2> QED
    BY <2>1, <2>2, <2>3 DEF TInv, TypeOK, Phase
<1> QED
  BY <1>1, <1>2, <1>3, <1>4, <1>5 DEF TInv

\* The step ClearLast (del_socket) keeps the invariant.
LEMMA ClearLastKeeps ==
  ASSUME TInv, TakeTurns, NEW c \in Client, ClearLast(c)
  PROVE  TInv'
<1>0. /\ num \in 0 .. MaxConnect /\ MaxConnect \in Nat
      /\ pc[c] # "idle" => Phase(c) /\ \A d \in Client \ {c} : pc[d] = "idle" /\ i[d] = 0
  BY OthersIdle, TableAssumption DEF TInv, Bounded
<1> USE <1>0, TableAssumption DEF ClearLast, Goto, outside, Label, Adding, Dropping, Quiet
<1>1. TypeOK'
  <2>1. Clear \in Entry
    BY DEF Clear, Entry
  <2> QED
    BY <2>1 DEF TInv, TypeOK
<1>2. Alone'
  BY DEF TInv, Alone, TypeOK
<1>3. Bounded'
  BY DEF TInv, Bounded, Phase, HalfAdded, HalfDropped, TypeOK
<1>4. (Quiet => Packed(num))'
  BY DEF TInv, Packed, Phase, HalfAdded, HalfDropped, TypeOK, Slot, Entry, Clear
<1>5. (\A d \in Client : IF pc[d] = "idle" THEN i[d] = 0 ELSE Phase(d))'
  BY DEF TInv, Packed, Phase, HalfAdded, HalfDropped, TypeOK, Slot, Entry, Clear
<1> QED
  BY <1>1, <1>2, <1>3, <1>4, <1>5 DEF TInv

\* The step DropLoad (del_socket) keeps the invariant.
LEMMA DropLoadKeeps ==
  ASSUME TInv, TakeTurns, NEW c \in Client, DropLoad(c)
  PROVE  TInv'
<1>0. /\ num \in 0 .. MaxConnect /\ MaxConnect \in Nat
      /\ pc[c] # "idle" => Phase(c) /\ \A d \in Client \ {c} : pc[d] = "idle" /\ i[d] = 0
  BY OthersIdle, TableAssumption DEF TInv, Bounded
<1> USE <1>0, TableAssumption DEF DropLoad, Goto, table, outside, Label, Adding, Dropping, Quiet
<1>1. TypeOK'
  BY DEF TInv, TypeOK
<1>2. Alone'
  BY DEF TInv, Alone, TypeOK
<1>3. Bounded'
  BY DEF TInv, Bounded, Phase, HalfAdded, HalfDropped, TypeOK
<1>4. (Quiet => Packed(num))'
  BY DEF TInv, Packed, Phase, HalfAdded, HalfDropped, TypeOK, Slot, Entry, Clear
<1>5. (\A d \in Client : IF pc[d] = "idle" THEN i[d] = 0 ELSE Phase(d))'
  BY DEF TInv, Packed, Phase, HalfAdded, HalfDropped, TypeOK, Slot, Entry, Clear
<1> QED
  BY <1>1, <1>2, <1>3, <1>4, <1>5 DEF TInv

\* The step DropStore (del_socket) keeps the invariant.
LEMMA DropStoreKeeps ==
  ASSUME TInv, TakeTurns, NEW c \in Client, DropStore(c)
  PROVE  TInv'
<1>0. /\ num \in 0 .. MaxConnect /\ MaxConnect \in Nat
      /\ pc[c] # "idle" => Phase(c) /\ \A d \in Client \ {c} : pc[d] = "idle" /\ i[d] = 0
  BY OthersIdle, TableAssumption DEF TInv, Bounded
<1> USE <1>0, TableAssumption DEF DropStore, Goto, Label, Adding, Dropping, Quiet
<1>1. TypeOK'
  <2>1. owner' \in [Socket -> Client \cup {NULL, Gone, Lost}]
    BY DEF TInv, TypeOK
  <2>2. num' \in Int
    BY DEF TInv, TypeOK
  <2> QED
    BY <2>1, <2>2 DEF TInv, TypeOK
<1>2. Alone'
  BY DEF TInv, Alone, TypeOK
<1>3. Bounded'
  BY DEF TInv, Bounded, Phase, HalfAdded, HalfDropped, TypeOK
<1>4. (Quiet => Packed(num))'
  BY DEF TInv, Packed, Phase, HalfAdded, HalfDropped, TypeOK, Slot, Entry, Clear
<1>5. (\A d \in Client : IF pc[d] = "idle" THEN i[d] = 0 ELSE Phase(d))'
  BY DEF TInv, Packed, Phase, HalfAdded, HalfDropped, TypeOK, Slot, Entry, Clear
<1> QED
  BY <1>1, <1>2, <1>3, <1>4, <1>5 DEF TInv

\* The step Leave (handleClient) keeps the invariant.
LEMMA LeaveKeeps ==
  ASSUME TInv, TakeTurns, NEW c \in Client, Leave(c)
  PROVE  TInv'
<1>0. /\ num \in 0 .. MaxConnect /\ MaxConnect \in Nat
      /\ pc[c] # "idle" => Phase(c) /\ \A d \in Client \ {c} : pc[d] = "idle" /\ i[d] = 0
  BY OthersIdle, TableAssumption DEF TInv, Bounded
<1> USE <1>0, TableAssumption DEF Leave, Return, Goto, table, Label, Adding, Dropping, Quiet
<1>1. TypeOK'
  BY DEF TInv, TypeOK
<1>2. Alone'
  BY DEF TInv, Alone, TypeOK
<1>3. Bounded'
  BY DEF TInv, Bounded, TypeOK
<1>4. (Quiet => Packed(num))'
  BY DEF TInv, Packed, Phase, TypeOK
<1>5. (\A d \in Client : IF pc[d] = "idle" THEN i[d] = 0 ELSE Phase(d))'
  BY DEF TInv, Packed, Phase, TypeOK
<1> QED
  BY <1>1, <1>2, <1>3, <1>4, <1>5 DEF TInv

\* The death of the engine keeps the invariant: the table is not touched.
LEMMA EngineDiesKeeps ==
  ASSUME TInv, EngineDies
  PROVE  TInv'
<1> USE DEF EngineDies, table, thread
<1>1. TypeOK'
  <2>1. owner' \in [Socket -> Client \cup {NULL, Gone, Lost}]
    BY DEF TInv, TypeOK
  <2> QED
    BY <2>1 DEF TInv, TypeOK
<1>2. (Alone /\ Bounded)' /\ (Quiet => Packed(num))'
  BY DEF TInv, Alone, Bounded, Quiet, Packed
<1>3. (\A c \in Client : IF pc[c] = "idle" THEN i[c] = 0 ELSE Phase(c))'
  BY DEF TInv, Packed, Phase, HalfAdded, HalfDropped
<1> QED
  BY <1>1, <1>2, <1>3 DEF TInv

-----------------------------------------------------------------------------
(* Theorems *)

\* The initial states satisfy the invariant.
LEMMA InitHolds == Init => TInv
BY TableAssumption
   DEF Init, TInv, TypeOK, Alone, Bounded, Quiet, Packed, Slot, Clear, Entry, Label

\* Every step keeps the invariant when threads take turns.
LEMMA NextKeeps == TInv /\ TakeTurns /\ [Next]_vars => TInv'
<1> SUFFICES ASSUME TInv, TakeTurns, [Next]_vars
             PROVE  TInv'
  OBVIOUS
<1>1. CASE UNCHANGED vars
  BY <1>1 DEF vars, TInv, TypeOK, Alone, Bounded, Quiet, Packed, Phase, HalfAdded, HalfDropped
<1>2. ASSUME NEW c \in Client,
             Connected(c) \/ Start(c) \/ Move(c) \/ Close(c) \/ Step(c)
      PROVE  TInv'
  BY <1>2, ConnectedKeeps, StartKeeps, MoveKeeps, CheckKeeps, ConnectServerKeeps,
     RecheckKeeps, PutClientKeeps, PutSocketKeeps, CountLoadKeeps, CountStoreKeeps,
     NextEntryKeeps, GetSocketKeeps, ExchangeKeeps, CloseKeeps, CloseGetSocketKeeps,
     FindKeeps, ShiftKeeps, ClearLastKeeps, DropLoadKeeps, DropStoreKeeps, LeaveKeeps DEF Step
<1> QED
  BY <1>1, <1>2, EngineDiesKeeps DEF Next

\* Whether threads may overlap is settled at the start.
LEMMA TurnsSettled == [Next]_vars => (TakeTurns' <=> TakeTurns)
BY DEF Next, vars, TakeTurns, Connected, Start, Move, Close, Step, Check, ConnectServer,
       Recheck, PutClient, PutSocket, CountLoad, CountStore, NextEntry, GetSocket, Exchange,
       CloseGetSocket, Find, Shift, ClearLast, DropLoad, DropStore, Leave, outside,
       EngineDies

\* In a behaviour whose threads take turns the invariant holds in every state.
THEOREM InvariantHolds == Spec => [](TakeTurns => TInv)
<1>1. Init => (TakeTurns => TInv)
  BY InitHolds
<1>2. (TakeTurns => TInv) /\ [Next]_vars => (TakeTurns => TInv)'
  BY NextKeeps, TurnsSettled
<1> QED
  BY <1>1, <1>2, PTL DEF Spec

\* add_socket and del_socket stay inside g_con_para when calls do not overlap.
THEOREM BoundsKept == Spec => []InBounds
<1>1. (TakeTurns => TInv) => InBounds
  <2> SUFFICES ASSUME TInv, TakeTurns, NEW c \in Client
               PROVE  /\ pc[c] \in {"putClient", "putSocket"} => num \in Inner
                      /\ pc[c] = "shift" => i[c] \in Inner /\ num - 1 \in Inner
    BY DEF InBounds
  <2>1. num \in 0 .. MaxConnect /\ MaxConnect \in Nat
    BY TableAssumption DEF TInv, Bounded
  <2>2. pc[c] # "idle" => Phase(c)
    BY DEF TInv
  <2> QED
    BY <2>1, <2>2 DEF Phase, HalfAdded, Adding, Inner
<1> QED
  BY <1>1, InvariantHolds, PTL

\* Between calls the table has no gap and no remainder of a deleted entry.
THEOREM TableCompact == Spec => []Compact
<1>1. (TakeTurns => TInv) => Compact
  BY DEF TInv, Compact, Packed
<1> QED
  BY <1>1, InvariantHolds, PTL

-----------------------------------------------------------------------------
(* The count when two threads are in handle_service at once *)

Adders == {"putClient", "putSocket", "countLoad", "countStore"}

\* No more than two threads are inside, and one that closes is alone.
AtMostTwo == /\ \A a, b, c \in Client : pc[a] # "idle" /\ pc[b] # "idle" /\ pc[c] # "idle"
                                       => a = b \/ b = c \/ a = c
             /\ \A a, b \in Client : pc[a] \in Closing /\ pc[b] # "idle" => a = b

\* Two threads past the second test of the limit leave room for one of them; a
\* count that is held is one that leaves room for the thread that holds it.
Room == \A c \in Client :
  /\ pc[c] \in Adders => /\ num <= MaxConnect
                         /\ \A d \in Client \ {c} : pc[d] \in Adders => num < MaxConnect
  /\ pc[c] = "countStore" => /\ tmp[c] \in 0 .. MaxConnect
                             /\ tmp[c] = MaxConnect => num = MaxConnect
  /\ pc[c] \in {"find", "shift", "dropLoad", "dropStore"} => num > 0
  /\ pc[c] = "dropStore" => tmp[c] = num

CInv == /\ num \in 0 .. (MaxConnect + 1)
        /\ pc \in [Client -> Label] /\ i \in [Client -> Nat] /\ tmp \in [Client -> Int]
        /\ AtMostTwo /\ Room

\* A thread that enters finds at most one other inside.
LEMMA EnterKeeps ==
  ASSUME CInv, Together <= 2, NEW c \in Client, NEW label \in {"check", "lookup", "closeLookup"},
         Enter(c, label)
  PROVE  AtMostTwo'
<1>1. pc[c] = "idle" /\ pc' = [pc EXCEPT ![c] = label] /\ pc \in [Client -> Label]
  BY DEF Enter, Goto, CInv
<1>2. CASE Quiet
  BY <1>1, <1>2 DEF Quiet, AtMostTwo, Closing
<1>3. CASE ~Quiet
  <2> DEFINE In == {d \in Client : pc[d] # "idle"}
  <2>1. /\ label \notin Closing /\ \A d \in Client : pc[d] \notin Closing
        /\ Cardinality(In) < Together
    BY <1>3 DEF Enter
  <2>2. \A a, b \in Client : pc[a] # "idle" /\ pc[b] # "idle" => a = b
    <3> SUFFICES ASSUME NEW a \in Client, NEW b \in Client, pc[a] # "idle", pc[b] # "idle", a # b
                 PROVE  FALSE
      OBVIOUS
    <3>1. In = {a} \cup {b}
      BY DEF CInv, AtMostTwo
    <3>2. Cardinality(In) = 2
      <4>1. IsFiniteSet({a}) /\ Cardinality({a}) = 1
        BY FS_Singleton
      <4>2. Cardinality({a} \cup {b}) = 2
        BY <4>1, FS_AddElement
      <4> QED
        BY <3>1, <4>2
    <3> QED
      BY <2>1, <3>2, TableAssumption
  <2> QED
    BY <1>1, <2>1, <2>2 DEF AtMostTwo
<1> QED
  BY <1>2, <1>3

\* A step into service.c keeps the bound of the count.
LEMMA EnterRoom ==
  ASSUME CInv, Together <= 2, NEW c \in Client, Start(c) \/ Move(c) \/ Close(c)
  PROVE  CInv'
<1>1. PICK label \in {"check", "lookup", "closeLookup"} : Enter(c, label)
  BY DEF Start, Move, Close
<1>2. UNCHANGED <<num, i, tmp>> /\ pc[c] = "idle" /\ pc' = [pc EXCEPT ![c] = label]
  BY <1>1 DEF Start, Move, Close, table, Enter, Goto
<1>3. AtMostTwo'
  BY <1>1, EnterKeeps
<1> QED
  BY <1>2, <1>3 DEF CInv, Room, Adders, Label

\* A step inside service.c does.
LEMMA StepRoom ==
  ASSUME CInv, NEW c \in Client, Step(c)
  PROVE  CInv'
<1> USE TableAssumption DEF CInv, AtMostTwo, Room, Adders, Closing, Label
<1>1. CASE Check(c)
  <2>1. /\ pc[c] = "check" /\ UNCHANGED num
        /\ \E label \in {"idle", "connect"} : pc' = [pc EXCEPT ![c] = label]
        /\ i' = i \/ i' = [i EXCEPT ![c] = 0]
        /\ tmp' = tmp \/ tmp' = [tmp EXCEPT ![c] = 0]
    BY <1>1 DEF Check, Return, Goto, table
  <2> QED
    BY <2>1
<1>2. CASE ConnectServer(c)
  BY <1>2 DEF ConnectServer, Goto, table
<1>3. CASE Recheck(c)
  BY <1>3 DEF Recheck, AtLimit, Return, Goto, table
<1>4. CASE PutClient(c) \/ PutSocket(c)
  BY <1>4 DEF PutClient, PutSocket, Goto
<1>5. CASE CountLoad(c)
  BY <1>5 DEF CountLoad, Goto, table
<1>6. CASE CountStore(c)
  BY <1>6 DEF CountStore, Goto
<1>7. CASE NextEntry(c)
  BY <1>7 DEF NextEntry, table
<1>8. CASE GetSocket(c)
  BY <1>8 DEF GetSocket, Hit, Return, Goto, table
<1>9. CASE Exchange(c)
  BY <1>9 DEF Exchange, Return, Goto, table
<1>10. CASE CloseGetSocket(c)
  BY <1>10 DEF CloseGetSocket, Hit, Goto, table
<1>11. CASE Find(c)
  BY <1>11 DEF Find, Goto, table
<1>12. CASE Shift(c) \/ ClearLast(c)
  BY <1>12 DEF Shift, ClearLast, Goto
<1>13. CASE DropLoad(c)
  BY <1>13 DEF DropLoad, Goto, table
<1>14. CASE DropStore(c)
  BY <1>14 DEF DropStore, Goto
<1>15. CASE Leave(c)
  BY <1>15 DEF Leave, Return, Goto, table
<1> QED
  BY <1>1, <1>2, <1>3, <1>4, <1>5, <1>6, <1>7, <1>8, <1>9, <1>10, <1>11, <1>12, <1>13, <1>14,
     <1>15 DEF Step

\* g_cur_con_num never exceeds MAX_CONNECT when the threads take turns, and by no
\* more than one when two of them are inside at once.
THEOREM CapacityHolds == Spec => []Capacity
<1>1. Init /\ Together <= 2 => CInv
  BY TableAssumption DEF Init, CInv, AtMostTwo, Room, Adders, Closing, Label
<1>2. CInv /\ Together <= 2 /\ [Next]_vars => CInv'
  <2> SUFFICES ASSUME CInv, Together <= 2, [Next]_vars PROVE CInv'
    OBVIOUS
  <2>1. CASE UNCHANGED vars \/ EngineDies \/ \E c \in Client : Connected(c)
    BY <2>1 DEF vars, EngineDies, Connected, table, thread, CInv, AtMostTwo, Room
  <2> QED
    BY <2>1, EnterRoom, StepRoom DEF Next
<1>3. (TakeTurns => TInv) /\ (Together <= 2 => CInv) => Capacity
  BY TableAssumption DEF TInv, Bounded, CInv, Capacity
<1>4. Init => (Together <= 2 => CInv)
  BY <1>1
<1>5. (Together <= 2 => CInv) /\ [Next]_vars => (Together <= 2 => CInv)'
  BY <1>2
<1> QED
  BY <1>3, <1>4, <1>5, InvariantHolds, PTL DEF Spec

-----------------------------------------------------------------------------
(* The sessions of the clients, when the threads take turns *)

\* The positions of the entries; one that is being deleted is left out.
Rows == {k \in 0 .. (num - 1) :
           \A c \in Client : /\ pc[c] = "shift" => k # i[c]
                             /\ pc[c] \in Dropping => k # num - 1}

\* The first entry of a client, which is the one get_socket finds, has the socket.
First(c, k)     == /\ k \in Rows /\ para[k].pclient = c
                   /\ \A j \in Rows : j < k => para[j].pclient # c
SessionOf(c, s) == \E k \in Rows : First(c, k) /\ para[k].socket = s

\* No entry has the socket.
Fresh(s) == \A k \in Rows : para[k].socket # s

\* The sockets of the entries are different, and open.
Distinct == \A k, l \in Rows : para[k].socket # 0 /\ para[k].socket = para[l].socket => k = l
Open     == \A k \in Rows : para[k].socket # 0 => owner[para[k].socket] \notin {NULL, Lost}

Putting  == {"recheck", "putClient"} \cup Adding
Removing == {"shift"} \cup Dropping

\* What the locals of the running thread stand for.
Locals(c) ==
  /\ pc[c] \in Putting /\ sock[c] # 0 => Fresh(sock[c]) /\ owner[sock[c]] = c
  /\ pc[c] \in Adding => para[num].pclient = c
  /\ pc[c] \in {"countLoad", "countStore"} => para[num].socket = sock[c]
  /\ pc[c] \in {"lookup", "closeLookup"} => \A j \in 0 .. (i[c] - 1) : para[j].pclient # c
  /\ pc[c] \in {"exchange", "find"} => sock[c] # 0 /\ SessionOf(c, sock[c])
  /\ pc[c] \in Removing => sock[c] # 0 /\ Fresh(sock[c])

\* A client's requests go to its first entry.
Stays(c) == sentOn[c] # 0 /\ pc[c] \notin Removing \cup {"leave"} => SessionOf(c, sentOn[c])

SInv == Distinct /\ Open /\ \A c \in Client : Locals(c) /\ Stays(c)

\* An entry behind one without a session is never found; another with a session is
\* used by its client.
Hidden(k)  == \E j \in Rows : j < k /\ para[j].pclient = para[k].pclient /\ para[j].socket = 0
Used(c, k) == para[k].pclient = c /\ para[k].socket # 0 /\ ~Hidden(k)

\* A session that is used belongs to the client; it has one, and none before its
\* start and after its end.
Mine       == \A c \in Client : \A k \in Rows : Used(c, k) => owner[para[k].socket] = c
OneEach    == \A c \in Client : \A k, l \in Rows : Used(c, k) /\ Used(c, l) => k = l
Without(c) == c \notin started \/ pc[c] \in {"check", "connect", "leave"} \cup Putting \cup Removing
NoneYet(c) == Without(c) => \A k \in Rows : ~Used(c, k)

Owns(c) == /\ pc[c] \in {"exchange", "find"} \cup Removing => owner[sock[c]] = c
           /\ sentOn[c] # 0 /\ pc[c] # "leave" => owner[sentOn[c]] = c
           /\ pc[c] \in {"check", "connect"} \cup Putting => c \in started

OInv == Mine /\ OneEach /\ \A c \in Client : NoneYet(c) /\ Owns(c)

\* A step moves no entry past another: what is found, hidden and used stays so.
RowsKept ==
  /\ \A k \in Rows' : \E l \in Rows : para'[k] = para[l]
  /\ Distinct => Distinct'
  /\ \A c \in Client : \A s \in Socket : SessionOf(c, s) => SessionOf(c, s)'
  /\ \A c \in Client : \A k \in Rows' : Used(c, k)' => \E l \in Rows : Used(c, l) /\ para'[k] = para[l]
  /\ OneEach => OneEach'

\* The step moves entry f[k] to place k.
Moves(f) == /\ \A k \in Rows' : f[k] \in Rows /\ para'[k] = para[f[k]]
            /\ \A l \in Rows : \E k \in Rows' : f[k] = l
            /\ \A j, k \in Rows' : j < k <=> f[j] < f[k]

-----------------------------------------------------------------------------
(* Steps that keep the entries *)

LEMMA RowsAreNumbers == Rows \subseteq Int /\ Rows' \subseteq Int
BY DEF Rows

\* Entries that keep their order keep everything.
LEMMA MovedKept ==
  ASSUME NEW f, Moves(f)
  PROVE  RowsKept
<1>1. \A k \in Rows' : \E l \in Rows : para'[k] = para[l]
  BY DEF Moves
<1>2. ASSUME Distinct PROVE Distinct'
  <2> SUFFICES ASSUME NEW k \in Rows', NEW l \in Rows', para'[k].socket # 0,
                      para'[k].socket = para'[l].socket
               PROVE  k = l
    BY DEF Distinct
  <2>1. f[k] = f[l]
    BY <1>2 DEF Moves, Distinct
  <2>2. ~(k < l) /\ ~(l < k)
    BY <2>1, RowsAreNumbers DEF Moves
  <2> QED
    BY <2>2, RowsAreNumbers
<1>3. ASSUME NEW c \in Client, NEW s \in Socket, SessionOf(c, s) PROVE SessionOf(c, s)'
  <2>1. PICK l \in Rows : First(c, l) /\ para[l].socket = s
    BY <1>3 DEF SessionOf
  <2>2. PICK k \in Rows' : f[k] = l
    BY DEF Moves
  <2>3. para'[k] = para[l] /\ \A j \in Rows' : j < k => f[j] \in Rows /\ f[j] < l /\ para'[j] = para[f[j]]
    BY <2>2 DEF Moves
  <2>4. First(c, k)'
    BY <2>1, <2>3 DEF First
  <2> QED
    BY <2>1, <2>3, <2>4 DEF SessionOf
<1>4. ASSUME NEW c \in Client, NEW k \in Rows', Used(c, k)' PROVE Used(c, f[k])
  <2>1. ASSUME Hidden(f[k]) PROVE Hidden(k)'
    <3>1. PICK l \in Rows : l < f[k] /\ para[l].pclient = para[f[k]].pclient /\ para[l].socket = 0
      BY <2>1 DEF Hidden
    <3>2. PICK j \in Rows' : f[j] = l
      BY DEF Moves
    <3> QED
      BY <3>1, <3>2 DEF Moves, Hidden
  <2> QED
    BY <1>4, <2>1 DEF Used, Moves
<1>5. ASSUME OneEach PROVE OneEach'
  <2> SUFFICES ASSUME NEW c \in Client, NEW k \in Rows', NEW l \in Rows', Used(c, k)', Used(c, l)'
               PROVE  k = l
    BY DEF OneEach
  <2>1. f[k] = f[l]
    BY <1>4, <1>5 DEF Moves, OneEach
  <2>2. ~(k < l) /\ ~(l < k)
    BY <2>1, RowsAreNumbers DEF Moves
  <2> QED
    BY <2>2, RowsAreNumbers
<1> QED
  BY <1>1, <1>2, <1>3, <1>4, <1>5 DEF RowsKept, Moves

\* Entries that stay where they are do.
LEMMA SameKept ==
  ASSUME Rows' = Rows, \A k \in Rows : para'[k] = para[k]
  PROVE  RowsKept
<1> DEFINE f == [k \in Rows |-> k]
<1>1. Moves(f)
  BY DEF Moves
<1> QED
  BY <1>1, MovedKept

\* The shift of del_socket keeps the order of the entries that are left.
LEMMA ShiftKept ==
  ASSUME TInv, NEW c \in Client, Shift(c)
  PROVE  RowsKept
<1>1. /\ pc[c] = "shift" /\ i[c] < num - 1 /\ num' = num /\ pc' = pc
      /\ i[c] \in 0 .. (num - 1) /\ num \in Nat /\ num <= MaxConnect /\ i'[c] = i[c] + 1
  BY OthersIdle, TableAssumption DEF Shift, TInv, TypeOK, Bounded, Phase
<1>2. \A d \in Client \ {c} : pc[d] = "idle"
  BY <1>1, OthersIdle
<1>3. Rows = (0 .. (num - 1)) \ {i[c]} /\ Rows' = (0 .. (num - 1)) \ {i[c] + 1}
  BY <1>1, <1>2 DEF Rows, Dropping
<1>4. \A k \in 0 .. (num - 1) : para'[k] = IF k = i[c] THEN para[i[c] + 1] ELSE para[k]
  <2>1. i[c] \in Slot /\ para' = [para EXCEPT ![i[c]] = para[i[c] + 1]] /\ para \in [Slot -> Entry]
        /\ 0 .. (num - 1) \subseteq Slot
    BY <1>1, TableAssumption DEF Shift, TInv, TypeOK, Slot
  <2> QED
    BY <2>1
<1> DEFINE f == [k \in Rows' |-> IF k = i[c] THEN i[c] + 1 ELSE k]
<1>5. Moves(f)
  <2>1. \A k \in Rows' : f[k] \in Rows /\ para'[k] = para[f[k]]
    BY <1>1, <1>3, <1>4
  <2>2. \A l \in Rows : \E k \in Rows' : f[k] = l
    <3> SUFFICES ASSUME NEW l \in Rows PROVE \E k \in Rows' : f[k] = l
      OBVIOUS
    <3>1. CASE l = i[c] + 1
      BY <1>1, <1>3, <3>1
    <3>2. CASE l # i[c] + 1
      BY <1>1, <1>3, <3>2
    <3> QED
      BY <3>1, <3>2
  <2>3. \A j, k \in Rows' : j < k <=> f[j] < f[k]
    BY <1>1, <1>3
  <2> QED
    BY <2>1, <2>2, <2>3 DEF Moves
<1> QED
  BY <1>5, MovedKept

\* The other threads are outside before and after the step.
OnlyIn(c) == \A d \in Client \ {c} : pc[d] = "idle" /\ pc'[d] = "idle"

\* Outside del_socket the entries are the first num ones.
LEMMA RowsAll ==
  ASSUME NEW c \in Client, OnlyIn(c)
  PROVE  /\ pc[c] \notin Removing => Rows = 0 .. (num - 1)
         /\ pc'[c] \notin Removing => Rows' = 0 .. (num' - 1)
BY DEF OnlyIn, Rows, Removing, Dropping

\* A step outside del_socket that writes no entry.
LEMMA StillKept ==
  ASSUME NEW c \in Client, OnlyIn(c), pc[c] \notin Removing, pc'[c] \notin Removing,
         num' = num, \A k \in 0 .. (num - 1) : para'[k] = para[k]
  PROVE  RowsKept
BY RowsAll, SameKept

\* The sessions, when a step keeps the entries and no session is opened or closed.
LEMMA SessionsFrame ==
  ASSUME TInv, SInv, RowsKept, NEW c \in Client, OnlyIn(c), owner' = owner, sentOn' = sentOn,
         Locals(c)', pc[c] \in Removing \cup {"leave"} => pc'[c] \in Removing \cup {"leave"}
  PROVE  SInv'
<1>1. Distinct' /\ Open'
  BY DEF SInv, RowsKept, Open
<1>2. ASSUME NEW d \in Client, d # c PROVE Locals(d)'
  BY <1>2 DEF OnlyIn, Locals, Putting, Adding, Removing, Dropping
<1>3. ASSUME NEW d \in Client PROVE Stays(d)'
  <2>1. pc[d] \in Removing \cup {"leave"} => pc'[d] \in Removing \cup {"leave"}
    BY DEF OnlyIn, Removing, Dropping
  <2>2. Stays(d) /\ sentOn[d] \in Socket \cup {0}
    BY DEF SInv, TInv, TypeOK
  <2> QED
    BY <2>1, <2>2 DEF Stays, RowsKept
<1> QED
  BY <1>1, <1>2, <1>3 DEF SInv

\* The owners.
LEMMA OwnersFrame ==
  ASSUME OInv, RowsKept, NEW c \in Client, OnlyIn(c), owner' = owner, sentOn' = sentOn,
         started' \ {c} = started \ {c},
         Owns(c)', Without(c)' => \A k \in Rows : ~Used(c, k)
  PROVE  OInv'
<1>1. Mine' /\ OneEach'
  BY DEF OInv, RowsKept, Mine
<1>2. ASSUME NEW d \in Client PROVE NoneYet(d)'
  <2>1. Without(d)' => \A k \in Rows : ~Used(d, k)
    <3>1. CASE d = c
      BY <3>1
    <3>2. CASE d # c
      BY <3>2 DEF OInv, OnlyIn, NoneYet, Without, Putting, Adding, Removing, Dropping
    <3> QED
      BY <3>1, <3>2
  <2> QED
    BY <2>1 DEF NoneYet, RowsKept
<1>3. ASSUME NEW d \in Client, d # c PROVE Owns(d)'
  BY <1>3 DEF OInv, OnlyIn, Owns, Putting, Adding, Removing, Dropping
<1> QED
  BY <1>1, <1>2, <1>3 DEF OInv

\* A socket that no entry has stays so when the entries do.
LEMMA FreshKept ==
  ASSUME RowsKept, NEW c \in Client, sock'[c] = sock[c], Fresh(sock[c])
  PROVE  Fresh(sock[c])'
BY DEF RowsKept, Fresh

-----------------------------------------------------------------------------
(* Every step keeps the sessions and their owners *)

\* A thread enters: a browser's first start, or any other request.
LEMMA EnterSessions ==
  ASSUME TInv, TakeTurns, SInv, NEW c \in Client, Start(c) \/ Move(c) \/ Close(c)
  PROVE  SInv' /\ (faults \subseteq {"refusal"} /\ OInv => OInv')
<1>1. /\ pc[c] = "idle" /\ pc'[c] \in {"check", "lookup", "closeLookup"}
      /\ ~Start(c) => pc'[c] \in {"lookup", "closeLookup"}
  BY DEF Start, Move, Close, Enter, Goto, TInv, TypeOK
<1>2. OnlyIn(c) /\ i[c] = 0
  BY DEF Start, Move, Close, Enter, Goto, Quiet, TakeTurns, OnlyIn, TInv, TypeOK
<1>3. UNCHANGED <<num, para, i, sock, owner, sentOn>>
  BY DEF Start, Move, Close, table, outside
<1>4. RowsKept
  BY <1>1, <1>2, <1>3, StillKept DEF Removing, Dropping
<1>5. Locals(c)'
  BY <1>1, <1>2, <1>3 DEF Locals, Putting, Adding, Removing, Dropping
<1>6. SInv'
  BY <1>1, <1>2, <1>3, <1>4, <1>5, SessionsFrame DEF Removing, Dropping
<1>7. ASSUME faults \subseteq {"refusal"}, OInv PROVE OInv'
  <2>1. CASE Start(c)
    <3>1. c \notin started /\ started' = started \cup {c} /\ pc'[c] = "check"
      BY <1>7, <2>1 DEF Start, Enter, Goto, TInv, TypeOK
    <3>2. \A k \in Rows : ~Used(c, k)
      BY <1>7, <3>1 DEF OInv, NoneYet, Without
    <3>3. Owns(c)'
      BY <1>1, <1>2, <1>3, <1>7, <3>1 DEF OInv, Owns, Removing, Dropping
    <3> QED
      BY <1>1, <1>2, <1>3, <1>4, <1>7, <3>1, <3>2, <3>3, OwnersFrame
  <2>2. CASE ~Start(c)
    <3>1. started' = started /\ pc'[c] \in {"lookup", "closeLookup"}
      BY <1>1, <1>2, <1>3, <2>2 DEF Move, Close, outside
    <3>2. Without(c)' => \A k \in Rows : ~Used(c, k)
      BY <1>7, <3>1 DEF OInv, NoneYet, Without, Putting, Adding, Removing, Dropping
    <3>3. Owns(c)'
      BY <1>1, <1>2, <1>3, <1>7, <3>1 DEF OInv, Owns, Putting, Adding, Removing, Dropping
    <3> QED
      BY <1>1, <1>2, <1>3, <1>4, <1>7, <3>1, <3>2, <3>3, OwnersFrame
  <2> QED
    BY <2>1, <2>2
<1> QED
  BY <1>6, <1>7

\* A step inside service.c is made by the only thread there.
LEMMA StepOnly ==
  ASSUME TInv, NEW c \in Client, Step(c)
  PROVE  /\ pc[c] # "idle" /\ Phase(c) /\ OnlyIn(c)
         /\ num \in 0 .. MaxConnect /\ MaxConnect \in Nat /\ para \in [Slot -> Entry]
         /\ sock \in [Client -> Socket \cup {0}] /\ sentOn \in [Client -> Socket \cup {0}]
<1>1. pc[c] # "idle"
  BY DEF Step, Check, ConnectServer, Recheck, PutClient, PutSocket, CountLoad, CountStore, NextEntry,
     GetSocket, Exchange, CloseGetSocket, Find, Shift, ClearLast, DropLoad, DropStore, Leave
<1>2. \A d \in Client \ {c} : pc'[d] = pc[d]
  BY DEF Step, Check, ConnectServer, Recheck, PutClient, PutSocket, CountLoad, CountStore, NextEntry,
     GetSocket, Exchange, CloseGetSocket, Find, Shift, ClearLast, DropLoad, DropStore, Leave,
     Hit, Return, Goto, TInv, TypeOK
<1> QED
  BY <1>1, <1>2, OthersIdle, TableAssumption DEF OnlyIn, TInv, TypeOK, Bounded

\* The thread returns, or goes on to the place of the next step.
LEMMA CheckSessions ==
  ASSUME TInv, SInv, NEW c \in Client, Check(c)
  PROVE  SInv' /\ (OInv => OInv')
<1>1. /\ OnlyIn(c) /\ pc[c] = "check" /\ pc'[c] \in {"idle", "connect"}
      /\ UNCHANGED <<num, para, owner, sentOn, started>>
  BY StepOnly DEF Step, Check, Return, Goto, table, TInv, TypeOK
<1>2. RowsKept
  BY <1>1, StillKept DEF Removing, Dropping
<1>3. Locals(c)'
  BY <1>1 DEF Locals, Putting, Adding, Removing, Dropping
<1>4. SInv'
  BY <1>1, <1>2, <1>3, SessionsFrame DEF Removing, Dropping
<1>5. ASSUME OInv PROVE OInv'
  <2>1. Without(c)' => \A k \in Rows : ~Used(c, k)
    BY <1>1, <1>5 DEF OInv, NoneYet, Without
  <2>2. Owns(c)'
    BY <1>1, <1>5 DEF OInv, Owns, Removing, Dropping, Putting, Adding
  <2> QED
    BY <1>1, <1>2, <1>5, <2>1, <2>2, OwnersFrame
<1> QED
  BY <1>4, <1>5

\* The steps of add_socket up to the count.
LEMMA PutSessions ==
  ASSUME TInv, SInv, NEW c \in Client, Recheck(c) \/ PutClient(c) \/ PutSocket(c) \/ CountLoad(c)
  PROVE  SInv' /\ (OInv => OInv')
<1>1. /\ OnlyIn(c) /\ pc[c] \in Putting /\ pc'[c] \in Putting \cup {"idle"}
      /\ UNCHANGED <<num, owner, sentOn, started>>
      /\ pc'[c] # "idle" => sock'[c] = sock[c]
  BY StepOnly DEF Step, Recheck, PutClient, PutSocket, CountLoad, Return, Goto, table, outside, TInv,
     TypeOK, Putting, Adding
<1>2. num \in Slot /\ num \in Nat /\ para \in [Slot -> Entry]
  BY StepOnly DEF Step, Slot
<1>3. \A k \in Slot : k # num => para'[k] = para[k]
  BY <1>2 DEF Recheck, PutClient, PutSocket, CountLoad, table
<1>4. pc[c] \notin Removing /\ pc'[c] \notin Removing
  BY <1>1 DEF Removing, Dropping, Putting, Adding
<1>5. RowsKept
  <2>1. \A k \in 0 .. (num - 1) : para'[k] = para[k]
    BY <1>2, <1>3, StepOnly DEF Step, Slot
  <2> QED
    BY <1>1, <1>4, <2>1, StillKept
<1>6. Locals(c)'
  <2>1. pc'[c] \in Putting /\ sock'[c] # 0 => (Fresh(sock[c]) /\ owner[sock[c]] = c)'
    <3>1. sock[c] # 0 => Fresh(sock[c]) /\ owner[sock[c]] = c
      BY <1>1 DEF SInv, Locals
    <3>2. pc'[c] \in Putting => sock'[c] = sock[c]
      BY <1>1 DEF Putting, Adding
    <3> QED
      BY <1>1, <1>5, <3>1, <3>2, FreshKept
  <2>2. pc'[c] \in Adding => para'[num].pclient = c
    BY <1>2 DEF SInv, Locals, Adding, Recheck, PutClient, PutSocket, CountLoad, Return, Goto, table,
       TInv, TypeOK, Entry
  <2>3. pc'[c] \in {"countLoad", "countStore"} => para'[num].socket = sock'[c]
    BY <1>2 DEF SInv, Locals, Recheck, PutClient, PutSocket, CountLoad, Return, Goto, table,
       TInv, TypeOK, Entry
  <2> QED
    BY <1>1, <2>1, <2>2, <2>3 DEF Locals, Putting, Adding, Removing, Dropping
<1>7. SInv'
  BY <1>1, <1>4, <1>5, <1>6, SessionsFrame DEF Putting, Adding
<1>8. ASSUME OInv PROVE OInv'
  <2>1. Without(c)' => \A k \in Rows : ~Used(c, k)
    BY <1>1, <1>8 DEF OInv, NoneYet, Without
  <2>2. Owns(c)'
    BY <1>1, <1>4, <1>8 DEF OInv, Owns, Putting, Adding, Removing, Dropping
  <2> QED
    BY <1>1, <1>5, <1>8, <2>1, <2>2, OwnersFrame
<1> QED
  BY <1>7, <1>8

\* The loop of get_socket goes past an entry of another client.
LEMMA NextEntrySessions ==
  ASSUME TInv, SInv, NEW c \in Client, NextEntry(c)
  PROVE  SInv' /\ (OInv => OInv')
<1>1. /\ OnlyIn(c) /\ pc[c] \in {"lookup", "closeLookup"} /\ pc' = pc
      /\ UNCHANGED <<num, para, owner, sentOn, started>>
      /\ i[c] \in 0 .. num /\ i'[c] = i[c] + 1 /\ para[i[c]].pclient # c
  BY StepOnly DEF Step, NextEntry, table, outside, TInv, TypeOK, Phase
<1>2. RowsKept
  BY <1>1, StillKept DEF Removing, Dropping
<1>3. Locals(c)'
  <2>1. \A j \in 0 .. (i'[c] - 1) : para'[j].pclient # c
    BY <1>1 DEF SInv, Locals
  <2> QED
    BY <1>1, <2>1 DEF Locals, Putting, Adding, Removing, Dropping
<1>4. SInv'
  BY <1>1, <1>2, <1>3, SessionsFrame DEF Removing, Dropping
<1>5. ASSUME OInv PROVE OInv'
  <2>1. Without(c)' => \A k \in Rows : ~Used(c, k)
    BY <1>1, <1>5 DEF OInv, NoneYet, Without
  <2>2. Owns(c)'
    BY <1>1, <1>5 DEF OInv, Owns, Removing, Dropping, Putting, Adding
  <2> QED
    BY <1>1, <1>2, <1>5, <2>1, <2>2, OwnersFrame
<1> QED
  BY <1>4, <1>5

\* What get_socket finds is the first entry of the client.
LEMMA HitSession ==
  ASSUME TInv, SInv, NEW c \in Client, NEW label, OnlyIn(c), Phase(c),
         pc[c] \in {"lookup", "closeLookup"}, Hit(c, label)
  PROVE  sock'[c] # 0 /\ SessionOf(c, sock'[c])
<1>1. /\ i[c] \in 0 .. num /\ i[c] < num /\ num \in Nat /\ para[i[c]].pclient = c
      /\ sock'[c] = para[i[c]].socket /\ sock'[c] # 0
      /\ \A j \in 0 .. (i[c] - 1) : para[j].pclient # c
  BY TableAssumption DEF Hit, Phase, TInv, TypeOK, Bounded, SInv, Locals
<1>2. Rows = 0 .. (num - 1)
  BY RowsAll DEF Removing, Dropping
<1>3. First(c, i[c])
  BY <1>1, <1>2 DEF First
<1> QED
  BY <1>1, <1>2, <1>3 DEF SessionOf

\* The session of the first entry belongs to the client.
LEMMA FirstOwned ==
  ASSUME OInv, NEW c \in Client, NEW s, s # 0, SessionOf(c, s)
  PROVE  owner[s] = c
<1>1. PICK k \in Rows : First(c, k) /\ para[k].socket = s
  BY DEF SessionOf
<1>2. Used(c, k)
  BY <1>1 DEF First, Used, Hidden
<1> QED
  BY <1>1, <1>2 DEF OInv, Mine

\* get_socket ends, in handle_service.
LEMMA GetSocketSessions ==
  ASSUME TInv, SInv, NEW c \in Client, GetSocket(c)
  PROVE  SInv' /\ (OInv => OInv')
<1>1. /\ OnlyIn(c) /\ Phase(c) /\ pc[c] = "lookup" /\ pc'[c] \in {"exchange", "idle"}
      /\ UNCHANGED <<num, para, owner, sentOn, started>>
      /\ pc'[c] = "exchange" => Hit(c, "exchange")
  BY StepOnly DEF Step, GetSocket, Hit, Return, Goto, table, outside, TInv, TypeOK
<1>2. RowsKept
  BY <1>1, StillKept DEF Removing, Dropping
<1>3. pc'[c] = "exchange" => /\ sock'[c] # 0 /\ SessionOf(c, sock'[c])
                            /\ sock'[c] \in Socket
  <2>1. sock'[c] = para[i[c]].socket /\ i[c] \in Slot => sock'[c] \in Socket \cup {0}
    BY DEF TInv, TypeOK, Entry
  <2>2. i[c] \in 0 .. num => i[c] \in Slot
    BY TableAssumption DEF TInv, Bounded, Slot
  <2> QED
    BY <1>1, <2>1, <2>2, HitSession DEF Hit, Phase, TInv, TypeOK
<1>4. Locals(c)'
  <2>1. pc'[c] = "exchange" => (sock[c] # 0 /\ SessionOf(c, sock[c]))'
    <3>1. ASSUME NEW s \in Socket, sock'[c] = s, SessionOf(c, s) PROVE SessionOf(c, sock[c])'
      BY <1>2, <3>1 DEF RowsKept, SessionOf
    <3> QED
      BY <1>3, <3>1
  <2> QED
    BY <1>1, <2>1 DEF Locals, Putting, Adding, Removing, Dropping
<1>5. SInv'
  BY <1>1, <1>2, <1>4, SessionsFrame DEF Removing, Dropping
<1>6. ASSUME OInv PROVE OInv'
  <2>1. Without(c)' => \A k \in Rows : ~Used(c, k)
    BY <1>1, <1>6 DEF OInv, NoneYet, Without, Putting, Adding, Removing, Dropping
  <2>2. pc'[c] = "exchange" => owner[sock'[c]] = c
    BY <1>3, <1>6, FirstOwned
  <2>3. Owns(c)'
    BY <1>1, <1>6, <2>2 DEF OInv, Owns, Removing, Dropping, Putting, Adding
  <2> QED
    BY <1>1, <1>2, <1>6, <2>1, <2>3, OwnersFrame
<1> QED
  BY <1>5, <1>6

\* When get_socket misses, none of the client's entries is used.
LEMMA MissNone ==
  ASSUME TInv, SInv, NEW c \in Client, OnlyIn(c), Phase(c), pc[c] = "closeLookup", Miss(c)
  PROVE  \A k \in Rows : ~Used(c, k)
<1>1. /\ i[c] \in 0 .. num /\ num \in Nat /\ Rows = 0 .. (num - 1)
      /\ \A j \in 0 .. (i[c] - 1) : para[j].pclient # c
  <2>1. num \in Nat
    BY TableAssumption DEF TInv, TypeOK, Bounded
  <2>2. Rows = 0 .. (num - 1)
    BY RowsAll DEF Phase, Removing, Dropping
  <2>3. i[c] \in 0 .. num
    BY DEF TInv, TypeOK, Bounded, Phase
  <2>4. \A j \in 0 .. (i[c] - 1) : para[j].pclient # c
    BY DEF SInv, Locals
  <2> QED
    BY <2>1, <2>2, <2>3, <2>4
<1> SUFFICES ASSUME NEW k \in Rows, para[k].pclient = c, para[k].socket # 0 PROVE Hidden(k)
  BY DEF Used
<1>2. k \in 0 .. (num - 1) /\ ~(k < i[c])
  BY <1>1
<1>3. i[c] < num /\ para[i[c]].pclient = c /\ para[i[c]].socket = 0
  BY <1>1, <1>2 DEF Miss
<1> QED
  BY <1>1, <1>2, <1>3 DEF Hidden

\* get_socket ends, in handle_close.
LEMMA CloseGetSocketSessions ==
  ASSUME TInv, SInv, NEW c \in Client, CloseGetSocket(c)
  PROVE  SInv' /\ (OInv => OInv')
<1>1. /\ OnlyIn(c) /\ Phase(c) /\ pc[c] = "closeLookup" /\ pc'[c] \in {"find", "leave"}
      /\ UNCHANGED <<num, para, owner, sentOn, started>>
      /\ pc'[c] = "find" => Hit(c, "find")
      /\ pc'[c] = "leave" => Miss(c)
  BY StepOnly DEF Step, CloseGetSocket, Hit, Goto, table, outside, TInv, TypeOK
<1>2. RowsKept
  BY <1>1, StillKept DEF Removing, Dropping
<1>3. pc'[c] = "find" => /\ sock'[c] # 0 /\ SessionOf(c, sock'[c])
                        /\ sock'[c] \in Socket
  <2>1. sock'[c] = para[i[c]].socket /\ i[c] \in Slot => sock'[c] \in Socket \cup {0}
    BY DEF TInv, TypeOK, Entry
  <2>2. i[c] \in 0 .. num => i[c] \in Slot
    BY TableAssumption DEF TInv, Bounded, Slot
  <2> QED
    BY <1>1, <2>1, <2>2, HitSession DEF Hit, Phase, TInv, TypeOK
<1>4. Locals(c)'
  <2>1. pc'[c] = "find" => (sock[c] # 0 /\ SessionOf(c, sock[c]))'
    <3>1. ASSUME NEW s \in Socket, sock'[c] = s, SessionOf(c, s) PROVE SessionOf(c, sock[c])'
      BY <1>2, <3>1 DEF RowsKept, SessionOf
    <3> QED
      BY <1>3, <3>1
  <2> QED
    BY <1>1, <2>1 DEF Locals, Putting, Adding, Removing, Dropping
<1>5. SInv'
  BY <1>1, <1>2, <1>4, SessionsFrame DEF Removing, Dropping
<1>6. ASSUME OInv PROVE OInv'
  <2>1. Without(c)' => \A k \in Rows : ~Used(c, k)
    BY <1>1, <1>6, MissNone DEF OInv, NoneYet, Without, Putting, Adding, Removing, Dropping
  <2>2. pc'[c] = "find" => owner[sock'[c]] = c
    BY <1>3, <1>6, FirstOwned
  <2>3. Owns(c)'
    BY <1>1, <1>6, <2>2 DEF OInv, Owns, Removing, Dropping, Putting, Adding
  <2> QED
    BY <1>1, <1>2, <1>6, <2>1, <2>3, OwnersFrame
<1> QED
  BY <1>5, <1>6

\* Steps of del_socket after its search: an entry that is being deleted moves, and
\* the count goes down by it.
LEMMA RemoveKept ==
  ASSUME TInv, NEW c \in Client, Shift(c) \/ ClearLast(c) \/ DropLoad(c) \/ DropStore(c)
  PROVE  RowsKept
<1>1. OnlyIn(c) /\ Phase(c) /\ num \in 0 .. MaxConnect /\ MaxConnect \in Nat /\ para \in [Slot -> Entry]
  BY StepOnly DEF Step
<1>2. CASE Shift(c)
  BY <1>2, ShiftKept
<1>3. CASE ClearLast(c)
  <2>1. 0 .. (num - 1) \subseteq Slot
    BY <1>1 DEF Slot
  <2>2. pc[c] = "shift" /\ pc'[c] = "dropLoad" /\ num' = num /\ para' = [para EXCEPT ![num - 1] = Clear]
    BY <1>3 DEF ClearLast, Goto, TInv, TypeOK
  <2>3. i[c] = num - 1
    BY <1>1, <1>3, <2>2 DEF ClearLast, Phase
  <2>4. Rows = 0 .. (num - 2) /\ Rows' = 0 .. (num - 2)
    BY <1>1, <2>2, <2>3 DEF OnlyIn, Rows, Dropping
  <2> QED
    BY <1>1, <2>1, <2>2, <2>4, SameKept
<1>4. CASE DropLoad(c)
  <2>1. pc[c] = "dropLoad" /\ pc'[c] = "dropStore" /\ UNCHANGED <<num, para>>
    BY <1>4 DEF DropLoad, Goto, table, TInv, TypeOK
  <2>2. Rows' = Rows
    BY <1>1, <2>1 DEF OnlyIn, Rows, Dropping
  <2> QED
    BY <2>1, <2>2, SameKept
<1>5. CASE DropStore(c)
  <2>1. pc[c] = "dropStore" /\ pc'[c] = "leave" /\ num' = num - 1 /\ para' = para
    <3>1. pc[c] = "dropStore" /\ pc'[c] = "leave" /\ num' = tmp[c] - 1 /\ para' = para
      BY <1>5 DEF DropStore, Goto, TInv, TypeOK
    <3> QED
      BY <1>1, <3>1 DEF Phase, HalfDropped, Dropping
  <2>2. Rows = 0 .. (num - 2) /\ Rows' = 0 .. (num - 2)
    BY <1>1, <2>1 DEF OnlyIn, Rows, Dropping
  <2> QED
    BY <2>1, <2>2, SameKept
<1> QED
  BY <1>2, <1>3, <1>4, <1>5

\* No session is opened or closed by them until the count is stored.
LEMMA RemoveSessions ==
  ASSUME TInv, SInv, NEW c \in Client, Shift(c) \/ ClearLast(c) \/ DropLoad(c)
  PROVE  SInv' /\ (OInv => OInv')
<1>1. /\ OnlyIn(c) /\ Phase(c) /\ pc[c] \in Removing /\ pc'[c] \in Removing
      /\ UNCHANGED <<num, sock, owner, sentOn, started>>
  BY StepOnly DEF Step, Shift, ClearLast, DropLoad, Goto, table, outside, TInv, TypeOK, Removing, Dropping
<1>2. RowsKept
  BY RemoveKept
<1>3. Locals(c)'
  <2>1. sock[c] # 0 /\ Fresh(sock[c])
    BY <1>1 DEF SInv, Locals
  <2>2. Fresh(sock[c])'
    BY <1>1, <1>2, <2>1, FreshKept
  <2> QED
    BY <1>1, <2>1, <2>2 DEF Locals, Putting, Adding, Removing, Dropping
<1>4. SInv'
  BY <1>1, <1>2, <1>3, SessionsFrame
<1>5. ASSUME OInv PROVE OInv'
  <2>1. \A k \in Rows : ~Used(c, k)
    BY <1>1, <1>5 DEF OInv, NoneYet, Without
  <2>2. Owns(c)'
    BY <1>1, <1>5 DEF OInv, Owns, Removing, Dropping, Putting, Adding
  <2> QED
    BY <1>1, <1>2, <1>5, <2>1, <2>2, OwnersFrame
<1> QED
  BY <1>4, <1>5

\* connect_server: a new session gets a socket that no entry has.
LEMMA ConnectServerSessions ==
  ASSUME TInv, SInv, NEW c \in Client, ConnectServer(c)
  PROVE  SInv' /\ (OInv => OInv')
<1>1. /\ OnlyIn(c) /\ pc[c] = "connect" /\ pc'[c] = "recheck" /\ owner \in [Socket -> Client \cup {NULL, Gone, Lost}]
      /\ UNCHANGED <<num, para, sentOn, started>>
  BY StepOnly DEF Step, ConnectServer, Goto, table, TInv, TypeOK
<1>2. RowsKept
  BY <1>1, StillKept DEF Removing, Dropping
<1>3. \/ sock'[c] = 0 /\ owner' = owner
      \/ sock'[c] \in Socket /\ owner[sock'[c]] = NULL /\ owner' = [owner EXCEPT ![sock'[c]] = c]
  BY DEF ConnectServer, TInv, TypeOK
<1>4. sock'[c] # 0 => (Fresh(sock[c]) /\ owner[sock[c]] = c)'
  <2>1. sock'[c] # 0 => \A k \in Rows : para[k].socket # sock'[c]
    BY <1>3 DEF SInv, Open
  <2> QED
    BY <1>1, <1>2, <1>3, <2>1 DEF RowsKept, Fresh
<1>5. Locals(c)'
  BY <1>1, <1>4 DEF Locals, Putting, Adding, Removing, Dropping
<1>6. \A d \in Client \ {c} : Locals(d)'
  BY <1>1 DEF OnlyIn, Locals, Putting, Adding, Removing, Dropping
<1>7. \A s \in Socket : owner[s] \notin {NULL, Lost} => owner'[s] = owner[s]
  BY <1>1, <1>3
<1>8. \A k \in 0 .. num : k \in Slot /\ para[k].socket \in Socket \cup {0}
  BY StepOnly, TableAssumption DEF Step, Slot, Entry
<1>9. Rows \subseteq 0 .. num
  BY StepOnly DEF Step, Rows
<1>10. SInv'
  <2>1. Open'
    BY <1>2, <1>7, <1>8, <1>9 DEF RowsKept, SInv, Open
  <2>2. ASSUME NEW d \in Client PROVE Stays(d)'
    <3>1. Stays(d) /\ sentOn[d] \in Socket \cup {0} /\ sentOn' = sentOn
      BY <1>1 DEF SInv, TInv, TypeOK
    <3>2. pc[d] \in Removing \cup {"leave"} => pc'[d] \in Removing \cup {"leave"}
      BY <1>1 DEF OnlyIn, Removing, Dropping
    <3> QED
      BY <1>2, <3>1, <3>2 DEF Stays, RowsKept
  <2> QED
    BY <1>2, <1>5, <1>6, <2>1, <2>2 DEF SInv, RowsKept
<1>11. ASSUME OInv PROVE OInv'
  <2>1. Mine' /\ OneEach'
    <3>1. \A d \in Client : \A k \in Rows : Used(d, k) =>
             /\ owner[para[k].socket] = d /\ para[k].socket \in Socket
             /\ owner'[para[k].socket] = owner[para[k].socket]
      BY <1>7, <1>8, <1>9, <1>11, TableAssumption DEF OInv, Mine, Used
    <3> QED
      BY <1>2, <1>11, <3>1 DEF RowsKept, OInv, Mine
  <2>2. \A d \in Client : NoneYet(d)'
    <3>1. \A d \in Client : Without(d)' => \A k \in Rows : ~Used(d, k)
      BY <1>1, <1>11 DEF OInv, NoneYet, Without, OnlyIn, Putting, Adding, Removing, Dropping
    <3> QED
      BY <1>2, <3>1 DEF RowsKept, NoneYet
  <2>3. ASSUME NEW d \in Client PROVE Owns(d)'
    <3>1. Owns(d) /\ sentOn[d] \in Socket \cup {0}
      BY <1>11 DEF OInv, TInv, TypeOK
    <3>2. sentOn[d] # 0 /\ pc[d] # "leave" => owner'[sentOn[d]] = d
      BY <1>7, <3>1, TableAssumption DEF Owns
    <3> QED
      BY <1>1, <3>1, <3>2 DEF OnlyIn, Owns, Putting, Adding, Removing, Dropping
  <2> QED
    BY <2>1, <2>2, <2>3 DEF OInv
<1> QED
  BY <1>10, <1>11

\* The count goes up: the entry is the last one.
LEMMA CountStoreSessions ==
  ASSUME TInv, SInv, NEW c \in Client, CountStore(c)
  PROVE  SInv' /\ (OInv => OInv')
<1>1. /\ OnlyIn(c) /\ pc[c] = "countStore" /\ pc'[c] = "lookup" /\ i'[c] = 0
      /\ UNCHANGED <<para, sock, owner, sentOn, started>>
      /\ num \in Nat /\ num' = num + 1 /\ num \in Slot
      /\ sock[c] \in Socket \cup {0}
  <2>1. /\ OnlyIn(c) /\ Phase(c) /\ num \in 0 .. MaxConnect /\ MaxConnect \in Nat
        /\ sock[c] \in Socket \cup {0}
    BY StepOnly DEF Step
  <2>2. /\ pc[c] = "countStore" /\ pc'[c] = "lookup" /\ num' = tmp[c] + 1
        /\ UNCHANGED <<para, i, sock, owner, sentOn, started>>
    BY DEF CountStore, Goto, outside, TInv, TypeOK
  <2>3. tmp[c] = num /\ i[c] = 0
    BY <2>1, <2>2 DEF Phase, HalfAdded, Adding
  <2> QED
    BY <2>1, <2>2, <2>3 DEF Slot
<1>2. Rows = 0 .. (num - 1) /\ Rows' = 0 .. num
  BY <1>1, RowsAll DEF Removing, Dropping
<1>3. /\ para[num].pclient = c /\ para[num].socket = sock[c]
      /\ sock[c] # 0 => owner[sock[c]] = c /\ \A k \in Rows : para[k].socket # sock[c]
  BY <1>1 DEF SInv, Locals, Putting, Adding, Fresh
<1>4. SInv'
  <2>1. Distinct'
    BY <1>1, <1>2, <1>3 DEF SInv, Distinct
  <2>2. Open'
    <3> SUFFICES ASSUME NEW k \in Rows', para[k].socket # 0 PROVE owner[para[k].socket] \notin {NULL, Lost}
      BY <1>1 DEF Open
    <3>1. CASE k = num
      BY <1>3, <3>1, TableAssumption
    <3>2. CASE k # num
      BY <1>1, <1>2, <3>2 DEF SInv, Open
    <3> QED
      BY <3>1, <3>2
  <2>3. Locals(c)'
    BY <1>1 DEF Locals, Putting, Adding, Removing, Dropping
  <2>4. \A d \in Client \ {c} : Locals(d)'
    BY <1>1 DEF OnlyIn, Locals, Putting, Adding, Removing, Dropping
  <2>5. ASSUME NEW d \in Client PROVE Stays(d)'
    <3>1. ASSUME NEW k \in Rows, First(d, k) PROVE First(d, k)'
      BY <1>1, <1>2, <3>1 DEF First
    <3>2. SessionOf(d, sentOn[d]) => SessionOf(d, sentOn[d])'
      BY <1>1, <1>2, <3>1 DEF SessionOf
    <3>3. pc[d] \in Removing \cup {"leave"} => pc'[d] \in Removing \cup {"leave"}
      BY <1>1 DEF OnlyIn, Removing, Dropping
    <3>4. Stays(d)
      BY DEF SInv
    <3> QED
      BY <1>1, <3>2, <3>3, <3>4 DEF Stays
  <2> QED
    BY <2>1, <2>2, <2>3, <2>4, <2>5 DEF SInv
<1>5. ASSUME OInv PROVE OInv'
  <2>1. ASSUME NEW d \in Client, NEW k \in Rows PROVE Used(d, k)' <=> Used(d, k)
    BY <1>1, <1>2 DEF Used, Hidden
  <2>2. ASSUME NEW d \in Client, NEW k \in Rows', Used(d, k)'
        PROVE  (k \in Rows /\ Used(d, k)) \/ (k = num /\ d = c /\ sock[c] # 0)
    BY <1>1, <1>2, <1>3, <2>1, <2>2 DEF Used
  <2>3. \A k \in Rows : ~Used(c, k)
    BY <1>1, <1>5 DEF OInv, NoneYet, Without, Putting, Adding
  <2>4. Mine'
    BY <1>1, <1>3, <1>5, <2>2 DEF OInv, Mine
  <2>5. OneEach'
    BY <1>5, <2>2, <2>3 DEF OInv, OneEach
  <2>6. c \in started
    BY <1>1, <1>5 DEF OInv, Owns, Putting, Adding
  <2>7. ASSUME NEW d \in Client PROVE NoneYet(d)'
    <3>1. CASE d = c
      BY <1>1, <2>6, <3>1 DEF NoneYet, Without, Putting, Adding, Removing, Dropping
    <3>2. CASE d # c
      BY <1>1, <1>5, <2>2, <3>2 DEF OInv, OnlyIn, NoneYet, Without, Putting, Adding, Removing, Dropping
    <3> QED
      BY <3>1, <3>2
  <2>8. \A d \in Client : Owns(d)'
    BY <1>1, <1>5 DEF OInv, OnlyIn, Owns, Putting, Adding, Removing, Dropping
  <2> QED
    BY <2>4, <2>5, <2>7, <2>8 DEF OInv
<1> QED
  BY <1>4, <1>5

\* The socket del_socket searches for is that of the client's first entry.
LEMMA FindFirst ==
  ASSUME TInv, SInv, NEW c \in Client, Find(c)
  PROVE  i'[c] \in Rows /\ First(c, i'[c]) /\ para[i'[c]].socket = sock[c] /\ sock[c] # 0
<1>1. OnlyIn(c) /\ pc[c] = "find" /\ i \in [Client -> Int]
  BY StepOnly DEF Step, Find, TInv, TypeOK
<1>2. Rows = 0 .. (num - 1)
  BY <1>1, RowsAll DEF Removing, Dropping
<1>3. PICK r \in Rows : First(c, r) /\ para[r].socket = sock[c] /\ sock[c] # 0
  BY <1>1 DEF SInv, Locals, SessionOf
<1>4. i'[c] \in 0 .. (num - 1) /\ para[i'[c]].socket = sock[c]
  <2>1. PICK k \in 0 .. (MaxConnect + 2) : IsIndex(k, sock[c]) /\ i' = [i EXCEPT ![c] = k]
    BY DEF Find
  <2>2. k \in {m \in 0 .. (num - 1) : para[m].socket = sock[c]}
    BY <1>2, <1>3, <2>1 DEF IsIndex
  <2> QED
    BY <1>1, <2>1, <2>2
<1>5. i'[c] = r
  BY <1>2, <1>3, <1>4 DEF SInv, Distinct
<1> QED
  BY <1>3, <1>5

\* The search of del_socket ends: the entry is no longer one of them.
LEMMA FindSessions ==
  ASSUME TInv, SInv, NEW c \in Client, Find(c)
  PROVE  SInv' /\ (OInv => OInv')
<1>1. /\ OnlyIn(c) /\ pc[c] = "find" /\ pc'[c] = "shift" /\ num \in Nat
      /\ UNCHANGED <<num, para, sock, owner, sentOn, started>>
  <2>1. OnlyIn(c) /\ num \in Nat
    BY StepOnly DEF Step
  <2> QED
    BY <2>1 DEF Find, Goto, table, outside, TInv, TypeOK
<1>2. PICK r \in Rows : i'[c] = r /\ First(c, r) /\ para[r].socket = sock[c] /\ sock[c] # 0
  BY FindFirst
<1>3. Rows' = Rows \ {r} /\ Rows \subseteq Int
  <2>1. Rows = 0 .. (num - 1)
    BY <1>1, RowsAll DEF Removing, Dropping
  <2>2. Rows' = (0 .. (num - 1)) \ {r}
    BY <1>1, <1>2 DEF OnlyIn, Rows, Dropping
  <2> QED
    BY <2>1, <2>2
<1>4. SInv'
  <2>1. Distinct' /\ Open'
    BY <1>1, <1>3 DEF SInv, Distinct, Open
  <2>2. Locals(c)'
    <3>1. \A k \in Rows' : para[k].socket # sock[c]
      BY <1>2, <1>3 DEF SInv, Distinct
    <3> QED
      BY <1>1, <1>2, <3>1 DEF Locals, Fresh, Putting, Adding, Removing, Dropping
  <2>3. \A d \in Client \ {c} : Locals(d)'
    BY <1>1 DEF OnlyIn, Locals, Putting, Adding, Removing, Dropping
  <2>4. ASSUME NEW d \in Client PROVE Stays(d)'
    <3>1. CASE d = c
      BY <1>1, <3>1 DEF Stays, Removing
    <3>2. CASE d # c
      <4>1. ASSUME NEW k \in Rows, First(d, k) PROVE k # r /\ First(d, k)'
        BY <1>1, <1>2, <1>3, <3>2, <4>1 DEF First
      <4>2. SessionOf(d, sentOn[d]) => SessionOf(d, sentOn[d])'
        BY <1>1, <1>3, <4>1 DEF SessionOf
      <4> QED
        BY <1>1, <3>2, <4>2 DEF SInv, OnlyIn, Stays, Removing, Dropping
    <3> QED
      BY <3>1, <3>2
  <2> QED
    BY <2>1, <2>2, <2>3, <2>4 DEF SInv
<1>5. ASSUME OInv PROVE OInv'
  <2>1. ASSUME NEW d \in Client, NEW k \in Rows', Used(d, k)' PROVE k \in Rows /\ Used(d, k)
    BY <1>1, <1>2, <1>3, <2>1 DEF Used, Hidden
  <2>2. Mine' /\ OneEach'
    BY <1>1, <1>5, <2>1 DEF OInv, Mine, OneEach
  <2>3. Used(c, r)
    BY <1>2 DEF First, Used, Hidden
  <2>4. ASSUME NEW d \in Client PROVE NoneYet(d)'
    <3>1. CASE d = c
      BY <1>3, <1>5, <2>1, <2>3, <3>1 DEF OInv, OneEach, NoneYet
    <3>2. CASE d # c
      BY <1>1, <1>5, <2>1, <3>2 DEF OInv, OnlyIn, NoneYet, Without, Putting, Adding, Removing, Dropping
    <3> QED
      BY <3>1, <3>2
  <2>5. \A d \in Client : Owns(d)'
    BY <1>1, <1>5 DEF OInv, OnlyIn, Owns, Putting, Adding, Removing, Dropping
  <2> QED
    BY <2>2, <2>4, <2>5 DEF OInv
<1> QED
  BY <1>4, <1>5

\* A request goes to the session of the client's first entry, which is open.
LEMMA ExchangeStep ==
  ASSUME TInv, SInv, NEW c \in Client, Exchange(c)
  PROVE  /\ OnlyIn(c) /\ pc[c] = "exchange" /\ pc'[c] = "idle" /\ sock[c] \in Socket /\ sock[c] # 0
         /\ SessionOf(c, sock[c]) /\ sentOn' = [sentOn EXCEPT ![c] = sock[c]]
         /\ UNCHANGED <<num, para, owner, started, alive>>
<1>1. /\ OnlyIn(c) /\ pc[c] = "exchange" /\ pc'[c] = "idle" /\ sock[c] \in Socket \cup {0}
      /\ UNCHANGED <<num, para, started, alive>>
  <2>1. OnlyIn(c) /\ sock[c] \in Socket \cup {0}
    BY StepOnly DEF Step
  <2> QED
    BY <2>1 DEF Exchange, Return, Goto, table, TInv, TypeOK
<1>2. sock[c] # 0 /\ SessionOf(c, sock[c])
  BY <1>1 DEF SInv, Locals
<1>3. owner[sock[c]] \notin {NULL, Lost}
  BY <1>2 DEF SInv, Open, SessionOf
<1> QED
  BY <1>1, <1>2, <1>3 DEF Exchange

\* The exchange with the engine.
LEMMA ExchangeSessions ==
  ASSUME TInv, SInv, NEW c \in Client, Exchange(c)
  PROVE  SInv' /\ (OInv => OInv')
<1>1. /\ OnlyIn(c) /\ pc[c] = "exchange" /\ pc'[c] = "idle" /\ sock[c] \in Socket /\ sock[c] # 0
      /\ SessionOf(c, sock[c]) /\ sentOn' = [sentOn EXCEPT ![c] = sock[c]]
      /\ UNCHANGED <<num, para, owner, started>>
  BY ExchangeStep
<1>2. RowsKept
  BY <1>1, StillKept DEF Removing, Dropping
<1>3. sentOn \in [Client -> Socket \cup {0}]
  BY DEF TInv, TypeOK
<1>4. SInv'
  <2>1. Distinct' /\ Open'
    BY <1>1, <1>2 DEF SInv, RowsKept, Open
  <2>2. \A d \in Client : Locals(d)'
    BY <1>1 DEF OnlyIn, Locals, Putting, Adding, Removing, Dropping
  <2>3. ASSUME NEW d \in Client PROVE Stays(d)'
    <3>1. sentOn'[d] \in Socket \cup {0} /\ (sentOn'[d] # 0 => SessionOf(d, sentOn'[d]))
      BY <1>1, <1>3 DEF SInv, Stays, OnlyIn, Removing, Dropping
    <3> QED
      BY <1>2, <3>1 DEF Stays, RowsKept
  <2> QED
    BY <2>1, <2>2, <2>3 DEF SInv
<1>5. ASSUME OInv PROVE OInv'
  <2>1. Mine' /\ OneEach'
    BY <1>1, <1>2, <1>5 DEF OInv, RowsKept, Mine
  <2>2. \A d \in Client : NoneYet(d)'
    BY <1>1, <1>2, <1>5 DEF OInv, RowsKept, NoneYet, Without, OnlyIn, Putting, Adding, Removing, Dropping
  <2>3. owner[sock[c]] = c
    BY <1>1, <1>5 DEF OInv, Owns
  <2>4. \A d \in Client : Owns(d)'
    BY <1>1, <1>3, <1>5, <2>3 DEF OInv, OnlyIn, Owns, Putting, Adding, Removing, Dropping
  <2> QED
    BY <2>1, <2>2, <2>4 DEF OInv
<1> QED
  BY <1>4, <1>5

\* The session of the deleted entry is closed.
LEMMA DropStoreSessions ==
  ASSUME TInv, SInv, NEW c \in Client, DropStore(c)
  PROVE  SInv' /\ (OInv => OInv')
<1>1. /\ OnlyIn(c) /\ pc[c] = "dropStore" /\ pc'[c] = "leave" /\ num \in Nat /\ num' = num - 1
      /\ UNCHANGED <<para, sock, sentOn, started>>
      /\ owner' = [owner EXCEPT ![sock[c]] = NULL] /\ owner \in [Socket -> Client \cup {NULL, Gone, Lost}]
  <2>1. OnlyIn(c) /\ Phase(c) /\ num \in Nat
    BY StepOnly DEF Step
  <2>2. /\ pc[c] = "dropStore" /\ pc'[c] = "leave" /\ num' = tmp[c] - 1
        /\ UNCHANGED <<para, sock, sentOn, started>>
        /\ owner' = [owner EXCEPT ![sock[c]] = NULL] /\ owner \in [Socket -> Client \cup {NULL, Gone, Lost}]
    BY DEF DropStore, Goto, TInv, TypeOK
  <2>3. tmp[c] = num
    BY <2>1, <2>2 DEF Phase, HalfDropped, Dropping
  <2> QED
    BY <2>1, <2>2, <2>3
<1>2. RowsKept
  BY RemoveKept
<1>3. \A k \in Rows : para[k].socket # sock[c]
  BY <1>1 DEF SInv, Locals, Removing, Dropping, Fresh
<1>4. \A s : s \in Socket /\ s # sock[c] => owner'[s] = owner[s]
  BY <1>1
<1>5. \A k \in Rows : para[k].socket \in Socket \cup {0}
  <2>1. Rows \subseteq Slot /\ para \in [Slot -> Entry]
    BY StepOnly DEF Step, Rows, Slot
  <2> QED
    BY <2>1 DEF Entry
<1>6. SInv'
  <2>1. Distinct'
    BY <1>2 DEF SInv, RowsKept
  <2>2. Open'
    BY <1>2, <1>3, <1>4, <1>5 DEF RowsKept, SInv, Open
  <2>3. \A d \in Client : Locals(d)'
    BY <1>1 DEF OnlyIn, Locals, Putting, Adding, Removing, Dropping
  <2>4. ASSUME NEW d \in Client PROVE Stays(d)'
    <3>1. Stays(d) /\ sentOn[d] \in Socket \cup {0}
      BY DEF SInv, TInv, TypeOK
    <3> QED
      BY <1>1, <1>2, <3>1 DEF OnlyIn, Stays, RowsKept, Removing, Dropping
  <2> QED
    BY <2>1, <2>2, <2>3, <2>4 DEF SInv
<1>7. ASSUME OInv PROVE OInv'
  <2>1. Mine' /\ OneEach'
    <3>1. \A d \in Client : \A k \in Rows : Used(d, k) => owner'[para[k].socket] = d
      BY <1>3, <1>4, <1>5, <1>7 DEF OInv, Mine, Used
    <3> QED
      BY <1>2, <1>7, <3>1 DEF RowsKept, OInv, Mine
  <2>2. \A d \in Client : NoneYet(d)'
    BY <1>1, <1>2, <1>7 DEF OInv, RowsKept, NoneYet, Without, OnlyIn, Putting, Adding, Removing, Dropping
  <2>3. owner[sock[c]] = c
    BY <1>1, <1>7 DEF OInv, Owns, Removing, Dropping
  <2>4. ASSUME NEW d \in Client PROVE Owns(d)'
    <3>1. Owns(d) /\ sentOn[d] \in Socket \cup {0}
      BY <1>7 DEF OInv, TInv, TypeOK
    <3>2. d # c /\ sentOn[d] # 0 /\ pc[d] # "leave" => owner'[sentOn[d]] = d
      BY <1>4, <2>3, <3>1 DEF Owns
    <3> QED
      BY <1>1, <3>1, <3>2 DEF OnlyIn, Owns, Putting, Adding, Removing, Dropping
  <2> QED
    BY <2>1, <2>2, <2>4 DEF OInv
<1> QED
  BY <1>6, <1>7

\* The client is gone; a session of its that is still open has no user.
LEMMA LeaveSessions ==
  ASSUME TInv, SInv, NEW c \in Client, Leave(c)
  PROVE  SInv' /\ (OInv => OInv')
<1>1. /\ OnlyIn(c) /\ pc[c] = "leave" /\ pc'[c] = "idle"
      /\ UNCHANGED <<num, para>> /\ started' = started \ {c}
      /\ sentOn' = [sentOn EXCEPT ![c] = 0] /\ sentOn \in [Client -> Socket \cup {0}]
      /\ owner' = [s \in Socket |-> IF owner[s] = c THEN Gone ELSE owner[s]]
  <2>1. OnlyIn(c)
    BY StepOnly DEF Step
  <2> QED
    BY <2>1 DEF Leave, Return, Goto, table, TInv, TypeOK
<1>2. RowsKept
  BY <1>1, StillKept DEF Removing, Dropping
<1>3. \A k \in Rows : para[k].socket \in Socket \cup {0}
  <2>1. Rows \subseteq Slot /\ para \in [Slot -> Entry]
    BY StepOnly DEF Step, Rows, Slot
  <2> QED
    BY <2>1 DEF Entry
<1>4. SInv'
  <2>1. Distinct'
    BY <1>2 DEF SInv, RowsKept
  <2>2. Open'
    <3>1. \A k \in Rows : para[k].socket # 0 => owner'[para[k].socket] \notin {NULL, Lost}
      BY <1>1, <1>3, TableAssumption DEF SInv, Open
    <3> QED
      BY <1>2, <3>1 DEF RowsKept, Open
  <2>3. \A d \in Client : Locals(d)'
    BY <1>1 DEF OnlyIn, Locals, Putting, Adding, Removing, Dropping
  <2>4. ASSUME NEW d \in Client PROVE Stays(d)'
    <3>1. Stays(d) /\ sentOn[d] \in Socket \cup {0}
      BY <1>1 DEF SInv
    <3> QED
      BY <1>1, <1>2, <3>1 DEF OnlyIn, Stays, RowsKept, Removing, Dropping
  <2> QED
    BY <2>1, <2>2, <2>3, <2>4 DEF SInv
<1>5. ASSUME OInv PROVE OInv'
  <2>1. \A k \in Rows : ~Used(c, k)
    BY <1>1, <1>5 DEF OInv, NoneYet, Without
  <2>2. Mine' /\ OneEach'
    <3>1. \A d \in Client : \A k \in Rows : Used(d, k) => owner'[para[k].socket] = d
      BY <1>1, <1>3, <1>5, <2>1 DEF OInv, Mine, Used
    <3> QED
      BY <1>2, <1>5, <3>1 DEF RowsKept, OInv, Mine
  <2>3. ASSUME NEW d \in Client PROVE NoneYet(d)'
    <3>1. Without(d)' => \A k \in Rows : ~Used(d, k)
      BY <1>1, <1>5, <2>1 DEF OInv, NoneYet, Without, OnlyIn, Putting, Adding, Removing, Dropping
    <3> QED
      BY <1>2, <3>1 DEF RowsKept, NoneYet
  <2>4. ASSUME NEW d \in Client PROVE Owns(d)'
    <3>1. Owns(d)
      BY <1>5 DEF OInv
    <3> QED
      BY <1>1, <3>1, TableAssumption DEF OnlyIn, Owns, Putting, Adding, Removing, Dropping
  <2> QED
    BY <2>2, <2>3, <2>4 DEF OInv
<1> QED
  BY <1>4, <1>5

\* A browser that connects changes nothing of the table.
LEMMA ConnectedSessions ==
  ASSUME SInv, UNCHANGED <<num, para, pc, i, sock, started, owner, sentOn>>
  PROVE  SInv' /\ (OInv => OInv')
<1>1. Rows' = Rows
  BY DEF Rows
<1>2. SInv'
  BY <1>1 DEF SInv, Distinct, Open, Locals, Stays, SessionOf, First, Fresh
<1>3. OInv => OInv'
  BY <1>1 DEF OInv, Mine, OneEach, NoneYet, Without, Used, Hidden, Owns
<1> QED
  BY <1>2, <1>3

\* No session is open at the start.
LEMMA InitSessions == Init => SInv /\ OInv
<1> SUFFICES ASSUME Init PROVE SInv /\ OInv
  OBVIOUS
<1>1. Rows = {}
  BY DEF Init, Rows
<1>2. SInv
  BY <1>1 DEF Init, SInv, Distinct, Open, Locals, Stays, Putting, Adding, Removing, Dropping
<1>3. OInv
  BY <1>1 DEF Init, OInv, Mine, OneEach, NoneYet, Owns, Putting, Adding, Removing, Dropping
<1> QED
  BY <1>2, <1>3

\* What may happen in a behaviour is settled at the start.
LEMMA FaultsSettled == [Next]_vars => faults' = faults
BY DEF Next, vars, Connected, Start, Move, Close, Step, Check, ConnectServer,
       Recheck, PutClient, PutSocket, CountLoad, CountStore, NextEntry, GetSocket, Exchange,
       CloseGetSocket, Find, Shift, ClearLast, DropLoad, DropStore, Leave, outside,
       EngineDies

Lasting == TakeTurns /\ "death" \notin faults
Single  == faults \subseteq {"refusal"}

\* Every step keeps the sessions, and the owners when no browser starts twice.
LEMMA NextSessions ==
  ASSUME TInv, Lasting, SInv, [Next]_vars
  PROVE  SInv' /\ (Single /\ OInv => OInv')
<1>1. CASE UNCHANGED vars
  BY <1>1, ConnectedSessions DEF vars
<1>2. ASSUME NEW c \in Client, Connected(c) PROVE SInv' /\ (OInv => OInv')
  BY <1>2, ConnectedSessions DEF Connected, table, thread
<1>3. ASSUME NEW c \in Client, Start(c) \/ Move(c) \/ Close(c) PROVE SInv' /\ (Single /\ OInv => OInv')
  BY <1>3, EnterSessions DEF Lasting, Single
<1>4. ASSUME NEW c \in Client, Step(c) PROVE SInv' /\ (OInv => OInv')
  BY <1>4, CheckSessions, ConnectServerSessions, PutSessions, CountStoreSessions, NextEntrySessions,
     GetSocketSessions, ExchangeSessions, CloseGetSocketSessions, FindSessions, RemoveSessions,
     DropStoreSessions, LeaveSessions DEF Step
<1> QED
  BY <1>1, <1>2, <1>3, <1>4 DEF Next, EngineDies, Lasting

\* The invariants of the sessions hold in every state.
LEMMA SessionsHold == Spec => []((Lasting => TInv /\ SInv) /\ (Single => TInv /\ SInv /\ OInv))
<1> DEFINE Hold == (Lasting => TInv /\ SInv) /\ (Single => TInv /\ SInv /\ OInv)
<1>1. Init => Hold
  BY InitHolds, InitSessions
<1>2. Hold /\ [Next]_vars => Hold'
  <2> SUFFICES ASSUME Hold, [Next]_vars PROVE Hold'
    OBVIOUS
  <2>1. (Lasting' <=> Lasting) /\ (Single' <=> Single) /\ (Single => Lasting) /\ (Lasting => TakeTurns)
    BY FaultsSettled DEF Lasting, Single, TakeTurns
  <2> QED
    BY <2>1, NextKeeps, NextSessions
<1> QED
  BY <1>1, <1>2, PTL DEF Spec

\* A browser's requests only reach the session opened for it, when each browser
\* starts once, the threads take turns and the engine lives.
THEOREM IsolationHolds == Spec => []Isolation
<1>1. (Single => TInv /\ SInv /\ OInv) => Isolation
  BY DEF Single, OInv, Owns, Isolation
<1> QED
  BY <1>1, SessionsHold, PTL

\* All requests of a browser go to one session, whatever others start and close in
\* between and however often it starts itself.
THEOREM AffinityHolds == Spec => Affinity
<1> DEFINE Same == Lasting => \A c \in Client : sentOn[c] # 0 /\ c \in alive' => sentOn'[c] = sentOn[c]
<1>1. (Lasting => TInv /\ SInv) /\ [Next]_vars => Same
  <2> SUFFICES ASSUME TInv, SInv, Lasting, [Next]_vars, NEW c \in Client,
                      sentOn[c] # 0, c \in alive'
               PROVE  sentOn'[c] = sentOn[c]
    OBVIOUS
  <2>1. ASSUME NEW d \in Client, Exchange(d) PROVE sentOn'[c] = sentOn[c]
    <3>1. /\ pc[d] = "exchange" /\ SessionOf(d, sock[d])
          /\ sentOn' = [sentOn EXCEPT ![d] = sock[d]] /\ sentOn \in [Client -> Socket \cup {0}]
      BY <2>1, ExchangeStep DEF TInv, TypeOK
    <3>2. CASE c = d
      <4>1. SessionOf(c, sentOn[c])
        BY <3>1, <3>2 DEF SInv, Stays, Removing, Dropping
      <4>2. sentOn[c] = sock[c]
        <5>1. PICK k \in Rows, l \in Rows : /\ First(c, k) /\ para[k].socket = sentOn[c]
                                            /\ First(c, l) /\ para[l].socket = sock[c]
          BY <3>1, <3>2, <4>1 DEF SessionOf
        <5>2. ~(k < l) /\ ~(l < k)
          BY <5>1 DEF First
        <5> QED
          BY <5>1, <5>2, RowsAreNumbers
      <4> QED
        BY <3>1, <3>2, <4>2
    <3>3. CASE c # d
      BY <3>1, <3>3
    <3> QED
      BY <3>2, <3>3
  <2>2. ASSUME NEW d \in Client, Leave(d) PROVE sentOn'[c] = sentOn[c]
    BY <2>2 DEF Leave, TInv, TypeOK
  <2>3. CASE sentOn' = sentOn
    BY <2>3
  <2> QED
    BY <2>1, <2>2, <2>3 DEF Next, vars, Connected, Start, Move, Close, Step, Check, ConnectServer,
       Recheck, PutClient, PutSocket, CountLoad, CountStore, NextEntry, GetSocket,
       CloseGetSocket, Find, Shift, ClearLast, DropLoad, DropStore, outside, EngineDies
<1>2. Same => (TakeTurns /\ "death" \notin faults =>
                 \A c \in Client : sentOn[c] # 0 /\ c \in alive' => sentOn'[c] = sentOn[c])
  BY DEF Lasting
<1> QED
  BY <1>1, <1>2, SessionsHold, PTL DEF Spec, Affinity

-----------------------------------------------------------------------------
(* A start is refused only when the table is full of other browsers *)

\* Each entry has a session, and a browser that has sent a start.
Filled == \A k \in Rows : para[k].socket # 0 /\ para[k].pclient \in started

\* A session is that of an entry, or of one that is being added or deleted.
Held(s) == \E c \in Client : SessionOf(c, s) \/ (pc[c] \in Putting \cup Removing /\ sock[c] = s)

\* The engine has accepted the session that is being added.
Given(c) == pc[c] \in Putting => sock[c] # 0

FInv == /\ IsFiniteSet(started) /\ Filled /\ \A c \in Client : Given(c)
        /\ \A s \in Socket : owner[s] # NULL => Held(s)

\* Every entry is used by its client.
LEMMA AllUsed ==
  ASSUME FInv, NEW c \in Client, NEW k \in Rows
  PROVE  Used(c, k) <=> para[k].pclient = c
BY DEF FInv, Filled, Used, Hidden

\* Steps that keep the entries, open no session and lose none.
LEMMA FullFrame ==
  ASSUME FInv, RowsKept, NEW c \in Client, OnlyIn(c), IsFiniteSet(started'), Given(c)',
         \A k \in Rows : para[k].pclient \in started',
         \A s \in Socket : owner'[s] # NULL => owner[s] # NULL,
         pc[c] \in Putting \cup Removing =>
           \/ pc'[c] \in Putting \cup Removing /\ sock'[c] = sock[c]
           \/ sock[c] \in Socket => owner'[sock[c]] = NULL
  PROVE  FInv'
<1>1. Filled'
  BY DEF FInv, Filled, RowsKept
<1>2. ASSUME NEW d \in Client PROVE Given(d)'
  <2>1. CASE d = c
    BY <2>1
  <2>2. CASE d # c
    BY <2>2 DEF OnlyIn, Given, Putting, Adding
  <2> QED
    BY <2>1, <2>2
<1>3. ASSUME NEW s \in Socket, owner'[s] # NULL PROVE Held(s)'
  <2>1. PICK d \in Client : SessionOf(d, s) \/ (pc[d] \in Putting \cup Removing /\ sock[d] = s)
    BY <1>3 DEF FInv, Held
  <2>2. CASE SessionOf(d, s)
    BY <2>2 DEF RowsKept, Held
  <2>3. CASE pc[d] \in Putting \cup Removing /\ sock[d] = s
    <3>1. d = c
      BY <2>3 DEF OnlyIn, Putting, Adding, Removing, Dropping
    <3>2. pc'[c] \in Putting \cup Removing /\ sock'[c] = s
      BY <1>3, <2>3, <3>1
    <3> QED
      BY <3>2 DEF Held
  <2> QED
    BY <2>1, <2>2, <2>3
<1> QED
  BY <1>1, <1>2, <1>3 DEF FInv

\* A thread enters, and a browser's first start is counted.
LEMMA EnterFull ==
  ASSUME TInv, TakeTurns, FInv, NEW c \in Client, Start(c) \/ Move(c) \/ Close(c)
  PROVE  FInv'
<1>1. /\ pc[c] = "idle" /\ pc'[c] \in {"check", "lookup", "closeLookup"} /\ OnlyIn(c)
      /\ UNCHANGED <<num, para, owner>>
      /\ started' \in {started, started \cup {c}}
  <2>1. /\ pc[c] = "idle" /\ pc'[c] \in {"check", "lookup", "closeLookup"}
        /\ \A d \in Client : pc[d] = "idle"
        /\ \A d \in Client \ {c} : pc'[d] = pc[d]
    BY DEF Start, Move, Close, Enter, Goto, TInv, TypeOK, TakeTurns, Quiet
  <2>2. UNCHANGED <<num, para, owner>> /\ started' \in {started, started \cup {c}}
    BY DEF Start, Move, Close, table, outside
  <2> QED
    BY <2>1, <2>2 DEF OnlyIn
<1>2. RowsKept
  BY <1>1, StillKept DEF Removing, Dropping
<1>3. IsFiniteSet(started')
  BY <1>1, FS_AddElement DEF FInv
<1>4. \A k \in Rows : para[k].pclient \in started'
  BY <1>1 DEF FInv, Filled
<1>5. Given(c)'
  BY <1>1 DEF Given, Putting, Adding
<1>6. pc[c] \notin Putting \cup Removing
  BY <1>1 DEF Putting, Adding, Removing, Dropping
<1> QED
  BY <1>1, <1>2, <1>3, <1>4, <1>5, <1>6, FullFrame

\* The steps that write no entry in use, and hold no session.
LEMMA LookFull ==
  ASSUME TInv, SInv, FInv, NEW c \in Client,
         Check(c) \/ NextEntry(c) \/ GetSocket(c) \/ CloseGetSocket(c) \/ Exchange(c)
  PROVE  FInv'
<1>1. Step(c)
  BY DEF Step
<1>2. /\ pc[c] \in {"check", "lookup", "closeLookup", "exchange"}
      /\ pc'[c] \in {"idle", "connect", "lookup", "closeLookup", "exchange", "find", "leave"}
      /\ UNCHANGED <<num, para, started>>
  BY DEF Check, NextEntry, GetSocket, CloseGetSocket, Exchange, Hit, Return, Goto, table, outside,
         TInv, TypeOK
<1>3. owner' = owner
  <2>1. CASE Exchange(c)
    BY <2>1, ExchangeStep
  <2>2. CASE ~Exchange(c)
    BY <2>2 DEF Check, NextEntry, GetSocket, CloseGetSocket, outside
  <2> QED
    BY <2>1, <2>2
<1>4. OnlyIn(c)
  BY <1>1, StepOnly
<1>5. RowsKept
  BY <1>2, <1>4, StillKept DEF Removing, Dropping
<1>6. Given(c)'
  BY <1>2 DEF Given, Putting, Adding
<1>7. IsFiniteSet(started') /\ \A k \in Rows : para[k].pclient \in started'
  BY <1>2 DEF FInv, Filled
<1>8. pc[c] \notin Putting \cup Removing
  BY <1>2 DEF Putting, Adding, Removing, Dropping
<1> QED
  BY <1>3, <1>4, <1>5, <1>6, <1>7, <1>8, FullFrame

\* The steps of add_socket up to the count: there is room for the entry.
LEMMA PutFull ==
  ASSUME TInv, FInv, NEW c \in Client, Recheck(c) \/ PutClient(c) \/ PutSocket(c) \/ CountLoad(c)
  PROVE  FInv'
<1>1. Step(c)
  BY DEF Step
<1>2. OnlyIn(c) /\ Phase(c) /\ num \in Nat /\ num <= MaxConnect /\ para \in [Slot -> Entry]
  BY <1>1, StepOnly
<1>3. pc[c] = "recheck" => ~AtLimit
  BY <1>2, TableAssumption DEF Phase, AtLimit
<1>4. /\ pc[c] \in Putting /\ pc'[c] \in Putting
      /\ UNCHANGED <<num, owner, started, sock>>
  BY <1>3 DEF Recheck, PutClient, PutSocket, CountLoad, Goto, table, outside, TInv, TypeOK, Putting, Adding
<1>5. \A k \in 0 .. (num - 1) : para'[k] = para[k]
  <2>1. num \in Slot /\ 0 .. (num - 1) \subseteq Slot /\ ~(num \in 0 .. (num - 1))
    BY <1>2, TableAssumption DEF Slot
  <2> QED
    BY <1>2, <2>1 DEF Recheck, PutClient, PutSocket, CountLoad, table
<1>6. RowsKept
  <2>1. pc[c] \notin Removing /\ pc'[c] \notin Removing
    BY <1>4 DEF Putting, Adding, Removing, Dropping
  <2> QED
    BY <1>2, <1>4, <1>5, <2>1, StillKept
<1>7. Given(c)'
  BY <1>4 DEF FInv, Given
<1>8. IsFiniteSet(started') /\ \A k \in Rows : para[k].pclient \in started'
  BY <1>4 DEF FInv, Filled
<1> QED
  BY <1>2, <1>4, <1>6, <1>7, <1>8, FullFrame

\* The steps of del_socket behind its search.
LEMMA RemoveFull ==
  ASSUME TInv, FInv, NEW c \in Client, Shift(c) \/ ClearLast(c) \/ DropLoad(c) \/ DropStore(c)
  PROVE  FInv'
<1>1. Step(c)
  BY DEF Step
<1>2. OnlyIn(c)
  BY <1>1, StepOnly
<1>3. RowsKept
  BY RemoveKept
<1>4. /\ pc[c] \in Removing /\ pc'[c] \in Removing \cup {"leave"} /\ UNCHANGED <<sock, started>>
  BY DEF Shift, ClearLast, DropLoad, DropStore, Goto, table, outside, TInv, TypeOK, Removing, Dropping
<1>5. /\ \A s \in Socket : owner'[s] # NULL => owner[s] # NULL
      /\ pc'[c] \in Removing \/ (sock[c] \in Socket => owner'[sock[c]] = NULL)
  <2>1. CASE DropStore(c)
    BY <2>1 DEF DropStore, TInv, TypeOK
  <2>2. CASE ~DropStore(c)
    BY <2>2 DEF Shift, ClearLast, DropLoad, Goto, outside, TInv, TypeOK, Removing, Dropping
  <2> QED
    BY <2>1, <2>2
<1>6. Given(c)'
  BY <1>4 DEF Given, Putting, Adding, Removing, Dropping
<1>7. IsFiniteSet(started') /\ \A k \in Rows : para[k].pclient \in started'
  BY <1>4 DEF FInv, Filled
<1> QED
  BY <1>2, <1>3, <1>4, <1>5, <1>6, <1>7, FullFrame

\* The client that is gone has no entry.
LEMMA LeaveFull ==
  ASSUME TInv, OInv, FInv, NEW c \in Client, Leave(c)
  PROVE  FInv'
<1>1. OnlyIn(c)
  BY StepOnly DEF Step
<1>2. /\ pc[c] = "leave" /\ pc'[c] = "idle" /\ UNCHANGED <<num, para>>
      /\ started' = started \ {c}
      /\ owner' = [s \in Socket |-> IF owner[s] = c THEN Gone ELSE owner[s]]
  BY DEF Leave, Return, Goto, table, TInv, TypeOK
<1>3. RowsKept
  BY <1>1, <1>2, StillKept DEF Removing, Dropping
<1>4. \A k \in Rows : para[k].pclient \in started'
  <2>1. \A k \in Rows : ~Used(c, k)
    BY <1>2 DEF OInv, NoneYet, Without
  <2> QED
    BY <1>2, <2>1, AllUsed DEF FInv, Filled
<1>5. \A s \in Socket : owner'[s] # NULL => owner[s] # NULL
  BY <1>2, TableAssumption
<1>6. IsFiniteSet(started')
  BY <1>2, FS_RemoveElement DEF FInv
<1>7. Given(c)' /\ pc[c] \notin Putting \cup Removing
  BY <1>2 DEF Given, Putting, Adding, Removing, Dropping
<1> QED
  BY <1>1, <1>3, <1>4, <1>5, <1>6, <1>7, FullFrame

\* While a thread is at connect_server all sessions are those of entries: as there
\* are fewer of these than descriptors, one is free.
LEMMA SocketFree ==
  ASSUME TInv, FInv, IsFiniteSet(Socket) => Cardinality(Socket) >= MaxConnect,
         NEW c \in Client, ConnectServer(c)
  PROVE  \E s \in Socket : owner[s] = NULL
<1>1. SUFFICES ASSUME \A s \in Socket : owner[s] # NULL PROVE FALSE
  OBVIOUS
<1>2. OnlyIn(c) /\ pc[c] = "connect" /\ num \in Nat /\ num < MaxConnect
  BY StepOnly, TableAssumption DEF Step, ConnectServer, Phase
<1>3. Rows = 0 .. (num - 1)
  BY <1>2, RowsAll DEF Removing, Dropping
<1>4. \A s \in Socket : \E k \in Rows : para[k].socket = s
  <2> SUFFICES ASSUME NEW s \in Socket PROVE \E k \in Rows : para[k].socket = s
    OBVIOUS
  <2>1. PICK d \in Client : SessionOf(d, s) \/ pc[d] \in Putting \cup Removing
    BY <1>1 DEF FInv, Held
  <2>2. pc[d] \notin Putting \cup Removing
    BY <1>2 DEF OnlyIn, Putting, Adding, Removing, Dropping
  <2> QED
    BY <2>1, <2>2 DEF SessionOf
<1> DEFINE Busy == {k \in 0 .. (num - 1) : para[k].socket \in Socket}
           f     == [k \in Busy |-> para[k].socket]
<1>5. IsFiniteSet(Busy) /\ Cardinality(Busy) <= num
  <2>1. IsFiniteSet(0 .. (num - 1)) /\ Cardinality(0 .. (num - 1)) <= num
    <3>1. 0 \in Int /\ num - 1 \in Int
      BY <1>2
    <3>2. /\ IsFiniteSet(0 .. (num - 1))
          /\ Cardinality(0 .. (num - 1)) = IF 0 > num - 1 THEN 0 ELSE (num - 1) - 0 + 1
      BY <3>1, FS_Interval
    <3> QED
      BY <1>2, <3>2
  <2>2. Busy \in SUBSET (0 .. (num - 1))
    OBVIOUS
  <2>3. IsFiniteSet(Busy) /\ Cardinality(Busy) <= Cardinality(0 .. (num - 1))
    BY <2>1, <2>2, FS_Subset
  <2> QED
    BY <1>2, <2>1, <2>3, FS_CardinalityType
<1>6. f \in Surjection(Busy, Socket)
  BY <1>3, <1>4 DEF Surjection
<1>7. IsFiniteSet(Socket) /\ Cardinality(Socket) <= Cardinality(Busy)
  BY <1>5, <1>6, FS_Surjection
<1>8. Cardinality(Socket) \in Nat /\ Cardinality(Busy) \in Nat
  BY <1>5, <1>7, FS_CardinalityType
<1> QED
  BY <1>2, <1>5, <1>7, <1>8, TableAssumption

\* connect_server: the engine accepts.
LEMMA ConnectServerFull ==
  ASSUME TInv, FInv, faults = {}, IsFiniteSet(Socket) => Cardinality(Socket) >= MaxConnect,
         NEW c \in Client, ConnectServer(c)
  PROVE  FInv'
<1>1. PICK s \in Socket : owner[s] = NULL /\ owner' = [owner EXCEPT ![s] = c] /\ sock' = [sock EXCEPT ![c] = s]
  BY SocketFree DEF ConnectServer
<1>2. /\ OnlyIn(c) /\ pc[c] = "connect" /\ pc'[c] = "recheck" /\ sock'[c] = s
      /\ UNCHANGED <<num, para, started>>
  BY <1>1, StepOnly DEF Step, ConnectServer, Goto, table, TInv, TypeOK
<1>3. RowsKept
  BY <1>2, StillKept DEF Removing, Dropping
<1>4. Filled'
  BY <1>2, <1>3 DEF FInv, Filled, RowsKept
<1>5. ASSUME NEW d \in Client PROVE Given(d)'
  <2>1. s # 0
    BY TableAssumption
  <2> QED
    BY <1>2, <2>1 DEF OnlyIn, Given, Putting, Adding
<1>6. ASSUME NEW t \in Socket, owner'[t] # NULL PROVE Held(t)'
  <2>1. CASE t = s
    BY <1>2, <2>1 DEF Held, Putting
  <2>2. CASE t # s
    <3>1. owner[t] # NULL
      BY <1>1, <1>6, <2>2 DEF TInv, TypeOK
    <3>2. PICK d \in Client : SessionOf(d, t) \/ pc[d] \in Putting \cup Removing
      BY <3>1 DEF FInv, Held
    <3>3. pc[d] \notin Putting \cup Removing
      BY <1>2 DEF OnlyIn, Putting, Adding, Removing, Dropping
    <3> QED
      BY <1>3, <3>2, <3>3 DEF RowsKept, Held
  <2> QED
    BY <2>1, <2>2
<1> QED
  BY <1>2, <1>4, <1>5, <1>6 DEF FInv

\* The count goes up: the session added is that of the last entry.
LEMMA CountStoreFull ==
  ASSUME TInv, SInv, OInv, FInv, NEW c \in Client, CountStore(c)
  PROVE  FInv'
<1>1. /\ OnlyIn(c) /\ pc[c] = "countStore" /\ pc'[c] = "lookup"
      /\ UNCHANGED <<para, sock, owner, started>>
      /\ num \in Nat /\ num' = num + 1
  <2>1. OnlyIn(c) /\ Phase(c) /\ num \in Nat
    BY StepOnly DEF Step
  <2>2. /\ pc[c] = "countStore" /\ pc'[c] = "lookup" /\ num' = tmp[c] + 1
        /\ UNCHANGED <<para, sock, owner, started>>
    BY DEF CountStore, Goto, outside, TInv, TypeOK
  <2>3. tmp[c] = num
    BY <2>1, <2>2 DEF Phase, HalfAdded, Adding
  <2> QED
    BY <2>1, <2>2, <2>3
<1>2. Rows = 0 .. (num - 1) /\ Rows' = 0 .. num
  BY <1>1, RowsAll DEF Removing, Dropping
<1>3. para[num].pclient = c /\ para[num].socket = sock[c] /\ sock[c] # 0 /\ c \in started
  BY <1>1 DEF SInv, Locals, OInv, Owns, FInv, Given, Putting, Adding
<1>4. Filled'
  BY <1>1, <1>2, <1>3 DEF FInv, Filled
<1>5. \A d \in Client : Given(d)'
  BY <1>1 DEF OnlyIn, Given, Putting, Adding
<1>6. \A j \in Rows : para[j].pclient # c
  BY <1>1, AllUsed DEF OInv, NoneYet, Without, Putting, Adding
<1>7. ASSUME NEW s, s = sock[c] PROVE SessionOf(c, s)'
  <2>1. ASSUME NEW k, k = num PROVE First(c, k)' /\ k \in Rows' /\ para'[k].socket = s
    BY <1>1, <1>2, <1>3, <1>6, <1>7, <2>1 DEF First
  <2> QED
    BY <2>1 DEF SessionOf
<1>8. ASSUME NEW s \in Socket, owner'[s] # NULL PROVE Held(s)'
  <2>1. PICK d \in Client : SessionOf(d, s) \/ (pc[d] \in Putting \cup Removing /\ sock[d] = s)
    BY <1>1, <1>8 DEF FInv, Held
  <2>2. CASE SessionOf(d, s)
    <3>1. ASSUME NEW k \in Rows, First(d, k) PROVE First(d, k)'
      BY <1>1, <1>2, <3>1 DEF First
    <3>2. SessionOf(d, s)'
      BY <1>1, <1>2, <2>2, <3>1 DEF SessionOf
    <3> QED
      BY <3>2 DEF Held
  <2>3. CASE pc[d] \in Putting \cup Removing /\ sock[d] = s
    <3>1. d = c
      BY <1>1, <2>3 DEF OnlyIn, Putting, Adding, Removing, Dropping
    <3> QED
      BY <1>7, <2>3, <3>1 DEF Held
  <2> QED
    BY <2>1, <2>2, <2>3
<1> QED
  BY <1>1, <1>4, <1>5, <1>8 DEF FInv

\* The search of del_socket ends: the thread holds the session of the entry.
LEMMA FindFull ==
  ASSUME TInv, SInv, FInv, NEW c \in Client, Find(c)
  PROVE  FInv'
<1>1. /\ OnlyIn(c) /\ pc[c] = "find" /\ pc'[c] = "shift" /\ num \in Nat
      /\ UNCHANGED <<num, para, sock, owner, started>>
  <2>1. OnlyIn(c) /\ num \in Nat
    BY StepOnly DEF Step
  <2> QED
    BY <2>1 DEF Find, Goto, table, outside, TInv, TypeOK
<1>2. PICK r \in Rows : i'[c] = r /\ First(c, r) /\ para[r].socket = sock[c]
  BY FindFirst
<1>3. Rows' = Rows \ {r} /\ Rows \subseteq Int
  <2>1. Rows = 0 .. (num - 1)
    BY <1>1, RowsAll DEF Removing, Dropping
  <2>2. Rows' = (0 .. (num - 1)) \ {r}
    BY <1>1, <1>2 DEF OnlyIn, Rows, Dropping
  <2> QED
    BY <2>1, <2>2
<1>4. Filled' /\ \A d \in Client : Given(d)'
  BY <1>1, <1>3 DEF FInv, Filled, OnlyIn, Given, Putting, Adding
<1>5. ASSUME NEW s \in Socket, owner'[s] # NULL PROVE Held(s)'
  <2>1. PICK d \in Client : SessionOf(d, s)
    BY <1>1, <1>5 DEF FInv, Held, OnlyIn, Putting, Adding, Removing, Dropping
  <2>2. PICK k \in Rows : First(d, k) /\ para[k].socket = s
    BY <2>1 DEF SessionOf
  <2>3. CASE k = r
    BY <1>1, <1>2, <2>2, <2>3 DEF Held, Removing
  <2>4. CASE k # r
    <3>1. First(d, k)'
      BY <1>1, <1>3, <2>2, <2>4 DEF First
    <3> QED
      BY <1>1, <1>3, <2>2, <2>4, <3>1 DEF Held, SessionOf
  <2> QED
    BY <2>3, <2>4
<1> QED
  BY <1>1, <1>4, <1>5 DEF FInv

\* Every step keeps the invariant when nothing goes wrong.
LEMMA NextFull ==
  ASSUME TInv, SInv, OInv, FInv, faults = {}, [Next]_vars,
         IsFiniteSet(Socket) => Cardinality(Socket) >= MaxConnect
  PROVE  FInv'
<1>1. ASSUME UNCHANGED <<num, para, pc, i, sock, started, owner>> PROVE FInv'
  <2>1. Rows' = Rows
    BY <1>1 DEF Rows
  <2> QED
    BY <1>1, <2>1 DEF FInv, Filled, Given, Held, SessionOf, First
<1>2. CASE UNCHANGED vars
  BY <1>1, <1>2 DEF vars
<1>3. ASSUME NEW c \in Client, Connected(c) PROVE FInv'
  BY <1>1, <1>3 DEF Connected, table, thread
<1>4. ASSUME NEW c \in Client, Start(c) \/ Move(c) \/ Close(c) PROVE FInv'
  BY <1>4, EnterFull DEF TakeTurns
<1>5. ASSUME NEW c \in Client, Step(c) PROVE FInv'
  BY <1>5, LookFull, ConnectServerFull, PutFull, CountStoreFull, FindFull, RemoveFull, LeaveFull DEF Step
<1> QED
  BY <1>2, <1>3, <1>4, <1>5 DEF Next, EngineDies

\* With entries of different browsers in a full table, that many have started.
LEMMA FullOfOthers ==
  ASSUME TInv, OInv, FInv, NEW c \in Client, Check(c), AtLimit
  PROVE  Cardinality(started \ {c}) >= MaxConnect
<1>1. /\ OnlyIn(c) /\ pc[c] = "check" /\ num = MaxConnect /\ MaxConnect \in Nat
  BY StepOnly, TableAssumption DEF Step, Check, AtLimit
<1>2. Rows = 0 .. (MaxConnect - 1)
  BY <1>1, RowsAll DEF Removing, Dropping
<1>3. \A k \in Rows : para[k].pclient \in started \ {c}
  <2>1. \A k \in Rows : ~Used(c, k)
    BY <1>1 DEF OInv, NoneYet, Without
  <2> QED
    BY <2>1, AllUsed DEF FInv, Filled
<1>4. \A k, l \in Rows : para[k].pclient = para[l].pclient => k = l
  <2> SUFFICES ASSUME NEW k \in Rows, NEW l \in Rows, para[k].pclient = para[l].pclient PROVE k = l
    OBVIOUS
  <2>1. para[k].pclient \in Client
    BY <1>3 DEF TInv, TypeOK
  <2>2. Used(para[k].pclient, k) /\ Used(para[k].pclient, l)
    BY <2>1, AllUsed
  <2> QED
    BY <2>1, <2>2 DEF OInv, OneEach
<1> DEFINE f == [k \in Rows |-> para[k].pclient]
<1>5. f \in Injection(Rows, started \ {c})
  BY <1>3, <1>4 DEF Injection, IsInjective
<1>6. IsFiniteSet(started \ {c})
  BY FS_RemoveElement DEF FInv
<1>7. Cardinality(Rows) <= Cardinality(started \ {c})
  BY <1>5, <1>6, FS_Injection
<1>8. Cardinality(Rows) = MaxConnect
  BY <1>1, <1>2, FS_Interval
<1> QED
  BY <1>7, <1>8

\* A start is refused only when MAX_CONNECT other browsers have started a game and
\* are still connected, when each starts once, threads take turns, the engine is
\* reachable and there are descriptors for that many sessions.
THEOREM FullMeansFullHolds ==
  ASSUME IsFiniteSet(Socket) => Cardinality(Socket) >= MaxConnect
  PROVE  Spec => FullMeansFull
<1> DEFINE Sessions == (Lasting => TInv /\ SInv) /\ (Single => TInv /\ SInv /\ OInv)
           Filling  == faults = {} => FInv
           Refused  == \A c \in Client : faults = {} /\ reply[c] # "full" /\ reply'[c] = "full"
                                           => Cardinality(started \ {c}) >= MaxConnect
<1>1. Init => Filling
  <2> SUFFICES ASSUME Init PROVE FInv
    OBVIOUS
  <2>1. Rows = {}
    BY DEF Init, Rows
  <2> QED
    BY <2>1, FS_EmptySet DEF Init, FInv, Filled, Given, Putting, Adding
<1>2. Sessions /\ Filling /\ [Next]_vars => Filling'
  <2> SUFFICES ASSUME Sessions, Filling, [Next]_vars, faults' = {} PROVE FInv'
    OBVIOUS
  <2>1. faults = {}
    BY FaultsSettled
  <2> QED
    BY <2>1, NextFull DEF Single
<1>3. Sessions /\ Filling /\ [Next]_vars => Refused
  <2> SUFFICES ASSUME Sessions, Filling, [Next]_vars, NEW c \in Client, faults = {},
                      reply[c] # "full", reply'[c] = "full"
               PROVE  Cardinality(started \ {c}) >= MaxConnect
    OBVIOUS
  <2>1. TInv /\ OInv /\ FInv
    BY DEF Single
  <2>2. ASSUME NEW d \in Client, Check(d) PROVE d = c /\ AtLimit
    BY <2>1, <2>2 DEF Check, TInv, TypeOK
  <2>3. ASSUME NEW d \in Client, Start(d) \/ Move(d) \/ Exchange(d) \/ Leave(d) PROVE FALSE
    BY <2>1, <2>3 DEF Start, Move, Exchange, Leave, TInv, TypeOK
  <2>4. \E d \in Client : Check(d) \/ Start(d) \/ Move(d) \/ Exchange(d) \/ Leave(d)
    BY DEF Next, vars, Connected, Close, Step, ConnectServer, Recheck, PutClient, PutSocket,
           CountLoad, CountStore, NextEntry, GetSocket, CloseGetSocket, Find, Shift, ClearLast,
           DropLoad, DropStore, outside, EngineDies
  <2>5. Check(c) /\ AtLimit
    BY <2>2, <2>3, <2>4
  <2> QED
    BY <2>1, <2>5, FullOfOthers
<1>4. Spec => []Sessions
  BY SessionsHold
<1>5. Refused => (\A c \in Client : faults = {} /\ reply[c] # "full" /\ reply'[c] = "full"
                                     => Cardinality(started \ {c}) >= MaxConnect)
  OBVIOUS
<1> QED
  BY <1>1, <1>2, <1>3, <1>4, PTL DEF Spec, FullMeansFull

=============================================================================
