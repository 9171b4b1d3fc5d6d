-------------------------- MODULE EngineHostProofs --------------------------
(***************************************************************************)
(* Whatever the order in which main accepts and its threads begin, and for *)
(* any number of connections: no thread serves a connection older than the *)
(* one it was created for, and a connection without a session means that   *)
(* another has two.                                                        *)
(*                                                                         *)
(* For bodies of any size, cut in any way: the two ends of a connection    *)
(* that one thread serves agree on where they are in their streams (LInv), *)
(* and with threads that read their descriptor in time the connection is   *)
(* the remote call of RemoteCall, when either process is killed too.       *)
(***************************************************************************)
EXTENDS EngineHost, FiniteSetTheorems, SequenceTheorems, TLAPS

-----------------------------------------------------------------------------
(* The inductive invariant *)

\* The threads main has created.
Created == IF mpc = "create" THEN accepted - 1 ELSE accepted

\* main's variable is the connection accepted last.
MainHolds == /\ setting \in Settings
             /\ accepted \in Nat /\ asked \in 0 .. Browsers /\ accepted <= asked
             /\ socket_client = accepted
             /\ mpc \in {"accept", "create", "returned"}
             /\ mpc = "create" => accepted > 0

\* A session is a record.
Records == /\ session = [t \in Conn |-> session[t]]
           /\ \A t \in Conn : DOMAIN session[t] = {"sock", "pc", "left", "call"}

\* What the descriptor of thread t may be: it is created in its turn, and serves a
\* connection accepted since its own.
SockHolds(t) == /\ session[t].sock \in {0, -1} \cup (t .. accepted)
                /\ session[t].sock = -1 => t <= accepted
                /\ mpc # "returned" => (session[t].sock # 0 <=> t <= Created)

HInv == MainHolds /\ Records /\ \A t \in Conn : SockHolds(t)

\* Every thread keeps its descriptor.
SocksKept == Records' /\ \A t \in Conn : session'[t].sock = session[t].sock

-----------------------------------------------------------------------------
(* Every step keeps the invariant *)

\* The initial states satisfy it: nothing is accepted, no thread created.
LEMMA HInit == Init => HInv
<1> SUFFICES ASSUME Init PROVE HInv
  OBVIOUS
<1>1. MainHolds
  BY HostAssumption DEF Init, MainHolds
<1>2. Records
  BY DEF Init, Records
<1>3. \A t \in Conn : SockHolds(t)
  BY HostAssumption DEF Init, SockHolds, Created, Conn
<1> QED
  BY <1>1, <1>2, <1>3 DEF HInv

\* A step that changes neither main nor a descriptor keeps it.
LEMMA KeptKeeps ==
  HInv /\ SocksKept /\ UNCHANGED <<setting, main>> /\ asked' \in asked .. Browsers => HInv'
<1> SUFFICES ASSUME HInv, SocksKept, UNCHANGED <<setting, main>>, asked' \in asked .. Browsers PROVE HInv'
  OBVIOUS
<1>1. MainHolds'
  BY HostAssumption DEF HInv, MainHolds, main
<1>2. (\A t \in Conn : SockHolds(t))'
  BY DEF HInv, SockHolds, Created, main, SocksKept
<1> QED
  BY <1>1, <1>2 DEF HInv, SocksKept

\* The steps of a session that has begun.
SessionStep(t) == \/ SessionRecvLen(t) \/ SessionRecvBody(t) \/ HandleConsix(t)
                  \/ SessionSendLen(t) \/ SessionSendBody(t) \/ SessionEnd(t)

\* They change the other fields of their session, and no session by mistake.
LEMMA SessionFields ==
  ASSUME Records, NEW t \in Conn, SessionStep(t)
  PROVE  /\ session' = [x \in Conn |-> session'[x]]
         /\ \A x \in Conn \ {t} : session'[x] = session[x]
         /\ DOMAIN session'[t] = {"sock", "pc", "left", "call"}
         /\ session'[t].sock = session[t].sock /\ session'[t].pc # "dead"
<1> DEFINE Q == /\ session' = [x \in Conn |-> session'[x]]
                /\ \A x \in Conn \ {t} : session'[x] = session[x]
                /\ DOMAIN session'[t] = {"sock", "pc", "left", "call"}
                /\ session'[t].sock = session[t].sock /\ session'[t].pc # "dead"
<1>0. session = [x \in Conn |-> session[x]] /\ DOMAIN session[t] = {"sock", "pc", "left", "call"}
  BY DEF Records
<1>1. ASSUME NEW p, p # "dead", session' = [session EXCEPT ![t].pc = p] PROVE Q
  BY <1>0, <1>1
<1>2. ASSUME NEW p, p # "dead", NEW l, session' = [session EXCEPT ![t].pc = p, ![t].left = l] PROVE Q
  BY <1>0, <1>2
<1>3. ASSUME NEW p, p # "dead", NEW k, session' = [session EXCEPT ![t].left = @ - k, ![t].pc = p]
      PROVE  Q
  BY <1>0, <1>3
<1>4. CASE SessionRecvLen(t)
  BY <1>0, <1>4 DEF SessionRecvLen
<1>5. CASE SessionRecvBody(t)
  <2>1. \/ \E k : session' = [session EXCEPT ![t].left = @ - k,
                            ![t].pc = IF session[t].left = k THEN "handle" ELSE "recvBody"]
        \/ \E p \in {"spin", "lost"} : session' = [session EXCEPT ![t].pc = p]
    BY <1>5 DEF SessionRecvBody
  <2>2. ASSUME NEW k, session' = [session EXCEPT ![t].left = @ - k,
                        ![t].pc = IF session[t].left = k THEN "handle" ELSE "recvBody"]
        PROVE  Q
    <3>1. (IF session[t].left = k THEN "handle" ELSE "recvBody") # "dead"
      OBVIOUS
    <3> HIDE DEF Q
    <3> QED
      BY <1>3, <2>2, <3>1
  <2>3. ASSUME NEW p \in {"spin", "lost"}, session' = [session EXCEPT ![t].pc = p] PROVE Q
    <3>1. p # "dead"
      OBVIOUS
    <3> HIDE DEF Q
    <3> QED
      BY <1>1, <2>3, <3>1
  <2> HIDE DEF Q
  <2>4. Q
    BY <2>1, <2>2, <2>3
  <2> QED
    BY <2>4 DEF Q
<1>6. CASE HandleConsix(t)
  BY <1>1, <1>6 DEF HandleConsix
<1>7. CASE SessionSendLen(t)
  <2>1. \/ \E size : session' = [session EXCEPT ![t].pc = "sendBody", ![t].left = size]
        \/ session' = [session EXCEPT ![t].pc = "ended"]
    BY <1>7 DEF SessionSendLen
  <2> HIDE DEF Q
  <2>2. Q
    BY <1>1, <1>2, <2>1
  <2> QED
    BY <2>2 DEF Q
<1>8. CASE SessionSendBody(t)
  <2>1. \/ \E k : session' = [session EXCEPT ![t].left = @ - k,
                            ![t].pc = IF session[t].left = k THEN "recvLen" ELSE "sendBody"]
        \/ session' = [session EXCEPT ![t].pc = "spin"]
    BY <1>8 DEF SessionSendBody
  <2>2. ASSUME NEW k, session' = [session EXCEPT ![t].left = @ - k,
                        ![t].pc = IF session[t].left = k THEN "recvLen" ELSE "sendBody"]
        PROVE  Q
    <3>1. (IF session[t].left = k THEN "recvLen" ELSE "sendBody") # "dead"
      OBVIOUS
    <3> HIDE DEF Q
    <3> QED
      BY <1>3, <2>2, <3>1
  <2> HIDE DEF Q
  <2>3. Q
    BY <1>1, <2>1, <2>2
  <2> QED
    BY <2>3 DEF Q
<1>9. CASE SessionEnd(t)
  BY <1>1, <1>9 DEF SessionEnd
<1> QED
  BY <1>4, <1>5, <1>6, <1>7, <1>8, <1>9 DEF SessionStep

\* So they keep the descriptors, and main's variables.
LEMMA SessionKeeps ==
  ASSUME HInv, NEW t \in Conn, SessionStep(t)
  PROVE  SocksKept /\ UNCHANGED <<main, asked, setting>>
<1>1. SocksKept
  BY SessionFields DEF HInv, Records, SocksKept
<1> QED
  BY <1>1 DEF SessionStep, SessionRecvLen, SessionRecvBody, HandleConsix, SessionSendLen,
              SessionSendBody, SessionEnd

\* The first statements of a thread: main's variable is no older than the thread.
LEMMA BeginKeeps ==
  ASSUME HInv, NEW t \in Conn, Begin(t)
  PROVE  HInv'
<1> USE DEF HInv, Begin, main
<1>1. MainHolds'
  BY DEF MainHolds
<1>2. Records'
  BY DEF Records
<1>3. ASSUME NEW u \in Conn PROVE SockHolds(u)'
  <2>1. session'[u].sock = IF u = t THEN accepted ELSE session[u].sock
    BY DEF Records, MainHolds
  <2>2. t \in Nat \ {0} /\ u \in Nat \ {0}
    BY DEF Conn
  <2> QED
    BY <2>1, <2>2 DEF SockHolds, Created, MainHolds
<1> QED
  BY <1>1, <1>2, <1>3

\* The steps of main.
LEMMA MainKeeps == HInv /\ (Accept \/ Create) => HInv'
<1>1. ASSUME HInv, Accept PROVE HInv'
  <2> USE <1>1 DEF HInv, Accept
  <2>1. MainHolds'
    BY DEF MainHolds
  <2>2. Records'
    BY DEF Records
  <2>3. ASSUME NEW u \in Conn PROVE SockHolds(u)'
    <3>1. u \in Nat \ {0} /\ session'[u].sock = session[u].sock
      BY DEF Conn
    <3> QED
      BY <3>1 DEF SockHolds, Created, MainHolds
  <2> QED
    BY <2>1, <2>2, <2>3
<1>2. ASSUME HInv, Create PROVE HInv'
  <2> USE <1>2 DEF HInv, Create
  <2>1. MainHolds'
    BY DEF MainHolds
  <2>2. Records'
    BY DEF Records
  <2>3. ASSUME NEW u \in Conn PROVE SockHolds(u)'
    <3>1. u \in Nat \ {0} /\ session'[u].sock = IF u = accepted THEN -1 ELSE session[u].sock
      BY DEF Conn, Records, MainHolds
    <3> QED
      BY <3>1 DEF SockHolds, Created, MainHolds
  <2> QED
    BY <2>1, <2>2, <2>3
<1> QED
  BY <1>1, <1>2

\* The end of the process leaves the descriptors as they were.
LEMMA EndsKeeps == HInv /\ EngineEnds => HInv'
<1> SUFFICES ASSUME HInv, EngineEnds PROVE HInv'
  OBVIOUS
<1> USE DEF HInv, EngineEnds
<1>1. MainHolds'
  BY DEF MainHolds
<1>2. \A t \in Conn : /\ DOMAIN session'[t] = {"sock", "pc", "left", "call"}
                      /\ session'[t].sock = session[t].sock
  BY DEF Records
<1>3. Records'
  BY <1>2 DEF Records
<1>4. (\A t \in Conn : SockHolds(t))'
  BY <1>2 DEF SockHolds
<1> QED
  BY <1>1, <1>3, <1>4

\* The steps of the handler threads do not reach the engine's threads.
LEMMA HandlersKeep ==
  ASSUME HInv,
         Connect \/ ServerDies \/ \E x \in Conn : Request(x) \/ HandleClose(x) \/ HandlerNext(x)
  PROVE  HInv'
<1>1. UNCHANGED <<session, setting, main>> /\ asked' \in asked .. Browsers
  <2>0. asked \in 0 .. Browsers /\ setting.browsers \in 0 .. Browsers
    BY HostAssumption DEF HInv, MainHolds
  <2>1. CASE Connect
    BY <2>0, <2>1, HostAssumption DEF Connect, main
  <2>2. asked \in asked .. Browsers
    BY <2>0, HostAssumption
  <2>3. ASSUME ServerDies \/ \E x \in Conn : Request(x) \/ HandleClose(x) \/ HandlerNext(x)
        PROVE  UNCHANGED <<session, setting, main, asked>>
    BY <2>3 DEF ServerDies, Request, HandleClose, HandlerNext, SendLen, SendBody, RecvLen,
                RecvLenFails, RecvBody, main
  <2> QED
    BY <2>1, <2>2, <2>3
<1> QED
  BY <1>1, KeptKeeps DEF HInv, Records, SocksKept

\* Every step keeps the invariant.
LEMMA HNext == HInv /\ [Next]_vars => HInv'
<1> SUFFICES ASSUME HInv, [Next]_vars PROVE HInv'
  OBVIOUS
<1>1. CASE UNCHANGED vars
  BY <1>1, HostAssumption, KeptKeeps DEF vars, HInv, MainHolds, Records, SocksKept
<1>2. ASSUME NEW t \in Conn, SessionNext(t) PROVE HInv'
  <2>1. CASE Begin(t)
    BY <2>1, BeginKeeps
  <2>2. CASE SessionStep(t)
    <3>1. asked \in asked .. Browsers
      BY HostAssumption DEF HInv, MainHolds
    <3> QED
      BY <2>2, <3>1, SessionKeeps, KeptKeeps
  <2> QED
    BY <1>2, <2>1, <2>2 DEF SessionNext, SessionStep
<1>3. CASE Main \/ EngineDies
  BY <1>3, MainKeeps, EndsKeeps DEF Main, AcceptFails, EngineDies
<1> QED
  BY <1>1, <1>2, <1>3, HandlersKeep DEF Next

-----------------------------------------------------------------------------
(* Theorems *)

\* The invariant holds in every state, in whatever order threads begin.
THEOREM HostInvariant == Spec => []HInv
BY HInit, HNext, PTL DEF Spec

\* A thread that reads main's variable late never takes an older connection.
THEOREM NeverOlderHolds == Spec => []NeverOlder
<1>1. HInv => NeverOlder
  BY DEF HInv, MainHolds, SockHolds, NeverOlder, Conn
<1> QED
  BY <1>1, HostInvariant, PTL

\* Two threads on a connection are more than one.
LEMMA TwoSessions ==
  ASSUME NEW c \in Conn, NEW x \in Sessions(c), NEW y \in Sessions(c), x # y
  PROVE  Cardinality(Sessions(c)) > 1
<1>1. IsFiniteSet(Conn)
  BY HostAssumption, FS_Interval DEF Conn
<1>2. IsFiniteSet(Sessions(c)) /\ Cardinality(Sessions(c)) \in Nat
  BY <1>1, FS_Subset, FS_CardinalityType DEF Sessions
<1>3. Cardinality({x}) = 1 /\ IsFiniteSet({x})
  BY FS_Singleton
<1>4. Cardinality({x} \cup {y}) = 2
  <2>1. y \notin {x}
    OBVIOUS
  <2>2. Cardinality({x} \cup {y}) = Cardinality({x}) + 1
    BY <1>3, <2>1, FS_AddElement
  <2> QED
    BY <1>3, <2>2
<1>5. {x} \cup {y} \subseteq Sessions(c)
  OBVIOUS
<1> QED
  BY <1>2, <1>4, <1>5, FS_Subset

\* When all threads run, a connection without a session means that another has
\* two: main has created as many threads as it has accepted connections.
THEOREM GivenAwayHolds == Spec => []GivenAway
<1>1. HInv => GivenAway
  <2> SUFFICES ASSUME HInv, mpc = "accept", AllBegun,
                      NEW c \in 1 .. accepted, Sessions(c) = {}
               PROVE  \E d \in 1 .. accepted : Cardinality(Sessions(d)) > 1
    BY DEF GivenAway
  <2> DEFINE S == 1 .. accepted
             f == [t \in S |-> session[t].sock]
  <2>1. accepted \in Nat /\ S \subseteq Conn
    BY HostAssumption DEF HInv, MainHolds, Conn
  <2>2. \A t \in S : session[t].sock \in t .. accepted
    BY <2>1 DEF HInv, SockHolds, Created, AllBegun
  <2>3. f \in [S -> S \ {c}]
    <3>1. \A t \in S : session[t].sock \in S /\ session[t].sock # c
      BY <2>1, <2>2 DEF Sessions
    <3> QED
      BY <3>1
  <2>4. IsFiniteSet(S) /\ Cardinality(S) \in Nat
    BY <2>1, FS_Interval, FS_CardinalityType
  <2>5. IsFiniteSet(S \ {c}) /\ Cardinality(S \ {c}) = Cardinality(S) - 1
    BY <2>4, FS_RemoveElement
  <2>6. PICK x, y \in S : x # y /\ f[x] = f[y]
    <3> HIDE DEF S, f
    <3> QED
      BY <2>3, <2>4, <2>5, FS_PigeonHole
  <2>7. /\ f[x] \in S /\ x \in Sessions(f[x]) /\ y \in Sessions(f[x])
    BY <2>1, <2>2, <2>6 DEF Sessions
  <2> QED
    BY <2>1, <2>6, <2>7, TwoSessions
<1> QED
  BY <1>1, HostInvariant, PTL

-----------------------------------------------------------------------------
(* The two streams of a connection that at most one thread serves *)

Alone(c) == \A t, u \in Sessions(c) : t = u

\* The session of connection c; before there is one, a session yet to begin.
Serving(c) == IF Sessions(c) = {} THEN [sock |-> c, pc |-> "recvLen", left |-> 0, call |-> 0]
                                  ELSE session[CHOOSE t \in Sessions(c) : TRUE]

\* What has been sent of a message of size parts, k parts of it.
Message(n, size, k) == <<Length(n, size)>> \o Copies(n, k)

\* Call n is on its way to the session, all of it but the last l parts.
Asking(n, l, s, u) ==
  \/ s.pc = "recvLen" /\ \E size \in 1 .. MaxBody : \E k \in 0 .. size :
                           size = k + l /\ u = Message(n, size, k)
  \/ /\ s.pc = "recvBody" /\ s.call = n /\ s.left > 0
     /\ \E k \in 0 .. s.left : s.left = k + l /\ u = Copies(n, k)

\* The session of a handler that waits for the length of its answer.
Waiting(n, s, u, d, v) ==
  \/ Asking(n, 0, s, u) /\ d = <<>> /\ v < n
  \/ s.pc = "handle" /\ s.call = n /\ u = <<>> /\ d = <<>> /\ v < n
  \/ s.pc = "sendLen" /\ s.call = n /\ u = <<>> /\ d = <<>> /\ v = n
  \/ /\ s.pc = "sendBody" /\ s.call = n /\ s.left > 0 /\ u = <<>> /\ v = n
     /\ \E size \in 1 .. MaxBody : \E k \in 0 .. size :
          size = k + s.left /\ d = Message(n, size, k)
  \/ /\ s.pc = "recvLen" /\ u = <<>> /\ v = n
     /\ \E size \in 1 .. MaxBody : d = Message(n, size, size)

\* The session of a handler that reads its answer and lacks l parts.
Reading(n, l, s, u, d, v) ==
  /\ l > 0 /\ u = <<>> /\ v = n
  /\ \/ s.pc = "recvLen" /\ d = Copies(n, l)
     \/ /\ s.pc = "sendBody" /\ s.call = n /\ s.left > 0
        /\ \E k \in 0 .. l : l = k + s.left /\ d = Copies(n, k)

\* Both ends hold the connection: h is the handler, s the session, u and d the
\* streams up and down, v the last call that was handled.
Talking(h, s, u, d, v) ==
  /\ h.pc \in {"idle", "sendLen", "sendBody", "recvLen", "recvBody"}
  /\ h.pc \in {"idle", "sendLen"} => s.pc = "recvLen" /\ u = <<>> /\ d = <<>>
  /\ h.pc = "sendLen"  => v < h.calls
  /\ h.pc = "sendBody" => h.left > 0 /\ Asking(h.calls, h.left, s, u) /\ d = <<>> /\ v < h.calls
  /\ h.pc = "recvLen"  => Waiting(h.calls, s, u, d, v)
  /\ h.pc = "recvBody" => Reading(h.calls, h.left, s, u, d, v)

\* The handler has closed it; the session still reads what was sent.
Hung(h, s, u, d, v) ==
  /\ h.pc \in {"out", "left", "killed"}
  /\ h.pc = "out" => s.pc = "recvLen" /\ u = <<>> /\ d = <<>>
  /\ s.pc \in {"recvLen", "recvBody", "handle", "sendLen", "sendBody", "spin", "ended"}
  /\ s.pc = "recvLen"  => u = <<>> \/ \E l \in 0 .. MaxBody : Asking(h.calls, l, s, u) /\ v < h.calls
  /\ s.pc = "recvBody" => \E l \in 0 .. MaxBody : Asking(h.calls, l, s, u) /\ v < h.calls
  /\ s.pc = "handle"   => s.call = h.calls /\ v < h.calls
  /\ s.pc \notin {"recvLen", "recvBody"} => u = <<>>

\* The engine has ended; the handler still reads what it sent.
Gone(h, u, d, v) ==
  /\ u = <<>> /\ h.pc # "lost"
  /\ h.pc \in {"sendBody", "recvBody", "spin"} => h.open \/ h.pc = "spin"
  /\ h.open /\ h.pc \in {"idle", "sendLen", "sendBody"} => d = <<>>
  /\ h.open /\ h.pc = "recvLen" =>
       d = <<>> \/ /\ v = h.calls
                   /\ \E size \in 1 .. MaxBody : \E k \in 0 .. size : d = Message(h.calls, size, k)
  /\ h.pc = "recvBody" => /\ h.left > 0 /\ v = h.calls
                          /\ \E k \in 0 .. h.left : d = Copies(h.calls, k)

Link(h, s, u, d, v, gone) ==
  /\ h.left \in Nat /\ h.calls \in Nat /\ v \in 0 .. h.calls
  /\ s.left \in Nat /\ s.left <= MaxBody
  /\ IF gone THEN Gone(h, u, d, v)
     ELSE IF h.open THEN Talking(h, s, u, d, v) ELSE Hung(h, s, u, d, v)

LinkHolds(c) == Alone(c) => Link(handler[c], Serving(c), up[c], down[c], seen[c], mpc = "returned")

\* The ends of a connection close as the processes end.
Ends == /\ \A c \in Conn : mpc = "returned" => ~sopen[c]
        /\ \A c \in Conn : mpc # "returned" /\ handler[c].open => sopen[c]
        /\ \A t \in Conn : mpc = "returned" => session[t].pc = "dead"
        /\ \A t \in Conn : mpc # "returned" /\ session[t].sock \in {0, -1} =>
                             session[t].pc = "recvLen" /\ session[t].left = 0
        /\ \A c \in Conn : c > asked => handler[c].pc \in {"out", "killed"} /\ ~handler[c].open
        /\ \A c \in Conn : c <= asked => handler[c].pc # "out"

\* A handler is a record, and every connection has its streams.
Shapes == /\ handler = [b \in Conn |-> handler[b]]
          /\ \A b \in Conn : DOMAIN handler[b] = {"pc", "left", "calls", "answer", "open"}
          /\ up = [c \in Conn |-> up[c]] /\ down = [c \in Conn |-> down[c]]
          /\ sopen = [c \in Conn |-> sopen[c]] /\ seen = [c \in Conn |-> seen[c]]

\* When each thread has read its descriptor before the next accept, it serves its own.
Prompt == setting.prompt => \A t \in Conn : /\ session[t].sock \in {0, -1, t}
                                            /\ session[t].sock = -1 => t = accepted

LInv == HInv /\ Shapes /\ Ends /\ Prompt /\ \A c \in Conn : LinkHolds(c)

-----------------------------------------------------------------------------
(* The messages on the streams *)

Part(n) == <<"part", n, 0>>

\* A body is its parts.
LEMMA CopiesShape ==
  ASSUME NEW S, NEW n, NEW k \in Nat, Part(n) \in S
  PROVE  /\ Copies(n, k) \in Seq(S) /\ Len(Copies(n, k)) = k
         /\ \A i \in 1 .. k : Copies(n, k)[i] = Part(n)
<1>1. Copies(n, k) = [i \in 1 .. k |-> Part(n)]
  BY DEF Copies, Part
<1> QED
  BY <1>1

\* No part sent is nothing sent.
LEMMA CopiesNone == ASSUME NEW n PROVE Copies(n, 0) = <<>>
BY DEF Copies

\* Parts that follow parts of the same body.
LEMMA CopiesGrow ==
  ASSUME NEW n, NEW k \in Nat, NEW j \in Nat
  PROVE  Copies(n, k) \o Copies(n, j) = Copies(n, k + j)
<1> DEFINE S == {Part(n)}
<1>1. Part(n) \in S
  OBVIOUS
<1> HIDE DEF S
<1> DEFINE a == Copies(n, k)
           b == Copies(n, j)
           c == Copies(n, k + j)
<1>2. a \in Seq(S) /\ Len(a) = k /\ \A i \in 1 .. k : a[i] = Part(n)
  BY <1>1, CopiesShape
<1>3. b \in Seq(S) /\ Len(b) = j /\ \A i \in 1 .. j : b[i] = Part(n)
  BY <1>1, CopiesShape
<1>4. c \in Seq(S) /\ Len(c) = k + j /\ \A i \in 1 .. k + j : c[i] = Part(n)
  <2>1. k + j \in Nat
    OBVIOUS
  <2> QED
    BY <1>1, <2>1, CopiesShape
<1> HIDE DEF a, b, c
<1>5. a \o b \in Seq(S) /\ Len(a \o b) = k + j
      /\ \A i \in 1 .. k + j : (a \o b)[i] = IF i <= k THEN a[i] ELSE b[i - k]
  BY <1>2, <1>3, ConcatProperties
<1>6. \A i \in 1 .. k + j : (a \o b)[i] = c[i]
  BY <1>2, <1>3, <1>4, <1>5
<1>7. a \o b = c
  BY <1>4, <1>5, <1>6, SeqEqual
<1> QED
  BY <1>7 DEF a, b, c

\* A message is not empty and starts with its length.
LEMMA MessageHead ==
  ASSUME NEW n, NEW size, NEW k \in Nat
  PROVE  /\ Message(n, size, k) # <<>>
         /\ Starts(Message(n, size, k), "length") /\ Head(Message(n, size, k)) = Length(n, size)
         /\ Tail(Message(n, size, k)) = Copies(n, k)
<1> DEFINE S == {Length(n, size), Part(n)}
           x == Length(n, size)
           b == Copies(n, k)
           m == Message(n, size, k)
<1>1. x \in S /\ b \in Seq(S) /\ Len(b) = k /\ m = <<x>> \o b
  BY CopiesShape DEF Message
<1>2. x[1] = "length"
  BY DEF Length
<1> HIDE DEF S, x, b, m
<1>3. <<x>> \in Seq(S) /\ Len(<<x>>) = 1 /\ <<x>>[1] = x
  BY <1>1
<1>4. m \in Seq(S) /\ Len(m) = k + 1 /\ m[1] = x /\ \A i \in 2 .. k + 1 : m[i] = b[i - 1]
  BY <1>1, <1>3, ConcatProperties
<1>5. m # <<>> /\ Head(m) = x
  BY <1>4
<1>6. Tail(m) \in Seq(S) /\ Len(Tail(m)) = k /\ \A i \in 1 .. k : Tail(m)[i] = m[i + 1]
  BY <1>4, <1>5, HeadTailProperties
<1>7. \A i \in 1 .. k : Tail(m)[i] = b[i]
  BY <1>4, <1>6
<1>8. Tail(m) = b
  BY <1>1, <1>6, <1>7, SeqEqual
<1> QED
  BY <1>2, <1>5, <1>8 DEF Starts, m, x, b

\* Parts that follow a message they belong to.
LEMMA MessageGrows ==
  ASSUME NEW n, NEW size, NEW k \in Nat, NEW j \in Nat
  PROVE  Message(n, size, k) \o Copies(n, j) = Message(n, size, k + j)
<1> DEFINE S == {Length(n, size), Part(n)}
           x == <<Length(n, size)>>
           a == Copies(n, k)
           b == Copies(n, j)
<1>1. x \in Seq(S) /\ a \in Seq(S) /\ b \in Seq(S)
  BY CopiesShape
<1>2. (x \o a) \o b = x \o (a \o b)
  <2> HIDE DEF S, x, a, b
  <2> QED
    BY <1>1, ConcatAssociative
<1> QED
  BY <1>2, CopiesGrow DEF Message

\* A length sent on an empty stream is a message with no part yet.
LEMMA MessageStarts == ASSUME NEW n, NEW size PROVE <<>> \o <<Length(n, size)>> = Message(n, size, 0)
<1> DEFINE x == Length(n, size)
<1>1. Message(n, size, 0) = <<x>> \o <<>>
  BY CopiesNone DEF Message
<1> HIDE DEF x
<1>2. <<>> \o <<x>> = <<x>> \o <<>>
  <2>1. <<x>> \in Seq({x})
    OBVIOUS
  <2> QED
    BY <2>1, ConcatEmptySeq
<1> QED
  BY <1>1, <1>2 DEF x

\* Parts do not start with a length, and the first of them names its call.
LEMMA CopiesHead ==
  ASSUME NEW n, NEW k \in Nat
  PROVE  /\ ~Starts(Copies(n, k), "length")
         /\ k > 0 => Copies(n, k) # <<>> /\ Head(Copies(n, k))[2] = n
<1>1. CASE k = 0
  BY <1>1, CopiesNone DEF Starts
<1>2. CASE k > 0
  <2> DEFINE S == {Part(n)}
             b == Copies(n, k)
  <2>1. b \in Seq(S) /\ Len(b) = k /\ b[1] = Part(n)
    BY <1>2, CopiesShape
  <2>2. b # <<>> /\ Head(b) = Part(n)
    <3> HIDE DEF S, b
    <3> QED
      BY <1>2, <2>1
  <2> QED
    BY <2>2 DEF Starts, Part
<1> QED
  BY <1>1, <1>2

\* A reader takes j parts of a body: there are so many, and the rest is left.
LEMMA CopiesRest ==
  ASSUME NEW n, NEW k \in Nat, NEW j \in Nat, Parts(Copies(n, k), j)
  PROVE  j <= k /\ Rest(Copies(n, k), j) = Copies(n, k - j)
<1> DEFINE S == {Part(n)}
           b == Copies(n, k)
           c == Copies(n, k - j)
           r == Rest(Copies(n, k), j)
<1>1. b \in Seq(S) /\ Len(b) = k /\ \A i \in 1 .. k : b[i] = Part(n)
  BY CopiesShape
<1>2. j <= k
  BY <1>1 DEF Parts
<1>3. c \in Seq(S) /\ Len(c) = k - j /\ \A i \in 1 .. k - j : c[i] = Part(n)
  <2>1. k - j \in Nat /\ Part(n) \in S
    BY <1>2
  <2> HIDE DEF S
  <2> QED
    BY <2>1, CopiesShape
<1>4. r = SubSeq(b, j + 1, k)
  BY <1>1 DEF Rest
<1>5. Part(n) \in S
  OBVIOUS
<1> HIDE DEF S, b, c, r
<1>6. r \in Seq(S) /\ Len(r) = k - j /\ \A i \in 1 .. k - j : r[i] = b[j + 1 + i - 1]
  <2>1. \A i \in j + 1 .. k : b[i] \in S
    BY <1>1, <1>5
  <2>2. SubSeq(b, j + 1, k) \in Seq(S)
        /\ Len(SubSeq(b, j + 1, k)) = (IF j + 1 <= k THEN k - (j + 1) + 1 ELSE 0)
        /\ \A i \in 1 .. k - (j + 1) + 1 : SubSeq(b, j + 1, k)[i] = b[j + 1 + i - 1]
    BY <2>1, SubSeqProperties
  <2> QED
    BY <1>2, <1>4, <2>2
<1>7. \A i \in 1 .. k - j : r[i] = c[i]
  BY <1>1, <1>2, <1>3, <1>6
<1>8. r = c
  BY <1>3, <1>6, <1>7, SeqEqual
<1> QED
  BY <1>2, <1>8 DEF r, c


-----------------------------------------------------------------------------
(* What each step makes of the two ends of a connection *)

\* A new request.
LEMMA RequestLinks ==
  ASSUME NEW h, NEW s, NEW u, NEW d, NEW v, NEW gone \in BOOLEAN, NEW h2,
         Link(h, s, u, d, v, gone), h.pc = "idle",
         h2.pc = "sendLen", h2.left = h.left, h2.calls = h.calls + 1, h2.open = h.open
  PROVE  Link(h2, s, u, d, v, gone)
BY DEF Link, Gone, Talking, Hung

\* The handler sends the length of a body.
LEMMA SendLenLinks ==
  ASSUME NEW h, NEW s, NEW u, NEW d, NEW v, NEW gone \in BOOLEAN, NEW h2, NEW u2,
         Link(h, s, u, d, v, gone), h.pc = "sendLen", h.open, NEW size \in 1 .. MaxBody,
         u2 = Put(u, <<Length(h.calls, size)>>, ~gone),
         h2.pc = "sendBody", h2.left = size, h2.calls = h.calls, h2.open = h.open
  PROVE  Link(h2, s, u2, d, v, gone)
<1>1. CASE gone
  BY <1>1, HostAssumption DEF Link, Gone, Put
<1>2. CASE ~gone
  <2>1. s.pc = "recvLen" /\ u = <<>> /\ d = <<>> /\ v < h.calls
    BY <1>2 DEF Link, Talking
  <2>2. u2 = Message(h.calls, size, 0)
    BY <1>2, <2>1, MessageStarts DEF Put
  <2>3. Asking(h.calls, size, s, u2)
    BY <2>1, <2>2, HostAssumption DEF Asking
  <2> QED
    BY <1>2, <2>1, <2>3, HostAssumption DEF Link, Talking
<1> QED
  BY <1>1, <1>2

\* A handler that has closed, or whose peer is gone, cannot send.
LEMMA SendFailsLinks ==
  ASSUME NEW h, NEW s, NEW u, NEW d, NEW v, NEW gone \in BOOLEAN, NEW h2,
         Link(h, s, u, d, v, gone), h.pc = "sendLen", ~h.open \/ gone,
         h2.pc = "recvLen", h2.left = h.left, h2.calls = h.calls, h2.open = FALSE
  PROVE  Link(h2, s, u, d, v, gone)
BY DEF Link, Gone, Hung

\* The session does not see whether the request is sent in one part or in two.
LEMMA AskingGrows ==
  ASSUME NEW n, NEW l \in Nat, NEW k \in 1 .. l, NEW s, NEW u, s.left \in Nat, Asking(n, l, s, u)
  PROVE  Asking(n, l - k, s, u \o Copies(n, k))
<1>1. CASE s.pc = "recvLen" /\ \E size \in 1 .. MaxBody : \E j \in 0 .. size :
                                 size = j + l /\ u = Message(n, size, j)
  <2>1. PICK size \in 1 .. MaxBody : \E j \in 0 .. size : size = j + l /\ u = Message(n, size, j)
    BY <1>1
  <2>2. PICK j \in 0 .. size : size = j + l /\ u = Message(n, size, j)
    BY <2>1
  <2>3. u \o Copies(n, k) = Message(n, size, j + k)
    <3>1. j \in Nat /\ k \in Nat
      BY HostAssumption
    <3> QED
      BY <2>2, <3>1, MessageGrows
  <2>4. j + k \in 0 .. size /\ size = (j + k) + (l - k)
    BY <2>1, <2>2, HostAssumption
  <2> QED
    BY <1>1, <2>3, <2>4 DEF Asking
<1>2. CASE /\ s.pc = "recvBody" /\ s.call = n /\ s.left > 0
           /\ \E j \in 0 .. s.left : s.left = j + l /\ u = Copies(n, j)
  <2>1. PICK j \in 0 .. s.left : s.left = j + l /\ u = Copies(n, j)
    BY <1>2
  <2>2. u \o Copies(n, k) = Copies(n, j + k)
    <3>1. j \in Nat /\ k \in Nat
      OBVIOUS
    <3> QED
      BY <2>1, <3>1, CopiesGrow
  <2>3. j + k \in 0 .. s.left /\ s.left = (j + k) + (l - k)
    BY <2>1
  <2> QED
    BY <1>2, <2>2, <2>3 DEF Asking
<1> QED
  BY <1>1, <1>2 DEF Asking

\* The handler sends k parts of a body.
LEMMA SendBodyLinks ==
  ASSUME NEW h, NEW s, NEW u, NEW d, NEW v, NEW gone \in BOOLEAN, NEW h2, NEW u2,
         Link(h, s, u, d, v, gone), h.pc = "sendBody", NEW k \in 1 .. h.left,
         u2 = Put(u, Copies(h.calls, k), ~gone),
         h2.pc = (IF h.left = k THEN "recvLen" ELSE "sendBody"),
         h2.left = h.left - k, h2.calls = h.calls, h2.open = h.open
  PROVE  Link(h2, s, u2, d, v, gone)
<1>1. CASE gone
  BY <1>1 DEF Link, Gone, Put
<1>2. CASE ~gone
  <2>1. h.open /\ h.left > 0 /\ Asking(h.calls, h.left, s, u) /\ d = <<>> /\ v < h.calls
    BY <1>2 DEF Link, Talking, Hung
  <2>2. u2 = u \o Copies(h.calls, k)
    BY <1>2 DEF Put
  <2>3. Asking(h.calls, h.left - k, s, u2)
    BY <2>1, <2>2, AskingGrows DEF Link
  <2>4. h2.pc = "recvLen" => Waiting(h.calls, s, u2, d, v)
    BY <2>1, <2>3 DEF Waiting, Link
  <2> QED
    BY <1>2, <2>1, <2>3, <2>4 DEF Link, Talking
<1> QED
  BY <1>1, <1>2

\* A handler never spins while the engine lives.
LEMMA SpinLinks ==
  ASSUME NEW h, NEW s, NEW u, NEW d, NEW v, NEW h2,
         Link(h, s, u, d, v, TRUE),
         h2.pc = "spin", h2.left = h.left, h2.calls = h.calls, h2.open = h.open
  PROVE  Link(h2, s, u, d, v, TRUE)
BY DEF Link, Gone

\* The handler reads the length of its answer: it is a length, and the body follows.
LEMMA RecvLenLinks ==
  ASSUME NEW h, NEW s, NEW u, NEW d, NEW v, NEW gone \in BOOLEAN, NEW h2, NEW d2,
         Link(h, s, u, d, v, gone), h.pc = "recvLen", h.open, d # <<>>,
         h2.pc = "recvBody", h2.left = Head(d)[3], h2.calls = h.calls, h2.open = h.open,
         d2 = Tail(d)
  PROVE  Starts(d, "length") /\ Link(h2, s, u, d2, v, gone)
<1> DEFINE n == h.calls
<1>0. n \in Nat /\ s.left \in Nat /\ v \in Nat
  BY DEF Link
<1>1. CASE gone
  <2>1. u = <<>> /\ v = n /\ \E size \in 1 .. MaxBody : \E k \in 0 .. size : d = Message(n, size, k)
    BY <1>1 DEF Link, Gone
  <2>2. PICK size \in 1 .. MaxBody : \E k \in 0 .. size : d = Message(n, size, k)
    BY <2>1
  <2>3. PICK k \in 0 .. size : d = Message(n, size, k)
    BY <2>2
  <2>4. Starts(d, "length") /\ h2.left = size /\ d2 = Copies(n, k)
    BY <2>3, MessageHead DEF Length
  <2>5. h2.left \in Nat /\ h2.left > 0 /\ \E j \in 0 .. h2.left : d2 = Copies(n, j)
    BY <2>2, <2>3, <2>4, HostAssumption
  <2> QED
    BY <1>0, <1>1, <2>1, <2>4, <2>5 DEF Link, Gone
<1>2. CASE ~gone
  <2>1. Waiting(n, s, u, d, v)
    BY <1>2 DEF Link, Talking
  <2>2. CASE /\ s.pc = "sendBody" /\ s.call = n /\ s.left > 0 /\ u = <<>> /\ v = n
             /\ \E size \in 1 .. MaxBody : \E k \in 0 .. size :
                  size = k + s.left /\ d = Message(n, size, k)
    <3>1. PICK size \in 1 .. MaxBody : \E k \in 0 .. size : size = k + s.left /\ d = Message(n, size, k)
      BY <2>2
    <3>2. PICK k \in 0 .. size : size = k + s.left /\ d = Message(n, size, k)
      BY <3>1
    <3>3. Starts(d, "length") /\ h2.left = size /\ d2 = Copies(n, k)
      BY <3>2, MessageHead DEF Length
    <3>4. Reading(n, size, s, u, d2, v)
      <4>1. size > 0 /\ k \in 0 .. size /\ size = k + s.left /\ d2 = Copies(n, k)
        BY <3>2, <3>3, HostAssumption
      <4> QED
        BY <2>2, <4>1 DEF Reading
    <3> QED
      BY <1>0, <1>2, <3>3, <3>4, HostAssumption DEF Link, Talking
  <2>3. CASE /\ s.pc = "recvLen" /\ u = <<>> /\ v = n
             /\ \E size \in 1 .. MaxBody : d = Message(n, size, size)
    <3>1. PICK size \in 1 .. MaxBody : d = Message(n, size, size)
      BY <2>3
    <3>2. Starts(d, "length") /\ h2.left = size /\ d2 = Copies(n, size)
      BY <3>1, MessageHead, HostAssumption DEF Length
    <3>3. Reading(n, size, s, u, d2, v)
      BY <2>3, <3>2, HostAssumption DEF Reading
    <3> QED
      BY <1>0, <1>2, <3>2, <3>3, HostAssumption DEF Link, Talking
  <2> QED
    BY <2>1, <2>2, <2>3 DEF Waiting
<1> QED
  BY <1>1, <1>2

\* The handler reads k parts of its answer, and with the last of them has its own.
LEMMA RecvBodyLinks ==
  ASSUME NEW h, NEW s, NEW u, NEW d, NEW v, NEW gone \in BOOLEAN, NEW h2, NEW d2,
         Link(h, s, u, d, v, gone), h.pc = "recvBody", NEW k \in 1 .. h.left,
         Parts(d, k), d2 = Rest(d, k),
         h2.pc = (IF h.left = k THEN "idle" ELSE "recvBody"),
         h2.left = (IF h.left = k THEN 0 ELSE h.left - k),
         h2.calls = h.calls, h2.open = h.open
  PROVE  Link(h2, s, u, d2, v, gone) /\ v = h.calls /\ Head(d)[2] = h.calls
<1> DEFINE n == h.calls
<1>0. n \in Nat /\ s.left \in Nat /\ v \in Nat /\ h.left \in Nat /\ k \in Nat
  BY DEF Link
<1>1. ASSUME NEW j \in Nat, d = Copies(n, j)
      PROVE  k <= j /\ d2 = Copies(n, j - k) /\ Head(d)[2] = n
  BY <1>0, <1>1, CopiesRest, CopiesHead
<1>2. CASE gone
  <2>1. u = <<>> /\ v = n /\ h.open /\ \E j \in 0 .. h.left : d = Copies(n, j)
    BY <1>2 DEF Link, Gone
  <2>2. PICK j \in 0 .. h.left : d = Copies(n, j)
    BY <2>1
  <2>3. j \in Nat /\ k <= j /\ d2 = Copies(n, j - k) /\ Head(d)[2] = n
    BY <1>0, <1>1, <2>2
  <2>4. CASE h.left = k
    <3>1. d2 = <<>>
      BY <1>0, <2>2, <2>3, <2>4, CopiesNone
    <3> QED
      BY <1>0, <1>2, <2>1, <2>3, <2>4, <3>1 DEF Link, Gone
  <2>5. CASE h.left # k
    <3>1. h2.left \in Nat /\ h2.left > 0 /\ \E i \in 0 .. h2.left : d2 = Copies(n, i)
      BY <1>0, <2>2, <2>3, <2>5
    <3> QED
      BY <1>0, <1>2, <2>1, <2>3, <2>5, <3>1 DEF Link, Gone
  <2> QED
    BY <2>4, <2>5
<1>3. CASE ~gone
  <2>1. Reading(n, h.left, s, u, d, v) /\ h.open
    BY <1>3 DEF Link, Talking, Hung
  <2>2. CASE s.pc = "recvLen" /\ d = Copies(n, h.left)
    <3>1. d2 = Copies(n, h.left - k) /\ Head(d)[2] = n
      BY <1>0, <1>1, <2>2
    <3>2. CASE h.left = k
      <4>1. d2 = <<>>
        BY <1>0, <3>1, <3>2, CopiesNone
      <4> QED
        BY <1>0, <1>3, <2>1, <2>2, <3>1, <3>2, <4>1 DEF Link, Talking, Reading
    <3>3. CASE h.left # k
      <4>1. Reading(n, h2.left, s, u, d2, v)
        BY <1>0, <2>1, <2>2, <3>1, <3>3 DEF Reading
      <4> QED
        BY <1>0, <1>3, <2>1, <2>2, <3>1, <3>3, <4>1 DEF Link, Talking, Reading
    <3> QED
      BY <3>2, <3>3
  <2>3. CASE /\ s.pc = "sendBody" /\ s.call = n /\ s.left > 0
             /\ \E j \in 0 .. h.left : h.left = j + s.left /\ d = Copies(n, j)
    <3>1. PICK j \in 0 .. h.left : h.left = j + s.left /\ d = Copies(n, j)
      BY <2>3
    <3>2. k <= j /\ d2 = Copies(n, j - k) /\ Head(d)[2] = n
      BY <1>0, <1>1, <3>1
    <3>3. h.left # k /\ j - k \in 0 .. h2.left /\ h2.left = (j - k) + s.left
      BY <1>0, <2>3, <3>1, <3>2
    <3>4. Reading(n, h2.left, s, u, d2, v)
      <4>1. h2.left > 0 /\ u = <<>> /\ v = n
        BY <1>0, <2>1, <3>3 DEF Reading
      <4>2. \E i \in 0 .. h2.left : h2.left = i + s.left /\ d2 = Copies(n, i)
        BY <3>2, <3>3
      <4> QED
        BY <2>3, <4>1, <4>2 DEF Reading
    <3> QED
      BY <1>0, <1>3, <2>1, <3>2, <3>3, <3>4 DEF Link, Talking, Reading
  <2> QED
    BY <2>1, <2>2, <2>3 DEF Reading
<1> QED
  BY <1>2, <1>3

\* A handler that reads a body never meets a length.
LEMMA InBody ==
  ASSUME NEW h, NEW s, NEW u, NEW d, NEW v, NEW gone \in BOOLEAN,
         Link(h, s, u, d, v, gone), h.pc = "recvBody"
  PROVE  ~Starts(d, "length")
<1>1. \E j \in Nat : d = Copies(h.calls, j)
  <2>1. CASE gone
    BY <2>1 DEF Link, Gone
  <2>2. CASE ~gone
    <3>1. Reading(h.calls, h.left, s, u, d, v)
      BY <2>2 DEF Link, Talking, Hung
    <3> QED
      BY <3>1 DEF Reading, Link
  <2> QED
    BY <2>1, <2>2
<1> QED
  BY <1>1, CopiesHead

\* A call fails: the descriptor is closed, or the engine is gone and has sent nothing.
LEMMA FailLinks ==
  ASSUME NEW h, NEW s, NEW u, NEW d, NEW v, NEW gone \in BOOLEAN, NEW h2,
         Link(h, s, u, d, v, gone), h.pc = "recvLen", ~h.open \/ (gone /\ d = <<>>),
         h2.pc = "idle", h2.left = h.left, h2.calls = h.calls, h2.open \in {h.open, FALSE}
  PROVE  Link(h2, s, u, d, v, gone)
BY DEF Link, Gone, Hung

\* What is on its way when the handler closes is a message, or part of one.
LEMMA AskingBound ==
  ASSUME NEW n, NEW l \in Nat, NEW s, NEW u, Asking(n, l, s, u),
         s.left \in Nat, s.left <= MaxBody
  PROVE  l \in 0 .. MaxBody
BY HostAssumption DEF Asking

\* The handler closes, in whatever call its process is killed.
LEMMA CloseLinks ==
  ASSUME NEW h, NEW s, NEW u, NEW d, NEW v, NEW gone \in BOOLEAN, NEW h2,
         Link(h, s, u, d, v, gone), h2.pc \in {"left", "killed"},
         h2.left = h.left, h2.calls = h.calls, h2.open = FALSE
  PROVE  Link(h2, s, u, d, v, gone)
<1>1. CASE gone
  BY <1>1 DEF Link, Gone
<1>2. CASE ~gone /\ ~h.open
  <2>1. Hung(h2, s, u, d, v)
    BY <1>2 DEF Link, Hung
  <2> QED
    BY <1>2, <2>1 DEF Link
<1>3. CASE ~gone /\ h.open
  <2>0. Talking(h, s, u, d, v) /\ h.left \in Nat /\ s.left \in Nat /\ s.left <= MaxBody
    BY <1>3 DEF Link
  <2>1. CASE h.pc \in {"idle", "sendLen"}
    BY <1>3, <2>0, <2>1 DEF Link, Talking, Hung
  <2>2. ASSUME NEW l \in Nat, Asking(h.calls, l, s, u), v < h.calls PROVE Hung(h2, s, u, d, v)
    <3>1. l \in 0 .. MaxBody /\ s.pc \in {"recvLen", "recvBody"}
      BY <2>0, <2>2, AskingBound DEF Asking
    <3> QED
      BY <2>2, <3>1 DEF Hung
  <2>3. CASE h.pc = "sendBody"
    BY <1>3, <2>0, <2>2, <2>3 DEF Link, Talking
  <2>4. CASE h.pc = "recvLen"
    <3>1. Waiting(h.calls, s, u, d, v)
      BY <2>0, <2>4 DEF Talking
    <3>2. CASE Asking(h.calls, 0, s, u) /\ v < h.calls
      BY <1>3, <2>2, <3>2 DEF Link
    <3>3. CASE ~(Asking(h.calls, 0, s, u) /\ v < h.calls)
      BY <1>3, <3>1, <3>3 DEF Link, Waiting, Hung
    <3> QED
      BY <3>2, <3>3
  <2>5. CASE h.pc = "recvBody"
    BY <1>3, <2>0, <2>5 DEF Link, Talking, Reading, Hung
  <2> QED
    BY <2>0, <2>1, <2>3, <2>4, <2>5 DEF Talking
<1> QED
  BY <1>1, <1>2, <1>3

\* A new connection: nothing is on its streams and no session serves it.
LEMMA ConnectLinks ==
  ASSUME NEW h, NEW s, NEW u, NEW d, NEW v, NEW h2,
         Link(h, s, u, d, v, FALSE), h.pc = "out", ~h.open, s.pc = "recvLen",
         h2.pc = "idle", h2.left = h.left, h2.calls = h.calls, h2.open = TRUE
  PROVE  Link(h2, s, u, d, v, FALSE)
BY DEF Link, Hung, Talking

\* The engine ends, with an answer sent in part or not at all.
LEMMA GoneLinks ==
  ASSUME NEW h, NEW s, NEW u, NEW d, NEW v, NEW gone \in BOOLEAN, NEW s2,
         Link(h, s, u, d, v, gone), s2.left = s.left
  PROVE  Link(h, s2, <<>>, d, v, TRUE)
<1>1. CASE gone
  BY <1>1 DEF Link, Gone
<1>2. CASE ~gone /\ ~h.open
  BY <1>2 DEF Link, Gone, Hung
<1>3. CASE ~gone /\ h.open
  <2>0. Talking(h, s, u, d, v)
    BY <1>3 DEF Link
  <2>1. CASE h.pc \in {"idle", "sendLen", "sendBody"}
    BY <1>3, <2>0, <2>1 DEF Link, Talking, Gone
  <2>2. CASE h.pc = "recvLen"
    <3>1. Waiting(h.calls, s, u, d, v)
      BY <2>0, <2>2 DEF Talking
    <3>2. d = <<>> \/ /\ v = h.calls
                      /\ \E size \in 1 .. MaxBody : \E k \in 0 .. size : d = Message(h.calls, size, k)
      <4>1. ASSUME NEW size \in 1 .. MaxBody, d = Message(h.calls, size, size), v = h.calls
            PROVE  \E k \in 0 .. size : d = Message(h.calls, size, k)
        BY <4>1, HostAssumption
      <4> QED
        BY <3>1, <4>1 DEF Waiting
    <3> QED
      BY <1>3, <2>2, <3>2 DEF Link, Gone
  <2>3. CASE h.pc = "recvBody"
    <3>1. Reading(h.calls, h.left, s, u, d, v) /\ h.left \in Nat
      BY <1>3, <2>0, <2>3 DEF Talking, Link
    <3>2. h.left > 0 /\ v = h.calls /\ \E k \in 0 .. h.left : d = Copies(h.calls, k)
      BY <3>1 DEF Reading
    <3> QED
      BY <1>3, <2>3, <3>2 DEF Link, Gone
  <2> QED
    BY <2>0, <2>1, <2>2, <2>3 DEF Talking
<1> QED
  BY <1>1, <1>2, <1>3

\* A session begins, with the state of one yet to begin.
LEMMA BeginLinks ==
  ASSUME NEW h, NEW s, NEW u, NEW d, NEW v, NEW s2,
         Link(h, s, u, d, v, FALSE), s.pc = "recvLen", s2.pc = "recvLen", s2.left = 0
  PROVE  Link(h, s2, u, d, v, FALSE)
<1>0. 0 <= MaxBody
  BY HostAssumption
<1>1. ASSUME NEW n, NEW l, Asking(n, l, s, u) PROVE Asking(n, l, s2, u)
  BY <1>1 DEF Asking
<1>2. CASE h.open
  <2>0. Talking(h, s, u, d, v)
    BY <1>2 DEF Link
  <2>1. ASSUME NEW n, Waiting(n, s, u, d, v) PROVE Waiting(n, s2, u, d, v)
    BY <1>1, <2>1 DEF Waiting
  <2>2. ASSUME NEW n, NEW l, Reading(n, l, s, u, d, v) PROVE Reading(n, l, s2, u, d, v)
    BY <2>2 DEF Reading
  <2>3. Talking(h, s2, u, d, v)
    BY <1>1, <2>0, <2>1, <2>2 DEF Talking
  <2> QED
    BY <1>0, <1>2, <2>3 DEF Link
<1>3. CASE ~h.open
  <2>0. Hung(h, s, u, d, v)
    BY <1>3 DEF Link
  <2>1. Hung(h, s2, u, d, v)
    BY <1>1, <2>0 DEF Hung
  <2> QED
    BY <1>0, <1>3, <2>1 DEF Link
<1> QED
  BY <1>2, <1>3

\* What a session that waits for a length finds on its stream is a message.
LEMMA AskingRead ==
  ASSUME NEW n, NEW l \in Nat, NEW s, NEW u, NEW s2, NEW u2, Asking(n, l, s, u), s.pc = "recvLen",
         s2.pc = "recvBody", s2.call = Head(u)[2], s2.left = Head(u)[3], u2 = Tail(u)
  PROVE  /\ Starts(u, "length") /\ s2.left \in 1 .. MaxBody
         /\ Asking(n, l, s2, u2)
<1>1. PICK size \in 1 .. MaxBody : \E k \in 0 .. size : size = k + l /\ u = Message(n, size, k)
  BY DEF Asking
<1>2. PICK k \in 0 .. size : size = k + l /\ u = Message(n, size, k)
  BY <1>1
<1>3. Starts(u, "length") /\ s2.call = n /\ s2.left = size /\ u2 = Copies(n, k)
  <2>1. k \in Nat
    BY HostAssumption
  <2>2. Starts(u, "length") /\ Head(u) = Length(n, size) /\ u2 = Copies(n, k)
    BY <1>2, <2>1, MessageHead
  <2> QED
    BY <2>2 DEF Length
<1>4. s2.left \in 1 .. MaxBody /\ s2.left > 0
  BY <1>1, <1>3, HostAssumption
<1>5. \E j \in 0 .. s2.left : s2.left = j + l /\ u2 = Copies(n, j)
  BY <1>2, <1>3
<1>6. Asking(n, l, s2, u2)
  BY <1>3, <1>4, <1>5 DEF Asking
<1> QED
  BY <1>3, <1>4, <1>6

\* The session reads the length of a request.
LEMMA SessionRecvLenLinks ==
  ASSUME NEW h, NEW s, NEW u, NEW d, NEW v, NEW s2, NEW u2,
         Link(h, s, u, d, v, FALSE), s.pc = "recvLen", u # <<>>,
         s2.pc = "recvBody", s2.call = Head(u)[2], s2.left = Head(u)[3], u2 = Tail(u)
  PROVE  Starts(u, "length") /\ Link(h, s2, u2, d, v, FALSE)
<1>1. ASSUME NEW l \in Nat, Asking(h.calls, l, s, u)
      PROVE  /\ Starts(u, "length") /\ s2.left \in 1 .. MaxBody
             /\ Asking(h.calls, l, s2, u2)
  BY <1>1, AskingRead
<1>2. CASE h.open
  <2>0. Talking(h, s, u, d, v) /\ h.left \in Nat
    BY <1>2 DEF Link
  <2>1. CASE h.pc = "sendBody"
    <3>1. Starts(u, "length") /\ s2.left \in 1 .. MaxBody /\ Asking(h.calls, h.left, s2, u2)
      BY <1>1, <2>0, <2>1 DEF Talking
    <3> QED
      BY <1>2, <2>0, <2>1, <3>1, HostAssumption DEF Talking, Link
  <2>2. CASE h.pc = "recvLen"
    <3>1. Asking(h.calls, 0, s, u) /\ d = <<>> /\ v < h.calls
      BY <2>0, <2>2 DEF Talking, Waiting
    <3>2. Starts(u, "length") /\ s2.left \in 1 .. MaxBody /\ Asking(h.calls, 0, s2, u2)
      BY <1>1, <3>1
    <3> QED
      BY <1>2, <2>0, <2>2, <3>1, <3>2, HostAssumption DEF Talking, Waiting, Link
  <2> QED
    BY <2>0, <2>1, <2>2 DEF Talking, Reading
<1>3. CASE ~h.open
  <2>0. Hung(h, s, u, d, v)
    BY <1>3 DEF Link
  <2>1. PICK l \in 0 .. MaxBody : Asking(h.calls, l, s, u) /\ v < h.calls
    BY <2>0 DEF Hung
  <2>2. Starts(u, "length") /\ s2.left \in 1 .. MaxBody /\ Asking(h.calls, l, s2, u2)
    BY <1>1, <2>1
  <2>3. Hung(h, s2, u2, d, v)
    BY <2>0, <2>1, <2>2 DEF Hung
  <2> QED
    BY <1>3, <2>2, <2>3, HostAssumption DEF Link
<1> QED
  BY <1>2, <1>3

\* The session reads k parts of a request.
LEMMA SessionRecvBodyLinks ==
  ASSUME NEW h, NEW s, NEW u, NEW d, NEW v, NEW s2, NEW u2,
         Link(h, s, u, d, v, FALSE), s.pc = "recvBody", NEW k \in 1 .. s.left,
         Parts(u, k), u2 = Rest(u, k),
         s2.pc = (IF s.left = k THEN "handle" ELSE "recvBody"),
         s2.left = s.left - k, s2.call = s.call
  PROVE  Link(h, s2, u2, d, v, FALSE)
<1>0. s2.left \in Nat /\ s2.left <= MaxBody /\ s.left \in Nat
  BY HostAssumption DEF Link
<1>1. ASSUME NEW l \in Nat, Asking(h.calls, l, s, u)
      PROVE  /\ s.call = h.calls
             /\ s.left = k => l = 0 /\ u2 = <<>>
             /\ s.left # k => Asking(h.calls, l, s2, u2)
  <2>1. s.call = h.calls
    BY <1>1 DEF Asking
  <2>2. PICK j \in 0 .. s.left : s.left = j + l /\ u = Copies(h.calls, j)
    BY <1>1 DEF Asking
  <2>3. j \in Nat /\ k \in Nat
    BY <1>0
  <2>4. k <= j /\ u2 = Copies(h.calls, j - k)
    BY <2>2, <2>3, CopiesRest
  <2>5. CASE s.left = k
    <3>1. l = 0 /\ j - k = 0
      BY <1>0, <1>1, <2>2, <2>3, <2>4, <2>5
    <3> QED
      BY <2>1, <2>4, <2>5, <3>1, CopiesNone
  <2>6. CASE s.left # k
    <3>1. j - k \in 0 .. s2.left /\ s2.left = (j - k) + l /\ s2.left > 0
      BY <1>0, <1>1, <2>2, <2>3, <2>4, <2>6
    <3> QED
      BY <2>1, <2>4, <2>6, <3>1 DEF Asking
  <2> QED
    BY <2>5, <2>6
<1>2. CASE h.open
  <2>0. Talking(h, s, u, d, v) /\ h.left \in Nat
    BY <1>2 DEF Link
  <2>1. CASE h.pc = "sendBody"
    <3>1. h.left > 0 /\ Asking(h.calls, h.left, s, u) /\ d = <<>> /\ v < h.calls
      BY <2>0, <2>1 DEF Talking
    <3>2. s.left # k /\ Asking(h.calls, h.left, s2, u2)
      BY <1>1, <2>0, <3>1
    <3> QED
      BY <1>0, <1>2, <2>1, <3>1, <3>2 DEF Talking, Link
  <2>2. CASE h.pc = "recvLen"
    <3>1. Asking(h.calls, 0, s, u) /\ d = <<>> /\ v < h.calls
      BY <2>0, <2>2 DEF Talking, Waiting
    <3>2. /\ s.call = h.calls
          /\ s.left = k => u2 = <<>>
          /\ s.left # k => Asking(h.calls, 0, s2, u2)
      BY <1>1, <3>1
    <3>3. Waiting(h.calls, s2, u2, d, v)
      BY <3>1, <3>2 DEF Waiting
    <3> QED
      BY <1>0, <1>2, <2>2, <3>3 DEF Talking, Link
  <2> QED
    BY <2>0, <2>1, <2>2 DEF Talking, Reading
<1>3. CASE ~h.open
  <2>0. Hung(h, s, u, d, v)
    BY <1>3 DEF Link
  <2>1. PICK l \in 0 .. MaxBody : Asking(h.calls, l, s, u) /\ v < h.calls
    BY <2>0 DEF Hung
  <2>2. /\ s.call = h.calls
        /\ s.left = k => u2 = <<>>
        /\ s.left # k => Asking(h.calls, l, s2, u2)
    BY <1>1, <2>1
  <2>3. h.pc \in {"left", "killed"}
    BY <2>0 DEF Hung
  <2>4. CASE s.left = k
    <3>1. Hung(h, s2, u2, d, v)
      BY <2>1, <2>2, <2>3, <2>4 DEF Hung
    <3> QED
      BY <1>0, <1>3, <3>1 DEF Link
  <2>5. CASE s.left # k
    <3>1. Hung(h, s2, u2, d, v)
      BY <2>1, <2>2, <2>3, <2>5 DEF Hung
    <3> QED
      BY <1>0, <1>3, <3>1 DEF Link
  <2> QED
    BY <2>4, <2>5
<1> QED
  BY <1>2, <1>3

\* A session that reads a body never meets a length.
LEMMA SessionInBody ==
  ASSUME NEW h, NEW s, NEW u, NEW d, NEW v, Link(h, s, u, d, v, FALSE), s.pc = "recvBody"
  PROVE  ~Starts(u, "length")
<1>1. \E l : Asking(h.calls, l, s, u)
  BY DEF Link, Talking, Waiting, Reading, Hung
<1>2. \E k \in Nat : u = Copies(h.calls, k)
  <2>1. PICK l : Asking(h.calls, l, s, u)
    BY <1>1
  <2> QED
    BY <2>1 DEF Asking, Link
<1> QED
  BY <1>2, CopiesHead

\* The session stops, or its loop spins, only when the handler has closed.
LEMMA SessionStopLinks ==
  ASSUME NEW h, NEW s, NEW u, NEW d, NEW v, NEW s2,
         Link(h, s, u, d, v, FALSE), ~h.open, u = <<>>, h.pc # "out",
         s2.pc \in {"spin", "ended"}, s2.left = s.left
  PROVE  Link(h, s2, u, d, v, FALSE)
BY DEF Link, Hung

\* The request is handled: it is that of the call under way, seen for the first time.
LEMMA HandleLinks ==
  ASSUME NEW h, NEW s, NEW u, NEW d, NEW v, NEW s2,
         Link(h, s, u, d, v, FALSE), s.pc = "handle",
         s2.pc = "sendLen", s2.left = s.left, s2.call = s.call
  PROVE  Link(h, s2, u, d, s.call, FALSE) /\ s.call = h.calls /\ v < s.call
<1>1. CASE h.open
  <2>1. h.pc = "recvLen" /\ s.call = h.calls /\ u = <<>> /\ d = <<>> /\ v < h.calls
    BY <1>1 DEF Link, Talking, Waiting, Asking, Reading
  <2> QED
    BY <1>1, <2>1 DEF Link, Talking, Waiting
<1>2. CASE ~h.open
  BY <1>2 DEF Link, Hung
<1> QED
  BY <1>1, <1>2

\* The session sends the length of its answer.
LEMMA SessionSendLenLinks ==
  ASSUME NEW h, NEW s, NEW u, NEW d, NEW v, NEW s2, NEW d2,
         Link(h, s, u, d, v, FALSE), s.pc = "sendLen", NEW size \in 1 .. MaxBody,
         d2 = Put(d, <<Length(s.call, size)>>, h.open),
         s2.pc = "sendBody", s2.left = size, s2.call = s.call
  PROVE  Link(h, s2, u, d2, v, FALSE)
<1>0. size \in Nat /\ size > 0 /\ size <= MaxBody
  BY HostAssumption
<1>1. CASE h.open
  <2>1. h.pc = "recvLen" /\ s.call = h.calls /\ u = <<>> /\ d = <<>> /\ v = h.calls
    BY <1>1 DEF Link, Talking, Waiting, Asking, Reading
  <2>2. d2 = Message(h.calls, size, 0)
    BY <1>1, <2>1, MessageStarts DEF Put
  <2>3. \E m \in 1 .. MaxBody : \E k \in 0 .. m : m = k + s2.left /\ d2 = Message(h.calls, m, k)
    BY <1>0, <2>2
  <2>4. Waiting(h.calls, s2, u, d2, v)
    BY <1>0, <2>1, <2>3 DEF Waiting
  <2> QED
    BY <1>0, <1>1, <2>1, <2>4 DEF Link, Talking
<1>2. CASE ~h.open
  BY <1>0, <1>2 DEF Link, Hung, Put
<1> QED
  BY <1>1, <1>2

\* The session sends k parts of its answer.
LEMMA SessionSendBodyLinks ==
  ASSUME NEW h, NEW s, NEW u, NEW d, NEW v, NEW s2, NEW d2,
         Link(h, s, u, d, v, FALSE), s.pc = "sendBody", NEW k \in 1 .. s.left,
         d2 = Put(d, Copies(s.call, k), h.open),
         s2.pc = (IF s.left = k THEN "recvLen" ELSE "sendBody"),
         s2.left = s.left - k, s2.call = s.call
  PROVE  Link(h, s2, u, d2, v, FALSE)
<1>0. /\ s2.left \in Nat /\ s2.left <= MaxBody /\ s.left \in Nat /\ k \in Nat
      /\ s2.left > 0 <=> s.left # k
  BY HostAssumption DEF Link
<1>1. CASE h.open
  <2>0. Talking(h, s, u, d, v)
    BY <1>1 DEF Link
  <2>d. d2 = d \o Copies(s.call, k)
    BY <1>1 DEF Put
  <2>1. CASE h.pc = "recvLen"
    <3>1. /\ s.call = h.calls /\ u = <<>> /\ v = h.calls
          /\ \E size \in 1 .. MaxBody : \E j \in 0 .. size :
               size = j + s.left /\ d = Message(h.calls, size, j)
      BY <2>0, <2>1 DEF Talking, Waiting, Asking
    <3>2. PICK size \in 1 .. MaxBody : \E j \in 0 .. size :
               size = j + s.left /\ d = Message(h.calls, size, j)
      BY <3>1
    <3>3. PICK j \in 0 .. size : size = j + s.left /\ d = Message(h.calls, size, j)
      BY <3>2
    <3>4. j \in Nat /\ size \in Nat
      BY HostAssumption
    <3>5. d2 = Message(h.calls, size, j + k)
      <4>1. Message(h.calls, size, j) \o Copies(h.calls, k) = Message(h.calls, size, j + k)
        <5>1. k \in Nat /\ j \in Nat
          BY <1>0, <3>4
        <5> QED
          BY <5>1, MessageGrows
      <4> QED
        BY <2>d, <3>1, <3>3, <4>1
    <3>6. CASE s.left = k
      <4>1. d2 = Message(h.calls, size, size)
        BY <3>3, <3>5, <3>6
      <4>2. Waiting(h.calls, s2, u, d2, v)
        BY <3>1, <3>6, <4>1 DEF Waiting
      <4> QED
        BY <1>0, <1>1, <2>1, <4>2 DEF Link, Talking
    <3>7. CASE s.left # k
      <4>1. j + k \in 0 .. size /\ size = (j + k) + s2.left
        BY <1>0, <3>3, <3>4
      <4>2. Waiting(h.calls, s2, u, d2, v)
        BY <1>0, <3>1, <3>5, <3>7, <4>1 DEF Waiting
      <4> QED
        BY <1>0, <1>1, <2>1, <4>2 DEF Link, Talking
    <3> QED
      BY <3>6, <3>7
  <2>2. CASE h.pc = "recvBody"
    <3>1. /\ h.left > 0 /\ s.call = h.calls /\ u = <<>> /\ v = h.calls /\ h.left \in Nat
          /\ \E j \in 0 .. h.left : h.left = j + s.left /\ d = Copies(h.calls, j)
      BY <1>1, <2>0, <2>2 DEF Talking, Reading, Link
    <3>2. PICK j \in 0 .. h.left : h.left = j + s.left /\ d = Copies(h.calls, j)
      BY <3>1
    <3>3. j \in Nat
      BY <3>1
    <3>4. d2 = Copies(h.calls, j + k)
      <4>1. Copies(h.calls, j) \o Copies(h.calls, k) = Copies(h.calls, j + k)
        BY <1>0, <3>3, CopiesGrow
      <4> QED
        BY <2>d, <3>1, <3>2, <4>1
    <3>5. Reading(h.calls, h.left, s2, u, d2, v)
      <4>1. CASE s.left = k
        BY <3>1, <3>2, <3>4, <4>1 DEF Reading
      <4>2. CASE s.left # k
        <5>1. j + k \in 0 .. h.left /\ h.left = (j + k) + s2.left
          BY <1>0, <3>1, <3>2, <3>3
        <5> QED
          BY <1>0, <3>1, <3>4, <4>2, <5>1 DEF Reading
      <4> QED
        BY <4>1, <4>2
    <3> QED
      BY <1>0, <1>1, <2>2, <3>5 DEF Link, Talking
  <2> QED
    BY <2>0, <2>1, <2>2 DEF Talking, Asking
<1>2. CASE ~h.open
  <2>1. Hung(h, s2, u, d2, v)
    BY <1>2 DEF Link, Hung, Put
  <2> QED
    BY <1>0, <1>2, <2>1 DEF Link
<1> QED
  BY <1>1, <1>2

-----------------------------------------------------------------------------
(* Every step keeps the two ends together *)

\* The session a lone thread runs is the one that serves its connection.
LEMMA ServingIs ==
  ASSUME NEW t \in Conn, Alone(session[t].sock)
  PROVE  Serving(session[t].sock) = session[t]
<1> DEFINE c == session[t].sock
<1>1. t \in Sessions(c)
  BY DEF Sessions
<1>2. (CHOOSE x \in Sessions(c) : TRUE) \in Sessions(c)
  BY <1>1
<1>3. (CHOOSE x \in Sessions(c) : TRUE) = t
  BY <1>1, <1>2 DEF Alone
<1> QED
  BY <1>1, <1>2, <1>3 DEF Serving

\* A connection whose session does not change.
LEMMA ServingKept ==
  ASSUME NEW c, \A t \in Conn : (session'[t].sock = c <=> session[t].sock = c)
                                /\ (session[t].sock = c => session'[t] = session[t])
  PROVE  (Alone(c)' <=> Alone(c)) /\ Serving(c)' = Serving(c)
<1>1. Sessions(c)' = Sessions(c)
  BY DEF Sessions
<1>2. Alone(c)' <=> Alone(c)
  BY <1>1 DEF Alone
<1>3. CASE Sessions(c) = {}
  BY <1>1, <1>2, <1>3 DEF Serving
<1>4. CASE Sessions(c) # {}
  <2>1. (CHOOSE t \in Sessions(c) : TRUE) \in Sessions(c)
    BY <1>4
  <2> QED
    BY <1>1, <1>2, <1>4, <2>1 DEF Serving, Sessions
<1> QED
  BY <1>2, <1>3, <1>4

\* Only the ends of connection b that are the handler's change.
AtHandler(b) == /\ \A c \in Conn \ {b} : handler'[c] = handler[c] /\ up'[c] = up[c] /\ down'[c] = down[c]
                /\ UNCHANGED <<setting, session, main, seen, sopen>>

LinkAfter(b) == Alone(b) => Link(handler'[b], Serving(b), up'[b], down'[b], seen[b], mpc = "returned")

\* Then the other connections are as they were.
LEMMA HandlerFrame ==
  ASSUME LInv, NEW b \in Conn, AtHandler(b), LinkAfter(b)
  PROVE  \A c \in Conn : LinkHolds(c)'
<1> SUFFICES ASSUME NEW c \in Conn PROVE LinkHolds(c)'
  OBVIOUS
<1>1. (Alone(c)' <=> Alone(c)) /\ Serving(c)' = Serving(c)
  BY ServingKept DEF AtHandler
<1>2. seen'[c] = seen[c] /\ mpc' = mpc
  BY DEF AtHandler, main
<1>3. CASE c = b
  BY <1>1, <1>2, <1>3 DEF LinkAfter, LinkHolds
<1>4. CASE c # b
  <2>1. LinkHolds(c) /\ handler'[c] = handler[c] /\ up'[c] = up[c] /\ down'[c] = down[c]
    BY <1>4 DEF LInv, AtHandler
  <2> QED
    BY <1>1, <1>2, <2>1 DEF LinkHolds
<1> QED
  BY <1>3, <1>4

\* A handler's step does not open a connection, and a process that is not there stays out.
LEMMA HandlerEnds ==
  ASSUME LInv, NEW b \in Conn, AtHandler(b), UNCHANGED asked,
         DOMAIN handler' = Conn, handler'[b].open => handler[b].open,
         handler[b].pc \notin {"out", "killed"}, handler'[b].pc # "out"
  PROVE  Ends' /\ Prompt'
<1> USE DEF LInv, AtHandler, main
<1>1. \A c \in Conn : mpc' = "returned" => ~sopen'[c]
  BY DEF Ends
<1>2. \A c \in Conn : mpc' # "returned" /\ handler'[c].open => sopen'[c]
  BY DEF Ends
<1>3. \A t \in Conn : mpc' = "returned" => session'[t].pc = "dead"
  BY DEF Ends
<1>4. \A t \in Conn : mpc' # "returned" /\ session'[t].sock \in {0, -1} =>
                        session'[t].pc = "recvLen" /\ session'[t].left = 0
  BY DEF Ends
<1>5. \A c \in Conn : c > asked' => handler'[c].pc \in {"out", "killed"} /\ ~handler'[c].open
  BY DEF Ends
<1>6. \A c \in Conn : c <= asked' => handler'[c].pc # "out"
  BY DEF Ends
<1>7. Ends'
  BY <1>1, <1>2, <1>3, <1>4, <1>5, <1>6 DEF Ends
<1>8. Prompt'
  BY DEF Prompt
<1> QED
  BY <1>7, <1>8

HandlerStep(b) == Request(b) \/ HandleClose(b) \/ HandlerNext(b)

\* The shape of a handler's step.
LEMMA HandlerShape ==
  ASSUME LInv, NEW b \in Conn, HandlerStep(b)
  PROVE  /\ Shapes' /\ AtHandler(b) /\ UNCHANGED asked
         /\ handler'[b].open => handler[b].open
         /\ handler[b].pc \notin {"out", "killed"} /\ handler'[b].pc # "out"
<1> DEFINE P == \E r, x, y : /\ DOMAIN r = {"pc", "left", "calls", "answer", "open"}
                             /\ r.open => handler[b].open
                             /\ r.pc # "out"
                             /\ handler' = [handler EXCEPT ![b] = r]
                             /\ up' = [up EXCEPT ![b] = x] /\ down' = [down EXCEPT ![b] = y]
<1>0. /\ handler = [c \in Conn |-> handler[c]]
      /\ up = [c \in Conn |-> up[c]] /\ down = [c \in Conn |-> down[c]]
      /\ \A c \in Conn : DOMAIN handler[c] = {"pc", "left", "calls", "answer", "open"}
  BY DEF LInv, Shapes
<1>1. P /\ handler[b].pc \notin {"out", "killed"}
  <2> DEFINE Q(r) == /\ DOMAIN r = {"pc", "left", "calls", "answer", "open"}
                     /\ r.open => handler[b].open
                     /\ r.pc # "out"
                     /\ handler' = [handler EXCEPT ![b] = r]
  <2>1. up = [up EXCEPT ![b] = up[b]] /\ down = [down EXCEPT ![b] = down[b]]
    BY <1>0
  <2>2. (\E r : Q(r)) /\ handler[b].pc \notin {"out", "killed"}
    <3>1. CASE Request(b)
      BY <1>0, <3>1 DEF Request
    <3>2. CASE HandleClose(b)
      BY <1>0, <3>2 DEF HandleClose
    <3>3. CASE SendLen(b)
      <4>1. \/ \E size : handler' = [handler EXCEPT ![b].pc = "sendBody", ![b].left = size]
            \/ handler' = [handler EXCEPT ![b].pc = "recvLen", ![b].open = FALSE]
        BY <3>3 DEF SendLen
      <4>2. handler[b].pc = "sendLen"
        BY <3>3 DEF SendLen
      <4>3. ASSUME NEW size, handler' = [handler EXCEPT ![b].pc = "sendBody", ![b].left = size]
            PROVE  \E r : Q(r)
        <5>1. Q([handler[b] EXCEPT !.pc = "sendBody", !.left = size])
          BY <1>0, <4>3
        <5> QED
          BY <5>1
      <4>4. ASSUME handler' = [handler EXCEPT ![b].pc = "recvLen", ![b].open = FALSE]
            PROVE  \E r : Q(r)
        <5>1. Q([handler[b] EXCEPT !.pc = "recvLen", !.open = FALSE])
          BY <1>0, <4>4
        <5> QED
          BY <5>1
      <4> HIDE DEF Q
      <4> QED
        BY <4>1, <4>2, <4>3, <4>4
    <3>4. CASE SendBody(b)
      <4>1. \/ \E k : handler' = [handler EXCEPT ![b].left = @ - k,
                                 ![b].pc = IF handler[b].left = k THEN "recvLen" ELSE "sendBody"]
            \/ handler' = [handler EXCEPT ![b].pc = "spin"]
        BY <3>4 DEF SendBody
      <4>2. handler[b].pc = "sendBody"
        BY <3>4 DEF SendBody
      <4>3. ASSUME NEW k, handler' = [handler EXCEPT ![b].left = @ - k,
                                        ![b].pc = IF handler[b].left = k THEN "recvLen" ELSE "sendBody"]
            PROVE  \E r : Q(r)
        <5> DEFINE p == IF handler[b].left = k THEN "recvLen" ELSE "sendBody"
        <5>1. p # "out" /\ handler' = [handler EXCEPT ![b].left = @ - k, ![b].pc = p]
          BY <4>3
        <5> HIDE DEF p
        <5>2. Q([handler[b] EXCEPT !.left = @ - k, !.pc = p])
          BY <1>0, <5>1
        <5> QED
          BY <5>2
      <4>4. ASSUME handler' = [handler EXCEPT ![b].pc = "spin"]
            PROVE  \E r : Q(r)
        <5>1. Q([handler[b] EXCEPT !.pc = "spin"])
          BY <1>0, <4>4
        <5> QED
          BY <5>1
      <4> HIDE DEF Q
      <4>5. \E r : Q(r)
        BY <4>1, <4>3, <4>4
      <4> QED
        BY <4>2, <4>5
    <3>5. CASE RecvLen(b)
      BY <1>0, <3>5 DEF RecvLen
    <3>6. CASE RecvLenFails(b)
      BY <1>0, <3>6 DEF RecvLenFails
    <3>7. CASE RecvBody(b)
      BY <1>0, <3>7 DEF RecvBody
    <3> QED
      BY <3>1, <3>2, <3>3, <3>4, <3>5, <3>6, <3>7 DEF HandlerStep, HandlerNext
  <2>3. (\E x : up' = [up EXCEPT ![b] = x]) /\ (\E y : down' = [down EXCEPT ![b] = y])
    BY <2>1 DEF HandlerStep, HandlerNext, Request, HandleClose, SendLen, SendBody, RecvLen,
                RecvLenFails, RecvBody, streams
  <2> QED
    BY <2>2, <2>3
<1>2. UNCHANGED <<setting, session, main, seen, sopen, asked>>
  BY DEF HandlerStep, HandlerNext, Request, HandleClose, SendLen, SendBody, RecvLen,
         RecvLenFails, RecvBody, streams
<1>3. PICK r, x, y : /\ DOMAIN r = {"pc", "left", "calls", "answer", "open"}
                     /\ r.open => handler[b].open
                     /\ r.pc # "out"
                     /\ handler' = [handler EXCEPT ![b] = r]
                     /\ up' = [up EXCEPT ![b] = x] /\ down' = [down EXCEPT ![b] = y]
  BY <1>1
<1>4. Shapes'
  BY <1>0, <1>2, <1>3 DEF LInv, Shapes
<1>5. AtHandler(b)
  BY <1>0, <1>2, <1>3 DEF AtHandler
<1> QED
  BY <1>0, <1>1, <1>2, <1>3, <1>4, <1>5

\* The steps of a call: it sends, waits and reads, and returns its own answer or fails.
LEMMA HandlerLinks ==
  ASSUME LInv, NEW b \in Conn, HandlerStep(b)
  PROVE  LinkAfter(b)
<1> DEFINE h == handler[b]
           h2 == handler'[b]
           u == up[b]
           d == down[b]
           s == Serving(b)
           v == seen[b]
           gone == mpc = "returned"
<1> SUFFICES ASSUME Alone(b) PROVE Link(h2, s, up'[b], down'[b], v, gone)
  BY DEF LinkAfter
<1>0. /\ handler = [c \in Conn |-> handler[c]] /\ DOMAIN h = {"pc", "left", "calls", "answer", "open"}
      /\ up = [c \in Conn |-> up[c]] /\ down = [c \in Conn |-> down[c]]
      /\ gone => ~sopen[b]
      /\ ~gone /\ h.open => sopen[b]
  BY DEF LInv, Shapes, Ends
<1>1. Link(h, s, u, d, v, gone)
  BY DEF LInv, LinkHolds
<1>g. gone \in BOOLEAN
  OBVIOUS
<1>2. CASE Request(b)
  <2>1. /\ h.pc = "idle" /\ up'[b] = u /\ down'[b] = d
        /\ h2.pc = "sendLen" /\ h2.left = h.left /\ h2.calls = h.calls + 1 /\ h2.open = h.open
    BY <1>0, <1>2 DEF Request, streams
  <2> QED
    BY <1>1, <1>g, <2>1, RequestLinks
<1>3. CASE HandleClose(b)
  <2>1. /\ up'[b] = u /\ down'[b] = d
        /\ h2.pc = "left" /\ h2.left = h.left /\ h2.calls = h.calls /\ h2.open = FALSE
    BY <1>0, <1>3 DEF HandleClose, streams
  <2> QED
    BY <1>1, <1>g, <2>1, CloseLinks
<1>4. CASE SendLen(b)
  <2>1. CASE /\ h.open
             /\ \E size \in 1 .. MaxBody :
                  /\ up' = [up EXCEPT ![b] = Put(@, <<Length(h.calls, size)>>, sopen[b])]
                  /\ handler' = [handler EXCEPT ![b].pc = "sendBody", ![b].left = size]
    <3>1. PICK size \in 1 .. MaxBody :
                  /\ up' = [up EXCEPT ![b] = Put(@, <<Length(h.calls, size)>>, sopen[b])]
                  /\ handler' = [handler EXCEPT ![b].pc = "sendBody", ![b].left = size]
      BY <2>1
    <3>2. /\ h.pc = "sendLen" /\ h.open /\ down'[b] = d
          /\ h2.pc = "sendBody" /\ h2.left = size /\ h2.calls = h.calls /\ h2.open = h.open
      BY <1>0, <1>4, <2>1, <3>1 DEF SendLen
    <3>3. up'[b] = Put(u, <<Length(h.calls, size)>>, ~gone)
      BY <1>0, <2>1, <3>1 DEF Put
    <3> HIDE DEF h, h2, u, d, s, v, gone
    <3> QED
      BY <1>1, <1>g, <3>2, <3>3, SendLenLinks
  <2>2. CASE /\ ~h.open \/ ~sopen[b]
             /\ handler' = [handler EXCEPT ![b].pc = "recvLen", ![b].open = FALSE]
             /\ UNCHANGED up
    <3>1. /\ h.pc = "sendLen" /\ (~h.open \/ gone) /\ down'[b] = d /\ up'[b] = u
          /\ h2.pc = "recvLen" /\ h2.left = h.left /\ h2.calls = h.calls /\ h2.open = FALSE
      BY <1>0, <1>4, <2>2 DEF SendLen
    <3> QED
      BY <1>1, <1>g, <3>1, SendFailsLinks
  <2> QED
    BY <1>4, <2>1, <2>2 DEF SendLen
<1>5. CASE SendBody(b)
  <2>0. h.pc = "sendBody" /\ h.open /\ down'[b] = d
    BY <1>1, <1>5 DEF SendBody, Link, Hung, Gone
  <2>1. ASSUME NEW k \in 1 .. h.left,
               up' = [up EXCEPT ![b] = Put(@, Copies(h.calls, k), sopen[b])],
               handler' = [handler EXCEPT ![b].left = @ - k,
                             ![b].pc = IF h.left = k THEN "recvLen" ELSE "sendBody"]
        PROVE  Link(h2, s, up'[b], down'[b], v, gone)
    <3>1. /\ h2.pc = (IF h.left = k THEN "recvLen" ELSE "sendBody")
          /\ h2.left = h.left - k /\ h2.calls = h.calls /\ h2.open = h.open
      BY <1>0, <2>1
    <3>2. up'[b] = Put(u, Copies(h.calls, k), ~gone)
      BY <1>0, <2>0, <2>1 DEF Put
    <3> HIDE DEF h, h2, u, d, s, v, gone
    <3> QED
      BY <1>1, <1>g, <2>0, <3>1, <3>2, SendBodyLinks
  <2>2. CASE ~sopen[b] /\ handler' = [handler EXCEPT ![b].pc = "spin"] /\ UNCHANGED up
    <3>1. /\ gone /\ up'[b] = u
          /\ h2.pc = "spin" /\ h2.left = h.left /\ h2.calls = h.calls /\ h2.open = h.open
      BY <1>0, <2>0, <2>2
    <3>2. Link(h, s, u, d, v, TRUE)
      BY <1>1, <3>1
    <3>3. Link(h2, s, u, d, v, TRUE)
      BY <3>1, <3>2, SpinLinks
    <3> QED
      BY <2>0, <3>1, <3>3
  <2> QED
    BY <1>5, <2>1, <2>2 DEF SendBody
<1>6. CASE RecvLen(b)
  <2>1. h.pc = "recvLen" /\ h.open /\ d # <<>> /\ up'[b] = u /\ down'[b] = Tail(d)
    BY <1>0, <1>6 DEF RecvLen
  <2>2. DEFINE r == [h EXCEPT !.pc = "recvBody", !.left = Head(d)[3]]
  <2>3. r.pc = "recvBody" /\ r.left = Head(d)[3] /\ r.calls = h.calls /\ r.open = h.open
    BY <1>0
  <2>4. Starts(d, "length") /\ Link(r, s, u, Tail(d), v, gone)
    <3> HIDE DEF h, h2, u, d, s, v, gone, r
    <3> QED
      BY <1>1, <1>g, <2>1, <2>3, RecvLenLinks
  <2>5. h2 = r
    BY <1>0, <1>6, <2>4 DEF RecvLen
  <2> QED
    BY <2>1, <2>4, <2>5
<1>7. CASE RecvLenFails(b)
  <2>1. PICK open \in {h.open, FALSE} : handler' = [handler EXCEPT ![b].pc = "idle", ![b].open = open]
    BY <1>7 DEF RecvLenFails
  <2>2. /\ h.pc = "recvLen" /\ (~h.open \/ (gone /\ d = <<>>)) /\ up'[b] = u /\ down'[b] = d
        /\ h2.pc = "idle" /\ h2.left = h.left /\ h2.calls = h.calls /\ h2.open \in {h.open, FALSE}
    BY <1>0, <1>7, <2>1 DEF RecvLenFails, streams
  <2> HIDE DEF h, h2, u, d, s, v, gone
  <2> QED
    BY <1>1, <1>g, <2>2, FailLinks
<1>8. CASE RecvBody(b)
  <2>0. h.pc = "recvBody" /\ h.open /\ up'[b] = u
    BY <1>1, <1>8 DEF RecvBody, Link, Hung, Gone
  <2>1. ASSUME NEW k \in 1 .. h.left, Parts(d, k), down' = [down EXCEPT ![b] = Rest(@, k)],
               handler' = IF h.left = k
                          THEN [handler EXCEPT ![b].pc = "idle", ![b].left = 0,
                                               ![b].answer = Head(d)[2]]
                          ELSE [handler EXCEPT ![b].left = @ - k]
        PROVE  Link(h2, s, up'[b], down'[b], v, gone)
    <3>1. /\ h2.pc = (IF h.left = k THEN "idle" ELSE "recvBody")
          /\ h2.left = (IF h.left = k THEN 0 ELSE h.left - k)
          /\ h2.calls = h.calls /\ h2.open = h.open
      BY <1>0, <2>0, <2>1
    <3>2. down'[b] = Rest(d, k)
      BY <1>0, <2>1
    <3>3. Parts(d, k)
      BY <2>1
    <3> HIDE DEF h, h2, u, d, s, v, gone
    <3>4. Parts(d, k) /\ h.pc = "recvBody"
      BY <2>0, <3>3
    <3>5. down'[b] = Rest(d, k)
      BY <3>2
    <3>6. h2.pc = (IF h.left = k THEN "idle" ELSE "recvBody")
      BY <3>1
    <3>7. h2.left = (IF h.left = k THEN 0 ELSE h.left - k)
      BY <3>1
    <3>8. h2.calls = h.calls /\ h2.open = h.open
      BY <3>1
    <3>9. k \in 1 .. h.left
      OBVIOUS
    <3>10. Link(h, s, u, d, v, gone) /\ gone \in BOOLEAN
      BY <1>1, <1>g
    <3>11. Link(h2, s, u, down'[b], v, gone)
      BY <3>4, <3>5, <3>6, <3>7, <3>8, <3>9, <3>10, RecvBodyLinks
    <3> QED
      BY <2>0, <3>11
  <2>2. CASE ~sopen[b] /\ handler' = [handler EXCEPT ![b].pc = "spin"] /\ UNCHANGED down
    <3>1. /\ gone /\ down'[b] = d
          /\ h2.pc = "spin" /\ h2.left = h.left /\ h2.calls = h.calls /\ h2.open = h.open
      BY <1>0, <2>0, <2>2
    <3>2. Link(h, s, u, d, v, TRUE)
      BY <1>1, <3>1
    <3>3. Link(h2, s, u, d, v, TRUE)
      BY <3>1, <3>2, SpinLinks
    <3> QED
      BY <2>0, <3>1, <3>3
  <2>3. ~Starts(d, "length")
    BY <1>1, <1>g, <2>0, InBody
  <2> QED
    BY <1>8, <2>1, <2>2, <2>3 DEF RecvBody
<1> QED
  BY <1>2, <1>3, <1>4, <1>5, <1>6, <1>7, <1>8 DEF HandlerStep, HandlerNext

\* Only session t changes, and at most the streams and the count of its connection.
AtSession(t) ==
  /\ \A x \in Conn \ {t} : session'[x] = session[x]
  /\ session'[t].sock = session[t].sock
  /\ \A c \in Conn : c # session[t].sock => /\ up'[c] = up[c] /\ down'[c] = down[c]
                                             /\ seen'[c] = seen[c] /\ sopen'[c] = sopen[c]
  /\ UNCHANGED <<setting, handler, main, asked>>

SessionAfter(t) ==
  LET c == session[t].sock
  IN  Alone(c) => Link(handler[c], session'[t], up'[c], down'[c], seen'[c], FALSE)

\* A session that has begun serves a connection, and the engine has not ended.
LEMMA Running ==
  ASSUME LInv, NEW t \in Conn, session[t].sock > 0, session[t].pc # "dead"
  PROVE  /\ session[t].sock \in Conn /\ session[t].sock <= asked /\ session[t].sock <= accepted
         /\ mpc # "returned"
         /\ handler[session[t].sock].pc # "out"
<1>1. /\ SockHolds(t) /\ accepted \in Nat /\ asked \in 0 .. Browsers /\ accepted <= asked /\ t \in Nat
  BY DEF LInv, HInv, MainHolds, Conn
<1>2. session[t].sock \in Conn /\ session[t].sock <= asked /\ session[t].sock <= accepted
  BY <1>1, HostAssumption DEF SockHolds, Conn
<1> QED
  BY <1>2 DEF LInv, Ends

\* The other connections are as they were.
LEMMA SessionFrame ==
  ASSUME LInv, NEW t \in Conn, session[t].sock > 0, session[t].pc # "dead",
         AtSession(t), SessionAfter(t)
  PROVE  \A c \in Conn : LinkHolds(c)'
<1> SUFFICES ASSUME NEW c \in Conn PROVE LinkHolds(c)'
  OBVIOUS
<1>1. CASE c = session[t].sock
  <2>1. Sessions(c)' = Sessions(c)
    BY DEF Sessions, AtSession
  <2>2. Alone(c)' <=> Alone(c)
    BY <2>1 DEF Alone
  <2>3. SUFFICES ASSUME Alone(c) PROVE Link(handler'[c], Serving(c)', up'[c], down'[c], seen'[c], mpc' = "returned")
    BY <2>2 DEF LinkHolds
  <2>4. t \in Sessions(c) /\ \A x \in Sessions(c) : x = t
    BY <1>1, <2>3 DEF Sessions, Alone
  <2>5. (CHOOSE x \in Sessions(c) : TRUE) = t
    BY <2>4
  <2>6. Serving(c)' = session'[t]
    BY <2>1, <2>4, <2>5 DEF Serving
  <2>7. mpc' # "returned" /\ handler' = handler
    BY Running DEF AtSession, main
  <2>8. (mpc' = "returned") = FALSE
    BY <2>7
  <2>9. Link(handler[c], session'[t], up'[c], down'[c], seen'[c], FALSE)
    BY <1>1, <2>3 DEF SessionAfter
  <2> QED
    BY <2>6, <2>7, <2>8, <2>9
<1>2. CASE c # session[t].sock
  <2>1. (Alone(c)' <=> Alone(c)) /\ Serving(c)' = Serving(c)
    BY <1>2, ServingKept DEF AtSession
  <2>2. LinkHolds(c) /\ handler' = handler /\ mpc' = mpc
        /\ up'[c] = up[c] /\ down'[c] = down[c] /\ seen'[c] = seen[c]
    BY <1>2 DEF AtSession, LInv, main
  <2> QED
    BY <2>1, <2>2 DEF LinkHolds
<1> QED
  BY <1>1, <1>2

\* Such a step keeps the shapes, the descriptors and everything that is not its own.
LEMMA SessionShape ==
  ASSUME LInv, NEW t \in Conn, SessionStep(t)
  PROVE  /\ session[t].sock > 0 /\ session[t].pc # "dead"
         /\ Shapes' /\ AtSession(t)
         /\ session'[t].pc # "dead" \/ mpc = "returned"
         /\ sopen'[session[t].sock] = sopen[session[t].sock] \/ ~handler[session[t].sock].open
<1> DEFINE c == session[t].sock
<1>0. /\ session = [x \in Conn |-> session[x]] /\ DOMAIN session[t] = {"sock", "pc", "left", "call"}
      /\ up = [x \in Conn |-> up[x]] /\ down = [x \in Conn |-> down[x]]
      /\ sopen = [x \in Conn |-> sopen[x]] /\ seen = [x \in Conn |-> seen[x]]
  BY DEF LInv, Shapes, HInv, Records
<1>1. session[t].sock > 0 /\ session[t].pc # "dead"
  BY DEF SessionStep, SessionRecvLen, SessionRecvBody, HandleConsix, SessionSendLen,
         SessionSendBody, SessionEnd, At
<1>2. c \in Conn /\ mpc # "returned"
  BY <1>1, Running
<1>3. handler[c].open => sopen[c]
  BY <1>2 DEF LInv, Ends
<1>4. UNCHANGED <<setting, handler, main, asked>>
  BY DEF SessionStep, SessionRecvLen, SessionRecvBody, HandleConsix, SessionSendLen,
         SessionSendBody, SessionEnd
<1>5. /\ \A x \in Conn \ {t} : session'[x] = session[x]
      /\ session'[t].sock = session[t].sock /\ session'[t].pc # "dead"
  BY SessionFields DEF LInv, HInv
<1>6. /\ \E x : up' = [up EXCEPT ![c] = x]
      /\ \E x : down' = [down EXCEPT ![c] = x]
      /\ \E x : seen' = [seen EXCEPT ![c] = x]
      /\ \E x : sopen' = [sopen EXCEPT ![c] = x] /\ (x = sopen[c] \/ ~handler[c].open)
  <2>1. /\ up = [up EXCEPT ![c] = up[c]] /\ down = [down EXCEPT ![c] = down[c]]
        /\ seen = [seen EXCEPT ![c] = seen[c]] /\ sopen = [sopen EXCEPT ![c] = sopen[c]]
    BY <1>0, <1>2
  <2>2. CASE SessionRecvLen(t)
    BY <2>1, <2>2 DEF SessionRecvLen
  <2>3. CASE SessionRecvBody(t)
    BY <2>1, <2>3 DEF SessionRecvBody
  <2>4. CASE HandleConsix(t)
    BY <2>1, <2>4 DEF HandleConsix, streams
  <2>5. CASE SessionSendLen(t)
    BY <1>3, <2>1, <2>5 DEF SessionSendLen
  <2>6. CASE SessionSendBody(t)
    BY <2>1, <2>6 DEF SessionSendBody
  <2>7. CASE SessionEnd(t)
    BY <2>1, <2>7 DEF SessionEnd, streams
  <2> QED
    BY <2>2, <2>3, <2>4, <2>5, <2>6, <2>7 DEF SessionStep
<1>7. Shapes'
  BY <1>0, <1>4, <1>6 DEF LInv, Shapes
<1>8. AtSession(t)
  <2>1. \A x \in Conn \ {t} : session'[x] = session[x]
    BY <1>5
  <2>2. session'[t].sock = session[t].sock
    BY <1>5
  <2>3. \A x \in Conn : x # c => /\ up'[x] = up[x] /\ down'[x] = down[x]
                                 /\ seen'[x] = seen[x] /\ sopen'[x] = sopen[x]
    BY <1>0, <1>6
  <2> QED
    BY <1>4, <2>1, <2>2, <2>3 DEF AtSession
<1> QED
  BY <1>0, <1>1, <1>2, <1>5, <1>6, <1>7, <1>8

\* The steps of a session that serves a connection alone: it reads a request to its
\* end, handles it once and sends one answer to it.
LEMMA SessionLinks ==
  ASSUME LInv, NEW t \in Conn, SessionStep(t)
  PROVE  /\ SessionAfter(t)
         /\ LET c == session[t].sock
            IN  Alone(c) /\ seen'[c] # seen[c] =>
                  /\ seen'[c] = handler[c].calls /\ seen[c] < seen'[c]
                  /\ seen'[c] \in Nat /\ seen[c] \in Nat
<1> DEFINE c == session[t].sock
           h == handler[c]
           s == session[t]
           s2 == session'[t]
           u == up[c]
           d == down[c]
           u2 == up'[c]
           d2 == down'[c]
           v == seen[c]
           v2 == seen'[c]
<1> SUFFICES ASSUME Alone(c)
             PROVE  /\ Link(h, s2, u2, d2, v2, FALSE)
                    /\ v2 # v => v2 = h.calls /\ v < v2 /\ v2 \in Nat /\ v \in Nat
  BY DEF SessionAfter
<1>0. /\ session = [x \in Conn |-> session[x]] /\ DOMAIN s = {"sock", "pc", "left", "call"}
      /\ up = [x \in Conn |-> up[x]] /\ down = [x \in Conn |-> down[x]]
      /\ sopen = [x \in Conn |-> sopen[x]] /\ seen = [x \in Conn |-> seen[x]]
  BY DEF LInv, Shapes, HInv, Records
<1>a. c \in Conn /\ mpc # "returned" /\ h.pc # "out"
  BY SessionShape, Running
<1>b. h.open => sopen[c]
  BY <1>a DEF LInv, Ends
<1>1. Link(h, s, u, d, v, FALSE)
  <2>1. LinkHolds(c) /\ Serving(c) = s
    BY <1>a, ServingIs DEF LInv
  <2>2. (mpc = "returned") = FALSE
    BY <1>a
  <2> QED
    BY <2>1, <2>2 DEF LinkHolds
<1>2. CASE SessionRecvLen(t)
  <2>1. s.pc = "recvLen" /\ u # <<>> /\ u2 = Tail(u) /\ d2 = d /\ v2 = v
    BY <1>0, <1>a, <1>2 DEF SessionRecvLen, At
  <2> DEFINE r == [s EXCEPT !.pc = "recvBody", !.call = Head(u)[2], !.left = Head(u)[3]]
  <2>2. r.pc = "recvBody" /\ r.call = Head(u)[2] /\ r.left = Head(u)[3]
    BY <1>0
  <2>3. Starts(u, "length") /\ Link(h, r, u2, d, v, FALSE)
    <3> HIDE DEF h, s, u, d, v, u2, r
    <3> QED
      BY <1>1, <2>1, <2>2, SessionRecvLenLinks
  <2>4. s2 = r
    BY <1>0, <1>2, <2>3 DEF SessionRecvLen
  <2> QED
    BY <2>1, <2>3, <2>4
<1>3. CASE SessionRecvBody(t)
  <2>0. s.pc = "recvBody" /\ d2 = d /\ v2 = v
    BY <1>3 DEF SessionRecvBody, At
  <2>1. ASSUME NEW k \in 1 .. s.left, Parts(u, k), up' = [up EXCEPT ![c] = Rest(@, k)],
               session' = [session EXCEPT ![t].left = @ - k,
                             ![t].pc = IF s.left = k THEN "handle" ELSE "recvBody"]
        PROVE  Link(h, s2, u2, d, v, FALSE)
    <3>1. u2 = Rest(u, k)
      BY <1>0, <1>a, <2>1
    <3>2. s2.pc = (IF s.left = k THEN "handle" ELSE "recvBody")
      BY <1>0, <2>1
    <3>3. s2.left = s.left - k /\ s2.call = s.call
      BY <1>0, <2>1
    <3>4. Parts(u, k)
      BY <2>1
    <3>5. k \in 1 .. s.left
      OBVIOUS
    <3> HIDE DEF h, s, s2, u, d, v, u2
    <3> QED
      BY <1>1, <2>0, <3>1, <3>2, <3>3, <3>4, <3>5, SessionRecvBodyLinks
  <2>2. ASSUME ~h.open /\ u = <<>>,
               session' = [session EXCEPT ![t].pc = "spin"], UNCHANGED up
        PROVE  Link(h, s2, u2, d, v, FALSE)
    <3>1. s2.pc = "spin" /\ s2.left = s.left /\ u2 = u
      BY <1>0, <2>2
    <3>2. ~h.open /\ u = <<>>
      BY <2>2
    <3> HIDE DEF h, s, s2, u, d, v, u2
    <3>3. Link(h, s2, u, d, v, FALSE)
      BY <1>1, <1>a, <3>1, <3>2, SessionStopLinks
    <3> QED
      BY <3>1, <3>3
  <2>3. ~Starts(u, "length")
    <3> HIDE DEF h, s, u, d, v
    <3> QED
      BY <1>1, <2>0, SessionInBody
  <2>4. Link(h, s2, u2, d, v, FALSE)
    BY <1>3, <2>1, <2>2, <2>3 DEF SessionRecvBody
  <2> QED
    BY <2>0, <2>4
<1>4. CASE HandleConsix(t)
  <2>1. s.pc = "handle" /\ u2 = u /\ d2 = d
    BY <1>4 DEF HandleConsix, At, streams
  <2>2. s2.pc = "sendLen" /\ s2.left = s.left /\ s2.call = s.call
    BY <1>0, <1>4 DEF HandleConsix
  <2>3. v2 = s.call
    BY <1>0, <1>a, <1>4 DEF HandleConsix
  <2>4. Link(h, s2, u, d, v2, FALSE) /\ v2 = h.calls /\ v < v2
    <3>1. s.pc = "handle"
      BY <2>1
    <3> HIDE DEF h, s, s2, u, d, v, v2
    <3>2. Link(h, s2, u, d, s.call, FALSE) /\ s.call = h.calls /\ v < s.call
      BY <1>1, <2>2, <3>1, HandleLinks
    <3> QED
      BY <2>3, <3>2
  <2>5. v2 \in Nat /\ v \in Nat
    BY <1>1, <2>4 DEF Link
  <2> QED
    BY <2>1, <2>4, <2>5
<1>5. CASE SessionSendLen(t)
  <2>0. s.pc = "sendLen" /\ u2 = u /\ v2 = v
    BY <1>5 DEF SessionSendLen, At
  <2>1. ASSUME NEW size \in 1 .. MaxBody,
               down' = [down EXCEPT ![c] = Put(@, <<Length(s.call, size)>>, h.open)],
               session' = [session EXCEPT ![t].pc = "sendBody", ![t].left = size]
        PROVE  Link(h, s2, u, d2, v, FALSE)
    <3>1. d2 = Put(d, <<Length(s.call, size)>>, h.open)
      BY <1>0, <1>a, <2>1
    <3>2. s2.pc = "sendBody" /\ s2.left = size /\ s2.call = s.call
      BY <1>0, <2>1
    <3> HIDE DEF h, s, s2, u, d, v, d2
    <3> QED
      BY <1>1, <2>0, <3>1, <3>2, SessionSendLenLinks
  <2>2. ASSUME ~h.open \/ ~sopen[c],
               session' = [session EXCEPT ![t].pc = "ended"], UNCHANGED down
        PROVE  Link(h, s2, u, d2, v, FALSE)
    <3>1. ~h.open /\ d2 = d
      BY <1>b, <2>2
    <3>2. s2.pc = "ended" /\ s2.left = s.left
      BY <1>0, <2>2
    <3>3. u = <<>>
      BY <1>1, <2>0, <3>1 DEF Link, Hung
    <3> HIDE DEF h, s, s2, u, d, v, d2
    <3>4. Link(h, s2, u, d, v, FALSE)
      BY <1>1, <1>a, <3>1, <3>2, <3>3, SessionStopLinks
    <3> QED
      BY <3>1, <3>4
  <2>3. Link(h, s2, u, d2, v, FALSE)
    BY <1>5, <2>1, <2>2 DEF SessionSendLen
  <2> QED
    BY <2>0, <2>3
<1>6. CASE SessionSendBody(t)
  <2>0. s.pc = "sendBody" /\ u2 = u /\ v2 = v
    BY <1>6 DEF SessionSendBody, At
  <2>1. ASSUME NEW k \in 1 .. s.left,
               down' = [down EXCEPT ![c] = Put(@, Copies(s.call, k), h.open)],
               session' = [session EXCEPT ![t].left = @ - k,
                             ![t].pc = IF s.left = k THEN "recvLen" ELSE "sendBody"]
        PROVE  Link(h, s2, u, d2, v, FALSE)
    <3>1. d2 = Put(d, Copies(s.call, k), h.open)
      BY <1>0, <1>a, <2>1
    <3>2. s2.pc = (IF s.left = k THEN "recvLen" ELSE "sendBody")
      BY <1>0, <2>1
    <3>3. s2.left = s.left - k /\ s2.call = s.call
      BY <1>0, <2>1
    <3>4. k \in 1 .. s.left
      OBVIOUS
    <3> HIDE DEF h, s, s2, u, d, v, d2
    <3> QED
      BY <1>1, <2>0, <3>1, <3>2, <3>3, <3>4, SessionSendBodyLinks
  <2>2. ASSUME ~h.open \/ ~sopen[c],
               session' = [session EXCEPT ![t].pc = "spin"], UNCHANGED down
        PROVE  Link(h, s2, u, d2, v, FALSE)
    <3>1. ~h.open /\ d2 = d
      BY <1>b, <2>2
    <3>2. s2.pc = "spin" /\ s2.left = s.left
      BY <1>0, <2>2
    <3>3. u = <<>>
      BY <1>1, <2>0, <3>1 DEF Link, Hung
    <3> HIDE DEF h, s, s2, u, d, v, d2
    <3>4. Link(h, s2, u, d, v, FALSE)
      BY <1>1, <1>a, <3>1, <3>2, <3>3, SessionStopLinks
    <3> QED
      BY <3>1, <3>4
  <2>3. Link(h, s2, u, d2, v, FALSE)
    BY <1>6, <2>1, <2>2 DEF SessionSendBody
  <2> QED
    BY <2>0, <2>3
<1>7. CASE SessionEnd(t)
  <2>1. ~h.open /\ u = <<>> /\ u2 = u /\ d2 = d /\ v2 = v
    BY <1>7 DEF SessionEnd, HungUp, streams
  <2>2. s2.pc = "ended" /\ s2.left = s.left
    BY <1>0, <1>7 DEF SessionEnd
  <2>3. Link(h, s2, u, d, v, FALSE)
    <3> HIDE DEF h, s, s2, u, d, v
    <3> QED
      BY <1>1, <1>a, <2>1, <2>2, SessionStopLinks
  <2> QED
    BY <2>1, <2>3
<1> QED
  BY <1>2, <1>3, <1>4, <1>5, <1>6, <1>7 DEF SessionStep

\* Initially no connection is asked for and nothing is on the streams.
LEMMA LInit == Init => LInv
<1> SUFFICES ASSUME Init PROVE LInv
  OBVIOUS
<1>1. HInv
  BY HInit
<1>2. Shapes
  BY DEF Init, Shapes
<1>3. Ends
  BY HostAssumption DEF Init, Ends, Conn
<1>4. Prompt
  BY DEF Init, Prompt
<1>5. ASSUME NEW c \in Conn PROVE LinkHolds(c)
  <2>1. Sessions(c) = {}
    BY DEF Init, Sessions, Conn
  <2>2. /\ handler[c].pc = "out" /\ handler[c].left = 0 /\ handler[c].calls = 0 /\ ~handler[c].open
        /\ up[c] = <<>> /\ down[c] = <<>> /\ seen[c] = 0 /\ mpc # "returned"
    BY DEF Init
  <2>3. Serving(c).pc = "recvLen" /\ Serving(c).left = 0
    BY <2>1 DEF Serving
  <2> QED
    BY <2>2, <2>3, HostAssumption DEF LinkHolds, Link, Hung
<1> QED
  BY <1>1, <1>2, <1>3, <1>4, <1>5 DEF LInv

\* A thread begins: it serves the connection main accepted last, and is either its
\* first session or one too many.
LEMMA BeginJoins ==
  ASSUME LInv, NEW t \in Conn, Begin(t)
  PROVE  /\ Shapes' /\ Ends' /\ Prompt' /\ \A c \in Conn : LinkHolds(c)'
<1>0. /\ session = [x \in Conn |-> session[x]] /\ DOMAIN session[t] = {"sock", "pc", "left", "call"}
      /\ session[t].sock = -1 /\ mpc # "returned" /\ socket_client = accepted
      /\ accepted \in Nat
  BY DEF LInv, HInv, Records, MainHolds, Begin
<1>1. session[t].pc = "recvLen" /\ session[t].left = 0
  BY <1>0 DEF LInv, Ends
<1>2. UNCHANGED <<setting, handler, sopen, streams, asked, main, seen>>
  BY DEF Begin
<1>3. /\ \A x \in Conn \ {t} : session'[x] = session[x]
      /\ session'[t].sock = accepted /\ session'[t].pc = "recvLen" /\ session'[t].left = 0
  BY <1>0, <1>1 DEF Begin
<1>4. Shapes'
  BY <1>2 DEF LInv, Shapes, streams
<1>5. t <= accepted /\ t \in Nat \ {0}
  BY <1>0 DEF LInv, HInv, SockHolds, Conn
<1>6. Ends'
  BY <1>0, <1>2, <1>3, <1>5 DEF LInv, Ends, main
<1>7. Prompt'
  BY <1>0, <1>2, <1>3, <1>5 DEF LInv, Prompt, main
<1>8. ASSUME NEW c \in Conn PROVE LinkHolds(c)'
  <2>1. CASE c # accepted
    <3>1. \A x \in Conn : /\ session'[x].sock = c <=> session[x].sock = c
                          /\ session[x].sock = c => session'[x] = session[x]
      <4>1. c # -1
        BY DEF Conn
      <4> QED
        BY <1>0, <1>3, <2>1, <4>1
    <3>2. (Alone(c)' <=> Alone(c)) /\ Serving(c)' = Serving(c)
      BY <3>1, ServingKept
    <3>3. LinkHolds(c)
      BY DEF LInv
    <3> QED
      BY <1>2, <3>2, <3>3 DEF LinkHolds, streams, main
  <2>2. CASE c = accepted
    <3>1. t \in Sessions(c)' /\ \A x \in Sessions(c) : x # t /\ x \in Sessions(c)'
      <4>1. c # -1
        BY DEF Conn
      <4> QED
        BY <1>0, <1>3, <2>2, <4>1 DEF Sessions
    <3>2. SUFFICES ASSUME Alone(c)' PROVE Link(handler[c], Serving(c)', up[c], down[c], seen[c], mpc = "returned")
      BY <1>2 DEF LinkHolds, streams, main
    <3>3. Sessions(c) = {} /\ \A x \in Sessions(c)' : x = t
      BY <3>1, <3>2 DEF Alone
    <3>4. (CHOOSE x \in Sessions(c)' : TRUE) = t
      BY <3>1, <3>3
    <3>5. Serving(c)' = session'[t]
      BY <3>1, <3>4 DEF Serving
    <3>6. Serving(c).pc = "recvLen"
      BY <3>3 DEF Serving
    <3>7. (mpc = "returned") = FALSE
      BY <1>0
    <3>8. Link(handler[c], Serving(c), up[c], down[c], seen[c], FALSE)
      <4>1. Alone(c)
        BY <3>3 DEF Alone
      <4>2. LinkHolds(c)
        BY DEF LInv
      <4> QED
        BY <3>7, <4>1, <4>2 DEF LinkHolds
    <3>9. Link(handler[c], session'[t], up[c], down[c], seen[c], FALSE)
      BY <1>3, <3>6, <3>8, BeginLinks
    <3> QED
      BY <3>5, <3>7, <3>9
  <2> QED
    BY <2>1, <2>2
<1> QED
  BY <1>4, <1>6, <1>7, <1>8

\* accept and pthread_create reach no session that runs and no stream.
LEMMA MainJoins ==
  ASSUME LInv, Accept \/ Create
  PROVE  /\ Shapes' /\ Ends' /\ Prompt' /\ \A c \in Conn : LinkHolds(c)'
<1>0. /\ session = [x \in Conn |-> session[x]]
      /\ \A x \in Conn : DOMAIN session[x] = {"sock", "pc", "left", "call"}
      /\ accepted \in Nat /\ asked \in 0 .. Browsers /\ accepted <= asked
  BY DEF LInv, HInv, Records, MainHolds
<1>1. UNCHANGED <<setting, handler, sopen, streams, asked, seen>>
      /\ mpc # "returned" /\ mpc' # "returned"
  BY DEF Accept, Create
<1>2. \A x \in Conn : \/ session'[x] = session[x]
                      \/ /\ session[x].sock \in {0, -1} /\ session'[x].sock = -1 /\ x = accepted
                         /\ accepted' = accepted
                         /\ session'[x].pc = session[x].pc /\ session'[x].left = session[x].left
  <2>1. CASE Accept
    BY <2>1 DEF Accept
  <2>2. CASE Create
    <3>1. accepted \in Conn /\ session[accepted].sock = 0 /\ accepted' = accepted
      BY <1>0, <2>2, HostAssumption DEF Create, LInv, HInv, SockHolds, Created, MainHolds, Conn
    <3> QED
      BY <1>0, <2>2, <3>1 DEF Create
  <2> QED
    BY <2>1, <2>2
<1>3. Shapes'
  BY <1>1 DEF LInv, Shapes, streams
<1>4. Ends'
  BY <1>1, <1>2 DEF LInv, Ends
<1>5. Prompt'
  <2>1. CASE Accept
    BY <2>1 DEF LInv, Prompt, Accept, AllBegun
  <2>2. CASE Create
    BY <1>1, <1>2, <2>2 DEF LInv, Prompt, Create
  <2> QED
    BY <2>1, <2>2
<1>6. ASSUME NEW c \in Conn PROVE LinkHolds(c)'
  <2>1. \A x \in Conn : /\ session'[x].sock = c <=> session[x].sock = c
                        /\ session[x].sock = c => session'[x] = session[x]
    BY <1>2 DEF Conn
  <2>2. (Alone(c)' <=> Alone(c)) /\ Serving(c)' = Serving(c)
    BY <2>1, ServingKept
  <2>3. LinkHolds(c) /\ (mpc' = "returned") = (mpc = "returned")
    BY <1>1 DEF LInv
  <2> QED
    BY <1>1, <2>2, <2>3 DEF LinkHolds, streams
<1> QED
  BY <1>3, <1>4, <1>5, <1>6

\* When the engine ends, what it has sent is all that is left of the connections.
LEMMA EndsJoins ==
  ASSUME LInv, EngineEnds
  PROVE  /\ Shapes' /\ Ends' /\ Prompt' /\ \A c \in Conn : LinkHolds(c)'
<1>0. /\ session = [x \in Conn |-> session[x]]
      /\ \A x \in Conn : DOMAIN session[x] = {"sock", "pc", "left", "call"}
  BY DEF LInv, HInv, Records
<1>1. /\ UNCHANGED <<setting, handler, down, asked, accepted, seen>>
      /\ mpc' = "returned" /\ up' = [c \in Conn |-> <<>>] /\ sopen' = [c \in Conn |-> FALSE]
  BY DEF EngineEnds
<1>2. \A x \in Conn : session'[x].pc = "dead" /\ session'[x].sock = session[x].sock
                      /\ session'[x].left = session[x].left
  BY <1>0 DEF EngineEnds
<1>3. Shapes'
  BY <1>1 DEF LInv, Shapes
<1>4. Ends'
  BY <1>1, <1>2 DEF LInv, Ends
<1>5. Prompt'
  BY <1>1, <1>2 DEF LInv, Prompt
<1>6. ASSUME NEW c \in Conn PROVE LinkHolds(c)'
  <2>1. Sessions(c)' = Sessions(c)
    BY <1>2 DEF Sessions
  <2>2. Alone(c)' <=> Alone(c)
    BY <2>1 DEF Alone
  <2>3. Serving(c)'.left = Serving(c).left
    <3>1. CASE Sessions(c) = {}
      BY <2>1, <3>1 DEF Serving
    <3>2. CASE Sessions(c) # {}
      <4>1. (CHOOSE x \in Sessions(c) : TRUE) \in Conn
        BY <3>2 DEF Sessions
      <4> QED
        BY <1>2, <2>1, <3>2, <4>1 DEF Serving
    <3> QED
      BY <3>1, <3>2
  <2>4. LinkHolds(c) /\ (mpc = "returned") \in BOOLEAN
    BY DEF LInv
  <2>5. Alone(c) => Link(handler[c], Serving(c)', <<>>, down[c], seen[c], TRUE)
    BY <2>3, <2>4, GoneLinks DEF LinkHolds
  <2>6. (mpc' = "returned") = TRUE /\ up'[c] = <<>>
    BY <1>1
  <2> QED
    BY <1>1, <2>2, <2>5, <2>6 DEF LinkHolds
<1> QED
  BY <1>3, <1>4, <1>5, <1>6

\* The server dies: every descriptor of its is closed.
LEMMA DiesJoins ==
  ASSUME LInv, ServerDies
  PROVE  /\ Shapes' /\ Ends' /\ Prompt' /\ \A c \in Conn : LinkHolds(c)'
<1>0. /\ handler = [b \in Conn |-> handler[b]]
      /\ \A b \in Conn : DOMAIN handler[b] = {"pc", "left", "calls", "answer", "open"}
  BY DEF LInv, Shapes
<1>1. UNCHANGED <<setting, session, sopen, streams, asked, main, seen>>
  BY DEF ServerDies
<1>2. /\ handler' = [b \in Conn |-> handler'[b]]
      /\ \A b \in Conn : /\ DOMAIN handler'[b] = {"pc", "left", "calls", "answer", "open"}
                         /\ handler'[b].pc = "killed" /\ handler'[b].open = FALSE
                         /\ handler'[b].left = handler[b].left /\ handler'[b].calls = handler[b].calls
  BY <1>0 DEF ServerDies
<1>3. Shapes'
  BY <1>1, <1>2 DEF LInv, Shapes, streams
<1>4. Ends'
  BY <1>1, <1>2 DEF LInv, Ends, main
<1>5. Prompt'
  BY <1>1 DEF LInv, Prompt, main
<1>6. ASSUME NEW c \in Conn PROVE LinkHolds(c)'
  <2>1. (Alone(c)' <=> Alone(c)) /\ Serving(c)' = Serving(c)
    BY <1>1, ServingKept
  <2>2. LinkHolds(c) /\ (mpc = "returned") \in BOOLEAN
    BY DEF LInv
  <2>3. Alone(c) => Link(handler'[c], Serving(c), up[c], down[c], seen[c], mpc = "returned")
    BY <1>2, <2>2, CloseLinks DEF LinkHolds
  <2> QED
    BY <1>1, <2>1, <2>3 DEF LinkHolds, streams, main
<1> QED
  BY <1>3, <1>4, <1>5, <1>6

\* A browser starts, and its connection is new.
LEMMA ConnectJoins ==
  ASSUME LInv, Connect
  PROVE  /\ Shapes' /\ Ends' /\ Prompt' /\ \A c \in Conn : LinkHolds(c)'
<1> DEFINE b == asked + 1
<1>0. /\ handler = [x \in Conn |-> handler[x]] /\ sopen = [x \in Conn |-> sopen[x]]
      /\ \A x \in Conn : DOMAIN handler[x] = {"pc", "left", "calls", "answer", "open"}
      /\ accepted \in Nat /\ asked \in Nat /\ accepted <= asked
      /\ setting.browsers \in 0 .. Browsers
  BY HostAssumption DEF LInv, HInv, MainHolds, Shapes
<1>1. /\ UNCHANGED <<setting, session, up, down, main, seen>> /\ asked' = b /\ b \in Conn
      /\ mpc # "returned" /\ handler[b].pc = "out"
  BY <1>0, HostAssumption DEF Connect, streams, Conn
<1>2. /\ handler' = [handler EXCEPT ![b].pc = "idle", ![b].open = TRUE]
      /\ sopen' = [sopen EXCEPT ![b] = TRUE]
  BY DEF Connect
<1>3. /\ \A x \in Conn \ {b} : handler'[x] = handler[x] /\ sopen'[x] = sopen[x]
      /\ sopen'[b] = TRUE
      /\ handler'[b].pc = "idle" /\ handler'[b].open = TRUE
      /\ handler'[b].left = handler[b].left /\ handler'[b].calls = handler[b].calls
  BY <1>0, <1>1, <1>2
<1>4. ~handler[b].open
  BY <1>0, <1>1 DEF LInv, Ends
<1>5. Shapes'
  BY <1>0, <1>1, <1>2 DEF LInv, Shapes
<1>6. Ends'
  BY <1>0, <1>1, <1>3 DEF LInv, Ends, main, Conn
<1>7. Prompt'
  BY <1>1 DEF LInv, Prompt, main
<1>8. ASSUME NEW c \in Conn PROVE LinkHolds(c)'
  <2>1. (Alone(c)' <=> Alone(c)) /\ Serving(c)' = Serving(c)
    BY <1>1, ServingKept
  <2>2. LinkHolds(c)
    BY DEF LInv
  <2>3. CASE c # b
    BY <1>1, <1>3, <2>1, <2>2, <2>3 DEF LinkHolds, main
  <2>4. CASE c = b
    <3>1. Sessions(c) = {}
      BY <1>0, <2>4 DEF LInv, HInv, SockHolds, Sessions, Conn
    <3>2. Serving(c).pc = "recvLen" /\ Alone(c)
      BY <3>1 DEF Serving, Alone
    <3>3. (mpc = "returned") = FALSE /\ mpc' = mpc
      BY <1>1 DEF main
    <3>4. Link(handler[c], Serving(c), up[c], down[c], seen[c], FALSE)
      BY <2>2, <3>2, <3>3 DEF LinkHolds
    <3>5. Link(handler'[c], Serving(c), up[c], down[c], seen[c], FALSE)
      BY <1>1, <1>3, <1>4, <2>4, <3>2, <3>4, ConnectLinks
    <3> QED
      BY <1>1, <2>1, <3>3, <3>5 DEF LinkHolds
  <2> QED
    BY <2>3, <2>4
<1> QED
  BY <1>5, <1>6, <1>7, <1>8

\* The steps of a handler.
LEMMA HandlerJoins ==
  ASSUME LInv, NEW b \in Conn, HandlerStep(b)
  PROVE  /\ Shapes' /\ Ends' /\ Prompt' /\ \A c \in Conn : LinkHolds(c)'
<1>1. \A c \in Conn : LinkHolds(c)'
  BY HandlerShape, HandlerLinks, HandlerFrame
<1>2. DOMAIN handler' = Conn
  BY HandlerShape DEF Shapes
<1>3. Ends' /\ Prompt'
  BY <1>2, HandlerShape, HandlerEnds
<1> QED
  BY <1>1, <1>3, HandlerShape

\* The steps of a session.
LEMMA SessionJoins ==
  ASSUME LInv, NEW t \in Conn, SessionStep(t)
  PROVE  /\ Shapes' /\ Ends' /\ Prompt' /\ \A c \in Conn : LinkHolds(c)'
<1>1. \A c \in Conn : LinkHolds(c)'
  BY SessionShape, SessionLinks, SessionFrame
<1>2. /\ AtSession(t) /\ session[t].sock \in Conn /\ mpc # "returned"
      /\ sopen'[session[t].sock] = sopen[session[t].sock] \/ ~handler[session[t].sock].open
      /\ session[t].sock > 0
  BY SessionShape, Running
<1>3. UNCHANGED <<setting, handler, mpc, accepted, asked>>
  BY <1>2 DEF AtSession, main
<1>4. \A x \in Conn : /\ session'[x].sock = session[x].sock
                      /\ session[x].sock \in {0, -1} => session'[x] = session[x]
  BY <1>2 DEF AtSession
<1>5. \A c \in Conn : handler[c].open => sopen'[c] = sopen[c]
  BY <1>2 DEF AtSession
<1>6. Ends'
  BY <1>2, <1>3, <1>4, <1>5 DEF LInv, Ends
<1>7. Prompt'
  BY <1>3, <1>4 DEF LInv, Prompt
<1> QED
  BY <1>1, <1>6, <1>7, SessionShape

\* Every step keeps the two ends of every connection together.
LEMMA LNext == LInv /\ [Next]_vars => LInv'
<1> SUFFICES ASSUME LInv, [Next]_vars PROVE Shapes' /\ Ends' /\ Prompt' /\ \A c \in Conn : LinkHolds(c)'
  BY HNext DEF LInv
<1>1. CASE UNCHANGED vars
  <2>1. UNCHANGED <<setting, handler, session, sopen, up, down, asked, accepted, mpc, seen>>
    BY <1>1 DEF vars, streams, main
  <2>2. Shapes' /\ Ends' /\ Prompt'
    BY <2>1 DEF LInv, Shapes, Ends, Prompt
  <2>3. ASSUME NEW c \in Conn PROVE LinkHolds(c)'
    <3>1. (Alone(c)' <=> Alone(c)) /\ Serving(c)' = Serving(c)
      BY <2>1, ServingKept
    <3> QED
      BY <2>1, <3>1 DEF LinkHolds, LInv
  <2> QED
    BY <2>2, <2>3
<1>2. CASE Main \/ EngineDies
  <2>1. Accept \/ Create \/ EngineEnds
    BY <1>2 DEF Main, AcceptFails, EngineDies
  <2> QED
    BY <2>1, MainJoins, EndsJoins
<1>3. CASE Connect
  BY <1>3, ConnectJoins
<1>4. CASE ServerDies
  BY <1>4, DiesJoins
<1>5. ASSUME NEW b \in Conn, HandlerStep(b) PROVE Shapes' /\ Ends' /\ Prompt' /\ \A c \in Conn : LinkHolds(c)'
  BY <1>5, HandlerJoins
<1>6. ASSUME NEW t \in Conn, SessionNext(t) PROVE Shapes' /\ Ends' /\ Prompt' /\ \A c \in Conn : LinkHolds(c)'
  <2>1. Begin(t) \/ SessionStep(t)
    BY <1>6 DEF SessionNext, SessionStep
  <2> QED
    BY <2>1, BeginJoins, SessionJoins
<1> QED
  BY <1>1, <1>2, <1>3, <1>4, <1>5, <1>6 DEF Next, HandlerStep

-----------------------------------------------------------------------------
(* Theorems about the streams *)

\* The two ends of every connection that one thread serves agree on where they are,
\* whatever the cuts of the bodies and whichever process is killed.
THEOREM LinkInvariant == Spec => []LInv
BY LInit, LNext, PTL DEF Spec

\* No end takes a part for a length or leaves bytes unread, and the ends never wait
\* for each other.
THEOREM InStepHolds == Spec => []InStep
<1>1. LInv => InStep
  <2> SUFFICES ASSUME LInv, NEW c \in Conn, Cardinality(Sessions(c)) = 1
               PROVE  /\ handler[c].pc # "lost" /\ OneOf(c).pc # "lost"
                      /\ handler[c].pc = "idle" /\ handler[c].open => down[c] = <<>>
                      /\ handler[c].pc = "recvLen" /\ handler[c].open /\ down[c] = <<>>
                           /\ OneOf(c).pc = "recvLen" => up[c] # <<>>
    BY DEF InStep
  <2>1. Alone(c)
    BY TwoSessions DEF Alone
  <2>2. PICK t \in Conn : t \in Sessions(c)
    <3>1. Sessions(c) # {}
      BY FS_EmptySet
    <3> QED
      BY <3>1 DEF Sessions
  <2>3. Serving(c) = session[t] /\ OneOf(c) = session[t]
    <3>1. (CHOOSE x \in Sessions(c) : TRUE) = t
      <4>1. (CHOOSE x \in Sessions(c) : TRUE) \in Sessions(c)
        BY <2>2
      <4> QED
        BY <2>1, <2>2, <4>1 DEF Alone
    <3> QED
      BY <2>2, <3>1 DEF Serving, OneOf
  <2>4. Link(handler[c], session[t], up[c], down[c], seen[c], mpc = "returned")
    BY <2>1, <2>3 DEF LInv, LinkHolds
  <2>5. CASE mpc = "returned"
    <3>1. session[t].pc = "dead"
      BY <2>5 DEF LInv, Ends
    <3>2. Gone(handler[c], up[c], down[c], seen[c])
      BY <2>4, <2>5 DEF Link
    <3> QED
      BY <2>3, <3>1, <3>2 DEF Gone
  <2>6. CASE mpc # "returned" /\ ~handler[c].open
    <3>1. Hung(handler[c], session[t], up[c], down[c], seen[c])
      BY <2>4, <2>6 DEF Link
    <3> QED
      BY <2>3, <2>6, <3>1 DEF Hung
  <2>7. CASE mpc # "returned" /\ handler[c].open
    <3>1. Talking(handler[c], session[t], up[c], down[c], seen[c]) /\ handler[c].left \in Nat
      BY <2>4, <2>7 DEF Link
    <3>2. session[t].pc # "lost"
      BY <3>1 DEF Talking, Waiting, Asking, Reading
    <3>3. ASSUME NEW n, NEW size \in 1 .. MaxBody, NEW k \in 0 .. size PROVE Message(n, size, k) # <<>>
      BY MessageHead, HostAssumption
    <3>4. handler[c].pc = "recvLen" /\ down[c] = <<>> /\ session[t].pc = "recvLen" => up[c] # <<>>
      <4>1. ASSUME handler[c].pc = "recvLen", down[c] = <<>>, session[t].pc = "recvLen" PROVE up[c] # <<>>
        <5>1. Waiting(handler[c].calls, session[t], up[c], down[c], seen[c])
          BY <3>1, <4>1 DEF Talking
        <5>2. ASSUME NEW size \in 1 .. MaxBody PROVE Message(handler[c].calls, size, size) # <<>>
          <6>1. size \in Nat
            BY HostAssumption
          <6> QED
            BY <6>1, MessageHead
        <5>3. Asking(handler[c].calls, 0, session[t], up[c])
          BY <4>1, <5>1, <5>2 DEF Waiting
        <5>4. PICK size \in 1 .. MaxBody : \E k \in 0 .. size : up[c] = Message(handler[c].calls, size, k)
          BY <4>1, <5>3 DEF Asking
        <5> QED
          BY <3>3, <5>4
      <4> QED
        BY <4>1
    <3> QED
      BY <2>3, <3>1, <3>2, <3>4 DEF Talking
  <2> QED
    BY <2>5, <2>6, <2>7
<1> QED
  BY <1>1, LinkInvariant, PTL

\* A step of the call of browser b, or none.
Calls(b) == [Call(b)!Next]_(Call(b)!vars)

HandlerBusy(b) == handler[b].pc \notin {"out", "idle", "left", "killed"}

\* What the abstract call of browser b is made of.
SameCall(b) == /\ handler'[b].calls = handler[b].calls /\ handler'[b].answer = handler[b].answer
               /\ seen'[b] = seen[b] /\ (HandlerBusy(b)' <=> HandlerBusy(b))

\* A step that reaches none of it is no step of the call.
LEMMA SameIsStutter == ASSUME NEW b, SameCall(b) PROVE Calls(b)
<1> USE DEF SameCall, HandlerBusy
<1>1. (handler'[b].pc \notin {"out", "idle", "left", "killed"})
        = (handler[b].pc \notin {"out", "idle", "left", "killed"})
  OBVIOUS
<1>2. UNCHANGED Call(b)!vars
  BY <1>1 DEF Call!vars
<1> QED
  BY <1>2 DEF Calls

\* A call that was busy and is not: it has failed.
LEMMA FailIsCall ==
  ASSUME NEW b, HandlerBusy(b), ~HandlerBusy(b)', seen'[b] = seen[b],
         handler'[b].calls = handler[b].calls, handler'[b].answer = handler[b].answer
  PROVE  Calls(b)
<1>1. Call(b)!Fail
  BY DEF Call!Fail, HandlerBusy
<1> QED
  BY <1>1 DEF Calls, Call!Next

\* With prompt threads no connection has two.
LEMMA PromptAlone == ASSUME LInv, setting.prompt, NEW c \in Conn PROVE Alone(c)
<1>1. c # 0 /\ c # -1
  BY DEF Conn
<1> QED
  BY <1>1 DEF LInv, Prompt, Alone, Sessions

\* A handler's own steps are those of its call: what it reads last is its own answer,
\* and the session has seen the call by then.
LEMMA HandlerCalls ==
  ASSUME LInv, NEW b \in Conn, HandlerStep(b), Alone(b)
  PROVE  Calls(b)
<1> DEFINE h == handler[b]
           h2 == handler'[b]
<1>0. /\ handler = [c \in Conn |-> handler[c]] /\ DOMAIN h = {"pc", "left", "calls", "answer", "open"}
  BY DEF LInv, Shapes
<1>1. seen'[b] = seen[b]
  BY HandlerShape DEF AtHandler
<1>2. CASE Request(b)
  <2>1. /\ h.pc = "idle" /\ h2.pc = "sendLen" /\ h2.calls = h.calls + 1 /\ h2.answer = 0
    BY <1>0, <1>2 DEF Request
  <2>2. Call(b)!Call
    BY <1>1, <2>1 DEF Call!Call
  <2> QED
    BY <2>2 DEF Calls, Call!Next
<1>3. CASE HandleClose(b)
  <2>1. h.pc = "idle" /\ h2.pc = "left" /\ h2.calls = h.calls /\ h2.answer = h.answer
    BY <1>0, <1>3 DEF HandleClose
  <2> QED
    BY <1>1, <2>1, SameIsStutter DEF SameCall, HandlerBusy
<1>4. CASE SendLen(b) \/ SendBody(b) \/ RecvLen(b)
  <2>1. /\ HandlerBusy(b) /\ HandlerBusy(b)' /\ h2.calls = h.calls /\ h2.answer = h.answer
    <3>1. CASE SendLen(b)
      <4>1. \/ \E size : handler' = [handler EXCEPT ![b].pc = "sendBody", ![b].left = size]
            \/ handler' = [handler EXCEPT ![b].pc = "recvLen", ![b].open = FALSE]
        BY <3>1 DEF SendLen
      <4>2. /\ h2.pc \in {"sendBody", "recvLen"} /\ h2.calls = h.calls /\ h2.answer = h.answer
        <5>1. CASE \E size : handler' = [handler EXCEPT ![b].pc = "sendBody", ![b].left = size]
          <6>1. PICK size : handler' = [handler EXCEPT ![b].pc = "sendBody", ![b].left = size]
            BY <5>1
          <6>2. h2.pc = "sendBody" /\ h2.calls = h.calls /\ h2.answer = h.answer
            BY <1>0, <6>1
          <6> QED
            BY <6>2
        <5>2. CASE handler' = [handler EXCEPT ![b].pc = "recvLen", ![b].open = FALSE]
          <6>1. h2.pc = "recvLen" /\ h2.calls = h.calls /\ h2.answer = h.answer
            BY <1>0, <5>2
          <6> QED
            BY <6>1
        <5> QED
          BY <4>1, <5>1, <5>2
      <4>3. h.pc = "sendLen"
        BY <3>1 DEF SendLen
      <4> QED
        BY <4>2, <4>3 DEF HandlerBusy
    <3>2. CASE SendBody(b)
      <4>1. ASSUME NEW k, handler' = [handler EXCEPT ![b].left = @ - k,
                                        ![b].pc = IF h.left = k THEN "recvLen" ELSE "sendBody"]
            PROVE  h2.pc \in {"recvLen", "sendBody"} /\ h2.calls = h.calls /\ h2.answer = h.answer
        <5>1. h2.pc = (IF h.left = k THEN "recvLen" ELSE "sendBody")
          BY <1>0, <4>1
        <5> QED
          BY <1>0, <4>1, <5>1
      <4>2. ASSUME handler' = [handler EXCEPT ![b].pc = "spin"]
            PROVE  h2.pc = "spin" /\ h2.calls = h.calls /\ h2.answer = h.answer
        BY <1>0, <4>2
      <4>3. /\ h2.pc \in {"recvLen", "sendBody", "spin"}
            /\ h2.calls = h.calls /\ h2.answer = h.answer /\ h.pc = "sendBody"
        BY <3>2, <4>1, <4>2 DEF SendBody
      <4> QED
        BY <4>3 DEF HandlerBusy
    <3>3. CASE RecvLen(b)
      BY <1>0, <3>3 DEF RecvLen, HandlerBusy
    <3> QED
      BY <1>4, <3>1, <3>2, <3>3
  <2> QED
    BY <1>1, <2>1, SameIsStutter DEF SameCall
<1>5. CASE RecvLenFails(b)
  <2>1. h.pc = "recvLen" /\ h2.pc = "idle" /\ h2.calls = h.calls /\ h2.answer = h.answer
    BY <1>0, <1>5 DEF RecvLenFails
  <2> QED
    BY <1>1, <2>1, FailIsCall DEF HandlerBusy
<1>6. CASE RecvBody(b)
  <2>0. h.pc = "recvBody"
    BY <1>6 DEF RecvBody
  <2>1. ASSUME NEW k \in 1 .. h.left, Parts(down[b], k), down' = [down EXCEPT ![b] = Rest(@, k)],
               handler' = IF h.left = k
                          THEN [handler EXCEPT ![b].pc = "idle", ![b].left = 0,
                                               ![b].answer = Head(down[b])[2]]
                          ELSE [handler EXCEPT ![b].left = @ - k]
        PROVE  Calls(b)
    <3>1. CASE h.left = k
      <4>1. /\ h2.pc = "idle" /\ h2.calls = h.calls /\ h2.answer = Head(down[b])[2]
        BY <1>0, <2>1, <3>1
      <4>2. seen[b] = h.calls /\ Head(down[b])[2] = h.calls
        <5> DEFINE s == Serving(b)
                   d == down[b]
                   r == [h EXCEPT !.pc = (IF h.left = k THEN "idle" ELSE "recvBody"),
                                  !.left = (IF h.left = k THEN 0 ELSE h.left - k)]
                   gone == mpc = "returned"
                   u == up[b]
                   v == seen[b]
        <5>1. Link(h, s, u, d, v, gone)
          BY DEF LInv, LinkHolds
        <5>2. gone \in BOOLEAN
          OBVIOUS
        <5>3. r.pc = (IF h.left = k THEN "idle" ELSE "recvBody")
          BY <1>0
        <5>4. r.left = (IF h.left = k THEN 0 ELSE h.left - k)
          BY <1>0
        <5>5. r.calls = h.calls /\ r.open = h.open
          BY <1>0
        <5>6. Parts(d, k)
          BY <2>1
        <5>7. k \in 1 .. h.left
          OBVIOUS
        <5> HIDE DEF h, s, u, d, v, gone, r
        <5>8. v = h.calls /\ Head(d)[2] = h.calls
          BY <2>0, <5>1, <5>2, <5>3, <5>4, <5>5, <5>6, <5>7, RecvBodyLinks
        <5> QED
          BY <5>8 DEF d, v
      <4>3. Call(b)!Answer
        BY <1>1, <2>0, <4>1, <4>2 DEF Call!Answer
      <4> QED
        BY <4>3 DEF Calls, Call!Next
    <3>2. CASE h.left # k
      <4>1. h2.pc = h.pc /\ h2.calls = h.calls /\ h2.answer = h.answer
        BY <1>0, <2>1, <3>2
      <4> QED
        BY <1>1, <4>1, SameIsStutter DEF SameCall, HandlerBusy
    <3> QED
      BY <3>1, <3>2
  <2>2. ASSUME NEW p \in {"spin", "lost"}, handler' = [handler EXCEPT ![b].pc = p]
        PROVE  Calls(b)
    <3>1. h2.pc \in {"spin", "lost"} /\ h2.calls = h.calls /\ h2.answer = h.answer
      BY <1>0, <2>2
    <3> QED
      BY <1>1, <2>0, <3>1, SameIsStutter DEF SameCall, HandlerBusy
  <2> QED
    BY <1>6, <2>1, <2>2 DEF RecvBody
<1> QED
  BY <1>2, <1>3, <1>4, <1>5, <1>6 DEF HandlerStep, HandlerNext

\* A session's step is none of a call, or the session sees the call for the first time.
LEMMA SessionCalls ==
  ASSUME LInv, NEW t \in Conn, SessionStep(t), NEW b \in Conn, Alone(b)
  PROVE  Calls(b)
<1>1. /\ handler' = handler
      /\ b # session[t].sock => seen'[b] = seen[b]
  BY SessionShape DEF AtSession
<1>2. CASE seen'[b] = seen[b]
  BY <1>1, <1>2, SameIsStutter DEF SameCall, HandlerBusy
<1>3. CASE seen'[b] # seen[b]
  <2>1. /\ seen'[b] = handler[b].calls /\ seen[b] < seen'[b] /\ seen'[b] \in Nat /\ seen[b] \in Nat
    BY <1>1, <1>3, SessionLinks
  <2>2. Call(b)!See
    BY <1>1, <2>1 DEF Call!See
  <2> QED
    BY <2>2 DEF Calls, Call!Next
<1> QED
  BY <1>2, <1>3

\* Every step is a step of every browser's call or none.
LEMMA StepCalls ==
  ASSUME LInv, setting.prompt, [Next]_vars, NEW b \in Conn
  PROVE  Calls(b)
<1>0. Alone(b)
  BY PromptAlone
<1>1. CASE UNCHANGED <<handler, seen>>
  BY <1>1, SameIsStutter DEF SameCall, HandlerBusy
<1>2. CASE UNCHANGED vars \/ Main \/ EngineDies
  <2>1. UNCHANGED <<handler, seen>>
    BY <1>2 DEF vars, Main, Accept, AcceptFails, Create, EngineDies, EngineEnds
  <2> QED
    BY <1>1, <2>1
<1>3. CASE Connect
  <2>1. /\ handler = [x \in Conn |-> handler[x]]
        /\ \A x \in Conn : DOMAIN handler[x] = {"pc", "left", "calls", "answer", "open"}
    BY DEF LInv, Shapes
  <2>2. /\ handler[asked + 1].pc = "out" /\ seen' = seen
        /\ handler' = [handler EXCEPT ![asked + 1].pc = "idle", ![asked + 1].open = TRUE]
    BY <1>3 DEF Connect
  <2>3. SameCall(b)
    <3>1. CASE b = asked + 1
      <4>1. handler'[b].pc = "idle" /\ handler'[b].calls = handler[b].calls
            /\ handler'[b].answer = handler[b].answer
        BY <2>1, <2>2, <3>1
      <4> QED
        BY <2>2, <3>1, <4>1 DEF SameCall, HandlerBusy
    <3>2. CASE b # asked + 1
      BY <2>1, <2>2, <3>2 DEF SameCall, HandlerBusy
    <3> QED
      BY <3>1, <3>2
  <2> QED
    BY <2>3, SameIsStutter
<1>4. CASE ServerDies
  <2>1. DOMAIN handler[b] = {"pc", "left", "calls", "answer", "open"}
    BY DEF LInv, Shapes
  <2>2. handler'[b].pc = "killed" /\ handler'[b].calls = handler[b].calls
        /\ handler'[b].answer = handler[b].answer /\ seen' = seen
    BY <1>4, <2>1 DEF ServerDies
  <2>3. CASE HandlerBusy(b)
    BY <2>2, <2>3, FailIsCall DEF HandlerBusy
  <2>4. CASE ~HandlerBusy(b)
    BY <2>2, <2>4, SameIsStutter DEF SameCall, HandlerBusy
  <2> QED
    BY <2>3, <2>4
<1>5. ASSUME NEW x \in Conn, HandlerStep(x) PROVE Calls(b)
  <2>1. CASE x = b
    BY <1>0, <1>5, <2>1, HandlerCalls
  <2>2. CASE x # b
    <3>1. handler'[b] = handler[b] /\ seen' = seen
      BY <1>5, <2>2, HandlerShape DEF AtHandler
    <3> QED
      BY <3>1, SameIsStutter DEF SameCall, HandlerBusy
  <2> QED
    BY <2>1, <2>2
<1>6. ASSUME NEW x \in Conn, SessionNext(x) PROVE Calls(b)
  <2>1. CASE Begin(x)
    BY <1>1, <2>1 DEF Begin
  <2>2. CASE SessionStep(x)
    BY <1>0, <2>2, SessionCalls
  <2> QED
    BY <1>6, <2>1, <2>2 DEF SessionNext, SessionStep
<1> QED
  BY <1>2, <1>3, <1>4, <1>5, <1>6 DEF Next, HandlerStep

\* With prompt threads the connection of every browser is the remote call it promises:
\* a request gets its own answer or none, and is seen at most once.
THEOREM OwnAnswerHolds == Spec => OwnAnswer
<1>1. Init => \A b \in Conn : Call(b)!Init
  BY DEF Init, Call!Init
<1>2. LInv /\ [Next]_vars =>
        [setting.prompt => \A b \in Conn : [Call(b)!Next]_(Call(b)!vars)]_vars
  BY StepCalls DEF Calls
<1> QED
  BY <1>1, <1>2, LinkInvariant, PTL DEF Spec, OwnAnswer
=============================================================================
