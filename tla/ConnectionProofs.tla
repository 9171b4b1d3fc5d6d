--------------------------- MODULE ConnectionProofs ---------------------------
(***************************************************************************)
(* The answer to a handshake fits the memory that was measured for it, and *)
(* what is received fits its buffers, for fields, frames and buffers of    *)
(* any size.  A connection of a client that sends whole frames is not      *)
(* ended before its time, and delivers what was sent.  No client has a     *)
(* message handled that it has not sent in full.                           *)
(***************************************************************************)
EXTENDS Connection, SequenceTheorems, FiniteSetTheorems, WellFoundedInduction, TLAPS

-----------------------------------------------------------------------------
(* The answer: sizes that are added up piece by piece *)

\* f[k] is the sum of the first k numbers of s, and n of them all.
Sums(s, f, n) == /\ f \in [0 .. Len(s) -> 0 .. n] /\ f[0] = 0 /\ f[Len(s)] = n
                 /\ \A k \in 1 .. Len(s) : f[k] = f[k - 1] + s[k]
Adds(s, n) == s \in Seq(Nat) /\ n \in Nat /\ \E f : Sums(s, f, n)

\* Nothing adds up to 0.
LEMMA AddsNone == Adds(<<>>, 0)
<1>1. Sums(<<>>, [k \in 0 .. 0 |-> 0], 0)
  BY DEF Sums
<1> QED
  BY <1>1 DEF Adds

\* One number adds up to itself.
LEMMA AddsOne ==
  ASSUME NEW a \in Nat
  PROVE  Adds(<<a>>, a)
<1>1. Sums(<<a>>, [k \in 0 .. 1 |-> IF k = 0 THEN 0 ELSE a], a)
  BY DEF Sums
<1> QED
  BY <1>1 DEF Adds

\* The sums of two sequences behind one another.
LEMMA AddsBoth ==
  ASSUME NEW s, NEW t, NEW a, NEW b, Adds(s, a), Adds(t, b)
  PROVE  Adds(s \o t, a + b)
<1>1. PICK f : Sums(s, f, a)
  BY DEF Adds
<1>2. PICK g : Sums(t, g, b)
  BY DEF Adds
<1>3. s \in Seq(Nat) /\ t \in Seq(Nat) /\ a \in Nat /\ b \in Nat /\ Len(s) \in Nat /\ Len(t) \in Nat
  BY LenProperties DEF Adds
<1>4. /\ s \o t \in Seq(Nat) /\ Len(s \o t) = Len(s) + Len(t)
      /\ \A k \in 1 .. Len(s) + Len(t) : (s \o t)[k] = IF k <= Len(s) THEN s[k] ELSE t[k - Len(s)]
  BY <1>3, ConcatProperties
<1> DEFINE both == [k \in 0 .. Len(s) + Len(t) |-> IF k <= Len(s) THEN f[k] ELSE a + g[k - Len(s)]]
<1>5. \A k \in 0 .. Len(s) : f[k] \in 0 .. a
  BY <1>1 DEF Sums
<1>6. \A k \in 0 .. Len(t) : g[k] \in 0 .. b
  BY <1>2 DEF Sums
<1>7. both \in [0 .. Len(s) + Len(t) -> 0 .. (a + b)]
  <2> SUFFICES ASSUME NEW k \in 0 .. Len(s) + Len(t) PROVE both[k] \in 0 .. (a + b)
    OBVIOUS
  <2>1. CASE k <= Len(s)
    BY <1>3, <1>5, <2>1
  <2>2. CASE ~(k <= Len(s))
    <3>1. k - Len(s) \in 0 .. Len(t)
      BY <1>3, <2>2
    <3>2. g[k - Len(s)] \in 0 .. b
      BY <1>6, <3>1
    <3>3. both[k] = a + g[k - Len(s)]
      BY <2>2
    <3>4. a \in Nat /\ b \in Nat
      BY <1>3
    <3> HIDE DEF both
    <3> QED
      BY <3>2, <3>3, <3>4
  <2> QED
    BY <2>1, <2>2
<1>8. both[0] = 0
  BY <1>1, <1>3 DEF Sums
<1>9. both[Len(s) + Len(t)] = a + b
  <2>1. CASE Len(t) = 0
    BY <1>1, <1>2, <1>3, <2>1 DEF Sums
  <2>2. CASE Len(t) # 0
    BY <1>2, <1>3, <2>2 DEF Sums
  <2> QED
    BY <2>1, <2>2
<1>10. ASSUME NEW k \in 1 .. Len(s) + Len(t) PROVE both[k] = both[k - 1] + (s \o t)[k]
  <2>1. CASE k <= Len(s)
    <3>1. f[k] = f[k - 1] + s[k]
      BY <1>1, <1>3, <2>1 DEF Sums
    <3> QED
      BY <1>3, <1>4, <2>1, <3>1
  <2>2. CASE k = Len(s) + 1
    <3>1. g[1] = g[0] + t[1] /\ g[0] = 0 /\ f[Len(s)] = a
      BY <1>1, <1>2, <1>3, <2>2 DEF Sums
    <3>2. both[k] = a + g[1] /\ both[k - 1] = a /\ (s \o t)[k] = t[1]
      BY <1>3, <1>4, <2>2, <3>1
    <3>3. g[1] \in Int /\ t[1] \in Int
      BY <1>3, <1>6, <2>2, ElementOfSeq
    <3>4. g[1] = t[1]
      BY <3>1, <3>3
    <3> HIDE DEF both
    <3> QED
      BY <3>2, <3>4
  <2>3. CASE k > Len(s) + 1
    <3>1. k - Len(s) \in 1 .. Len(t) /\ (k - Len(s)) - 1 = (k - 1) - Len(s)
      BY <1>3, <2>3
    <3>2. g[k - Len(s)] = g[(k - 1) - Len(s)] + t[k - Len(s)]
      BY <1>2, <3>1 DEF Sums
    <3>3. both[k] = a + g[k - Len(s)] /\ both[k - 1] = a + g[(k - 1) - Len(s)] /\ (s \o t)[k] = t[k - Len(s)]
      BY <1>3, <1>4, <2>3
    <3>4. g[k - Len(s)] \in Int /\ g[(k - 1) - Len(s)] \in Int /\ t[k - Len(s)] \in Int
      BY <1>3, <1>6, <3>1, ElementOfSeq
    <3>5. a \in Int
      BY <1>3
    <3> HIDE DEF both
    <3> QED
      BY <3>2, <3>3, <3>4, <3>5
  <2> QED
    BY <1>3, <2>1, <2>2, <2>3
<1> HIDE DEF both
<1>11. Sums(s \o t, both, a + b)
  BY <1>4, <1>7, <1>8, <1>9, <1>10 DEF Sums
<1> QED
  BY <1>3, <1>4, <1>11 DEF Adds

\* Two numbers add up to their sum,
LEMMA AddsTwo ==
  ASSUME NEW a \in Nat, NEW b \in Nat
  PROVE  Adds(<<a, b>>, a + b)
<1>1. Sums(<<a, b>>, [k \in 0 .. 2 |-> IF k = 0 THEN 0 ELSE IF k = 1 THEN a ELSE a + b], a + b)
  BY DEF Sums
<1> QED
  BY <1>1 DEF Adds

\* and so do three
LEMMA AddsThree ==
  ASSUME NEW a \in Nat, NEW b \in Nat, NEW c \in Nat
  PROVE  Adds(<<a, b, c>>, a + b + c)
<1>1. <<a, b, c>> = <<a, b>> \o <<c>>
  OBVIOUS
<1> QED
  BY <1>1, AddsOne, AddsTwo, AddsBoth

\* and five.
LEMMA AddsFive ==
  ASSUME NEW a \in Nat, NEW b \in Nat, NEW c \in Nat, NEW d \in Nat, NEW e \in Nat
  PROVE  Adds(<<a, b, c, d, e>>, a + b + c + d + e)
<1>1. <<a, b, c, d, e>> = <<a, b, c>> \o <<d, e>>
  OBVIOUS
<1>2. Adds(<<a, b, c>>, a + b + c) /\ Adds(<<d, e>>, d + e)
  BY AddsTwo, AddsThree
<1>3. Adds(<<a, b, c>> \o <<d, e>>, (a + b + c) + (d + e))
  BY <1>2, AddsBoth
<1>4. (a + b + c) + (d + e) = a + b + c + d + e
  OBVIOUS
<1> QED
  BY <1>1, <1>3, <1>4

\* A part that a request may lack.
LEMMA AddsPart ==
  ASSUME NEW a \in Nat, NEW b \in Nat \cup {-1}
  PROVE  Adds(IF b < 0 THEN <<>> ELSE <<a, b, 2>>, IF b < 0 THEN 0 ELSE a + b + 2)
<1>1. CASE b < 0
  BY <1>1, AddsNone
<1>2. CASE ~(b < 0)
  <2>1. b \in Nat
    BY <1>2
  <2> QED
    BY <1>2, <2>1, AddsThree
<1> QED
  BY <1>1, <1>2

\* The fields of a request are sizes.
LEMMA RequestSizes ==
  ASSUME h \in Request
  PROVE  /\ h.upgrade \in Nat /\ h.accept \in Nat /\ h.host \in Nat /\ h.resource \in Nat
         /\ h.origin \in Nat \cup {-1} /\ h.protocol \in Nat \cup {-1}
<1>1. Sizes \subseteq Nat
  BY RequestAssumption
<1>2. CASE kind.type = "RFC6455"
  <2>1. h \in [upgrade : Sizes, accept : Sizes, host : {0}, resource : {0}, origin : {-1}, protocol : {-1, 4}]
    BY <1>2 DEF Request
  <2>2. /\ h.upgrade \in Sizes /\ h.accept \in Sizes /\ h.host = 0 /\ h.resource = 0
        /\ h.origin = -1 /\ h.protocol \in {-1, 4}
    BY <2>1
  <2>3. h.upgrade \in Nat /\ h.accept \in Nat
    BY <1>1, <2>2
  <2>4. h.host \in Nat /\ h.resource \in Nat
    BY <1>1, <2>2
  <2>5. h.origin \in Nat \cup {-1}
    BY <1>1, <2>2
  <2>6. h.protocol \in Nat \cup {-1}
    BY <1>1, <2>2
  <2> QED
    BY <2>3, <2>4, <2>5, <2>6
<1>3. CASE kind.type # "RFC6455"
  <2>1. h \in [upgrade : Sizes, accept : Sizes, host : Sizes, resource : Sizes,
               origin : Sizes \cup {-1}, protocol : {-1, 4}]
    BY <1>3 DEF Request
  <2>2. /\ h.upgrade \in Sizes /\ h.accept \in Sizes /\ h.host \in Sizes /\ h.resource \in Sizes
        /\ h.origin \in Sizes \cup {-1} /\ h.protocol \in {-1, 4}
    BY <2>1
  <2>3. h.upgrade \in Nat /\ h.accept \in Nat
    BY <1>1, <2>2
  <2>4. h.host \in Nat /\ h.resource \in Nat
    BY <1>1, <2>2
  <2>5. h.origin \in Nat \cup {-1}
    BY <1>1, <2>2
  <2>6. h.protocol \in Nat \cup {-1}
    BY <1>1, <2>2
  <2> QED
    BY <2>3, <2>4, <2>5, <2>6
<1> QED
  BY <1>2, <1>3

\* The pieces that are copied add up to the size computed before, for every type
\* of connection and whichever fields the request has.
LEMMA PiecesFit ==
  ASSUME kind.type \in Type, h \in Request
  PROVE  Adds(Pieces, length)
<1> DEFINE t == kind.type
<1>1. /\ h.upgrade \in Nat /\ h.accept \in Nat /\ h.host \in Nat /\ h.resource \in Nat
      /\ h.origin \in Nat \cup {-1} /\ h.protocol \in Nat \cup {-1}
  BY RequestSizes
<1>2. HEADER[t] \in Nat /\ PROTOCOL[t] \in Nat
  BY DEF HEADER, PROTOCOL, Type
<1>3. Adds(Opening, HEADER[t] + 9 + h.upgrade + 2 + 21)
  BY <1>1, <1>2, AddsFive DEF Opening, UPGRADE, CONNECTION
<1>4. Adds(Protocol, ProtocolSize)
  BY <1>1, <1>2, AddsPart DEF Protocol, ProtocolSize
<1>5. ProtocolSize \in Nat
  BY <1>4 DEF Adds
<1>6. CASE t = "RFC6455"
  <2>1. Adds(<<22, h.accept, 4>>, 22 + h.accept + 4)
    BY <1>1, AddsThree
  <2>2. Adds(Opening \o Protocol \o <<22, h.accept, 4>>,
             ((HEADER[t] + 9 + h.upgrade + 2 + 21) + ProtocolSize) + (22 + h.accept + 4))
    BY <1>3, <1>4, <2>1, AddsBoth
  <2>3. length = ((HEADER[t] + 9 + h.upgrade + 2 + 21) + ProtocolSize) + (22 + h.accept + 4)
    BY <1>1, <1>2, <1>5, <1>6 DEF length, UPGRADE, CONNECTION, KEY
  <2>4. Pieces = Opening \o Protocol \o <<22, h.accept, 4>>
    BY <1>6 DEF Pieces, KEY
  <2> QED
    BY <2>2, <2>3, <2>4
<1>7. CASE t \in {"HYBI00", "HIXIE75"}
  <2>1. ORIGIN[t] \in Nat /\ LOCATION[t] \in Nat
    BY <1>7 DEF ORIGIN, LOCATION
  <2>2. Adds(Origin, OriginSize)
    BY <1>1, <2>1, AddsPart DEF Origin, OriginSize
  <2>3. Adds(Location, LOCATION[t] + 5 + h.host + h.resource + 2)
    BY <1>1, <2>1, AddsFive DEF Location
  <2>4. OriginSize \in Nat
    BY <2>2 DEF Adds
  <2> DEFINE First4 == Opening \o Origin \o Location \o Protocol
             sum4   == (((HEADER[t] + 9 + h.upgrade + 2 + 21) + OriginSize)
                        + (LOCATION[t] + 5 + h.host + h.resource + 2)) + ProtocolSize
  <2>5. Adds(First4, sum4)
    BY <1>3, <1>4, <2>2, <2>3, AddsBoth
  <2> HIDE DEF First4
  <2>6. CASE t = "HYBI00"
    <3>1. Adds(First4 \o <<2, h.accept>>, sum4 + (2 + h.accept))
      BY <1>1, <2>5, AddsTwo, AddsBoth
    <3>2. length = sum4 + (2 + h.accept)
      BY <1>1, <1>2, <1>5, <2>1, <2>4, <2>6 DEF length, UPGRADE, CONNECTION
    <3>3. Pieces = First4 \o <<2, h.accept>>
      BY <2>6 DEF Pieces, First4
    <3> QED
      BY <3>1, <3>2, <3>3
  <2>7. CASE t = "HIXIE75"
    <3>1. Adds(First4 \o <<2>>, sum4 + 2)
      BY <2>5, AddsOne, AddsBoth
    <3>2. length = sum4 + 2
      BY <1>1, <1>2, <1>5, <2>1, <2>4, <2>7 DEF length, UPGRADE, CONNECTION
    <3>3. Pieces = First4 \o <<2>>
      BY <2>7 DEF Pieces, First4
    <3> QED
      BY <3>1, <3>2, <3>3
  <2> QED
    BY <1>7, <2>6, <2>7
<1> QED
  BY <1>6, <1>7 DEF Type

-----------------------------------------------------------------------------
(* What the operators on bytes return *)

\* A part of a sequence.
LEMMA Part ==
  ASSUME NEW S, NEW s \in Seq(S), NEW a \in Nat \ {0}, NEW b \in 0 .. Len(s)
  PROVE  /\ SubSeq(s, a, b) \in Seq(S)
         /\ Len(SubSeq(s, a, b)) = IF a <= b THEN b - a + 1 ELSE 0
         /\ \A j \in 1 .. (b - a + 1) : SubSeq(s, a, b)[j] = s[a + j - 1]
<1>1. Len(s) \in Nat
  BY LenProperties
<1>2. a \in Int /\ b \in Int /\ \A j \in a .. b : s[j] \in S
  BY <1>1, ElementOfSeq
<1> QED
  BY <1>2, SubSeqProperties

\* The first b elements of a sequence, and those behind the first b.
LEMMA FirstPart ==
  ASSUME NEW S, NEW s \in Seq(S), NEW b \in 0 .. Len(s)
  PROVE  /\ SubSeq(s, 1, b) \in Seq(S) /\ Len(SubSeq(s, 1, b)) = b
         /\ \A j \in 1 .. b : SubSeq(s, 1, b)[j] = s[j]
<1>1. Len(s) \in Nat /\ b \in Nat /\ 1 \in Nat \ {0}
  BY LenProperties
<1>2. /\ SubSeq(s, 1, b) \in Seq(S)
      /\ Len(SubSeq(s, 1, b)) = IF 1 <= b THEN b - 1 + 1 ELSE 0
      /\ \A j \in 1 .. (b - 1 + 1) : SubSeq(s, 1, b)[j] = s[1 + j - 1]
  BY <1>1, Part
<1>3. \A j \in 1 .. b : j \in 1 .. (b - 1 + 1) /\ 1 + j - 1 = j
  BY <1>1
<1> QED
  BY <1>1, <1>2, <1>3

\* What follows the first b members of a sequence.
LEMMA LastPart ==
  ASSUME NEW S, NEW s \in Seq(S), NEW b \in 0 .. Len(s)
  PROVE  /\ SubSeq(s, b + 1, Len(s)) \in Seq(S) /\ Len(SubSeq(s, b + 1, Len(s))) = Len(s) - b
         /\ \A j \in 1 .. Len(s) - b : SubSeq(s, b + 1, Len(s))[j] = s[b + j]
<1>1. Len(s) \in Nat /\ b \in Nat /\ b + 1 \in Nat \ {0} /\ Len(s) \in 0 .. Len(s)
  BY LenProperties
<1>2. /\ SubSeq(s, b + 1, Len(s)) \in Seq(S)
      /\ Len(SubSeq(s, b + 1, Len(s))) = IF b + 1 <= Len(s) THEN Len(s) - (b + 1) + 1 ELSE 0
      /\ \A j \in 1 .. (Len(s) - (b + 1) + 1) : SubSeq(s, b + 1, Len(s))[j] = s[(b + 1) + j - 1]
  BY <1>1, Part
<1>3. \A j \in 1 .. Len(s) - b : j \in 1 .. (Len(s) - (b + 1) + 1) /\ (b + 1) + j - 1 = b + j
  BY <1>1
<1> QED
  BY <1>1, <1>2, <1>3

\* A recv returns something, and no more than fits and has arrived.
LEMMA ChunkSize ==
  ASSUME NEW S, wire \in Seq(S), NEW room \in Nat, NEW k \in Chunks(room)
  PROVE  k \in Nat /\ k >= 1 /\ k <= Len(wire) /\ k <= room
<1>1. Len(wire) \in Nat
  BY LenProperties
<1> QED
  BY <1>1 DEF Chunks, Smaller

\* A set of numbers that is not empty has a least one.
LEMMA LeastExists ==
  ASSUME NEW S \in SUBSET Nat, S # {}
  PROVE  \E x \in S : \A y \in S : x <= y
<1>1. PICK x \in S : \A y \in S : <<y, x>> \notin OpToRel(<, Nat)
  BY NatLessThanWellFounded, WFMin
<1>2. \A y \in S : ~(y < x)
  BY <1>1 DEF OpToRel
<1> QED
  BY <1>2

\* getWholeMessage takes the bytes before the first that ends a text.
LEMMA BeforeEnd ==
  ASSUME NEW S, NEW bytes \in Seq(S)
  PROVE  /\ Before(bytes) \in Seq(S) /\ Len(Before(bytes)) <= Len(bytes)
         /\ ~Whether(bytes) => Before(bytes) = bytes
         /\ Whether(bytes) => \E j \in 1 .. Len(bytes) :
              /\ Ends(bytes[j]) /\ \A i \in 1 .. (j - 1) : ~Ends(bytes[i])
              /\ Before(bytes) = SubSeq(bytes, 1, j - 1)
<1>1. Len(bytes) \in Nat /\ DOMAIN bytes = 1 .. Len(bytes)
  BY LenProperties
<1>2. CASE ~Whether(bytes)
  BY <1>1, <1>2 DEF Before
<1>3. CASE Whether(bytes)
  <2> DEFINE I == {i \in 1 .. Len(bytes) : Ends(bytes[i])}
  <2>1. I # {} /\ I \in SUBSET Nat
    BY <1>1, <1>3 DEF Whether
  <2>2. SelectInSeq(bytes, Ends) = CHOOSE x \in I : \A y \in I : x <= y
    BY <2>1 DEF SelectInSeq, Min
  <2>3. PICK j \in I : j = SelectInSeq(bytes, Ends) /\ \A y \in I : j <= y
    BY <2>1, <2>2, LeastExists
  <2>4. j \in 1 .. Len(bytes) /\ Ends(bytes[j]) /\ \A i \in 1 .. (j - 1) : ~Ends(bytes[i])
    <3>1. j \in 1 .. Len(bytes) /\ Ends(bytes[j])
      OBVIOUS
    <3>2. ASSUME NEW i \in 1 .. (j - 1), Ends(bytes[i]) PROVE FALSE
      <4>1. i \in 1 .. Len(bytes) /\ i < j /\ i \in Int /\ j \in Int
        BY <1>1, <3>1
      <4>2. i \in I
        BY <3>2, <4>1
      <4>3. j <= i
        BY <2>3, <4>2
      <4> QED
        BY <4>1, <4>3
    <3> QED
      BY <3>1, <3>2
  <2>5. Before(bytes) = SubSeq(bytes, 1, j - 1)
    BY <1>3, <2>3 DEF Before
  <2>6. j - 1 \in 0 .. Len(bytes)
    BY <1>1, <2>4
  <2>7. SubSeq(bytes, 1, j - 1) \in Seq(S) /\ Len(SubSeq(bytes, 1, j - 1)) <= Len(bytes)
    BY <1>1, <2>6, Part
  <2> QED
    BY <1>3, <2>4, <2>5, <2>7
<1> QED
  BY <1>2, <1>3

-----------------------------------------------------------------------------
(* Types and bounds *)

\* Bytes that a client has sent.
Arrived == (1 .. Len(sent)) \X Nat

State == {"request", "respond", "read", "parse", "rest", "done", "more", "closed", "crashed"}

Message == [len : Nat, msg : Seq(Arrived \cup {Garbage}), next : Seq(Arrived), op : Op \cup {"none"}]

Typed == /\ kind \in Kind /\ sent \in Seq(FrameType) /\ Len(sent) <= MaxFrames
         /\ wire \in Seq(Arrived) /\ next \in Seq(Arrived) /\ buffer \in Seq(Arrived)
         /\ m \in Message /\ pc \in State

\* What is carried over leaves room for one byte, and the part of a message that is
\* there is no longer than it; while the rest is awaited, it is shorter.
Bounded == /\ Len(next) < BUFFERSIZE /\ Len(buffer) <= BUFFERSIZE /\ Len(m.next) < BUFFERSIZE
           /\ pc = "parse" => buffer # <<>>
           /\ pc \in {"parse", "rest"} => kind.type = "RFC6455"
           /\ pc = "more" => kind.type = "HYBI00"
           /\ pc = "rest" => Len(m.msg) < m.len
           /\ pc = "done" /\ kind.type = "RFC6455" => Len(m.msg) <= m.len

\* The bytes of the answer written so far are those of its first pieces.
Answering == /\ pc = "request" => piece = 0 /\ memlen = 0
             /\ pc = "respond" => /\ h \in Request /\ piece \in {0} \cup 1 .. Len(Pieces)
                                  /\ \A f : Sums(Pieces, f, length) => memlen = f[piece]

CInv == Typed /\ Bounded /\ Answering

\* The frame of a byte that was sent.
LEMMA FrameOfByte ==
  ASSUME Typed, NEW s \in Seq(Arrived), NEW i \in 1 .. Len(s)
  PROVE  /\ s[i][1] \in 1 .. Len(sent) /\ s[i][2] \in Nat
         /\ FrameOf(s[i]) \in FrameType
         /\ FrameOf(s[i]).skip \in {1, 6, 8, 14} /\ FrameOf(s[i]).len \in Nat /\ FrameOf(s[i]).op \in Op
<1>1. s[i] \in Arrived
  BY ElementOfSeq
<1>2. s[i][1] \in 1 .. Len(sent) /\ s[i][2] \in Nat
  BY <1>1 DEF Arrived
<1>3. sent[s[i][1]] \in FrameType
  BY <1>2, ElementOfSeq DEF Typed
<1> QED
  BY <1>2, <1>3 DEF FrameOf, FrameType

-----------------------------------------------------------------------------
(* Every step keeps types and bounds *)

\* A step of the handler that is not of the answer.
LEMMA HandlerFrame ==
  ASSUME CInv, UNCHANGED <<kind, sent>>, pc' \in State \ {"request", "respond"},
         wire' \in Seq(Arrived), next' \in Seq(Arrived), buffer' \in Seq(Arrived), m' \in Message, Bounded'
  PROVE  CInv'
<1>1. Arrived' = Arrived /\ Message' = Message
  BY DEF Arrived, Message
<1> QED
  BY <1>1 DEF CInv, Typed, Answering

\* What is left of the bytes on their way.
LEMMA WireRest ==
  ASSUME NEW S, wire \in Seq(S), NEW room \in Nat, NEW k \in Chunks(room)
  PROVE  /\ SubSeq(wire, 1, k) \in Seq(S) /\ Len(SubSeq(wire, 1, k)) = k
         /\ \A j \in 1 .. k : SubSeq(wire, 1, k)[j] = wire[j]
         /\ SubSeq(wire, k + 1, Len(wire)) \in Seq(S)
         /\ Len(SubSeq(wire, k + 1, Len(wire))) = Len(wire) - k
         /\ \A j \in 1 .. Len(wire) - k : SubSeq(wire, k + 1, Len(wire))[j] = wire[k + j]
         /\ k \in 1 .. Len(wire) /\ k <= room
<1>1. Len(wire) \in Nat /\ k \in Nat /\ k >= 1 /\ k <= Len(wire) /\ k <= room
  BY LenProperties, ChunkSize
<1> QED
  BY <1>1, FirstPart, LastPart

\* communicate's buffer after the first recv, or without one.
LEMMA ReadBuffer ==
  ASSUME CInv, Read
  PROVE  /\ buffer' \in Seq(Arrived) /\ wire' \in Seq(Arrived)
         /\ Len(buffer') \in 1 .. BUFFERSIZE
<1>1. /\ wire \in Seq(Arrived) /\ next \in Seq(Arrived) /\ Len(next) \in Nat
      /\ Len(next) < BUFFERSIZE /\ BUFFERSIZE \in Nat
  BY LenProperties, StreamAssumption DEF CInv, Typed, Bounded
<1>2. CASE NeedMore
  <2>1. PICK k \in Chunks(BUFFERSIZE - Len(next)) : /\ buffer' = next \o SubSeq(wire, 1, k)
                                                   /\ wire' = SubSeq(wire, k + 1, Len(wire))
    BY <1>2 DEF Read
  <2>2. BUFFERSIZE - Len(next) \in Nat
    BY <1>1
  <2>3. /\ SubSeq(wire, 1, k) \in Seq(Arrived) /\ Len(SubSeq(wire, 1, k)) = k
        /\ SubSeq(wire, k + 1, Len(wire)) \in Seq(Arrived)
        /\ k >= 1 /\ k <= BUFFERSIZE - Len(next) /\ k \in Nat
    BY <1>1, <2>2, WireRest, LenProperties
  <2>4. buffer' \in Seq(Arrived) /\ Len(buffer') = Len(next) + k
    BY <1>1, <2>1, <2>3, ConcatProperties
  <2> QED
    BY <1>1, <2>1, <2>3, <2>4
<1>3. CASE ~NeedMore
  <2>1. buffer' = next /\ wire' = wire
    BY <1>3 DEF Read
  <2>2. Len(next) > 6
    BY <1>1, <1>3 DEF NeedMore
  <2> QED
    BY <1>1, <2>1, <2>2
<1> QED
  BY <1>2, <1>3

\* A recv of a frame, or what is carried over: it fits communicate's buffer.
LEMMA ReadKeeps ==
  ASSUME CInv, Read
  PROVE  CInv'
<1>1. /\ pc = "read" /\ pc' = "parse" /\ kind.type = "RFC6455" /\ next' = <<>>
      /\ UNCHANGED <<kind, sent, eof, got>>
      /\ m' = [m EXCEPT !.op = IF @ = "none" THEN FrameOf(buffer'[1]).op ELSE @]
  BY DEF Read
<1>2. buffer' \in Seq(Arrived) /\ wire' \in Seq(Arrived) /\ Len(buffer') \in 1 .. BUFFERSIZE
  BY ReadBuffer
<1>3. FrameOf(buffer'[1]).op \in Op
  BY <1>2, FrameOfByte DEF CInv
<1>4. m' \in Message /\ m'.next = m.next
  BY <1>1, <1>3 DEF CInv, Typed, Message
<1>5. Bounded'
  BY <1>1, <1>2, <1>4, StreamAssumption DEF CInv, Bounded
<1>6. <<>> \in Seq(Arrived)
  OBVIOUS
<1> QED
  BY <1>1, <1>2, <1>4, <1>5, <1>6, HandlerFrame DEF State

\* The connection ends.
LEMMA EndKeeps ==
  ASSUME CInv, pc' \in {"closed", "crashed", "read"}, UNCHANGED <<client, next, buffer, m>>
  PROVE  CInv'
<1>1. UNCHANGED <<kind, sent, wire>>
  BY DEF client
<1>2. Bounded'
  BY DEF CInv, Bounded
<1> QED
  BY <1>1, <1>2, HandlerFrame DEF CInv, Typed, State

\* What parseMessage leaves of its buffer: the payload that is there and the rest.
LEMMA ParseMessage ==
  ASSUME CInv, Parse
  PROVE  \E body \in Seq(Arrived), copied \in Nat :
           /\ body = SubSeq(buffer, Head1.skip + 1, Len(buffer))
           /\ Len(body) = Len(buffer) - Head1.skip /\ Len(body) < BUFFERSIZE
           /\ copied <= Len(body) /\ copied <= Total /\ (copied = Len(body) \/ copied = Total)
           /\ m'.len = Total /\ m'.op = m.op /\ m'.next = Cut(body) /\ m' \in Message
           /\ m'.msg = [i \in 1 .. m.len |-> Garbage] \o SubSeq(body, 1, copied)
           /\ Len(m'.msg) = m.len + copied
           /\ pc' \in CASE m.len + copied < Total -> {"rest"}
                        [] m.len + copied = Total -> {"done"}
                        [] m.len + copied > Total -> {"closed", "crashed"}
           /\ Len(m'.next) < BUFFERSIZE
<1>1. /\ buffer \in Seq(Arrived) /\ Len(buffer) \in Nat /\ Len(buffer) >= 1 /\ Len(buffer) <= BUFFERSIZE
      /\ m \in Message /\ m.len \in Nat /\ BUFFERSIZE \in Nat /\ pc = "parse"
      /\ m.next \in Seq(Arrived) /\ Len(m.next) < BUFFERSIZE
  <2>1. pc = "parse" /\ buffer # <<>> /\ buffer \in Seq(Arrived) /\ Len(buffer) <= BUFFERSIZE
    BY DEF CInv, Typed, Bounded, Parse
  <2>2. Len(buffer) \in Nat /\ Len(buffer) >= 1
    BY <2>1, EmptySeq
  <2> QED
    BY <2>1, <2>2, StreamAssumption DEF CInv, Typed, Bounded, Message
<1>2. Head1.skip \in {1, 6, 8, 14} /\ Head1.len \in Nat
  BY <1>1, FrameOfByte DEF Head1, CInv
<1>3. Len(buffer) >= Head1.skip /\ Total \in Nat /\ Total = m.len + Head1.len
  BY <1>1, <1>2 DEF Parse, Total
<1> DEFINE body   == SubSeq(buffer, Head1.skip + 1, Len(buffer))
           copied == Smaller(Len(body), Total)
           zeros  == [i \in 1 .. m.len |-> Garbage]
           msg    == zeros \o SubSeq(body, 1, copied)
<1>4. body \in Seq(Arrived) /\ Len(body) = Len(buffer) - Head1.skip /\ Len(body) \in Nat
  <2>1. Head1.skip \in 0 .. Len(buffer)
    BY <1>1, <1>2, <1>3
  <2>2. body \in Seq(Arrived) /\ Len(body) = Len(buffer) - Head1.skip
    BY <1>1, <2>1, LastPart
  <2> QED
    BY <2>2, LenProperties
<1>5. /\ m' = [m EXCEPT !.len = Total, !.next = Cut(body), !.msg = msg]
      /\ pc' \in CASE m.len + copied < Total -> {"rest"}
                   [] m.len + copied = Total -> {"done"}
                   [] m.len + copied > Total -> {"closed", "crashed"}
  BY DEF Parse
<1> HIDE DEF body
<1>6. copied \in Nat /\ copied <= Len(body) /\ copied <= Total /\ (copied = Len(body) \/ copied = Total)
  BY <1>3, <1>4 DEF Smaller
<1> HIDE DEF copied
<1> DEFINE S == Arrived \cup {Garbage}
<1>7. msg \in Seq(S) /\ Len(msg) = m.len + copied
  <2>1. zeros \in Seq(S) /\ Len(zeros) = m.len
    BY <1>1
  <2>2. copied \in 0 .. Len(body)
    BY <1>4, <1>6
  <2>3. SubSeq(body, 1, copied) \in Seq(Arrived) /\ Len(SubSeq(body, 1, copied)) = copied
    BY <1>4, <2>2, FirstPart
  <2>4. Arrived \subseteq S
    OBVIOUS
  <2> DEFINE part == SubSeq(body, 1, copied)
  <2> HIDE DEF S
  <2>5. part \in Seq(S)
    BY <2>3, <2>4, SeqMonotonic
  <2>6. Len(part) = copied
    BY <2>3
  <2> HIDE DEF zeros, part
  <2>7. zeros \o part \in Seq(S) /\ Len(zeros \o part) = Len(zeros) + Len(part)
    BY <2>1, <2>5, ConcatProperties
  <2>8. msg = zeros \o part
    BY DEF part
  <2> QED
    BY <2>1, <2>6, <2>7, <2>8
<1> HIDE DEF msg
<1>8. Cut(body) \in Seq(Arrived) /\ Len(Cut(body)) < BUFFERSIZE
  <2>1. CASE Len(body) > Total
    <3>1. Total \in 0 .. Len(body)
      BY <1>3, <1>4, <2>1
    <3>2. /\ SubSeq(body, Total + 1, Len(body)) \in Seq(Arrived)
          /\ Len(SubSeq(body, Total + 1, Len(body))) = Len(body) - Total
      BY <1>4, <3>1, LastPart
    <3>3. Cut(body) = SubSeq(body, Total + 1, Len(body))
      BY <2>1 DEF Cut
    <3>4. Len(body) - Total < BUFFERSIZE
      BY <1>1, <1>2, <1>3, <1>4
    <3> QED
      BY <3>2, <3>3, <3>4
  <2>2. CASE ~(Len(body) > Total)
    BY <1>1, <2>2 DEF Cut
  <2> QED
    BY <2>1, <2>2
<1>9. /\ m'.len = Total /\ m'.op = m.op /\ m'.next = Cut(body) /\ m'.msg = msg /\ m' \in Message
  <2> DEFINE nxt == Cut(body)
  <2> HIDE DEF nxt
  <2>1. m.op \in Op \cup {"none"}
    BY <1>1 DEF Message
  <2>2. m' = [len |-> Total, msg |-> msg, next |-> nxt, op |-> m.op]
    <3>1. m' = [m EXCEPT !.len = Total, !.next = nxt, !.msg = msg]
      BY <1>5 DEF nxt
    <3> QED
      BY <1>1, <3>1 DEF Message
  <2>3. msg \in Seq(Arrived \cup {Garbage}) /\ nxt \in Seq(Arrived) /\ Total \in Nat
    BY <1>3, <1>7, <1>8 DEF nxt
  <2>4. m' \in Message
    BY <2>1, <2>2, <2>3 DEF Message
  <2> QED
    BY <2>2, <2>4 DEF nxt
<1>10. Len(body) < BUFFERSIZE
  BY <1>1, <1>2, <1>4
<1>11. msg = [i \in 1 .. m.len |-> Garbage] \o SubSeq(body, 1, copied)
  BY DEF msg
<1>12. body = SubSeq(buffer, Head1.skip + 1, Len(buffer))
  BY DEF body
<1> QED
  BY <1>4, <1>5, <1>6, <1>7, <1>8, <1>9, <1>10, <1>11, <1>12

\* What parseMessage copies, allocates and carries over keeps within its memory.
LEMMA ParseKeeps ==
  ASSUME CInv, Parse
  PROVE  CInv'
<1>1. PICK body \in Seq(Arrived), copied \in Nat :
           /\ copied <= Total
           /\ m'.len = Total /\ m' \in Message
           /\ Len(m'.msg) = m.len + copied
           /\ pc' \in CASE m.len + copied < Total -> {"rest"}
                        [] m.len + copied = Total -> {"done"}
                        [] m.len + copied > Total -> {"closed", "crashed"}
           /\ Len(m'.next) < BUFFERSIZE
  BY ParseMessage
<1>2. /\ pc = "parse" /\ kind.type = "RFC6455" /\ UNCHANGED <<kind, sent, wire, next, buffer>>
  BY DEF Parse, client, CInv, Bounded
<1>3. m.len \in Nat /\ Total \in Nat
  BY <1>1 DEF CInv, Typed, Message
<1>4. /\ pc' \in {"rest", "done", "closed", "crashed"}
      /\ pc' = "rest" => Len(m'.msg) < m'.len
      /\ pc' = "done" => Len(m'.msg) <= m'.len
  BY <1>1, <1>3
<1>5. Bounded'
  BY <1>1, <1>2, <1>4 DEF CInv, Bounded
<1> QED
  BY <1>1, <1>2, <1>4, <1>5, HandlerFrame DEF CInv, Typed, State

\* One round of getRemainingMessage adds at most the bytes that lack, and carries
\* over less than a buffer.
LEMMA RestMessage ==
  ASSUME CInv, Rest
  PROVE  \E k \in Chunks(BUFFERSIZE) : LET lack == m.len - Len(m.msg) IN
           /\ k \in Nat /\ k >= 1 /\ k <= BUFFERSIZE /\ k <= Len(wire)
           /\ SubSeq(wire, 1, k) \in Seq(Arrived) /\ Len(SubSeq(wire, 1, k)) = k
           /\ wire' = SubSeq(wire, k + 1, Len(wire)) /\ wire' \in Seq(Arrived)
           /\ m'.msg = m.msg \o SubSeq(wire, 1, Smaller(k, lack)) /\ m'.msg \in Seq(Arrived \cup {Garbage})
           /\ Len(m'.msg) = Len(m.msg) + Smaller(k, lack)
           /\ m'.len = m.len /\ m'.op = m.op
           /\ m'.next = IF k > lack THEN SubSeq(SubSeq(wire, 1, k), lack + 1, k) ELSE m.next
           /\ m' \in Message /\ Len(m'.next) < BUFFERSIZE
           /\ pc' = IF Len(m'.msg) >= m.len THEN "done" ELSE "rest"
<1> DEFINE S    == Arrived \cup {Garbage}
           lack == m.len - Len(m.msg)
<1>1. /\ wire \in Seq(Arrived) /\ m \in Message /\ m.len \in Nat /\ m.msg \in Seq(S) /\ m.next \in Seq(Arrived)
      /\ m.op \in Op \cup {"none"} /\ BUFFERSIZE \in Nat /\ Len(m.next) < BUFFERSIZE
  BY StreamAssumption DEF CInv, Typed, Bounded, Message
<1>2. pc = "rest" /\ Len(m.msg) < m.len
  BY DEF Rest, CInv, Bounded
<1>3. Len(m.msg) \in Nat /\ Len(wire) \in Nat
  BY <1>1, LenProperties
<1>4. lack \in Nat /\ lack >= 1
  BY <1>1, <1>2, <1>3
<1>5. PICK k \in Chunks(BUFFERSIZE) :
        /\ wire' = SubSeq(wire, k + 1, Len(wire))
        /\ m' = [m EXCEPT !.msg = m.msg \o Mine(SubSeq(wire, 1, k)), !.next = RestNext(SubSeq(wire, 1, k))]
        /\ pc' = IF Whole(m.msg \o Mine(SubSeq(wire, 1, k))) THEN "done" ELSE "rest"
  BY DEF Rest
<1> DEFINE chunk == SubSeq(wire, 1, k)
<1>6. /\ chunk \in Seq(Arrived) /\ Len(chunk) = k /\ k \in Nat /\ k >= 1 /\ k <= BUFFERSIZE /\ k <= Len(wire)
      /\ SubSeq(wire, k + 1, Len(wire)) \in Seq(Arrived)
      /\ \A j \in 1 .. k : chunk[j] = wire[j]
  BY <1>1, <1>3, WireRest
<1> DEFINE part == SubSeq(wire, 1, Smaller(k, lack))
           msg  == m.msg \o part
           nxt  == RestNext(chunk)
<1>7. Smaller(k, lack) \in 0 .. k /\ Smaller(k, lack) \in 0 .. Len(wire)
  BY <1>3, <1>4, <1>6 DEF Smaller
<1>8. part \in Seq(Arrived) /\ Len(part) = Smaller(k, lack) /\ Mine(chunk) = part
  <2>1. /\ part \in Seq(Arrived) /\ Len(part) = Smaller(k, lack)
        /\ \A j \in 1 .. Smaller(k, lack) : part[j] = wire[j]
    BY <1>1, <1>7, FirstPart
  <2>2. Mine(chunk) = SubSeq(chunk, 1, Smaller(k, lack))
    BY <1>6 DEF Mine
  <2> DEFINE c == SubSeq(chunk, 1, Smaller(k, lack))
  <2>3. /\ c \in Seq(Arrived) /\ Len(c) = Smaller(k, lack)
        /\ \A j \in 1 .. Smaller(k, lack) : c[j] = chunk[j]
    <3> HIDE DEF chunk
    <3> QED
      BY <1>6, <1>7, FirstPart
  <2>4. \A j \in 1 .. Smaller(k, lack) : c[j] = part[j]
    BY <1>6, <1>7, <2>1, <2>3
  <2> HIDE DEF c, part, chunk
  <2>5. c = part
    BY <2>1, <2>3, <2>4, SeqEqual
  <2> QED
    BY <2>1, <2>2, <2>5 DEF c
<1>9. Arrived \subseteq S
  OBVIOUS
<1>10. msg \in Seq(S) /\ Len(msg) = Len(m.msg) + Smaller(k, lack)
  <2> HIDE DEF part, S
  <2>1. part \in Seq(S)
    BY <1>8, <1>9, SeqMonotonic
  <2>2. m.msg \in Seq(S) /\ Len(part) = Smaller(k, lack)
    BY <1>1, <1>8
  <2>3. m.msg \o part \in Seq(S) /\ Len(m.msg \o part) = Len(m.msg) + Len(part)
    BY <2>1, <2>2, ConcatProperties
  <2>4. msg = m.msg \o part
    BY DEF part
  <2> HIDE DEF msg, lack
  <2> QED
    BY <2>2, <2>3, <2>4
<1>11. nxt = IF k > lack THEN SubSeq(chunk, lack + 1, k) ELSE m.next
  BY <1>6 DEF RestNext
<1>12. nxt \in Seq(Arrived) /\ Len(nxt) < BUFFERSIZE
  <2>1. CASE k > lack
    <3>1. lack \in 0 .. Len(chunk)
      BY <1>4, <1>6, <2>1
    <3> HIDE DEF chunk, lack
    <3>2. SubSeq(chunk, lack + 1, Len(chunk)) \in Seq(Arrived) /\ Len(SubSeq(chunk, lack + 1, Len(chunk))) = Len(chunk) - lack
      BY <1>6, <3>1, LastPart
    <3>3. nxt = SubSeq(chunk, lack + 1, Len(chunk))
      BY <1>6, <1>11, <2>1
    <3>4. Len(chunk) - lack < BUFFERSIZE
      BY <1>1, <1>4, <1>6
    <3> QED
      BY <3>2, <3>3, <3>4
  <2>2. CASE ~(k > lack)
    BY <1>1, <1>11, <2>2
  <2> QED
    BY <2>1, <2>2
<1> HIDE DEF msg, nxt, S
<1>13. m' = [len |-> m.len, msg |-> msg, next |-> nxt, op |-> m.op]
  <2>1. m' = [m EXCEPT !.msg = msg, !.next = nxt]
    BY <1>5, <1>8 DEF msg, nxt
  <2> QED
    BY <1>1, <2>1 DEF Message
<1>14. m' \in Message
  BY <1>1, <1>10, <1>12, <1>13 DEF Message, S
<1>15. pc' = IF Len(msg) >= m.len THEN "done" ELSE "rest"
  BY <1>5, <1>8 DEF Whole, msg
<1>16. m'.next = nxt /\ m'.msg = msg /\ m'.len = m.len /\ m'.op = m.op
  BY <1>13
<1>17. msg = m.msg \o SubSeq(wire, 1, Smaller(k, lack)) /\ nxt = RestNext(chunk)
  BY DEF msg, nxt
<1>18. msg \in Seq(Arrived \cup {Garbage})
  BY <1>10 DEF S
<1> HIDE DEF chunk, lack
<1> QED
  BY <1>5, <1>6, <1>10, <1>11, <1>12, <1>13, <1>14, <1>15, <1>16, <1>17, <1>18 DEF chunk, lack

\* One round of getRemainingMessage keeps the message within its length.
LEMMA RestKeeps ==
  ASSUME CInv, Rest
  PROVE  CInv'
<1>1. PICK k \in Chunks(BUFFERSIZE) : LET lack == m.len - Len(m.msg) IN
           /\ k \in Nat
           /\ wire' \in Seq(Arrived)
           /\ Len(m'.msg) = Len(m.msg) + Smaller(k, lack)
           /\ m'.len = m.len
           /\ m' \in Message /\ Len(m'.next) < BUFFERSIZE
           /\ pc' = IF Len(m'.msg) >= m.len THEN "done" ELSE "rest"
  BY RestMessage
<1>2. pc = "rest" /\ Len(m.msg) < m.len /\ kind.type = "RFC6455" /\ UNCHANGED <<kind, sent, next, buffer>>
  BY DEF Rest, CInv, Bounded
<1>3. m.len \in Nat /\ Len(m.msg) \in Nat
  <2>1. m.len \in Nat /\ m.msg \in Seq(Arrived \cup {Garbage})
    BY DEF CInv, Typed, Message
  <2> QED
    BY <2>1, LenProperties
<1>4. Len(m'.msg) <= m.len /\ Len(m'.msg) \in Nat
  BY <1>1, <1>2, <1>3 DEF Smaller
<1>5. pc' \in {"rest", "done"} /\ (pc' = "rest" => Len(m'.msg) < m'.len) /\ (pc' = "done" => Len(m'.msg) <= m'.len)
  BY <1>1, <1>3, <1>4
<1>6. Bounded'
  BY <1>1, <1>2, <1>5 DEF CInv, Bounded
<1> QED
  BY <1>1, <1>2, <1>5, <1>6, HandlerFrame DEF CInv, Typed, State

\* A text handed on leaves what is carried over, and an empty buffer.
LEMMA HandleKeeps ==
  ASSUME CInv, Handle
  PROVE  CInv'
<1>1. UNCHANGED <<kind, sent, wire>> /\ next' = m.next /\ m' = NewMessage /\ buffer' = <<>> /\ pc' = "read"
  BY DEF Handle, client
<1>2. m.next \in Seq(Arrived) /\ Len(m.next) < BUFFERSIZE /\ wire \in Seq(Arrived)
  BY DEF CInv, Typed, Bounded, Message
<1>3. NewMessage \in Message /\ NewMessage.next = <<>>
  BY DEF NewMessage, Message
<1>4. BUFFERSIZE > 14 /\ BUFFERSIZE \in Nat
  BY StreamAssumption
<1>5. Bounded'
  BY <1>1, <1>2, <1>3, <1>4 DEF Bounded
<1>6. <<>> \in Seq(Arrived)
  OBVIOUS
<1> QED
  BY <1>1, <1>2, <1>3, <1>5, <1>6, HandlerFrame DEF State

\* The two steps of hybi-00, as getWholeMessage takes the bytes.
LEMMA HybiKeeps ==
  ASSUME CInv, HybiRead \/ HybiRest
  PROVE  CInv'
<1> DEFINE S == Arrived \cup {Garbage}
<1>1. /\ wire \in Seq(Arrived) /\ m \in Message /\ m.msg \in Seq(S) /\ BUFFERSIZE \in Nat
      /\ next \in Seq(Arrived) /\ buffer \in Seq(Arrived) /\ Len(wire) \in Nat
  BY LenProperties, StreamAssumption DEF CInv, Typed, Message
<1>2. Arrived \subseteq S
  OBVIOUS
<1>3. ASSUME NEW bytes \in Seq(Arrived) PROVE Before(bytes) \in Seq(S)
  <2>1. Before(bytes) \in Seq(Arrived)
    BY BeforeEnd
  <2> HIDE DEF S
  <2> QED
    BY <1>2, <2>1, SeqMonotonic
<1>4. CASE HybiRead
  <2>1. pc = "read" /\ kind.type = "HYBI00" /\ UNCHANGED <<kind, sent, next>>
    BY <1>4 DEF HybiRead
  <2>2. PICK k \in Chunks(BUFFERSIZE) :
          /\ wire' = SubSeq(wire, k + 1, Len(wire)) /\ buffer' = SubSeq(wire, 1, k)
          /\ \/ m' = m /\ pc' \in {"closed", "crashed"}
             \/ /\ m' = [m EXCEPT !.msg = Before(SubSeq(wire, 2, k)), !.op = "text"]
                /\ pc' \in {"done", "more"}
    BY <1>4 DEF HybiRead
  <2>3. /\ wire' \in Seq(Arrived) /\ buffer' \in Seq(Arrived) /\ Len(buffer') = k /\ k <= BUFFERSIZE
        /\ k \in 0 .. Len(wire)
    BY <1>1, <2>2, WireRest
  <2>4. SubSeq(wire, 2, k) \in Seq(Arrived)
    BY <1>1, <2>3, Part
  <2>5. Before(SubSeq(wire, 2, k)) \in Seq(S)
    BY <1>3, <2>4
  <2> DEFINE msg == Before(SubSeq(wire, 2, k))
  <2> HIDE DEF msg
  <2>6. m' \in Message /\ m'.next = m.next
    <3>1. msg \in Seq(Arrived \cup {Garbage})
      BY <2>5 DEF msg
    <3>2. m' = m \/ m' = [m EXCEPT !.msg = msg, !.op = "text"]
      BY <2>2 DEF msg
    <3>3. "text" \in Op \cup {"none"}
      BY DEF Op
    <3> QED
      BY <1>1, <3>1, <3>2, <3>3 DEF Message
  <2>7. Bounded'
    BY <2>1, <2>2, <2>3, <2>6 DEF CInv, Bounded
  <2> QED
    BY <1>1, <2>1, <2>2, <2>3, <2>6, <2>7, HandlerFrame DEF State
<1>5. CASE HybiRest
  <2>1. pc = "more" /\ UNCHANGED <<kind, sent, next, buffer>>
    BY <1>5 DEF HybiRest
  <2>2. PICK k \in Chunks(BUFFERSIZE) :
          /\ wire' = SubSeq(wire, k + 1, Len(wire))
          /\ m' = [m EXCEPT !.msg = m.msg \o Before(SubSeq(wire, 1, k))]
          /\ pc' \in {"done", "closed", "more"}
    BY <1>5 DEF HybiRest
  <2>3. wire' \in Seq(Arrived) /\ SubSeq(wire, 1, k) \in Seq(Arrived)
    BY <1>1, <2>2, WireRest
  <2> DEFINE msg == m.msg \o Before(SubSeq(wire, 1, k))
  <2>4. msg \in Seq(S)
    BY <1>1, <1>3, <2>3, ConcatProperties
  <2> HIDE DEF msg
  <2>5. m' \in Message /\ m'.next = m.next /\ m'.len = m.len
    <3>1. msg \in Seq(Arrived \cup {Garbage})
      BY <2>4
    <3>2. m' = [m EXCEPT !.msg = msg]
      BY <2>2 DEF msg
    <3> QED
      BY <1>1, <3>1, <3>2 DEF Message
  <2>6. kind.type # "RFC6455"
    BY <2>1 DEF CInv, Bounded
  <2>7. Bounded'
    BY <2>1, <2>2, <2>5, <2>6 DEF CInv, Bounded
  <2> QED
    BY <1>1, <2>1, <2>2, <2>3, <2>5, <2>7, HandlerFrame DEF State
<1> QED
  BY <1>4, <1>5
\* A frame is its header and payload, byte by byte.
LEMMA FrameBytes ==
  ASSUME NEW n \in Nat, NEW f \in FrameType
  PROVE  LET size == f.skip + f.len + IF f.skip = 1 THEN 1 ELSE 0 IN
           /\ size \in Nat /\ Bytes(n, f) \in Seq({n} \X Nat) /\ Len(Bytes(n, f)) = size
           /\ \A i \in 1 .. size : Bytes(n, f)[i] = <<n, i>>
<1> DEFINE size == f.skip + f.len + IF f.skip = 1 THEN 1 ELSE 0
<1>1. f.skip \in Nat /\ f.len \in Nat
  BY DEF FrameType
<1>2. size \in Nat
  BY <1>1
<1>3. Bytes(n, f) = [i \in 1 .. size |-> <<n, i>>]
  BY DEF Bytes
<1> HIDE DEF size
<1>4. [i \in 1 .. size |-> <<n, i>>] \in Seq({n} \X Nat) /\ Len([i \in 1 .. size |-> <<n, i>>]) = size
  BY <1>2
<1>5. \A i \in 1 .. size : [j \in 1 .. size |-> <<n, j>>][i] = <<n, i>>
  OBVIOUS
<1> QED
  BY <1>2, <1>3, <1>4, <1>5 DEF size

\* A frame that is sent adds bytes of its own.
LEMMA SendKeeps ==
  ASSUME CInv, Streams
  PROVE  CInv'
<1>1. PICK f \in UNION {k.frames : k \in Kind} :
             pc \notin {"request", "respond"} /\ Send(f) /\ UNCHANGED response
  BY DEF Streams
<1>2. /\ f \in kind.frames /\ Len(sent) < MaxFrames /\ sent' = Append(sent, f)
      /\ wire' = wire \o Bytes(Len(sent) + 1, f) /\ UNCHANGED <<kind, pc, next, buffer, m>>
  BY <1>1 DEF Send, handler
<1>3. /\ kind \in Kind /\ sent \in Seq(FrameType) /\ wire \in Seq(Arrived) /\ next \in Seq(Arrived)
      /\ buffer \in Seq(Arrived) /\ m \in Message /\ pc \in State /\ MaxFrames \in Nat
  BY StreamAssumption DEF CInv, Typed
<1>4. f \in FrameType
  <2>1. kind \in [type : Type, frames : SUBSET FrameType, hasty : BOOLEAN, splits : BOOLEAN]
    BY <1>3, StreamAssumption
  <2> QED
    BY <1>2, <2>1
<1>5. Len(sent) \in Nat
  BY <1>3, LenProperties
<1>6. sent' \in Seq(FrameType) /\ Len(sent') = Len(sent) + 1
  BY <1>2, <1>3, <1>4, AppendProperties
<1>7. Arrived \subseteq Arrived' /\ {Len(sent) + 1} \X Nat \subseteq Arrived'
  <2>1. 1 .. Len(sent) \subseteq 1 .. Len(sent') /\ Len(sent) + 1 \in 1 .. Len(sent')
    BY <1>5, <1>6
  <2> QED
    BY <2>1 DEF Arrived
<1> DEFINE A == Arrived'
<1>8. Arrived' = A
  OBVIOUS
<1> HIDE DEF A
<1>9. wire \in Seq(A) /\ next \in Seq(A) /\ buffer \in Seq(A)
  BY <1>3, <1>7, <1>8, SeqMonotonic
<1>10. Bytes(Len(sent) + 1, f) \in Seq(A)
  <2>1. Bytes(Len(sent) + 1, f) \in Seq({Len(sent) + 1} \X Nat)
    BY <1>4, <1>5, FrameBytes
  <2> QED
    BY <1>7, <1>8, <2>1, SeqMonotonic
<1>11. wire' \in Seq(A)
  BY <1>2, <1>9, <1>10, ConcatProperties
<1>12. m \in [len : Nat, msg : Seq(A \cup {Garbage}), next : Seq(A), op : Op \cup {"none"}]
  <2>1. /\ m.msg \in Seq(Arrived \cup {Garbage}) /\ m.next \in Seq(Arrived)
        /\ Arrived \cup {Garbage} \subseteq A \cup {Garbage} /\ Arrived \subseteq A
    BY <1>3, <1>7, <1>8 DEF Message
  <2>2. m.msg \in Seq(A \cup {Garbage})
    BY <2>1, SeqMonotonic
  <2>3. m.next \in Seq(A)
    BY <2>1, SeqMonotonic
  <2>4. m = [len |-> m.len, msg |-> m.msg, next |-> m.next, op |-> m.op] /\ m.len \in Nat /\ m.op \in Op \cup {"none"}
    BY <1>3 DEF Message
  <2> QED
    BY <2>2, <2>3, <2>4
<1>13. Message' = [len : Nat, msg : Seq(A \cup {Garbage}), next : Seq(A), op : Op \cup {"none"}]
  BY <1>8 DEF Message, Garbage
<1>14. m' \in Message'
  BY <1>2, <1>12, <1>13
<1>15. Len(sent') <= MaxFrames
  BY <1>2, <1>3, <1>5, <1>6
<1>16. Typed'
  BY <1>2, <1>3, <1>6, <1>8, <1>9, <1>11, <1>14, <1>15 DEF Typed
<1>17. Bounded'
  BY <1>2 DEF CInv, Bounded
<1>18. Answering'
  BY <1>1, <1>2 DEF Answering
<1> QED
  BY <1>16, <1>17, <1>18 DEF CInv

\* A client that goes takes bytes that have not arrived with it.
LEMMA HangupKeeps ==
  ASSUME CInv, Leaves
  PROVE  CInv'
<1>1. UNCHANGED <<kind, sent, pc, next, buffer, m, string, h, piece, memlen>>
  BY DEF Leaves, Hangup, handler, response
<1>2. PICK k \in 0 .. Smaller(MaxLost, Len(wire)) : wire' = SubSeq(wire, 1, Len(wire) - k)
  BY DEF Leaves, Hangup
<1>3. wire \in Seq(Arrived) /\ Len(wire) \in Nat /\ MaxLost \in Nat
  BY LenProperties, StreamAssumption DEF CInv, Typed
<1>4. Len(wire) - k \in 0 .. Len(wire)
  BY <1>3 DEF Smaller
<1>5. wire' \in Seq(Arrived)
  BY <1>2, <1>3, <1>4, FirstPart
<1>6. Arrived' = Arrived /\ Message' = Message
  BY <1>1 DEF Arrived, Message
<1>7. Typed'
  BY <1>1, <1>5, <1>6 DEF CInv, Typed
<1>8. Bounded'
  BY <1>1 DEF CInv, Bounded
<1>9. Answering'
  BY <1>1 DEF CInv, Answering, Request, Pieces, length, Opening, Origin, Location, Protocol, OriginSize, ProtocolSize
<1> QED
  BY <1>7, <1>8, <1>9 DEF CInv

\* A step that leaves frames and messages alone keeps their types and bounds.
LEMMA AnswerFrame ==
  ASSUME CInv, UNCHANGED <<client, next, buffer, m>>,
         pc \in {"request", "respond"}, pc' \in {"request", "respond", "read", "closed"}
  PROVE  Typed' /\ Bounded'
<1>1. UNCHANGED <<kind, sent, wire, next, buffer, m>>
  BY DEF client
<1>2. Arrived' = Arrived /\ Message' = Message
  BY <1>1 DEF Arrived, Message
<1>3. Typed'
  BY <1>1, <1>2 DEF CInv, Typed, State
<1>4. Bounded'
  BY <1>1 DEF CInv, Bounded
<1> QED
  BY <1>3, <1>4

\* The size of the answer, and how it is made, do not change while it is written.
LEMMA SameAnswer ==
  ASSUME UNCHANGED <<kind, h>>
  PROVE  Request' = Request /\ Pieces' = Pieces /\ length' = length
BY DEF Request, Pieces, length, Opening, Origin, Location, Protocol, OriginSize, ProtocolSize

\* The answer starts with nothing written.
LEMMA ReceiveKeeps ==
  ASSUME CInv, Receive
  PROVE  CInv'
<1>1. /\ pc = "request" /\ UNCHANGED <<client, next, buffer, m, piece, memlen>> /\ kind' = kind
      /\ pc' \in {"request", "respond", "closed"} /\ h' \in IF pc' = "respond" THEN Request ELSE {NoFields}
  BY DEF Receive, client
<1>2. Typed' /\ Bounded'
  BY <1>1, AnswerFrame
<1>3. piece' = 0 /\ memlen' = 0
  BY <1>1 DEF CInv, Answering
<1>4. Request' = Request
  BY <1>1 DEF Request
<1>5. \A f : Sums(Pieces', f, length') => f[0] = 0
  BY DEF Sums
<1>6. Answering'
  BY <1>1, <1>3, <1>4, <1>5 DEF Answering
<1> QED
  BY <1>2, <1>6 DEF CInv

\* A piece more is written.
LEMMA CopyKeeps ==
  ASSUME CInv, Copy
  PROVE  CInv'
<1>1. /\ pc = "respond" /\ piece < Len(Pieces) /\ piece' = piece + 1 /\ memlen' = memlen + Pieces[piece + 1]
      /\ UNCHANGED <<kind, h, client, next, buffer, m, pc>>
  BY DEF Copy, client, handler
<1>2. Typed' /\ Bounded'
  BY <1>1, AnswerFrame
<1>3. Request' = Request /\ Pieces' = Pieces /\ length' = length
  BY <1>1, SameAnswer
<1>4. /\ h \in Request /\ piece \in {0} \cup 1 .. Len(Pieces)
      /\ \A f : Sums(Pieces, f, length) => memlen = f[piece]
  BY <1>1 DEF CInv, Answering
<1>5. kind.type \in Type
  BY StreamAssumption DEF CInv, Typed
<1>6. Len(Pieces) \in Nat
  BY <1>4, <1>5, PiecesFit, LenProperties DEF Adds
<1>7. piece' \in 1 .. Len(Pieces) /\ piece' - 1 = piece
  BY <1>1, <1>4, <1>6
<1>8. ASSUME NEW f, Sums(Pieces, f, length) PROVE memlen' = f[piece']
  <2>1. f[piece'] = f[piece' - 1] + Pieces[piece']
    BY <1>7, <1>8 DEF Sums
  <2> QED
    BY <1>1, <1>4, <1>7, <1>8, <2>1
<1>9. Answering'
  BY <1>1, <1>3, <1>4, <1>7, <1>8 DEF Answering
<1> QED
  BY <1>2, <1>9 DEF CInv

\* The answer is whole.
LEMMA RespondKeeps ==
  ASSUME CInv, Respond
  PROVE  CInv'
<1>1. pc = "respond" /\ pc' \in {"read", "closed"} /\ UNCHANGED <<client, next, buffer, m>>
  BY DEF Respond
<1>2. Typed' /\ Bounded'
  BY <1>1, AnswerFrame
<1>3. Answering'
  BY <1>1 DEF Answering
<1> QED
  BY <1>2, <1>3 DEF CInv

-----------------------------------------------------------------------------
(* No memcpy and no recv writes behind its memory *)

\* The invariant of the sizes holds at first.
LEMMA CInvInit == Init => CInv
<1> SUFFICES ASSUME Init PROVE CInv
  OBVIOUS
<1>1. /\ kind \in Kind /\ sent = <<>> /\ wire = <<>> /\ pc = "request" /\ next = <<>> /\ buffer = <<>>
      /\ m = NewMessage /\ piece = 0 /\ memlen = 0
  BY DEF Init, NewClient
<1>2. m \in Message /\ m.next = <<>>
  BY <1>1 DEF Message, NewMessage
<1>3. Typed
  BY <1>1, <1>2, StreamAssumption DEF Typed, State
<1>4. Bounded
  BY <1>1, <1>2, StreamAssumption DEF Bounded
<1>5. Answering
  BY <1>1 DEF Answering
<1> QED
  BY <1>3, <1>4, <1>5 DEF CInv

\* Every step keeps it.
LEMMA CInvStep == CInv /\ [Next]_<<vars, response>> => CInv'
<1> SUFFICES ASSUME CInv, [Next]_<<vars, response>> PROVE CInv'
  OBVIOUS
<1>1. CASE Streams
  BY <1>1, SendKeeps
<1>2. CASE Leaves
  BY <1>2, HangupKeeps
<1>3. CASE Receive
  BY <1>3, ReceiveKeeps
<1>4. CASE ReceiveEnd \/ ReadEnd \/ Refuse \/ RestEnd \/ Fragment \/ Leave \/ Hixie
  <2>1. pc' \in {"closed", "crashed", "read"} /\ UNCHANGED <<client, next, buffer, m>>
    BY <1>4 DEF ReceiveEnd, ReadEnd, Refuse, RestEnd, Fragment, Leave, Hixie, Closed
  <2> QED
    BY <2>1, EndKeeps
<1>5. CASE Copy
  BY <1>5, CopyKeeps
<1>6. CASE Respond
  BY <1>6, RespondKeeps
<1>7. CASE Read
  BY <1>7, ReadKeeps
<1>8. CASE Parse
  BY <1>8, ParseKeeps
<1>9. CASE Rest
  BY <1>9, RestKeeps
<1>10. CASE Handle
  BY <1>10, HandleKeeps
<1>11. CASE HybiRead \/ HybiRest
  BY <1>11, HybiKeeps
<1>12. CASE UNCHANGED <<vars, response>>
  <2>1. UNCHANGED <<kind, sent, wire, next, buffer, m, pc, h, piece, memlen>>
    BY <1>12 DEF vars, response
  <2>2. Arrived' = Arrived /\ Message' = Message
    BY <2>1 DEF Arrived, Message
  <2>3. Request' = Request /\ Pieces' = Pieces /\ length' = length
    BY <2>1, SameAnswer
  <2>4. Typed'
    BY <2>1, <2>2 DEF CInv, Typed
  <2>5. Bounded'
    BY <2>1 DEF CInv, Bounded
  <2>6. Answering'
    BY <2>1, <2>3 DEF CInv, Answering
  <2> QED
    BY <2>4, <2>5, <2>6 DEF CInv
<1> QED
  BY <1>1, <1>2, <1>3, <1>4, <1>5, <1>6, <1>7, <1>8, <1>9, <1>10, <1>11, <1>12 DEF Next, Handles, HandlerNext

\* What is written of a message fits its length, or it is a later fragment that
\* more bytes came with.
Held == kind.type = "RFC6455" => Len(m.msg) <= m.len \/ Crowded

\* It fits after a step that writes what fits.
LEMMA HeldFits ==
  ASSUME CInv, Held, Parse \/ Rest \/ Handle
  PROVE  Held'
<1>1. m.len \in Nat /\ pc # "closed" /\ pc # "crashed"
  BY DEF CInv, Typed, Message, Parse, Rest, Handle
<1>2. CASE Parse
  <2>1. PICK body \in Seq(Arrived), copied \in Nat :
           /\ Len(body) = Len(buffer) - Head1.skip
           /\ copied <= Len(body) /\ copied <= Total
           /\ m'.len = Total /\ Len(m'.msg) = m.len + copied
           /\ pc' \in CASE m.len + copied < Total -> {"rest"}
                        [] m.len + copied = Total -> {"done"}
                        [] m.len + copied > Total -> {"closed", "crashed"}
    BY <1>2, ParseMessage
  <2>2. buffer \in Seq(Arrived) /\ buffer # <<>> /\ sent' = sent /\ buffer' = buffer
    BY <1>2 DEF CInv, Typed, Bounded, Parse, client
  <2>3. Head1.skip \in Nat /\ Head1.len \in Nat /\ Head1' = Head1 /\ Len(buffer) \in Nat
    <3>1. Len(buffer) \in Nat /\ 1 \in 1 .. Len(buffer)
      BY <2>2, EmptySeq, LenProperties
    <3>2. Head1.skip \in {1, 6, 8, 14} /\ Head1.len \in Nat
      BY <2>2, <3>1, FrameOfByte DEF Head1, CInv
    <3> QED
      BY <2>2, <3>1, <3>2 DEF Head1, FrameOf
  <2>4. Total = m.len + Head1.len
    BY DEF Total
  <2>5. CASE m.len + copied <= Total
    BY <2>1, <2>5 DEF Held
  <2>6. CASE m.len + copied > Total
    <3>1. copied > Head1.len /\ m.len > 0
      BY <1>1, <2>1, <2>3, <2>4, <2>6
    <3>2. Len(buffer) > Head1.skip + Head1.len /\ m'.len > Head1.len
      BY <1>1, <2>1, <2>3, <2>4, <3>1
    <3>3. pc' \in {"closed", "crashed"}
      BY <1>1, <2>1, <2>3, <2>4, <2>6
    <3>4. Crowded'
      BY <2>2, <2>3, <3>2, <3>3 DEF Crowded, Ended
    <3> QED
      BY <3>4 DEF Held
  <2>7. m.len + copied <= Total \/ m.len + copied > Total
    BY <1>1, <2>1, <2>3, <2>4
  <2> QED
    BY <2>5, <2>6, <2>7
<1>3. CASE Rest
  <2>1. PICK k \in Nat : /\ Len(m'.msg) = Len(m.msg) + Smaller(k, m.len - Len(m.msg))
                         /\ m'.len = m.len
    BY <1>3, RestMessage
  <2>2. Len(m.msg) < m.len /\ Len(m.msg) \in Nat
    <3>1. m.msg \in Seq(Arrived \cup {Garbage}) /\ Len(m.msg) < m.len
      BY <1>3 DEF CInv, Typed, Bounded, Message, Rest
    <3> QED
      BY <3>1, LenProperties
  <2>3. Len(m'.msg) <= m'.len
    BY <1>1, <2>1, <2>2 DEF Smaller
  <2> QED
    BY <2>3 DEF Held
<1>4. CASE Handle
  <2>1. m' = NewMessage
    BY <1>4 DEF Handle
  <2>2. Len(m'.msg) = 0 /\ m'.len = 0
    BY <2>1 DEF NewMessage
  <2> QED
    BY <2>2 DEF Held
<1> QED
  BY <1>2, <1>3, <1>4

\* Every step keeps it.
LEMMA HeldStep == CInv /\ Held /\ [Next]_<<vars, response>> => Held'
<1> SUFFICES ASSUME CInv, Held, [Next]_<<vars, response>>, kind'.type = "RFC6455"
             PROVE  Held'
  BY DEF Held
<1>1. CASE Streams
  <2>1. PICK f \in UNION {k.frames : k \in Kind} : Send(f)
    BY <1>1 DEF Streams
  <2>2. UNCHANGED <<kind, pc, buffer, m>> /\ sent' = Append(sent, f)
    BY <2>1 DEF Send, handler
  <2>3. CASE buffer = <<>>
    <3>1. ~Crowded
      BY <2>3 DEF Crowded
    <3> QED
      BY <2>2, <3>1 DEF Held
  <2>4. CASE buffer # <<>>
    <3>1. buffer \in Seq(Arrived) /\ sent \in Seq(FrameType)
      BY DEF CInv, Typed
    <3>2. Len(buffer) \in Nat /\ 1 \in 1 .. Len(buffer)
      BY <2>4, <3>1, EmptySeq, LenProperties
    <3>3. buffer[1][1] \in 1 .. Len(sent)
      BY <3>1, <3>2, FrameOfByte DEF CInv
    <3>4. sent'[buffer[1][1]] = sent[buffer[1][1]]
      <4> DEFINE n == buffer[1][1]
      <4>1. n \in 1 .. Len(sent)
        BY <3>3
      <4> HIDE DEF n
      <4>2. sent'[n] = sent[n]
        BY <2>2, <3>1, <4>1
      <4> QED
        BY <4>2 DEF n
    <3>5. Head1' = Head1
      BY <2>2, <3>4 DEF Head1, FrameOf
    <3> QED
      BY <2>2, <3>5 DEF Held, Crowded, Ended
  <2> QED
    BY <2>3, <2>4
<1>2. CASE Parse \/ Rest \/ Handle
  BY <1>2, HeldFits
<1>3. CASE Read
  <2>1. pc = "read" /\ kind' = kind /\ m'.len = m.len /\ m'.msg = m.msg
    BY <1>3 DEF Read, CInv, Typed, Message
  <2>2. ~Crowded
    BY <2>1 DEF Crowded, Ended
  <2> QED
    BY <2>1, <2>2 DEF Held
<1>4. CASE HybiRead \/ HybiRest
  <2>1. kind.type = "HYBI00" /\ kind' = kind
    BY <1>4 DEF HybiRead, HybiRest, CInv, Bounded
  <2> QED
    BY <2>1
<1>5. CASE ReceiveEnd \/ ReadEnd \/ Refuse \/ RestEnd \/ Fragment \/ Leave \/ Hixie \/ Receive \/ Copy \/ Respond
  <2>1. UNCHANGED <<kind, sent, buffer, m>> /\ pc \notin {"closed", "crashed"}
    BY <1>5 DEF ReceiveEnd, ReadEnd, Refuse, RestEnd, Fragment, Leave, Hixie, Closed, Receive, Copy, Respond, client, handler
  <2>2. ~Crowded
    BY <2>1 DEF Crowded, Ended
  <2> QED
    BY <2>1, <2>2 DEF Held
<1>6. CASE Leaves \/ UNCHANGED <<vars, response>>
  <2>1. UNCHANGED <<kind, sent, pc, buffer, m>>
    BY <1>6 DEF Leaves, Hangup, handler, vars
  <2>2. Head1' = Head1
    BY <2>1 DEF Head1, FrameOf
  <2> QED
    BY <2>1, <2>2 DEF Held, Crowded, Ended
<1> QED
  BY <1>1, <1>2, <1>3, <1>4, <1>5, <1>6 DEF Next, Handles, HandlerNext

\* The bytes of the answer that are written are at most its size.
LEMMA CInvFits == CInv /\ Held => Fits
<1> SUFFICES ASSUME CInv, Held PROVE Fits
  OBVIOUS
<1>1. ASSUME pc = "respond" PROVE memlen <= length
  <2>1. kind.type \in Type
    BY StreamAssumption DEF CInv, Typed
  <2>2. h \in Request /\ piece \in {0} \cup 1 .. Len(Pieces)
    BY <1>1 DEF CInv, Answering
  <2>3. PICK f : Pieces \in Seq(Nat) /\ length \in Nat /\ Sums(Pieces, f, length)
    BY <2>1, <2>2, PiecesFit DEF Adds
  <2>4. piece \in 0 .. Len(Pieces)
    BY <2>2, <2>3, LenProperties
  <2>5. f[piece] \in 0 .. length
    BY <2>3, <2>4 DEF Sums
  <2>6. memlen = f[piece]
    BY <1>1, <2>3 DEF CInv, Answering
  <2> QED
    BY <2>3, <2>5, <2>6
<1> QED
  BY <1>1 DEF CInv, Bounded, Held, Fits

\* Spec keeps the answer to a handshake, the bytes carried over from frame to frame
\* and the message that is put together within the memory they were given
\* (sendHandshake, communicate, parseMessage, getRemainingMessage), but for the copy
\* of a later fragment that more bytes came with.
THEOREM FitsHolds == Spec => []Fits
<1>1. Init => CInv /\ Held
  BY CInvInit DEF Init, NewMessage, Held
<1>2. CInv /\ Held /\ [Next]_<<vars, response>> => (CInv /\ Held)'
  BY CInvStep, HeldStep
<1>3. Spec => [](CInv /\ Held)
  BY <1>1, <1>2, PTL DEF Spec
<1> QED
  BY <1>3, CInvFits, PTL
-----------------------------------------------------------------------------
(* The stream: the place of every byte among those the client has sent *)

\* The bytes of a frame.
Size(f) == f.skip + f.len + IF f.skip = 1 THEN 1 ELSE 0

\* o[n] bytes are sent before the n-th of the frames fr.
Offsets(fr, o) ==
  /\ o \in [1 .. Len(fr) + 1 -> Nat] /\ o[1] = 0
  /\ \A n \in 1 .. Len(fr) : o[n + 1] = o[n] + Size(fr[n])
  /\ \A a, b \in 1 .. Len(fr) + 1 : a <= b => o[a] <= o[b]

\* A byte is the p-th of all; a sequence of bytes are those behind the p-th.
At(fr, o, byte, p) == \E n \in 1 .. Len(fr) : \E i \in 1 .. Size(fr[n]) : byte = <<n, i>> /\ p = o[n] + i
Run(fr, o, s, p)   == \A j \in 1 .. Len(s) : At(fr, o, s[j], p + j)

\* A frame's size is that of its header and its payload, with the 0xFF of hybi-00.
LEMMA SizeNat ==
  ASSUME NEW f \in FrameType
  PROVE  /\ Size(f) \in Nat /\ f.skip \in Nat /\ f.len \in Nat /\ f.skip >= 1
         /\ Size(f) >= f.skip + f.len /\ Size(f) > f.skip - 1 /\ Size(f) >= 2
         /\ f.skip = 1 => Size(f) = f.len + 2
         /\ f.skip # 1 => Size(f) = f.skip + f.len
<1>1. f.skip \in {1, 6, 8, 14} /\ f.len \in Nat
  BY DEF FrameType
<1> QED
  BY <1>1 DEF Size

\* The places within a frame hold its bytes.
LEMMA ByteAt ==
  ASSUME NEW fr \in Seq(FrameType), NEW o, Offsets(fr, o), NEW n \in 1 .. Len(fr), NEW byte, NEW p \in Nat,
         At(fr, o, byte, p), o[n] < p, p <= o[n + 1]
  PROVE  byte = <<n, p - o[n]>> /\ p - o[n] \in 1 .. Size(fr[n])
<1>1. PICK a \in 1 .. Len(fr) : \E i \in 1 .. Size(fr[a]) : byte = <<a, i>> /\ p = o[a] + i
  BY DEF At
<1>2. PICK i \in 1 .. Size(fr[a]) : byte = <<a, i>> /\ p = o[a] + i
  BY <1>1
<1>3. Len(fr) \in Nat /\ Size(fr[a]) \in Nat
  BY LenProperties, ElementOfSeq, SizeNat
<1>4. /\ o[a] \in Nat /\ o[n] \in Nat /\ o[a + 1] \in Nat /\ o[n + 1] \in Nat
      /\ o[a + 1] = o[a] + Size(fr[a]) /\ o[n + 1] = o[n] + Size(fr[n])
      /\ (a + 1 <= n => o[a + 1] <= o[n]) /\ (n + 1 <= a => o[n + 1] <= o[a])
  <2>1. a \in 1 .. Len(fr) + 1 /\ n \in 1 .. Len(fr) + 1 /\ a + 1 \in 1 .. Len(fr) + 1 /\ n + 1 \in 1 .. Len(fr) + 1
    BY <1>3
  <2>2. o \in [1 .. Len(fr) + 1 -> Nat] /\ \A c, d \in 1 .. Len(fr) + 1 : c <= d => o[c] <= o[d]
    BY DEF Offsets
  <2>3. o[a + 1] = o[a] + Size(fr[a]) /\ o[n + 1] = o[n] + Size(fr[n])
    BY DEF Offsets
  <2> QED
    BY <2>1, <2>2, <2>3
<1>5. a = n
  <2>1. ~(a + 1 <= n)
    BY <1>2, <1>3, <1>4
  <2>2. ~(n + 1 <= a)
    BY <1>2, <1>3, <1>4
  <2> QED
    BY <2>1, <2>2
<1>6. p - o[n] = i
  BY <1>2, <1>3, <1>4, <1>5
<1> QED
  BY <1>2, <1>5, <1>6

\* The bytes behind the q-th of a frame, as far as they are of that frame.
LEMMA RunFrame ==
  ASSUME NEW fr \in Seq(FrameType), NEW o, Offsets(fr, o), NEW n \in 1 .. Len(fr), NEW q \in Nat,
         NEW s, Len(s) \in Nat, Run(fr, o, s, o[n] + q)
  PROVE  \A j \in 1 .. Len(s) : q + j <= Size(fr[n]) => s[j] = <<n, q + j>>
<1> SUFFICES ASSUME NEW j \in 1 .. Len(s), q + j <= Size(fr[n]) PROVE s[j] = <<n, q + j>>
  OBVIOUS
<1>1. Len(fr) \in Nat /\ Size(fr[n]) \in Nat
  BY LenProperties, ElementOfSeq, SizeNat
<1>2. o[n] \in Nat /\ o[n + 1] = o[n] + Size(fr[n])
  BY <1>1 DEF Offsets
<1>3. At(fr, o, s[j], o[n] + q + j)
  BY DEF Run
<1> DEFINE p == o[n] + q + j
<1>4. p \in Nat /\ o[n] < p /\ p <= o[n + 1] /\ p - o[n] = q + j
  BY <1>1, <1>2
<1> HIDE DEF p
<1>5. At(fr, o, s[j], p)
  BY <1>3 DEF p
<1>6. s[j] = <<n, p - o[n]>>
  BY <1>4, <1>5, ByteAt
<1> QED
  BY <1>4, <1>6

\* There is no byte behind the last frame.
LEMMA RunWithin ==
  ASSUME NEW fr \in Seq(FrameType), NEW o, Offsets(fr, o), NEW p \in Nat, NEW s, Len(s) \in Nat,
         Run(fr, o, s, p), Len(s) > 0
  PROVE  p + Len(s) <= o[Len(fr) + 1] /\ \A n \in 1 .. Len(fr) + 1 : p >= o[n] => n <= Len(fr)
<1>1. Len(fr) \in Nat /\ Len(s) \in 1 .. Len(s)
  BY LenProperties
<1>2. PICK a \in 1 .. Len(fr) : \E i \in 1 .. Size(fr[a]) : s[Len(s)] = <<a, i>> /\ p + Len(s) = o[a] + i
  BY <1>1 DEF Run, At
<1>3. PICK i \in 1 .. Size(fr[a]) : p + Len(s) = o[a] + i
  BY <1>2
<1>4. Size(fr[a]) \in Nat
  BY <1>1, ElementOfSeq, SizeNat
<1>5. /\ o[a] \in Nat /\ o[a + 1] = o[a] + Size(fr[a]) /\ o[a + 1] <= o[Len(fr) + 1] /\ o[Len(fr) + 1] \in Nat
      /\ \A n \in 1 .. Len(fr) + 1 : o[n] \in Nat
  <2>1. a \in 1 .. Len(fr) + 1 /\ a + 1 \in 1 .. Len(fr) + 1 /\ Len(fr) + 1 \in 1 .. Len(fr) + 1 /\ a + 1 <= Len(fr) + 1
    BY <1>1
  <2>2. o \in [1 .. Len(fr) + 1 -> Nat] /\ \A c, d \in 1 .. Len(fr) + 1 : c <= d => o[c] <= o[d]
    BY DEF Offsets
  <2>3. o[a + 1] = o[a] + Size(fr[a])
    BY DEF Offsets
  <2> QED
    BY <2>1, <2>2, <2>3
<1>6. p + Len(s) <= o[Len(fr) + 1]
  BY <1>3, <1>4, <1>5
<1>7. ASSUME NEW n \in 1 .. Len(fr) + 1, p >= o[n] PROVE n <= Len(fr)
  <2>1. o[n] \in Nat /\ o[n] < o[Len(fr) + 1]
    BY <1>5, <1>6, <1>7
  <2> QED
    BY <1>1, <2>1
<1> QED
  BY <1>6, <1>7

\* Each part of a run of bytes is one.
LEMMA RunParts ==
  ASSUME NEW fr, NEW o, NEW S, NEW s \in Seq(S), NEW p \in Nat, NEW b \in 0 .. Len(s), Run(fr, o, s, p)
  PROVE  Run(fr, o, SubSeq(s, 1, b), p) /\ Run(fr, o, SubSeq(s, b + 1, Len(s)), p + b)
<1>1. Len(s) \in Nat /\ b \in Nat
  BY LenProperties
<1> DEFINE first == SubSeq(s, 1, b)
           last  == SubSeq(s, b + 1, Len(s))
<1>2. Len(first) = b /\ \A j \in 1 .. b : first[j] = s[j]
  BY FirstPart
<1>3. Len(last) = Len(s) - b /\ \A j \in 1 .. Len(s) - b : last[j] = s[b + j]
  BY LastPart
<1> HIDE DEF first, last
<1>4. Run(fr, o, first, p)
  <2> SUFFICES ASSUME NEW j \in 1 .. Len(first) PROVE At(fr, o, first[j], p + j)
    BY DEF Run
  <2>1. j \in 1 .. Len(s) /\ first[j] = s[j]
    BY <1>1, <1>2
  <2> QED
    BY <2>1 DEF Run
<1>5. ASSUME NEW j \in 1 .. Len(last) PROVE At(fr, o, last[j], (p + b) + j)
  <2>1. b + j \in 1 .. Len(s) /\ p + (b + j) = (p + b) + j
    BY <1>1, <1>3
  <2>2. At(fr, o, s[b + j], p + (b + j))
    BY <2>1 DEF Run
  <2> QED
    BY <1>3, <2>1, <2>2
<1>6. Run(fr, o, last, p + b)
  BY <1>5 DEF Run
<1> QED
  BY <1>4, <1>6 DEF first, last

\* Two runs that meet are one.
LEMMA RunBoth ==
  ASSUME NEW fr, NEW o, NEW S, NEW s \in Seq(S), NEW t \in Seq(S), NEW p \in Nat,
         Run(fr, o, s, p), Run(fr, o, t, p + Len(s))
  PROVE  Run(fr, o, s \o t, p)
<1>1. Len(s) \in Nat /\ Len(t) \in Nat
  BY LenProperties
<1> DEFINE both == s \o t
<1>2. Len(both) = Len(s) + Len(t) /\ \A j \in 1 .. Len(s) + Len(t) : both[j] = IF j <= Len(s) THEN s[j] ELSE t[j - Len(s)]
  BY ConcatProperties
<1> HIDE DEF both
<1>3. ASSUME NEW j \in 1 .. Len(both) PROVE At(fr, o, both[j], p + j)
  <2>1. CASE j <= Len(s)
    BY <1>1, <1>2, <2>1 DEF Run
  <2>2. CASE ~(j <= Len(s))
    <3>1. j - Len(s) \in 1 .. Len(t) /\ (p + Len(s)) + (j - Len(s)) = p + j
      BY <1>1, <1>2, <2>2
    <3>2. At(fr, o, t[j - Len(s)], (p + Len(s)) + (j - Len(s)))
      BY <3>1 DEF Run
    <3> QED
      BY <1>1, <1>2, <2>2, <3>1, <3>2
  <2> QED
    BY <2>1, <2>2
<1> QED
  BY <1>3 DEF Run, both

\* A frame more: the places of the bytes before it stay, and its own bytes follow.
LEMMA FrameMore ==
  ASSUME NEW fr \in Seq(FrameType), NEW o, Offsets(fr, o), NEW f \in FrameType
  PROVE  \E o2 : /\ Offsets(Append(fr, f), o2)
                 /\ \A byte, p : At(fr, o, byte, p) => At(Append(fr, f), o2, byte, p)
                 /\ \A n \in 1 .. Len(fr) + 1 : o2[n] = o[n]
                 /\ Run(Append(fr, f), o2, Bytes(Len(fr) + 1, f), o[Len(fr) + 1])
                 /\ o2[Len(fr) + 2] = o[Len(fr) + 1] + Len(Bytes(Len(fr) + 1, f))
<1> DEFINE more == Append(fr, f)
           N    == Len(fr)
           o2   == [n \in 1 .. N + 2 |-> IF n <= N + 1 THEN o[n] ELSE o[N + 1] + Size(f)]
           b    == Bytes(N + 1, f)
<1>1. N \in Nat /\ Size(f) \in Nat
  BY LenProperties, SizeNat
<1>2. more \in Seq(FrameType) /\ Len(more) = N + 1 /\ (\A n \in 1 .. N : more[n] = fr[n]) /\ more[N + 1] = f
  BY AppendProperties
<1>3. Len(b) = Size(f) /\ \A i \in 1 .. Size(f) : b[i] = <<N + 1, i>>
  <2>1. N + 1 \in Nat
    BY <1>1
  <2>2. Len(Bytes(N + 1, f)) = Size(f) /\ \A i \in 1 .. Size(f) : Bytes(N + 1, f)[i] = <<N + 1, i>>
    <3> HIDE DEF N
    <3> QED
      BY <2>1, FrameBytes DEF Size
  <2> QED
    BY <2>2
<1>4. /\ \A n \in 1 .. N + 1 : o[n] \in Nat
      /\ \A n \in 1 .. N : o[n + 1] = o[n] + Size(fr[n])
      /\ \A c, d \in 1 .. N + 1 : c <= d => o[c] <= o[d]
      /\ o[1] = 0
  BY <1>1 DEF Offsets
<1> HIDE DEF more, N, b
<1>5. \A n \in 1 .. N + 1 : o2[n] = o[n]
  BY <1>1
<1>6. o2[N + 2] = o[N + 1] + Size(f)
  BY <1>1
<1>7. o2 \in [1 .. N + 2 -> Nat]
  BY <1>1, <1>4
<1> HIDE DEF o2
<1>8. Offsets(more, o2)
  <2>1. Len(more) + 1 = N + 2
    BY <1>1, <1>2
  <2>2. o2[1] = 0
    BY <1>1, <1>4, <1>5
  <2>3. ASSUME NEW n \in 1 .. Len(more) PROVE o2[n + 1] = o2[n] + Size(more[n])
    <3>1. CASE n <= N
      BY <1>1, <1>2, <1>4, <1>5, <2>1, <3>1
    <3>2. CASE n = N + 1
      BY <1>1, <1>2, <1>4, <1>5, <1>6, <3>2
    <3> QED
      BY <1>1, <1>2, <3>1, <3>2
  <2>4. ASSUME NEW c \in 1 .. Len(more) + 1, NEW d \in 1 .. Len(more) + 1, c <= d PROVE o2[c] <= o2[d]
    <3>1. CASE d <= N + 1
      BY <1>1, <1>4, <1>5, <2>1, <2>4, <3>1
    <3>2. CASE d = N + 2 /\ c <= N + 1
      <4>1. o[c] <= o[N + 1] /\ o[c] \in Nat /\ o[N + 1] \in Nat
        BY <1>1, <1>4, <2>1, <3>2
      <4> QED
        BY <1>1, <1>5, <1>6, <2>1, <3>2, <4>1
    <3>3. CASE d = N + 2 /\ c = N + 2
      BY <1>1, <1>7, <3>3
    <3> QED
      BY <1>1, <2>1, <2>4, <3>1, <3>2, <3>3
  <2> QED
    BY <1>7, <2>1, <2>2, <2>3, <2>4 DEF Offsets
<1>9. ASSUME NEW byte, NEW p, At(fr, o, byte, p) PROVE At(more, o2, byte, p)
  <2>1. PICK n \in 1 .. N : \E i \in 1 .. Size(fr[n]) : byte = <<n, i>> /\ p = o[n] + i
    BY <1>9 DEF At, N
  <2>2. n \in 1 .. Len(more) /\ more[n] = fr[n] /\ o2[n] = o[n]
    BY <1>1, <1>2, <1>5
  <2> QED
    BY <2>1, <2>2 DEF At
<1>10. Run(more, o2, b, o[N + 1])
  <2> SUFFICES ASSUME NEW j \in 1 .. Len(b) PROVE At(more, o2, b[j], o[N + 1] + j)
    BY DEF Run
  <2>1. N + 1 \in 1 .. Len(more) /\ more[N + 1] = f /\ o2[N + 1] = o[N + 1]
    BY <1>1, <1>2, <1>5
  <2>2. j \in 1 .. Size(f) /\ b[j] = <<N + 1, j>>
    BY <1>3
  <2> QED
    BY <2>1, <2>2 DEF At
<1>11. o2[N + 2] = o[N + 1] + Len(b)
  BY <1>3, <1>6
<1> QED
  BY <1>5, <1>8, <1>9, <1>10, <1>11 DEF more, b, N
-----------------------------------------------------------------------------
(* Clients that send whole frames and, of hybi-00, wait: the place of the  *)
(* handler in the stream                                                   *)

Plain == OneFrame /\ Waits

\* What the clients send; one that waits has at most one frame unanswered.
Clients == /\ \A j \in 1 .. Len(sent) : sent[j] \in kind.frames /\ (OneFrame => sent[j].op # "cont")
           /\ kind.type = "HYBI00" /\ ~kind.hasty => Len(sent) <= Len(got) + 1

\* The frame the handler is at, or that it waits for.
Now == Len(got) + 1

\* The bytes of the n-th frame behind its first skip.
Begins(n, skip, msg) == \A i \in 1 .. Len(msg) : msg[i] = <<n, skip + i>>

\* The bytes not yet received are those behind the first pos; none is lost before
\* the client hangs up.
Stream(o, pos) == /\ Offsets(sent, o) /\ pos \in Nat /\ Run(sent, o, wire, pos)
                  /\ ~eof => pos + Len(wire) = o[Len(sent) + 1]

\* What the handler has of the frame it is at, and of the next ones.
AtRequest(pos) == pos = 0 /\ sent = <<>> /\ next = <<>> /\ m = NewMessage /\ got = <<>>
AtRead(o, pos) == /\ m = NewMessage /\ Run(sent, o, next, o[Now]) /\ pos = o[Now] + Len(next)
                  /\ kind.type = "HYBI00" => next = <<>>
AtParse(o, pos) == /\ Now <= Len(sent) /\ m.len = 0 /\ m.next = <<>> /\ m.op = sent[Now].op
                   /\ Run(sent, o, buffer, o[Now]) /\ pos = o[Now] + Len(buffer)
                   /\ ~kind.splits /\ Len(buffer) < sent[Now].skip => eof
AtRest(o, pos) == /\ Now <= Len(sent) /\ m.next = <<>> /\ m.op = sent[Now].op
                  /\ Begins(Now, sent[Now].skip, m.msg) /\ pos = o[Now] + sent[Now].skip + Len(m.msg)
AtDone(o, pos) == /\ Now <= Len(sent) /\ m.op = sent[Now].op
                  /\ Begins(Now, sent[Now].skip, m.msg) /\ Len(m.msg) = sent[Now].len
                  /\ Run(sent, o, m.next, o[Now + 1]) /\ pos = o[Now + 1] + Len(m.next)
                  /\ kind.type = "HYBI00" => m.next = <<>>

Place(o, pos) == /\ pc \in {"request", "respond"} => AtRequest(pos)
                 /\ pc = "read" => AtRead(o, pos)
                 /\ pc = "parse" => AtParse(o, pos)
                 /\ pc \in {"rest", "more"} => AtRest(o, pos)
                 /\ pc = "rest" => m.len = sent[Now].len
                 /\ pc = "more" => m.op = "text" /\ Len(m.msg) <= sent[Now].len
                 /\ pc = "done" => AtDone(o, pos)
                 /\ pc \in {"rest", "more", "done"} => buffer # <<>>

\* What was handled are the payloads of the first frames, which are texts.
Handled == /\ got \in Seq(Seq(Byte)) /\ Len(got) <= Len(sent)
           /\ \A j \in 1 .. Len(got) : sent[j].op = "text" /\ got[j] = Payload(j, sent[j])

\* The connection ends for a reason.
Reason == \/ eof \/ kind.type = "HIXIE75" \/ FillsBuffer
          \/ \E n \in DOMAIN sent : sent[n].op \notin {"text", "cont"} \/ TooLong(sent[n])

\* Of the request a whole number of buffers has come when the network cuts nothing.
Asked == pc = "request" => /\ string \in Nat
                           /\ ~kind.splits => \E q \in Nat : string = q * BUFFERSIZE

Faithful == /\ Handled /\ Asked /\ (Ended /\ ~kind.splits => Reason)
            /\ \E o, pos : Stream(o, pos) /\ Place(o, pos)

SInv == CInv /\ (Plain => Clients /\ Faithful)

\* A frame that was sent.
LEMMA SentFrame ==
  ASSUME CInv, Clients, NEW n \in 1 .. Len(sent)
  PROVE  /\ sent[n] \in FrameType /\ sent[n].skip \in {1, 6, 8, 14} /\ sent[n].len \in Nat
         /\ sent[n].op \in Op /\ sent[n] \in kind.frames
         /\ kind.type = "HYBI00" <=> sent[n].skip = 1
         /\ kind.type = "HYBI00" => sent[n].op \in {"text", "close"}
         /\ OneFrame => sent[n].fin /\ sent[n].op # "cont"
         /\ Size(sent[n]) \in Nat /\ Size(sent[n]) >= sent[n].skip + sent[n].len /\ Size(sent[n]) >= 2
         /\ kind.type = "HYBI00" => Size(sent[n]) = sent[n].len + 2
         /\ kind.type # "HYBI00" => Size(sent[n]) = sent[n].skip + sent[n].len
<1>1. sent[n] \in FrameType /\ kind \in Kind
  BY ElementOfSeq DEF CInv, Typed
<1>2. sent[n] \in kind.frames /\ (OneFrame => sent[n].fin /\ sent[n].op # "cont")
  BY DEF Clients, OneFrame
<1>3. /\ kind.type = "HYBI00" <=> sent[n].skip = 1
      /\ kind.type = "HYBI00" => sent[n].op \in {"text", "close"}
  BY <1>1, <1>2, StreamAssumption
<1>4. sent[n].skip \in {1, 6, 8, 14} /\ sent[n].len \in Nat /\ sent[n].op \in Op
  BY <1>1 DEF FrameType
<1>5. /\ Size(sent[n]) \in Nat /\ Size(sent[n]) >= sent[n].skip + sent[n].len /\ Size(sent[n]) >= 2
      /\ sent[n].skip = 1 => Size(sent[n]) = sent[n].len + 2
      /\ sent[n].skip # 1 => Size(sent[n]) = sent[n].skip + sent[n].len
  BY <1>1, SizeNat
<1> QED
  BY <1>1, <1>2, <1>3, <1>4, <1>5

\* Offsets of frames and their ends.
LEMMA OffsetNat ==
  ASSUME CInv, Clients, NEW o, Offsets(sent, o), NEW n \in 1 .. Len(sent)
  PROVE  /\ o[n] \in Nat /\ o[n + 1] \in Nat /\ o[n + 1] = o[n] + Size(sent[n])
         /\ \A a \in 1 .. Len(sent) + 1 : o[a] \in Nat /\ (a <= n => o[a] <= o[n]) /\ (n < a => o[n + 1] <= o[a])
         /\ o[Len(sent) + 1] \in Nat /\ o[n + 1] <= o[Len(sent) + 1]
<1>1. Len(sent) \in Nat
  BY LenProperties DEF CInv, Typed
<1>2. o \in [1 .. Len(sent) + 1 -> Nat] /\ \A c, d \in 1 .. Len(sent) + 1 : c <= d => o[c] <= o[d]
  BY DEF Offsets
<1>3. o[n + 1] = o[n] + Size(sent[n])
  BY DEF Offsets
<1>4. n \in 1 .. Len(sent) + 1 /\ n + 1 \in 1 .. Len(sent) + 1 /\ Len(sent) + 1 \in 1 .. Len(sent) + 1 /\ n + 1 <= Len(sent) + 1
  BY <1>1
<1>5. \A a \in 1 .. Len(sent) + 1 : n < a => n + 1 <= a
  BY <1>1
<1> QED
  BY <1>2, <1>3, <1>4, <1>5

\* What is received is taken from the bytes on their way.
LEMMA WireOn ==
  ASSUME CInv, NEW o, NEW pos, Stream(o, pos), NEW room \in Nat, NEW k \in Chunks(room),
         wire' = SubSeq(wire, k + 1, Len(wire)), UNCHANGED <<sent, eof>>
  PROVE  /\ Stream(o, pos + k)' /\ Run(sent, o, SubSeq(wire, 1, k), pos)
         /\ k \in Nat /\ k >= 1 /\ k <= room /\ k <= Len(wire) /\ Len(wire) \in Nat
         /\ SubSeq(wire, 1, k) \in Seq(Arrived) /\ Len(SubSeq(wire, 1, k)) = k
         /\ \A j \in 1 .. k : SubSeq(wire, 1, k)[j] = wire[j]
<1>1. wire \in Seq(Arrived) /\ Len(wire) \in Nat /\ pos \in Nat
  BY LenProperties DEF CInv, Typed, Stream
<1>2. /\ k \in Nat /\ k >= 1 /\ k <= room /\ k <= Len(wire)
      /\ SubSeq(wire, 1, k) \in Seq(Arrived) /\ Len(SubSeq(wire, 1, k)) = k
      /\ \A j \in 1 .. k : SubSeq(wire, 1, k)[j] = wire[j]
      /\ Len(SubSeq(wire, k + 1, Len(wire))) = Len(wire) - k
  BY <1>1, WireRest
<1>3. k \in 0 .. Len(wire)
  BY <1>1, <1>2
<1>4. Run(sent, o, SubSeq(wire, 1, k), pos) /\ Run(sent, o, SubSeq(wire, k + 1, Len(wire)), pos + k)
  BY <1>1, <1>3, RunParts DEF Stream
<1> DEFINE rest == SubSeq(wire, k + 1, Len(wire))
           end  == o[Len(sent) + 1]
<1>5. wire' = rest /\ sent' = sent /\ eof' = eof /\ Len(rest) = Len(wire) - k /\ Run(sent, o, rest, pos + k)
  BY <1>2, <1>4
<1> HIDE DEF rest, end
<1>6. ~eof => pos + k + Len(rest) = end
  <2>1. ~eof => pos + Len(wire) = end
    BY DEF Stream, end
  <2>2. pos + k + Len(rest) = pos + Len(wire)
    BY <1>1, <1>2, <1>5
  <2> QED
    BY <2>1, <2>2
<1>7. pos + k \in Nat /\ Offsets(sent, o)
  BY <1>1, <1>2 DEF Stream
<1>8. Stream(o, pos + k)'
  <2>1. Offsets(sent', o) /\ Run(sent', o, wire', pos + k)
    BY <1>5, <1>7, Zenon
  <2>2. Len(wire') = Len(rest) /\ o[Len(sent') + 1] = end
    BY <1>5, Zenon DEF end
  <2>3. ~eof' => pos + k + Len(wire') = o[Len(sent') + 1]
    <3> SUFFICES ASSUME ~eof' PROVE pos + k + Len(wire') = o[Len(sent') + 1]
      OBVIOUS
    <3>1. pos + k + Len(rest) = end
      BY <1>5, <1>6
    <3>2. pos + k + Len(wire') = pos + k + Len(rest)
      BY <2>2, Zenon
    <3>3. pos + k + Len(wire') = end
      BY <3>1, <3>2, Zenon
    <3> QED
      BY <2>2, <3>3, Zenon
  <2> QED
    BY <1>7, <2>1, <2>3, Zenon DEF Stream
<1> QED
  BY <1>1, <1>2, <1>4, <1>8

\* The handler goes on.
LEMMA GoesOn ==
  ASSUME Faithful, UNCHANGED <<kind, sent, eof, got>>, pc' \notin {"request", "closed", "crashed"},
         NEW o, NEW pos, Stream(o, pos)', Place(o, pos)'
  PROVE  Faithful'
<1>1. Handled'
  BY DEF Faithful, Handled
<1>2. Asked' /\ ~Ended'
  BY DEF Asked, Ended
<1> QED
  BY <1>1, <1>2 DEF Faithful

\* The handler stops, for a reason.
LEMMA Stops ==
  ASSUME Faithful, UNCHANGED <<kind, sent, eof, got>>, pc' \in {"closed", "crashed"},
         NEW o, NEW pos, Stream(o, pos)', ~kind.splits => Reason
  PROVE  Faithful'
<1>1. Handled'
  BY DEF Faithful, Handled
<1>2. Asked' /\ Place(o, pos)'
  BY DEF Asked, Place
<1>3. ~kind.splits' => Reason'
  BY DEF Reason, FillsBuffer
<1> QED
  BY <1>1, <1>2, <1>3 DEF Faithful
\* When the network cuts no header, the buffer has a whole one after a recv.
LEMMA HeaderWhole ==
  ASSUME CInv, Clients, NEW o, NEW pos, Stream(o, pos), NEW n \in 1 .. Len(sent), NEW l \in Nat, pos = o[n] + l,
         l < BUFFERSIZE, NEW k \in Chunks(BUFFERSIZE - l), ~kind.splits, ~eof
  PROVE  l + k >= sent[n].skip
<1>1. /\ sent[n].skip \in Nat /\ sent[n].skip <= 14 /\ Size(sent[n]) \in Nat /\ Size(sent[n]) >= sent[n].skip
      /\ BUFFERSIZE \in Nat /\ BUFFERSIZE > 14 /\ Len(sent) \in Nat
  <2>1. /\ sent[n].skip \in {1, 6, 8, 14} /\ sent[n].len \in Nat /\ Size(sent[n]) \in Nat
        /\ Size(sent[n]) >= sent[n].skip + sent[n].len
    BY SentFrame
  <2>2. BUFFERSIZE \in Nat /\ BUFFERSIZE > 14
    BY StreamAssumption
  <2>3. Len(sent) \in Nat
    BY LenProperties DEF CInv, Typed
  <2> DEFINE skip == sent[n].skip
             size == Size(sent[n])
             len  == sent[n].len
  <2>4. skip \in {1, 6, 8, 14} /\ len \in Nat /\ size \in Nat /\ size >= skip + len
    BY <2>1
  <2> HIDE DEF skip, size, len
  <2>5. skip \in Nat /\ skip <= 14 /\ size \in Nat /\ size >= skip
    BY <2>4
  <2> QED
    BY <2>2, <2>3, <2>5 DEF skip, size
<1>2. /\ o[n] \in Nat /\ o[n + 1] = o[n] + Size(sent[n])
      /\ \A a \in 1 .. Len(sent) + 1 : o[a] \in Nat /\ (a <= n => o[a] <= o[n]) /\ (n < a => o[n + 1] <= o[a])
      /\ o[Len(sent) + 1] \in Nat /\ o[n + 1] <= o[Len(sent) + 1]
  BY OffsetNat DEF Stream
<1>3. wire \in Seq(Arrived) /\ Len(wire) \in Nat
  BY LenProperties DEF CInv, Typed
<1>4. k \in Nat /\ k >= 1 /\ k <= Len(wire)
  BY <1>1, <1>3, ChunkSize
<1> DEFINE skip == sent[n].skip
           size == Size(sent[n])
           on   == o[n]
           on1  == o[n + 1]
           end  == o[Len(sent) + 1]
           w    == Len(wire)
<1>8. /\ skip \in Nat /\ skip <= 14 /\ size \in Nat /\ size >= skip /\ on \in Nat /\ on1 = on + size
      /\ end \in Nat /\ on1 <= end /\ pos = on + l /\ w \in Nat
  BY <1>1, <1>2, <1>3
<1>5. CASE k = BUFFERSIZE - l
  BY <1>1, <1>5
<1>6. CASE k = Len(wire)
  <2>1. pos + w = end /\ k = w
    BY <1>6 DEF Stream
  <2> HIDE DEF skip, size, on, on1, end, w
  <2>2. l + k >= skip
    BY <1>8, <2>1
  <2> QED
    BY <2>2 DEF skip
<1>7. CASE k < Len(wire) /\ (wire[k + 1][2] = 1 \/ wire[k + 1][2] > FrameOf(wire[k + 1]).skip)
  <2>1. At(sent, o, wire[k + 1], pos + (k + 1))
    <3>1. k + 1 \in 1 .. Len(wire)
      BY <1>3, <1>4, <1>7
    <3> QED
      BY <3>1 DEF Stream, Run
  <2>2. PICK a \in 1 .. Len(sent) : \E i \in 1 .. Size(sent[a]) : wire[k + 1] = <<a, i>> /\ pos + (k + 1) = o[a] + i
    BY <2>1 DEF At
  <2>3. PICK i \in 1 .. Size(sent[a]) : wire[k + 1] = <<a, i>> /\ pos + (k + 1) = o[a] + i
    BY <2>2
  <2>4. i = 1 \/ i > sent[a].skip
    BY <1>7, <2>3 DEF FrameOf
  <2>5. Size(sent[a]) \in Nat /\ o[a] \in Nat /\ o[a + 1] \in Nat /\ o[a + 1] = o[a] + Size(sent[a]) /\ (a < n => o[a + 1] <= o[n])
    <3>1. n \in 1 .. Len(sent) + 1
      BY <1>1
    <3> QED
      BY <3>1, SentFrame, OffsetNat DEF Stream
  <2> DEFINE oa    == o[a]
             sizea == Size(sent[a])
             skipa == sent[a].skip
  <2>9. /\ i \in 1 .. sizea /\ sizea \in Nat /\ oa \in Nat /\ pos + (k + 1) = oa + i
        /\ i = 1 \/ i > skipa
        /\ a < n => oa + sizea <= on
        /\ a = n => oa = on /\ skipa = skip
    BY <2>3, <2>4, <2>5
  <2> HIDE DEF skip, size, on, on1, end, w, oa, sizea, skipa
  <2>6. ~(a < n)
    BY <1>4, <1>8, <2>9
  <2>7. CASE a = n
    <3>1. l + k >= skip
      BY <1>4, <1>8, <2>7, <2>9
    <3> QED
      BY <3>1 DEF skip
  <2>8. CASE n < a
    <3>1. a \in 1 .. Len(sent) + 1
      BY <1>1
    <3>2. on1 <= oa
      BY <1>2, <2>8, <3>1 DEF on1, oa
    <3>3. l + k >= skip
      BY <1>4, <1>8, <2>9, <3>2
    <3> QED
      BY <3>3 DEF skip
  <2> QED
    BY <1>1, <2>6, <2>7, <2>8
<1> QED
  BY <1>3, <1>4, <1>5, <1>6, <1>7 DEF Chunks

\* communicate's buffer begins with the frame the handler is at.
LEMMA BufferAt ==
  ASSUME CInv, Clients, NEW o, Offsets(sent, o), NEW s, Len(s) \in Nat, Len(s) > 0,
         Now \in 1 .. Len(sent) + 1, Run(sent, o, s, o[Now])
  PROVE  Now \in 1 .. Len(sent) /\ s[1] = <<Now, 1>> /\ FrameOf(s[1]) = sent[Now]
<1>1. sent \in Seq(FrameType) /\ Len(sent) \in Nat
  BY LenProperties DEF CInv, Typed
<1>2. o[Now] \in Nat
  BY <1>1 DEF Offsets
<1>3. Now <= Len(sent)
  BY <1>1, <1>2, RunWithin
<1>4. Now \in 1 .. Len(sent)
  BY <1>1, <1>3
<1>5. Size(sent[Now]) \in Nat /\ Size(sent[Now]) >= 2
  BY <1>4, SentFrame
<1> DEFINE n == Now
<1>6. n \in 1 .. Len(sent)
  BY <1>4
<1>7. Run(sent, o, s, o[n] + 0) /\ 0 + 1 <= Size(sent[n]) /\ 1 \in 1 .. Len(s) /\ 0 \in Nat
  BY <1>2, <1>5
<1> HIDE DEF n
<1>8. s[1] = <<n, 0 + 1>>
  BY <1>1, <1>6, <1>7, RunFrame
<1> QED
  BY <1>4, <1>8 DEF n, FrameOf

\* The handler reads the beginning of the frame it is at.
LEMMA ReadPlace ==
  ASSUME CInv, Clients, Handled, NEW o, NEW pos, Stream(o, pos), Place(o, pos), Read
  PROVE  \E p : Stream(o, p)' /\ Place(o, p)'
<1>1. /\ pc = "read" /\ pc' = "parse" /\ kind.type = "RFC6455" /\ UNCHANGED <<kind, sent, eof, got>>
      /\ m' = [m EXCEPT !.op = IF @ = "none" THEN FrameOf(buffer'[1]).op ELSE @]
  BY DEF Read
<1>2. m = NewMessage /\ Run(sent, o, next, o[Now]) /\ pos = o[Now] + Len(next)
  BY <1>1 DEF Place, AtRead
<1>3. /\ wire \in Seq(Arrived) /\ next \in Seq(Arrived) /\ Len(next) \in Nat /\ Len(wire) \in Nat /\ Len(sent) \in Nat
      /\ Len(next) < BUFFERSIZE /\ BUFFERSIZE \in Nat /\ Offsets(sent, o) /\ pos \in Nat
  BY LenProperties, StreamAssumption DEF CInv, Typed, Bounded, Stream
<1>4. Now \in 1 .. Len(sent) + 1 /\ Len(got) \in Nat /\ o[Now] \in Nat
  <2>1. Len(got) \in Nat
    BY LenProperties DEF Handled
  <2>2. Now \in 1 .. Len(sent) + 1
    BY <1>3, <2>1 DEF Handled, Now
  <2> QED
    BY <1>3, <2>1, <2>2 DEF Offsets
<1>5. ASSUME NEW p, Stream(o, p)', buffer' # <<>>, Len(buffer') \in Nat, Len(buffer') > 0, Run(sent, o, buffer', o[Now]),
             p = o[Now] + Len(buffer'), Now \in 1 .. Len(sent) => (~kind.splits /\ ~eof => Len(buffer') >= sent[Now].skip)
      PROVE  Place(o, p)'
  <2>1. Now \in 1 .. Len(sent) /\ FrameOf(buffer'[1]) = sent[Now]
    BY <1>3, <1>4, <1>5, BufferAt
  <2>2. m'.len = 0 /\ m'.next = <<>> /\ m'.op = sent[Now].op
    BY <1>1, <1>2, <2>1 DEF NewMessage
  <2>3. Now' = Now
    BY <1>1 DEF Now
  <2>4. sent[Now].skip \in Nat
    <3>1. sent[Now].skip \in {1, 6, 8, 14}
      BY <2>1, SentFrame
    <3> QED
      BY <3>1
  <2>5. ~kind.splits /\ Len(buffer') < sent[Now].skip => eof
    BY <1>5, <2>1, <2>4
  <2>6. AtParse(o, p)'
    BY <1>1, <1>5, <2>1, <2>2, <2>3, <2>5 DEF AtParse
  <2> QED
    BY <1>1, <2>6 DEF Place
<1>6. CASE NeedMore
  <2>1. PICK k \in Chunks(BUFFERSIZE - Len(next)) : /\ buffer' = next \o SubSeq(wire, 1, k)
                                                   /\ wire' = SubSeq(wire, k + 1, Len(wire))
    BY <1>6 DEF Read
  <2>2. BUFFERSIZE - Len(next) \in Nat
    BY <1>3
  <2> DEFINE chunk == SubSeq(wire, 1, k)
  <2>3. /\ Stream(o, pos + k)' /\ Run(sent, o, chunk, pos) /\ k \in Nat /\ k >= 1
        /\ chunk \in Seq(Arrived) /\ Len(chunk) = k
    BY <1>1, <2>1, <2>2, WireOn
  <2> HIDE DEF chunk
  <2>4. buffer' = next \o chunk
    BY <2>1 DEF chunk
  <2>5. Len(next \o chunk) = Len(next) + k
    BY <1>3, <2>3, ConcatProperties
  <2>6. Run(sent, o, next \o chunk, o[Now])
    BY <1>2, <1>3, <1>4, <2>3, RunBoth
  <2> DEFINE both == next \o chunk
             on   == o[Now]
             l    == Len(next)
  <2>11. Len(both) = l + k /\ l \in Nat /\ on \in Nat /\ pos = on + l
    BY <1>2, <1>3, <1>4, <2>5
  <2>12. buffer' = both
    BY <2>4
  <2> HIDE DEF both, on, l
  <2>13. pos + k = on + Len(both) /\ Len(both) \in Nat /\ Len(both) > 0
    BY <2>3, <2>11
  <2>7. pos + k = o[Now] + Len(buffer') /\ Len(buffer') \in Nat /\ Len(buffer') > 0
    BY <2>12, <2>13, Zenon DEF on
  <2>8. buffer' # <<>>
    BY <2>7
  <2>9. ASSUME Now \in 1 .. Len(sent), ~kind.splits, ~eof PROVE Len(buffer') >= sent[Now].skip
    <3> DEFINE n == Now
    <3>1. n \in 1 .. Len(sent) /\ pos = o[n] + Len(next)
      BY <1>2, <2>9
    <3> HIDE DEF n
    <3>2. Len(next) + k >= sent[n].skip
      BY <1>3, <2>9, <3>1, HeaderWhole
    <3> QED
      BY <2>4, <2>5, <3>2 DEF n
  <2>10. Place(o, pos + k)'
    <3>1. Run(sent, o, buffer', o[Now])
      BY <2>4, <2>6, Zenon
    <3> QED
      BY <1>5, <2>3, <2>7, <2>8, <2>9, <3>1
  <2> QED
    BY <2>3, <2>10
<1>7. CASE ~NeedMore
  <2>1. buffer' = next /\ wire' = wire
    BY <1>7 DEF Read
  <2>2. Len(next) > 6 /\ Len(next) > FrameOf(next[1]).skip
    <3>1. Len(next) > 6
      BY <1>3, <1>7 DEF NeedMore
    <3>2. FrameOf(next[1]).skip \in Nat
      <4>1. 1 \in 1 .. Len(next) /\ Typed
        BY <1>3, <3>1 DEF CInv
      <4>2. FrameOf(next[1]).skip \in {1, 6, 8, 14}
        BY <1>3, <4>1, FrameOfByte
      <4> QED
        BY <4>2
    <3> QED
      BY <1>3, <1>7, <3>1, <3>2 DEF NeedMore
  <2>3. Stream(o, pos)'
    BY <1>1, <2>1 DEF Stream
  <2>4. Now \in 1 .. Len(sent) /\ FrameOf(next[1]) = sent[Now]
    BY <1>2, <1>3, <1>4, <2>2, BufferAt
  <2>5. next # <<>> /\ Len(next) >= sent[Now].skip
    <3>1. sent[Now].skip \in {1, 6, 8, 14}
      BY <2>4, SentFrame
    <3>2. Len(next) > sent[Now].skip
      BY <2>2, <2>4
    <3> QED
      BY <1>3, <2>2, <3>1, <3>2
  <2>6. Place(o, pos)'
    BY <1>2, <1>3, <1>5, <2>1, <2>2, <2>3, <2>5
  <2> QED
    BY <2>3, <2>6
<1> QED
  BY <1>6, <1>7
\* parseMessage takes the payload of the frame the handler is at, as far as it is
\* there, and keeps what is behind it.
LEMMA ParsePlace ==
  ASSUME CInv, Clients, Handled, NEW o, NEW pos, Stream(o, pos), Place(o, pos), Parse
  PROVE  Stream(o, pos)' /\ Place(o, pos)' /\ pc' \in {"rest", "done"}
<1> DEFINE n    == Now
           skip == sent[n].skip
           len  == sent[n].len
           on   == o[n]
<1>1. /\ pc = "parse" /\ kind.type = "RFC6455" /\ UNCHANGED <<kind, sent, wire, eof, next, buffer, got>>
      /\ Len(buffer) >= Head1.skip
  BY DEF Parse, client, CInv, Bounded
<1>2. /\ n <= Len(sent) /\ m.len = 0 /\ m.next = <<>> /\ m.op = sent[n].op
      /\ Run(sent, o, buffer, o[n]) /\ pos = o[n] + Len(buffer)
  BY <1>1 DEF Place, AtParse
<1>3. /\ buffer \in Seq(Arrived) /\ Len(buffer) \in Nat /\ Len(buffer) > 0 /\ buffer # <<>>
      /\ Offsets(sent, o) /\ Len(sent) \in Nat /\ Len(got) \in Nat /\ n \in 1 .. Len(sent) /\ pos \in Nat
      /\ sent \in Seq(FrameType)
  <2>1. buffer \in Seq(Arrived) /\ buffer # <<>> /\ Offsets(sent, o) /\ pos \in Nat /\ sent \in Seq(FrameType)
    BY <1>1 DEF CInv, Typed, Bounded, Stream
  <2>2. Len(buffer) \in Nat /\ Len(buffer) > 0
    BY <2>1, EmptySeq
  <2>3. Len(sent) \in Nat /\ Len(got) \in Nat
    BY <2>1, LenProperties DEF Handled
  <2>4. n \in 1 .. Len(sent)
    BY <1>2, <2>3 DEF Now
  <2> QED
    BY <2>1, <2>2, <2>3, <2>4
<1>4. Head1 = sent[n]
  <2>1. Now \in 1 .. Len(sent) + 1
    BY <1>3
  <2>2. FrameOf(buffer[1]) = sent[Now]
    BY <1>2, <1>3, <2>1, BufferAt
  <2> QED
    BY <2>2 DEF Head1
<1>5. skip \in Nat /\ len \in Nat /\ Size(sent[n]) = skip + len /\ on \in Nat /\ o[n + 1] = on + (skip + len)
  <2>1. skip \in Nat /\ len \in Nat /\ Size(sent[n]) = skip + len
    <3>1. sent[n].skip \in {1, 6, 8, 14} /\ sent[n].len \in Nat /\ Size(sent[n]) = sent[n].skip + sent[n].len
      BY <1>1, <1>3, SentFrame
    <3> QED
      BY <3>1
  <2>2. on \in Nat /\ o[n + 1] = on + Size(sent[n])
    BY <1>3, OffsetNat
  <2> QED
    BY <2>1, <2>2
<1>6. Total = len
  BY <1>2, <1>4, <1>5 DEF Total
<1>7. PICK body \in Seq(Arrived), copied \in Nat :
           /\ body = SubSeq(buffer, Head1.skip + 1, Len(buffer))
           /\ Len(body) = Len(buffer) - Head1.skip
           /\ copied <= Len(body) /\ copied <= Total /\ (copied = Len(body) \/ copied = Total)
           /\ m'.len = Total /\ m'.op = m.op /\ m'.next = Cut(body)
           /\ m'.msg = [i \in 1 .. m.len |-> Garbage] \o SubSeq(body, 1, copied)
           /\ Len(m'.msg) = m.len + copied
           /\ pc' \in CASE m.len + copied < Total -> {"rest"}
                        [] m.len + copied = Total -> {"done"}
                        [] m.len + copied > Total -> {"closed", "crashed"}
  BY ParseMessage
<1>8. /\ body = SubSeq(buffer, skip + 1, Len(buffer)) /\ Len(body) = Len(buffer) - skip /\ Len(body) \in Nat
      /\ copied <= Len(body) /\ copied <= len /\ (copied = Len(body) \/ copied = len)
      /\ m'.len = len /\ m'.op = sent[n].op /\ Len(m'.msg) = copied
      /\ m'.next = IF Len(body) > len THEN SubSeq(body, len + 1, Len(body)) ELSE <<>>
      /\ pc' = IF copied < len THEN "rest" ELSE "done"
  <2>1. Len(body) \in Nat
    BY LenProperties
  <2>2. pc' = IF copied < len THEN "rest" ELSE "done"
    <3>1. /\ m.len = 0 /\ Total = len /\ len \in Nat /\ copied <= Total
          /\ pc' \in CASE m.len + copied < Total -> {"rest"}
                       [] m.len + copied = Total -> {"done"}
                       [] m.len + copied > Total -> {"closed", "crashed"}
      BY <1>2, <1>5, <1>6, <1>7
    <3> HIDE DEF len
    <3>2. 0 + copied = copied /\ ~(copied > len)
      BY <3>1
    <3> QED
      BY <3>1, <3>2
  <2>3. m'.next = IF Len(body) > len THEN SubSeq(body, len + 1, Len(body)) ELSE <<>>
    BY <1>2, <1>6, <1>7 DEF Cut
  <2>4. Len(m'.msg) = copied
    BY <1>2, <1>7
  <2> QED
    BY <1>2, <1>4, <1>6, <1>7, <2>1, <2>2, <2>3, <2>4
<1>9. \A i \in 1 .. copied : m'.msg[i] = body[i]
  <2> DEFINE part == SubSeq(body, 1, copied)
  <2>1. copied \in 0 .. Len(body)
    BY <1>8
  <2>2. part \in Seq(Arrived) /\ \A i \in 1 .. copied : part[i] = body[i]
    BY <2>1, FirstPart
  <2>3. m'.msg = <<>> \o part
    <3>1. [i \in 1 .. 0 |-> Garbage] = <<>>
      OBVIOUS
    <3> HIDE DEF part
    <3> QED
      BY <1>2, <1>7, <3>1 DEF part
  <2> HIDE DEF part
  <2>4. m'.msg = part
    BY <2>2, <2>3, ConcatEmptySeq
  <2> QED
    BY <2>2, <2>4
<1>10. Run(sent, o, body, on + skip)
  <2>1. skip \in 0 .. Len(buffer)
    BY <1>1, <1>3, <1>4, <1>5
  <2> HIDE DEF skip, on
  <2>2. Run(sent, o, SubSeq(buffer, skip + 1, Len(buffer)), on + skip)
    BY <1>2, <1>3, <1>5, <2>1, RunParts DEF on
  <2> QED
    BY <1>8, <2>2
<1>11. ASSUME NEW i \in 1 .. copied PROVE m'.msg[i] = <<n, skip + i>>
  <2>1. i \in 1 .. Len(body) /\ skip + i <= Size(sent[n])
    <3> HIDE DEF skip, len
    <3> QED
      BY <1>5, <1>8
  <2>2. n \in 1 .. Len(sent) /\ skip \in Nat /\ Run(sent, o, body, o[n] + skip)
    BY <1>3, <1>5, <1>10
  <2>4. sent \in Seq(FrameType) /\ Offsets(sent, o) /\ Len(body) \in Nat
    BY <1>3, <1>8
  <2> HIDE DEF n, skip
  <2>3. body[i] = <<n, skip + i>>
    BY <2>1, <2>2, <2>4, RunFrame
  <2> QED
    BY <1>9, <2>3
<1>12. Begins(n, skip, m'.msg)
  BY <1>8, <1>11 DEF Begins
<1>13. Stream(o, pos)'
  BY <1>1 DEF Stream
<1>14. n' = n
  BY <1>1 DEF Now
<1>15. CASE copied < len
  <2>1. copied = Len(body) /\ m'.next = <<>> /\ pc' = "rest"
    <3>1. copied # len /\ pc' = "rest"
      BY <1>5, <1>8, <1>15
    <3>2. copied = Len(body)
      BY <1>8, <3>1
    <3>3. ~(Len(body) > len)
      BY <1>5, <1>15, <3>2
    <3> QED
      BY <1>8, <3>1, <3>2, <3>3
  <2>2. pos = on + skip + copied
    <3>1. pos = on + Len(buffer)
      BY <1>2
    <3> HIDE DEF on, skip, len
    <3> QED
      BY <1>3, <1>5, <1>8, <2>1, <3>1
  <2>3. AtRest(o, pos)'
    BY <1>1, <1>2, <1>8, <1>12, <1>14, <2>1, <2>2 DEF AtRest
  <2>4. m'.len = sent'[n'].len /\ buffer' # <<>>
    BY <1>1, <1>3, <1>8, <1>14
  <2>5. Place(o, pos)'
    BY <2>1, <2>3, <2>4 DEF Place
  <2> QED
    BY <1>13, <2>1, <2>5
<1>16. CASE ~(copied < len)
  <2>1. copied = len /\ pc' = "done"
    BY <1>5, <1>8, <1>16
  <2>2. Run(sent, o, m'.next, o[n + 1]) /\ pos = o[n + 1] + Len(m'.next)
    <3>1. CASE Len(body) > len
      <4>1. len \in 0 .. Len(body)
        <5>1. len \in Nat /\ Len(body) \in Nat
          BY <1>5, <1>8
        <5> QED
          BY <3>1, <5>1
      <4> DEFINE left == SubSeq(body, len + 1, Len(body))
                 at   == on + skip
      <4>2. at \in Nat
        BY <1>5
      <4>3. Run(sent, o, body, at)
        BY <1>10
      <4> HIDE DEF at, len
      <4>4. Run(sent, o, left, at + len)
        BY <4>1, <4>2, <4>3, RunParts
      <4>5. Len(left) = Len(body) - len
        BY <4>1, LastPart
      <4> HIDE DEF left, skip, on
      <4>6. at + len = o[n + 1]
        BY <1>5 DEF at
      <4>7. pos = on + Len(buffer)
        BY <1>2 DEF on
      <4>8. pos = at + len + Len(left)
        BY <1>3, <1>5, <1>8, <4>5, <4>7 DEF at
      <4>9. m'.next = left
        BY <1>8, <3>1 DEF left, len
      <4> QED
        BY <4>4, <4>6, <4>8, <4>9
    <3>2. CASE ~(Len(body) > len)
      <4>1. m'.next = <<>> /\ Len(body) = len
        BY <1>5, <1>8, <2>1, <3>2
      <4>2. pos = on + Len(buffer)
        BY <1>2
      <4>3. pos = o[n + 1]
        <5>1. Len(buffer) \in Nat /\ Len(body) = Len(buffer) - skip /\ skip \in Nat /\ on \in Nat /\ o[n + 1] = on + (skip + len)
          BY <1>3, <1>5, <1>8
        <5>2. Len(body) = len
          BY <4>1
        <5> HIDE DEF on, skip, len
        <5>3. Len(buffer) = skip + len
          BY <1>5, <5>1, <5>2
        <5> QED
          BY <4>2, <5>1, <5>3
      <4>4. o[n + 1] \in Nat
        BY <1>5
      <4>5. Run(sent, o, <<>>, o[n + 1])
        BY DEF Run
      <4> QED
        BY <4>1, <4>3, <4>4, <4>5
    <3> QED
      BY <3>1, <3>2
  <2>3. AtDone(o, pos)'
    BY <1>1, <1>2, <1>8, <1>12, <1>14, <2>1, <2>2 DEF AtDone
  <2>4. buffer' # <<>>
    BY <1>1, <1>3
  <2>5. Place(o, pos)'
    BY <2>1, <2>3, <2>4 DEF Place
  <2> QED
    BY <1>13, <2>1, <2>5
<1> QED
  BY <1>15, <1>16
\* What the handler is at, in a state where it is within a frame.
LEMMA WithinFrame ==
  ASSUME CInv, Clients, Handled, NEW o, NEW pos, Stream(o, pos), Now <= Len(sent)
  PROVE  /\ Now \in 1 .. Len(sent) /\ Len(got) \in Nat /\ Len(sent) \in Nat /\ sent \in Seq(FrameType)
         /\ Offsets(sent, o) /\ pos \in Nat /\ Run(sent, o, wire, pos)
         /\ o[Now] \in Nat /\ o[Now + 1] = o[Now] + Size(sent[Now]) /\ o[Now + 1] \in Nat
         /\ wire \in Seq(Arrived) /\ Len(wire) \in Nat
         /\ m \in Message /\ m.msg \in Seq(Arrived \cup {Garbage}) /\ Len(m.msg) \in Nat
         /\ m.next \in Seq(Arrived) /\ Len(m.next) \in Nat /\ m.len \in Nat
<1>1. sent \in Seq(FrameType) /\ Offsets(sent, o) /\ pos \in Nat /\ Run(sent, o, wire, pos) /\ wire \in Seq(Arrived)
  BY DEF CInv, Typed, Stream
<1>2. Len(got) \in Nat /\ Len(sent) \in Nat /\ Len(wire) \in Nat
  BY <1>1, LenProperties DEF Handled
<1>3. Now \in 1 .. Len(sent)
  BY <1>2 DEF Now
<1>4. o[Now] \in Nat /\ o[Now + 1] = o[Now] + Size(sent[Now]) /\ o[Now + 1] \in Nat
  BY <1>1, <1>3, OffsetNat
<1>5. m \in Message /\ m.msg \in Seq(Arrived \cup {Garbage}) /\ m.next \in Seq(Arrived) /\ m.len \in Nat
  BY DEF CInv, Typed, Message
<1>6. Len(m.msg) \in Nat /\ Len(m.next) \in Nat
  BY <1>5, LenProperties
<1> QED
  BY <1>1, <1>2, <1>3, <1>4, <1>5, <1>6

\* A beginning and the bytes behind it.
LEMMA BeginsBoth ==
  ASSUME NEW n, NEW skip \in Nat, NEW S, NEW msg \in Seq(S), NEW s \in Seq(S), Begins(n, skip, msg),
         NEW q \in Nat, q = skip + Len(msg), Begins(n, q, s)
  PROVE  Begins(n, skip, msg \o s) /\ Len(msg \o s) = Len(msg) + Len(s)
<1>1. Len(msg) \in Nat /\ Len(s) \in Nat
  BY LenProperties
<1> DEFINE both == msg \o s
<1>2. Len(both) = Len(msg) + Len(s) /\ \A j \in 1 .. Len(msg) + Len(s) : both[j] = IF j <= Len(msg) THEN msg[j] ELSE s[j - Len(msg)]
  BY ConcatProperties
<1>3. /\ \A i \in 1 .. Len(msg) : msg[i] = <<n, skip + i>>
      /\ \A i \in 1 .. Len(s) : s[i] = <<n, q + i>>
  BY DEF Begins
<1> HIDE DEF both
<1>4. ASSUME NEW i \in 1 .. Len(both) PROVE both[i] = <<n, skip + i>>
  <2>1. CASE i <= Len(msg)
    <3>1. both[i] = msg[i] /\ i \in 1 .. Len(msg)
      BY <1>1, <1>2, <2>1
    <3> QED
      BY <1>3, <3>1
  <2>2. CASE ~(i <= Len(msg))
    <3> DEFINE at == i - Len(msg)
    <3>1. at \in 1 .. Len(s) /\ both[i] = s[at]
      BY <1>1, <1>2, <2>2
    <3>2. q + at = skip + i
      BY <1>1, <1>2, <2>2
    <3> HIDE DEF at
    <3>3. s[at] = <<n, q + at>>
      BY <1>3, <3>1
    <3> QED
      BY <3>1, <3>2, <3>3
  <2> QED
    BY <2>1, <2>2
<1> QED
  BY <1>2, <1>4 DEF Begins, both

\* Bytes on their way that follow the part of the payload that is there continue it.
LEMMA Continues ==
  ASSUME NEW fr \in Seq(FrameType), NEW o, Offsets(fr, o), NEW n \in 1 .. Len(fr), NEW S,
         NEW msg \in Seq(S), NEW s \in Seq(S), NEW skip \in Nat, Begins(n, skip, msg),
         NEW p \in Nat, p = o[n] + (skip + Len(msg)), Run(fr, o, s, p),
         skip + Len(msg) + Len(s) <= Size(fr[n])
  PROVE  Begins(n, skip, msg \o s)
<1>1. Len(msg) \in Nat /\ Len(s) \in Nat /\ Len(fr) \in Nat /\ Size(fr[n]) \in Nat
  BY LenProperties, ElementOfSeq, SizeNat
<1> DEFINE q    == skip + Len(msg)
           size == Size(fr[n])
<1>2. q \in Nat /\ size \in Nat /\ q + Len(s) <= size
  BY <1>1
<1>3. Run(fr, o, s, o[n] + q)
  OBVIOUS
<1>4. q = skip + Len(msg)
  OBVIOUS
<1> HIDE DEF q, size
<1>5. \A j \in 1 .. Len(s) : q + j <= Size(fr[n]) => s[j] = <<n, q + j>>
  <2>1. Len(s) \in Nat /\ q \in Nat
    BY <1>1, <1>2
  <2> QED
    BY <1>3, <2>1, RunFrame
<1>6. ASSUME NEW j \in 1 .. Len(s) PROVE s[j] = <<n, q + j>>
  <2>1. q + j <= size
    BY <1>1, <1>2
  <2> QED
    BY <1>5, <2>1 DEF size
<1>7. Begins(n, q, s)
  BY <1>6 DEF Begins
<1> QED
  BY <1>2, <1>4, <1>7, BeginsBoth

\* getRemainingMessage completes the payload and keeps what is behind it.
LEMMA RestPlace ==
  ASSUME CInv, Clients, Handled, NEW o, NEW pos, Stream(o, pos), Place(o, pos), Rest
  PROVE  /\ pc' \in {"rest", "done"}
         /\ \E p : Stream(o, p)' /\ Place(o, p)'
<1> DEFINE n    == Now
           skip == sent[n].skip
           len  == sent[n].len
           on   == o[n]
           has  == Len(m.msg)
           lack == m.len - has
<1>1. /\ pc = "rest" /\ kind.type = "RFC6455" /\ UNCHANGED <<kind, sent, eof, next, buffer, got>> /\ Len(m.msg) < m.len
  BY DEF Rest, CInv, Bounded
<1>2. /\ n <= Len(sent) /\ m.next = <<>> /\ m.op = sent[n].op /\ Begins(n, skip, m.msg)
      /\ pos = on + skip + has /\ m.len = len /\ buffer # <<>>
  BY <1>1 DEF Place, AtRest
<1>3. /\ n \in 1 .. Len(sent) /\ sent \in Seq(FrameType) /\ Offsets(sent, o) /\ pos \in Nat /\ on \in Nat
      /\ o[n + 1] = on + Size(sent[n]) /\ has \in Nat /\ m.msg \in Seq(Arrived \cup {Garbage})
      /\ wire \in Seq(Arrived) /\ Len(wire) \in Nat
  BY <1>2, WithinFrame
<1>4. skip \in Nat /\ len \in Nat /\ Size(sent[n]) = skip + len
  <2>1. sent[n].skip \in {1, 6, 8, 14} /\ sent[n].len \in Nat /\ Size(sent[n]) = sent[n].skip + sent[n].len
    BY <1>1, <1>3, SentFrame
  <2> QED
    BY <2>1
<1>5. PICK k \in Chunks(BUFFERSIZE) :
           /\ k \in Nat /\ k >= 1 /\ k <= Len(wire)
           /\ wire' = SubSeq(wire, k + 1, Len(wire))
           /\ m'.msg = m.msg \o SubSeq(wire, 1, Smaller(k, lack))
           /\ Len(m'.msg) = has + Smaller(k, lack)
           /\ m'.len = m.len /\ m'.op = m.op
           /\ m'.next = IF k > lack THEN SubSeq(SubSeq(wire, 1, k), lack + 1, k) ELSE m.next
           /\ pc' = IF Len(m'.msg) >= m.len THEN "done" ELSE "rest"
  BY RestMessage
<1>6. BUFFERSIZE \in Nat
  BY StreamAssumption
<1>7. /\ Stream(o, pos + k)' /\ Run(sent, o, SubSeq(wire, 1, k), pos)
      /\ SubSeq(wire, 1, k) \in Seq(Arrived) /\ Len(SubSeq(wire, 1, k)) = k
  BY <1>1, <1>5, <1>6, WireOn
<1> DEFINE c == Smaller(k, lack)
<1>8. lack \in Nat /\ lack >= 1 /\ lack = len - has /\ c \in Nat /\ c <= k /\ c <= lack /\ (c = k \/ c = lack)
  <2>1. lack \in Nat /\ lack >= 1 /\ lack = len - has
    BY <1>1, <1>2, <1>3, <1>4
  <2> HIDE DEF lack
  <2> QED
    BY <1>5, <2>1 DEF Smaller
<1>13. m.len = has + lack
  <2> DEFINE all == m.len
  <2>1. all = len /\ lack = len - has
    BY <1>2, <1>8
  <2> HIDE DEF all, len, lack, has
  <2>2. all = has + lack
    BY <1>3, <1>4, <2>1
  <2> QED
    BY <2>2 DEF all
<1>9. Begins(n, skip, m'.msg)
  <2> DEFINE part == SubSeq(wire, 1, c)
             S    == Arrived \cup {Garbage}
             msg  == m.msg
  <2>1. c \in 0 .. Len(wire)
    BY <1>3, <1>5, <1>8
  <2>2. part \in Seq(Arrived) /\ Len(part) = c /\ \A j \in 1 .. c : part[j] = wire[j]
    BY <1>3, <2>1, FirstPart
  <2>3. Run(sent, o, part, pos)
    BY <1>3, <2>1, RunParts DEF Stream
  <2>4. part \in Seq(S) /\ msg \in Seq(S)
    <3>1. Arrived \subseteq S
      OBVIOUS
    <3> HIDE DEF S, part
    <3>2. part \in Seq(S)
      BY <2>2, <3>1, SeqMonotonic
    <3> QED
      BY <1>3, <3>2 DEF S
  <2>5. m'.msg = msg \o part
    BY <1>5
  <2> HIDE DEF part, S, c
  <2>6. skip + Len(msg) + Len(part) <= Size(sent[n])
    <3>1. skip + has + c <= skip + len
      <4> HIDE DEF skip, has, len, lack
      <4> QED
        BY <1>3, <1>4, <1>8
    <3> QED
      BY <1>4, <2>2, <3>1
  <2>7. pos = o[n] + (skip + Len(msg)) /\ Begins(n, skip, msg)
    BY <1>2, <1>3, <1>4
  <2>8. n \in 1 .. Len(sent) /\ sent \in Seq(FrameType) /\ Offsets(sent, o) /\ pos \in Nat /\ skip \in Nat
    BY <1>3, <1>4
  <2> HIDE DEF msg, skip, n
  <2>9. Begins(n, skip, msg \o part)
    BY <2>3, <2>4, <2>6, <2>7, <2>8, Continues
  <2> QED
    BY <2>5, <2>9, Zenon
<1>10. n' = n
  BY <1>1 DEF Now
<1>11. CASE c < lack
  <2>1. c = k /\ ~(k > lack)
    BY <1>5, <1>8, <1>11
  <2>2. pc' = "rest" /\ m'.next = <<>>
    <3>1. Len(m'.msg) = has + c /\ m.len = has + lack
      BY <1>5, <1>13
    <3>2. ~(has + c >= has + lack)
      <4> HIDE DEF has, lack, c
      <4> QED
        BY <1>3, <1>8, <1>11
    <3> QED
      BY <1>2, <1>5, <2>1, <3>1, <3>2
  <2>3. pos + k = on + skip + Len(m'.msg)
    <3>1. Len(m'.msg) = has + k
      BY <1>5, <2>1
    <3>2. pos = on + skip + has /\ on \in Nat /\ skip \in Nat /\ has \in Nat /\ k \in Nat
      BY <1>2, <1>3, <1>4, <1>5
    <3> HIDE DEF on, skip, has
    <3>3. pos + k = on + skip + (has + k)
      BY <3>2
    <3> QED
      BY <3>1, <3>3
  <2>4. AtRest(o, pos + k)'
    BY <1>1, <1>2, <1>5, <1>9, <1>10, <2>2, <2>3 DEF AtRest
  <2>5. m'.len = sent'[n'].len /\ buffer' # <<>>
    BY <1>1, <1>2, <1>5, <1>10
  <2>6. Place(o, pos + k)'
    BY <2>2, <2>4, <2>5 DEF Place
  <2> QED
    BY <1>7, <2>2, <2>6
<1>12. CASE ~(c < lack)
  <2>1. c = lack /\ lack <= k
    BY <1>8, <1>12
  <2>2. pc' = "done" /\ Len(m'.msg) = len
    <3>1. Len(m'.msg) = has + c /\ m.len = has + lack /\ m.len = len
      BY <1>2, <1>5, <1>13
    <3>2. has + c >= has + lack
      <4> HIDE DEF has, lack, c
      <4> QED
        BY <1>3, <1>8, <2>1
    <3> QED
      BY <1>5, <2>1, <3>1, <3>2
  <2>3. pos + lack = o[n + 1]
    <3>1. has + lack = len
      BY <1>3, <1>4, <1>8
    <3> HIDE DEF on, skip, has, lack, len
    <3>2. pos + lack = on + (skip + len)
      BY <1>2, <1>3, <1>4, <1>8, <3>1
    <3> QED
      BY <1>3, <1>4, <3>2
  <2>4. Run(sent, o, m'.next, o[n + 1]) /\ pos + k = o[n + 1] + Len(m'.next)
    <3>1. CASE k > lack
      <4> DEFINE chunk == SubSeq(wire, 1, k)
                 left  == SubSeq(chunk, lack + 1, Len(chunk))
      <4>1. chunk \in Seq(Arrived) /\ Len(chunk) = k /\ Run(sent, o, chunk, pos)
        BY <1>7
      <4>2. lack \in 0 .. Len(chunk)
        BY <1>5, <1>8, <3>1, <4>1
      <4> HIDE DEF chunk, lack
      <4>3. Run(sent, o, left, pos + lack)
        BY <1>3, <4>1, <4>2, RunParts
      <4>4. Len(left) = k - lack
        BY <4>1, <4>2, LastPart
      <4>5. m'.next = left
        BY <1>5, <3>1, <4>1 DEF chunk, lack
      <4> HIDE DEF left
      <4>6. pos + k = pos + lack + Len(left)
        BY <1>3, <1>5, <1>8, <4>4
      <4> QED
        BY <2>3, <4>3, <4>5, <4>6
    <3>2. CASE ~(k > lack)
      <4>1. m'.next = <<>> /\ k = lack
        BY <1>2, <1>5, <1>8, <2>1, <3>2
      <4>2. Run(sent, o, <<>>, o[n + 1]) /\ o[n + 1] \in Nat
        BY <1>3, <1>4 DEF Run
      <4> QED
        BY <2>3, <4>1, <4>2
    <3> QED
      BY <3>1, <3>2
  <2>5. AtDone(o, pos + k)'
    BY <1>1, <1>2, <1>5, <1>9, <1>10, <2>2, <2>4 DEF AtDone
  <2>6. buffer' # <<>>
    BY <1>1, <1>2
  <2>7. Place(o, pos + k)'
    BY <2>2, <2>5, <2>6 DEF Place
  <2> QED
    BY <1>7, <2>2, <2>7
<1> QED
  BY <1>11, <1>12
\* The payload of a frame, byte by byte.
LEMMA PayloadBytes ==
  ASSUME NEW n \in 1 .. MaxFrames, NEW f \in FrameType
  PROVE  /\ Payload(n, f) \in Seq(Byte) /\ Len(Payload(n, f)) = f.len
         /\ \A i \in 1 .. f.len : Payload(n, f)[i] = <<n, f.skip + i>>
<1> DEFINE bytes == Bytes(n, f)
           skip  == f.skip
           len   == f.len
           size  == Size(f)
           pay   == SubSeq(bytes, skip + 1, skip + len)
<1>1. MaxFrames \in Nat /\ n \in Nat
  BY StreamAssumption
<1>2. skip \in Nat /\ len \in Nat /\ size \in Nat /\ size >= skip + len
  BY SizeNat
<1>3. bytes \in Seq({n} \X Nat) /\ Len(bytes) = size /\ \A i \in 1 .. size : bytes[i] = <<n, i>>
  BY <1>1, FrameBytes DEF Size
<1> HIDE DEF bytes, skip, len, size
<1>4. skip + 1 \in Nat \ {0} /\ skip + len \in 0 .. Len(bytes)
  BY <1>2, <1>3
<1>5. /\ pay \in Seq({n} \X Nat) /\ Len(pay) = IF skip + 1 <= skip + len THEN (skip + len) - (skip + 1) + 1 ELSE 0
      /\ \A j \in 1 .. ((skip + len) - (skip + 1) + 1) : pay[j] = bytes[(skip + 1) + j - 1]
  BY <1>3, <1>4, Part
<1> HIDE DEF pay
<1>6. Len(pay) = len
  BY <1>2, <1>5
<1>7. ASSUME NEW i \in 1 .. len PROVE pay[i] = <<n, skip + i>>
  <2>1. i \in 1 .. ((skip + len) - (skip + 1) + 1) /\ (skip + 1) + i - 1 = skip + i /\ skip + i \in 1 .. size
    BY <1>2
  <2>2. pay[i] = bytes[skip + i]
    BY <1>5, <2>1
  <2> QED
    BY <1>3, <2>1, <2>2
<1>8. {n} \X Nat \subseteq Byte
  BY DEF Byte
<1>9. pay \in Seq(Byte)
  BY <1>5, <1>8, SeqMonotonic
<1> QED
  BY <1>6, <1>7, <1>9 DEF pay, bytes, skip, len, Payload

\* The bytes that arrive can be in a message.
LEMMA ArrivedBytes ==
  ASSUME CInv
  PROVE  Arrived \cup {Garbage} \subseteq Byte /\ m.msg \in Seq(Byte)
<1>1. MaxFrames \in Nat /\ Len(sent) \in Nat /\ Len(sent) <= MaxFrames
  BY LenProperties, StreamAssumption DEF CInv, Typed
<1>2. 1 .. Len(sent) \subseteq 1 .. MaxFrames
  BY <1>1
<1> DEFINE S == Arrived \cup {Garbage}
<1>3. S \subseteq Byte
  BY <1>2 DEF Byte, Arrived
<1>4. m.msg \in Seq(S)
  BY DEF CInv, Typed, Message
<1> HIDE DEF S
<1>5. m.msg \in Seq(Byte)
  BY <1>3, <1>4, SeqMonotonic
<1> QED
  BY <1>3, <1>5 DEF S

\* A beginning of the payload that is as long as the payload is the payload.
LEMMA WholePayload ==
  ASSUME NEW n \in 1 .. MaxFrames, NEW f \in FrameType, NEW msg \in Seq(Byte), Len(msg) = f.len, Begins(n, f.skip, msg)
  PROVE  msg = Payload(n, f)
<1> DEFINE pay == Payload(n, f)
           len == f.len
<1>1. pay \in Seq(Byte) /\ Len(pay) = len /\ \A i \in 1 .. len : pay[i] = <<n, f.skip + i>>
  BY PayloadBytes
<1>2. Len(msg) = len /\ \A i \in 1 .. len : msg[i] = <<n, f.skip + i>>
  BY DEF Begins
<1>3. \A i \in 1 .. Len(msg) : msg[i] = pay[i]
  BY <1>1, <1>2
<1> HIDE DEF pay, len
<1>4. msg = pay
  BY <1>1, <1>2, <1>3, SeqEqual
<1> QED
  BY <1>4 DEF pay

\* A text is handled when the handler has the whole of its payload.
LEMMA HandlePayload ==
  ASSUME CInv, Clients, Plain, Faithful, Handle
  PROVE  /\ Now \in 1 .. Len(sent) /\ Len(got) \in Nat /\ sent[Now].op = "text"
         /\ m.msg = Payload(Now, sent[Now]) /\ m.msg \in Seq(Byte)
<1>1. PICK o, pos : Stream(o, pos) /\ Place(o, pos)
  BY DEF Faithful
<1>2. pc = "done" /\ m.op = "text"
  BY DEF Handle
<1>3. /\ Now <= Len(sent) /\ m.op = sent[Now].op
      /\ Begins(Now, sent[Now].skip, m.msg) /\ Len(m.msg) = sent[Now].len
  BY <1>1, <1>2 DEF Place, AtDone
<1>4. Handled
  BY DEF Faithful
<1>5. Now \in 1 .. Len(sent) /\ Len(got) \in Nat /\ Len(sent) \in Nat /\ sent \in Seq(FrameType)
  BY <1>1, <1>3, <1>4, WithinFrame
<1>6. Now \in 1 .. MaxFrames
  <2>1. Len(sent) <= MaxFrames /\ MaxFrames \in Nat
    BY StreamAssumption DEF CInv, Typed
  <2> QED
    BY <1>5, <2>1
<1> DEFINE n   == Now
           msg == m.msg
           f   == sent[n]
<1>7. n \in 1 .. MaxFrames /\ f \in FrameType /\ msg \in Seq(Byte) /\ Len(msg) = f.len /\ Begins(n, f.skip, msg)
  BY <1>3, <1>5, <1>6, SentFrame, ArrivedBytes
<1> HIDE DEF n, msg, f
<1>8. msg = Payload(n, f)
  BY <1>7, WholePayload
<1> QED
  BY <1>2, <1>3, <1>5, <1>7, <1>8 DEF n, msg, f

\* The text handled is the next one that was sent.
LEMMA HandleFaithful ==
  ASSUME CInv, Clients, Plain, Faithful, Handle
  PROVE  Faithful'
<1>1. PICK o, pos : Stream(o, pos) /\ Place(o, pos)
  BY DEF Faithful
<1>2. /\ pc = "done" /\ pc' = "read" /\ got' = Append(got, m.msg) /\ next' = m.next /\ m' = NewMessage
      /\ UNCHANGED <<kind, sent, wire, eof>>
  BY DEF Handle, client
<1>3. /\ Now \in 1 .. Len(sent) /\ Len(got) \in Nat /\ sent[Now].op = "text"
      /\ m.msg = Payload(Now, sent[Now]) /\ m.msg \in Seq(Byte)
  BY HandlePayload
<1>4. got \in Seq(Seq(Byte)) /\ \A j \in 1 .. Len(got) : sent[j].op = "text" /\ got[j] = Payload(j, sent[j])
  BY DEF Faithful, Handled
<1>5. /\ got' \in Seq(Seq(Byte)) /\ Len(got') = Len(got) + 1 /\ got'[Len(got) + 1] = m.msg
      /\ \A j \in 1 .. Len(got) : got'[j] = got[j]
  BY <1>2, <1>3, <1>4, AppendProperties
<1>6. Len(sent) \in Nat
  BY LenProperties DEF CInv, Typed
<1>7. Handled'
  <2>1. Len(got') <= Len(sent)
    BY <1>3, <1>5, <1>6 DEF Now
  <2>2. ASSUME NEW j \in 1 .. Len(got') PROVE sent[j].op = "text" /\ got'[j] = Payload(j, sent[j])
    <3>1. CASE j <= Len(got)
      BY <1>3, <1>4, <1>5, <3>1
    <3>2. CASE j = Len(got) + 1
      BY <1>3, <1>5, <3>2 DEF Now
    <3> QED
      BY <1>3, <1>5, <3>1, <3>2
  <2> QED
    BY <1>2, <1>5, <2>1, <2>2 DEF Handled
<1>8. Now' = Now + 1
  BY <1>5 DEF Now
<1>9. /\ Run(sent, o, m.next, o[Now + 1]) /\ pos = o[Now + 1] + Len(m.next)
      /\ kind.type = "HYBI00" => m.next = <<>>
  BY <1>1, <1>2 DEF Place, AtDone
<1>10. AtRead(o, pos)'
  BY <1>2, <1>8, <1>9 DEF AtRead
<1>11. Place(o, pos)'
  BY <1>2, <1>10 DEF Place
<1>12. Stream(o, pos)'
  BY <1>1, <1>2 DEF Stream
<1>13. Asked' /\ ~Ended'
  BY <1>2 DEF Asked, Ended
<1> QED
  BY <1>7, <1>11, <1>12, <1>13 DEF Faithful
\* A frame of RFC 6455 is read, taken apart and completed.
LEMMA FrameFaithful ==
  ASSUME CInv, Clients, Plain, Faithful, Read \/ Parse \/ Rest
  PROVE  Faithful'
<1>1. PICK o, pos : Stream(o, pos) /\ Place(o, pos)
  BY DEF Faithful
<1>2. Handled
  BY DEF Faithful
<1>3. UNCHANGED <<kind, sent, eof, got>>
  BY DEF Read, Parse, Rest, client
<1>4. CASE Read
  <2>1. \E p : Stream(o, p)' /\ Place(o, p)'
    BY <1>1, <1>2, <1>4, ReadPlace
  <2>2. pc' = "parse"
    BY <1>4 DEF Read
  <2> QED
    BY <1>3, <2>1, <2>2, GoesOn
<1>5. CASE Parse
  <2>1. Stream(o, pos)' /\ Place(o, pos)' /\ pc' \in {"rest", "done"}
    BY <1>1, <1>2, <1>5, ParsePlace
  <2> QED
    BY <1>3, <2>1, GoesOn
<1>6. CASE Rest
  <2>1. pc' \in {"rest", "done"} /\ \E p : Stream(o, p)' /\ Place(o, p)'
    BY <1>1, <1>2, <1>6, RestPlace
  <2> QED
    BY <1>3, <2>1, GoesOn
<1> QED
  BY <1>4, <1>5, <1>6

\* A client that sends whole frames has no frame that is not the last of its message.
LEMMA NoFragment ==
  ASSUME CInv, Clients, Plain, Faithful, pc = "done"
  PROVE  Head1.fin /\ Now \in 1 .. Len(sent) /\ m.op = sent[Now].op
<1>1. PICK o, pos : Stream(o, pos) /\ Place(o, pos)
  BY DEF Faithful
<1>2. buffer # <<>> /\ buffer \in Seq(Arrived) /\ Now <= Len(sent) /\ m.op = sent[Now].op
  BY <1>1 DEF Place, AtDone, CInv, Typed
<1>3. 1 \in 1 .. Len(buffer)
  BY <1>2, EmptySeq
<1>4. buffer[1][1] \in 1 .. Len(sent)
  BY <1>2, <1>3, FrameOfByte DEF CInv
<1>5. sent[buffer[1][1]].fin
  BY <1>4, SentFrame DEF Plain
<1>6. Now \in 1 .. Len(sent)
  BY <1>1, <1>2, WithinFrame DEF Faithful
<1> QED
  BY <1>2, <1>5, <1>6 DEF Head1, FrameOf

\* A frame is refused when the client has gone before its header was there, or
\* because it is too long.
LEMMA RefuseReason ==
  ASSUME CInv, Clients, Plain, Faithful, Refuse, ~kind.splits
  PROVE  Reason
<1>1. PICK o, pos : Stream(o, pos) /\ Place(o, pos)
  BY DEF Faithful
<1>2. pc = "parse" /\ kind.type = "RFC6455" /\ buffer # <<>> /\ buffer \in Seq(Arrived)
  BY DEF Refuse, CInv, Typed, Bounded
<1>3. /\ Now <= Len(sent) /\ m.len = 0 /\ Run(sent, o, buffer, o[Now])
      /\ Len(buffer) < sent[Now].skip => eof
  BY <1>1, <1>2 DEF Place, AtParse
<1>4. Now \in 1 .. Len(sent) /\ Len(sent) \in Nat /\ Offsets(sent, o)
  BY <1>1, <1>3, WithinFrame DEF Faithful
<1>5. Head1 = sent[Now]
  <2>1. Now \in 1 .. Len(sent) + 1 /\ Len(buffer) \in Nat /\ Len(buffer) > 0
    BY <1>2, <1>4, EmptySeq
  <2> QED
    BY <1>3, <1>4, <2>1, BufferAt DEF Head1
<1>6. CASE Len(buffer) < Head1.skip
  BY <1>3, <1>5, <1>6 DEF Reason
<1>7. CASE Total > MAXMESSAGE
  <2>1. sent[Now].len \in Nat /\ sent[Now].skip # 1
    BY <1>2, <1>4, SentFrame
  <2>2. sent[Now].len > MAXMESSAGE
    BY <1>3, <1>5, <1>7, <2>1 DEF Total
  <2>3. TooLong(sent[Now])
    BY <2>1, <2>2 DEF TooLong
  <2>4. Now \in DOMAIN sent
    BY <1>4 DEF CInv, Typed
  <2> QED
    BY <2>3, <2>4 DEF Reason
<1> QED
  BY <1>6, <1>7 DEF Refuse

\* The steps that end a connection, of any type, have a reason.
LEMMA EndFaithful ==
  ASSUME CInv, Clients, Plain, Faithful, Refuse \/ ReadEnd \/ RestEnd \/ ReceiveEnd \/ Leave \/ Hixie
  PROVE  Faithful'
<1>1. PICK o, pos : Stream(o, pos) /\ Place(o, pos)
  BY DEF Faithful
<1>2. UNCHANGED <<kind, sent, wire, eof, got>> /\ pc' \in {"closed", "crashed"}
  BY DEF Refuse, ReadEnd, RestEnd, ReceiveEnd, Leave, Hixie, Closed, client
<1>3. Stream(o, pos)'
  BY <1>1, <1>2 DEF Stream
<1>4. ~kind.splits => Reason
  <2>1. CASE Refuse
    BY <2>1, RefuseReason
  <2>2. CASE ReadEnd \/ RestEnd \/ ReceiveEnd
    BY <2>2 DEF ReadEnd, RestEnd, ReceiveEnd, Reason
  <2>3. CASE Leave
    <3>1. m.op # "text" /\ Now \in 1 .. Len(sent) /\ m.op = sent[Now].op
      BY <2>3, NoFragment DEF Leave
    <3>2. sent[Now].op # "cont"
      BY <3>1, SentFrame DEF Plain
    <3>3. Now \in DOMAIN sent
      BY <3>1 DEF CInv, Typed
    <3> QED
      BY <3>1, <3>2, <3>3 DEF Reason
  <2>4. CASE Hixie
    BY <2>4 DEF Hixie, Reason
  <2> QED
    BY <2>1, <2>2, <2>3, <2>4
<1> QED
  BY <1>1, <1>2, <1>3, <1>4, Stops
\* What getWholeMessage makes of bytes of a text of hybi-00: it finds the end when
\* the bytes reach it, and takes those before it.
LEMMA HybiBytes ==
  ASSUME NEW s \in Seq(Arrived), NEW n \in 1 .. Len(sent), sent[n].op = "text", NEW len \in Nat, sent[n].len = len,
         NEW q \in Nat, q <= len + 1, q + Len(s) <= len + 2, \A j \in 1 .. Len(s) : s[j] = <<n, q + j>>
  PROVE  /\ Before(s) \in Seq(Arrived) /\ Len(Before(s)) \in Nat
         /\ \A i \in 1 .. Len(Before(s)) : Before(s)[i] = <<n, q + i>>
         /\ Whether(s)  => q + Len(s) = len + 2 /\ Len(Before(s)) = len + 1 - q
         /\ ~Whether(s) => q + Len(s) <= len + 1 /\ Before(s) = s
<1>1. Len(s) \in Nat /\ DOMAIN s = 1 .. Len(s)
  BY LenProperties
<1>2. ASSUME NEW j \in 1 .. Len(s) PROVE Ends(s[j]) <=> q + j = len + 2
  <2>1. s[j] = <<n, q + j>>
    OBVIOUS
  <2>2. FrameOf(s[j]).op = "text" /\ FrameOf(s[j]).len = len /\ s[j][2] = q + j
    BY <2>1 DEF FrameOf
  <2> QED
    BY <2>2 DEF Ends
<1>3. /\ Before(s) \in Seq(Arrived)
      /\ ~Whether(s) => Before(s) = s
      /\ Whether(s) => \E j \in 1 .. Len(s) :
           Ends(s[j]) /\ Before(s) = SubSeq(s, 1, j - 1)
  BY BeforeEnd
<1>4. CASE Whether(s)
  <2>1. PICK j \in 1 .. Len(s) : Ends(s[j]) /\ Before(s) = SubSeq(s, 1, j - 1)
    BY <1>3, <1>4
  <2>2. q + j = len + 2
    BY <1>2, <2>1
  <2>3. j = Len(s) /\ q + Len(s) = len + 2
    <3> DEFINE l == Len(s)
    <3>1. l \in Nat /\ j \in 1 .. l /\ q + l <= len + 2
      BY <1>1
    <3> HIDE DEF l
    <3>2. j = l /\ q + l = len + 2
      BY <2>2, <3>1
    <3> QED
      BY <3>2 DEF l
  <2>4. j - 1 \in 0 .. Len(s)
    BY <1>1
  <2> DEFINE part == SubSeq(s, 1, j - 1)
  <2>5. part \in Seq(Arrived) /\ Len(part) = j - 1 /\ \A i \in 1 .. j - 1 : part[i] = s[i]
    BY <2>4, FirstPart
  <2> HIDE DEF part
  <2>6. Before(s) = part
    BY <2>1 DEF part
  <2>7. \A i \in 1 .. Len(part) : part[i] = <<n, q + i>>
    BY <1>1, <2>3, <2>5
  <2>8. Len(part) \in Nat /\ Len(part) = len + 1 - q
    BY <1>1, <2>2, <2>3, <2>5
  <2> QED
    BY <1>4, <2>3, <2>5, <2>6, <2>7, <2>8
<1>5. CASE ~Whether(s)
  <2>1. ASSUME q + Len(s) = len + 2 PROVE FALSE
    <3>1. Len(s) \in 1 .. Len(s)
      BY <1>1, <2>1
    <3>2. Ends(s[Len(s)])
      BY <1>2, <2>1, <3>1
    <3> QED
      BY <1>1, <1>5, <3>1, <3>2 DEF Whether
  <2>2. q + Len(s) <= len + 1
    BY <1>1, <2>1
  <2> QED
    BY <1>1, <1>3, <1>5, <2>2
<1> QED
  BY <1>4, <1>5

\* A client of hybi-00 that waits has no bytes on their way but those of the frame
\* the handler is at.
LEMMA HybiWire ==
  ASSUME CInv, Clients, Plain, Handled, kind.type = "HYBI00", NEW o, NEW pos, Stream(o, pos), wire # <<>>,
         NEW q \in Nat, Now \in 1 .. Len(sent) + 1, pos = o[Now] + q
  PROVE  /\ Now \in 1 .. Len(sent) /\ Now = Len(sent) /\ sent[Now].len \in Nat /\ sent[Now].skip = 1
         /\ sent[Now].op \in {"text", "close"} /\ o[Now] \in Nat /\ o[Now + 1] = o[Now] + (sent[Now].len + 2)
         /\ q + Len(wire) <= sent[Now].len + 2
         /\ \A j \in 1 .. Len(wire) : wire[j] = <<Now, q + j>>
<1>1. /\ sent \in Seq(FrameType) /\ Len(sent) \in Nat /\ Offsets(sent, o) /\ pos \in Nat /\ Run(sent, o, wire, pos)
      /\ wire \in Seq(Arrived) /\ Len(got) \in Nat
  BY LenProperties DEF CInv, Typed, Stream, Handled
<1>2. Len(wire) \in Nat /\ Len(wire) > 0
  BY <1>1, EmptySeq
<1>3. pos + Len(wire) <= o[Len(sent) + 1] /\ \A n \in 1 .. Len(sent) + 1 : pos >= o[n] => n <= Len(sent)
  BY <1>1, <1>2, RunWithin
<1>4. o[Now] \in Nat
  BY <1>1 DEF Offsets
<1>5. Now \in 1 .. Len(sent) /\ Now <= Len(sent)
  <2>1. pos >= o[Now]
    BY <1>4
  <2> QED
    BY <1>1, <1>3, <2>1
<1>6. Len(sent) <= Len(got) + 1
  BY DEF Plain, Waits, Clients, CInv, Typed
<1>7. Now = Len(sent)
  BY <1>1, <1>5, <1>6 DEF Now
<1> DEFINE n    == Now
           len  == sent[n].len
           on   == o[n]
           w    == Len(wire)
           size == Size(sent[n])
<1>8. /\ n \in 1 .. Len(sent) /\ len \in Nat /\ sent[n].skip = 1 /\ sent[n].op \in {"text", "close"}
      /\ size = len + 2
  BY <1>5, SentFrame
<1>9. on \in Nat /\ o[n + 1] = on + size
  BY <1>1, <1>5, OffsetNat
<1>10. o[n + 1] = on + (len + 2) /\ pos + w <= on + (len + 2) /\ pos = on + q /\ w \in Nat
  BY <1>2, <1>3, <1>7, <1>8, <1>9
<1>11. Run(sent, o, wire, o[n] + q)
  BY <1>1
<1> HIDE DEF n, len, on, w, size
<1>12. q + w <= len + 2
  BY <1>8, <1>9, <1>10
<1>13. \A j \in 1 .. Len(wire) : q + j <= Size(sent[n]) => wire[j] = <<n, q + j>>
  BY <1>1, <1>2, <1>8, <1>11, RunFrame
<1>14. \A j \in 1 .. Len(wire) : wire[j] = <<n, q + j>>
  <2> SUFFICES ASSUME NEW j \in 1 .. Len(wire) PROVE wire[j] = <<n, q + j>>
    OBVIOUS
  <2>1. q + j <= size
    BY <1>8, <1>10, <1>12 DEF w
  <2> QED
    BY <1>13, <2>1 DEF size
<1> QED
  BY <1>5, <1>7, <1>8, <1>9, <1>10, <1>12, <1>14 DEF n, len, on, w
\* The first recv of a frame of hybi-00.
LEMMA HybiReadFaithful ==
  ASSUME CInv, Clients, Plain, Faithful, HybiRead
  PROVE  Faithful'
<1>1. PICK o, pos : Stream(o, pos) /\ Place(o, pos)
  BY DEF Faithful
<1>2. pc = "read" /\ kind.type = "HYBI00" /\ UNCHANGED <<kind, sent, eof, next, got>>
  BY DEF HybiRead
<1>3. PICK k \in Chunks(BUFFERSIZE) : LET bytes == SubSeq(wire, 2, k) IN
           /\ wire' = SubSeq(wire, k + 1, Len(wire))
           /\ buffer' = SubSeq(wire, 1, k)
           /\ IF Starts(wire[1])
              THEN /\ m' = [m EXCEPT !.msg = Before(bytes), !.op = "text"]
                   /\ pc' = IF Whether(bytes) THEN "done" ELSE "more"
              ELSE /\ pc' = IF Ends(wire[1]) THEN "closed" ELSE "crashed"
                   /\ UNCHANGED m
  BY DEF HybiRead
<1>4. m = NewMessage /\ next = <<>> /\ pos = o[Now] + Len(next)
  BY <1>1, <1>2 DEF Place, AtRead
<1>5. /\ Handled /\ Len(got) \in Nat /\ Len(sent) \in Nat /\ Len(got) <= Len(sent) /\ BUFFERSIZE \in Nat
      /\ Offsets(sent, o) /\ wire \in Seq(Arrived)
  <2>1. sent \in Seq(FrameType) /\ wire \in Seq(Arrived) /\ Offsets(sent, o) /\ BUFFERSIZE \in Nat
    BY <1>1, StreamAssumption DEF CInv, Typed, Stream
  <2>2. Handled /\ got \in Seq(Seq(Byte)) /\ Len(got) <= Len(sent)
    BY DEF Faithful, Handled
  <2>3. Len(got) \in Nat /\ Len(sent) \in Nat
    BY <2>1, <2>2, LenProperties
  <2> QED
    BY <2>1, <2>2, <2>3
<1>6. Now \in 1 .. Len(sent) + 1 /\ o[Now] \in Nat /\ pos = o[Now] + 0
  <2>1. Now \in 1 .. Len(sent) + 1
    BY <1>5 DEF Now
  <2>2. o[Now] \in Nat
    BY <1>5, <2>1 DEF Offsets
  <2> QED
    BY <1>4, <2>1, <2>2
<1> DEFINE chunk == SubSeq(wire, 1, k)
<1>7. /\ Stream(o, pos + k)' /\ k \in Nat /\ k >= 1 /\ k <= Len(wire) /\ Len(wire) \in Nat
      /\ chunk \in Seq(Arrived) /\ Len(chunk) = k
  BY <1>1, <1>2, <1>3, <1>5, WireOn
<1>8. wire # <<>> /\ 0 \in Nat
  BY <1>7
<1> DEFINE n    == Now
           len  == sent[n].len
           on   == o[n]
<1>9. /\ n \in 1 .. Len(sent) /\ len \in Nat /\ sent[n].skip = 1
      /\ sent[n].op \in {"text", "close"} /\ on \in Nat /\ o[n + 1] = on + (len + 2)
      /\ 0 + Len(wire) <= len + 2
      /\ \A j \in 1 .. Len(wire) : wire[j] = <<n, 0 + j>>
  BY <1>1, <1>2, <1>5, <1>6, <1>8, HybiWire
<1>10. Len(wire) <= len + 2 /\ \A j \in 1 .. Len(wire) : wire[j] = <<n, j>>
  <2> HIDE DEF n, len
  <2> QED
    BY <1>7, <1>9
<1>11. wire[1] = <<n, 1>> /\ FrameOf(wire[1]) = sent[n] /\ wire[1][2] = 1
  <2>1. wire[1] = <<n, 1>>
    BY <1>7, <1>10
  <2> QED
    BY <2>1 DEF FrameOf
<1>12. n' = n
  BY <1>2 DEF Now
<1>13. CASE sent[n].op = "close"
  <2>1. ~Starts(wire[1]) /\ Ends(wire[1])
    BY <1>11, <1>13 DEF Starts, Ends
  <2>2. pc' = "closed"
    BY <1>3, <2>1
  <2>3. Reason
    <3>1. n \in DOMAIN sent
      BY <1>9 DEF CInv, Typed
    <3> QED
      BY <1>13, <3>1 DEF Reason
  <2> QED
    BY <1>2, <1>7, <2>2, <2>3, Stops
<1>14. CASE sent[n].op = "text"
  <2> DEFINE bytes == SubSeq(wire, 2, k)
             msg   == Before(bytes)
  <2>1. Starts(wire[1])
    BY <1>11, <1>14 DEF Starts
  <2>2. m' = [m EXCEPT !.msg = msg, !.op = "text"] /\ pc' = IF Whether(bytes) THEN "done" ELSE "more"
    BY <1>3, <2>1
  <2>3. bytes \in Seq(Arrived) /\ Len(bytes) = k - 1 /\ \A j \in 1 .. Len(bytes) : bytes[j] = <<n, 1 + j>>
    <3>1. 2 \in Nat \ {0} /\ k \in 0 .. Len(wire)
      BY <1>7
    <3>2. /\ bytes \in Seq(Arrived) /\ Len(bytes) = IF 2 <= k THEN k - 2 + 1 ELSE 0
          /\ \A j \in 1 .. (k - 2 + 1) : bytes[j] = wire[2 + j - 1]
      BY <1>5, <3>1, Part
    <3> HIDE DEF bytes, n
    <3>3. Len(bytes) = k - 1
      BY <1>7, <3>2
    <3>4. ASSUME NEW j \in 1 .. Len(bytes) PROVE bytes[j] = <<n, 1 + j>>
      <4>1. j \in 1 .. (k - 2 + 1) /\ 2 + j - 1 = 1 + j /\ 1 + j \in 1 .. Len(wire)
        BY <1>7, <3>3
      <4>2. bytes[j] = wire[1 + j]
        BY <3>2, <4>1
      <4> QED
        BY <1>10, <4>1, <4>2
    <3> QED
      BY <3>2, <3>3, <3>4
  <2>4. 1 \in Nat /\ 1 <= len + 1 /\ 1 + Len(bytes) <= len + 2
    <3> HIDE DEF bytes, len
    <3> QED
      BY <1>7, <1>9, <1>10, <2>3
  <2>5. /\ msg \in Seq(Arrived) /\ Len(msg) \in Nat
        /\ \A i \in 1 .. Len(msg) : msg[i] = <<n, 1 + i>>
        /\ Whether(bytes)  => 1 + Len(bytes) = len + 2 /\ Len(msg) = len + 1 - 1
        /\ ~Whether(bytes) => 1 + Len(bytes) <= len + 1 /\ msg = bytes
    <3> HIDE DEF bytes
    <3> QED
      BY <1>9, <1>14, <2>3, <2>4, HybiBytes
  <2> HIDE DEF bytes, msg
  <2>6. m'.msg = msg /\ m'.op = "text" /\ m'.next = <<>>
    BY <1>4, <2>2 DEF NewMessage
  <2>7. Begins(n', sent'[n'].skip, m'.msg)
    BY <1>2, <1>9, <1>12, <2>5, <2>6 DEF Begins
  <2>8. buffer' # <<>>
    <3>1. buffer' = chunk
      BY <1>3
    <3> HIDE DEF chunk
    <3> QED
      BY <1>7, <3>1
  <2>9. CASE Whether(bytes)
    <3>1. Len(msg) = len /\ k = len + 2
      <4> HIDE DEF len
      <4> QED
        BY <1>7, <1>9, <2>3, <2>5, <2>9
    <3>2. pos + k = o[n + 1] + 0 /\ o[n + 1] \in Nat
      <4> HIDE DEF len, n, on
      <4>1. pos = on + 0
        BY <1>6 DEF on, n
      <4>2. pos + k = on + (len + 2) /\ on + (len + 2) \in Nat /\ on + (len + 2) = on + (len + 2) + 0
        BY <1>9, <3>1, <4>1
      <4> QED
        BY <1>9, <4>2
    <3>3. Run(sent, o, <<>>, o[n + 1])
      BY DEF Run
    <3>4. AtDone(o, pos + k)'
      BY <1>2, <1>9, <1>12, <1>14, <2>6, <2>7, <3>1, <3>2, <3>3 DEF AtDone
    <3>5. pc' = "done"
      BY <2>2, <2>9
    <3>6. Place(o, pos + k)'
      BY <2>8, <3>4, <3>5 DEF Place
    <3> QED
      BY <1>2, <1>7, <3>5, <3>6, GoesOn
  <2>10. CASE ~Whether(bytes)
    <3>1. Len(msg) = k - 1 /\ Len(msg) <= len
      <4> HIDE DEF len
      <4> QED
        BY <1>7, <1>9, <2>3, <2>5, <2>10
    <3>2. pos + k = on + 1 + Len(msg)
      <4> HIDE DEF n, on
      <4>1. pos = on + 0
        BY <1>6 DEF on, n
      <4> QED
        BY <1>7, <1>9, <3>1, <4>1
    <3>3. AtRest(o, pos + k)'
      BY <1>2, <1>9, <1>12, <1>14, <2>6, <2>7, <3>2 DEF AtRest
    <3>4. pc' = "more"
      BY <2>2, <2>10
    <3>5. Place(o, pos + k)'
      BY <1>2, <1>12, <2>6, <2>8, <3>1, <3>3, <3>4 DEF Place
    <3> QED
      BY <1>2, <1>7, <3>4, <3>5, GoesOn
  <2> QED
    BY <2>9, <2>10
<1> QED
  BY <1>9, <1>13, <1>14

\* One round of getWholeMessage.
LEMMA HybiRestFaithful ==
  ASSUME CInv, Clients, Plain, Faithful, HybiRest
  PROVE  Faithful'
<1>1. PICK o, pos : Stream(o, pos) /\ Place(o, pos)
  BY DEF Faithful
<1>2. pc = "more" /\ kind.type = "HYBI00" /\ UNCHANGED <<kind, sent, eof, next, buffer, got>>
  BY DEF HybiRest, CInv, Bounded
<1>3. PICK k \in Chunks(BUFFERSIZE) : LET bytes == SubSeq(wire, 1, k) IN
           /\ wire' = SubSeq(wire, k + 1, Len(wire))
           /\ m' = [m EXCEPT !.msg = m.msg \o Before(bytes)]
           /\ pc' = IF Whether(bytes) THEN "done"
                    ELSE IF Len(m'.msg) >= MAXMESSAGE THEN "closed" ELSE "more"
  BY DEF HybiRest
<1> DEFINE n     == Now
           len   == sent[n].len
           on    == o[n]
           has   == Len(m.msg)
           q     == 1 + has
           bytes == SubSeq(wire, 1, k)
           taken == Before(bytes)
           S     == Arrived \cup {Garbage}
           msg   == m.msg \o taken
<1>4. /\ n <= Len(sent) /\ m.next = <<>> /\ m.op = sent[n].op /\ m.op = "text" /\ has <= len
      /\ Begins(n, sent[n].skip, m.msg) /\ pos = on + sent[n].skip + has /\ buffer # <<>>
  BY <1>1, <1>2 DEF Place, AtRest
<1>5. Handled
  BY DEF Faithful
<1>6. /\ n \in 1 .. Len(sent) /\ Len(sent) \in Nat /\ m \in Message /\ m.msg \in Seq(S) /\ has \in Nat
      /\ wire \in Seq(Arrived) /\ BUFFERSIZE \in Nat /\ MAXMESSAGE \in Nat
  BY <1>1, <1>4, <1>5, WithinFrame, StreamAssumption
<1>7. /\ Stream(o, pos + k)' /\ k \in Nat /\ k >= 1 /\ k <= Len(wire) /\ Len(wire) \in Nat
      /\ bytes \in Seq(Arrived) /\ Len(bytes) = k /\ \A j \in 1 .. k : bytes[j] = wire[j]
  BY <1>1, <1>2, <1>3, <1>6, WireOn
<1>8. sent[n].skip = 1 /\ len \in Nat /\ on \in Nat
  <2>1. sent[n].skip = 1 /\ len \in Nat
    BY <1>2, <1>6, SentFrame
  <2>2. on \in Nat
    BY <1>1, <1>4, <1>5, WithinFrame
  <2> QED
    BY <2>1, <2>2
<1>9. /\ o[n + 1] = on + (len + 2) /\ q + Len(wire) <= len + 2
      /\ \A j \in 1 .. Len(wire) : wire[j] = <<n, q + j>>
  <2>1. wire # <<>>
    BY <1>7
  <2>2. q \in Nat /\ pos = on + q
    <3> HIDE DEF on, has, n
    <3>1. pos = on + 1 + has
      BY <1>4, <1>8
    <3> QED
      BY <1>6, <1>8, <3>1
  <2>3. n \in 1 .. Len(sent) + 1
    BY <1>6
  <2> HIDE DEF q
  <2> QED
    BY <1>1, <1>2, <1>5, <2>1, <2>2, <2>3, HybiWire
<1> HIDE DEF n, len, on, has, bytes
<1>10. q \in Nat /\ q <= len + 1 /\ q + Len(bytes) <= len + 2 /\ \A j \in 1 .. Len(bytes) : bytes[j] = <<n, q + j>>
  <2>1. q \in Nat /\ q <= len + 1
    BY <1>4, <1>6, <1>8
  <2> HIDE DEF q
  <2>2. q + Len(bytes) <= len + 2
    BY <1>7, <1>8, <1>9, <2>1
  <2>3. ASSUME NEW j \in 1 .. Len(bytes) PROVE bytes[j] = <<n, q + j>>
    <3>1. j \in 1 .. k /\ j \in 1 .. Len(wire)
      BY <1>7
    <3> QED
      BY <1>7, <1>9, <3>1
  <2> QED
    BY <2>1, <2>2, <2>3
<1> HIDE DEF q
<1>11. sent[n].op = "text" /\ sent[n].len = len
  BY <1>4 DEF len
<1>12. /\ taken \in Seq(Arrived) /\ Len(taken) \in Nat
       /\ \A i \in 1 .. Len(taken) : taken[i] = <<n, q + i>>
       /\ Whether(bytes)  => q + Len(bytes) = len + 2 /\ Len(taken) = len + 1 - q
       /\ ~Whether(bytes) => q + Len(bytes) <= len + 1 /\ taken = bytes
  <2>1. n \in 1 .. Len(sent) /\ len \in Nat /\ bytes \in Seq(Arrived)
    BY <1>6, <1>7, <1>8
  <2>2. q \in Nat /\ q <= len + 1 /\ q + Len(bytes) <= len + 2
    BY <1>10
  <2>3. \A j \in 1 .. Len(bytes) : bytes[j] = <<n, q + j>>
    BY <1>10
  <2> QED
    BY <1>11, <2>1, <2>2, <2>3, HybiBytes
<1> HIDE DEF taken
<1>13. taken \in Seq(S)
  <2>1. Arrived \subseteq S
    OBVIOUS
  <2> HIDE DEF S
  <2> QED
    BY <1>12, <2>1, SeqMonotonic
<1>14. Begins(n, 1, msg) /\ Len(msg) = has + Len(taken)
  <2> DEFINE first == m.msg
             skip  == 1
  <2>1. first \in Seq(S) /\ Begins(n, skip, first) /\ q = skip + Len(first) /\ skip \in Nat
    BY <1>4, <1>6, <1>8 DEF q, has
  <2> HIDE DEF first, skip, S
  <2>2. q \in Nat
    BY <1>10
  <2>3. Begins(n, q, taken)
    BY <1>12 DEF Begins
  <2>4. Begins(n, skip, first \o taken) /\ Len(first \o taken) = Len(first) + Len(taken)
    BY <1>13, <2>1, <2>2, <2>3, BeginsBoth
  <2> QED
    BY <2>4 DEF first, skip, has
<1> HIDE DEF msg, S
<1>15. /\ m' = [m EXCEPT !.msg = msg]
       /\ pc' = IF Whether(bytes) THEN "done"
                ELSE IF Len(m'.msg) >= MAXMESSAGE THEN "closed" ELSE "more"
  BY <1>3 DEF msg, taken, bytes
<1>16. m'.msg = msg /\ m'.op = m.op /\ m'.next = <<>>
  BY <1>4, <1>6, <1>15 DEF Message
<1>17. n' = n
  BY <1>2 DEF n, Now
<1>18. Now' = n /\ Now = n /\ sent'[n] = sent[n] /\ sent[n].skip = 1 /\ on = o[n] /\ n <= Len(sent')
  BY <1>2, <1>4, <1>8, <1>17 DEF n, on
<1>19. pos = on + q /\ q = 1 + has
  <2>1. pos = on + 1 + has
    BY <1>4, <1>8
  <2> QED
    BY <1>6, <1>8, <2>1 DEF q
<1>20. CASE Whether(bytes)
  <2>1. Len(msg) = len /\ pos + k = o[n + 1] + 0 /\ o[n + 1] \in Nat
    <3>1. q + k = len + 2 /\ Len(taken) = len + 1 - q
      BY <1>7, <1>12, <1>20
    <3>2. len \in Nat /\ on \in Nat /\ has \in Nat /\ q = 1 + has /\ pos = on + q /\ k \in Nat
      BY <1>6, <1>7, <1>8, <1>19
    <3>3. Len(msg) = len
      BY <1>14, <3>1, <3>2
    <3>4. pos + k = on + (len + 2)
      BY <3>1, <3>2
    <3>5. on + (len + 2) \in Nat /\ on + (len + 2) + 0 = on + (len + 2)
      BY <3>2
    <3> QED
      BY <1>9, <3>3, <3>4, <3>5
  <2>2. pc' = "done"
    BY <1>15, <1>20
  <2>3. Run(sent', o, <<>>, o[n + 1])
    BY DEF Run
  <2>4. AtDone(o, pos + k)'
    BY <1>4, <1>11, <1>14, <1>16, <1>18, <2>1, <2>3 DEF AtDone
  <2>5. Place(o, pos + k)'
    BY <1>2, <1>4, <2>2, <2>4 DEF Place
  <2> QED
    BY <1>2, <1>7, <2>2, <2>5, GoesOn
<1>21. CASE ~Whether(bytes)
  <2>1. Len(msg) = has + k /\ Len(msg) <= len /\ pos + k = on + 1 + Len(msg)
    <3>1. q + k <= len + 1 /\ Len(taken) = k
      BY <1>7, <1>12, <1>21
    <3>2. len \in Nat /\ on \in Nat /\ has \in Nat /\ q = 1 + has /\ pos = on + q /\ k \in Nat
      BY <1>6, <1>7, <1>8, <1>19
    <3>3. Len(msg) = has + k
      BY <1>14, <3>1
    <3> QED
      BY <3>1, <3>2, <3>3
  <2>2. CASE Len(msg) >= MAXMESSAGE
    <3>1. pc' = "closed"
      BY <1>15, <1>16, <1>21, <2>2
    <3>2. TooLong(sent[n])
      BY <1>6, <1>7, <1>8, <1>11, <2>1, <2>2 DEF TooLong
    <3>3. n \in DOMAIN sent
      BY <1>6 DEF CInv, Typed
    <3>4. Reason
      BY <3>2, <3>3 DEF Reason
    <3> QED
      BY <1>2, <1>7, <3>1, <3>4, Stops
  <2>3. CASE ~(Len(msg) >= MAXMESSAGE)
    <3>1. pc' = "more"
      BY <1>15, <1>16, <1>21, <2>3
    <3>2. AtRest(o, pos + k)'
      BY <1>4, <1>11, <1>14, <1>16, <1>18, <2>1 DEF AtRest
    <3>3. m'.op = "text" /\ Len(m'.msg) <= sent'[Now'].len /\ buffer' # <<>>
      BY <1>2, <1>4, <1>11, <1>16, <1>18, <2>1
    <3>4. Place(o, pos + k)'
      BY <3>1, <3>2, <3>3 DEF Place
    <3> QED
      BY <1>2, <1>7, <3>1, <3>4, GoesOn
  <2> QED
    BY <2>2, <2>3
<1> QED
  BY <1>20, <1>21
-----------------------------------------------------------------------------
(* The steps of the client, and the answer *)

\* A frame more leaves the handler where it is.
LEMMA PlaceMore ==
  ASSUME CInv, Clients, Handled, NEW o, NEW pos, Stream(o, pos), Place(o, pos), NEW o2,
         pc \notin {"request", "respond"}, UNCHANGED <<kind, eof, handler>>,
         sent' \in Seq(FrameType), Len(sent') = Len(sent) + 1, \A n \in 1 .. Len(sent) : sent'[n] = sent[n],
         \A n \in 1 .. Len(sent) + 1 : o2[n] = o[n],
         \A byte, p : At(sent, o, byte, p) => At(sent', o2, byte, p)
  PROVE  Place(o2, pos)'
<1>1. UNCHANGED <<kind, eof, pc, next, buffer, m, got>> /\ Now' = Now
  BY DEF handler, Now
<1>2. Len(sent) \in Nat /\ Len(got) \in Nat /\ Len(got) <= Len(sent)
  BY LenProperties DEF CInv, Typed, Handled
<1>3. ASSUME NEW s, NEW p, Run(sent, o, s, p) PROVE Run(sent', o2, s, p)
  BY <1>3 DEF Run
<1>4. o2[Now] = o[Now]
  <2>1. Now \in 1 .. Len(sent) + 1
    BY <1>2 DEF Now
  <2> QED
    BY <2>1
<1>5. ASSUME Now <= Len(sent)
      PROVE  Now <= Len(sent') /\ sent'[Now] = sent[Now] /\ o2[Now + 1] = o[Now + 1]
  <2>1. Now \in 1 .. Len(sent) /\ Now + 1 \in 1 .. Len(sent) + 1 /\ Now <= Len(sent) + 1
    BY <1>2, <1>5 DEF Now
  <2> QED
    BY <2>1
<1>6. CASE pc = "read"
  <2>1. AtRead(o, pos)
    BY <1>6 DEF Place
  <2>2. AtRead(o2, pos)'
    BY <1>1, <1>3, <1>4, <2>1 DEF AtRead
  <2> QED
    BY <1>1, <1>6, <2>2 DEF Place
<1>7. CASE pc = "parse"
  <2>1. AtParse(o, pos)
    BY <1>7 DEF Place
  <2>2. AtParse(o2, pos)'
    BY <1>1, <1>3, <1>4, <1>5, <2>1 DEF AtParse
  <2> QED
    BY <1>1, <1>7, <2>2 DEF Place
<1>8. CASE pc \in {"rest", "more"}
  <2>1. AtRest(o, pos) /\ buffer # <<>>
    BY <1>8 DEF Place
  <2>2. sent'[Now] = sent[Now] /\ Now <= Len(sent')
    BY <1>5, <2>1 DEF AtRest
  <2>3. AtRest(o2, pos)'
    BY <1>1, <1>4, <2>1, <2>2 DEF AtRest
  <2> QED
    BY <1>1, <1>8, <2>1, <2>2, <2>3 DEF Place
<1>9. CASE pc = "done"
  <2>1. AtDone(o, pos) /\ buffer # <<>>
    BY <1>9 DEF Place
  <2>2. AtDone(o2, pos)'
    BY <1>1, <1>3, <1>5, <2>1 DEF AtDone
  <2> QED
    BY <1>1, <1>9, <2>1, <2>2 DEF Place
<1>10. CASE pc \in {"closed", "crashed"}
  BY <1>1, <1>10 DEF Place
<1> QED
  BY <1>6, <1>7, <1>8, <1>9, <1>10 DEF CInv, Typed, State

\* The client sends a frame.
LEMMA SendFrame ==
  ASSUME CInv, Streams
  PROVE  \E f \in kind.frames :
           /\ f \in FrameType /\ sent' = Append(sent, f) /\ wire' = wire \o Bytes(Len(sent) + 1, f)
           /\ sent' \in Seq(FrameType) /\ Len(sent) \in Nat /\ Len(sent') = Len(sent) + 1
           /\ sent'[Len(sent) + 1] = f /\ \A n \in 1 .. Len(sent) : sent'[n] = sent[n]
           /\ ~eof /\ UNCHANGED <<kind, eof, handler>> /\ pc \notin {"request", "respond"}
           /\ ~kind.hasty => Len(got) = Len(sent)
           /\ f.op = "cont" => InMessage
<1>1. PICK f \in UNION {k.frames : k \in Kind} :
             pc \notin {"request", "respond"} /\ Send(f) /\ UNCHANGED response
  BY DEF Streams
<1>2. /\ f \in kind.frames /\ sent' = Append(sent, f) /\ wire' = wire \o Bytes(Len(sent) + 1, f)
      /\ ~eof /\ UNCHANGED <<kind, eof, handler>>
      /\ ~kind.hasty => Len(got) = Len(sent)
      /\ f.op = "cont" => InMessage
  BY <1>1 DEF Send
<1>3. sent \in Seq(FrameType) /\ kind \in [type : Type, frames : SUBSET FrameType, hasty : BOOLEAN, splits : BOOLEAN]
  BY StreamAssumption DEF CInv, Typed
<1>4. f \in FrameType
  BY <1>2, <1>3
<1>5. /\ sent' \in Seq(FrameType) /\ Len(sent) \in Nat /\ Len(sent') = Len(sent) + 1
      /\ sent'[Len(sent) + 1] = f /\ \A n \in 1 .. Len(sent) : sent'[n] = sent[n]
  BY <1>2, <1>3, <1>4, AppendProperties, LenProperties
<1> QED
  BY <1>1, <1>2, <1>4, <1>5

\* A client that sends whole frames goes on to, and one that waits has the answer
\* to the frame before.
LEMMA SendClients ==
  ASSUME CInv, Clients, Streams
  PROVE  Clients'
<1>1. PICK f \in kind.frames :
           /\ Len(sent) \in Nat /\ Len(sent') = Len(sent) + 1
           /\ sent'[Len(sent) + 1] = f /\ \A n \in 1 .. Len(sent) : sent'[n] = sent[n]
           /\ UNCHANGED <<kind, eof, handler>>
           /\ ~kind.hasty => Len(got) = Len(sent)
           /\ f.op = "cont" => InMessage
  BY SendFrame
<1>2. kind' = kind /\ got' = got /\ OneFrame' = OneFrame
  BY <1>1 DEF handler, OneFrame
<1>3. ASSUME OneFrame PROVE f.op # "cont"
  <2> SUFFICES ASSUME InMessage PROVE FALSE
    BY <1>1
  <2>1. sent # <<>> /\ ~Last(sent).fin
    BY DEF InMessage
  <2>2. sent \in Seq(FrameType)
    BY DEF CInv, Typed
  <2>3. Len(sent) \in 1 .. Len(sent)
    BY <1>1, <2>1, <2>2, EmptySeq
  <2>4. sent[Len(sent)].fin
    BY <1>3, <2>3 DEF Clients, OneFrame
  <2> QED
    BY <2>1, <2>4 DEF Last
<1>4. ASSUME NEW j \in 1 .. Len(sent') PROVE sent'[j] \in kind.frames /\ (OneFrame => sent'[j].op # "cont")
  <2>1. CASE j <= Len(sent)
    <3>1. j \in 1 .. Len(sent) /\ sent'[j] = sent[j]
      BY <1>1, <2>1
    <3> QED
      BY <3>1 DEF Clients
  <2>2. CASE j = Len(sent) + 1
    BY <1>1, <1>3, <2>2
  <2> QED
    BY <1>1, <2>1, <2>2
<1>5. ASSUME kind.type = "HYBI00", ~kind.hasty PROVE Len(sent') <= Len(got) + 1
  <2>1. Len(got) = Len(sent)
    BY <1>1, <1>5
  <2> QED
    BY <1>1, <2>1
<1> QED
  BY <1>2, <1>4, <1>5 DEF Clients

\* The bytes of a frame that is sent follow those on their way.
LEMMA SendFaithful ==
  ASSUME CInv, Clients, Plain, Faithful, Streams
  PROVE  Faithful'
<1>1. PICK o, pos : Stream(o, pos) /\ Place(o, pos)
  BY DEF Faithful
<1>2. PICK f \in kind.frames :
           /\ f \in FrameType /\ sent' = Append(sent, f) /\ wire' = wire \o Bytes(Len(sent) + 1, f)
           /\ sent' \in Seq(FrameType) /\ Len(sent) \in Nat /\ Len(sent') = Len(sent) + 1
           /\ \A n \in 1 .. Len(sent) : sent'[n] = sent[n]
           /\ ~eof /\ UNCHANGED <<kind, eof, handler>> /\ pc \notin {"request", "respond"}
  BY SendFrame
<1>3. UNCHANGED <<kind, eof, pc, got>>
  BY <1>2 DEF handler
<1> DEFINE N     == Len(sent)
           more  == Append(sent, f)
           bytes == Bytes(N + 1, f)
<1>4. sent \in Seq(FrameType) /\ Offsets(sent, o) /\ Run(sent, o, wire, pos) /\ pos \in Nat /\ pos + Len(wire) = o[N + 1]
  BY <1>1, <1>2 DEF CInv, Typed, Stream
<1>5. PICK o2 :
      /\ Offsets(more, o2)
      /\ \A byte, p : At(sent, o, byte, p) => At(more, o2, byte, p)
      /\ \A n \in 1 .. N + 1 : o2[n] = o[n]
      /\ Run(more, o2, bytes, o[N + 1])
      /\ o2[N + 2] = o[N + 1] + Len(bytes)
  <2>1. f \in FrameType /\ sent \in Seq(FrameType) /\ Offsets(sent, o)
    BY <1>2, <1>4
  <2> QED
    BY <2>1, FrameMore DEF more, bytes, N
<1>6. sent' = more /\ wire' = wire \o bytes /\ N \in Nat /\ Len(more) = N + 1
  BY <1>2
<1> HIDE DEF more, bytes, N
<1>7. Handled'
  <2>1. Len(got) <= Len(sent) /\ Len(got) \in Nat
    BY LenProperties DEF Faithful, Handled
  <2>2. Len(got) <= Len(sent')
    BY <1>2, <2>1
  <2>3. ASSUME NEW j \in 1 .. Len(got) PROVE sent'[j] = sent[j]
    <3>1. j \in 1 .. Len(sent)
      BY <1>2, <2>1
    <3> QED
      BY <1>2, <3>1
  <2> QED
    BY <1>3, <2>2, <2>3 DEF Faithful, Handled
<1>8. Asked'
  BY <1>2, <1>3 DEF Asked
<1>9. Ended' /\ ~kind.splits' => Reason'
  <2> SUFFICES ASSUME Reason PROVE Reason'
    BY <1>3 DEF Faithful, Ended
  <2>1. CASE \E n \in DOMAIN sent : sent[n].op \notin {"text", "cont"} \/ TooLong(sent[n])
    <3>1. PICK n \in DOMAIN sent : sent[n].op \notin {"text", "cont"} \/ TooLong(sent[n])
      BY <2>1
    <3>2. n \in 1 .. Len(sent)
      BY <1>4
    <3>3. sent'[n] = sent[n] /\ n \in DOMAIN sent'
      BY <1>2, <3>2
    <3>4. TooLong(sent[n])' <=> TooLong(sent'[n])
      BY DEF TooLong
    <3> QED
      BY <3>1, <3>3 DEF Reason, TooLong
  <2>2. CASE eof \/ kind.type = "HIXIE75" \/ FillsBuffer
    BY <1>3, <2>2 DEF Reason, FillsBuffer
  <2> QED
    BY <2>1, <2>2 DEF Reason
<1>10. Stream(o2, pos)'
  <2> DEFINE S  == Arrived'
             w  == wire
             on == o[N + 1]
  <2>1. w \in Seq(S) /\ bytes \in Seq(S)
    <3>1. Arrived \subseteq S /\ {N + 1} \X Nat \subseteq S
      <4>1. 1 .. Len(sent) \subseteq 1 .. Len(sent') /\ N + 1 \in 1 .. Len(sent')
        BY <1>2 DEF N
      <4> QED
        BY <4>1 DEF Arrived
    <3>2. wire \in Seq(Arrived)
      BY DEF CInv, Typed
    <3>3. bytes \in Seq({N + 1} \X Nat)
      <4>1. N + 1 \in Nat
        BY <1>6
      <4> QED
        BY <1>2, <4>1, FrameBytes DEF bytes
    <3> HIDE DEF S
    <3> QED
      BY <3>1, <3>2, <3>3, SeqMonotonic
  <2>2. Run(more, o2, w, pos)
    BY <1>4, <1>5 DEF Run
  <2>3. Run(more, o2, bytes, pos + Len(w))
    BY <1>4, <1>5
  <2> HIDE DEF S, w, on
  <2>4. Run(more, o2, w \o bytes, pos)
    BY <1>4, <2>1, <2>2, <2>3, RunBoth
  <2>5. Len(w \o bytes) = Len(w) + Len(bytes) /\ Len(w) \in Nat /\ Len(bytes) \in Nat
    BY <2>1, ConcatProperties, LenProperties
  <2>6. pos + Len(w \o bytes) = o2[N + 2]
    <3>1. pos + Len(w) = on /\ o2[N + 2] = on + Len(bytes) /\ pos \in Nat
      BY <1>4, <1>5 DEF w, on
    <3> QED
      BY <2>5, <3>1
  <2>7. Len(sent') + 1 = N + 2
    BY <1>2 DEF N
  <2>8. wire' = w \o bytes
    BY <1>6 DEF w
  <2>9. Run(sent', o2, wire', pos)
    BY <1>6, <2>4, <2>8, Zenon
  <2>10. pos + Len(wire') = o2[Len(sent') + 1]
    BY <2>6, <2>7, <2>8, Zenon
  <2>11. Offsets(sent', o2)
    BY <1>5, <1>6, Zenon
  <2> QED
    BY <1>4, <2>9, <2>10, <2>11, Zenon DEF Stream
<1>11. Place(o2, pos)'
  <2>1. \A n \in 1 .. Len(sent) + 1 : o2[n] = o[n]
    BY <1>5 DEF N
  <2>2. \A byte, p : At(sent, o, byte, p) => At(sent', o2, byte, p)
    BY <1>5, <1>6, Zenon
  <2>3. Handled
    BY DEF Faithful
  <2> QED
    BY <1>1, <1>2, <2>1, <2>2, <2>3, PlaceMore
<1> QED
  BY <1>7, <1>8, <1>9, <1>10, <1>11 DEF Faithful
\* A client that goes takes the last of the bytes with it.
LEMMA HangupFaithful ==
  ASSUME CInv, Clients, Plain, Faithful, Leaves
  PROVE  Faithful'
<1>1. PICK o, pos : Stream(o, pos) /\ Place(o, pos)
  BY DEF Faithful
<1>2. eof' = TRUE /\ UNCHANGED <<kind, sent, pc, next, buffer, m, got, string>>
  BY DEF Leaves, Hangup, handler, response
<1>3. PICK k \in 0 .. Smaller(MaxLost, Len(wire)) : wire' = SubSeq(wire, 1, Len(wire) - k)
  BY DEF Leaves, Hangup
<1>4. wire \in Seq(Arrived) /\ Len(wire) \in Nat /\ MaxLost \in Nat /\ Offsets(sent, o) /\ pos \in Nat /\ Run(sent, o, wire, pos)
  BY <1>1, LenProperties, StreamAssumption DEF CInv, Typed, Stream
<1>5. Len(wire) - k \in 0 .. Len(wire)
  BY <1>4 DEF Smaller
<1>6. Run(sent, o, SubSeq(wire, 1, Len(wire) - k), pos)
  BY <1>4, <1>5, RunParts
<1>7. Stream(o, pos)'
  BY <1>2, <1>3, <1>4, <1>6, Zenon DEF Stream
<1>8. Place(o, pos)'
  BY <1>1, <1>2 DEF Place, AtRequest, AtRead, AtParse, AtRest, AtDone, Now
<1>9. Handled' /\ Asked' /\ Reason'
  BY <1>2 DEF Faithful, Handled, Asked, Reason
<1> QED
  BY <1>7, <1>8, <1>9 DEF Faithful

\* A step that leaves bytes, messages and the part of the request received alone.
LEMMA SameFaithful ==
  ASSUME Faithful, UNCHANGED <<kind, sent, wire, eof, pc, next, buffer, m, got, string>>
  PROVE  Faithful'
<1>1. PICK o, pos : Stream(o, pos) /\ Place(o, pos)
  BY DEF Faithful
<1>2. Stream(o, pos)'
  BY <1>1 DEF Stream
<1>3. Place(o, pos)'
  BY <1>1 DEF Place, AtRequest, AtRead, AtParse, AtRest, AtDone, Now
<1>4. Handled' /\ Asked' /\ (Ended' /\ ~kind.splits' => Reason')
  BY DEF Faithful, Handled, Asked, Ended, Reason, FillsBuffer, TooLong
<1> QED
  BY <1>2, <1>3, <1>4 DEF Faithful

\* Of a request that the network does not cut, only one that fills buffers is refused.
LEMMA ReceiveReason ==
  ASSUME CInv, Faithful, Receive, ~kind.splits
  PROVE  /\ pc' = "closed"  => Reason
         /\ pc' = "request" => \E q \in Nat : string' = q * BUFFERSIZE
<1>1. PICK k \in Arrives :
         /\ string' = string + k
         /\ pc' = CASE string = 0 /\ k < 14              -> "closed"
                    [] string' = HeadLen + Behind       -> "respond"
                    [] string' = HeadLen /\ Behind # 0  -> "closed"
                    [] OTHER                            -> "request"
  BY DEF Receive
<1>2. PICK q \in Nat : string = q * BUFFERSIZE
  BY DEF Faithful, Asked, Receive
<1>3. /\ string \in Nat /\ HeadLen \in Nat /\ HeadLen >= 14 /\ BUFFERSIZE \in Nat /\ BUFFERSIZE > 14
      /\ Behind \in {0, 8} /\ (Behind # 0 => kind.type = "HYBI00")
  BY StreamAssumption, RequestAssumption DEF Faithful, Asked, Receive, Behind
<1>4. k \in Nat /\ k \in {BUFFERSIZE, HeadLen + Behind - string}
  BY <1>3 DEF Arrives, Smaller
<1>5. CASE k = HeadLen + Behind - string
  <2>1. string' = HeadLen + Behind /\ ~(string = 0 /\ k < 14) /\ ~(string' = HeadLen /\ Behind # 0)
    BY <1>1, <1>3, <1>4, <1>5
  <2> QED
    BY <1>1, <2>1
<1>6. CASE k = BUFFERSIZE
  <2>1. q + 1 \in Nat /\ string' = (q + 1) * BUFFERSIZE
    BY <1>1, <1>2, <1>3, <1>6
  <2>2. ASSUME pc' = "closed" PROVE Reason
    <3>1. ~(string = 0 /\ k < 14)
      BY <1>3, <1>6
    <3>2. string' = HeadLen /\ Behind # 0
      BY <1>1, <2>2, <3>1
    <3>3. q + 1 <= (q + 1) * BUFFERSIZE
      BY <1>3
    <3>4. q + 1 \in 1 .. HeadLen /\ HeadLen = (q + 1) * BUFFERSIZE
      BY <1>3, <2>1, <3>2, <3>3
    <3>5. FillsBuffer
      BY <1>3, <3>2, <3>4 DEF FillsBuffer
    <3> QED
      BY <3>5 DEF Reason
  <2> QED
    BY <2>1, <2>2
<1> QED
  BY <1>4, <1>5, <1>6

\* Nothing but the request has come.
LEMMA ReceiveFaithful ==
  ASSUME CInv, Clients, Plain, Faithful, Receive
  PROVE  Faithful'
<1>1. PICK o, pos : Stream(o, pos) /\ Place(o, pos)
  BY DEF Faithful
<1>2. /\ pc = "request" /\ UNCHANGED <<kind, sent, wire, eof, next, buffer, m, got>>
      /\ pc' \in {"request", "respond", "closed"}
  BY DEF Receive, client
<1>3. Stream(o, pos)'
  BY <1>1, <1>2 DEF Stream
<1>4. AtRequest(pos)'
  BY <1>1, <1>2 DEF Place, AtRequest
<1>5. Place(o, pos)'
  BY <1>2, <1>4 DEF Place
<1>6. Handled'
  BY <1>2 DEF Faithful, Handled
<1>7. Asked'
  <2>1. string' \in Nat
    <3>1. PICK k \in Arrives : string' = string + k
      BY DEF Receive
    <3>2. string \in Nat /\ BUFFERSIZE \in Nat /\ HeadLen \in Nat /\ Behind \in Nat
      BY <1>2, StreamAssumption, RequestAssumption DEF Faithful, Asked, Behind
    <3>3. k \in Nat
      BY <3>2 DEF Arrives, Smaller
    <3> QED
      BY <3>1, <3>2, <3>3
  <2> QED
    BY <1>2, <2>1, ReceiveReason DEF Asked
<1>8. Ended' /\ ~kind.splits' => Reason'
  <2>1. Reason => Reason'
    BY <1>2 DEF Reason, FillsBuffer, TooLong
  <2> QED
    BY <1>2, <2>1, ReceiveReason DEF Ended
<1> QED
  BY <1>3, <1>5, <1>6, <1>7, <1>8 DEF Faithful

\* With the answer the handler comes to the first frame; the size of the answer is
\* as computed.
LEMMA RespondFaithful ==
  ASSUME CInv, Clients, Plain, Faithful, Respond
  PROVE  Faithful'
<1>1. PICK o, pos : Stream(o, pos) /\ Place(o, pos)
  BY DEF Faithful
<1>2. /\ pc = "respond" /\ piece = Len(Pieces) /\ UNCHANGED <<kind, sent, wire, eof, next, buffer, m, got>>
      /\ pc' = IF memlen = length THEN "read" ELSE "closed"
  BY DEF Respond, client
<1>3. memlen = length
  <2>1. kind.type \in Type
    BY StreamAssumption DEF CInv, Typed
  <2>2. h \in Request
    BY <1>2 DEF CInv, Answering
  <2>3. PICK f : Pieces \in Seq(Nat) /\ Sums(Pieces, f, length)
    BY <2>1, <2>2, PiecesFit DEF Adds
  <2>4. memlen = f[piece]
    BY <1>2, <2>3 DEF CInv, Answering
  <2> QED
    BY <1>2, <2>3, <2>4 DEF Sums
<1>4. pc' = "read"
  BY <1>2, <1>3
<1>5. pos = 0 /\ sent = <<>> /\ next = <<>> /\ m = NewMessage /\ got = <<>>
  BY <1>1, <1>2 DEF Place, AtRequest
<1>6. Stream(o, pos)'
  BY <1>1, <1>2 DEF Stream
<1>7. Now' = 1 /\ o[1] = 0
  <2>1. Len(got') = 0
    BY <1>2, <1>5
  <2> QED
    BY <1>1, <2>1 DEF Now, Stream, Offsets
<1>8. AtRead(o, pos)'
  <2>1. Run(sent', o, <<>>, o[Now'])
    BY DEF Run
  <2>2. pos = o[Now'] + Len(<<>>)
    BY <1>5, <1>7
  <2> QED
    BY <1>2, <1>5, <2>1, <2>2 DEF AtRead
<1>9. Place(o, pos)'
  BY <1>4, <1>8 DEF Place
<1> QED
  BY <1>2, <1>4, <1>6, <1>9, GoesOn

-----------------------------------------------------------------------------
(* A connection is not ended before its time *)

\* The invariant of the stream holds at first.
LEMMA SInvInit == Init => SInv
<1> SUFFICES ASSUME Init PROVE SInv
  OBVIOUS
<1>1. /\ sent = <<>> /\ wire = <<>> /\ eof = FALSE /\ pc = "request" /\ next = <<>>
      /\ m = NewMessage /\ got = <<>> /\ string = 0
  BY DEF Init, NewClient
<1>2. CInv
  BY CInvInit
<1>3. Clients
  BY <1>1 DEF Clients
<1> DEFINE o == [n \in 1 .. 1 |-> 0]
<1>4. Len(sent) = 0 /\ Len(wire) = 0
  BY <1>1
<1>5. Offsets(sent, o)
  BY <1>4 DEF Offsets
<1>6. Stream(o, 0)
  BY <1>4, <1>5 DEF Stream, Run
<1>7. Place(o, 0)
  BY <1>1 DEF Place, AtRequest
<1>8. Handled
  BY <1>1 DEF Handled
<1>9. Asked
  <2>1. string = 0 * BUFFERSIZE
    BY <1>1, StreamAssumption
  <2> QED
    BY <1>1, <2>1 DEF Asked
<1>10. ~Ended
  BY <1>1 DEF Ended
<1> QED
  BY <1>2, <1>3, <1>6, <1>7, <1>8, <1>9, <1>10 DEF SInv, Faithful

\* Only a client sends, and what was handled stays handled.
LEMMA ClientsStep ==
  ASSUME CInv, Clients, UNCHANGED <<kind, sent>>, got' = got \/ got' = Append(got, m.msg), got \in Seq(Seq(Byte))
  PROVE  Clients'
<1>1. Len(got) \in Nat /\ Len(sent) \in Nat
  BY LenProperties DEF CInv, Typed
<1>2. Len(got') \in Nat /\ Len(got) <= Len(got')
  <2>1. Len(Append(got, m.msg)) = Len(got) + 1
    BY <1>1
  <2> QED
    BY <1>1, <2>1
<1>3. OneFrame' = OneFrame
  BY DEF OneFrame
<1>4. Len(sent) <= Len(got) + 1 => Len(sent) <= Len(got') + 1
  BY <1>1, <1>2
<1> QED
  BY <1>3, <1>4 DEF Clients
\* What kind of client it is does not change.
LEMMA KindStays ==
  ASSUME [Next]_<<vars, response>>
  PROVE  kind' = kind
<1>1. CASE Streams \/ Leaves
  BY <1>1 DEF Streams, Leaves, Send, Hangup
<1>2. CASE Handles
  BY <1>2 DEF Handles, Receive, ReceiveEnd, Copy, Respond, HandlerNext, Read, ReadEnd, Refuse, Parse, Rest, RestEnd,
              Fragment, Handle, Leave, HybiRead, HybiRest, Hixie, client
<1>3. CASE UNCHANGED <<vars, response>>
  BY <1>3 DEF vars
<1> QED
  BY <1>1, <1>2, <1>3 DEF Next

\* Every step keeps it.
LEMMA SInvStep == SInv /\ [Next]_<<vars, response>> => SInv'
<1> SUFFICES ASSUME SInv, [Next]_<<vars, response>> PROVE SInv'
  OBVIOUS
<1>1. CInv /\ CInv'
  BY CInvStep DEF SInv
<1>2. kind' = kind
  BY KindStays
<1>3. Plain' = Plain
  BY <1>2 DEF Plain, OneFrame, Waits
<1> SUFFICES ASSUME Plain PROVE Clients' /\ Faithful'
  BY <1>1, <1>3 DEF SInv
<1>4. Clients /\ Faithful /\ got \in Seq(Seq(Byte))
  BY DEF SInv, Faithful, Handled
<1>5. CASE Streams
  BY <1>1, <1>4, <1>5, SendClients, SendFaithful
<1>6. CASE Leaves
  <2>1. UNCHANGED <<sent, got>>
    BY <1>6 DEF Leaves, Hangup, handler
  <2> QED
    BY <1>1, <1>2, <1>4, <1>6, <2>1, ClientsStep, HangupFaithful
<1>7. CASE Receive \/ Respond
  <2>1. UNCHANGED <<sent, got>>
    BY <1>7 DEF Receive, Respond, client
  <2> QED
    BY <1>1, <1>2, <1>4, <1>7, <2>1, ClientsStep, ReceiveFaithful, RespondFaithful
<1>8. CASE Copy \/ UNCHANGED <<vars, response>>
  <2>1. UNCHANGED <<sent, wire, eof, pc, next, buffer, m, got, string>>
    BY <1>8 DEF Copy, client, handler, vars, response
  <2> QED
    BY <1>1, <1>2, <1>4, <2>1, ClientsStep, SameFaithful
<1>9. CASE Refuse \/ ReadEnd \/ RestEnd \/ ReceiveEnd \/ Leave \/ Hixie
  <2>1. UNCHANGED <<sent, got>>
    BY <1>9 DEF Refuse, ReadEnd, RestEnd, ReceiveEnd, Leave, Hixie, Closed, client
  <2> QED
    BY <1>1, <1>2, <1>4, <1>9, <2>1, ClientsStep, EndFaithful
<1>10. CASE Read \/ Parse \/ Rest
  <2>1. UNCHANGED <<sent, got>>
    BY <1>10 DEF Read, Parse, Rest, client
  <2> QED
    BY <1>1, <1>2, <1>4, <1>10, <2>1, ClientsStep, FrameFaithful
<1>11. CASE Fragment
  BY <1>1, <1>4, <1>11, NoFragment DEF Fragment
<1>12. CASE Handle
  <2>1. sent' = sent /\ got' = Append(got, m.msg)
    BY <1>12 DEF Handle, client
  <2> QED
    BY <1>1, <1>2, <1>4, <1>12, <2>1, ClientsStep, HandleFaithful
<1>13. CASE HybiRead \/ HybiRest
  <2>1. UNCHANGED <<sent, got>>
    BY <1>13 DEF HybiRead, HybiRest
  <2> QED
    BY <1>1, <1>2, <1>4, <1>13, <2>1, ClientsStep, HybiReadFaithful, HybiRestFaithful
<1> QED
  BY <1>5, <1>6, <1>7, <1>8, <1>9, <1>10, <1>11, <1>12, <1>13 DEF Next, Handles, HandlerNext

\* Spec ends the connection of a client that sends every message in one frame and,
\* of hybi-00, waits, only for a reason, as long as the network cuts no request and
\* no header, for frames and buffers of any size (handleClient, communicate).
THEOREM NotDroppedHolds == Spec => []NotDropped
<1>1. SInv => NotDropped
  BY DEF SInv, Plain, Faithful, Reason, NotDropped
<1>2. Spec => []SInv
  BY SInvInit, SInvStep, PTL DEF Spec
<1> QED
  BY <1>1, <1>2, PTL

-----------------------------------------------------------------------------
(* A connection delivers what was sent *)

\* The texts before the first frame of another kind.
FirstTexts(fr) == {n \in DOMAIN fr : \A j \in 1 .. n : fr[j].op = "text"}

\* The texts before a frame of another kind are the first k frames.
LEMMA FirstTextsAre ==
  ASSUME NEW fr \in Seq(FrameType)
  PROVE  \E k \in 0 .. Len(fr) : /\ FirstTexts(fr) = 1 .. k
                                 /\ \A j \in 1 .. k : fr[j].op = "text"
                                 /\ k < Len(fr) => fr[k + 1].op # "text"
<1> DEFINE N         == Len(fr)
           Texted(n) == \A j \in 1 .. n : fr[j].op = "text"
<1>1. DOMAIN fr = 1 .. N /\ N \in Nat
  BY LenProperties
<1>2. \E k \in 0 .. N : Texted(k) /\ (k < N => fr[k + 1].op # "text")
  <2>1. CASE Texted(N)
    BY <1>1, <2>1
  <2>2. CASE ~Texted(N)
    <3> DEFINE S == {j \in 1 .. N : fr[j].op # "text"}
    <3>1. S \in SUBSET Nat /\ S # {}
      BY <1>1, <2>2
    <3>2. PICK x \in S : \A y \in S : x <= y
      BY <3>1, LeastExists
    <3>3. x \in 1 .. N /\ fr[x].op # "text" /\ x - 1 \in 0 .. N /\ (x - 1) + 1 = x
      BY <1>1, <3>2
    <3>4. ASSUME NEW j \in 1 .. x - 1, fr[j].op # "text" PROVE FALSE
      <4>1. j \in 1 .. N /\ j < x /\ j \in Int /\ x \in Int
        BY <1>1, <3>3
      <4>2. x <= j
        BY <3>2, <3>4, <4>1
      <4> QED
        BY <4>1, <4>2
    <3>5. Texted(x - 1)
      BY <3>4
    <3> HIDE DEF S, Texted
    <3> QED
      BY <3>3, <3>5
  <2> QED
    BY <2>1, <2>2
<1>3. PICK k \in 0 .. N : Texted(k) /\ (k < N => fr[k + 1].op # "text")
  BY <1>2
<1>4. FirstTexts(fr) = 1 .. k
  <2>1. ASSUME NEW n \in 1 .. k PROVE n \in DOMAIN fr /\ Texted(n)
    <3>1. n \in 1 .. N /\ 1 .. n \subseteq 1 .. k
      BY <1>1
    <3> QED
      BY <1>1, <1>3, <3>1
  <2>2. ASSUME NEW n \in DOMAIN fr, Texted(n) PROVE n \in 1 .. k
    <3>1. n \in 1 .. N
      BY <1>1
    <3>2. ASSUME k < n PROVE FALSE
      <4>1. k < N /\ k + 1 \in 1 .. n
        BY <1>1, <3>1, <3>2
      <4> QED
        BY <1>3, <2>2, <4>1
    <3> QED
      BY <1>1, <3>1, <3>2
  <2> QED
    BY <2>1, <2>2 DEF FirstTexts
<1> QED
  BY <1>3, <1>4

\* The payloads of the first k frames are messages.
LEMMA PayloadsAre ==
  ASSUME NEW fr \in Seq(FrameType), Len(fr) <= MaxFrames, NEW k \in 0 .. Len(fr),
         NEW s, s = [n \in 1 .. k |-> Payload(n, fr[n])]
  PROVE  s \in Seq(Seq(Byte)) /\ Len(s) = k /\ \A n \in 1 .. k : s[n] = Payload(n, fr[n])
<1>1. Len(fr) \in Nat /\ MaxFrames \in Nat
  BY LenProperties, StreamAssumption
<1> DEFINE P(n) == Payload(n, fr[n])
<1>2. ASSUME NEW n \in 1 .. k PROVE P(n) \in Seq(Byte)
  <2>1. n \in 1 .. Len(fr) /\ n \in 1 .. MaxFrames
    BY <1>1
  <2>2. fr[n] \in FrameType
    BY <1>1, <2>1, ElementOfSeq
  <2> QED
    BY <2>1, <2>2, PayloadBytes
<1>3. s = [n \in 1 .. k |-> P(n)]
  OBVIOUS
<1> HIDE DEF P
<1>4. k \in Nat
  BY <1>1
<1>5. s \in Seq(Seq(Byte)) /\ Len(s) = k /\ \A n \in 1 .. k : s[n] = P(n)
  BY <1>2, <1>3, <1>4
<1> QED
  BY <1>5 DEF P

\* A frame that is sent is submitted when it and all before it are texts.
LEMMA SendSubmits ==
  ASSUME CInv, CInv', Streams
  PROVE  \/ Submitted' = Submitted
         \/ /\ Len(Submitted') = Len(Submitted) + 1
            /\ SubSeq(Submitted', 1, Len(Submitted)) = Submitted
            /\ Submitted'[Len(Submitted')] \in Seq(Byte)
<1>1. PICK f \in kind.frames :
           /\ Len(sent) \in Nat /\ Len(sent') = Len(sent) + 1
           /\ sent'[Len(sent) + 1] = f /\ \A n \in 1 .. Len(sent) : sent'[n] = sent[n]
  BY SendFrame
<1>2. sent \in Seq(FrameType) /\ Len(sent) <= MaxFrames /\ sent' \in Seq(FrameType) /\ Len(sent') <= MaxFrames
  BY DEF CInv, Typed
<1>3. PICK k \in 0 .. Len(sent) : /\ FirstTexts(sent) = 1 .. k
                                  /\ \A j \in 1 .. k : sent[j].op = "text"
                                  /\ k < Len(sent) => sent[k + 1].op # "text"
  BY <1>2, FirstTextsAre
<1>4. PICK l \in 0 .. Len(sent') : /\ FirstTexts(sent') = 1 .. l
                                   /\ \A j \in 1 .. l : sent'[j].op = "text"
                                   /\ l < Len(sent') => sent'[l + 1].op # "text"
  BY <1>2, FirstTextsAre
<1>5. Submitted = [n \in 1 .. k |-> Payload(n, sent[n])] /\ Submitted' = [n \in 1 .. l |-> Payload(n, sent'[n])]
  BY <1>3, <1>4, Zenon DEF Submitted, FirstTexts, Payload
<1> DEFINE s == Submitted
           t == Submitted'
<1>6. /\ s \in Seq(Seq(Byte)) /\ Len(s) = k /\ \A n \in 1 .. k : s[n] = Payload(n, sent[n])
      /\ t \in Seq(Seq(Byte)) /\ Len(t) = l /\ \A n \in 1 .. l : t[n] = Payload(n, sent'[n])
  BY <1>2, <1>5, PayloadsAre
<1>7. k <= l
  <2> SUFFICES ASSUME l < k PROVE FALSE
    BY <1>1
  <2>1. l + 1 \in 1 .. k /\ l + 1 \in 1 .. Len(sent) /\ l < Len(sent')
    BY <1>1
  <2> QED
    BY <1>1, <1>3, <1>4, <2>1
<1>8. l <= k + 1
  <2> SUFFICES ASSUME l > k + 1 PROVE FALSE
    BY <1>1
  <2>1. k < Len(sent) /\ k + 1 \in 1 .. l /\ k + 1 \in 1 .. Len(sent)
    BY <1>1
  <2> QED
    BY <1>1, <1>3, <1>4, <2>1
<1> HIDE DEF s, t
<1>9. \A n \in 1 .. k : t[n] = s[n]
  <2> SUFFICES ASSUME NEW n \in 1 .. k PROVE t[n] = s[n]
    OBVIOUS
  <2>1. n \in 1 .. l /\ n \in 1 .. Len(sent)
    BY <1>1, <1>7
  <2> QED
    BY <1>1, <1>6, <2>1
<1>10. CASE l = k
  <2>1. t = s
    BY <1>6, <1>9, <1>10, SeqEqual
  <2> QED
    BY <2>1 DEF s, t
<1>11. CASE l = k + 1
  <2>1. Len(t) = Len(s) + 1
    BY <1>6, <1>11
  <2>2. t[Len(t)] \in Seq(Byte)
    <3>1. Len(t) \in 1 .. Len(t)
      BY <1>1, <1>6, <1>11
    <3> QED
      BY <1>6, <3>1, ElementOfSeq
  <2>3. SubSeq(t, 1, Len(s)) = s
    <3>1. k \in 0 .. Len(t)
      BY <1>1, <1>6, <1>11
    <3> DEFINE part == SubSeq(t, 1, k)
    <3>2. part \in Seq(Seq(Byte)) /\ Len(part) = k /\ \A j \in 1 .. k : part[j] = t[j]
      BY <1>6, <3>1, FirstPart
    <3> HIDE DEF part
    <3>3. \A j \in 1 .. Len(s) : s[j] = part[j]
      BY <1>6, <1>9, <3>2
    <3>4. s = part
      BY <1>6, <3>2, <3>3, SeqEqual
    <3> QED
      BY <1>6, <3>4 DEF part
  <2> QED
    BY <2>1, <2>2, <2>3 DEF s, t
<1> QED
  BY <1>1, <1>7, <1>8, <1>10, <1>11

\* What is handled is what was submitted at its place.
LEMMA HandleSubmitted ==
  ASSUME CInv, Clients, Plain, Faithful, Handle
  PROVE  Len(got) < Len(Submitted) /\ m.msg = Submitted[Len(got) + 1]
<1>1. /\ Now \in 1 .. Len(sent) /\ Len(got) \in Nat /\ sent[Now].op = "text" /\ m.msg = Payload(Now, sent[Now])
  BY HandlePayload
<1>2. sent \in Seq(FrameType) /\ Len(sent) <= MaxFrames /\ Len(sent) \in Nat /\ DOMAIN sent = 1 .. Len(sent)
  BY LenProperties DEF CInv, Typed
<1>3. PICK k \in 0 .. Len(sent) : FirstTexts(sent) = 1 .. k
  BY <1>2, FirstTextsAre
<1>4. Submitted = [n \in 1 .. k |-> Payload(n, sent[n])]
  BY <1>3, Zenon DEF Submitted, FirstTexts
<1>5. Len(Submitted) = k /\ \A n \in 1 .. k : Submitted[n] = Payload(n, sent[n])
  BY <1>2, <1>4, PayloadsAre
<1>6. \A j \in 1 .. Len(got) : sent[j].op = "text"
  BY DEF Faithful, Handled
<1>7. Now \in FirstTexts(sent)
  <2>1. \A j \in 1 .. Now : j \in 1 .. Len(got) \/ j = Now
    BY <1>1 DEF Now
  <2> QED
    BY <1>1, <1>2, <1>6, <2>1 DEF FirstTexts
<1>8. Now \in 1 .. k
  BY <1>3, <1>7
<1> QED
  BY <1>1, <1>2, <1>5, <1>8 DEF Now
\* The handler of a connection that has ended does nothing more.
LEMMA NoMore ==
  ASSUME Handles
  PROVE  ~Ended
<1>1. pc \in {"request", "respond", "read", "parse", "rest", "more", "done"}
  BY DEF Handles, Receive, ReceiveEnd, Copy, Respond, HandlerNext, Read, ReadEnd, Refuse, Parse, Rest, RestEnd,
         Fragment, Handle, Leave, HybiRead, HybiRest, Hixie
<1> QED
  BY <1>1 DEF Ended

\* At first nothing is submitted and nothing handled.
LEMMA ChannelInit == Init => FrameChannel!Init
<1> SUFFICES ASSUME Init PROVE FrameChannel!Init
  OBVIOUS
<1>1. sent = <<>> /\ got = <<>> /\ ~Ended
  BY DEF Init, NewClient, Ended
<1>2. CInv
  BY CInvInit
<1>3. Submitted = <<>>
  <2>1. sent \in Seq(FrameType) /\ Len(sent) = 0 /\ Len(sent) <= MaxFrames
    BY <1>1, <1>2 DEF CInv, Typed
  <2>2. PICK k \in 0 .. Len(sent) : FirstTexts(sent) = 1 .. k
    BY <2>1, FirstTextsAre
  <2>3. Submitted = [n \in 1 .. k |-> Payload(n, sent[n])]
    BY <2>2, Zenon DEF Submitted, FirstTexts
  <2>4. Submitted \in Seq(Seq(Byte)) /\ Len(Submitted) = k
    BY <2>1, <2>3, PayloadsAre
  <2>5. Len(Submitted) = 0
    BY <2>1, <2>4
  <2> QED
    BY <2>4, <2>5, EmptySeq
<1> QED
  BY <1>1, <1>3 DEF FrameChannel!Init

\* A step of the connection is one of the channel, or none.
LEMMA ChannelStep ==
  SInv /\ SInv' /\ [Next]_<<vars, response>>
    => [FrameChannel!Next]_<<IF OneFrame /\ Waits THEN Submitted ELSE <<>>,
                             IF OneFrame /\ Waits THEN got ELSE <<>>, ~Ended>>
<1> SUFFICES ASSUME SInv, SInv', [Next]_<<vars, response>>
             PROVE  [FrameChannel!Next]_<<IF OneFrame /\ Waits THEN Submitted ELSE <<>>,
                                          IF OneFrame /\ Waits THEN got ELSE <<>>, ~Ended>>
  OBVIOUS
<1> DEFINE asked    == IF OneFrame /\ Waits THEN Submitted ELSE <<>>
           answered == IF OneFrame /\ Waits THEN got ELSE <<>>
<1>1. CInv /\ CInv'
  BY DEF SInv
<1>2. kind' = kind
  BY KindStays
<1>3. OneFrame' = OneFrame /\ Waits' = Waits /\ Plain' = Plain
  BY <1>2 DEF Plain, OneFrame, Waits
<1>4. CASE Streams
  <2>1. UNCHANGED <<got, pc>>
    BY <1>4 DEF Streams, Send, handler
  <2>2. UNCHANGED <<answered, Ended>>
    BY <1>3, <2>1 DEF Ended
  <2>3. CASE Submitted' = Submitted \/ ~(OneFrame /\ Waits)
    <3>1. asked' = asked
      BY <1>3, <2>3
    <3> QED
      BY <2>2, <3>1
  <2>4. CASE OneFrame /\ Waits /\ ~(Submitted' = Submitted)
    <3>1. asked = Submitted /\ asked' = Submitted'
      BY <1>3, <2>4
    <3>2. /\ Len(Submitted') = Len(Submitted) + 1
          /\ SubSeq(Submitted', 1, Len(Submitted)) = Submitted
          /\ Submitted'[Len(Submitted')] \in Seq(Byte)
      BY <1>1, <1>4, <2>4, SendSubmits
    <3>3. FrameChannel!Submit
      BY <2>2, <3>1, <3>2 DEF FrameChannel!Submit
    <3> QED
      BY <3>3 DEF FrameChannel!Next
  <2> QED
    BY <2>3, <2>4
<1>5. ASSUME sent' = sent PROVE asked' = asked
  BY <1>3, <1>5 DEF Submitted
<1>6. CASE Handle
  <2>1. sent' = sent /\ got' = Append(got, m.msg) /\ ~Ended /\ ~Ended'
    BY <1>6 DEF Handle, client, Ended
  <2>2. CASE OneFrame /\ Waits
    <3>1. Len(got) < Len(Submitted) /\ m.msg = Submitted[Len(got) + 1]
      BY <1>1, <1>6, <2>2, HandleSubmitted DEF SInv, Plain
    <3>2. asked = Submitted /\ answered = got /\ answered' = got'
      BY <1>3, <2>2
    <3>3. FrameChannel!Handle
      BY <1>5, <2>1, <3>1, <3>2 DEF FrameChannel!Handle
    <3> QED
      BY <3>3 DEF FrameChannel!Next
  <2>3. CASE ~(OneFrame /\ Waits)
    BY <1>3, <1>5, <2>1, <2>3
  <2> QED
    BY <2>2, <2>3
<1>7. CASE ~Streams /\ ~Handle
  <2>1. UNCHANGED <<sent, got>>
    <3>1. CASE Leaves
      BY <3>1 DEF Leaves, Hangup, handler
    <3>2. CASE Handles
      BY <1>7, <3>2 DEF Handles, Receive, ReceiveEnd, Copy, Respond, HandlerNext, Read, ReadEnd, Refuse, Parse, Rest,
                  RestEnd, Fragment, Leave, HybiRead, HybiRest, Hixie, Closed, client, handler
    <3>3. CASE UNCHANGED <<vars, response>>
      BY <3>3 DEF vars
    <3> QED
      BY <1>7, <3>1, <3>2, <3>3 DEF Next
  <2>2. asked' = asked /\ answered' = answered
    BY <1>3, <1>5, <2>1
  <2>3. CASE Ended' = Ended
    BY <2>2, <2>3
  <2>4. CASE ~(Ended' = Ended)
    <3>1. ~Ended
      <4>1. CASE Leaves
        BY <2>4, <4>1 DEF Leaves, Hangup, handler, Ended
      <4>2. CASE UNCHANGED <<vars, response>>
        BY <2>4, <4>2 DEF vars, Ended
      <4> QED
        BY <1>7, <4>1, <4>2, NoMore DEF Next
    <3>2. Ended'
      BY <2>4, <3>1 DEF Ended
    <3>3. FrameChannel!Close
      BY <2>2, <3>1, <3>2 DEF FrameChannel!Close
    <3> QED
      BY <3>3 DEF FrameChannel!Next
  <2> QED
    BY <2>3, <2>4
<1> QED
  BY <1>4, <1>6, <1>7

\* Spec implements the channel: the messages handled are those that were sent, in
\* their order, each once and whole, for clients that send every message in one
\* frame and, of hybi-00, wait (communicate, parseMessage, getRemainingMessage,
\* getWholeMessage, handleClient).
THEOREM DeliversFramesHolds == Spec => DeliversFrames
<1>1. Spec => []SInv
  BY SInvInit, SInvStep, PTL DEF Spec
<1>2. Init => FrameChannel!Init
  BY ChannelInit
<1> QED
  BY <1>1, <1>2, ChannelStep, PTL DEF Spec, DeliversFrames, FrameChannel!Spec

-----------------------------------------------------------------------------
(* No message is handled before its last fragment is sent.  The handler may
   read the bytes behind a fragment twice over, or never, so that what it has
   need not be a stretch of what was sent; but it is in order.               *)

\* Byte b can come after byte a: it is not of an earlier frame, nor the first of the same.
Follows(a, b) == a[1] <= b[1] /\ (b[2] = 1 => a[1] < b[1])
Ordered(s)    == \A i, j \in 1 .. Len(s) : i < j => Follows(s[i], s[j])
Ahead(s, t)   == \A i \in 1 .. Len(s), j \in 1 .. Len(t) : Follows(s[i], t[j])
Within(s, t)  == \A j \in 1 .. Len(s) : \E i \in 1 .. Len(t) : s[j] = t[i]

\* Bytes that come after the first of frame f, and bytes among which every text
\* that begins is behind frame e.
Past(s, f)  == \A j \in 1 .. Len(s) : Follows(<<f, 1>>, s[j])
Later(s, e) == \A j \in 1 .. Len(s) : s[j][2] = 1 /\ FrameOf(s[j]).op = "text" => e < s[j][1]

\* The frames up to the e-th with which a text ends.
EndsText(n) == sent[n].fin /\ sent[n].op \in {"text", "cont"}
Complete(e) == {n \in 1 .. e : EndsText(n)}

\* What the clients send: nothing follows a close frame, and a text that is not
\* whole goes on.
Spoken == /\ \A n \in 1 .. Len(sent) : sent[n] \in kind.frames
          /\ \A n \in 1 .. Len(sent) - 1 :
               /\ sent[n].op # "close"
               /\ sent[n].op \in {"text", "cont"} /\ ~sent[n].fin => sent[n + 1].op = "cont"

\* Between two messages; in a text that began with frame f; in a text of hybi-00.
Idle(e)     == m.next = <<>> /\ Ordered(next) /\ Ahead(next, wire) /\ Later(next, e)
Begun(e, f) == /\ e < f /\ sent[f].op = "text" /\ next = <<>>
               /\ Ordered(m.next) /\ Ahead(m.next, wire) /\ Past(m.next, f) /\ Past(wire, f)
               /\ pc \in {"parse", "rest", "done"} => f <= buffer[1][1]
               /\ pc = "parse" => Ordered(buffer) /\ Ahead(buffer, wire)
AtText(e)   == /\ next = <<>> /\ m.next = <<>>
               /\ pc \in {"more", "done"} =>
                    /\ Past(wire, buffer[1][1])
                    /\ IF Head1.op = "text" THEN e < buffer[1][1]
                                            ELSE buffer[1][1] = Len(sent) /\ pc = "more"

\* The handler ends, or it takes another byte for the first of a frame.
Lost == Ended \/ (pc = "parse" /\ buffer[1][2] # 1)

\* While it reads a message, the handler knows the opcode of its first frame, and
\* of hixie-75 it reads none.
Underway == pc \in {"parse", "rest", "done", "more"} =>
              m.op # "none" /\ buffer # <<>> /\ kind.type # "HIXIE75"

\* The messages handled are no more than the texts that end with one of the first
\* e frames, and the text at hand began behind them.
NotYet(e) == /\ Len(got) <= Cardinality(Complete(e))
             /\ Ordered(wire) /\ Later(wire, e)
             /\ m.op = "none" => Idle(e)
             /\ m.op = "text" /\ kind.type = "RFC6455" /\ ~Lost => \E f \in 1 .. Len(sent) : Begun(e, f)
             /\ kind.type = "HYBI00" => AtText(e)

NInv == CInv /\ got \in Seq(Seq(Byte)) /\ Spoken /\ Underway /\ \E e \in 0 .. Len(sent) : NotYet(e)

\* Bytes of which others are taken.
LEMMA WithinKeeps ==
  ASSUME NEW s, NEW t, Within(s, t)
  PROVE  /\ \A f : Past(t, f) => Past(s, f)
         /\ \A e : Later(t, e) => Later(s, e)
         /\ \A u : Ahead(t, u) => Ahead(s, u)
         /\ \A u : Ahead(u, t) => Ahead(u, s)
<1>1. \A j \in 1 .. Len(s) : \E i \in 1 .. Len(t) : s[j] = t[i]
  BY DEF Within
<1>2. ASSUME NEW f, Past(t, f) PROVE Past(s, f)
  BY <1>1, <1>2 DEF Past
<1>3. ASSUME NEW e, Later(t, e) PROVE Later(s, e)
  BY <1>1, <1>3 DEF Later
<1>4. ASSUME NEW u, Ahead(t, u) PROVE Ahead(s, u)
  BY <1>1, <1>4 DEF Ahead
<1>5. ASSUME NEW u, Ahead(u, t) PROVE Ahead(u, s)
  BY <1>1, <1>5 DEF Ahead
<1> QED
  BY <1>2, <1>3, <1>4, <1>5

\* A sequence in order, cut in two.
LEMMA OrderedCut ==
  ASSUME NEW S, NEW s \in Seq(S), NEW b \in 0 .. Len(s)
  PROVE  LET first == SubSeq(s, 1, b)
             last  == SubSeq(s, b + 1, Len(s))
         IN /\ first \in Seq(S) /\ last \in Seq(S) /\ Within(first, s) /\ Within(last, s)
            /\ Ordered(s) => Ordered(first) /\ Ordered(last) /\ Ahead(first, last)
<1> DEFINE first == SubSeq(s, 1, b)
           last  == SubSeq(s, b + 1, Len(s))
<1>1. Len(s) \in Nat /\ b \in Nat /\ b <= Len(s)
  BY LenProperties
<1>2. first \in Seq(S) /\ Len(first) = b /\ \A j \in 1 .. b : first[j] = s[j]
  BY FirstPart
<1>3. last \in Seq(S) /\ Len(last) = Len(s) - b /\ \A j \in 1 .. Len(s) - b : last[j] = s[b + j]
  BY LastPart
<1> HIDE DEF first, last
<1>4. /\ \A j \in 1 .. Len(first) : j \in 1 .. Len(s) /\ first[j] = s[j]
      /\ \A j \in 1 .. Len(last) : b + j \in 1 .. Len(s) /\ last[j] = s[b + j]
  BY <1>1, <1>2, <1>3
<1>5. Within(first, s) /\ Within(last, s)
  BY <1>4 DEF Within
<1>6. ASSUME Ordered(s) PROVE Ordered(first) /\ Ordered(last) /\ Ahead(first, last)
  <2>1. \A i, j \in 1 .. Len(s) : i < j => Follows(s[i], s[j])
    BY <1>6 DEF Ordered
  <2>2. Ordered(first)
    BY <1>4, <2>1 DEF Ordered
  <2>3. \A i, j \in 1 .. Len(last) : i < j => b + i < b + j
    BY <1>1, <1>3
  <2>4. Ordered(last)
    BY <1>4, <2>1, <2>3 DEF Ordered
  <2>5. \A i \in 1 .. Len(first), j \in 1 .. Len(last) : i < b + j
    BY <1>1, <1>2, <1>3
  <2>6. Ahead(first, last)
    BY <1>4, <2>1, <2>5 DEF Ahead
  <2> QED
    BY <2>2, <2>4, <2>6
<1> QED
  BY <1>2, <1>3, <1>5, <1>6 DEF first, last

\* Two sequences in order, put behind one another.
LEMMA OrderedBoth ==
  ASSUME NEW S, NEW s \in Seq(S), NEW t \in Seq(S)
  PROVE  /\ Ordered(s) /\ Ordered(t) /\ Ahead(s, t) => Ordered(s \o t)
         /\ \A u : Ahead(s, u) /\ Ahead(t, u) => Ahead(s \o t, u)
         /\ \A u : Ahead(u, s) /\ Ahead(u, t) => Ahead(u, s \o t)
         /\ \A e : Later(s, e) /\ Later(t, e) => Later(s \o t, e)
         /\ \A f : Past(s, f) /\ Past(t, f) => Past(s \o t, f)
<1>1. Len(s) \in Nat /\ Len(t) \in Nat
  BY LenProperties
<1> DEFINE st == s \o t
<1>2. /\ Len(st) = Len(s) + Len(t)
      /\ \A k \in 1 .. Len(s) + Len(t) : st[k] = IF k <= Len(s) THEN s[k] ELSE t[k - Len(s)]
  BY ConcatProperties
<1> HIDE DEF st
<1>3. ASSUME NEW k \in 1 .. Len(st) PROVE \/ k \in 1 .. Len(s) /\ st[k] = s[k]
                                          \/ k > Len(s) /\ k - Len(s) \in 1 .. Len(t) /\ st[k] = t[k - Len(s)]
  BY <1>1, <1>2
<1>4. ASSUME Ordered(s), Ordered(t), Ahead(s, t), NEW i \in 1 .. Len(st), NEW j \in 1 .. Len(st), i < j
      PROVE  Follows(st[i], st[j])
  <2>1. CASE i \in 1 .. Len(s) /\ j \in 1 .. Len(s) /\ st[i] = s[i] /\ st[j] = s[j]
    BY <1>4, <2>1 DEF Ordered
  <2>2. CASE i \in 1 .. Len(s) /\ st[i] = s[i] /\ j > Len(s) /\ j - Len(s) \in 1 .. Len(t) /\ st[j] = t[j - Len(s)]
    BY <1>4, <2>2 DEF Ahead
  <2>3. CASE /\ i > Len(s) /\ i - Len(s) \in 1 .. Len(t) /\ st[i] = t[i - Len(s)]
             /\ j > Len(s) /\ j - Len(s) \in 1 .. Len(t) /\ st[j] = t[j - Len(s)]
    <3>1. i - Len(s) < j - Len(s)
      BY <1>1, <1>2, <1>4
    <3> QED
      BY <1>4, <2>3, <3>1 DEF Ordered
  <2>4. ~(i > Len(s) /\ j \in 1 .. Len(s))
    BY <1>1, <1>4
  <2> QED
    BY <1>3, <2>1, <2>2, <2>3, <2>4
<1>5. Ordered(s) /\ Ordered(t) /\ Ahead(s, t) => Ordered(st)
  BY <1>4 DEF Ordered
<1>6. ASSUME NEW u, Ahead(s, u), Ahead(t, u) PROVE Ahead(st, u)
  BY <1>3, <1>6 DEF Ahead
<1>7. ASSUME NEW u, Ahead(u, s), Ahead(u, t) PROVE Ahead(u, st)
  BY <1>3, <1>7 DEF Ahead
<1>8. ASSUME NEW e, Later(s, e), Later(t, e) PROVE Later(st, e)
  BY <1>3, <1>8 DEF Later
<1>9. ASSUME NEW f, Past(s, f), Past(t, f) PROVE Past(st, f)
  BY <1>3, <1>9 DEF Past
<1> QED
  BY <1>5, <1>6, <1>7, <1>8, <1>9 DEF st

\* Nothing is in order, and comes before and after everything.
LEMMA NothingOrdered ==
  /\ Ordered(<<>>) /\ \A u : Ahead(<<>>, u) /\ Ahead(u, <<>>) /\ Past(<<>>, u) /\ Later(<<>>, u)
BY DEF Ordered, Ahead, Past, Later

\* Bytes that come after others come after the first of their frames.
LEMMA AheadPast ==
  ASSUME NEW s, NEW t, Ahead(s, t), NEW i \in 1 .. Len(s)
  PROVE  Past(t, s[i][1])
BY DEF Ahead, Past, Follows

\* What is left of the bytes on their way after a recv, and what was received.
LEMMA Drawn ==
  ASSUME CInv, NEW room \in Nat, NEW k \in Chunks(room)
  PROVE  LET chunk == SubSeq(wire, 1, k)
             rest  == SubSeq(wire, k + 1, Len(wire))
         IN /\ chunk \in Seq(Arrived) /\ rest \in Seq(Arrived) /\ Len(chunk) = k /\ k \in Nat /\ k >= 1
            /\ Within(chunk, wire) /\ Within(rest, wire)
            /\ chunk[1] = wire[1] /\ Len(wire) >= 1 /\ wire[1] \in Arrived
            /\ Ordered(wire) => Ordered(chunk) /\ Ordered(rest) /\ Ahead(chunk, rest)
<1>1. wire \in Seq(Arrived)
  BY DEF CInv, Typed
<1>2. k \in 1 .. Len(wire) /\ Len(wire) \in Nat
  BY <1>1, WireRest, LenProperties
<1>3. k \in 0 .. Len(wire)
  BY <1>2
<1>4. Len(SubSeq(wire, 1, k)) = k /\ \A j \in 1 .. k : SubSeq(wire, 1, k)[j] = wire[j]
  BY <1>1, WireRest
<1>5. wire[1] \in Arrived
  BY <1>1, <1>2, ElementOfSeq
<1> QED
  BY <1>1, <1>2, <1>3, <1>4, <1>5, OrderedCut

\* The client's frames, and what ends a text, do not change when none is sent.
LEMMA SameFrames ==
  ASSUME UNCHANGED <<kind, sent>>
  PROVE  /\ Spoken' = Spoken /\ \A e : Complete(e)' = Complete(e)
         /\ \A s, e : Later(s, e)' <=> Later(s', e)
BY DEF Spoken, Complete, EndsText, Later, FrameOf

\* A step of the handler that handles no message keeps the number of those that are.
LEMMA HandlerNotYet ==
  ASSUME NInv, CInv', NEW e \in 0 .. Len(sent), NotYet(e), UNCHANGED <<kind, sent, got>>, Underway',
         Ordered(wire'), Later(wire', e),
         m'.op = "none" => /\ m'.next = <<>> /\ Ordered(next') /\ Ahead(next', wire') /\ Later(next', e),
         m'.op = "text" /\ kind.type = "RFC6455" /\ ~Lost' => \E f \in 1 .. Len(sent) : Begun(e, f)',
         kind.type = "HYBI00" => AtText(e)'
  PROVE  NInv'
<1>1. Spoken' /\ Complete(e)' = Complete(e) /\ Later(wire, e)' /\ (Later(next', e) => Later(next, e)')
  BY DEF NInv, Spoken, Complete, EndsText, Later, FrameOf
<1>2. Len(got') <= Cardinality(Complete(e)')
  BY <1>1 DEF NotYet
<1>3. Ordered(wire)'
  BY DEF Ordered
<1>4. m'.op = "none" => Idle(e)'
  BY <1>1 DEF Idle, Ordered, Ahead
<1>5. NotYet(e)'
  BY <1>1, <1>2, <1>3, <1>4 DEF NotYet
<1> QED
  BY <1>1, <1>5 DEF NInv

\* A step that leaves what was received alone.
LEMMA SameNotYet ==
  ASSUME NInv, CInv', UNCHANGED <<client, next, buffer, m, got>>,
         \/ pc' \in {"closed", "crashed"}
         \/ pc \in {"request", "respond", "done"} /\ pc' \in {"request", "respond", "read"}
         \/ pc' = pc
  PROVE  NInv'
<1>1. UNCHANGED <<kind, sent, eof, wire, next, buffer, m, got>>
  BY DEF client
<1>2. PICK e \in 0 .. Len(sent) : NotYet(e)
  BY DEF NInv
<1>3. Ordered(wire') /\ Later(wire', e)
  BY <1>1, <1>2 DEF NotYet
<1>4. m'.op = "none" => /\ m'.next = <<>> /\ Ordered(next') /\ Ahead(next', wire') /\ Later(next', e)
  BY <1>1, <1>2 DEF NotYet, Idle
<1>5. ASSUME m'.op = "text", kind.type = "RFC6455", ~Lost' PROVE \E f \in 1 .. Len(sent) : Begun(e, f)'
  <2>1. ~Lost
    BY <1>1, <1>5 DEF Lost, Ended
  <2>2. PICK f \in 1 .. Len(sent) : Begun(e, f)
    BY <1>1, <1>2, <1>5, <2>1 DEF NotYet
  <2>3. pc' \in {"parse", "rest", "done"} => pc' = pc
    OBVIOUS
  <2>4. Begun(e, f)'
    BY <1>1, <2>2, <2>3 DEF Begun, Ordered, Ahead, Past
  <2> QED
    BY <2>4
<1>6. ASSUME kind.type = "HYBI00" PROVE AtText(e)'
  <2>1. AtText(e)
    BY <1>2, <1>6 DEF NotYet
  <2>2. pc' \in {"more", "done"} => pc' = pc
    OBVIOUS
  <2> QED
    BY <1>1, <2>1, <2>2 DEF AtText, Past, Head1, FrameOf
<1>7. Underway'
  BY <1>1 DEF NInv, Underway
<1> QED
  BY <1>1, <1>2, <1>3, <1>4, <1>5, <1>6, <1>7, HandlerNotYet

\* A recv of a frame.
LEMMA ReadNotYet ==
  ASSUME NInv, CInv', Read
  PROVE  NInv'
<1>1. /\ kind.type = "RFC6455" /\ pc = "read" /\ pc' = "parse" /\ next' = <<>> /\ UNCHANGED <<kind, sent, eof, got>>
      /\ m' = [m EXCEPT !.op = IF @ = "none" THEN FrameOf(buffer'[1]).op ELSE @]
  BY DEF Read
<1>2. PICK e \in 0 .. Len(sent) : NotYet(e)
  BY DEF NInv
<1>3. CInv /\ Ordered(wire) /\ Later(wire, e) /\ m \in Message /\ next \in Seq(Arrived)
  BY <1>2 DEF NInv, NotYet, CInv, Typed
<1>4. m' \in Message /\ m'.next = m.next /\ m'.op = IF m.op = "none" THEN FrameOf(buffer'[1]).op ELSE m.op
  <2>1. Message' = Message
    BY <1>1 DEF Message, Arrived
  <2> QED
    BY <1>1, <1>3, <2>1 DEF CInv, Typed, Message
<1>5. buffer' \in Seq(Arrived) /\ wire' \in Seq(Arrived) /\ Len(buffer') >= 1
  BY <1>3, ReadBuffer
<1>6. m'.op # "none" /\ buffer' # <<>>
  <2>1. Arrived' = Arrived
    BY <1>1 DEF Arrived
  <2>2. FrameOf(buffer'[1]).op \in Op
    <3>1. 1 \in 1 .. Len(buffer')
      BY <1>5, LenProperties
    <3> QED
      BY <1>3, <1>5, <3>1, FrameOfByte DEF CInv
  <2>3. buffer' # <<>>
    BY <1>5
  <2> QED
    BY <1>4, <2>2, <2>3 DEF Op
<1>7. \/ /\ Within(wire', wire) /\ Ordered(wire')
         /\ \E chunk \in Seq(Arrived) : /\ buffer' = next \o chunk /\ Len(chunk) >= 1 /\ Within(chunk, wire)
                                        /\ Ordered(chunk) /\ Ahead(chunk, wire')
      \/ wire' = wire /\ buffer' = next /\ ~NeedMore
  <2>1. CASE NeedMore
    <3>1. PICK k \in Chunks(BUFFERSIZE - Len(next)) : /\ buffer' = next \o SubSeq(wire, 1, k)
                                                     /\ wire' = SubSeq(wire, k + 1, Len(wire))
      BY <2>1 DEF Read
    <3>2. BUFFERSIZE - Len(next) \in Nat
      BY <1>3, LenProperties, StreamAssumption DEF CInv, Bounded
    <3> QED
      BY <1>3, <3>1, <3>2, Drawn
  <2>2. CASE ~NeedMore
    BY <2>2 DEF Read
  <2> QED
    BY <2>1, <2>2
<1>8. Ordered(wire') /\ Later(wire', e) /\ Within(wire', wire)
  BY <1>3, <1>7, WithinKeeps DEF Within
<1>9. ASSUME m'.op = "text", ~Lost' PROVE \E f \in 1 .. Len(sent) : Begun(e, f)'
  <2>1. buffer'[1][2] = 1 /\ buffer'[1][1] \in 1 .. Len(sent)
    <3>1. 1 \in 1 .. Len(buffer')
      BY <1>5, LenProperties
    <3>2. buffer'[1] \in Arrived
      BY <1>5, <3>1, ElementOfSeq
    <3> QED
      BY <1>1, <1>9, <3>2 DEF Lost, Arrived
  <2>2. CASE m.op = "none"
    <3>1. m.next = <<>> /\ Ordered(next) /\ Ahead(next, wire) /\ Later(next, e)
      BY <1>2, <2>2 DEF NotYet, Idle
    <3>2. Ordered(buffer') /\ Ahead(buffer', wire') /\ Later(buffer', e)
      <4>1. CASE wire' = wire /\ buffer' = next
        BY <3>1, <4>1
      <4>2. CASE \E chunk \in Seq(Arrived) : /\ buffer' = next \o chunk /\ Len(chunk) >= 1 /\ Within(chunk, wire)
                                             /\ Ordered(chunk) /\ Ahead(chunk, wire')
        <5>1. PICK chunk \in Seq(Arrived) : /\ buffer' = next \o chunk /\ Within(chunk, wire)
                                            /\ Ordered(chunk) /\ Ahead(chunk, wire')
          BY <4>2
        <5>2. Later(chunk, e) /\ Ahead(next, chunk) /\ Ahead(next, wire')
          BY <1>3, <1>8, <3>1, <5>1, WithinKeeps
        <5> QED
          BY <1>3, <3>1, <5>1, <5>2, OrderedBoth
      <4> QED
        BY <1>7, <4>1, <4>2
    <3> PICK f \in 1 .. Len(sent) : f = buffer'[1][1]
      BY <2>1
    <3>3. 1 \in 1 .. Len(buffer')
      BY <1>5, LenProperties
    <3>4. FrameOf(buffer'[1]).op = "text"
      BY <1>4, <1>9, <2>2
    <3>5. e < f /\ sent[f].op = "text" /\ Past(wire', f)
      BY <2>1, <3>2, <3>3, <3>4, AheadPast DEF Later, FrameOf
    <3>6. Ordered(m'.next) /\ Ahead(m'.next, wire') /\ Past(m'.next, f)
      BY <1>4, <3>1, NothingOrdered
    <3>7. f <= f
      BY <2>1
    <3>8. Begun(e, f)'
      BY <1>1, <3>2, <3>5, <3>6, <3>7 DEF Begun, Ordered, Ahead, Past
    <3> QED
      BY <3>8
  <2>3. CASE m.op = "text"
    <3>1. ~Lost
      BY <1>1 DEF Lost, Ended
    <3>2. PICK f \in 1 .. Len(sent) : Begun(e, f)
      BY <1>1, <1>2, <2>3, <3>1 DEF NotYet
    <3>3. next = <<>> /\ Past(wire, f) /\ Ordered(m.next) /\ Ahead(m.next, wire) /\ Past(m.next, f)
      BY <3>2 DEF Begun
    <3>4. PICK chunk \in Seq(Arrived) : /\ buffer' = next \o chunk /\ Len(chunk) >= 1 /\ Within(chunk, wire)
                                        /\ Ordered(chunk) /\ Ahead(chunk, wire')
      <4>1. buffer' # next
        BY <1>5, <3>3
      <4> QED
        BY <1>7, <4>1
    <3>5. buffer' = chunk
      BY <3>3, <3>4
    <3>6. Past(chunk, f) /\ Past(wire', f) /\ Ahead(m.next, wire')
      BY <1>8, <3>3, <3>4, WithinKeeps
    <3>7. f <= buffer'[1][1]
      <4>1. 1 \in 1 .. Len(chunk)
        BY <3>4, LenProperties
      <4> QED
        BY <3>5, <3>6, <4>1 DEF Past, Follows
    <3>8. Begun(e, f)'
      BY <1>1, <1>4, <3>2, <3>3, <3>4, <3>5, <3>6, <3>7 DEF Begun, Ordered, Ahead, Past
    <3> QED
      BY <3>8
  <2> QED
    BY <1>4, <1>9, <2>2, <2>3
<1> QED
  BY <1>1, <1>2, <1>6, <1>8, <1>9, HandlerNotYet DEF Underway

\* The frame at the head of the buffer is parsed.
LEMMA ParseNotYet ==
  ASSUME NInv, CInv', Parse
  PROVE  NInv'
<1>1. /\ pc = "parse" /\ buffer[1][2] = 1 /\ UNCHANGED <<client, next, buffer, got>>
      /\ UNCHANGED <<kind, sent, eof, wire>> /\ ~Lost
  BY DEF Parse, client, Lost, Ended
<1>2. PICK e \in 0 .. Len(sent) : NotYet(e)
  BY DEF NInv
<1>3. CInv /\ kind.type = "RFC6455" /\ buffer \in Seq(Arrived) /\ buffer # <<>>
  BY <1>1 DEF NInv, CInv, Typed, Bounded
<1>4. PICK body \in Seq(Arrived), copied \in Nat :
           /\ body = SubSeq(buffer, Head1.skip + 1, Len(buffer)) /\ Len(body) = Len(buffer) - Head1.skip
           /\ m'.len = Total /\ m'.op = m.op /\ m'.next = Cut(body) /\ m' \in Message
           /\ pc' \in CASE m.len + copied < Total -> {"rest"}
                        [] m.len + copied = Total -> {"done"}
                        [] m.len + copied > Total -> {"closed", "crashed"}
  BY <1>3, ParseMessage
<1>5. Ordered(wire') /\ Later(wire', e)
  BY <1>1, <1>2 DEF NotYet
<1>6. m.op # "none" /\ m'.op # "none" /\ buffer' # <<>>
  BY <1>1, <1>4 DEF NInv, Underway
<1>7. ASSUME m'.op = "text" PROVE \E f \in 1 .. Len(sent) : Begun(e, f)'
  <2>1. PICK f \in 1 .. Len(sent) : Begun(e, f)
    BY <1>1, <1>2, <1>3, <1>4, <1>7 DEF NotYet
  <2>2. /\ e < f /\ sent[f].op = "text" /\ next = <<>> /\ Past(wire, f) /\ f <= buffer[1][1]
        /\ Ordered(buffer) /\ Ahead(buffer, wire) /\ Ordered(m.next) /\ Ahead(m.next, wire) /\ Past(m.next, f)
    BY <1>1, <2>1 DEF Begun
  <2>3. Ordered(m'.next) /\ Ahead(m'.next, wire) /\ Past(m'.next, f)
    <3>1. CASE Cut(body) = m.next
      BY <1>4, <2>2, <3>1
    <3>2. CASE Cut(body) # m.next
      <4>1. Len(body) > Total /\ m'.next = SubSeq(body, Total + 1, Len(body))
        BY <1>4, <3>2 DEF Cut
      <4>2. Len(buffer) \in Nat /\ Len(buffer) >= 1 /\ 1 \in 1 .. Len(buffer)
        BY <1>3, EmptySeq, LenProperties
      <4>3. Head1.skip \in {1, 6, 8, 14} /\ Head1.len \in Nat
        BY <1>3, <4>2, FrameOfByte DEF Head1, CInv
      <4>4. Len(body) \in Nat /\ m.len \in Nat
        BY <1>3, LenProperties DEF CInv, Typed, Message
      <4>5. Total \in 0 .. Len(body)
        BY <4>1, <4>3, <4>4 DEF Total
      <4>6. /\ Head1.skip \in 0 .. Len(buffer) /\ Head1.skip \in Nat /\ Head1.skip >= 1
            /\ Len(body) = Len(buffer) - Head1.skip
        <5>1. Len(body) = Len(buffer) - Head1.skip
          BY <1>4
        <5> QED
          BY <4>2, <4>3, <4>4, <5>1
      <4>7. Within(body, buffer) /\ Ordered(body)
        BY <1>3, <1>4, <2>2, <4>6, OrderedCut
      <4>8. Past(body, f)
        <5>1. Ordered(buffer) /\ \A j \in 1 .. Len(body) : body[j] = buffer[Head1.skip + j]
          BY <1>3, <1>4, <2>2, <4>6, LastPart
        <5>2. ASSUME NEW j \in 1 .. Len(body) PROVE Follows(<<f, 1>>, body[j])
          <6>1. Head1.skip + j \in 1 .. Len(buffer) /\ 1 < Head1.skip + j
            BY <4>2, <4>4, <4>6
          <6>2. Follows(buffer[1], buffer[Head1.skip + j])
            BY <4>2, <5>1, <6>1 DEF Ordered
          <6>3. buffer[1] \in Arrived /\ buffer[Head1.skip + j] \in Arrived
            BY <1>3, <4>2, <6>1, ElementOfSeq
          <6>4. buffer[1][1] \in Nat /\ buffer[Head1.skip + j][1] \in Nat
            BY <6>3 DEF Arrived
          <6>5. Follows(<<f, 1>>, buffer[Head1.skip + j])
            BY <2>2, <6>2, <6>4 DEF Follows
          <6> QED
            BY <5>1, <6>5
        <5> QED
          BY <5>2 DEF Past
      <4>9. Within(m'.next, body) /\ Ordered(m'.next)
        BY <4>1, <4>5, <4>7, OrderedCut
      <4>10. Ahead(body, wire)
        BY <2>2, <4>7, WithinKeeps
      <4> QED
        BY <4>8, <4>9, <4>10, WithinKeeps
    <3> QED
      BY <3>1, <3>2
  <2>4. pc' # "parse" /\ buffer' = buffer /\ next' = next /\ wire' = wire /\ sent' = sent
    <3>1. m.len \in Nat /\ Total \in Nat
      BY <1>4 DEF NInv, CInv, Typed, Message
    <3>2. \/ m.len + copied < Total \/ m.len + copied = Total \/ m.len + copied > Total
      BY <3>1
    <3>3. pc' \in {"rest", "done", "closed", "crashed"}
      BY <1>4, <3>2
    <3> QED
      BY <1>1, <3>3
  <2>5. Begun(e, f)'
    BY <2>2, <2>3, <2>4 DEF Begun, Ordered, Ahead, Past
  <2> QED
    BY <2>5
<1>8. m'.op # "none" /\ buffer' # <<>> /\ kind.type = "RFC6455"
  BY <1>3, <1>6
<1> QED
  BY <1>1, <1>2, <1>5, <1>7, <1>8, HandlerNotYet DEF Underway

\* One round of getRemainingMessage.
LEMMA RestNotYet ==
  ASSUME NInv, CInv', Rest
  PROVE  NInv'
<1>1. pc = "rest" /\ UNCHANGED <<kind, sent, eof, next, buffer, got>> /\ ~Lost
  BY DEF Rest, Lost, Ended
<1>2. PICK e \in 0 .. Len(sent) : NotYet(e)
  BY DEF NInv
<1>3. CInv /\ kind.type = "RFC6455" /\ Ordered(wire) /\ Later(wire, e) /\ BUFFERSIZE \in Nat
  BY <1>1, <1>2, StreamAssumption DEF NInv, CInv, Bounded, NotYet
<1> DEFINE lack == m.len - Len(m.msg)
<1>4. PICK k \in Chunks(BUFFERSIZE) :
           /\ SubSeq(wire, 1, k) \in Seq(Arrived) /\ Len(SubSeq(wire, 1, k)) = k
           /\ wire' = SubSeq(wire, k + 1, Len(wire))
           /\ m'.op = m.op
           /\ m'.next = IF k > lack THEN SubSeq(SubSeq(wire, 1, k), lack + 1, k) ELSE m.next
           /\ pc' = IF Len(m'.msg) >= m.len THEN "done" ELSE "rest"
  BY <1>3, RestMessage
<1> DEFINE chunk == SubSeq(wire, 1, k)
<1>5. /\ Within(chunk, wire) /\ Within(wire', wire) /\ k \in Nat
      /\ Ordered(chunk) /\ Ordered(wire') /\ Ahead(chunk, wire')
  BY <1>3, <1>4, Drawn
<1>6. Later(wire', e)
  BY <1>3, <1>5, WithinKeeps
<1>7. m'.op # "none" /\ buffer' # <<>>
  BY <1>1, <1>4 DEF NInv, Underway
<1>8. ASSUME m'.op = "text" PROVE \E f \in 1 .. Len(sent) : Begun(e, f)'
  <2>1. PICK f \in 1 .. Len(sent) : Begun(e, f)
    BY <1>1, <1>2, <1>3, <1>4, <1>8 DEF NotYet
  <2>2. /\ e < f /\ sent[f].op = "text" /\ next = <<>> /\ Past(wire, f) /\ f <= buffer[1][1]
        /\ Ordered(m.next) /\ Ahead(m.next, wire) /\ Past(m.next, f)
    BY <1>1, <2>1 DEF Begun
  <2>3. Past(wire', f) /\ Past(chunk, f) /\ Ahead(m.next, wire')
    BY <1>5, <2>2, WithinKeeps
  <2>4. Ordered(m'.next) /\ Ahead(m'.next, wire') /\ Past(m'.next, f)
    <3>1. CASE k > lack
      <4>1. lack \in 0 .. Len(chunk)
        <5>1. m.len \in Nat /\ Len(m.msg) \in Nat /\ Len(m.msg) < m.len
          BY <1>1, <1>3, LenProperties DEF CInv, Typed, Bounded, Message
        <5>2. Len(chunk) = k
          BY <1>4
        <5> HIDE DEF chunk
        <5> QED
          BY <1>5, <3>1, <5>1, <5>2
      <4>2. m'.next = SubSeq(chunk, lack + 1, Len(chunk))
        BY <1>4, <3>1
      <4>3. chunk \in Seq(Arrived)
        BY <1>4
      <4> HIDE DEF chunk, lack
      <4>4. Within(m'.next, chunk) /\ Ordered(m'.next)
        BY <1>5, <4>1, <4>2, <4>3, OrderedCut
      <4> QED
        BY <1>5, <2>3, <4>4, WithinKeeps
    <3>2. CASE ~(k > lack)
      BY <1>4, <2>2, <2>3, <3>2
    <3> QED
      BY <3>1, <3>2
  <2>5. pc' # "parse" /\ buffer' = buffer /\ next' = next /\ sent' = sent
    BY <1>1, <1>4
  <2> HIDE DEF chunk
  <2>6. Begun(e, f)'
    BY <2>2, <2>3, <2>4, <2>5 DEF Begun, Ordered, Ahead, Past
  <2> QED
    BY <2>6
<1>9. m'.op # "none" /\ buffer' # <<>> /\ kind.type = "RFC6455"
  BY <1>3, <1>7
<1> QED
  BY <1>1, <1>2, <1>5, <1>6, <1>8, <1>9, HandlerNotYet DEF Underway

\* A text of which a frame behind its first is final ends with a frame before the
\* next text.
LEMMA TextEnds ==
  ASSUME NInv, NEW f \in 1 .. Len(sent), sent[f].op = "text", NEW j \in f .. Len(sent), sent[j].fin
  PROVE  \E g \in f .. j : EndsText(g) /\ \A n \in (f + 1) .. g : sent[n].op = "cont"
<1>1. Len(sent) \in Nat /\ f \in Nat /\ j \in Nat
  BY LenProperties DEF NInv, CInv, Typed
<1> DEFINE F == {n \in f .. j : sent[n].fin}
<1>2. F \in SUBSET Nat /\ F # {}
  BY <1>1
<1>3. PICK g \in F : \A n \in F : g <= n
  BY <1>2, LeastExists
<1>4. g \in f .. j /\ sent[g].fin /\ \A n \in f .. j : n < g => ~sent[n].fin
  BY <1>1, <1>3
<1>5. ASSUME NEW x \in (f + 1) .. g, sent[x].op # "cont" PROVE FALSE
  <2> DEFINE B == {n \in (f + 1) .. g : sent[n].op # "cont"}
  <2>1. B \in SUBSET Nat /\ B # {}
    BY <1>1, <1>4, <1>5
  <2>2. PICK b \in B : \A n \in B : b <= n
    BY <2>1, LeastExists
  <2>3. b \in (f + 1) .. g /\ sent[b].op # "cont" /\ \A n \in (f + 1) .. g : n < b => sent[n].op = "cont"
    BY <1>1, <1>4, <2>2
  <2>4. b - 1 \in f .. j /\ b - 1 < g /\ b - 1 \in 1 .. Len(sent) - 1 /\ (b - 1) + 1 = b
    BY <1>1, <1>4, <2>3
  <2>5. ~sent[b - 1].fin
    BY <1>4, <2>4
  <2>6. sent[b - 1].op \in {"text", "cont"}
    <3>1. CASE b - 1 = f
      BY <3>1
    <3>2. CASE b - 1 # f
      <4>1. b - 1 \in (f + 1) .. g /\ b - 1 < b
        BY <1>1, <1>4, <2>3, <2>4, <3>2
      <4> QED
        BY <2>3, <4>1
    <3> QED
      BY <3>1, <3>2
  <2>7. sent[(b - 1) + 1].op = "cont"
    BY <2>4, <2>5, <2>6 DEF NInv, Spoken
  <2> QED
    BY <2>3, <2>4, <2>7
<1>6. sent[g].op \in {"text", "cont"}
  <2>1. CASE g = f
    BY <2>1
  <2>2. CASE g # f
    <3>1. g \in (f + 1) .. g
      BY <1>1, <1>4, <2>2
    <3> QED
      BY <1>5, <3>1
  <2> QED
    BY <2>1, <2>2
<1> QED
  BY <1>4, <1>5, <1>6 DEF EndsText

\* Behind it there is one complete text more.
LEMMA CompleteMore ==
  ASSUME NEW e \in Nat, NEW g \in Nat, e < g
  PROVE  /\ IsFiniteSet(Complete(e)) /\ Cardinality(Complete(e)) \in Nat
         /\ Cardinality(Complete(e)) <= Cardinality(Complete(g))
         /\ EndsText(g) => Cardinality(Complete(e)) + 1 <= Cardinality(Complete(g))
<1>1. IsFiniteSet(1 .. e) /\ IsFiniteSet(1 .. g)
  BY FS_Interval
<1>2. IsFiniteSet(Complete(e)) /\ IsFiniteSet(Complete(g))
  BY <1>1, FS_Subset DEF Complete
<1>3. Cardinality(Complete(e)) \in Nat /\ Cardinality(Complete(g)) \in Nat
  BY <1>2, FS_CardinalityType
<1>4. Complete(e) \subseteq Complete(g) /\ g \notin Complete(e)
  BY DEF Complete
<1>5. Cardinality(Complete(e)) <= Cardinality(Complete(g))
  BY <1>2, <1>4, FS_Subset
<1>6. ASSUME EndsText(g) PROVE Cardinality(Complete(e)) + 1 <= Cardinality(Complete(g))
  <2>1. Complete(e) \cup {g} \subseteq Complete(g)
    BY <1>4, <1>6 DEF Complete
  <2>2. Cardinality(Complete(e) \cup {g}) = Cardinality(Complete(e)) + 1
    BY <1>2, <1>4, FS_AddElement
  <2> QED
    BY <1>2, <2>1, <2>2, FS_Subset
<1> QED
  BY <1>2, <1>3, <1>5, <1>6

\* A message is handled.
LEMMA HandleNotYet ==
  ASSUME NInv, CInv', Handle
  PROVE  NInv'
<1>1. /\ pc = "done" /\ Head1.fin /\ m.op = "text" /\ got' = Append(got, m.msg)
      /\ next' = m.next /\ m' = NewMessage /\ buffer' = <<>> /\ pc' = "read"
      /\ UNCHANGED <<kind, sent, wire>> /\ ~Lost
  BY DEF Handle, client, Lost, Ended
<1>2. PICK e \in 0 .. Len(sent) : NotYet(e)
  BY DEF NInv
<1>3. CInv /\ sent \in Seq(FrameType) /\ Len(sent) \in Nat /\ buffer \in Seq(Arrived) /\ buffer # <<>>
  BY <1>1, LenProperties DEF NInv, Underway, CInv, Typed
<1>4. buffer[1][1] \in 1 .. Len(sent) /\ Head1 = sent[buffer[1][1]]
  <2>1. 1 \in 1 .. Len(buffer)
    BY <1>3, EmptySeq, LenProperties
  <2> QED
    BY <1>3, <2>1, FrameOfByte DEF CInv, Head1, FrameOf
<1>5. kind.type \in {"RFC6455", "HYBI00"}
  BY <1>1, StreamAssumption DEF NInv, Underway, CInv, Typed, Type
<1>6. PICK f \in 1 .. Len(sent) :
        /\ e < f /\ sent[f].op = "text" /\ f <= buffer[1][1]
        /\ Ordered(m.next) /\ Ahead(m.next, wire) /\ Past(m.next, f) /\ Past(wire, f)
  <2>1. CASE kind.type = "RFC6455"
    BY <1>1, <1>2, <2>1 DEF NotYet, Begun
  <2>2. CASE kind.type = "HYBI00"
    <3>1. m.next = <<>> /\ e < buffer[1][1] /\ Head1.op = "text" /\ Past(wire, buffer[1][1])
      BY <1>1, <1>2, <2>2 DEF NotYet, AtText
    <3> QED
      BY <1>4, <3>1, NothingOrdered
  <2> QED
    BY <1>5, <2>1, <2>2
<1>7. PICK g \in f .. buffer[1][1] : EndsText(g) /\ \A n \in (f + 1) .. g : sent[n].op = "cont"
  <2>1. buffer[1][1] \in f .. Len(sent) /\ sent[buffer[1][1]].fin
    BY <1>1, <1>3, <1>4, <1>6
  <2> QED
    BY <1>6, <2>1, TextEnds
<1>8. g \in 0 .. Len(sent) /\ e < g /\ e \in Nat /\ g \in Nat /\ f \in Nat
  BY <1>3, <1>4, <1>6
<1>9. Len(got') <= Cardinality(Complete(g))
  <2>1. Len(got) <= Cardinality(Complete(e))
    BY <1>2 DEF NotYet
  <2>2. got \in Seq(Seq(Byte)) /\ m.msg \in Seq(Byte)
    BY <1>3, ArrivedBytes DEF NInv
  <2>3. Len(got') = Len(got) + 1 /\ Len(got) \in Nat
    BY <1>1, <2>2, AppendProperties, LenProperties
  <2>4. Cardinality(Complete(e)) \in Nat /\ Cardinality(Complete(e)) + 1 <= Cardinality(Complete(g))
    BY <1>7, <1>8, CompleteMore
  <2>5. Cardinality(Complete(g)) \in Nat
    <3>1. g < g + 1 /\ g + 1 \in Nat
      BY <1>8
    <3> QED
      BY <1>8, <3>1, CompleteMore
  <2> QED
    BY <2>1, <2>3, <2>4, <2>5
<1>10. ASSUME NEW s \in Seq(Arrived), Past(s, f) PROVE Later(s, g)
  <2> SUFFICES ASSUME NEW j \in 1 .. Len(s), s[j][2] = 1, FrameOf(s[j]).op = "text" PROVE g < s[j][1]
    BY DEF Later
  <2>1. s[j][1] \in Nat
    BY <1>3, FrameOfByte DEF CInv
  <2>2. f < s[j][1]
    BY <1>10 DEF Past, Follows
  <2>3. s[j][1] \notin (f + 1) .. g
    BY <1>7 DEF FrameOf
  <2> QED
    BY <1>8, <2>1, <2>2, <2>3
<1>11. Later(wire, g) /\ Later(m.next, g) /\ Ordered(wire)
  BY <1>2, <1>3, <1>6, <1>10 DEF CInv, Typed, Message, NotYet
<1>12. Spoken' /\ Complete(g)' = Complete(g) /\ Later(wire, g)' /\ Later(next, g)'
  BY <1>1, <1>11 DEF NInv, Spoken, Complete, EndsText, Later, FrameOf
<1>13. m'.op = "none" /\ m'.next = <<>>
  BY <1>1 DEF NewMessage
<1>14. Idle(g)'
  BY <1>1, <1>6, <1>12, <1>13 DEF Idle, Ordered, Ahead
<1>15. ASSUME kind.type = "HYBI00" PROVE AtText(g)'
  <2>1. m.next = <<>>
    BY <1>2, <1>15 DEF NotYet, AtText
  <2> QED
    BY <1>1, <1>13, <2>1 DEF AtText
<1>16. Ordered(wire)'
  BY <1>1, <1>11 DEF Ordered
<1>17. NotYet(g)'
  BY <1>1, <1>9, <1>12, <1>13, <1>14, <1>15, <1>16 DEF NotYet
<1>18. got' \in Seq(Seq(Byte))
  <2>1. got \in Seq(Seq(Byte)) /\ m.msg \in Seq(Byte)
    BY <1>3, ArrivedBytes DEF NInv
  <2> QED
    BY <1>1, <2>1, AppendProperties
<1>19. Byte' = Byte /\ Underway'
  BY <1>1 DEF Byte, Garbage, Underway
<1> QED
  BY <1>1, <1>8, <1>12, <1>17, <1>18, <1>19 DEF NInv

\* Bytes taken away from those on their way.
LEMMA HangupNotYet ==
  ASSUME NInv, CInv', Leaves
  PROVE  NInv'
<1>1. /\ UNCHANGED <<kind, sent, pc, next, buffer, m, got>>
      /\ \E k \in 0 .. Smaller(MaxLost, Len(wire)) : wire' = SubSeq(wire, 1, Len(wire) - k)
  BY DEF Leaves, Hangup, handler
<1>2. PICK k \in 0 .. Smaller(MaxLost, Len(wire)) : wire' = SubSeq(wire, 1, Len(wire) - k)
  BY <1>1
<1>3. CInv /\ wire \in Seq(Arrived) /\ Len(wire) \in Nat
  BY LenProperties DEF NInv, CInv, Typed
<1>4. Len(wire) - k \in 0 .. Len(wire)
  BY <1>2, <1>3, StreamAssumption DEF Smaller
<1>5. Within(wire', wire) /\ (Ordered(wire) => Ordered(wire'))
  BY <1>2, <1>3, <1>4, OrderedCut
<1>6. PICK e \in 0 .. Len(sent) : NotYet(e)
  BY DEF NInv
<1>7. Ordered(wire') /\ Later(wire', e)
  BY <1>5, <1>6, WithinKeeps DEF NotYet
<1>8. m'.op = "none" => /\ m'.next = <<>> /\ Ordered(next') /\ Ahead(next', wire') /\ Later(next', e)
  BY <1>1, <1>5, <1>6, WithinKeeps DEF NotYet, Idle
<1>9. ASSUME m'.op = "text", kind.type = "RFC6455", ~Lost' PROVE \E f \in 1 .. Len(sent) : Begun(e, f)'
  <2>1. ~Lost
    BY <1>1, <1>9 DEF Lost, Ended
  <2>2. PICK f \in 1 .. Len(sent) : Begun(e, f)
    BY <1>1, <1>6, <1>9, <2>1 DEF NotYet
  <2>3. Ahead(m.next, wire') /\ Past(wire', f) /\ (Ahead(buffer, wire) => Ahead(buffer, wire'))
    BY <1>5, <2>2, WithinKeeps DEF Begun
  <2>4. Begun(e, f)'
    BY <1>1, <2>2, <2>3 DEF Begun, Ordered, Ahead, Past
  <2> QED
    BY <2>4
<1>10. ASSUME kind.type = "HYBI00" PROVE AtText(e)'
  <2>1. AtText(e)
    BY <1>6, <1>10 DEF NotYet
  <2>2. Past(wire, buffer[1][1]) => Past(wire', buffer[1][1])
    BY <1>5, WithinKeeps
  <2> QED
    BY <1>1, <2>1, <2>2 DEF AtText, Past, Head1, FrameOf
<1>11. Underway'
  BY <1>1 DEF NInv, Underway
<1> QED
  BY <1>1, <1>6, <1>7, <1>8, <1>9, <1>10, <1>11, HandlerNotYet

\* Behind a close frame nothing ends a text.
LEMMA NoneEnds ==
  ASSUME CInv, NEW s \in Seq(Arrived), Past(s, Len(sent)), sent[Len(sent)].op = "close"
  PROVE  ~Whether(s)
<1>1. Len(s) \in Nat /\ DOMAIN s = 1 .. Len(s) /\ Len(sent) \in Nat
  BY LenProperties DEF CInv, Typed
<1>2. ASSUME NEW i \in 1 .. Len(s), Ends(s[i]) PROVE FALSE
  <2>1. s[i][1] \in 1 .. Len(sent) /\ s[i][2] \in Nat
    BY <1>2, FrameOfByte DEF CInv
  <2>2. Len(sent) <= s[i][1] /\ (s[i][2] = 1 => Len(sent) < s[i][1])
    BY <1>2 DEF Past, Follows
  <2>3. s[i][1] = Len(sent)
    BY <1>1, <2>1, <2>2
  <2> QED
    BY <1>2, <2>2, <2>3 DEF Ends, FrameOf
<1> QED
  BY <1>1, <1>2 DEF Whether

\* The first recv of a text of hybi-00.
LEMMA HybiReadNotYet ==
  ASSUME NInv, CInv', HybiRead
  PROVE  NInv'
<1>1. pc = "read" /\ kind.type = "HYBI00" /\ UNCHANGED <<kind, sent, eof, next, got>>
  BY DEF HybiRead
<1>2. PICK k \in Chunks(BUFFERSIZE) :
        /\ wire' = SubSeq(wire, k + 1, Len(wire)) /\ buffer' = SubSeq(wire, 1, k)
        /\ IF Starts(wire[1])
           THEN /\ m' = [m EXCEPT !.msg = Before(SubSeq(wire, 2, k)), !.op = "text"]
                /\ pc' = IF Whether(SubSeq(wire, 2, k)) THEN "done" ELSE "more"
           ELSE /\ pc' = IF Ends(wire[1]) THEN "closed" ELSE "crashed"
                /\ UNCHANGED m
  BY DEF HybiRead
<1>3. PICK e \in 0 .. Len(sent) : NotYet(e)
  BY DEF NInv
<1>4. CInv /\ Ordered(wire) /\ Later(wire, e) /\ m \in Message /\ next = <<>> /\ m.next = <<>> /\ BUFFERSIZE \in Nat
  BY <1>1, <1>3, StreamAssumption DEF NInv, NotYet, AtText, CInv, Typed
<1> DEFINE chunk == SubSeq(wire, 1, k)
           n     == wire[1][1]
<1>5. /\ chunk \in Seq(Arrived) /\ Len(chunk) = k /\ k \in Nat /\ k >= 1
      /\ Within(chunk, wire) /\ Within(wire', wire)
      /\ chunk[1] = wire[1] /\ Len(wire) >= 1 /\ wire[1] \in Arrived
      /\ Ordered(chunk) /\ Ordered(wire') /\ Ahead(chunk, wire')
  BY <1>2, <1>4, Drawn
<1>6. Later(wire', e)
  BY <1>4, <1>5, WithinKeeps
<1>7. m'.next = <<>> /\ next' = <<>>
  BY <1>1, <1>2, <1>4 DEF Message
<1>8. buffer'[1] = wire[1] /\ buffer' # <<>> /\ n \in 1 .. Len(sent) /\ Past(wire', n)
  <2>1. 1 \in 1 .. Len(chunk)
    BY <1>5
  <2>2. Past(wire', n)
    BY <1>5, <2>1, AheadPast
  <2>3. chunk # <<>>
    BY <1>5
  <2> QED
    BY <1>2, <1>5, <2>2, <2>3 DEF Arrived
<1> HIDE DEF n
<1>9. CASE Starts(wire[1])
  <2>1. /\ m'.op = "text"
        /\ pc' = IF Whether(SubSeq(wire, 2, k)) THEN "done" ELSE "more"
    BY <1>2, <1>4, <1>9 DEF Message
  <2>2. Head1' = sent[n]
    BY <1>1, <1>8 DEF Head1, FrameOf, n
  <2>3. ASSUME sent[n].op = "text" PROVE e < n
    <3>1. wire[1][2] = 1 /\ FrameOf(wire[1]).op = "text"
      BY <1>9, <2>3 DEF Starts, FrameOf, n
    <3>2. 1 \in 1 .. Len(wire)
      BY <1>5, LenProperties DEF CInv, Typed
    <3> QED
      BY <1>4, <3>1, <3>2 DEF Later, n
  <2>4. ASSUME sent[n].op # "text" PROVE n = Len(sent) /\ pc' = "more"
    <3>1. Len(sent) \in Nat
      BY <1>4, LenProperties DEF CInv, Typed
    <3>2. sent[n].op = "close"
      <4>1. sent[n] \in kind.frames /\ kind \in Kind
        BY <1>8 DEF NInv, Spoken, CInv, Typed
      <4> QED
        BY <1>1, <2>4, <4>1, StreamAssumption
    <3>3. n = Len(sent)
      <4>1. CASE n \in 1 .. Len(sent) - 1
        BY <3>2, <4>1 DEF NInv, Spoken
      <4> QED
        BY <1>8, <3>1, <4>1
    <3>4. /\ SubSeq(chunk, 2, Len(chunk)) \in Seq(Arrived) /\ Past(SubSeq(chunk, 2, Len(chunk)), n)
          /\ SubSeq(wire, 2, k) = SubSeq(chunk, 2, Len(chunk))
      <4> DEFINE one == SubSeq(chunk, 1, 1)
                 others == SubSeq(chunk, 1 + 1, Len(chunk))
      <4>1. 1 \in 0 .. Len(chunk)
        BY <1>5
      <4>2. chunk \in Seq(Arrived) /\ Ordered(chunk)
        BY <1>5
      <4>3. others \in Seq(Arrived) /\ Ahead(one, others)
        <5> HIDE DEF chunk
        <5> QED
          BY <4>1, <4>2, OrderedCut
      <4>4. Len(one) = 1 /\ one[1] = chunk[1]
        <5> HIDE DEF chunk
        <5> QED
          BY <4>1, <4>2, FirstPart
      <4>5. Past(others, n)
        <5>1. 1 \in 1 .. Len(one) /\ one[1][1] = n
          BY <1>5, <4>4 DEF n
        <5> HIDE DEF one, others
        <5> QED
          BY <4>3, <5>1, AheadPast
      <4>6. SubSeq(wire, 2, k) = others
        <5>1. wire \in Seq(Arrived) /\ k \in 1 .. Len(wire)
          BY <1>4, WireRest DEF CInv, Typed
        <5>2. /\ SubSeq(wire, 2, k) \in Seq(Arrived)
              /\ Len(SubSeq(wire, 2, k)) = IF 2 <= k THEN k - 2 + 1 ELSE 0
              /\ \A j \in 1 .. (k - 2 + 1) : SubSeq(wire, 2, k)[j] = wire[2 + j - 1]
          BY <5>1, Part, LenProperties
        <5>3. Len(others) = Len(chunk) - 1 /\ \A j \in 1 .. Len(chunk) - 1 : others[j] = chunk[1 + j]
          <6> HIDE DEF chunk
          <6> QED
            BY <4>1, <4>2, LastPart
        <5>4. \A j \in 1 .. k : chunk[j] = wire[j]
          BY <5>1, WireRest
        <5> DEFINE a == SubSeq(wire, 2, k)
        <5>5. Len(a) = k - 1 /\ Len(others) = k - 1
          BY <1>5, <5>2, <5>3
        <5>6. \A j \in 1 .. k - 1 : a[j] = wire[j + 1] /\ others[j] = chunk[1 + j] /\ chunk[1 + j] = wire[j + 1]
          BY <1>5, <5>2, <5>3, <5>4
        <5> HIDE DEF a, others, chunk
        <5>7. a = others
          BY <4>3, <5>2, <5>5, <5>6, SeqEqual DEF a
        <5> QED
          BY <5>7 DEF a
      <4>7. others = SubSeq(chunk, 2, Len(chunk))
        OBVIOUS
      <4> HIDE DEF others
      <4> QED
        BY <4>3, <4>5, <4>6, <4>7
    <3>5. ~Whether(SubSeq(wire, 2, k))
      BY <1>4, <3>2, <3>3, <3>4, NoneEnds
    <3> QED
      BY <2>1, <3>3, <3>5
  <2>5. AtText(e)'
    BY <1>1, <1>7, <1>8, <2>2, <2>3, <2>4 DEF AtText, Past, n
  <2>6. Underway'
    BY <1>1, <1>8, <2>1 DEF Underway
  <2> QED
    BY <1>1, <1>3, <1>5, <1>6, <2>1, <2>5, <2>6, HandlerNotYet
<1>10. CASE ~Starts(wire[1])
  <2>1. pc' \in {"closed", "crashed"} /\ m' = m
    BY <1>2, <1>10
  <2>2. AtText(e)' /\ Underway'
    BY <1>7, <2>1 DEF AtText, Underway
  <2>3. Ordered(next') /\ Ahead(next', wire') /\ Later(next', e)
    BY <1>7, NothingOrdered
  <2> QED
    BY <1>1, <1>3, <1>5, <1>6, <1>7, <2>2, <2>3, HandlerNotYet
<1> QED
  BY <1>9, <1>10

\* One round of the loop of getWholeMessage.
LEMMA HybiRestNotYet ==
  ASSUME NInv, CInv', HybiRest
  PROVE  NInv'
<1>1. pc = "more" /\ UNCHANGED <<kind, sent, eof, next, buffer, got>>
  BY DEF HybiRest
<1>2. PICK k \in Chunks(BUFFERSIZE) :
        /\ wire' = SubSeq(wire, k + 1, Len(wire))
        /\ m' = [m EXCEPT !.msg = @ \o Before(SubSeq(wire, 1, k))]
        /\ pc' = IF Whether(SubSeq(wire, 1, k)) THEN "done"
                 ELSE IF Len(m'.msg) >= MAXMESSAGE THEN "closed" ELSE "more"
  BY DEF HybiRest
<1>3. PICK e \in 0 .. Len(sent) : NotYet(e)
  BY DEF NInv
<1>4. /\ CInv /\ kind.type = "HYBI00" /\ m \in Message /\ BUFFERSIZE \in Nat
      /\ Ordered(wire) /\ Later(wire, e) /\ m.op # "none" /\ buffer # <<>> /\ buffer \in Seq(Arrived)
  BY <1>1, <1>3, StreamAssumption DEF NInv, Underway, CInv, Typed, Bounded, NotYet
<1> DEFINE chunk == SubSeq(wire, 1, k)
           n     == buffer[1][1]
<1>5. n \in 1 .. Len(sent) /\ Head1 = sent[n] /\ Len(sent) \in Nat
  <2>1. 1 \in 1 .. Len(buffer)
    BY <1>4, EmptySeq, LenProperties
  <2> QED
    BY <1>4, <2>1, FrameOfByte, LenProperties DEF CInv, Typed, Head1, FrameOf
<1>6. /\ next = <<>> /\ m.next = <<>> /\ Past(wire, n)
      /\ IF Head1.op = "text" THEN e < n ELSE n = Len(sent)
  BY <1>1, <1>3, <1>4 DEF NotYet, AtText
<1>7. /\ chunk \in Seq(Arrived) /\ Within(chunk, wire) /\ Within(wire', wire) /\ Ordered(wire')
  BY <1>2, <1>4, Drawn
<1>8. Later(wire', e) /\ Past(wire', n) /\ Past(chunk, n)
  BY <1>4, <1>6, <1>7, WithinKeeps
<1>9. m'.op = m.op /\ m'.next = m.next
  BY <1>2, <1>4 DEF Message
<1>10. ASSUME Head1.op # "text" PROVE n = Len(sent) /\ pc' # "done"
  <2>1. sent[n].op = "close"
    <3>1. sent[n] \in kind.frames /\ kind \in Kind
      BY <1>5 DEF NInv, Spoken, CInv, Typed
    <3> QED
      BY <1>4, <1>5, <1>10, <3>1, StreamAssumption
  <2>2. n = Len(sent)
    BY <1>6, <1>10
  <2> HIDE DEF chunk, n
  <2>3. ~Whether(chunk)
    BY <1>4, <1>7, <1>8, <2>1, <2>2, NoneEnds
  <2> QED
    BY <1>2, <2>2, <2>3 DEF chunk
<1> HIDE DEF chunk
<1>11. AtText(e)'
  <2>1. Head1' = Head1 /\ buffer' = buffer
    BY <1>1 DEF Head1, FrameOf
  <2>2. pc' \in {"done", "more", "closed"}
    BY <1>2
  <2>3. Past(wire, buffer[1][1])'
    BY <1>8, <2>1 DEF Past
  <2> QED
    BY <1>1, <1>6, <1>9, <1>10, <2>1, <2>2, <2>3 DEF AtText
<1>12. Underway'
  BY <1>1, <1>4, <1>9 DEF Underway
<1> QED
  BY <1>1, <1>3, <1>4, <1>7, <1>8, <1>9, <1>11, <1>12, HandlerNotYet

\* What a client sends keeps to the order of frames.
LEMMA SendSpoken ==
  ASSUME NInv, Streams
  PROVE  Spoken'
<1>1. CInv /\ sent \in Seq(FrameType)
  BY DEF NInv, CInv, Typed
<1>2. PICK f \in kind.frames :
           /\ Len(sent) \in Nat /\ Len(sent') = Len(sent) + 1 /\ kind' = kind
           /\ sent'[Len(sent) + 1] = f /\ \A n \in 1 .. Len(sent) : sent'[n] = sent[n]
           /\ sent' = Append(sent, f)
  BY <1>1, SendFrame
<1>3. ~Closing /\ (f.op = "cont" <=> InMessage)
  <2>1. PICK x : x \in kind.frames /\ Send(x)
    BY DEF Streams, Send
  <2>2. sent' = Append(sent, x) /\ ~Closing /\ (x.op = "cont" <=> InMessage)
    BY <2>1 DEF Send
  <2>3. x = f
    <3>1. x \in FrameType
      BY <2>1, StreamAssumption DEF NInv, CInv, Typed
    <3>2. sent'[Len(sent) + 1] = x
      BY <1>1, <2>2, <3>1, AppendProperties
    <3> QED
      BY <1>2, <3>2
  <2> QED
    BY <2>2, <2>3
<1>4. ASSUME NEW n \in 1 .. Len(sent') PROVE sent'[n] \in kind'.frames
  BY <1>2 DEF NInv, Spoken
<1>5. ASSUME NEW n \in 1 .. Len(sent') - 1
      PROVE  /\ sent'[n].op # "close"
             /\ sent'[n].op \in {"text", "cont"} /\ ~sent'[n].fin => sent'[n + 1].op = "cont"
  <2>1. CASE n < Len(sent)
    <3>1. n \in 1 .. Len(sent) - 1 /\ n + 1 \in 1 .. Len(sent) /\ n \in 1 .. Len(sent)
      BY <1>2, <2>1
    <3>2. sent'[n] = sent[n] /\ sent'[n + 1] = sent[n + 1]
      BY <1>2, <3>1
    <3> QED
      BY <3>1, <3>2 DEF NInv, Spoken
  <2>2. CASE n = Len(sent)
    <3>1. sent'[n] = sent[n] /\ sent'[n + 1] = f /\ sent # <<>> /\ Last(sent) = sent[n]
      BY <1>1, <1>2, <2>2, EmptySeq DEF Last
    <3> QED
      BY <1>3, <3>1 DEF Closing, InMessage
  <2> QED
    BY <1>2, <2>1, <2>2
<1> QED
  BY <1>4, <1>5 DEF Spoken

\* The bytes of a frame that is sent come after all others.
LEMMA SendOrdered ==
  ASSUME CInv, NEW f \in FrameType
  PROVE  LET bytes == Bytes(Len(sent) + 1, f)
         IN /\ bytes \in Seq({Len(sent) + 1} \X Nat) /\ Ordered(bytes)
            /\ \A s \in Seq(Arrived) : Ahead(s, bytes)
            /\ \A n \in 1 .. Len(sent) : Past(bytes, n)
            /\ \A j \in 1 .. Len(bytes) : bytes[j][1] = Len(sent) + 1
<1> DEFINE N     == Len(sent)
           bytes == Bytes(N + 1, f)
<1>1. N \in Nat /\ N + 1 \in Nat
  BY LenProperties DEF CInv, Typed
<1>2. /\ bytes \in Seq({N + 1} \X Nat) /\ Len(bytes) \in Nat
      /\ \A i \in 1 .. Len(bytes) : bytes[i] = <<N + 1, i>>
  BY <1>1, FrameBytes, LenProperties
<1> HIDE DEF bytes
<1>3. \A i \in 1 .. Len(bytes) : bytes[i][1] = N + 1 /\ bytes[i][2] = i /\ i \in Nat
  BY <1>2
<1>4. Ordered(bytes)
  BY <1>1, <1>3 DEF Ordered, Follows
<1>5. ASSUME NEW s \in Seq(Arrived) PROVE Ahead(s, bytes)
  <2>1. \A i \in 1 .. Len(s) : s[i][1] \in 1 .. N
    BY FrameOfByte DEF CInv
  <2> QED
    BY <1>1, <1>3, <2>1 DEF Ahead, Follows
<1>6. \A n \in 1 .. N : Past(bytes, n)
  BY <1>1, <1>3 DEF Past, Follows
<1> QED
  BY <1>2, <1>3, <1>4, <1>5, <1>6 DEF bytes

\* A frame is sent.
LEMMA SendNotYet ==
  ASSUME NInv, CInv', Streams
  PROVE  NInv'
<1>1. /\ CInv /\ wire \in Seq(Arrived) /\ next \in Seq(Arrived) /\ buffer \in Seq(Arrived) /\ m.next \in Seq(Arrived)
  BY DEF NInv, CInv, Typed, Message
<1>2. PICK f \in kind.frames :
           /\ f \in FrameType /\ sent' = Append(sent, f) /\ wire' = wire \o Bytes(Len(sent) + 1, f)
           /\ Len(sent) \in Nat /\ Len(sent') = Len(sent) + 1
           /\ \A n \in 1 .. Len(sent) : sent'[n] = sent[n]
           /\ UNCHANGED <<kind, pc, next, buffer, m, got>>
  BY <1>1, SendFrame DEF handler
<1>3. Spoken' /\ ~Closing
  BY SendSpoken DEF Streams, Send
<1>4. PICK e \in 0 .. Len(sent) : NotYet(e)
  BY DEF NInv
<1> DEFINE N     == Len(sent)
           bytes == Bytes(N + 1, f)
<1>5. /\ bytes \in Seq({N + 1} \X Nat) /\ Ordered(bytes)
      /\ \A s \in Seq(Arrived) : Ahead(s, bytes)
      /\ \A n \in 1 .. N : Past(bytes, n)
      /\ \A j \in 1 .. Len(bytes) : bytes[j][1] = N + 1
  BY <1>1, <1>2, SendOrdered
<1> HIDE DEF bytes
<1>6. wire' = wire \o bytes
  BY <1>2 DEF bytes
<1> DEFINE S == Nat \X Nat
<1>7. wire \in Seq(S) /\ bytes \in Seq(S)
  <2>1. Arrived \subseteq S /\ {N + 1} \X Nat \subseteq S
    BY <1>2 DEF Arrived
  <2> HIDE DEF S, N
  <2> QED
    BY <1>1, <1>5, <2>1, SeqMonotonic
<1> HIDE DEF S
<1>8. Ordered(wire') /\ \A s \in Seq(Arrived) : Ahead(s, wire) => Ahead(s, wire')
  BY <1>1, <1>4, <1>5, <1>6, <1>7, OrderedBoth DEF NotYet
<1>9. \A n \in 1 .. N : Past(wire, n) => Past(wire', n)
  BY <1>5, <1>6, <1>7, OrderedBoth
<1>10. ASSUME NEW s \in Seq(Arrived), Later(s, e) PROVE Later(s, e)'
  <2>1. \A j \in 1 .. Len(s) : s[j][1] \in 1 .. N
    BY <1>1, FrameOfByte DEF CInv
  <2> QED
    BY <1>2, <1>10, <2>1 DEF Later, FrameOf
<1>11. Later(wire, e)'
  <2> DEFINE L(x) == \A j \in 1 .. Len(x) : x[j][2] = 1 /\ sent'[x[j][1]].op = "text" => e < x[j][1]
  <2>1. L(wire)
    BY <1>1, <1>2, <1>4, FrameOfByte DEF NotYet, Later, FrameOf, CInv
  <2>2. L(bytes)
    BY <1>2, <1>5
  <2>3. ASSUME NEW j \in 1 .. Len(wire'), wire'[j][2] = 1, sent'[wire'[j][1]].op = "text" PROVE e < wire'[j][1]
    <3>1. Len(wire) \in Nat /\ Len(bytes) \in Nat
      BY <1>7, LenProperties
    <3>2. /\ Len(wire') = Len(wire) + Len(bytes)
          /\ \A i \in 1 .. Len(wire) + Len(bytes) : wire'[i] = IF i <= Len(wire) THEN wire[i] ELSE bytes[i - Len(wire)]
      BY <1>6, <1>7, ConcatProperties
    <3>3. CASE j <= Len(wire)
      <4>1. j \in 1 .. Len(wire) /\ wire'[j] = wire[j]
        BY <3>1, <3>2, <3>3
      <4> QED
        BY <2>1, <2>3, <4>1
    <3>4. CASE ~(j <= Len(wire))
      <4>1. j - Len(wire) \in 1 .. Len(bytes) /\ wire'[j] = bytes[j - Len(wire)]
        BY <3>1, <3>2, <3>4
      <4> QED
        BY <2>2, <2>3, <4>1
    <3> QED
      BY <3>3, <3>4
  <2> QED
    BY <2>3 DEF Later, FrameOf
<1>12. Complete(e)' = Complete(e)
  BY <1>2 DEF Complete, EndsText
<1>13. Len(got') <= Cardinality(Complete(e))
  BY <1>2, <1>4 DEF NotYet
<1>14. m'.op = "none" => Idle(e)'
  BY <1>1, <1>2, <1>4, <1>8, <1>10 DEF NotYet, Idle, Ordered, Ahead
<1>15. ASSUME m'.op = "text", kind.type = "RFC6455", ~Lost' PROVE \E n \in 1 .. Len(sent') : Begun(e, n)'
  <2>1. ~Lost
    BY <1>2, <1>15 DEF Lost, Ended
  <2>2. PICK n \in 1 .. Len(sent) : Begun(e, n)
    BY <1>2, <1>4, <1>15, <2>1 DEF NotYet
  <2>3. Ahead(m.next, wire') /\ Past(wire', n) /\ (Ahead(buffer, wire) => Ahead(buffer, wire')) /\ sent'[n].op = "text"
    BY <1>1, <1>2, <1>8, <1>9, <2>2 DEF Begun
  <2>4. Begun(e, n)'
    BY <1>2, <2>2, <2>3 DEF Begun, Ordered, Ahead, Past
  <2>5. n \in 1 .. Len(sent')
    BY <1>2
  <2> QED
    BY <2>4, <2>5
<1>16. ASSUME kind.type = "HYBI00" PROVE AtText(e)'
  <2>1. AtText(e)
    BY <1>4, <1>16 DEF NotYet
  <2>2. ASSUME pc \in {"more", "done"}
        PROVE  Past(wire', buffer[1][1]) /\ Head1' = Head1 /\ Head1.op = "text"
    <3>1. buffer[1][1] \in 1 .. Len(sent)
      <4>1. 1 \in 1 .. Len(buffer)
        BY <1>1, <2>2, EmptySeq, LenProperties DEF NInv, Underway
      <4> QED
        BY <1>1, <4>1, FrameOfByte DEF CInv
    <3>2. Head1' = Head1 /\ Head1 = sent[buffer[1][1]]
      BY <1>2, <3>1 DEF Head1, FrameOf
    <3>3. ASSUME Head1.op # "text" PROVE FALSE
      <4>1. buffer[1][1] = Len(sent)
        BY <2>1, <2>2, <3>3 DEF AtText
      <4>2. Head1 \in kind.frames /\ kind \in Kind
        BY <3>1, <3>2 DEF NInv, Spoken, CInv, Typed
      <4>3. Head1.op = "close"
        BY <1>16, <3>3, <4>2, StreamAssumption
      <4>4. sent # <<>> /\ Last(sent) = Head1
        BY <1>2, <3>1, <3>2, <4>1, EmptySeq DEF Last
      <4> QED
        BY <1>3, <4>3, <4>4 DEF Closing
    <3> QED
      BY <1>9, <2>1, <2>2, <3>1, <3>2, <3>3 DEF AtText
  <2> QED
    BY <1>2, <2>1, <2>2 DEF AtText, Past
<1>17. NotYet(e)'
  BY <1>2, <1>8, <1>11, <1>12, <1>13, <1>14, <1>15, <1>16 DEF NotYet, Ordered
<1>18. Underway' /\ got' \in Seq(Seq(Byte)) /\ Byte' = Byte /\ e \in 0 .. Len(sent')
  BY <1>2 DEF NInv, Underway, Byte, Garbage
<1> QED
  BY <1>3, <1>17, <1>18 DEF NInv

\* The invariant holds at first,
LEMMA NInvInit == Init => NInv
<1> SUFFICES ASSUME Init PROVE NInv
  OBVIOUS
<1>1. CInv
  BY CInvInit
<1>2. /\ sent = <<>> /\ wire = <<>> /\ pc = "request" /\ next = <<>> /\ m = NewMessage /\ got = <<>>
  BY DEF Init, NewClient
<1>3. Len(sent) = 0 /\ m.op = "none" /\ m.next = <<>> /\ Len(got) = 0 /\ got \in Seq(Seq(Byte))
  BY <1>2 DEF NewMessage
<1>4. Spoken /\ Underway
  BY <1>2, <1>3 DEF Spoken, Underway
<1>5. Cardinality(Complete(0)) \in Nat
  <2>1. 0 < 1
    OBVIOUS
  <2> QED
    BY <2>1, CompleteMore
<1>6. NotYet(0)
  BY <1>2, <1>3, <1>5, NothingOrdered DEF NotYet, Idle, AtText
<1>7. 0 \in 0 .. Len(sent)
  BY <1>3
<1> QED
  BY <1>1, <1>3, <1>4, <1>6, <1>7 DEF NInv

\* and every step keeps it.
LEMMA NInvStep == NInv /\ [Next]_<<vars, response>> => NInv'
<1> SUFFICES ASSUME NInv, [Next]_<<vars, response>> PROVE NInv'
  OBVIOUS
<1>1. CInv'
  BY CInvStep DEF NInv
<1>2. CASE Streams
  BY <1>1, <1>2, SendNotYet
<1>3. CASE Leaves
  BY <1>1, <1>3, HangupNotYet
<1>4. CASE Receive \/ Respond
  <2>1. /\ UNCHANGED <<client, next, buffer, m, got>> /\ pc \in {"request", "respond"}
        /\ pc' \in {"closed", "request", "respond", "read"}
    BY <1>4 DEF Receive, Respond
  <2> QED
    BY <1>1, <2>1, SameNotYet
<1>5. CASE Copy \/ UNCHANGED <<vars, response>>
  <2>1. UNCHANGED <<client, next, buffer, m, got, pc>>
    BY <1>5 DEF Copy, handler, vars, client
  <2> QED
    BY <1>1, <2>1, SameNotYet
<1>6. CASE Refuse \/ ReadEnd \/ RestEnd \/ ReceiveEnd \/ Leave \/ Hixie
  <2>1. UNCHANGED <<client, next, buffer, m, got>> /\ pc' \in {"closed", "crashed"}
    BY <1>6 DEF Refuse, ReadEnd, RestEnd, ReceiveEnd, Leave, Hixie, Closed, client
  <2> QED
    BY <1>1, <2>1, SameNotYet
<1>7. CASE Fragment
  <2>1. UNCHANGED <<client, next, buffer, m, got>> /\ pc = "done" /\ pc' = "read"
    BY <1>7 DEF Fragment
  <2> QED
    BY <1>1, <2>1, SameNotYet
<1>8. CASE Read \/ Parse \/ Rest \/ Handle
  BY <1>1, <1>8, ReadNotYet, ParseNotYet, RestNotYet, HandleNotYet
<1>9. CASE HybiRead \/ HybiRest
  BY <1>1, <1>9, HybiReadNotYet, HybiRestNotYet
<1> QED
  BY <1>2, <1>3, <1>4, <1>5, <1>6, <1>7, <1>8, <1>9 DEF Next, Handles, HandlerNext

-----------------------------------------------------------------------------
(* The messages sent in full are as many as the frames that end a text *)

\* What Texts has collected before the first frame, and with one frame more.
Nothing      == [whole |-> <<>>, part |-> <<>>]
Longer(t, n) ==
  LET part == t.part \o Payload(n, sent[n])
  IN IF sent[n].fin
     THEN [whole |-> IF sent[n].op \in {"text", "cont"} THEN Append(t.whole, part) ELSE t.whole,
           part |-> <<>>]
     ELSE [t EXCEPT !.part = part]

\* What is collected from sets of frames, the last of them last.
Numbers        == [n \in 1 .. Len(sent) |-> n]
Collects(g)    == g = [t \in SUBSET (DOMAIN Numbers) |->
                        IF t = {} THEN Nothing ELSE Longer(g[t \ {Max(t)}], Numbers[Max(t)])]
CollectsTo(k, g) == g = [t \in SUBSET (1 .. k) |-> IF t = {} THEN Nothing ELSE Longer(g[t \ {Max(t)}], Max(t))]

\* Texts is collected from all the frames.
LEMMA TextsCollected ==
  ASSUME NEW g, Collects(g)
  PROVE  \E c : Collects(c) /\ Texts = c[DOMAIN Numbers].whole
BY Zenon DEF Texts, FoldLeft, MapThenFoldSet, Collects, Longer, Numbers, Nothing

\* A set of numbers up to k has a greatest.
LEMMA GreatestOf ==
  ASSUME NEW k \in Nat, NEW t \in SUBSET (1 .. k), t # {}
  PROVE  Max(t) \in t /\ \A x \in t : x <= Max(t)
<1> DEFINE D == {d \in 0 .. k : k - d \in t}
<1>1. \A x \in t : x \in Nat /\ k - x \in 0 .. k /\ k - (k - x) = x
  OBVIOUS
<1>2. D \in SUBSET Nat /\ D # {}
  <2>1. PICK x \in t : TRUE
    OBVIOUS
  <2>2. k - x \in D
    BY <1>1, <2>1
  <2>3. D \in SUBSET Nat
    OBVIOUS
  <2> QED
    BY <2>2, <2>3
<1>3. PICK d \in D : \A y \in D : d <= y
  BY <1>2, LeastExists
<1>4. k - d \in t /\ d \in 0 .. k
  OBVIOUS
<1>5. ASSUME NEW x \in t PROVE x <= k - d
  <2>1. k - x \in D
    BY <1>1
  <2>2. d <= k - x
    BY <1>3, <2>1
  <2> QED
    BY <1>1, <1>4, <2>2
<1> QED
  BY <1>4, <1>5 DEF Max

\* The greatest of the first k numbers.
LEMMA GreatestTo ==
  ASSUME NEW k \in Nat, NEW t \in SUBSET (1 .. (k + 1)), k + 1 \in t
  PROVE  Max(t) = k + 1
<1>1. k + 1 \in Nat /\ t # {}
  OBVIOUS
<1>2. Max(t) \in t /\ \A x \in t : x <= Max(t)
  BY <1>1, GreatestOf
<1>3. k + 1 <= Max(t) /\ Max(t) \in 1 .. (k + 1)
  BY <1>2
<1> QED
  BY <1>3

\* It can be collected.
LEMMA CanCollect ==
  ASSUME NEW n \in Nat
  PROVE  \E g : CollectsTo(n, g)
<1> DEFINE B == {k \in Nat : ~\E g : CollectsTo(k, g)}
<1> SUFFICES ASSUME B # {} PROVE FALSE
  OBVIOUS
<1>1. PICK b \in B : \A k \in B : b <= k
  BY LeastExists
<1>2. CASE b = 0
  <2> DEFINE g == [t \in SUBSET (1 .. 0) |-> Nothing]
  <2>1. \A t \in SUBSET (1 .. 0) : t = {}
    OBVIOUS
  <2>2. CollectsTo(0, g)
    BY <2>1 DEF CollectsTo
  <2> QED
    BY <1>2, <2>2
<1>3. CASE b # 0
  <2>1. b - 1 \in Nat /\ b - 1 \notin B /\ (b - 1) + 1 = b
    BY <1>1, <1>3
  <2> DEFINE k == b - 1
  <2>2. PICK g : CollectsTo(k, g)
    BY <2>1
  <2>3. k \in Nat /\ b = k + 1
    BY <2>1
  <2> HIDE DEF k
  <2> DEFINE g2 == [t \in SUBSET (1 .. b) |-> IF b \in t THEN Longer(g[t \ {b}], b) ELSE g[t]]
  <2>4. \A t \in SUBSET (1 .. k) : g[t] = IF t = {} THEN Nothing ELSE Longer(g[t \ {Max(t)}], Max(t))
    BY <2>2 DEF CollectsTo
  <2>5. ASSUME NEW t \in SUBSET (1 .. b)
        PROVE  g2[t] = IF t = {} THEN Nothing ELSE Longer(g2[t \ {Max(t)}], Max(t))
    <3>1. CASE b \in t
      <4>1. Max(t) = b
        BY <2>3, <3>1, GreatestTo
      <4>2. t \ {b} \in SUBSET (1 .. k) /\ t \ {b} \in SUBSET (1 .. b) /\ b \notin t \ {b}
        BY <2>3
      <4>3. g2[t \ {b}] = g[t \ {b}] /\ g2[t] = Longer(g[t \ {b}], b)
        BY <3>1, <4>2
      <4> QED
        BY <3>1, <4>1, <4>3
    <3>2. CASE b \notin t
      <4>1. t \in SUBSET (1 .. k)
        BY <2>3, <3>2
      <4>2. g2[t] = g[t]
        BY <3>2
      <4>3. t \ {Max(t)} \in SUBSET (1 .. b) /\ b \notin t \ {Max(t)}
        BY <3>2
      <4>4. g2[t \ {Max(t)}] = g[t \ {Max(t)}]
        BY <4>3
      <4> QED
        BY <2>4, <4>1, <4>2, <4>4
    <3> QED
      BY <3>1, <3>2
  <2>6. g2 = [t \in SUBSET (1 .. b) |-> IF t = {} THEN Nothing ELSE Longer(g2[t \ {Max(t)}], Max(t))]
    <3> DEFINE r == [t \in SUBSET (1 .. b) |-> IF t = {} THEN Nothing ELSE Longer(g2[t \ {Max(t)}], Max(t))]
    <3>1. \A t \in SUBSET (1 .. b) : g2[t] = r[t]
      BY <2>5
    <3> QED
      BY <3>1
  <2>7. CollectsTo(b, g2)
    BY <2>6 DEF CollectsTo
  <2> QED
    BY <2>7
<1> QED
  BY <1>2, <1>3

\* What is collected are texts and the part of one.
Collected == [whole : Seq(Seq(Nat \X Nat)), part : Seq(Nat \X Nat)]

\* One frame more adds a text if one ends with it, and none otherwise.
LEMMA LongerBy ==
  ASSUME CInv, NEW t \in Collected, NEW n \in 1 .. Len(sent)
  PROVE  /\ Longer(t, n) \in Collected
         /\ Len(Longer(t, n).whole) = Len(t.whole) + IF EndsText(n) THEN 1 ELSE 0
<1>1. sent[n] \in FrameType /\ n \in Nat
  BY ElementOfSeq, LenProperties DEF CInv, Typed
<1>2. t.whole \in Seq(Seq(Nat \X Nat)) /\ t.part \in Seq(Nat \X Nat) /\ Len(t.whole) \in Nat
  BY LenProperties DEF Collected
<1> DEFINE pay == Payload(n, sent[n])
<1>3. pay \in Seq(Nat \X Nat)
  <2> DEFINE bytes == Bytes(n, sent[n])
             f == sent[n]
  <2>1. f.skip \in Nat /\ f.len \in Nat /\ f.skip >= 1
    BY <1>1 DEF FrameType
  <2>2. /\ bytes \in Seq({n} \X Nat) /\ Len(bytes) \in Nat
        /\ Len(bytes) = f.skip + f.len + IF f.skip = 1 THEN 1 ELSE 0
    BY <1>1, FrameBytes, LenProperties
  <2>3. f.skip + 1 \in Nat \ {0} /\ f.skip + f.len \in 0 .. Len(bytes)
    BY <2>1, <2>2
  <2> HIDE DEF bytes, f
  <2>4. SubSeq(bytes, f.skip + 1, f.skip + f.len) \in Seq({n} \X Nat)
    BY <2>2, <2>3, Part
  <2>5. {n} \X Nat \subseteq Nat \X Nat
    BY <1>1
  <2>6. SubSeq(bytes, f.skip + 1, f.skip + f.len) \in Seq(Nat \X Nat)
    BY <2>4, <2>5, SeqMonotonic
  <2> QED
    BY <2>6 DEF Payload, bytes, f
<1> HIDE DEF pay
<1> DEFINE part == t.part \o pay
<1>4. part \in Seq(Nat \X Nat)
  BY <1>2, <1>3, ConcatProperties
<1>5. Longer(t, n) = IF sent[n].fin
                     THEN [whole |-> IF sent[n].op \in {"text", "cont"} THEN Append(t.whole, part) ELSE t.whole,
                           part |-> <<>>]
                     ELSE [t EXCEPT !.part = part]
  BY DEF Longer, pay
<1> HIDE DEF part
<1>6. /\ Append(t.whole, part) \in Seq(Seq(Nat \X Nat)) /\ Len(Append(t.whole, part)) = Len(t.whole) + 1
      /\ <<>> \in Seq(Nat \X Nat)
  BY <1>2, <1>4, AppendProperties
<1>7. CASE EndsText(n)
  <2>1. Longer(t, n) = [whole |-> Append(t.whole, part), part |-> <<>>]
    BY <1>5, <1>7 DEF EndsText
  <2> QED
    BY <1>6, <1>7, <2>1 DEF Collected
<1>8. CASE ~EndsText(n) /\ sent[n].fin
  <2>1. Longer(t, n) = [whole |-> t.whole, part |-> <<>>]
    BY <1>5, <1>8 DEF EndsText
  <2> QED
    BY <1>2, <1>6, <1>8, <2>1 DEF Collected
<1>9. CASE ~sent[n].fin
  <2>1. Longer(t, n) = [whole |-> t.whole, part |-> part]
    BY <1>5, <1>9 DEF Collected
  <2>2. ~EndsText(n)
    BY <1>9 DEF EndsText
  <2> QED
    BY <1>2, <1>4, <2>1, <2>2 DEF Collected
<1> QED
  BY <1>7, <1>8, <1>9

\* So many texts are whole.
LEMMA TextsAre ==
  ASSUME CInv
  PROVE  Len(Texts) = Cardinality(Complete(Len(sent)))
<1> DEFINE N == Len(sent)
<1>1. N \in Nat /\ DOMAIN Numbers = 1 .. N /\ \A n \in 1 .. N : Numbers[n] = n
  BY LenProperties DEF CInv, Typed, Numbers
<1>2. ASSUME NEW g PROVE Collects(g) <=> CollectsTo(N, g)
  <2>1. \A t \in SUBSET (1 .. N) : t # {} => Numbers[Max(t)] = Max(t)
    BY <1>1, GreatestOf
  <2> DEFINE a == [t \in SUBSET (1 .. N) |-> IF t = {} THEN Nothing ELSE Longer(g[t \ {Max(t)}], Numbers[Max(t)])]
             b == [t \in SUBSET (1 .. N) |-> IF t = {} THEN Nothing ELSE Longer(g[t \ {Max(t)}], Max(t))]
  <2>2. \A t \in SUBSET (1 .. N) : a[t] = b[t]
    BY <2>1
  <2>3. a = b
    BY <2>2
  <2> QED
    BY <1>1, <2>3 DEF Collects, CollectsTo
<1>3. PICK c : CollectsTo(N, c) /\ Texts = c[1 .. N].whole
  <2>1. PICK g : CollectsTo(N, g)
    BY <1>1, CanCollect
  <2>2. PICK c : Collects(c) /\ Texts = c[DOMAIN Numbers].whole
    BY <1>2, <2>1, TextsCollected
  <2> QED
    BY <1>1, <1>2, <2>2
<1>4. \A t \in SUBSET (1 .. N) : c[t] = IF t = {} THEN Nothing ELSE Longer(c[t \ {Max(t)}], Max(t))
  BY <1>3 DEF CollectsTo
<1> DEFINE Right(k) == c[1 .. k] \in Collected /\ Len(c[1 .. k].whole) = Cardinality(Complete(k))
           B == {k \in 0 .. N : ~Right(k)}
<1>5. ASSUME B # {} PROVE FALSE
  <2>1. B \in SUBSET Nat
    BY <1>1
  <2>2. PICK b \in B : \A k \in B : b <= k
    BY <1>5, <2>1, LeastExists
  <2>3. b \in 0 .. N /\ ~Right(b) /\ \A k \in 0 .. N : k < b => Right(k)
    BY <1>1, <2>1, <2>2
  <2> HIDE DEF B
  <2>4. CASE b = 0
    <3>1. 1 .. b = {} /\ Complete(b) = {}
      BY <2>4 DEF Complete
    <3>2. c[1 .. b] = Nothing
      BY <1>4, <3>1
    <3>3. Cardinality(Complete(b)) = 0
      BY <3>1, FS_EmptySet
    <3> QED
      BY <2>3, <3>2, <3>3 DEF Nothing, Collected
  <2>5. CASE b # 0
    <3> DEFINE k == b - 1
    <3>1. k \in 0 .. N /\ k < b /\ k \in Nat /\ b \in 1 .. N /\ b = k + 1
      BY <1>1, <2>3, <2>5
    <3>2. Right(k)
      BY <2>3, <3>1
    <3> HIDE DEF k
    <3>3. 1 .. b \in SUBSET (1 .. N) /\ 1 .. b # {} /\ Max(1 .. b) = b /\ (1 .. b) \ {b} = 1 .. k
      <4>1. 1 .. b \in SUBSET (1 .. (k + 1)) /\ k + 1 \in 1 .. b
        BY <3>1
      <4>2. Max(1 .. b) = b
        BY <3>1, <4>1, GreatestTo
      <4> QED
        BY <1>1, <3>1, <4>2
    <3>4. c[1 .. b] = Longer(c[1 .. k], b)
      BY <1>4, <3>3
    <3>5. /\ c[1 .. b] \in Collected
          /\ Len(c[1 .. b].whole) = Cardinality(Complete(k)) + IF EndsText(b) THEN 1 ELSE 0
      BY <3>1, <3>2, <3>4, LongerBy
    <3>6. Cardinality(Complete(b)) = Cardinality(Complete(k)) + IF EndsText(b) THEN 1 ELSE 0
      <4>1. IsFiniteSet(Complete(k)) /\ Cardinality(Complete(k)) \in Nat
        BY <3>1, CompleteMore
      <4>2. b \notin Complete(k)
        BY <3>1 DEF Complete
      <4>3. CASE EndsText(b)
        <5>1. Complete(b) = Complete(k) \cup {b}
          BY <3>1, <4>3 DEF Complete
        <5> QED
          BY <4>1, <4>2, <4>3, <5>1, FS_AddElement
      <4>4. CASE ~EndsText(b)
        <5>1. Complete(b) = Complete(k)
          BY <3>1, <4>4 DEF Complete
        <5> QED
          BY <4>1, <4>4, <5>1
      <4> QED
        BY <4>3, <4>4
    <3> QED
      BY <2>3, <3>5, <3>6
  <2> QED
    BY <2>4, <2>5
<1>6. Right(N)
  BY <1>1, <1>5
<1> QED
  BY <1>3, <1>6

\* Spec never handles a message before its last fragment is sent: the messages
\* handled are no more than those sent in full, for every kind of client, hasty
\* ones and fragments that come in one recv included (parseMessage,
\* getRemainingMessage and getWholeMessage, as communicate calls them).
THEOREM NotEarlyHolds == Spec => []NotEarly
<1>1. ASSUME NInv PROVE NotEarly
  <2>1. PICK e \in 0 .. Len(sent) : Len(got) <= Cardinality(Complete(e))
    BY <1>1 DEF NInv, NotYet
  <2>2. Len(sent) \in Nat /\ Len(got) \in Nat
    BY <1>1, LenProperties DEF NInv, CInv, Typed
  <2>3. Cardinality(Complete(e)) \in Nat /\ Cardinality(Complete(Len(sent))) \in Nat
    <3>1. e \in Nat /\ e < e + 1 /\ e + 1 \in Nat /\ Len(sent) < Len(sent) + 1 /\ Len(sent) + 1 \in Nat
      BY <2>2
    <3> QED
      BY <2>2, <3>1, CompleteMore
  <2>4. Cardinality(Complete(e)) <= Cardinality(Complete(Len(sent)))
    <3>1. CASE e = Len(sent)
      BY <2>3, <3>1
    <3>2. CASE e # Len(sent)
      <4>1. e \in Nat /\ e < Len(sent)
        BY <2>2, <3>2
      <4> QED
        BY <2>2, <4>1, CompleteMore
    <3> QED
      BY <3>1, <3>2
  <2>5. Len(Texts) = Cardinality(Complete(Len(sent)))
    BY <1>1, TextsAre DEF NInv
  <2> QED
    BY <2>1, <2>2, <2>3, <2>4, <2>5 DEF NotEarly
<1>2. Spec => []NInv
  BY NInvInit, NInvStep, PTL DEF Spec
<1> QED
  BY <1>1, <1>2, PTL
=============================================================================
