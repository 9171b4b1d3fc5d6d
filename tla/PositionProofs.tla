--------------------------- MODULE PositionProofs ---------------------------
(***************************************************************************)
(* The position the engine searches is that of its board whatever moves    *)
(* and probes lie one in the other, for boards and rows of any size.       *)
(***************************************************************************)
EXTENDS Position, FiniteSetTheorems, TLAPS

-----------------------------------------------------------------------------
(* Points in order *)

Pair == Int \X Int

\* Before is a strict total order.
LEMMA BeforeOrder ==
  ASSUME NEW p \in Pair, NEW q \in Pair, NEW r \in Pair
  PROVE  /\ ~Before(p, p)
         /\ Before(p, q) /\ Before(q, r) => Before(p, r)
         /\ p # q => Before(p, q) \/ Before(q, p)
BY DEF Pair, Before

Below(S, x) == {y \in S : Before(y, x)}

\* How many elements are before one tells it apart.
LEMMA Ranks ==
  ASSUME NEW S \in SUBSET Pair, IsFiniteSet(S), NEW x \in S
  PROVE  /\ Cardinality(S) \in Nat
         /\ Cardinality(Below(S, x)) \in 0 .. (Cardinality(S) - 1)
         /\ \A y \in S : x # y => Cardinality(Below(S, x)) # Cardinality(Below(S, y))
<1> DEFINE Rank(y) == Cardinality(Below(S, y))
<1>1. ASSUME NEW y \in S PROVE IsFiniteSet(Below(S, y)) /\ Rank(y) \in Nat
  <2>1. Below(S, y) \in SUBSET S
    BY DEF Below
  <2> QED
    BY <2>1, FS_Subset, FS_CardinalityType
<1>2. Cardinality(S) \in Nat
  BY FS_CardinalityType
<1>3. Rank(x) < Cardinality(S)
  <2>1. Below(S, x) \in SUBSET S /\ x \notin Below(S, x)
    BY BeforeOrder DEF Below
  <2>2. Rank(x) <= Cardinality(S) /\ (Cardinality(S) = Rank(x) => S = Below(S, x))
    BY <2>1, FS_Subset
  <2> QED
    BY <1>1, <1>2, <2>1, <2>2
<1>4. ASSUME NEW y \in S, NEW z \in S, Before(y, z)
      PROVE  Rank(y) < Rank(z)
  <2>1. Below(S, y) \cup {y} \in SUBSET Below(S, z) /\ y \notin Below(S, y)
    BY <1>4, BeforeOrder DEF Below
  <2>2. Cardinality(Below(S, y) \cup {y}) = Rank(y) + 1
    BY <1>1, <2>1, FS_AddElement
  <2>3. Cardinality(Below(S, y) \cup {y}) <= Rank(z)
    BY <1>1, <2>1, FS_Subset
  <2> QED
    BY <1>1, <2>2, <2>3
<1>5. ASSUME NEW y \in S, x # y PROVE Rank(x) # Rank(y)
  <2>1. Before(x, y) \/ Before(y, x)
    BY <1>5, BeforeOrder
  <2> QED
    BY <1>1, <1>4, <2>1
<1> QED
  BY <1>1, <1>2, <1>3, <1>5

\* InOrder is a list.
LEMMA InOrderList ==
  ASSUME NEW S
  PROVE  InOrder(S) = [n \in 1 .. Cardinality(S) |-> InOrder(S)[n]]
<1> DEFINE Pick(n) == CHOOSE x \in S : Cardinality({y \in S : Before(y, x)}) = n - 1
<1>1. InOrder(S) = [n \in 1 .. Cardinality(S) |-> Pick(n)]
  BY DEF InOrder
<1> HIDE DEF Pick
<1> QED
  BY <1>1

\* InOrder lists the elements of a finite set, each once.
LEMMA InOrderElements ==
  ASSUME NEW S \in SUBSET Pair, IsFiniteSet(S)
  PROVE  /\ InOrder(S) \in Seq(S) /\ Len(InOrder(S)) = Cardinality(S)
         /\ \A n \in 1 .. Cardinality(S) : Cardinality(Below(S, InOrder(S)[n])) = n - 1
         /\ \A m, n \in 1 .. Cardinality(S) : InOrder(S)[m] = InOrder(S)[n] => m = n
<1> DEFINE c == Cardinality(S)
           T == 0 .. (c - 1)
           f == [x \in S |-> Cardinality(Below(S, x))]
<1>1. c \in Nat
  BY FS_CardinalityType
<1>2. f \in [S -> T] /\ \A x, y \in S : f[x] = f[y] => x = y
  BY Ranks
<1> HIDE DEF f
<1>3. f \in Injection(S, T)
  <2> HIDE DEF T
  <2>1. f \in [S -> T]
    BY <1>2
  <2>2. \A a, b \in S : f[a] = f[b] => a = b
    BY <1>2
  <2> QED
    BY <2>1, <2>2 DEF Injection, IsInjective
<1>4. IsFiniteSet(T) /\ Cardinality(T) = c
  <2> HIDE DEF c
  <2>1. 0 \in Int /\ c - 1 \in Int /\ ((c - 1) - 0) + 1 = c /\ (0 > c - 1 => c = 0)
    BY <1>1
  <2> QED
    BY <2>1, FS_Interval
<1>5. f \in Surjection(S, T)
  BY <1>3, <1>4, FS_Injection
<1>6. ASSUME NEW n \in 1 .. c
      PROVE  InOrder(S)[n] \in S /\ Cardinality(Below(S, InOrder(S)[n])) = n - 1
  <2>1. n - 1 \in T
    BY <1>1
  <2>2. PICK x \in S : f[x] = n - 1
    BY <1>5, <2>1 DEF Surjection, Range
  <2>3. \E y \in S : Cardinality(Below(S, y)) = n - 1
    BY <2>2 DEF f
  <2>4. InOrder(S)[n] = CHOOSE y \in S : Cardinality(Below(S, y)) = n - 1
    BY DEF InOrder, Below
  <2> QED
    BY <2>3, <2>4
<1>7. InOrder(S) \in Seq(S) /\ Len(InOrder(S)) = c
  <2>1. InOrder(S) = [n \in 1 .. c |-> InOrder(S)[n]]
    BY InOrderList
  <2> HIDE DEF c
  <2>2. InOrder(S) \in [1 .. c -> S]
    BY <1>6, <2>1
  <2> QED
    BY <1>1, <2>2
<1> QED
  BY <1>1, <1>6, <1>7

\* A list that goes up and has every element of a set is InOrder of the set.
LEMMA InOrderIs ==
  ASSUME NEW S \in SUBSET Pair, NEW n \in Nat, NEW r \in [1 .. n -> S],
         \A x \in S : \E i \in 1 .. n : r[i] = x,
         \A i, j \in 1 .. n : i < j => Before(r[i], r[j])
  PROVE  IsFiniteSet(S) /\ InOrder(S) = r
<1>1. \A i, j \in 1 .. n : r[i] = r[j] => i = j
  <2> SUFFICES ASSUME NEW i \in 1 .. n, NEW j \in 1 .. n, r[i] = r[j], i # j PROVE FALSE
    OBVIOUS
  <2>1. i < j \/ j < i
    OBVIOUS
  <2>2. r[i] \in Pair /\ r[j] \in Pair
    OBVIOUS
  <2> QED
    BY <2>1, <2>2, BeforeOrder
<1>2. r \in Bijection(1 .. n, S)
  BY <1>1 DEF Bijection, Injection, Surjection, IsInjective
<1>3. IsFiniteSet(S) /\ Cardinality(S) = n
  <2>1. IsFiniteSet(1 .. n) /\ Cardinality(1 .. n) = n
    BY FS_Interval
  <2> QED
    BY <1>2, <2>1, FS_Bijection DEF ExistsBijection
<1>4. ASSUME NEW i \in 1 .. n PROVE Cardinality(Below(S, r[i])) = i - 1
  <2> DEFINE g == [j \in 1 .. (i - 1) |-> r[j]]
  <2>1. \A j \in 1 .. n : Before(r[j], r[i]) => j < i
    <3> SUFFICES ASSUME NEW j \in 1 .. n, Before(r[j], r[i]), ~(j < i) PROVE FALSE
      OBVIOUS
    <3>1. j = i \/ i < j
      OBVIOUS
    <3>2. r[i] \in Pair /\ r[j] \in Pair
      OBVIOUS
    <3> QED
      BY <3>1, <3>2, BeforeOrder
  <2>2. g \in [1 .. (i - 1) -> Below(S, r[i])]
    BY DEF Below
  <2>3. \A a, b \in 1 .. (i - 1) : g[a] = g[b] => a = b
    BY <1>1
  <2>4. \A y \in Below(S, r[i]) : \E j \in 1 .. (i - 1) : g[j] = y
    BY <2>1 DEF Below
  <2>5. g \in Bijection(1 .. (i - 1), Below(S, r[i]))
    <3> HIDE DEF g
    <3> QED
      BY <2>2, <2>3, <2>4 DEF Bijection, Injection, Surjection, IsInjective
  <2>6. IsFiniteSet(1 .. (i - 1)) /\ Cardinality(1 .. (i - 1)) = i - 1
    BY FS_Interval
  <2> QED
    BY <2>5, <2>6, FS_Bijection DEF ExistsBijection
<1>5. ASSUME NEW i \in 1 .. n PROVE InOrder(S)[i] = r[i]
  <2>1. InOrder(S)[i] \in S /\ Cardinality(Below(S, InOrder(S)[i])) = i - 1
    BY <1>3, InOrderElements
  <2>2. PICK j \in 1 .. n : r[j] = InOrder(S)[i]
    BY <2>1
  <2> QED
    BY <1>4, <2>1, <2>2
<1>6. InOrder(S) = [i \in 1 .. n |-> InOrder(S)[i]]
  BY <1>3, InOrderList
<1> QED
  BY <1>3, <1>5, <1>6

-----------------------------------------------------------------------------
(* The lines of the board *)

\* The four directions.
LEMMA Shifts ==
  ASSUME NEW p \in Pair, NEW i \in Int
  PROVE  /\ Shift(p, 0, i) = <<p[1] + i, p[2]>>
         /\ Shift(p, 1, i) = <<p[1] + i, p[2] - i>>
         /\ Shift(p, 2, i) = <<p[1], p[2] + i>>
         /\ Shift(p, 3, i) = <<p[1] + i, p[2] + i>>
<1>1. /\ Increasement[0] = <<1, 0>> /\ Increasement[1] = <<1, -1>>
      /\ Increasement[2] = <<0, 1>> /\ Increasement[3] = <<1, 1>>
  BY DEF Increasement, Angle
<1> QED
  BY <1>1 DEF Shift, Pair

\* One step back.
LEMMA ShiftBack ==
  ASSUME NEW p \in Pair
  PROVE  /\ Shift(p, 0, -1) = <<p[1] - 1, p[2]>>
         /\ Shift(p, 1, -1) = <<p[1] - 1, p[2] + 1>>
         /\ Shift(p, 2, -1) = <<p[1], p[2] - 1>>
         /\ Shift(p, 3, -1) = <<p[1] - 1, p[2] - 1>>
<1>1. p[1] \in Int /\ p[2] \in Int
  BY DEF Pair
<1>2. ASSUME NEW i \in Int, i = -1
      PROVE  /\ Shift(p, 0, i) = <<p[1] - 1, p[2]>>
             /\ Shift(p, 1, i) = <<p[1] - 1, p[2] + 1>>
             /\ Shift(p, 2, i) = <<p[1], p[2] - 1>>
             /\ Shift(p, 3, i) = <<p[1] - 1, p[2] - 1>>
  <2>1. p[1] + i = p[1] - 1 /\ p[2] + i = p[2] - 1 /\ p[2] - i = p[2] + 1
    BY <1>1, <1>2
  <2>2. /\ Shift(p, 0, i) = <<p[1] + i, p[2]>> /\ Shift(p, 1, i) = <<p[1] + i, p[2] - i>>
        /\ Shift(p, 2, i) = <<p[1], p[2] + i>> /\ Shift(p, 3, i) = <<p[1] + i, p[2] + i>>
    BY Shifts
  <2> QED
    BY <2>1, <2>2
<1>3. -1 \in Int
  OBVIOUS
<1> QED
  BY <1>2, <1>3

\* The places of the board.
LEMMA Cells == /\ Point \subseteq Pair
               /\ \A x, y \in Int : <<x, y>> \in Point <=> x \in 0 .. (N - 1) /\ y \in 0 .. (N - 1)
BY DEF Point, Pair

\* Start finds the place on the border.
LEMMA StartIs ==
  ASSUME NEW p \in Point, NEW k \in Angle
  PROVE  /\ Start(p, k) \in Point /\ Shift(Start(p, k), k, -1) \notin Point
         /\ \E b \in 0 .. (N - 1) : Start(p, k) = Shift(p, k, -b)
<1> USE BoardAssumption, Cells
<1>1. p \in Pair /\ p = <<p[1], p[2]>> /\ p[1] \in 0 .. (N - 1) /\ p[2] \in 0 .. (N - 1)
  BY DEF Point
<1>2. CASE k = 0
  <2>1. Start(p, k) = <<0, p[2]>> /\ Start(p, k) \in Pair
    BY <1>1, <1>2 DEF Start, Pair
  <2>2. Start(p, k) = Shift(p, k, -p[1])
    <3>1. -p[1] \in Int /\ p[1] + (-p[1]) = 0
      BY <1>1
    <3>2. Shift(p, 0, -p[1]) = <<p[1] + (-p[1]), p[2]>>
      BY <1>1, <3>1, Shifts
    <3> QED
      BY <1>2, <2>1, <3>1, <3>2
  <2>3. Shift(Start(p, k), k, -1) = <<-1, p[2]>>
    BY <1>1, <1>2, <2>1, Shifts
  <2> QED
    BY <1>1, <2>1, <2>2, <2>3
<1>3. CASE k = 2
  <2>1. Start(p, k) = <<p[1], 0>> /\ Start(p, k) \in Pair
    BY <1>1, <1>3 DEF Start, Pair
  <2>2. Start(p, k) = Shift(p, k, -p[2])
    <3>1. -p[2] \in Int /\ p[2] + (-p[2]) = 0
      BY <1>1
    <3>2. Shift(p, 2, -p[2]) = <<p[1], p[2] + (-p[2])>>
      BY <1>1, <3>1, Shifts
    <3> QED
      BY <1>3, <2>1, <3>1, <3>2
  <2>3. Shift(Start(p, k), k, -1) = <<p[1], -1>>
    BY <1>1, <1>3, <2>1, Shifts
  <2> QED
    BY <1>1, <2>1, <2>2, <2>3
<1>4. ASSUME k \in {1, 3}
      PROVE  \E b \in 0 .. (N - 1) : Shift(p, k, -b) \in Point /\ Shift(p, k, -b - 1) \notin Point
  <2>1. CASE k = 1
    <3> DEFINE b == IF p[1] <= N - 1 - p[2] THEN p[1] ELSE N - 1 - p[2]
    <3>1. b \in 0 .. (N - 1) /\ b <= p[1] /\ b <= N - 1 - p[2] /\ (b = p[1] \/ b = N - 1 - p[2])
      BY <1>1
    <3> HIDE DEF b
    <3>2. Shift(p, k, -b) = <<p[1] - b, p[2] + b>> /\ Shift(p, k, -b - 1) = <<p[1] - b - 1, p[2] + b + 1>>
      BY <1>1, <2>1, <3>1, Shifts
    <3> QED
      BY <1>1, <3>1, <3>2
  <2>2. CASE k = 3
    <3> DEFINE b == IF p[1] <= p[2] THEN p[1] ELSE p[2]
    <3>1. b \in 0 .. (N - 1) /\ b <= p[1] /\ b <= p[2] /\ (b = p[1] \/ b = p[2])
      BY <1>1
    <3> HIDE DEF b
    <3>2. Shift(p, k, -b) = <<p[1] - b, p[2] - b>> /\ Shift(p, k, -b - 1) = <<p[1] - b - 1, p[2] - b - 1>>
      BY <1>1, <2>2, <3>1, Shifts
    <3> QED
      BY <1>1, <3>1, <3>2
  <2> QED
    BY <1>4, <2>1, <2>2
<1>5. CASE k \in {1, 3}
  <2>1. \E b \in 0 .. (N - 1) : /\ Start(p, k) = Shift(p, k, -b)
                                /\ Shift(p, k, -b) \in Point /\ Shift(p, k, -b - 1) \notin Point
    <3> DEFINE Back(b) == Shift(p, k, -b) \in Point /\ Shift(p, k, -b - 1) \notin Point
    <3>1. \E b \in 0 .. (N - 1) : Back(b)
      BY <1>4, <1>5
    <3>2. Start(p, k) = Shift(p, k, -(CHOOSE b \in 0 .. (N - 1) : Back(b)))
      BY <1>5 DEF Start
    <3> HIDE DEF Back
    <3>3. \E b \in 0 .. (N - 1) : Start(p, k) = Shift(p, k, -b) /\ Back(b)
      BY <3>1, <3>2
    <3> QED
      BY <3>3 DEF Back
  <2>2. PICK b \in 0 .. (N - 1) : /\ Start(p, k) = Shift(p, k, -b)
                                  /\ Shift(p, k, -b) \in Point /\ Shift(p, k, -b - 1) \notin Point
    BY <2>1
  <2> DEFINE q == Shift(p, k, -b)
  <2>3. Shift(q, k, -1) = Shift(p, k, -b - 1)
    <3>1. q \in Pair
      BY <2>2
    <3>2. CASE k = 1
      <4>1. q = <<p[1] - b, p[2] + b>> /\ Shift(p, k, -b - 1) = <<p[1] - b - 1, p[2] + b + 1>>
        BY <1>1, <3>2, Shifts
      <4> HIDE DEF q
      <4>2. Shift(q, 1, -1) = <<q[1] - 1, q[2] + 1>>
        BY <3>1, ShiftBack
      <4> QED
        BY <3>2, <4>1, <4>2
    <3>3. CASE k = 3
      <4>1. q = <<p[1] - b, p[2] - b>> /\ Shift(p, k, -b - 1) = <<p[1] - b - 1, p[2] - b - 1>>
        BY <1>1, <3>3, Shifts
      <4> HIDE DEF q
      <4>2. Shift(q, 3, -1) = <<q[1] - 1, q[2] - 1>>
        BY <3>1, ShiftBack
      <4> QED
        BY <3>3, <4>1, <4>2
    <3> QED
      BY <1>5, <3>2, <3>3
  <2> QED
    BY <2>2, <2>3
<1> QED
  BY <1>2, <1>3, <1>5 DEF Angle

\* Where the place before is off the board.
LEMMA OnBorder ==
  ASSUME NEW s \in Point, NEW k \in Angle, Shift(s, k, -1) \notin Point
  PROVE  /\ k = 0 => s[1] = 0
         /\ k = 1 => s[1] = 0 \/ s[2] = N - 1
         /\ k = 2 => s[2] = 0
         /\ k = 3 => s[1] = 0 \/ s[2] = 0
<1>1. s \in Pair /\ s[1] \in 0 .. (N - 1) /\ s[2] \in 0 .. (N - 1) /\ N \in Nat
  BY BoardAssumption DEF Point, Pair
<1>2. CASE k = 0
  BY <1>1, <1>2, ShiftBack, Cells
<1>3. CASE k = 1
  BY <1>1, <1>3, ShiftBack, Cells
<1>4. CASE k = 2
  BY <1>1, <1>4, ShiftBack, Cells
<1>5. CASE k = 3
  <2>1. Shift(s, 3, -1) = <<s[1] - 1, s[2] - 1>>
    BY <1>1, ShiftBack
  <2>2. ASSUME s[1] # 0, s[2] # 0 PROVE FALSE
    <3>1. s[1] - 1 \in 0 .. (N - 1) /\ s[2] - 1 \in 0 .. (N - 1) /\ s[1] - 1 \in Int /\ s[2] - 1 \in Int
      BY <1>1, <2>2
    <3>2. <<s[1] - 1, s[2] - 1>> \in Point
      BY <3>1, Cells
    <3> QED
      BY <1>5, <2>1, <3>2
  <2> QED
    BY <1>5, <2>2
<1> QED
  BY <1>2, <1>3, <1>4, <1>5 DEF Angle

\* From the border on the places of a line are on the board up to some place.
LEMMA Extent ==
  ASSUME NEW s \in Point, NEW k \in Angle, Shift(s, k, -1) \notin Point
  PROVE  \E L \in 1 .. N : {j \in 0 .. (N - 1) : Shift(s, k, j) \in Point} = 0 .. (L - 1)
<1>1. s \in Pair /\ s[1] \in 0 .. (N - 1) /\ s[2] \in 0 .. (N - 1) /\ N \in Nat /\ s = <<s[1], s[2]>>
  BY BoardAssumption DEF Point, Pair
<1>2. CASE k = 0
  <2>1. s[1] = 0
    BY <1>2, OnBorder
  <2>2. \A j \in 0 .. (N - 1) : Shift(s, k, j) \in Point
    BY <1>1, <1>2, <2>1, Shifts, Cells
  <2>3. {j \in 0 .. (N - 1) : Shift(s, k, j) \in Point} = 0 .. (N - 1) /\ N \in 1 .. N
    BY <1>1, <2>2
  <2> QED
    BY <2>3
<1>3. CASE k = 2
  <2>1. s[2] = 0
    BY <1>3, OnBorder
  <2>2. \A j \in 0 .. (N - 1) : Shift(s, k, j) \in Point
    BY <1>1, <1>3, <2>1, Shifts, Cells
  <2>3. {j \in 0 .. (N - 1) : Shift(s, k, j) \in Point} = 0 .. (N - 1) /\ N \in 1 .. N
    BY <1>1, <2>2
  <2> QED
    BY <2>3
<1>4. CASE k = 1
  <2> DEFINE L == IF N - 1 - s[1] <= s[2] THEN N - s[1] ELSE s[2] + 1
  <2>1. L \in 1 .. N /\ L <= N - s[1] /\ L <= s[2] + 1 /\ (L = N - s[1] \/ L = s[2] + 1)
    BY <1>1
  <2> HIDE DEF L
  <2>2. ASSUME NEW j \in 0 .. (N - 1)
        PROVE  Shift(s, k, j) \in Point <=> j \in 0 .. (L - 1)
    <3>1. Shift(s, k, j) = <<s[1] + j, s[2] - j>>
      BY <1>1, <1>4, Shifts
    <3>2. Shift(s, k, j) \in Point <=> s[1] + j <= N - 1 /\ s[2] - j >= 0
      BY <1>1, <3>1, Cells
    <3> QED
      BY <1>1, <2>1, <3>2
  <2>3. {j \in 0 .. (N - 1) : Shift(s, k, j) \in Point} = 0 .. (L - 1)
    BY <1>1, <2>1, <2>2
  <2> QED
    BY <2>1, <2>3
<1>5. CASE k = 3
  <2> DEFINE L == IF s[1] >= s[2] THEN N - s[1] ELSE N - s[2]
  <2>1. L \in 1 .. N /\ L <= N - s[1] /\ L <= N - s[2] /\ (L = N - s[1] \/ L = N - s[2])
    BY <1>1
  <2> HIDE DEF L
  <2>2. ASSUME NEW j \in 0 .. (N - 1)
        PROVE  Shift(s, k, j) \in Point <=> j \in 0 .. (L - 1)
    <3>1. Shift(s, k, j) = <<s[1] + j, s[2] + j>>
      BY <1>1, <1>5, Shifts
    <3>2. Shift(s, k, j) \in Point <=> s[1] + j <= N - 1 /\ s[2] + j <= N - 1
      BY <1>1, <3>1, Cells
    <3> QED
      BY <1>1, <2>1, <3>2
  <2>3. {j \in 0 .. (N - 1) : Shift(s, k, j) \in Point} = 0 .. (L - 1)
    BY <1>1, <2>1, <2>2
  <2> QED
    BY <2>1, <2>3
<1> QED
  BY <1>2, <1>3, <1>4, <1>5 DEF Angle

\* What AnalyzeLine reads: the places of the board from the border on.
LEMMA ReachIs ==
  ASSUME NEW p \in Point, NEW k \in Angle
  PROVE  \E L \in 1 .. N :
           /\ Reach[p][k] \in [1 .. L -> Point]
           /\ \A i \in 1 .. L : Reach[p][k][i] = Shift(Start(p, k), k, i - 1)
           /\ \A j \in 0 .. (N - 1) : Shift(Start(p, k), k, j) \in Point => j + 1 \in 1 .. L
<1> DEFINE s == Start(p, k)
           J == {j \in 0 .. (N - 1) : Shift(s, k, j) \in Point}
<1>1. s \in Point /\ Shift(s, k, -1) \notin Point
  BY StartIs
<1>2. PICK L \in 1 .. N : J = 0 .. (L - 1)
  BY <1>1, Extent
<1> HIDE DEF J, s
<1>3. Cardinality(J) = L
  <2>1. Cardinality(0 .. (L - 1)) = L
    BY FS_Interval
  <2> QED
    BY <1>2, <2>1
<1>4. Reach[p][k] = [i \in 1 .. Cardinality(J) |-> Shift(s, k, i - 1)]
  BY DEF Reach, FromBorder, J, s
<1>5. \A i \in 1 .. L : Shift(s, k, i - 1) \in Point
  <2> SUFFICES ASSUME NEW i \in 1 .. L PROVE i - 1 \in J
    BY DEF J
  <2> QED
    BY <1>2
<1>6. \A j \in 0 .. (N - 1) : Shift(s, k, j) \in Point => j + 1 \in 1 .. L
  BY <1>2 DEF J
<1>7. Reach[p][k] = [i \in 1 .. L |-> Shift(s, k, i - 1)]
  BY <1>3, <1>4
<1> QED
  BY <1>5, <1>6, <1>7 DEF s

\* Two places are on one line just when LineID says so.
LEMMA SameLine ==
  ASSUME NEW p \in Point, NEW k \in Angle, NEW q \in Point
  PROVE  LineID(q, k) = LineID(p, k) <=> \E j \in 0 .. (N - 1) : q = Shift(Start(p, k), k, j)
<1> DEFINE s == Start(p, k)
<1>1. PICK b \in 0 .. (N - 1) : s = Shift(p, k, -b)
  BY StartIs
<1>2. s \in Point /\ Shift(s, k, -1) \notin Point
  BY StartIs
<1> HIDE DEF s
<1>3. /\ p \in Pair /\ s \in Pair /\ q \in Pair
      /\ p[1] \in 0 .. (N - 1) /\ p[2] \in 0 .. (N - 1)
      /\ s[1] \in 0 .. (N - 1) /\ s[2] \in 0 .. (N - 1)
      /\ q[1] \in 0 .. (N - 1) /\ q[2] \in 0 .. (N - 1)
      /\ q = <<q[1], q[2]>>
      /\ N \in Nat /\ Six \in Nat /\ -b \in Int
  BY <1>2, BoardAssumption DEF Point, Pair
<1>4. CASE k = 0
  <2>1. s = <<p[1] + -b, p[2]>>
    BY <1>1, <1>3, <1>4, Shifts
  <2>2. s[1] = 0
    BY <1>2, <1>4, OnBorder
  <2>3. \A j \in 0 .. (N - 1) : Shift(s, k, j) = <<j, p[2]>>
    <3>1. s[2] = p[2]
      BY <2>1
    <3>2. \A j \in 0 .. (N - 1) : Shift(s, 0, j) = <<s[1] + j, s[2]>>
      BY <1>3, Shifts
    <3> QED
      BY <1>3, <1>4, <2>2, <3>1, <3>2
  <2>4. LineID(q, k) = q[2] /\ LineID(p, k) = p[2]
    BY <1>4 DEF LineID
  <2> QED
    BY <1>3, <2>3, <2>4 DEF s
<1>5. CASE k = 2
  <2>1. s = <<p[1], p[2] + -b>>
    BY <1>1, <1>3, <1>5, Shifts
  <2>2. s[2] = 0
    BY <1>2, <1>5, OnBorder
  <2>3. \A j \in 0 .. (N - 1) : Shift(s, k, j) = <<p[1], j>>
    BY <1>3, <1>5, <2>1, <2>2, Shifts
  <2>4. LineID(q, k) = N + q[1] /\ LineID(p, k) = N + p[1]
    BY <1>5 DEF LineID
  <2> QED
    BY <1>3, <2>3, <2>4 DEF s
<1>6. CASE k = 1
  <2>1. s = <<p[1] + -b, p[2] - (-b)>>
    BY <1>1, <1>3, <1>6, Shifts
  <2>2. s[1] + s[2] = p[1] + p[2]
    BY <1>3, <2>1
  <2>3. s[1] = 0 \/ s[2] = N - 1
    BY <1>2, <1>6, OnBorder
  <2>4. \A j \in 0 .. (N - 1) : Shift(s, k, j) = <<s[1] + j, s[2] - j>>
    BY <1>3, <1>6, Shifts
  <2>5. LineID(q, k) = LineID(p, k) <=> q[1] + q[2] = p[1] + p[2]
    BY <1>3, <1>6 DEF LineID
  <2>6. ASSUME q[1] + q[2] = p[1] + p[2]
        PROVE  q[1] - s[1] \in 0 .. (N - 1) /\ q = <<s[1] + (q[1] - s[1]), s[2] - (q[1] - s[1])>>
    <3>1. q[1] + q[2] = s[1] + s[2]
      BY <1>3, <2>2, <2>6
    <3>2. q[1] >= s[1]
      BY <1>3, <2>3, <3>1
    <3>3. q[1] - s[1] \in 0 .. (N - 1) /\ s[1] + (q[1] - s[1]) = q[1] /\ s[2] - (q[1] - s[1]) = q[2]
      BY <1>3, <3>1, <3>2
    <3> QED
      BY <1>3, <3>3
  <2>7. ASSUME NEW j \in 0 .. (N - 1), q = Shift(s, k, j) PROVE q[1] + q[2] = p[1] + p[2]
    BY <1>3, <2>2, <2>4, <2>7
  <2> QED
    BY <2>4, <2>5, <2>6, <2>7 DEF s
<1>7. CASE k = 3
  <2>1. s = <<p[1] + -b, p[2] + -b>>
    BY <1>1, <1>3, <1>7, Shifts
  <2>2. s[2] - s[1] = p[2] - p[1]
    BY <1>3, <2>1
  <2>3. s[1] = 0 \/ s[2] = 0
    BY <1>2, <1>7, OnBorder
  <2>4. \A j \in 0 .. (N - 1) : Shift(s, k, j) = <<s[1] + j, s[2] + j>>
    BY <1>3, <1>7, Shifts
  <2>5. LineID(q, k) = LineID(p, k) <=> q[2] - q[1] = p[2] - p[1]
    BY <1>3, <1>7 DEF LineID
  <2>6. ASSUME q[2] - q[1] = p[2] - p[1]
        PROVE  q[1] - s[1] \in 0 .. (N - 1) /\ q = <<s[1] + (q[1] - s[1]), s[2] + (q[1] - s[1])>>
    <3>1. q[1] - s[1] \in 0 .. (N - 1) /\ s[1] + (q[1] - s[1]) = q[1] /\ s[2] + (q[1] - s[1]) = q[2]
      BY <1>3, <2>2, <2>3, <2>6
    <3> QED
      BY <1>3, <3>1
  <2>7. ASSUME NEW j \in 0 .. (N - 1), q = Shift(s, k, j) PROVE q[2] - q[1] = p[2] - p[1]
    BY <1>3, <2>2, <2>4, <2>7
  <2> QED
    BY <2>4, <2>5, <2>6, <2>7 DEF s
<1> QED
  BY <1>4, <1>5, <1>6, <1>7 DEF Angle

\* A line goes up in the order of its points.
LEMMA Upwards ==
  ASSUME NEW s \in Pair, NEW k \in Angle, NEW i \in Int, NEW j \in Int, i < j
  PROVE  Before(Shift(s, k, i), Shift(s, k, j))
<1>1. s[1] \in Int /\ s[2] \in Int
  BY DEF Pair
<1>2. CASE k = 0
  <2>1. Shift(s, 0, i) = <<s[1] + i, s[2]>> /\ Shift(s, 0, j) = <<s[1] + j, s[2]>>
    BY Shifts
  <2> QED
    BY <1>1, <1>2, <2>1 DEF Before
<1>3. CASE k = 1
  <2>1. Shift(s, 1, i) = <<s[1] + i, s[2] - i>> /\ Shift(s, 1, j) = <<s[1] + j, s[2] - j>>
    BY Shifts
  <2> QED
    BY <1>1, <1>3, <2>1 DEF Before
<1>4. CASE k = 2
  <2>1. Shift(s, 2, i) = <<s[1], s[2] + i>> /\ Shift(s, 2, j) = <<s[1], s[2] + j>>
    BY Shifts
  <2> QED
    BY <1>1, <1>4, <2>1 DEF Before
<1>5. CASE k = 3
  <2>1. Shift(s, 3, i) = <<s[1] + i, s[2] + i>> /\ Shift(s, 3, j) = <<s[1] + j, s[2] + j>>
    BY Shifts
  <2> QED
    BY <1>1, <1>5, <2>1 DEF Before
<1> QED
  BY <1>2, <1>3, <1>4, <1>5 DEF Angle

\* The entries of different directions have different numbers.
LEMMA LineIDKinds ==
  ASSUME NEW p \in Point, NEW k \in Angle, LongEnough(p, k)
  PROVE  /\ LineID(p, k) \in LineIDs
         /\ k = 0 => LineID(p, k) \in 0 .. (N - 1)
         /\ k = 1 => LineID(p, k) \in 2 * N .. 4 * N - 2 * Six
         /\ k = 2 => LineID(p, k) \in N .. 2 * N - 1
         /\ k = 3 => LineID(p, k) \in 4 * N - 2 * Six + 1 .. 6 * N - 4 * Six + 1
<1>1. /\ p[1] \in 0 .. (N - 1) /\ p[2] \in 0 .. (N - 1) /\ N \in Nat /\ Six \in Nat /\ 1 < Six /\ Six < N
      /\ LineIDs = 0 .. 6 * N - 4 * Six + 1
  BY BoardAssumption DEF Point, LineIDs
<1>2. CASE k = 0
  <2>1. LineID(p, k) = p[2]
    BY <1>2 DEF LineID
  <2> QED
    BY <1>1, <1>2, <2>1
<1>3. CASE k = 1
  <2> DEFINE sum == p[1] + p[2]
  <2>1. sum > Six - 2 /\ sum < 2 * N - Six /\ sum \in Int
    <3>1. sum > Six - 2 /\ sum < 2 * N - Six
      BY <1>3 DEF LongEnough
    <3> QED
      BY <1>1, <3>1
  <2>2. LineID(p, k) = 2 * N + sum - (Six - 1)
    <3>1. LineID(p, k) = 2 * N + p[1] + p[2] - (Six - 1)
      BY <1>3 DEF LineID
    <3> QED
      BY <1>1, <3>1
  <2> HIDE DEF sum
  <2>3. LineID(p, k) \in 2 * N .. 4 * N - 2 * Six
    BY <1>1, <2>1, <2>2
  <2>4. LineID(p, k) \in LineIDs
    BY <1>1, <2>3
  <2> QED
    BY <1>3, <2>3, <2>4
<1>4. CASE k = 2
  <2>1. LineID(p, k) = N + p[1]
    BY <1>4 DEF LineID
  <2> QED
    BY <1>1, <1>4, <2>1
<1>5. CASE k = 3
  <2> DEFINE by == p[2] - p[1]
  <2>1. by > Six - N - 1 /\ by < N - Six + 1 /\ by \in Int
    <3>1. by > Six - N - 1 /\ by < N - Six + 1
      BY <1>5 DEF LongEnough
    <3> QED
      BY <1>1, <3>1
  <2>2. LineID(p, k) = 2 * N + (2 * N - 2 * Six + 1) + (N - Six) + by
    BY <1>1, <1>5 DEF LineID
  <2> HIDE DEF by
  <2>3. LineID(p, k) \in 4 * N - 2 * Six + 1 .. 6 * N - 4 * Six + 1
    BY <1>1, <2>1, <2>2
  <2>4. LineID(p, k) \in LineIDs
    BY <1>1, <2>3
  <2> QED
    BY <1>5, <2>3, <2>4
<1> QED
  BY <1>2, <1>3, <1>4, <1>5 DEF Angle

\* Whether a diagonal has an entry does not depend on the place on it.
LEMMA LongAlong ==
  ASSUME NEW p \in Point, NEW q \in Point, NEW k \in Angle, LineID(q, k) = LineID(p, k)
  PROVE  LongEnough(p, k) <=> LongEnough(q, k)
<1>1. /\ p[1] \in Int /\ p[2] \in Int /\ q[1] \in Int /\ q[2] \in Int /\ N \in Nat /\ Six \in Nat
  BY BoardAssumption DEF Point
<1>2. CASE k \in {0, 2}
  BY <1>2 DEF LongEnough
<1>3. CASE k = 1
  BY <1>1, <1>3 DEF LineID, LongEnough
<1>4. CASE k = 3
  BY <1>1, <1>4 DEF LineID, LongEnough
<1> QED
  BY <1>2, <1>3, <1>4 DEF Angle

\* So a number tells the direction.
LEMMA KindsApart ==
  ASSUME NEW p \in Point, NEW k \in Angle, LongEnough(p, k),
         NEW q \in Point, NEW a \in Angle, LongEnough(q, a), LineID(q, a) = LineID(p, k)
  PROVE  a = k
<1> DEFINE id == LineID(p, k)
<1>1. N \in Nat /\ Six \in Nat /\ 1 < Six /\ Six < N
  BY BoardAssumption
<1>2. /\ a = 0 => id \in 0 .. (N - 1)
      /\ a = 1 => id \in 2 * N .. 4 * N - 2 * Six
      /\ a = 2 => id \in N .. 2 * N - 1
      /\ a = 3 => id \in 4 * N - 2 * Six + 1 .. 6 * N - 4 * Six + 1
  BY LineIDKinds
<1>3. /\ k = 0 => id \in 0 .. (N - 1)
      /\ k = 1 => id \in 2 * N .. 4 * N - 2 * Six
      /\ k = 2 => id \in N .. 2 * N - 1
      /\ k = 3 => id \in 4 * N - 2 * Six + 1 .. 6 * N - 4 * Six + 1
  BY LineIDKinds
<1>4. a \in 0 .. 3 /\ k \in 0 .. 3
  BY DEF Angle
<1> HIDE DEF id
<1> QED
  BY <1>1, <1>2, <1>3, <1>4

\* The direction of an entry for a place, and the other places it is for.
LEMMA EntryOf ==
  ASSUME NEW p \in Point, NEW id \in Cross[p]
  PROVE  LET k == DirOf(p, id)
         IN /\ k \in Angle /\ LongEnough(p, k) /\ LineID(p, k) = id /\ id \in LineIDs
            /\ \A q \in Point : id \in Cross[q] <=> LineID(q, k) = id
<1> DEFINE k == DirOf(p, id)
<1>1. \E a \in Angle : LongEnough(p, a) /\ LineID(p, a) = id
  BY DEF Cross
<1>2. k \in Angle /\ LongEnough(p, k) /\ LineID(p, k) = id
  BY <1>1 DEF DirOf
<1> HIDE DEF k
<1>3. id \in LineIDs
  BY <1>2, LineIDKinds
<1>4. ASSUME NEW q \in Point, LineID(q, k) = id PROVE id \in Cross[q]
  BY <1>2, <1>4, LongAlong DEF Cross
<1>5. ASSUME NEW q \in Point, id \in Cross[q] PROVE LineID(q, k) = id
  <2>1. PICK a \in Angle : LongEnough(q, a) /\ LineID(q, a) = id
    BY <1>5 DEF Cross
  <2>2. a = k
    BY <1>2, <2>1, KindsApart
  <2> QED
    BY <2>1, <2>2
<1> QED
  BY <1>2, <1>3, <1>4, <1>5 DEF k

\* The board is finite.
LEMMA PointsFinite == IsFiniteSet(Point)
<1>1. IsFiniteSet(0 .. (N - 1))
  BY BoardAssumption, FS_Interval
<1> QED
  BY <1>1, FS_Product DEF Point

\* PointsOf lists the places an entry is for.
LEMMA PointsTyped ==
  ASSUME NEW id \in LineIDs
  PROVE  PointsOf[id] \in Seq(Point) /\ \A i \in DOMAIN PointsOf[id] : id \in Cross[PointsOf[id][i]]
<1> DEFINE S == {p \in Point : id \in Cross[p]}
<1>1. S \in SUBSET Point /\ S \in SUBSET Pair
  BY Cells
<1>2. IsFiniteSet(S)
  BY <1>1, PointsFinite, FS_Subset
<1>3. PointsOf[id] = InOrder(S)
  BY DEF PointsOf
<1> HIDE DEF S
<1>4. InOrder(S) \in Seq(S)
  BY <1>1, <1>2, InOrderElements
<1>5. \A i \in DOMAIN InOrder(S) : InOrder(S)[i] \in S
  BY <1>4
<1>6. InOrder(S) \in Seq(Point)
  BY <1>1, <1>4
<1> QED
  BY <1>3, <1>5, <1>6 DEF S

\* AnalyzeLine reads the places of the entry in their order.
LEMMA ReachInOrder ==
  ASSUME NEW p \in Point, NEW id \in Cross[p]
  PROVE  id \in LineIDs /\ PointsOf[id] = Reach[p][DirOf(p, id)]
<1> DEFINE k == DirOf(p, id)
           s == Start(p, k)
           S == {q \in Point : id \in Cross[q]}
           r == Reach[p][k]
<1>1. /\ k \in Angle /\ LineID(p, k) = id /\ id \in LineIDs
      /\ \A q \in Point : id \in Cross[q] <=> LineID(q, k) = LineID(p, k)
  BY EntryOf
<1>2. PICK L \in 1 .. N :
        /\ r \in [1 .. L -> Point]
        /\ \A i \in 1 .. L : r[i] = Shift(s, k, i - 1)
        /\ \A j \in 0 .. (N - 1) : Shift(s, k, j) \in Point => j + 1 \in 1 .. L
  BY <1>1, ReachIs
<1>3. PointsOf[id] = InOrder(S)
  BY <1>1 DEF PointsOf
<1>4. s \in Pair /\ N \in Nat /\ S \in SUBSET Pair /\ L \in Nat
  BY <1>1, StartIs, Cells, BoardAssumption
<1>5. \A q \in Point : q \in S <=> \E j \in 0 .. (N - 1) : q = Shift(s, k, j)
  BY <1>1, SameLine
<1> HIDE DEF k, s, S, r
<1>6. ASSUME NEW i \in 1 .. L PROVE r[i] \in S
  <2>1. i - 1 \in 0 .. (N - 1) /\ r[i] \in Point /\ r[i] = Shift(s, k, i - 1)
    BY <1>2, <1>4
  <2> QED
    BY <1>5, <2>1
<1>7. r \in [1 .. L -> S]
  BY <1>2, <1>6
<1>8. ASSUME NEW q \in S PROVE \E i \in 1 .. L : r[i] = q
  <2>1. q \in Point
    BY DEF S
  <2>2. PICK j \in 0 .. (N - 1) : q = Shift(s, k, j)
    BY <1>5, <2>1
  <2>3. j + 1 \in 1 .. L /\ (j + 1) - 1 = j
    BY <1>2, <1>4, <2>1, <2>2
  <2>4. r[j + 1] = Shift(s, k, (j + 1) - 1)
    BY <1>2, <2>3
  <2> QED
    BY <2>2, <2>3, <2>4
<1>9. ASSUME NEW i \in 1 .. L, NEW j \in 1 .. L, i < j PROVE Before(r[i], r[j])
  <2>1. i - 1 \in Int /\ j - 1 \in Int /\ i - 1 < j - 1
    BY <1>9
  <2>2. Before(Shift(s, k, i - 1), Shift(s, k, j - 1))
    BY <1>1, <1>4, <2>1, Upwards DEF k
  <2> QED
    BY <1>2, <2>2
<1>10. InOrder(S) = r
  BY <1>4, <1>7, <1>8, <1>9, InOrderIs
<1> QED
  BY <1>1, <1>3, <1>10 DEF r, k

\* What is found on a line of a board.
Content(board, id, side) == Analyze([i \in DOMAIN PointsOf[id] |-> board[PointsOf[id][i]]], side)

\* What AnalyzeLine finds for an entry is what is on its line.
LEMMA LineRead ==
  ASSUME NEW p \in Point, NEW id \in Cross[p], NEW board, NEW side
  PROVE  /\ id \in LineIDs
         /\ AnalyzeLine(board, p, DirOf(p, id), side) = Content(board, id, side)
BY ReachInOrder DEF AnalyzeLine, Content
-----------------------------------------------------------------------------
(* Boards under calls *)

Stone == Side \cup {EMPTY}

Lines == [Side -> [LineIDs -> [Part -> Seq(Stone)]]]
Call  == [kind : {"move", "probe"}, side : Side, points : Seq(Point), which : [Side -> 0 .. 7],
          LineTemp : Lines]

\* A board with the stones of some of the calls on it.
Layers(base, calls, S) ==
  [p \in Point |-> LET on == {i \in S : p \in Range(calls[i].points)}
                   IN IF on = {} THEN base[p] ELSE calls[Max(on)].side]

\* The stones of calls are on places that are empty otherwise.
Apart(base, calls) ==
  \A i \in DOMAIN calls : \A p \in Range(calls[i].points) :
     /\ base[p] = EMPTY
     /\ \A j \in DOMAIN calls : p \in Range(calls[j].points) => i = j

\* The stone on a place is that of the one call that has put it, or of the board.
LEMMA LayerStones ==
  ASSUME NEW base, NEW calls \in Seq(Call), Apart(base, calls),
         NEW S \in SUBSET (DOMAIN calls), NEW p \in Point
  PROVE  /\ \A i \in S : p \in Range(calls[i].points) => Layers(base, calls, S)[p] = calls[i].side
         /\ (\A i \in S : p \notin Range(calls[i].points)) => Layers(base, calls, S)[p] = base[p]
<1> DEFINE on == {i \in S : p \in Range(calls[i].points)}
<1>1. Layers(base, calls, S)[p] = IF on = {} THEN base[p] ELSE calls[Max(on)].side
  BY DEF Layers
<1>2. ASSUME NEW i \in S, p \in Range(calls[i].points)
      PROVE  Layers(base, calls, S)[p] = calls[i].side
  <2>1. on = {i}
    BY <1>2 DEF Apart
  <2>2. i \in Nat
    OBVIOUS
  <2>3. Max({i}) = i
    BY <2>2 DEF Max
  <2> QED
    BY <1>1, <2>1, <2>3
<1>3. ASSUME \A i \in S : p \notin Range(calls[i].points)
      PROVE  Layers(base, calls, S)[p] = base[p]
  BY <1>1, <1>3
<1> QED
  BY <1>2, <1>3

\* The calls beyond do not matter.
LEMMA LayersBelow ==
  ASSUME NEW base, NEW calls \in Seq(Call), NEW more \in Seq(Call), Apart(base, calls), Apart(base, more),
         NEW S \in SUBSET (DOMAIN calls), S \subseteq DOMAIN more, \A i \in S : calls[i] = more[i]
  PROVE  Layers(base, calls, S) = Layers(base, more, S)
<1>1. ASSUME NEW p \in Point
      PROVE  Layers(base, calls, S)[p] = Layers(base, more, S)[p]
  <2>1. CASE \E i \in S : p \in Range(calls[i].points)
    BY <2>1, LayerStones
  <2>2. CASE \A i \in S : p \notin Range(calls[i].points)
    BY <2>2, LayerStones
  <2> QED
    BY <2>1, <2>2
<1> QED
  BY <1>1 DEF Layers

\* A call more: its stones are put on the board.
LEMMA PutLayer ==
  ASSUME NEW base, NEW calls \in Seq(Call), NEW call \in Call, NEW S \in SUBSET (DOMAIN calls),
         Apart(base, calls), Apart(base, Append(calls, call))
  PROVE  Layers(base, Append(calls, call), S \cup {Len(calls) + 1})
           = Put(Layers(base, calls, S), call.points, call.side)
<1> DEFINE n == Len(calls)
           more == Append(calls, call)
           T == S \cup {n + 1}
<1>1. /\ more \in Seq(Call) /\ DOMAIN more = 1 .. (n + 1) /\ DOMAIN calls = 1 .. n /\ n \in Nat
      /\ more[n + 1] = call /\ \A i \in 1 .. n : more[i] = calls[i]
      /\ Apart(base, more)
  OBVIOUS
<1>2. T \in SUBSET (DOMAIN more) /\ \A i \in S : i \in 1 .. n /\ i \in T
  BY <1>1
<1> HIDE DEF more, n
<1>3. ASSUME NEW p \in Point
      PROVE  Layers(base, more, T)[p] = Put(Layers(base, calls, S), call.points, call.side)[p]
  <2>1. Put(Layers(base, calls, S), call.points, call.side)[p]
          = IF p \in Range(call.points) THEN call.side ELSE Layers(base, calls, S)[p]
    BY DEF Put
  <2>2. CASE p \in Range(call.points)
    BY <1>1, <1>2, <2>1, <2>2, LayerStones
  <2>3. CASE p \notin Range(call.points)
    <3>1. CASE \E i \in S : p \in Range(calls[i].points)
      <4>1. PICK i \in S : p \in Range(calls[i].points)
        BY <3>1
      <4>2. Layers(base, calls, S)[p] = calls[i].side
        BY <4>1, LayerStones
      <4>3. i \in T /\ more[i] = calls[i]
        BY <1>1, <1>2
      <4>4. Layers(base, more, T)[p] = more[i].side
        BY <1>1, <1>2, <4>1, <4>3, LayerStones
      <4> QED
        BY <2>1, <2>3, <4>2, <4>3, <4>4
    <3>2. CASE \A i \in S : p \notin Range(calls[i].points)
      <4>1. \A i \in T : p \notin Range(more[i].points)
        BY <1>1, <1>2, <2>3, <3>2
      <4>2. Layers(base, more, T)[p] = base[p]
        BY <1>1, <1>2, <4>1, LayerStones
      <4>3. Layers(base, calls, S)[p] = base[p]
        BY <3>2, LayerStones
      <4> QED
        BY <2>1, <2>3, <4>2, <4>3
    <3> QED
      BY <3>1, <3>2
  <2> QED
    BY <2>2, <2>3
<1> QED
  BY <1>3 DEF Layers, Put, n, more

\* A call less: its stones are taken off.
LEMMA TakeLayer ==
  ASSUME NEW base, NEW calls \in Seq(Call), NEW S \in SUBSET (DOMAIN calls), NEW i \in S, Apart(base, calls)
  PROVE  Layers(base, calls, S \ {i}) = Put(Layers(base, calls, S), calls[i].points, EMPTY)
<1>1. ASSUME NEW p \in Point
      PROVE  Layers(base, calls, S \ {i})[p] = Put(Layers(base, calls, S), calls[i].points, EMPTY)[p]
  <2>1. Put(Layers(base, calls, S), calls[i].points, EMPTY)[p]
          = IF p \in Range(calls[i].points) THEN EMPTY ELSE Layers(base, calls, S)[p]
    BY DEF Put
  <2>2. CASE p \in Range(calls[i].points)
    <3>1. base[p] = EMPTY /\ \A j \in S \ {i} : p \notin Range(calls[j].points)
      BY <2>2 DEF Apart
    <3> QED
      BY <2>1, <2>2, <3>1, LayerStones
  <2>3. CASE p \notin Range(calls[i].points)
    <3>1. CASE \E j \in S \ {i} : p \in Range(calls[j].points)
      BY <2>1, <2>3, <3>1, LayerStones
    <3>2. CASE \A j \in S \ {i} : p \notin Range(calls[j].points)
      <4>1. \A j \in S : p \notin Range(calls[j].points)
        BY <2>3, <3>2
      <4> QED
        BY <2>1, <2>3, <3>2, <4>1, LayerStones
    <3> QED
      BY <3>1, <3>2
  <2> QED
    BY <2>2, <2>3
<1> QED
  BY <1>1 DEF Layers, Put

-----------------------------------------------------------------------------
(* The entries *)

\* A line of two boards that differ elsewhere only.
LEMMA ContentLocal ==
  ASSUME NEW id \in LineIDs, NEW side, NEW one, NEW other,
         \A p \in Point : id \in Cross[p] => one[p] = other[p]
  PROVE  Content(one, id, side) = Content(other, id, side)
<1>1. \A i \in DOMAIN PointsOf[id] : one[PointsOf[id][i]] = other[PointsOf[id][i]]
  BY PointsTyped
<1>2. [i \in DOMAIN PointsOf[id] |-> one[PointsOf[id][i]]]
        = [i \in DOMAIN PointsOf[id] |-> other[PointsOf[id][i]]]
  BY <1>1
<1> QED
  BY <1>2 DEF Content

\* What is found on a line is a sequence of stones.
LEMMA ContentTyped ==
  ASSUME NEW id \in LineIDs, NEW side, NEW board \in [Point -> Stone]
  PROVE  Content(board, id, side) \in Seq(Stone)
<1>1. PointsOf[id] \in Seq(Point)
  BY PointsTyped
<1>2. [i \in DOMAIN PointsOf[id] |-> board[PointsOf[id][i]]] \in Seq(Stone)
  BY <1>1
<1>3. <<>> \in Seq(Stone)
  OBVIOUS
<1> QED
  BY <1>2, <1>3 DEF Content, Analyze

\* What a call computes is among the parts it saves.
LEMMA ComputedCopied ==
  ASSUME NEW which \in 0 .. 7
  PROVE  /\ Computed(which) \subseteq Copied(which) /\ Copied(which) \subseteq Part
         /\ 0 \in Computed(which) /\ Computed(which) \subseteq Part
         /\ which = 0 => Computed(which) = Part
         /\ which = 7 => Computed(which) = {0}
BY DEF Computed, Copied, Part

\* The entries after UpdateLineForCross: where the points cross and the call looks,
\* that of the board; where it does not save, as before.
LEMMA Updated ==
  ASSUME NEW info, NEW board, NEW points, Range(points) \subseteq Point, NEW which \in [Side -> 0 .. 7],
         NEW side \in Side, NEW id \in LineIDs, NEW f \in Part
  PROVE  LET after == UpdateLineForCross(info, board, points, which)[side][id][f]
         IN /\ id \in Crossing(points) /\ f \in Computed(which[side]) => after = Content(board, id, side)
            /\ id \notin Crossing(points) \/ f \notin Copied(which[side]) => after = info[side][id][f]
            /\ after \in {Content(board, id, side), <<>>, info[side][id][f]}
<1> DEFINE p == CHOOSE q \in Range(points) : id \in Cross[q]
           after == UpdateLineForCross(info, board, points, which)[side][id]
<1>1. CASE id \in Crossing(points)
  <2>1. p \in Point /\ id \in Cross[p]
    BY <1>1 DEF Crossing
  <2>2. AnalyzeLine(board, p, DirOf(p, id), side) = Content(board, id, side)
    BY <2>1, LineRead
  <2>3. after = [g \in Part |->
                   CASE g \in Computed(which[side]) -> AnalyzeLine(board, p, DirOf(p, id), side)
                     [] g \in Copied(which[side]) \ Computed(which[side]) -> <<>>
                     [] OTHER -> info[side][id][g]]
    BY <1>1 DEF UpdateLineForCross
  <2> HIDE DEF p, after
  <2>4. after[f] = CASE f \in Computed(which[side]) -> Content(board, id, side)
                     [] f \in Copied(which[side]) \ Computed(which[side]) -> <<>>
                     [] OTHER -> info[side][id][f]
    BY <2>2, <2>3
  <2>5. Computed(which[side]) \subseteq Copied(which[side])
    BY ComputedCopied
  <2> QED
    BY <1>1, <2>4, <2>5 DEF after
<1>2. CASE id \notin Crossing(points)
  BY <1>2 DEF UpdateLineForCross
<1> QED
  BY <1>1, <1>2

\* The entries after BackupLine and RecoverLine.
LEMMA CopiedLine ==
  ASSUME NEW from, NEW to, NEW points, NEW which, NEW side \in Side, NEW id \in LineIDs, NEW f \in Part
  PROVE  CopyLine(from, to, points, which)[side][id][f]
           = IF id \in Crossing(points) /\ f \in Copied(which[side]) THEN from[side][id][f] ELSE to[side][id][f]
BY DEF CopyLine

\* What the search reads under the first i calls.
WantedAt(calls, i, side) ==
  IF i > 0 /\ calls[i].kind = "probe" THEN Computed(calls[i].which[side]) ELSE Part

\* The calls beyond the i-th that have saved a part of an entry.
Saving(calls, i, side, id, f) ==
  {j \in DOMAIN calls : j > i /\ id \in Crossing(calls[j].points) /\ f \in Copied(calls[j].which[side])}

\* The part as it is when they are all taken back.
Restores(info, calls, i, side, id, f, v) ==
  \/ Saving(calls, i, side, id, f) = {} /\ info[side][id][f] = v
  \/ \E j \in Saving(calls, i, side, id, f) :
       /\ \A k \in Saving(calls, i, side, id, f) : j <= k
       /\ calls[j].LineTemp[side][id][f] = v

\* What the search reads is what is on the line, now and whenever it comes back.
LinesOf(info, base, calls) ==
  \A i \in 0 .. Len(calls), side \in Side, id \in LineIDs : \A f \in WantedAt(calls, i, side) :
    Restores(info, calls, i, side, id, f, Content(Layers(base, calls, 1 .. i), id, side))

\* A call more leaves what those before it restore: it has saved what it changes.
LEMMA PushRestores ==
  ASSUME NEW info, NEW after, NEW calls \in Seq(Call), NEW call \in Call,
         NEW i \in 0 .. Len(calls), NEW side \in Side, NEW id \in LineIDs, NEW f \in Part, NEW v,
         Restores(info, calls, i, side, id, f, v),
         id \in Crossing(call.points) /\ f \in Copied(call.which[side])
           => call.LineTemp[side][id][f] = info[side][id][f],
         id \notin Crossing(call.points) \/ f \notin Copied(call.which[side])
           => after[side][id][f] = info[side][id][f]
  PROVE  Restores(after, Append(calls, call), i, side, id, f, v)
<1> DEFINE n == Len(calls)
           more == Append(calls, call)
           old == Saving(calls, i, side, id, f)
           new == Saving(more, i, side, id, f)
<1>1. /\ DOMAIN more = 1 .. (n + 1) /\ DOMAIN calls = 1 .. n /\ n \in Nat /\ i \in 0 .. n
      /\ more[n + 1] = call /\ \A j \in 1 .. n : more[j] = calls[j]
  OBVIOUS
<1> HIDE DEF more, n
<1>2. new = old \cup (IF id \in Crossing(call.points) /\ f \in Copied(call.which[side])
                      THEN {n + 1} ELSE {})
  BY <1>1 DEF Saving
<1>3. old \subseteq 1 .. n
  BY <1>1 DEF Saving
<1>4. \/ old = {} /\ info[side][id][f] = v
      \/ \E j \in old : (\A k \in old : j <= k) /\ calls[j].LineTemp[side][id][f] = v
  BY DEF Restores
<1>5. \/ new = {} /\ after[side][id][f] = v
      \/ \E j \in new : (\A k \in new : j <= k) /\ more[j].LineTemp[side][id][f] = v
  <2> HIDE DEF old, new
  <2>1. CASE old = {} /\ info[side][id][f] = v
    BY <1>1, <1>2, <2>1
  <2>2. ASSUME NEW j \in old, \A k \in old : j <= k, calls[j].LineTemp[side][id][f] = v
        PROVE  j \in new /\ (\A k \in new : j <= k) /\ more[j].LineTemp[side][id][f] = v
    BY <1>1, <1>2, <1>3, <2>2
  <2> QED
    BY <1>4, <2>1, <2>2
<1> QED
  BY <1>5 DEF Restores, more

\* A call less leaves it too: what the call has saved is copied back.
LEMMA PopRestores ==
  ASSUME NEW info, NEW after, NEW calls \in Seq(Call), calls # <<>>,
         NEW i \in 0 .. (Len(calls) - 1), NEW side \in Side, NEW id \in LineIDs, NEW f \in Part, NEW v,
         Restores(info, calls, i, side, id, f, v),
         after[side][id][f]
           = IF id \in Crossing(Last(calls).points) /\ f \in Copied(Last(calls).which[side])
             THEN Last(calls).LineTemp[side][id][f] ELSE info[side][id][f]
  PROVE  Restores(after, Front(calls), i, side, id, f, v)
<1> DEFINE n == Len(calls)
           less == Front(calls)
           call == calls[n]
           old == Saving(calls, i, side, id, f)
           new == Saving(less, i, side, id, f)
<1>1. /\ DOMAIN less = 1 .. (n - 1) /\ DOMAIN calls = 1 .. n /\ n \in Nat /\ n > 0 /\ i \in 0 .. (n - 1)
      /\ Last(calls) = call /\ \A j \in 1 .. (n - 1) : less[j] = calls[j]
  BY DEF Front, Last
<1> HIDE DEF less, n
<1>2. old = new \cup (IF id \in Crossing(call.points) /\ f \in Copied(call.which[side])
                      THEN {n} ELSE {})
  BY <1>1 DEF Saving
<1>3. new \subseteq 1 .. (n - 1)
  BY <1>1 DEF Saving
<1>4. \/ old = {} /\ info[side][id][f] = v
      \/ \E j \in old : (\A k \in old : j <= k) /\ calls[j].LineTemp[side][id][f] = v
  BY DEF Restores
<1>5. \/ new = {} /\ after[side][id][f] = v
      \/ \E j \in new : (\A k \in new : j <= k) /\ less[j].LineTemp[side][id][f] = v
  <2> HIDE DEF old, new
  <2>1. CASE old = {} /\ info[side][id][f] = v
    BY <1>1, <1>2, <2>1
  <2>2. ASSUME NEW j \in old, \A k \in old : j <= k, calls[j].LineTemp[side][id][f] = v
        PROVE  \/ new = {} /\ after[side][id][f] = v
               \/ j \in new /\ (\A k \in new : j <= k) /\ less[j].LineTemp[side][id][f] = v
    <3>1. CASE j \in new
      BY <1>1, <1>2, <1>3, <2>2, <3>1
    <3>2. CASE j \notin new
      <4>1. j = n /\ id \in Crossing(call.points) /\ f \in Copied(call.which[side])
        BY <1>2, <3>2
      <4>2. new = {}
        BY <1>1, <1>2, <1>3, <2>2, <4>1
      <4> QED
        BY <1>1, <2>2, <4>1, <4>2
    <3> QED
      BY <3>1, <3>2
  <2> QED
    BY <1>4, <2>1, <2>2
<1> QED
  BY <1>5 DEF Restores, less

-----------------------------------------------------------------------------
(* A call more, a call less *)

\* The stones of a call more are apart from the others.
LEMMA PushApart ==
  ASSUME NEW base, NEW calls \in Seq(Call), NEW call \in Call, Apart(base, calls),
         \A p \in Range(call.points) : Layers(base, calls, 1 .. Len(calls))[p] = EMPTY
  PROVE  Apart(base, Append(calls, call))
<1> DEFINE n == Len(calls)
           more == Append(calls, call)
<1>1. /\ DOMAIN more = 1 .. (n + 1) /\ DOMAIN calls = 1 .. n /\ n \in Nat
      /\ more[n + 1] = call /\ \A j \in 1 .. n : more[j] = calls[j] /\ calls[j] \in Call
  OBVIOUS
<1>4. \A j \in 1 .. n : calls[j].side \in Side
  BY <1>1 DEF Call
<1>2. ASSUME NEW p \in Range(call.points)
      PROVE  base[p] = EMPTY /\ \A i \in 1 .. n : p \notin Range(calls[i].points)
  <2>1. p \in Point
    BY DEF Call, Range
  <2>2. ASSUME NEW i \in 1 .. n, p \in Range(calls[i].points) PROVE FALSE
    <3>1. Layers(base, calls, 1 .. n)[p] = calls[i].side
      BY <1>1, <2>1, <2>2, LayerStones
    <3>2. EMPTY \notin Side
      BY BoardAssumption DEF Side
    <3> QED
      BY <1>4, <3>1, <3>2
  <2>3. Layers(base, calls, 1 .. n)[p] = base[p]
    BY <1>1, <2>1, <2>2, LayerStones
  <2> QED
    BY <2>2, <2>3
<1> HIDE DEF more, n
<1>3. ASSUME NEW i \in DOMAIN more, NEW p \in Range(more[i].points)
      PROVE  base[p] = EMPTY /\ \A j \in DOMAIN more : p \in Range(more[j].points) => i = j
  <2>1. CASE i = n + 1
    BY <1>1, <1>2, <1>3, <2>1
  <2>2. CASE i \in 1 .. n
    <3>1. p \in Range(calls[i].points)
      BY <1>1, <1>3, <2>2
    <3>2. base[p] = EMPTY /\ \A j \in 1 .. n : p \in Range(calls[j].points) => i = j
      BY <1>1, <2>2, <3>1 DEF Apart
    <3>3. p \notin Range(call.points)
      BY <1>2, <2>2, <3>1
    <3> QED
      BY <1>1, <3>2, <3>3
  <2> QED
    BY <1>1, <2>1, <2>2
<1> QED
  BY <1>3 DEF Apart, more

\* A call that saves what it changes, and asks for no more than was there, keeps the
\* entries that are read those of the lines.
LEMMA PushLines ==
  ASSUME NEW base, NEW info, NEW calls \in Seq(Call), NEW call \in Call, Apart(base, calls),
         \A p \in Range(call.points) : Layers(base, calls, 1 .. Len(calls))[p] = EMPTY,
         LinesOf(info, base, calls),
         \A side \in Side, id \in LineIDs, f \in Part :
           id \in Crossing(call.points) /\ f \in Copied(call.which[side])
             => call.LineTemp[side][id][f] = info[side][id][f],
         call.kind = "move" => \A side \in Side : call.which[side] = 0,
         \A side \in Side : \/ WantedAt(calls, Len(calls), side) = Part
                            \/ /\ call.kind = "probe"
                               /\ Computed(call.which[side]) \subseteq WantedAt(calls, Len(calls), side)
  PROVE  LET board == Put(Layers(base, calls, 1 .. Len(calls)), call.points, call.side)
         IN /\ board = Layers(base, Append(calls, call), 1 .. Len(Append(calls, call)))
            /\ LinesOf(UpdateLineForCross(info, board, call.points, call.which), base, Append(calls, call))
<1> DEFINE n == Len(calls)
           more == Append(calls, call)
           old == Layers(base, calls, 1 .. n)
           board == Put(old, call.points, call.side)
           after == UpdateLineForCross(info, board, call.points, call.which)
<1>1. /\ DOMAIN more = 1 .. (n + 1) /\ DOMAIN calls = 1 .. n /\ n \in Nat /\ Len(more) = n + 1
      /\ more[n + 1] = call /\ \A j \in 1 .. n : more[j] = calls[j]
      /\ more \in Seq(Call)
  OBVIOUS
<1>2. Apart(base, more)
  BY PushApart
<1>3. board = Layers(base, more, 1 .. (n + 1))
  <2>1. (1 .. n) \cup {n + 1} = 1 .. (n + 1) /\ 1 .. n \in SUBSET (DOMAIN calls)
    BY <1>1
  <2>2. Layers(base, more, (1 .. n) \cup {n + 1}) = board
    BY <1>2, <2>1, PutLayer
  <2> QED
    BY <2>1, <2>2
<1>4. Range(call.points) \subseteq Point /\ call.which \in [Side -> 0 .. 7] /\ call.kind \in {"move", "probe"}
  BY DEF Call, Range
<1> HIDE DEF more, n, after, board, old
<1>5. ASSUME NEW i \in 0 .. n, NEW side \in Side, NEW id \in LineIDs, NEW f \in WantedAt(more, i, side)
      PROVE  Restores(after, more, i, side, id, f, Content(Layers(base, more, 1 .. i), id, side))
  <2>1. WantedAt(more, i, side) = WantedAt(calls, i, side)
    BY <1>1 DEF WantedAt
  <2>2. 1 .. i \in SUBSET (DOMAIN calls) /\ 1 .. i \subseteq DOMAIN more
    BY <1>1
  <2>3. Layers(base, more, 1 .. i) = Layers(base, calls, 1 .. i)
    BY <1>1, <1>2, <2>2, LayersBelow
  <2>4. f \in Part
    <3>1. i > 0 => calls[i].which[side] \in 0 .. 7
      <4>1. i > 0 => calls[i] \in Call
        BY <1>1 DEF n
      <4> QED
        BY <4>1 DEF Call
    <3> QED
      BY <2>1, <3>1, ComputedCopied DEF WantedAt
  <2>5. Restores(info, calls, i, side, id, f, Content(Layers(base, calls, 1 .. i), id, side))
    BY <2>1 DEF LinesOf, n
  <2>6. id \notin Crossing(call.points) \/ f \notin Copied(call.which[side])
          => after[side][id][f] = info[side][id][f]
    BY <1>4, <2>4, Updated DEF after
  <2>7. id \in Crossing(call.points) /\ f \in Copied(call.which[side])
          => call.LineTemp[side][id][f] = info[side][id][f]
    BY <2>4
  <2> HIDE DEF WantedAt
  <2>8. Restores(after, Append(calls, call), i, side, id, f, Content(Layers(base, calls, 1 .. i), id, side))
    BY <2>4, <2>5, <2>6, <2>7, PushRestores DEF n
  <2> QED
    BY <2>3, <2>8 DEF more
<1>6. ASSUME NEW side \in Side, NEW id \in LineIDs, NEW f \in WantedAt(more, n + 1, side)
      PROVE  Restores(after, more, n + 1, side, id, f, Content(Layers(base, more, 1 .. (n + 1)), id, side))
  <2>1. call.which[side] \in 0 .. 7
    BY <1>4
  <2>2. f \in Computed(call.which[side]) /\ f \in WantedAt(calls, n, side) /\ f \in Part
    <3>1. WantedAt(more, n + 1, side) = IF call.kind = "probe" THEN Computed(call.which[side]) ELSE Part
      BY <1>1 DEF WantedAt
    <3>2. Computed(call.which[side]) \subseteq Part /\ (call.which[side] = 0 => Computed(call.which[side]) = Part)
      BY <2>1, ComputedCopied
    <3> QED
      BY <1>4, <3>1, <3>2 DEF n
  <2>3. Saving(more, n + 1, side, id, f) = {}
    BY <1>1 DEF Saving
  <2>4. after[side][id][f] = Content(board, id, side)
    <3>1. CASE id \in Crossing(call.points)
      BY <1>4, <2>2, <3>1, Updated DEF after
    <3>2. CASE id \notin Crossing(call.points)
      <4>1. after[side][id][f] = info[side][id][f]
        BY <1>4, <2>2, <3>2, Updated DEF after
      <4>2. Saving(calls, n, side, id, f) = {}
        BY <1>1 DEF Saving
      <4>3. n \in 0 .. n
        BY <1>1
      <4>4. Restores(info, calls, n, side, id, f, Content(old, id, side))
        BY <2>2, <4>3 DEF LinesOf, n, old
      <4>5. info[side][id][f] = Content(old, id, side)
        BY <4>2, <4>4 DEF Restores
      <4>6. ASSUME NEW p \in Point, id \in Cross[p] PROVE old[p] = board[p]
        BY <3>2, <4>6 DEF Crossing, board, Put
      <4>7. Content(old, id, side) = Content(board, id, side)
        BY <4>6, ContentLocal
      <4> QED
        BY <4>1, <4>5, <4>7
    <3> QED
      BY <3>1, <3>2
  <2> QED
    BY <1>3, <2>3, <2>4 DEF Restores
<1>7. LinesOf(after, base, more)
  <2>1. \A i \in 0 .. Len(more) : i \in 0 .. n \/ i = n + 1
    BY <1>1
  <2> QED
    BY <1>5, <1>6, <2>1 DEF LinesOf
<1> QED
  BY <1>1, <1>3, <1>7 DEF more, n, after, board, old

\* RecoverLine brings the entries back.
LEMMA PopLines ==
  ASSUME NEW base, NEW info, NEW calls \in Seq(Call), calls # <<>>, Apart(base, calls),
         LinesOf(info, base, calls)
  PROVE  LET call == Last(calls)
             less == Front(calls)
         IN /\ less \in Seq(Call) /\ Len(less) = Len(calls) - 1
            /\ Apart(base, less)
            /\ Layers(base, less, 1 .. Len(less))
                 = Put(Layers(base, calls, 1 .. Len(calls)), call.points, EMPTY)
            /\ LinesOf(CopyLine(call.LineTemp, info, call.points, call.which), base, less)
<1> DEFINE n == Len(calls)
           call == Last(calls)
           less == Front(calls)
           after == CopyLine(call.LineTemp, info, call.points, call.which)
<1>1. /\ DOMAIN less = 1 .. (n - 1) /\ DOMAIN calls = 1 .. n /\ n \in Nat /\ n > 0
      /\ call = calls[n] /\ \A j \in 1 .. (n - 1) : less[j] = calls[j]
      /\ less \in Seq(Call) /\ Len(less) = n - 1
  <2>1. n \in Nat /\ n > 0 /\ DOMAIN calls = 1 .. n /\ call = calls[n]
    BY DEF Last
  <2>2. less = SubSeq(calls, 1, n - 1)
    BY DEF Front
  <2>3. less \in Seq(Call) /\ Len(less) = n - 1 /\ \A j \in 1 .. (n - 1) : less[j] = calls[j]
    BY <2>1, <2>2
  <2> QED
    BY <2>1, <2>3
<1> HIDE DEF less, call, n, after
<1>2. Apart(base, less)
  <2>1. \A i \in DOMAIN less : i \in DOMAIN calls /\ less[i] = calls[i]
    BY <1>1
  <2> QED
    BY <2>1 DEF Apart
<1>3. ASSUME NEW i \in 0 .. (n - 1)
      PROVE  Layers(base, less, 1 .. i) = Layers(base, calls, 1 .. i)
  <2>1. /\ 1 .. i \in SUBSET (DOMAIN calls) /\ 1 .. i \subseteq DOMAIN less
        /\ 1 .. i \in SUBSET (DOMAIN less) /\ \A j \in 1 .. i : less[j] = calls[j]
    BY <1>1
  <2> QED
    BY <1>1, <1>2, <2>1, LayersBelow
<1>4. Layers(base, less, 1 .. (n - 1)) = Put(Layers(base, calls, 1 .. n), call.points, EMPTY)
  <2>1. (1 .. n) \ {n} = 1 .. (n - 1) /\ n \in 1 .. n /\ n - 1 \in 0 .. (n - 1)
        /\ 1 .. n \in SUBSET (DOMAIN calls)
    BY <1>1
  <2>2. Layers(base, calls, (1 .. n) \ {n}) = Put(Layers(base, calls, 1 .. n), calls[n].points, EMPTY)
    BY <2>1, TakeLayer
  <2> QED
    BY <1>1, <1>3, <2>1, <2>2
<1>5. ASSUME NEW i \in 0 .. (n - 1), NEW side \in Side, NEW id \in LineIDs, NEW f \in WantedAt(less, i, side)
      PROVE  Restores(after, less, i, side, id, f, Content(Layers(base, less, 1 .. i), id, side))
  <2>1. WantedAt(less, i, side) = WantedAt(calls, i, side)
    BY <1>1 DEF WantedAt
  <2>2. f \in Part
    <3>1. i > 0 => calls[i].which[side] \in 0 .. 7
      <4>1. i > 0 => calls[i] \in Call
        BY <1>1 DEF n
      <4> QED
        BY <4>1 DEF Call
    <3> QED
      BY <2>1, <3>1, ComputedCopied DEF WantedAt
  <2>3. i \in 0 .. Len(calls)
    BY <1>1 DEF n
  <2>4. Restores(info, calls, i, side, id, f, Content(Layers(base, calls, 1 .. i), id, side))
    BY <2>1, <2>3 DEF LinesOf
  <2>5. after[side][id][f]
          = IF id \in Crossing(call.points) /\ f \in Copied(call.which[side])
            THEN call.LineTemp[side][id][f] ELSE info[side][id][f]
    BY <2>2, CopiedLine DEF after
  <2>6. Restores(after, Front(calls), i, side, id, f, Content(Layers(base, calls, 1 .. i), id, side))
    BY <2>2, <2>4, <2>5, PopRestores DEF call, n
  <2> QED
    BY <1>3, <2>6 DEF less
<1>6. LinesOf(after, base, less)
  BY <1>1, <1>5 DEF LinesOf
<1> QED
  BY <1>1, <1>2, <1>4, <1>6 DEF less, call, n, after

-----------------------------------------------------------------------------
(* The key *)

\* The stones of a side on some points, as the key has them.
Marks(points, side) == {<<side, p>> : p \in Range(points)}

\* The sequences of one point and of two.
LEMMA OneTwo ==
  ASSUME NEW points \in Seq(Point)
  PROVE  /\ Range(points) \subseteq Point
         /\ Len(points) = 1 => Range(points) = {points[1]}
         /\ Len(points) = 2 => Range(points) = {points[1], points[2]}
BY DEF Range

\* One stone or two on places of their own: those that are not in the key are put
\* in it, those that are in it are taken out.
LEMMA KeyToggles ==
  ASSUME NEW points \in Seq(Point), NEW side,
         Len(points) = 1 \/ (Len(points) = 2 /\ points[1] # points[2])
  PROVE  /\ Marks(points, side) \cap HashKey64 = {}
              => KeyAfter(points, side) = HashKey64 \cup Marks(points, side)
         /\ Marks(points, side) \subseteq HashKey64
              => KeyAfter(points, side) = HashKey64 \ Marks(points, side)
<1> DEFINE a == <<side, points[1]>>
           b == <<side, points[2]>>
<1>1. CASE Len(points) = 1
  <2>1. Marks(points, side) = {a}
    BY <1>1, OneTwo DEF Marks
  <2>2. KeyAfter(points, side) = Toggle(HashKey64, a)
    BY <1>1 DEF KeyAfter
  <2> HIDE DEF a
  <2> QED
    BY <2>1, <2>2 DEF Toggle
<1>2. CASE Len(points) = 2 /\ points[1] # points[2]
  <2>1. Marks(points, side) = {a, b}
    BY <1>2, OneTwo DEF Marks
  <2>2. KeyAfter(points, side) = Toggle(Toggle(HashKey64, a), b)
    BY <1>2 DEF KeyAfter
  <2>3. a # b
    BY <1>2
  <2> HIDE DEF a, b
  <2> QED
    BY <2>1, <2>2, <2>3 DEF Toggle
<1> QED
  BY <1>1, <1>2

\* A stone given twice is not in the key.
LEMMA KeyTwice ==
  ASSUME NEW p, NEW side, <<side, p>> \notin HashKey64
  PROVE  KeyAfter(<<p, p>>, side) = HashKey64
<1> DEFINE a == <<side, p>>
<1>1. KeyAfter(<<p, p>>, side) = Toggle(Toggle(HashKey64, a), a)
  BY DEF KeyAfter
<1> HIDE DEF a
<1>2. a \notin HashKey64
  BY DEF a
<1> QED
  BY <1>1, <1>2 DEF Toggle

\* Stones put on empty places are stones more.
LEMMA StonesPut ==
  ASSUME NEW board, NEW points \in Seq(Point), NEW side \in Side,
         \A p \in Range(points) : board[p] = EMPTY
  PROVE  /\ StonesOf(Put(board, points, side)) = StonesOf(board) \cup Marks(points, side)
         /\ Marks(points, side) \cap StonesOf(board) = {}
<1> DEFINE new == Put(board, points, side)
<1>1. side # EMPTY /\ Range(points) \subseteq Point
  BY OneTwo, BoardAssumption DEF Side
<1>2. \A p \in Point : new[p] = IF p \in Range(points) THEN side ELSE board[p]
  BY DEF Put
<1> HIDE DEF new
<1>3. ASSUME NEW e \in StonesOf(new) PROVE e \in StonesOf(board) \cup Marks(points, side)
  <2>1. PICK p \in Point : new[p] # EMPTY /\ e = <<new[p], p>>
    BY DEF StonesOf
  <2> QED
    BY <1>2, <2>1 DEF StonesOf, Marks
<1>4. ASSUME NEW e \in StonesOf(board) PROVE e \in StonesOf(new)
  <2>1. PICK p \in Point : board[p] # EMPTY /\ e = <<board[p], p>>
    BY DEF StonesOf
  <2> QED
    BY <1>2, <2>1 DEF StonesOf
<1>5. ASSUME NEW e \in Marks(points, side) PROVE e \in StonesOf(new) /\ e \notin StonesOf(board)
  <2>1. PICK p \in Range(points) : e = <<side, p>>
    BY DEF Marks
  <2>2. p \in Point /\ new[p] = side
    BY <1>1, <1>2
  <2>3. ASSUME NEW q \in Point, board[q] # EMPTY, e = <<board[q], q>> PROVE FALSE
    BY <2>1, <2>3
  <2> QED
    BY <1>1, <2>1, <2>2, <2>3 DEF StonesOf
<1> QED
  BY <1>3, <1>4, <1>5 DEF new

\* Stones taken off are stones less.
LEMMA StonesTake ==
  ASSUME NEW board, NEW points \in Seq(Point), NEW side \in Side,
         \A p \in Range(points) : board[p] = side
  PROVE  /\ StonesOf(Put(board, points, EMPTY)) = StonesOf(board) \ Marks(points, side)
         /\ Marks(points, side) \subseteq StonesOf(board)
<1> DEFINE new == Put(board, points, EMPTY)
<1>1. side # EMPTY /\ Range(points) \subseteq Point
  BY OneTwo, BoardAssumption DEF Side
<1>2. \A p \in Point : new[p] = IF p \in Range(points) THEN EMPTY ELSE board[p]
  BY DEF Put
<1> HIDE DEF new
<1>3. ASSUME NEW e \in StonesOf(new) PROVE e \in StonesOf(board) /\ e \notin Marks(points, side)
  <2>1. PICK p \in Point : new[p] # EMPTY /\ e = <<new[p], p>>
    BY DEF StonesOf
  <2>2. p \notin Range(points) /\ new[p] = board[p]
    BY <1>2, <2>1
  <2> QED
    BY <2>1, <2>2 DEF StonesOf, Marks
<1>4. ASSUME NEW e \in StonesOf(board), e \notin Marks(points, side) PROVE e \in StonesOf(new)
  <2>1. PICK p \in Point : board[p] # EMPTY /\ e = <<board[p], p>>
    BY DEF StonesOf
  <2>2. p \notin Range(points)
    BY <1>4, <2>1 DEF Marks
  <2> QED
    BY <1>2, <2>1, <2>2 DEF StonesOf
<1>5. ASSUME NEW e \in Marks(points, side) PROVE e \in StonesOf(board)
  <2>1. PICK p \in Range(points) : e = <<side, p>>
    BY DEF Marks
  <2> QED
    BY <1>1, <2>1 DEF StonesOf
<1> QED
  BY <1>3, <1>4, <1>5 DEF new

-----------------------------------------------------------------------------
(* Types *)

\* Stones on a board.
LEMMA PutTyped ==
  ASSUME NEW board \in [Point -> Stone], NEW points, NEW x \in Stone
  PROVE  Put(board, points, x) \in [Point -> Stone]
BY DEF Put

\* UpdateLineForCross finds sequences of stones.
LEMMA UpdateTyped ==
  ASSUME NEW info \in Lines, NEW board \in [Point -> Stone], NEW points \in Seq(Point),
         NEW which \in [Side -> 0 .. 7]
  PROVE  UpdateLineForCross(info, board, points, which) \in Lines
<1> DEFINE after == UpdateLineForCross(info, board, points, which)
           New(side, id) ==
             LET p == CHOOSE q \in Range(points) : id \in Cross[q]
             IN [f \in Part |->
                   CASE f \in Computed(which[side]) -> AnalyzeLine(board, p, DirOf(p, id), side)
                     [] f \in Copied(which[side]) \ Computed(which[side]) -> <<>>
                     [] OTHER -> info[side][id][f]]
           Entry(side, id) == IF id \in Crossing(points) THEN New(side, id) ELSE info[side][id]
<1>1. after = [side \in Side |-> [id \in LineIDs |-> Entry(side, id)]]
  BY DEF UpdateLineForCross
<1>2. ASSUME NEW side \in Side, NEW id \in LineIDs, NEW f \in Part
      PROVE  after[side][id][f] \in Seq(Stone)
  <2>1. Range(points) \subseteq Point
    BY OneTwo
  <2>2. after[side][id][f] \in {Content(board, id, side), <<>>, info[side][id][f]}
    BY <2>1, Updated
  <2>3. Content(board, id, side) \in Seq(Stone) /\ <<>> \in Seq(Stone)
    BY ContentTyped
  <2>4. info[side][id][f] \in Seq(Stone)
    BY DEF Lines
  <2> HIDE DEF after
  <2> QED
    BY <2>2, <2>3, <2>4
<1>3. ASSUME NEW side \in Side, NEW id \in LineIDs
      PROVE  Entry(side, id) = [f \in Part |-> Entry(side, id)[f]]
  <2>1. New(side, id) = [f \in Part |-> New(side, id)[f]]
    <3> DEFINE E(f) == LET p == CHOOSE q \in Range(points) : id \in Cross[q]
                       IN CASE f \in Computed(which[side]) -> AnalyzeLine(board, p, DirOf(p, id), side)
                            [] f \in Copied(which[side]) \ Computed(which[side]) -> <<>>
                            [] OTHER -> info[side][id][f]
    <3>1. New(side, id) = [f \in Part |-> E(f)]
      OBVIOUS
    <3> HIDE DEF E, New
    <3> QED
      BY <3>1
  <2>2. info[side][id] = [f \in Part |-> info[side][id][f]]
    BY DEF Lines
  <2> HIDE DEF New
  <2> QED
    BY <2>1, <2>2
<1> HIDE DEF Entry, New, after
<1>4. \A side \in Side, id \in LineIDs : after[side][id] = Entry(side, id)
  BY <1>1
<1>5. \A side \in Side, id \in LineIDs : Entry(side, id) \in [Part -> Seq(Stone)]
  BY <1>2, <1>3, <1>4
<1> QED
  BY <1>1, <1>5 DEF Lines, after

\* BackupLine and RecoverLine copy such.
LEMMA CopyTyped ==
  ASSUME NEW from \in Lines, NEW to \in Lines, NEW points, NEW which
  PROVE  CopyLine(from, to, points, which) \in Lines
<1> DEFINE New(side, id) ==
             [f \in Part |-> IF f \in Copied(which[side]) THEN from[side][id][f] ELSE to[side][id][f]]
           Entry(side, id) == IF id \in Crossing(points) THEN New(side, id) ELSE to[side][id]
<1>1. CopyLine(from, to, points, which) = [side \in Side |-> [id \in LineIDs |-> Entry(side, id)]]
  BY DEF CopyLine
<1>2. \A side \in Side, id \in LineIDs : New(side, id) \in [Part -> Seq(Stone)]
  BY DEF Lines
<1> HIDE DEF New
<1>3. \A side \in Side, id \in LineIDs : Entry(side, id) \in [Part -> Seq(Stone)]
  BY <1>2 DEF Lines
<1> HIDE DEF Entry
<1> QED
  BY <1>1, <1>3 DEF Lines

-----------------------------------------------------------------------------
(* The invariant *)

Types == /\ Board \in [Point -> Stone] /\ shown \in [Point -> Stone]
         /\ LineInfo \in Lines /\ frames \in Seq(Call)
         /\ Player \in Side /\ ComputerColor \in Side /\ StepID \in Nat

\* The empty board, and the opening alone.
Early == /\ StepID = 0 => /\ \A p \in Point : shown[p] = EMPTY
                          /\ HashKey64 = {} /\ Player = BLACK /\ frames = <<>>
         /\ StepID = 1 => \E p \in Point : \A q \in Point : shown[q] # EMPTY <=> q = p

\* What of the steps and moves is not in the key.
Absent(O) == IF ComputerColor = WHITE /\ StepID > 0
             THEN \E q \in Point : shown[q] = BLACK /\ O = {<<BLACK, q>>}
             ELSE O = {}
KeyHolds == \E O \in SUBSET (Side \X Point) :
  Absent(O) /\ HashKey64 = StonesOf(Played(Moves)) \ O

\* A move has two stones.
Twos == \A i \in Moves : Len(frames[i].points) = 2 /\ frames[i].points[1] # frames[i].points[2]

Good == /\ Types /\ Early
        /\ Apart(shown, frames) /\ Twos
        /\ Board = Layers(shown, frames, 1 .. Len(frames))
        /\ KeyHolds
        /\ LinesOf(LineInfo, shown, frames)

PInv == /\ stray # {} => StepID # 0 /\ frames = <<>>
        /\ stray = {} => Good

\* Without calls.
LEMMA NoCalls ==
  ASSUME NEW base \in [Point -> Stone], NEW info
  PROVE  /\ <<>> \in Seq(Call) /\ Len(<<>>) = 0 /\ DOMAIN <<>> = {} /\ 1 .. 0 = {}
         /\ Apart(base, <<>>) /\ \A S : S \subseteq {} => Layers(base, <<>>, S) = base
         /\ LinesOf(info, base, <<>>)
              <=> \A side \in Side, id \in LineIDs, f \in Part :
                    info[side][id][f] = Content(base, id, side)
<1>1. <<>> \in Seq(Call) /\ Len(<<>>) = 0 /\ DOMAIN <<>> = {} /\ 1 .. 0 = {} /\ 0 .. 0 = {0}
  OBVIOUS
<1>2. Apart(base, <<>>)
  BY <1>1 DEF Apart
<1>3. ASSUME NEW S \in SUBSET {} PROVE Layers(base, <<>>, S) = base
  <2>1. S = {}
    OBVIOUS
  <2>2. Layers(base, <<>>, {}) = [p \in Point |-> base[p]]
    <3>1. \A p \in Point : Layers(base, <<>>, {})[p] = base[p]
      BY DEF Layers
    <3> QED
      BY <3>1 DEF Layers
  <2> QED
    BY <2>1, <2>2
<1>4. \A f, v : \A side \in Side, id \in LineIDs :
        Restores(info, <<>>, 0, side, id, f, v) <=> info[side][id][f] = v
  BY <1>1 DEF Restores, Saving
<1>5. \A side \in Side : WantedAt(<<>>, 0, side) = Part
  BY DEF WantedAt
<1>6. Layers(base, <<>>, 1 .. 0) = base
  BY <1>1, <1>3
<1>7. LinesOf(info, base, <<>>)
        <=> \A side \in Side, id \in LineIDs, f \in Part :
              info[side][id][f] = Content(base, id, side)
  BY <1>1, <1>4, <1>5, <1>6 DEF LinesOf
<1> QED
  BY <1>1, <1>2, <1>3, <1>7

\* The opening of the human is all that is missing in the key, and it stays.
LEMMA AbsentShown ==
  ASSUME Good, NEW O, Absent(O), NEW S \in SUBSET (DOMAIN frames)
  PROVE  /\ O \subseteq StonesOf(Layers(shown, frames, S))
         /\ \A e \in O : shown[e[2]] # EMPTY
         /\ IsFiniteSet(O) /\ Cardinality(O) = IF ComputerColor = WHITE /\ StepID > 0 THEN 1 ELSE 0
<1>1. CASE ~(ComputerColor = WHITE /\ StepID > 0)
  <2>1. O = {}
    BY <1>1 DEF Absent
  <2> QED
    BY <1>1, <2>1, FS_EmptySet
<1>2. CASE ComputerColor = WHITE /\ StepID > 0
  <2>1. PICK q \in Point : shown[q] = BLACK /\ O = {<<BLACK, q>>}
    BY <1>2 DEF Absent
  <2>2. BLACK # EMPTY
    BY BoardAssumption
  <2>3. \A i \in S : q \notin Range(frames[i].points)
    BY <2>1, <2>2 DEF Good, Apart
  <2>4. Layers(shown, frames, S)[q] = BLACK
    BY <2>1, <2>3, LayerStones DEF Good, Types
  <2>5. <<BLACK, q>> \in StonesOf(Layers(shown, frames, S))
    BY <2>2, <2>4 DEF StonesOf
  <2>6. IsFiniteSet(O) /\ Cardinality(O) = 1
    BY <2>1, FS_Singleton
  <2> QED
    BY <1>2, <2>1, <2>2, <2>5, <2>6
<1> QED
  BY <1>1, <1>2

\* A step played on empty places.
LEMMA PlayKeeps ==
  ASSUME Good, frames = <<>>, NEW board, NEW points \in Seq(Point), Play(board, points),
         \A p \in Range(points) : shown[p] = EMPTY,
         \/ Len(points) = 1 \/ (Len(points) = 2 /\ points[1] # points[2])
         \/ /\ StepID = 0 /\ ComputerColor = WHITE
            /\ points = <<points[1], points[1]>>,
         StepID = 0 => Range(points) = {points[1]} /\ points[1] \in Point
                       /\ (ComputerColor = WHITE => points = <<points[1], points[1]>>)
  PROVE  PInv'
<1>1. /\ Types /\ Early /\ KeyHolds /\ LinesOf(LineInfo, shown, frames) /\ Board = shown
  <2>1. Board = Layers(shown, <<>>, 1 .. 0)
    BY NoCalls DEF Good, Types
  <2> QED
    BY <2>1, NoCalls DEF Good, Types
<1>2. /\ Board' = Put(board, points, Player) /\ shown' = Put(shown, points, Player)
      /\ LineInfo' = UpdateLineForCross(LineInfo, Board', points, AllParts)
      /\ HashKey64' = KeyAfter(points, Player)
      /\ Player' = NEXT(Player) /\ StepID' = StepID + 1
      /\ stray' = {p \in Point : Board'[p] # shown'[p]}
      /\ ComputerColor' = ComputerColor /\ frames' = <<>>
  BY DEF Play, Place
<1>3. /\ StepID' # 0 /\ StepID' \in Nat /\ StepID' > 0 /\ StepID \in Nat
      /\ Player \in Side /\ Player \in Stone /\ Player # EMPTY /\ Range(points) \subseteq Point
      /\ AllParts \in [Side -> 0 .. 7]
  BY <1>1, <1>2, OneTwo, BoardAssumption DEF Types, Stone, Side, AllParts
<1>4. ASSUME stray' = {} PROVE Good'
  <2>1. Board' = shown' /\ shown' \in [Point -> Stone]
    <3>1. shown' \in [Point -> Stone]
      BY <1>1, <1>2, <1>3, PutTyped DEF Types
    <3>2. Board' = [p \in Point |-> Board'[p]]
      BY <1>2 DEF Put
    <3>3. \A p \in Point : Board'[p] = shown'[p]
      BY <1>2, <1>4
    <3> QED
      BY <3>1, <3>2, <3>3
  <2>2. Types'
    <3>1. LineInfo' \in Lines
      BY <1>1, <1>2, <1>3, <2>1, UpdateTyped DEF Types
    <3>2. NEXT(Player) \in Side
      BY DEF NEXT, Side
    <3> QED
      BY <1>1, <1>2, <1>3, <2>1, <3>1, <3>2, NoCalls DEF Types
  <2>3. Early'
    <3>1. ASSUME StepID' = 1
          PROVE  \E p \in Point : \A q \in Point : shown'[q] # EMPTY <=> q = p
      <4>1. StepID = 0
        BY <1>2, <1>3, <3>1
      <4>2. \A p \in Point : shown[p] = EMPTY
        BY <1>1, <4>1 DEF Early
      <4>3. points[1] \in Point /\ Range(points) = {points[1]}
        BY <4>1
      <4>4. \A q \in Point : shown'[q] # EMPTY <=> q = points[1]
        BY <1>2, <1>3, <4>2, <4>3 DEF Put
      <4> QED
        BY <4>3, <4>4
    <3> QED
      BY <1>3, <3>1 DEF Early
  <2>4. Apart(shown', frames') /\ Twos' /\ Board' = Layers(shown', frames', 1 .. Len(frames'))
    <3>1. Twos'
      BY <1>2, NoCalls DEF Twos, Moves
    <3> QED
      BY <1>2, <2>1, <3>1, NoCalls
  <2>5. LinesOf(LineInfo', shown', frames')
    <3>1. ASSUME NEW side \in Side, NEW id \in LineIDs, NEW f \in Part
          PROVE  LineInfo'[side][id][f] = Content(shown', id, side)
      <4>1. LineInfo[side][id][f] = Content(shown, id, side)
        BY <1>1, NoCalls DEF Types
      <4>2. AllParts[side] \in 0 .. 7 /\ f \in Computed(AllParts[side])
        BY ComputedCopied DEF AllParts
      <4>3. CASE id \in Crossing(points)
        BY <1>2, <1>3, <2>1, <4>2, <4>3, Updated
      <4>4. CASE id \notin Crossing(points)
        <5>1. LineInfo'[side][id][f] = LineInfo[side][id][f]
          BY <1>2, <1>3, <4>4, Updated
        <5>2. ASSUME NEW p \in Point, id \in Cross[p] PROVE shown[p] = shown'[p]
          BY <1>2, <4>4, <5>2 DEF Crossing, Put
        <5>3. Content(shown, id, side) = Content(shown', id, side)
          BY <5>2, ContentLocal
        <5> QED
          BY <4>1, <5>1, <5>3
      <4> QED
        BY <4>3, <4>4
    <3> QED
      BY <1>2, <2>1, <3>1, NoCalls
  <2>6. KeyHolds'
    <3>1. Played(Moves) = shown /\ Played(Moves)' = shown'
      <4>1. Moves = {} /\ Moves' = {} /\ Played(Moves) = Layers(shown, frames, Moves)
            /\ Played(Moves)' = Layers(shown', frames', Moves')
        BY <1>2, NoCalls DEF Moves, Played, Layers
      <4> QED
        BY <1>1, <1>2, <2>1, <4>1, NoCalls DEF Types
    <3>2. PICK O \in SUBSET (Side \X Point) : Absent(O) /\ HashKey64 = StonesOf(shown) \ O
      BY <1>1, <3>1 DEF KeyHolds
    <3>3. /\ StonesOf(shown') = StonesOf(shown) \cup Marks(points, Player)
          /\ Marks(points, Player) \cap StonesOf(shown) = {}
      <4>1. \A p \in Range(points) : shown[p] = EMPTY
        OBVIOUS
      <4>2. /\ StonesOf(Put(shown, points, Player)) = StonesOf(shown) \cup Marks(points, Player)
            /\ Marks(points, Player) \cap StonesOf(shown) = {}
        BY <1>3, <4>1, StonesPut
      <4> QED
        BY <1>2, <4>2
    <3>4. Marks(points, Player) \cap HashKey64 = {}
      BY <3>2, <3>3
    <3>5. CASE StepID = 0 /\ ComputerColor = WHITE
      <4>1. points = <<points[1], points[1]>> /\ points[1] \in Point /\ Range(points) = {points[1]}
        BY <3>5
      <4>2. Marks(points, Player) = {<<Player, points[1]>>}
        BY <4>1 DEF Marks
      <4>3. Player = BLACK /\ shown'[points[1]] = BLACK /\ O = {}
        BY <1>1, <1>2, <3>2, <3>5, <4>1 DEF Early, Put, Absent
      <4>4. KeyAfter(points, Player) = HashKey64
        <5>1. <<Player, points[1]>> \notin HashKey64
          BY <3>4, <4>2
        <5> QED
          BY <4>1, <5>1, KeyTwice
      <4>5. Absent({<<BLACK, points[1]>>})'
        BY <1>2, <1>3, <3>5, <4>1, <4>3 DEF Absent
      <4>6. {<<BLACK, points[1]>>} \in SUBSET (Side \X Point)
        BY <4>1 DEF Side
      <4>7. HashKey64' = StonesOf(Played(Moves)') \ {<<BLACK, points[1]>>}
        BY <1>2, <3>1, <3>2, <3>3, <4>2, <4>3, <4>4
      <4> QED
        BY <4>5, <4>6, <4>7 DEF KeyHolds
    <3>6. CASE ~(StepID = 0 /\ ComputerColor = WHITE)
      <4>1. KeyAfter(points, Player) = HashKey64 \cup Marks(points, Player)
        BY <3>4, <3>6, KeyToggles
      <4>2. Absent(O)' /\ O \cap Marks(points, Player) = {}
        <5>1. CASE ComputerColor = WHITE /\ StepID > 0
          <6>1. PICK q \in Point : shown[q] = BLACK /\ O = {<<BLACK, q>>}
            BY <3>2, <5>1 DEF Absent
          <6>2. q \notin Range(points)
            BY <6>1, BoardAssumption
          <6>3. shown'[q] = BLACK
            BY <1>2, <6>1, <6>2 DEF Put
          <6>4. <<BLACK, q>> \notin Marks(points, Player)
            BY <6>2 DEF Marks
          <6> QED
            BY <1>2, <1>3, <5>1, <6>1, <6>3, <6>4 DEF Absent
        <5>2. CASE ~(ComputerColor = WHITE /\ StepID > 0)
          <6>1. O = {} /\ ComputerColor # WHITE
            BY <1>3, <3>2, <3>6, <5>2 DEF Absent
          <6> QED
            BY <1>2, <6>1 DEF Absent
        <5> QED
          BY <5>1, <5>2
      <4>3. HashKey64' = StonesOf(Played(Moves)') \ O
        BY <1>2, <3>1, <3>2, <3>3, <4>1, <4>2
      <4> QED
        BY <4>2, <4>3 DEF KeyHolds
    <3> QED
      BY <3>5, <3>6
  <2> QED
    BY <2>2, <2>3, <2>4, <2>5, <2>6 DEF Good
<1> QED
  BY <1>2, <1>3, <1>4 DEF PInv

-----------------------------------------------------------------------------
(* The steps played *)

\* Two places tried are two empty places.
LEMMA TwoFree ==
  ASSUME NEW s \in Steps
  PROVE  /\ s \in Seq(Point) /\ Len(s) = 2 /\ s[1] # s[2]
         /\ \A p \in Range(s) : Board[p] = EMPTY
<1>1. s \in Free \X Free /\ Before(s[1], s[2]) /\ Free \subseteq Point
  BY BoardAssumption DEF Steps, Free
<1>2. s = <<s[1], s[2]>> /\ s[1] \in Point /\ s[2] \in Point
      /\ Board[s[1]] = EMPTY /\ Board[s[2]] = EMPTY
  BY <1>1 DEF Free
<1>3. s \in Seq(Point) /\ Len(s) = 2
  <2>1. PICK a \in Free, b \in Free : s = <<a, b>>
    BY <1>1
  <2> QED
    BY <1>1, <2>1
<1>4. s[1] # s[2]
  <2>1. s[1] \in Pair /\ s[2] \in Pair
    BY <1>2, Cells
  <2> QED
    BY <1>1, <2>1, BeforeOrder
<1>5. Range(s) = {s[1], s[2]}
  BY <1>3, OneTwo
<1> QED
  BY <1>2, <1>3, <1>4, <1>5

\* Two places told apart.
LEMMA TwoPlaces ==
  ASSUME NEW a \in Point, NEW b \in Point, a # b, Board[a] = EMPTY, Board[b] = EMPTY
  PROVE  /\ <<a, b>> \in Seq(Point) /\ Len(<<a, b>>) = 2 /\ <<a, b>>[1] # <<a, b>>[2]
         /\ \A p \in Range(<<a, b>>) : Board[p] = EMPTY
<1>1. <<a, b>> \in Seq(Point) /\ Len(<<a, b>>) = 2 /\ <<a, b>>[1] = a /\ <<a, b>>[2] = b
  OBVIOUS
<1>2. Range(<<a, b>>) = {a, b}
  BY <1>1, OneTwo
<1> QED
  BY <1>1, <1>2

\* The middle of the board, and the places beside others, toward it.
LEMMA Middle ==
  /\ Center \in Point
  /\ \A p \in Point : \E a, b \in Point :
       BesideOpening(p) = <<a, b>> /\ a # p /\ b # p /\ a # b
<1> DEFINE c == (N - 1) \div 2
<1>1. N \in Nat /\ N > 2 /\ Six \in Nat
  BY BoardAssumption
<1>2. c \in 0 .. (N - 1) /\ c + 1 \in 0 .. (N - 1) /\ Center = <<c, c>>
  BY <1>1 DEF Center
<1> HIDE DEF c
<1>3. Center \in Point
  BY <1>2, Cells
<1>4. ASSUME NEW p \in Point
      PROVE  \E a, b \in Point : BesideOpening(p) = <<a, b>> /\ a # p /\ b # p /\ a # b
  <2>1. p \in Pair /\ p = <<p[1], p[2]>> /\ p[1] \in 0 .. (N - 1) /\ p[2] \in 0 .. (N - 1)
    BY Cells DEF Point
  <2>2. /\ Shift(p, 0, 1) = <<p[1] + 1, p[2]>> /\ Shift(p, 2, 1) = <<p[1], p[2] + 1>>
        /\ Shift(p, 0, -1) = <<p[1] - 1, p[2]>> /\ Shift(p, 2, -1) = <<p[1], p[2] - 1>>
    BY <2>1, Shifts, ShiftBack
  <2>3. p[1] <= c => Shift(p, 0, 1) \in Point
    BY <1>1, <1>2, <2>1, <2>2, Cells
  <2>4. p[1] > c => Shift(p, 0, -1) \in Point
    BY <1>1, <1>2, <2>1, <2>2, Cells
  <2>5. p[2] <= c => Shift(p, 2, 1) \in Point
    BY <1>1, <1>2, <2>1, <2>2, Cells
  <2>6. p[2] > c => Shift(p, 2, -1) \in Point
    BY <1>1, <1>2, <2>1, <2>2, Cells
  <2>7. Center[1] = c /\ Center[2] = c /\ p[1] \in Int /\ p[2] \in Int /\ c \in Int
    BY <1>2, <2>1
  <2>8. /\ Shift(p, 0, 1) # p /\ Shift(p, 0, -1) # p /\ Shift(p, 2, 1) # p /\ Shift(p, 2, -1) # p
        /\ Shift(p, 0, 1) # Shift(p, 2, 1) /\ Shift(p, 0, 1) # Shift(p, 2, -1)
        /\ Shift(p, 0, -1) # Shift(p, 2, 1) /\ Shift(p, 0, -1) # Shift(p, 2, -1)
    BY <2>1, <2>2, <2>7
  <2>9. CASE p[1] <= c /\ p[2] <= c
    <3>1. BesideOpening(p) = <<Shift(p, 0, 1), Shift(p, 2, 1)>>
      BY <2>7, <2>9 DEF BesideOpening
    <3> QED
      BY <2>3, <2>5, <2>8, <2>9, <3>1
  <2>10. CASE p[1] <= c /\ p[2] > c
    <3>1. BesideOpening(p) = <<Shift(p, 2, -1), Shift(p, 0, 1)>>
      BY <2>7, <2>10 DEF BesideOpening
    <3> QED
      BY <2>3, <2>6, <2>8, <2>10, <3>1
  <2>11. CASE p[1] > c /\ p[2] <= c
    <3>1. BesideOpening(p) = <<Shift(p, 0, -1), Shift(p, 2, 1)>>
      BY <2>7, <2>11 DEF BesideOpening
    <3> QED
      BY <2>4, <2>5, <2>8, <2>11, <3>1
  <2>12. CASE p[1] > c /\ p[2] > c
    <3>1. BesideOpening(p) = <<Shift(p, 0, -1), Shift(p, 2, -1)>>
      BY <2>7, <2>12 DEF BesideOpening
    <3> QED
      BY <2>4, <2>6, <2>8, <2>12, <3>1
  <2> QED
    BY <2>7, <2>9, <2>10, <2>11, <2>12
<1> QED
  BY <1>3, <1>4

\* Threat points are empty.
LEMMA ThreatsFree ==
  ASSUME Good, frames = <<>>, NEW side \in Side
  PROVE  ThreatPoint(side) \subseteq {p \in Point : Board[p] = EMPTY}
<1> SUFFICES ASSUME NEW id \in LineIDs, NEW j \in ThreatOf(LineInfo[side][id][1], side)
             PROVE  PointsOf[id][j] \in Point /\ Board[PointsOf[id][j]] = EMPTY
  BY DEF ThreatPoint
<1> DEFINE list == PointsOf[id]
           read == [i \in DOMAIN list |-> Board[list[i]]]
           stones == LineInfo[side][id][1]
<1>1. stones = Content(Board, id, side)
  <2>1. Board = shown
    BY NoCalls DEF Good, Types
  <2>2. 1 \in Part
    BY DEF Part
  <2> QED
    BY <2>1, <2>2, NoCalls DEF Good, Types
<1>2. stones \in {read, <<>>}
  BY <1>1 DEF Content, Analyze
<1>3. list \in Seq(Point) /\ Six \in Nat /\ 1 < Six
  BY PointsTyped, BoardAssumption
<1>4. PICK i \in 1 .. Len(stones) - Six + 1 : j \in i .. i + Six - 1 /\ stones[j] = EMPTY
  BY DEF ThreatOf, ThreatSets
<1> HIDE DEF list, stones, read
<1>5. stones = read
  <2>1. stones # <<>>
    BY <1>3, <1>4
  <2> QED
    BY <1>2, <2>1
<1>6. Len(read) = Len(list) /\ Len(list) \in Nat /\ DOMAIN list = 1 .. Len(list)
      /\ \A n \in 1 .. Len(list) : read[n] = Board[list[n]]
  BY <1>3 DEF read
<1>7. j \in 1 .. Len(list)
  BY <1>3, <1>4, <1>5, <1>6
<1> QED
  BY <1>3, <1>4, <1>5, <1>6, <1>7 DEF list

\* A pair ConstructWinStep tries is of two empty places.
LEMMA TriesFree ==
  ASSUME Good, frames = <<>>, NEW n \in DOMAIN Tries
  PROVE  \E a, b \in Point : Tries[n] = <<a, b>> /\ a # b /\ Board[a] = EMPTY /\ Board[b] = EMPTY
<1> DEFINE S == ThreatPoint(ComputerColor)
           up == InOrder(S)
           list == Reverse(up)
           pairs == {ij \in (DOMAIN list) \X (DOMAIN list) : ij[1] < ij[2]}
           order == InOrder(pairs)
<1>1. S \subseteq {p \in Point : Board[p] = EMPTY}
  BY ThreatsFree DEF Good, Types
<1>2. S \in SUBSET Pair /\ IsFiniteSet(S)
  BY <1>1, Cells, PointsFinite, FS_Subset
<1>3. Tries = [i \in DOMAIN order |-> <<list[order[i][1]], list[order[i][2]]>>]
  BY DEF Tries
<1> HIDE DEF S
<1>4. /\ up \in Seq(S) /\ Cardinality(S) \in Nat /\ Len(up) = Cardinality(S)
      /\ \A i, j \in 1 .. Cardinality(S) : up[i] = up[j] => i = j
  BY <1>2, InOrderElements, FS_CardinalityType
<1> DEFINE m == Cardinality(S)
<1> HIDE DEF up, m
<1>5. /\ m \in Nat /\ DOMAIN list = 1 .. m
      /\ \A i \in 1 .. m : list[i] = up[m - i + 1] /\ m - i + 1 \in 1 .. m /\ list[i] \in S
  BY <1>4 DEF Reverse, m
<1>6. \A i, j \in 1 .. m : list[i] = list[j] => i = j
  <2> SUFFICES ASSUME NEW i \in 1 .. m, NEW j \in 1 .. m, list[i] = list[j] PROVE i = j
    OBVIOUS
  <2>1. m - i + 1 = m - j + 1
    BY <1>4, <1>5 DEF m
  <2> QED
    BY <1>5, <2>1
<1> HIDE DEF list
<1>7. pairs \in SUBSET Pair /\ IsFiniteSet(pairs)
  <2>1. IsFiniteSet((1 .. m) \X (1 .. m))
    <3>1. IsFiniteSet(1 .. m)
      BY <1>5, FS_Interval
    <3> QED
      BY <3>1, FS_Product
  <2>2. pairs \in SUBSET ((1 .. m) \X (1 .. m))
    BY <1>5
  <2>3. (1 .. m) \X (1 .. m) \in SUBSET Pair
    BY <1>5 DEF Pair
  <2> QED
    BY <2>1, <2>2, <2>3, FS_Subset
<1>8. order \in Seq(pairs)
  BY <1>7, InOrderElements
<1> HIDE DEF order
<1>9. n \in DOMAIN order /\ Tries[n] = <<list[order[n][1]], list[order[n][2]]>>
  BY <1>3
<1>10. order[n] \in pairs
  BY <1>8, <1>9
<1>11. order[n][1] \in 1 .. m /\ order[n][2] \in 1 .. m /\ order[n][1] # order[n][2]
  BY <1>5, <1>10
<1>12. list[order[n][1]] # list[order[n][2]]
  BY <1>6, <1>11
<1>13. list[order[n][1]] \in S /\ list[order[n][2]] \in S
  BY <1>5, <1>11
<1> QED
  BY <1>1, <1>9, <1>12, <1>13

-----------------------------------------------------------------------------
(* The calls of the search *)

\* A call saves what it changes.
LEMMA FrameTyped ==
  ASSUME Good, NEW kind \in {"move", "probe"}, NEW points \in Seq(Point), NEW which \in Whiches
  PROVE  LET f == Frame(kind, points, which)
         IN /\ f \in Call /\ f.kind = kind /\ f.side = Mover /\ f.points = points
            /\ \A side \in Side : f.which[side] \in {which[1], which[2]}
            /\ \A side \in Side, id \in LineIDs, g \in Part :
                 id \in Crossing(f.points) /\ g \in Copied(f.which[side])
                   => f.LineTemp[side][id][g] = LineInfo[side][id][g]
<1> DEFINE w == [s \in Side |-> IF s = Mover THEN which[1] ELSE which[2]]
           f == Frame(kind, points, which)
           temp == CopyLine(LineInfo, NewLines, points, w)
<1>1. f = [kind |-> kind, side |-> Mover, points |-> points, which |-> w, LineTemp |-> temp]
  BY DEF Frame
<1>2. Mover \in Side
  BY DEF Mover, NEXT, Side, Good, Types
<1>3. w \in [Side -> 0 .. 7] /\ \A side \in Side : w[side] \in {which[1], which[2]}
  <2>1. which[1] \in 0 .. 7 /\ which[2] \in 0 .. 7
    BY DEF Whiches
  <2> QED
    BY <2>1
<1>4. temp \in Lines
  <2>1. NewLines \in Lines
    BY DEF NewLines, Lines
  <2> QED
    BY <2>1, CopyTyped DEF Good, Types
<1>5. \A side \in Side, id \in LineIDs, g \in Part :
        id \in Crossing(points) /\ g \in Copied(w[side]) => temp[side][id][g] = LineInfo[side][id][g]
  BY CopiedLine
<1> HIDE DEF w, temp, f
<1> QED
  BY <1>1, <1>2, <1>3, <1>4, <1>5 DEF Call, f

\* What a call finds when it begins.
LEMMA PushGood ==
  ASSUME Good, NEW call \in Call,
         call.side = Mover,
         \A p \in Range(call.points) : Board[p] = EMPTY,
         \A side \in Side, id \in LineIDs, g \in Part :
           id \in Crossing(call.points) /\ g \in Copied(call.which[side])
             => call.LineTemp[side][id][g] = LineInfo[side][id][g],
         call.kind = "move" => /\ \A side \in Side : call.which[side] = 0
                               /\ Len(call.points) = 2 /\ call.points[1] # call.points[2],
         ~Probing \/ (call.kind = "probe" /\ \A side \in Side : call.which[side] = 7),
         StepID > 0,
         frames' = Append(frames, call),
         Board' = Put(Board, call.points, call.side),
         LineInfo' = UpdateLineForCross(LineInfo, Board', call.points, call.which),
         HashKey64' = IF call.kind = "move" THEN KeyAfter(call.points, call.side) ELSE HashKey64,
         UNCHANGED <<Player, StepID, ComputerColor, shown>>
  PROVE  Good'
<1> DEFINE n == Len(frames)
           more == Append(frames, call)
<1>1. Types /\ Early /\ Apart(shown, frames) /\ Twos /\ KeyHolds /\ LinesOf(LineInfo, shown, frames)
      /\ Board = Layers(shown, frames, 1 .. n)
  BY DEF Good
<1>2. /\ frames \in Seq(Call) /\ more \in Seq(Call) /\ DOMAIN more = 1 .. (n + 1) /\ DOMAIN frames = 1 .. n
      /\ n \in Nat /\ Len(more) = n + 1 /\ more[n + 1] = call /\ \A i \in 1 .. n : more[i] = frames[i]
  BY <1>1 DEF Types
<1>3. /\ call.kind \in {"move", "probe"} /\ call.side \in Side /\ call.points \in Seq(Point)
      /\ call.which \in [Side -> 0 .. 7]
  BY DEF Call
<1>4. Apart(shown, more)
  <2>1. \A p \in Range(call.points) : Layers(shown, frames, 1 .. Len(frames))[p] = EMPTY
    BY <1>1
  <2> QED
    BY <1>1, <1>2, <2>1, PushApart
<1>5. /\ Board' = Layers(shown, more, 1 .. Len(more))
      /\ LinesOf(LineInfo', shown, more)
  <2>1. ASSUME NEW side \in Side
        PROVE  \/ WantedAt(frames, n, side) = Part
               \/ /\ call.kind = "probe"
                  /\ Computed(call.which[side]) \subseteq WantedAt(frames, n, side)
    <3>1. CASE ~Probing
      <4>1. n > 0 => frames # <<>> /\ Last(frames) = frames[n]
        BY <1>2 DEF Last
      <4> QED
        BY <3>1, <4>1 DEF WantedAt, Probing
    <3>2. CASE call.kind = "probe" /\ call.which[side] = 7
      <4>1. Computed(call.which[side]) = {0}
        BY <3>2, ComputedCopied
      <4>2. n > 0 => frames[n].which[side] \in 0 .. 7
        <5>1. n > 0 => frames[n] \in Call
          BY <1>2
        <5> QED
          BY <5>1 DEF Call
      <4>3. 0 \in WantedAt(frames, n, side)
        BY <4>2, ComputedCopied DEF WantedAt, Part
      <4> QED
        BY <3>2, <4>1, <4>3
    <3> QED
      BY <3>1, <3>2
  <2>2. \A p \in Range(call.points) : Layers(shown, frames, 1 .. Len(frames))[p] = EMPTY
    BY <1>1
  <2>3. call.kind = "move" => \A side \in Side : call.which[side] = 0
    OBVIOUS
  <2>4. Board' = Put(Layers(shown, frames, 1 .. Len(frames)), call.points, call.side)
    BY <1>1
  <2>5. Apart(shown, frames) /\ LinesOf(LineInfo, shown, frames)
    BY <1>1
  <2> HIDE DEF n, more
  <2>6. /\ Board' = Layers(shown, Append(frames, call), 1 .. Len(Append(frames, call)))
        /\ LinesOf(UpdateLineForCross(LineInfo, Board', call.points, call.which), shown, Append(frames, call))
    BY <1>2, <2>1, <2>2, <2>3, <2>4, <2>5, PushLines DEF n
  <2> QED
    BY <2>6 DEF more
<1>6. Types'
  <2>1. call.side \in Stone
    BY <1>3 DEF Stone
  <2>2. Board' \in [Point -> Stone]
    BY <1>1, <2>1, PutTyped DEF Types
  <2>3. LineInfo' \in Lines
    BY <1>1, <1>3, <2>2, UpdateTyped DEF Types
  <2> QED
    BY <1>1, <1>2, <2>2, <2>3 DEF Types
<1>7. Early'
  BY <1>1 DEF Early, Types
<1> HIDE DEF n, more
<1>8. Moves' = IF call.kind = "move" THEN Moves \cup {n + 1} ELSE Moves
  <2>1. Moves' = {i \in 1 .. (n + 1) : more[i].kind = "move"} /\ Moves = {i \in 1 .. n : frames[i].kind = "move"}
    BY <1>2 DEF Moves, more
  <2> QED
    BY <1>2, <2>1
<1>9. Twos'
  <2>1. frames' = more
    BY DEF more
  <2>2. ASSUME NEW i \in Moves' PROVE Len(more[i].points) = 2 /\ more[i].points[1] # more[i].points[2]
    <3>1. CASE i \in Moves
      BY <1>1, <1>2, <3>1 DEF Twos, Moves
    <3>2. CASE i \notin Moves
      BY <1>2, <1>8, <2>2, <3>2
    <3> QED
      BY <3>1, <3>2
  <2> QED
    BY <2>1, <2>2 DEF Twos
<1>10. KeyHolds'
  <2> DEFINE played == Layers(shown, frames, Moves)
             now == Layers(shown, more, Moves')
  <2>1. Played(Moves) = played /\ Played(Moves)' = now
    BY DEF Played, Layers, more
  <2>2. PICK O \in SUBSET (Side \X Point) : Absent(O) /\ HashKey64 = StonesOf(played) \ O
    BY <1>1, <2>1 DEF KeyHolds
  <2>3. Absent(O)'
    BY <2>2 DEF Absent
  <2>4. Moves \in SUBSET (DOMAIN frames) /\ Moves \subseteq DOMAIN more
        /\ \A i \in Moves : frames[i] = more[i]
    BY <1>2 DEF Moves
  <2>5. HashKey64' = StonesOf(now) \ O
    <3>1. CASE call.kind = "probe"
      <4>1. now = played
        BY <1>1, <1>2, <1>4, <1>8, <2>4, <3>1, LayersBelow
      <4> QED
        BY <2>2, <3>1, <4>1
    <3>2. CASE call.kind = "move"
      <4>1. now = Put(played, call.points, call.side)
        <5>1. Moves' = Moves \cup {Len(frames) + 1}
          BY <1>8, <3>2 DEF n
        <5>2. Apart(shown, Append(frames, call))
          BY <1>4 DEF more
        <5>3. Layers(shown, Append(frames, call), Moves \cup {Len(frames) + 1})
                = Put(Layers(shown, frames, Moves), call.points, call.side)
          BY <1>1, <1>2, <2>4, <5>2, PutLayer
        <5> QED
          BY <5>1, <5>3 DEF more
      <4>2. ASSUME NEW p \in Range(call.points) PROVE played[p] = EMPTY /\ shown[p] = EMPTY
        <5>1. p \in Point
          BY <1>3, OneTwo
        <5>2. n + 1 \in 1 .. (n + 1) /\ \A i \in 1 .. n : i # n + 1 /\ i \in 1 .. (n + 1)
          BY <1>2
        <5>3. shown[p] = EMPTY /\ \A i \in 1 .. n : p \notin Range(more[i].points)
          <6>1. DOMAIN more = 1 .. (n + 1) /\ p \in Range(more[n + 1].points)
            BY <1>2
          <6>2. shown[p] = EMPTY /\ \A i \in 1 .. (n + 1) : p \in Range(more[i].points) => n + 1 = i
            BY <1>4, <5>2, <6>1 DEF Apart
          <6> QED
            BY <5>2, <6>2
        <5>4. \A i \in Moves : p \notin Range(frames[i].points)
          BY <1>2, <2>4, <5>3
        <5>5. played[p] = shown[p]
          BY <1>1, <1>2, <2>4, <5>1, <5>4, LayerStones
        <5> QED
          BY <5>3, <5>5
      <4> HIDE DEF played, now
      <4>3. /\ StonesOf(now) = StonesOf(played) \cup Marks(call.points, call.side)
            /\ Marks(call.points, call.side) \cap StonesOf(played) = {}
        <5>1. call.points \in Seq(Point) /\ call.side \in Side
          BY <1>3
        <5>2. \A p \in Range(call.points) : played[p] = EMPTY
          BY <4>2
        <5>3. /\ StonesOf(Put(played, call.points, call.side)) = StonesOf(played) \cup Marks(call.points, call.side)
              /\ Marks(call.points, call.side) \cap StonesOf(played) = {}
          BY <5>1, <5>2, StonesPut
        <5> QED
          BY <4>1, <5>3
      <4>4. Marks(call.points, call.side) \cap HashKey64 = {}
        BY <2>2, <4>3
      <4>5. HashKey64' = HashKey64 \cup Marks(call.points, call.side)
        BY <1>3, <3>2, <4>4, KeyToggles
      <4>6. Marks(call.points, call.side) \cap O = {}
        <5>1. ASSUME NEW e \in Marks(call.points, call.side), e \in O PROVE FALSE
          <6>1. shown[e[2]] # EMPTY
            BY <2>2, <2>4, <5>1, AbsentShown
          <6>2. PICK p \in Range(call.points) : e = <<call.side, p>>
            BY <5>1 DEF Marks
          <6>3. e[2] = p
            BY <6>2
          <6> QED
            BY <4>2, <6>1, <6>2, <6>3
        <5> QED
          BY <5>1
      <4> QED
        BY <2>2, <4>3, <4>5, <4>6
    <3> QED
      BY <1>3, <3>1, <3>2
  <2> HIDE DEF played, now
  <2> QED
    BY <2>1, <2>2, <2>3, <2>5 DEF KeyHolds
<1> QED
  BY <1>4, <1>5, <1>6, <1>7, <1>9, <1>10 DEF Good, more

\* What it leaves when it ends.
LEMMA PopGood ==
  ASSUME Good, frames # <<>>,
         frames' = Front(frames),
         Board' = Put(Board, Last(frames).points, EMPTY),
         LineInfo' = CopyLine(Last(frames).LineTemp, LineInfo, Last(frames).points, Last(frames).which),
         HashKey64' = IF Last(frames).kind = "move" THEN KeyAfter(Last(frames).points, Last(frames).side)
                                                    ELSE HashKey64,
         UNCHANGED <<Player, StepID, ComputerColor, shown>>
  PROVE  Good'
<1> DEFINE n == Len(frames)
           less == Front(frames)
           call == Last(frames)
<1>1. Types /\ Early /\ Apart(shown, frames) /\ Twos /\ KeyHolds /\ LinesOf(LineInfo, shown, frames)
      /\ Board = Layers(shown, frames, 1 .. n)
  BY DEF Good
<1>2. frames \in Seq(Call)
  BY <1>1 DEF Types
<1>3. /\ less \in Seq(Call) /\ Len(less) = Len(frames) - 1 /\ Apart(shown, less)
      /\ Layers(shown, less, 1 .. Len(less)) = Put(Layers(shown, frames, 1 .. Len(frames)), call.points, EMPTY)
      /\ LinesOf(CopyLine(call.LineTemp, LineInfo, call.points, call.which), shown, less)
  BY <1>1, <1>2, PopLines
<1>4. /\ n \in Nat /\ n > 0 /\ DOMAIN frames = 1 .. n /\ DOMAIN less = 1 .. (n - 1)
      /\ call = frames[n] /\ call \in Call /\ \A i \in 1 .. (n - 1) : less[i] = frames[i]
  <2>1. n \in Nat /\ n > 0 /\ DOMAIN frames = 1 .. n /\ call = frames[n]
    BY <1>2 DEF Last
  <2>2. less = SubSeq(frames, 1, n - 1)
    BY DEF Front
  <2> QED
    BY <1>2, <2>1, <2>2
<1>5. /\ call.kind \in {"move", "probe"} /\ call.side \in Side /\ call.points \in Seq(Point)
      /\ call.LineTemp \in Lines
  BY <1>4 DEF Call
<1> HIDE DEF n, less, call
<1>6. Board' = Layers(shown, less, 1 .. Len(less)) /\ LinesOf(LineInfo', shown, less)
  BY <1>1, <1>3 DEF call, n
<1>7. Types'
  <2>1. EMPTY \in Stone
    BY DEF Stone
  <2>2. Board' \in [Point -> Stone]
    BY <1>1, <2>1, PutTyped DEF Types
  <2>3. LineInfo' \in Lines
    BY <1>1, <1>5, CopyTyped DEF Types, call
  <2> QED
    BY <1>1, <1>3, <2>2, <2>3 DEF Types, less
<1>8. Early'
  BY <1>1, <1>3 DEF Early, Types
<1>9. Moves' = Moves \ {n} /\ (n \in Moves <=> call.kind = "move")
  <2>1. Moves' = {i \in 1 .. (n - 1) : less[i].kind = "move"} /\ Moves = {i \in 1 .. n : frames[i].kind = "move"}
    BY <1>4 DEF Moves, less
  <2> QED
    BY <1>4, <2>1
<1>10. Moves \in SUBSET (DOMAIN frames) /\ Moves' \in SUBSET (DOMAIN less) /\ Moves' \subseteq DOMAIN frames
       /\ \A i \in Moves' : less[i] = frames[i] /\ i \in Moves
  BY <1>4, <1>9 DEF Moves, less
<1>11. Twos'
  <2>1. frames' = less
    BY DEF less
  <2> QED
    BY <1>1, <1>10, <2>1 DEF Twos
<1>12. KeyHolds'
  <2> DEFINE played == Layers(shown, frames, Moves)
             now == Layers(shown, less, Moves')
  <2>1. Played(Moves) = played /\ Played(Moves)' = now
    BY DEF Played, Layers, less
  <2>2. PICK O \in SUBSET (Side \X Point) : Absent(O) /\ HashKey64 = StonesOf(played) \ O
    BY <1>1, <2>1 DEF KeyHolds
  <2>3. Absent(O)'
    BY <2>2 DEF Absent
  <2>4. now = Layers(shown, frames, Moves')
    BY <1>1, <1>2, <1>3, <1>10, LayersBelow
  <2>5. HashKey64' = StonesOf(now) \ O
    <3>1. CASE call.kind = "probe"
      <4>1. Moves' = Moves
        BY <1>9, <3>1
      <4> QED
        BY <2>2, <2>4, <3>1, <4>1 DEF call
    <3>2. CASE call.kind = "move"
      <4>1. n \in Moves /\ Moves' = Moves \ {n}
        BY <1>9, <3>2
      <4>2. now = Put(played, call.points, EMPTY)
        BY <1>1, <1>2, <1>4, <1>10, <2>4, <4>1, TakeLayer
      <4>3. \A p \in Range(call.points) : played[p] = call.side /\ shown[p] = EMPTY
        <5> SUFFICES ASSUME NEW p \in Range(call.points)
                     PROVE  played[p] = call.side /\ shown[p] = EMPTY
          OBVIOUS
        <5>1. p \in Point
          BY <1>5, OneTwo
        <5>2. shown[p] = EMPTY
          BY <1>1, <1>4, <1>10, <4>1 DEF Apart
        <5> QED
          BY <1>1, <1>2, <1>4, <1>10, <4>1, <5>1, <5>2, LayerStones
      <4>4. /\ StonesOf(now) = StonesOf(played) \ Marks(call.points, call.side)
            /\ Marks(call.points, call.side) \subseteq StonesOf(played)
        BY <1>5, <4>2, <4>3, StonesTake
      <4>5. Marks(call.points, call.side) \cap O = {}
        <5>1. ASSUME NEW e \in Marks(call.points, call.side), e \in O PROVE FALSE
          <6>1. shown[e[2]] # EMPTY
            BY <1>10, <2>2, <5>1, AbsentShown
          <6>2. PICK p \in Range(call.points) : e = <<call.side, p>>
            BY <5>1 DEF Marks
          <6>3. e[2] = p
            BY <6>2
          <6> QED
            BY <4>3, <6>1, <6>2, <6>3
        <5> QED
          BY <5>1
      <4>6. Marks(call.points, call.side) \subseteq HashKey64
        BY <2>2, <4>4, <4>5
      <4>7. Len(call.points) = 2 /\ call.points[1] # call.points[2]
        BY <1>1, <1>4, <4>1 DEF Twos
      <4>8. HashKey64' = HashKey64 \ Marks(call.points, call.side)
        <5>1. HashKey64' = KeyAfter(call.points, call.side)
          BY <3>2 DEF call
        <5> QED
          BY <1>5, <4>6, <4>7, <5>1, KeyToggles
      <4> QED
        BY <2>2, <4>4, <4>8
    <3> QED
      BY <1>5, <3>1, <3>2
  <2> HIDE DEF played, now
  <2> QED
    BY <2>1, <2>2, <2>3, <2>5 DEF KeyHolds
<1> QED
  BY <1>3, <1>6, <1>7, <1>8, <1>11, <1>12 DEF Good, less

-----------------------------------------------------------------------------
(* The steps *)

\* The game begins with an empty board.
LEMMA InitPInv == Init => PInv
<1> SUFFICES ASSUME Init PROVE PInv
  OBVIOUS
<1>1. /\ shown = Board /\ Board = [p \in Point |-> EMPTY] /\ LineInfo = NewLines /\ HashKey64 = {}
      /\ Player = BLACK /\ StepID = 0 /\ ComputerColor \in Side /\ frames = <<>> /\ stray = {}
  BY DEF Init
<1>2. shown \in [Point -> Stone]
  BY <1>1 DEF Stone
<1>3. Types
  BY <1>1, <1>2, NoCalls DEF Types, NewLines, Lines, Side
<1>4. Early
  BY <1>1 DEF Early
<1>5. Twos /\ Moves = {}
  BY <1>1, NoCalls DEF Twos, Moves
<1>6. KeyHolds
  <2>1. Absent({})
    BY <1>1 DEF Absent
  <2>2. HashKey64 = StonesOf(Played(Moves)) \ {}
    <3>1. \A p \in Point : Played(Moves)[p] = EMPTY
      BY <1>1, <1>5 DEF Played
    <3> QED
      BY <1>1, <3>1 DEF StonesOf
  <2> QED
    BY <2>1, <2>2 DEF KeyHolds
<1>7. LinesOf(LineInfo, shown, frames)
  <2>1. ASSUME NEW side \in Side, NEW id \in LineIDs, NEW f \in Part
        PROVE  LineInfo[side][id][f] = Content(shown, id, side)
    <3> DEFINE read == [i \in DOMAIN PointsOf[id] |-> shown[PointsOf[id][i]]]
    <3>1. \A i \in DOMAIN read : read[i] # side
      <4>1. \A i \in DOMAIN PointsOf[id] : PointsOf[id][i] \in Point
        BY PointsTyped
      <4> QED
        BY <1>1, <4>1, BoardAssumption DEF Side
    <3>2. Content(shown, id, side) = <<>>
      BY <3>1 DEF Content, Analyze
    <3> QED
      BY <1>1, <3>2 DEF NewLines
  <2> QED
    BY <1>1, <1>2, <2>1, NoCalls
<1> QED
  BY <1>1, <1>2, <1>3, <1>4, <1>5, <1>6, <1>7, NoCalls DEF PInv, Good

\* Every step keeps the invariant.
LEMMA NextPInv == PInv /\ [Next]_vars => PInv'
<1> SUFFICES ASSUME PInv, [Next]_vars PROVE PInv'
  OBVIOUS
<1>1. ASSUME UNCHANGED vars PROVE PInv'
  <2>1. /\ Board' = Board /\ LineInfo' = LineInfo /\ HashKey64' = HashKey64 /\ Player' = Player
        /\ StepID' = StepID /\ ComputerColor' = ComputerColor /\ frames' = frames
        /\ shown' = shown /\ stray' = stray
    BY <1>1 DEF vars
  <2>2. ASSUME Good PROVE Good'
    <3>1. Types' /\ Early'
      BY <2>1, <2>2 DEF Good, Types, Early
    <3>2. Moves' = Moves /\ Twos'
      BY <2>1, <2>2 DEF Good, Twos, Moves
    <3>3. KeyHolds'
      <4>1. Played(Moves)' = Played(Moves)
        BY <2>1, <3>2 DEF Played
      <4>2. \A O : Absent(O)' <=> Absent(O)
        BY <2>1 DEF Absent
      <4> QED
        BY <2>1, <2>2, <4>1, <4>2 DEF Good, KeyHolds
    <3>4. Apart(shown', frames') /\ Board' = Layers(shown', frames', 1 .. Len(frames'))
          /\ LinesOf(LineInfo', shown', frames')
      BY <2>1, <2>2 DEF Good
    <3> QED
      BY <3>1, <3>2, <3>3, <3>4 DEF Good
  <2> QED
    BY <2>1, <2>2 DEF PInv
<1>2. ASSUME Open(2) PROVE Good /\ frames = <<>> /\ Board = shown
  <2>1. Good /\ frames = <<>>
    BY <1>2 DEF Open, Going, PInv
  <2> QED
    BY <2>1, NoCalls DEF Good, Types
<1>3. StepID = 0 => /\ Good /\ frames = <<>> /\ stray = {} /\ Player = BLACK
                    /\ \A p \in Point : shown[p] = EMPTY
  BY DEF PInv, Good, Early
<1>4. ASSUME Opening PROVE PInv'
  <2> DEFINE points == <<Center>>
  <2>1. points \in Seq(Point) /\ Len(points) = 1 /\ points[1] = Center /\ Center \in Point
    BY Middle
  <2>2. Range(points) = {points[1]}
    BY <2>1, OneTwo
  <2>3. Play(Board, points) /\ StepID = 0 /\ ComputerColor = BLACK /\ ComputerColor # WHITE
    BY <1>4, BoardAssumption DEF Opening
  <2> HIDE DEF points
  <2> QED
    BY <1>3, <2>1, <2>2, <2>3, PlayKeeps
<1>5. ASSUME NEW p \in Area, HumanOpening(p) PROVE PInv'
  <2> DEFINE points == <<p, p>>
  <2>1. p \in Point
    BY BoardAssumption
  <2>2. points \in Seq(Point) /\ Len(points) = 2 /\ points[1] = p /\ points[2] = p
    BY <2>1
  <2>3. Range(points) = {points[1]}
    BY <2>2, OneTwo
  <2>4. Play(Board, points) /\ StepID = 0 /\ ComputerColor = WHITE
    BY <1>5 DEF HumanOpening
  <2>5. points = <<points[1], points[1]>>
    OBVIOUS
  <2> HIDE DEF points
  <2> QED
    BY <1>3, <2>1, <2>2, <2>3, <2>4, <2>5, PlayKeeps
<1>6. ASSUME NEW s \in Steps, NEW board, Open(2), StepID > 0, Play(board, s) PROVE PInv'
  <2>1. StepID # 0
    BY <1>6, <1>2 DEF Good, Types
  <2>2. s \in Seq(Point) /\ Len(s) = 2 /\ s[1] # s[2] /\ \A p \in Range(s) : shown[p] = EMPTY
    BY <1>2, <1>6, TwoFree
  <2> QED
    BY <1>2, <1>6, <2>1, <2>2, PlayKeeps
<1>7. ASSUME HumanMove PROVE PInv'
  BY <1>6, <1>7 DEF HumanMove
<1>8. ASSUME SearchMove PROVE PInv'
  BY <1>6, <1>8 DEF SearchMove, Thinking
<1>9. ASSUME NEW board, NEW s, NEW a \in Point, NEW b \in Point, s = <<a, b>>, a # b,
             Board[a] = EMPTY, Board[b] = EMPTY, Open(2), StepID > 0, Play(board, s)
      PROVE  PInv'
  <2>1. StepID # 0
    BY <1>9, <1>2 DEF Good, Types
  <2>2. s \in Seq(Point) /\ Len(s) = 2 /\ s[1] # s[2] /\ \A p \in Range(s) : shown[p] = EMPTY
    BY <1>2, <1>9, TwoPlaces
  <2> QED
    BY <1>2, <1>9, <2>1, <2>2, PlayKeeps
<1>10. ASSUME StrangeMove PROVE PInv'
  <2>1. Open(2) /\ StepID > 0 /\ StepID = 1
    BY <1>10 DEF StrangeMove, Thinking, Strange
  <2>2. PICK p \in Stones : Play(Board, BesideOpening(p))
    BY <1>10 DEF StrangeMove
  <2>3. p \in Point /\ Board[p] # EMPTY
    BY DEF Stones
  <2>4. PICK q \in Point : \A x \in Point : shown[x] # EMPTY <=> x = q
    BY <1>2, <2>1 DEF Good, Early
  <2>5. \A x \in Point : x # p => Board[x] = EMPTY
    BY <1>2, <2>1, <2>3, <2>4
  <2>6. PICK a \in Point, b \in Point : BesideOpening(p) = <<a, b>> /\ a # p /\ b # p /\ a # b
    BY <2>3, Middle
  <2> QED
    BY <1>9, <2>1, <2>2, <2>5, <2>6
<1>11. ASSUME WinMove PROVE PInv'
  <2>1. Open(2) /\ StepID > 0
    BY <1>11 DEF WinMove, Thinking
  <2>2. PICK n \in DOMAIN Tries : Play(Tried(n), Tries[n])
    BY <1>11 DEF WinMove
  <2>3. PICK a \in Point, b \in Point :
          Tries[n] = <<a, b>> /\ a # b /\ Board[a] = EMPTY /\ Board[b] = EMPTY
    BY <1>2, <2>1, TriesFree
  <2> QED
    BY <1>9, <2>1, <2>2, <2>3
<1>12. ASSUME Deeper PROVE PInv'
  <2>1. stray = {} /\ Good /\ StepID > 0
    BY <1>12 DEF Deeper, Going, Thinking, PInv
  <2>2. ASSUME NEW s \in Steps, MakeMove(s) PROVE Good' /\ stray' = stray
    <3> DEFINE which == <<0, 0>>
               call == Frame("move", s, which)
    <3>1. s \in Seq(Point) /\ Len(s) = 2 /\ s[1] # s[2] /\ \A p \in Range(s) : Board[p] = EMPTY
      BY TwoFree
    <3>2. which \in Whiches /\ which[1] = 0 /\ which[2] = 0
      BY DEF Whiches
    <3>3. call.which = AllParts
      <4>1. call.which = [x \in Side |-> IF x = Mover THEN which[1] ELSE which[2]]
        BY DEF Frame
      <4> QED
        BY <3>2, <4>1 DEF AllParts
    <3> HIDE DEF which, call
    <3>4. /\ call \in Call /\ call.kind = "move" /\ call.side = Mover /\ call.points = s
          /\ \A side \in Side : call.which[side] \in {which[1], which[2]}
          /\ \A side \in Side, id \in LineIDs, g \in Part :
               id \in Crossing(call.points) /\ g \in Copied(call.which[side])
                 => call.LineTemp[side][id][g] = LineInfo[side][id][g]
      BY <2>1, <3>1, <3>2, FrameTyped DEF call
    <3>5. ~Probing /\ UNCHANGED <<Player, StepID, ComputerColor, shown>> /\ stray' = stray
      BY <2>2 DEF MakeMove
    <3>6. /\ frames' = Append(frames, call)
          /\ Board' = Put(Board, call.points, call.side)
          /\ LineInfo' = UpdateLineForCross(LineInfo, Board', call.points, call.which)
          /\ HashKey64' = IF call.kind = "move" THEN KeyAfter(call.points, call.side) ELSE HashKey64
      BY <2>2, <3>3, <3>4 DEF MakeMove, Place, call, which
    <3>7. \A side \in Side : call.which[side] = 0
      BY <3>2, <3>4
    <3>8. Good'
      BY <2>1, <3>1, <3>4, <3>5, <3>6, <3>7, PushGood
    <3> QED
      BY <3>5, <3>8
  <2>3. ASSUME NEW s \in Steps \cup {<<p>> : p \in Free}, NEW which \in Whiches, Probe(s, which)
        PROVE  Good' /\ stray' = stray
    <3> DEFINE call == Frame("probe", s, which)
    <3>1. s \in Seq(Point) /\ \A p \in Range(s) : Board[p] = EMPTY
      <4>1. CASE s \in Steps
        BY <4>1, TwoFree
      <4>2. ASSUME NEW p \in Free, s = <<p>> PROVE s \in Seq(Point) /\ \A q \in Range(s) : Board[q] = EMPTY
        <5>1. p \in Point /\ Board[p] = EMPTY
          BY BoardAssumption DEF Free
        <5>2. s \in Seq(Point) /\ Len(s) = 1 /\ s[1] = p
          BY <4>2, <5>1
        <5> QED
          BY <5>1, <5>2, OneTwo
      <4> QED
        BY <4>1, <4>2
    <3> HIDE DEF call
    <3>2. /\ call \in Call /\ call.kind = "probe" /\ call.side = Mover /\ call.points = s
          /\ \A side \in Side : call.which[side] \in {which[1], which[2]}
          /\ \A side \in Side, id \in LineIDs, g \in Part :
               id \in Crossing(call.points) /\ g \in Copied(call.which[side])
                 => call.LineTemp[side][id][g] = LineInfo[side][id][g]
      BY <2>1, <3>1, FrameTyped DEF call
    <3>3. UNCHANGED <<Player, StepID, ComputerColor, shown>> /\ stray' = stray
      BY <2>3 DEF Probe
    <3>4. frames' = Append(frames, call)
      BY <2>3 DEF Probe, call
    <3>5. Last(frames') = call
      BY <2>1, <3>2, <3>4 DEF Last, Good, Types
    <3>6. /\ Board' = Put(Board, call.points, call.side)
          /\ LineInfo' = UpdateLineForCross(LineInfo, Board', call.points, call.which)
          /\ HashKey64' = IF call.kind = "move" THEN KeyAfter(call.points, call.side) ELSE HashKey64
      BY <2>3, <3>2, <3>5 DEF Probe
    <3>7. ~Probing \/ (call.kind = "probe" /\ \A side \in Side : call.which[side] = 7)
      <4>1. ~Probing \/ which = <<7, 7>>
        BY <2>3 DEF Probe, ProbeOf
      <4> QED
        BY <3>2, <4>1
    <3>8. call.kind # "move"
      BY <3>2
    <3>9. Good'
      BY <2>1, <3>1, <3>2, <3>3, <3>4, <3>6, <3>7, <3>8, PushGood
    <3> QED
      BY <3>3, <3>9
  <2>4. Good' /\ stray' = stray
    BY <1>12, <2>2, <2>3 DEF Deeper
  <2> QED
    BY <2>1, <2>4 DEF PInv
<1>13. ASSUME frames # <<>> PROVE stray = {} /\ Good
  BY <1>13 DEF PInv
<1>14. ASSUME BackMove PROVE PInv'
  <2>1. /\ frames # <<>> /\ Last(frames).kind = "move" /\ frames' = Front(frames)
        /\ Board' = Put(Board, Last(frames).points, EMPTY)
        /\ LineInfo' = CopyLine(Last(frames).LineTemp, LineInfo, Last(frames).points, Last(frames).which)
        /\ HashKey64' = KeyAfter(Last(frames).points, Last(frames).side)
        /\ UNCHANGED <<Player, StepID, ComputerColor, shown>> /\ stray' = stray
    BY <1>14 DEF BackMove
  <2>2. Good'
    BY <1>13, <2>1, PopGood
  <2> QED
    BY <1>13, <2>1, <2>2 DEF PInv
<1>15. ASSUME EndProbe PROVE PInv'
  <2>1. /\ frames # <<>> /\ Last(frames).kind # "move" /\ frames' = Front(frames)
        /\ Board' = Put(Board, Last(frames).points, EMPTY)
        /\ LineInfo' = CopyLine(Last(frames).LineTemp, LineInfo, Last(frames).points, Last(frames).which)
        /\ HashKey64' = HashKey64
        /\ UNCHANGED <<Player, StepID, ComputerColor, shown>> /\ stray' = stray
    BY <1>15 DEF EndProbe, Probing
  <2>2. Good'
    BY <1>13, <2>1, PopGood
  <2> QED
    BY <1>13, <2>1, <2>2 DEF PInv
<1> QED
  BY <1>1, <1>4, <1>5, <1>7, <1>8, <1>10, <1>11, <1>12, <1>14, <1>15 DEF Next

\* The calls of the search are on places of their own, the key is that of the
\* steps and moves, and every entry is, now or when the calls above it are taken
\* back, that of the board then.
THEOREM PositionInvariant == Spec => []PInv
BY InitPInv, NextPInv, PTL DEF Spec

-----------------------------------------------------------------------------
(* The results *)

\* An entry that is read is that of the board.
LEMMA EntryRead ==
  ASSUME Good, NEW side \in Side, NEW id \in LineIDs, NEW f \in Wanted(side)
  PROVE  LineInfo[side][id][f] = Content(Board, id, side)
<1> DEFINE n == Len(frames)
<1>1. /\ frames \in Seq(Call) /\ Board = Layers(shown, frames, 1 .. n)
      /\ LinesOf(LineInfo, shown, frames) /\ n \in Nat /\ DOMAIN frames = 1 .. n
  BY DEF Good, Types
<1>2. Wanted(side) = WantedAt(frames, n, side)
  BY <1>1 DEF Wanted, WantedAt, Probing, Last
<1>3. n \in 0 .. n /\ Saving(frames, n, side, id, f) = {}
  BY <1>1 DEF Saving
<1> HIDE DEF n
<1>4. Restores(LineInfo, frames, n, side, id, f, Content(Board, id, side))
  BY <1>1, <1>2, <1>3 DEF LinesOf, n
<1> QED
  BY <1>3, <1>4 DEF Restores

\* However moves and probes cross and lie one in the other, what the search reads
\* of a line is what is on it: UpdateLineForCross, BackupLine and RecoverLine fit.
THEOREM LinesCurrentHolds == Spec => []LinesCurrent
<1>1. PInv => LinesCurrent
  BY EntryRead DEF PInv, LinesCurrent, Content
<1> QED
  BY <1>1, PositionInvariant, PTL

\* The search leaves no trace on the board, and in the key only what human_move
\* has left out of it.
THEOREM NoTraceHolds == Spec => []NoTrace
<1>1. PInv => NoTrace
  <2> SUFFICES ASSUME Good
               PROVE  /\ Board = Played(DOMAIN frames)
                      /\ HashKey64 \subseteq StonesOf(Played(Moves))
                      /\ Cardinality(StonesOf(Played(Moves)) \ HashKey64)
                           = IF ComputerColor = WHITE /\ StepID > 0 THEN 1 ELSE 0
    BY DEF PInv, NoTrace
  <2>1. DOMAIN frames = 1 .. Len(frames) /\ Board = Layers(shown, frames, 1 .. Len(frames)) /\ KeyHolds
    BY DEF Good, Types
  <2>2. Played(DOMAIN frames) = Layers(shown, frames, DOMAIN frames) /\ Played(Moves) = Layers(shown, frames, Moves)
    BY DEF Played, Layers
  <2>3. PICK O \in SUBSET (Side \X Point) : Absent(O) /\ HashKey64 = StonesOf(Played(Moves)) \ O
    BY <2>1 DEF KeyHolds
  <2>4. Moves \in SUBSET (DOMAIN frames)
    BY DEF Moves
  <2>5. O \subseteq StonesOf(Played(Moves)) /\ Cardinality(O) = IF ComputerColor = WHITE /\ StepID > 0 THEN 1 ELSE 0
    BY <2>2, <2>3, <2>4, AbsentShown
  <2>6. StonesOf(Played(Moves)) \ HashKey64 = O
    BY <2>3, <2>5
  <2> QED
    BY <2>1, <2>2, <2>3, <2>5, <2>6
<1> QED
  BY <1>1, PositionInvariant, PTL

-----------------------------------------------------------------------------
(* Rows of six *)

\* Six places on from a place that are of one side.
RowAt(board, a, k, side) ==
  \A n \in 0 .. (Six - 1) : Shift(a, k, n) \in Point /\ board[Shift(a, k, n)] = side

\* Steps along a line add up.
LEMMA ShiftShift ==
  ASSUME NEW p \in Pair, NEW k \in Angle, NEW i \in Int, NEW j \in Int
  PROVE  Shift(p, k, i) \in Pair /\ Shift(Shift(p, k, i), k, j) = Shift(p, k, i + j)
<1> DEFINE q == Shift(p, k, i)
<1>1. /\ p[1] \in Int /\ p[2] \in Int /\ i + j \in Int
      /\ \A a, b \in Int : <<a, b>> \in Pair /\ <<a, b>>[1] = a /\ <<a, b>>[2] = b
  BY DEF Pair
<1>2. CASE k = 0
  <2>1. q = <<p[1] + i, p[2]>> /\ Shift(p, 0, i + j) = <<p[1] + (i + j), p[2]>>
    BY <1>1, <1>2, Shifts
  <2>2. q \in Pair /\ q[1] = p[1] + i /\ q[2] = p[2]
    BY <1>1, <2>1
  <2> HIDE DEF q
  <2>3. Shift(q, 0, j) = <<q[1] + j, q[2]>>
    BY <2>2, Shifts
  <2> QED
    BY <1>1, <1>2, <2>1, <2>2, <2>3 DEF q
<1>3. CASE k = 1
  <2>1. q = <<p[1] + i, p[2] - i>> /\ Shift(p, 1, i + j) = <<p[1] + (i + j), p[2] - (i + j)>>
    BY <1>1, <1>3, Shifts
  <2>2. q \in Pair /\ q[1] = p[1] + i /\ q[2] = p[2] - i
    BY <1>1, <2>1
  <2> HIDE DEF q
  <2>3. Shift(q, 1, j) = <<q[1] + j, q[2] - j>>
    BY <2>2, Shifts
  <2> QED
    BY <1>1, <1>3, <2>1, <2>2, <2>3 DEF q
<1>4. CASE k = 2
  <2>1. q = <<p[1], p[2] + i>> /\ Shift(p, 2, i + j) = <<p[1], p[2] + (i + j)>>
    BY <1>1, <1>4, Shifts
  <2>2. q \in Pair /\ q[1] = p[1] /\ q[2] = p[2] + i
    BY <1>1, <2>1
  <2> HIDE DEF q
  <2>3. Shift(q, 2, j) = <<q[1], q[2] + j>>
    BY <2>2, Shifts
  <2> QED
    BY <1>1, <1>4, <2>1, <2>2, <2>3 DEF q
<1>5. CASE k = 3
  <2>1. q = <<p[1] + i, p[2] + i>> /\ Shift(p, 3, i + j) = <<p[1] + (i + j), p[2] + (i + j)>>
    BY <1>1, <1>5, Shifts
  <2>2. q \in Pair /\ q[1] = p[1] + i /\ q[2] = p[2] + i
    BY <1>1, <2>1
  <2> HIDE DEF q
  <2>3. Shift(q, 3, j) = <<q[1] + j, q[2] + j>>
    BY <2>2, Shifts
  <2> QED
    BY <1>1, <1>5, <2>1, <2>2, <2>3 DEF q
<1> QED
  BY <1>2, <1>3, <1>4, <1>5 DEF Angle

\* A window of six stones of a side is of that side throughout.
LEMMA RowCount ==
  ASSUME NEW seq, NEW x, DOMAIN seq = 1 .. Six
  PROVE  Count(seq, x) = Six <=> \A j \in 1 .. Six : seq[j] = x
<1> DEFINE S == {j \in 1 .. Six : seq[j] = x}
<1>1. Six \in Nat /\ IsFiniteSet(1 .. Six) /\ Cardinality(1 .. Six) = Six
  BY BoardAssumption, FS_Interval
<1>2. Count(seq, x) = Cardinality(S) /\ S \in SUBSET (1 .. Six)
  BY DEF Count
<1>3. Cardinality(S) = Six <=> S = 1 .. Six
  <2> HIDE DEF S
  <2> QED
    BY <1>1, <1>2, FS_Subset
<1> QED
  BY <1>2, <1>3

\* HasRow finds a row.
LEMMA RowIs ==
  ASSUME NEW stones \in Seq(Stone), NEW side
  PROVE  HasRow(stones, side)
           <=> \E i \in 1 .. Len(stones) - Six + 1 : \A n \in 0 .. (Six - 1) : stones[i + n] = side
<1>1. Six \in Nat /\ Len(stones) \in Nat /\ DOMAIN stones = 1 .. Len(stones)
  BY BoardAssumption
<1>2. ASSUME NEW i \in 1 .. Len(stones) - Six + 1
      PROVE  Count(Window(stones, i), side) = Six <=> \A n \in 0 .. (Six - 1) : stones[i + n] = side
  <2> DEFINE w == Window(stones, i)
  <2>1. w = SubSeq(stones, i, i + Six - 1)
    BY DEF Window
  <2>2. DOMAIN w = 1 .. Six /\ \A j \in 1 .. Six : w[j] = stones[i + j - 1]
    BY <1>1, <2>1
  <2>3. Count(w, side) = Six <=> \A j \in 1 .. Six : w[j] = side
    BY <2>2, RowCount
  <2> HIDE DEF w
  <2>4. ASSUME \A j \in 1 .. Six : w[j] = side, NEW n \in 0 .. (Six - 1) PROVE stones[i + n] = side
    <3>1. n + 1 \in 1 .. Six /\ i + (n + 1) - 1 = i + n
      BY <1>1
    <3>2. w[n + 1] = side /\ w[n + 1] = stones[i + (n + 1) - 1]
      BY <2>2, <2>4, <3>1
    <3> QED
      BY <3>1, <3>2
  <2>5. ASSUME \A n \in 0 .. (Six - 1) : stones[i + n] = side, NEW j \in 1 .. Six PROVE w[j] = side
    <3>1. j - 1 \in 0 .. (Six - 1) /\ i + (j - 1) = i + j - 1
      BY <1>1
    <3> QED
      BY <2>2, <2>5, <3>1
  <2> QED
    BY <2>3, <2>4, <2>5 DEF w
<1> QED
  BY <1>2 DEF HasRow

\* What is found on a line has a row when the line has.
LEMMA ContentRow ==
  ASSUME NEW board \in [Point -> Stone], NEW id \in LineIDs, NEW side
  PROVE  HasRow(Content(board, id, side), side)
           <=> \E i \in 1 .. Len(PointsOf[id]) - Six + 1 :
                 \A n \in 0 .. (Six - 1) : board[PointsOf[id][i + n]] = side
<1> DEFINE list == PointsOf[id]
           read == [j \in DOMAIN list |-> board[list[j]]]
<1>1. list \in Seq(Point) /\ Six \in Nat /\ 1 < Six
  BY PointsTyped, BoardAssumption
<1>2. Content(board, id, side) = IF \E j \in DOMAIN read : read[j] = side THEN read ELSE <<>>
  BY DEF Content, Analyze
<1> HIDE DEF list
<1>3. /\ Len(list) \in Nat /\ DOMAIN list = 1 .. Len(list) /\ read \in Seq(Stone) /\ Len(read) = Len(list)
      /\ DOMAIN read = 1 .. Len(list) /\ \A j \in 1 .. Len(list) : read[j] = board[list[j]]
  BY <1>1
<1> HIDE DEF read
<1>4. ASSUME NEW i \in 1 .. Len(list) - Six + 1, NEW n \in 0 .. (Six - 1)
      PROVE  i + n \in 1 .. Len(list) /\ read[i + n] = board[list[i + n]]
  <2>1. i + n \in 1 .. Len(list)
    BY <1>1, <1>3
  <2> QED
    BY <1>3, <2>1
<1>5. HasRow(read, side) <=> \E i \in 1 .. Len(list) - Six + 1 : \A n \in 0 .. (Six - 1) : board[list[i + n]] = side
  BY <1>3, <1>4, RowIs
<1>6. ~HasRow(<<>>, side)
  <2>1. <<>> \in Seq(Stone) /\ 1 .. Len(<<>>) - Six + 1 = {}
    BY <1>1
  <2> QED
    BY <2>1, RowIs
<1>7. HasRow(read, side) => \E j \in DOMAIN read : read[j] = side
  <2> SUFFICES ASSUME HasRow(read, side) PROVE \E j \in DOMAIN read : read[j] = side
    OBVIOUS
  <2>1. PICK i \in 1 .. Len(list) - Six + 1 : \A n \in 0 .. (Six - 1) : read[i + n] = side
    BY <1>3, RowIs
  <2>2. 0 \in 0 .. (Six - 1)
    BY <1>1
  <2> QED
    BY <1>3, <1>4, <2>1, <2>2
<1> QED
  BY <1>2, <1>5, <1>6, <1>7 DEF list

\* Where a row begins the line is long enough to have an entry.
LEMMA RowLong ==
  ASSUME NEW a \in Point, NEW k \in Angle, Shift(a, k, Six - 1) \in Point
  PROVE  LongEnough(a, k)
<1>1. /\ a \in Pair /\ a[1] \in 0 .. (N - 1) /\ a[2] \in 0 .. (N - 1)
      /\ N \in Nat /\ Six \in Nat /\ Six < N /\ Six - 1 \in Int
  BY BoardAssumption DEF Point, Pair
<1>2. CASE k \in {0, 2}
  BY <1>2 DEF LongEnough
<1>3. CASE k = 1
  <2>1. Shift(a, 1, Six - 1) = <<a[1] + (Six - 1), a[2] - (Six - 1)>>
    BY <1>1, Shifts
  <2>2. a[1] + (Six - 1) \in 0 .. (N - 1) /\ a[2] - (Six - 1) \in 0 .. (N - 1)
    BY <1>1, <1>3, <2>1, Cells
  <2>3. a[1] + a[2] > Six - 2 /\ a[1] + a[2] < 2 * N - Six
    BY <1>1, <2>2
  <2> QED
    BY <1>3, <2>3 DEF LongEnough
<1>4. CASE k = 3
  <2>1. Shift(a, 3, Six - 1) = <<a[1] + (Six - 1), a[2] + (Six - 1)>>
    BY <1>1, Shifts
  <2>2. a[1] + (Six - 1) \in 0 .. (N - 1) /\ a[2] + (Six - 1) \in 0 .. (N - 1)
    BY <1>1, <1>4, <2>1, Cells
  <2>3. a[2] - a[1] > Six - N - 1 /\ a[2] - a[1] < N - Six + 1
    BY <1>1, <2>2
  <2> QED
    BY <1>4, <2>3 DEF LongEnough
<1> QED
  BY <1>2, <1>3, <1>4 DEF Angle

\* No place of the board is as far as its size from another.
LEMMA Near ==
  ASSUME NEW s \in Point, NEW k \in Angle, NEW m \in Nat, Shift(s, k, m) \in Point
  PROVE  m \in 0 .. (N - 1)
<1>1. s \in Pair /\ s[1] \in 0 .. (N - 1) /\ s[2] \in 0 .. (N - 1) /\ N \in Nat /\ m \in Int
  BY BoardAssumption DEF Point, Pair
<1>2. CASE k = 0
  <2>1. Shift(s, 0, m) = <<s[1] + m, s[2]>>
    BY <1>1, Shifts
  <2>2. s[1] + m \in 0 .. (N - 1)
    BY <1>1, <1>2, <2>1, Cells
  <2> QED
    BY <1>1, <2>2
<1>3. CASE k = 1
  <2>1. Shift(s, 1, m) = <<s[1] + m, s[2] - m>>
    BY <1>1, Shifts
  <2>2. s[1] + m \in 0 .. (N - 1)
    BY <1>1, <1>3, <2>1, Cells
  <2> QED
    BY <1>1, <2>2
<1>4. CASE k = 2
  <2>1. Shift(s, 2, m) = <<s[1], s[2] + m>>
    BY <1>1, Shifts
  <2>2. s[2] + m \in 0 .. (N - 1)
    BY <1>1, <1>4, <2>1, Cells
  <2> QED
    BY <1>1, <2>2
<1>5. CASE k = 3
  <2>1. Shift(s, 3, m) = <<s[1] + m, s[2] + m>>
    BY <1>1, Shifts
  <2>2. s[1] + m \in 0 .. (N - 1)
    BY <1>1, <1>5, <2>1, Cells
  <2> QED
    BY <1>1, <2>2
<1> QED
  BY <1>2, <1>3, <1>4, <1>5 DEF Angle

\* A stretch of places as long as a row that is on the board.
Fits(a, k) == \A n \in 0 .. (Six - 1) : Shift(a, k, n) \in Point

\* A window of a line is a stretch of the board.
LEMMA WindowStretch ==
  ASSUME NEW id \in LineIDs, NEW i \in 1 .. Len(PointsOf[id]) - Six + 1
  PROVE  \E a \in Point, k \in Angle :
           /\ Fits(a, k) /\ LineID(a, k) = id
           /\ \A n \in 0 .. (Six - 1) :
                i + n \in DOMAIN PointsOf[id] /\ PointsOf[id][i + n] = Shift(a, k, n)
<1>1. Six \in Nat /\ 1 < Six /\ N \in Nat
  BY BoardAssumption
<1> DEFINE list == PointsOf[id]
           p == list[1]
           k == DirOf(p, id)
           s == Start(p, k)
<1>2. list \in Seq(Point) /\ \A j \in DOMAIN list : id \in Cross[list[j]]
  BY PointsTyped
<1>3. Len(list) \in Nat /\ DOMAIN list = 1 .. Len(list) /\ 1 \in 1 .. Len(list)
  <2> HIDE DEF list
  <2>1. i \in 1 .. Len(list) - Six + 1
    BY DEF list
  <2> QED
    BY <1>1, <1>2, <2>1
<1>4. p \in Point /\ id \in Cross[p]
  BY <1>2, <1>3
<1> HIDE DEF p
<1>5. k \in Angle /\ list = Reach[p][k] /\ \A q \in Point : id \in Cross[q] <=> LineID(q, k) = id
  BY <1>4, EntryOf, ReachInOrder
<1> HIDE DEF k
<1>6. PICK L \in 1 .. N : /\ Reach[p][k] \in [1 .. L -> Point]
                          /\ \A j \in 1 .. L : Reach[p][k][j] = Shift(s, k, j - 1)
  BY <1>4, <1>5, ReachIs
<1>7. s \in Point /\ s \in Pair
  BY <1>4, <1>5, StartIs, Cells
<1>8. i \in 1 .. Len(list) - Six + 1
  OBVIOUS
<1> HIDE DEF s, list
<1>9. Len(list) = L /\ \A j \in 1 .. L : list[j] \in Point /\ list[j] = Shift(s, k, j - 1)
  BY <1>3, <1>5, <1>6
<1>10. i \in 1 .. L /\ i - 1 \in Int /\ list[i] \in Point
  BY <1>1, <1>6, <1>8, <1>9
<1>11. ASSUME NEW n \in 0 .. (Six - 1)
       PROVE  i + n \in 1 .. L /\ Shift(list[i], k, n) = list[i + n] /\ list[i + n] \in Point
  <2>1. i + n \in 1 .. L /\ n \in Int /\ (i - 1) + n = (i + n) - 1
    BY <1>1, <1>6, <1>8, <1>9
  <2>2. Shift(Shift(s, k, i - 1), k, n) = Shift(s, k, (i - 1) + n)
    BY <1>5, <1>7, <1>10, <2>1, ShiftShift
  <2> QED
    BY <1>9, <1>10, <2>1, <2>2
<1>12. id \in Cross[list[i]]
  BY <1>2, <1>3, <1>9, <1>10
<1>13. LineID(list[i], k) = id
  BY <1>5, <1>10, <1>12
<1>14. Fits(list[i], k)
  BY <1>11 DEF Fits
<1>15. \A n \in 0 .. (Six - 1) : i + n \in DOMAIN list /\ list[i + n] = Shift(list[i], k, n)
  BY <1>3, <1>9, <1>11
<1> QED
  BY <1>5, <1>10, <1>13, <1>14, <1>15 DEF list

\* A stretch of the board is a window of its line.
LEMMA StretchWindow ==
  ASSUME NEW a \in Point, NEW k \in Angle, Fits(a, k)
  PROVE  LET id == LineID(a, k)
         IN /\ LongEnough(a, k) /\ id \in LineIDs
            /\ \E i \in 1 .. Len(PointsOf[id]) - Six + 1 : \A n \in 0 .. (Six - 1) :
                 i + n \in DOMAIN PointsOf[id] /\ PointsOf[id][i + n] = Shift(a, k, n)
<1> DEFINE id == LineID(a, k)
           s == Start(a, k)
           list == PointsOf[id]
<1>1. Six \in Nat /\ 1 < Six /\ N \in Nat /\ Six - 1 \in 0 .. (Six - 1)
  BY BoardAssumption
<1>2. LongEnough(a, k)
  BY <1>1, RowLong DEF Fits
<1>3. id \in Cross[a]
  BY <1>2 DEF Cross
<1>4. DirOf(a, id) = k
  <2>1. /\ DirOf(a, id) \in Angle /\ LongEnough(a, DirOf(a, id)) /\ LineID(a, DirOf(a, id)) = id
    BY <1>3, EntryOf
  <2> QED
    BY <1>2, <2>1, KindsApart
<1>5. id \in LineIDs /\ list = Reach[a][k]
  BY <1>3, <1>4, ReachInOrder
<1>6. PICK b \in 0 .. (N - 1) : a = Shift(s, k, b)
  BY SameLine
<1>7. s \in Point /\ s \in Pair
  BY StartIs, Cells
<1>8. PICK L \in 1 .. N : /\ Reach[a][k] \in [1 .. L -> Point]
                          /\ \A j \in 1 .. L : Reach[a][k][j] = Shift(s, k, j - 1)
                          /\ \A j \in 0 .. (N - 1) : Shift(s, k, j) \in Point => j + 1 \in 1 .. L
  BY ReachIs
<1>9. PointsOf[id] \in Seq(Point)
  BY <1>5, PointsTyped
<1> HIDE DEF id, s, list
<1>10. Len(list) = L /\ L \in Nat /\ DOMAIN list = 1 .. L
  BY <1>1, <1>5, <1>8, <1>9 DEF list
<1>11. ASSUME NEW n \in 0 .. (Six - 1)
       PROVE  b + 1 + n \in 1 .. L /\ list[b + 1 + n] = Shift(a, k, n)
  <2>1. b \in Int /\ n \in Int /\ b + n \in Nat /\ (b + 1 + n) - 1 = b + n /\ (b + n) + 1 = b + 1 + n
    BY <1>1
  <2>2. Shift(a, k, n) \in Point
    BY DEF Fits
  <2>3. Shift(a, k, n) = Shift(s, k, b + n)
    BY <1>6, <1>7, <2>1, ShiftShift
  <2>4. b + n \in 0 .. (N - 1)
    BY <1>7, <2>1, <2>2, <2>3, Near
  <2>5. (b + n) + 1 \in 1 .. L
    BY <1>8, <2>2, <2>3, <2>4
  <2>6. list[b + 1 + n] = Shift(s, k, b + n)
    BY <1>5, <1>8, <2>1, <2>5
  <2> QED
    BY <2>1, <2>3, <2>5, <2>6
<1>12. b + 1 \in 1 .. Len(list) - Six + 1
  <2>1. b + 1 + (Six - 1) \in 1 .. L
    BY <1>1, <1>11
  <2> QED
    BY <1>1, <1>10, <2>1
<1> QED
  BY <1>2, <1>5, <1>10, <1>11, <1>12 DEF list, id

\* The rows on the lines are those of the board.
LEMMA LineRows ==
  ASSUME NEW board \in [Point -> Stone], NEW side
  PROVE  (\E id \in LineIDs : HasRow(Content(board, id, side), side))
           <=> \E a \in Point, k \in Angle : RowAt(board, a, k, side)
<1>1. ASSUME NEW id \in LineIDs, HasRow(Content(board, id, side), side)
      PROVE  \E a \in Point, k \in Angle : RowAt(board, a, k, side)
  <2>1. PICK i \in 1 .. Len(PointsOf[id]) - Six + 1 :
               \A n \in 0 .. (Six - 1) : board[PointsOf[id][i + n]] = side
    BY <1>1, ContentRow
  <2>2. PICK a \in Point, k \in Angle :
               /\ Fits(a, k)
               /\ \A n \in 0 .. (Six - 1) : PointsOf[id][i + n] = Shift(a, k, n)
    BY WindowStretch
  <2> QED
    BY <2>1, <2>2 DEF RowAt, Fits
<1>2. ASSUME NEW a \in Point, NEW k \in Angle, RowAt(board, a, k, side)
      PROVE  \E id \in LineIDs : HasRow(Content(board, id, side), side)
  <2>1. Fits(a, k)
    BY <1>2 DEF RowAt, Fits
  <2>2. PICK i \in 1 .. Len(PointsOf[LineID(a, k)]) - Six + 1 :
               \A n \in 0 .. (Six - 1) : PointsOf[LineID(a, k)][i + n] = Shift(a, k, n)
    BY <2>1, StretchWindow
  <2>3. LineID(a, k) \in LineIDs
    BY <2>1, StretchWindow
  <2>4. \A n \in 0 .. (Six - 1) : board[PointsOf[LineID(a, k)][i + n]] = side
    BY <1>2, <2>2 DEF RowAt
  <2> QED
    BY <2>3, <2>4, ContentRow
<1> QED
  BY <1>1, <1>2

\* The four loops of WinOrLose find the rows of the board.
LEMMA LoopRows ==
  ASSUME NEW side
  PROVE  WinOrLose(side) <=> \E a \in Point, k \in Angle : RowAt(Board, a, k, side)
<1>1. Six \in Nat /\ 1 < Six /\ N \in Nat /\ Six < N
  BY BoardAssumption
<1>2. ASSUME NEW x \in Int, NEW y \in Int, NEW n \in Int
      PROVE  /\ <<x, y>> \in Pair
             /\ Shift(<<x, y>>, 0, n) = <<x + n, y>> /\ Shift(<<x, y>>, 1, n) = <<x + n, y - n>>
             /\ Shift(<<x, y>>, 2, n) = <<x, y + n>> /\ Shift(<<x, y>>, 3, n) = <<x + n, y + n>>
  <2>1. <<x, y>> \in Pair /\ <<x, y>>[1] = x /\ <<x, y>>[2] = y
    BY DEF Pair
  <2> QED
    BY <2>1, Shifts
<1>3. ASSUME WinOrLose(side) PROVE \E a \in Point, k \in Angle : RowAt(Board, a, k, side)
  <2>1. ASSUME NEW i \in 0 .. N - 1, NEW j \in 0 .. N - Six, \A n \in 0 .. Six - 1 : Board[<<i, j + n>>] = side
        PROVE  <<i, j>> \in Point /\ RowAt(Board, <<i, j>>, 2, side)
    <3>1. i \in Int /\ j \in Int /\ \A n \in 0 .. (Six - 1) : n \in Int
      BY <1>1
    <3>2. <<i, j>> \in Point
      BY <1>1, <3>1, Cells
    <3>3. ASSUME NEW n \in 0 .. (Six - 1)
          PROVE  Shift(<<i, j>>, 2, n) \in Point /\ Board[Shift(<<i, j>>, 2, n)] = side
      <4>1. Shift(<<i, j>>, 2, n) = <<i, j + n>>
        BY <1>2, <3>1
      <4>2. i \in 0 .. (N - 1) /\ j + n \in 0 .. (N - 1)
        BY <1>1
      <4>3. <<i, j + n>> \in Point
        BY <4>2, Cells
      <4> QED
        BY <2>1, <4>1, <4>3
    <3> QED
      BY <3>2, <3>3 DEF RowAt
  <2>2. ASSUME NEW i \in 0 .. N - 1, NEW j \in 0 .. N - Six, \A n \in 0 .. Six - 1 : Board[<<j + n, i>>] = side
        PROVE  <<j, i>> \in Point /\ RowAt(Board, <<j, i>>, 0, side)
    <3>1. i \in Int /\ j \in Int /\ \A n \in 0 .. (Six - 1) : n \in Int
      BY <1>1
    <3>2. <<j, i>> \in Point
      BY <1>1, <3>1, Cells
    <3>3. ASSUME NEW n \in 0 .. (Six - 1)
          PROVE  Shift(<<j, i>>, 0, n) \in Point /\ Board[Shift(<<j, i>>, 0, n)] = side
      <4>1. Shift(<<j, i>>, 0, n) = <<j + n, i>>
        BY <1>2, <3>1
      <4>2. j + n \in 0 .. (N - 1) /\ i \in 0 .. (N - 1)
        BY <1>1
      <4>3. <<j + n, i>> \in Point
        BY <4>2, Cells
      <4> QED
        BY <2>2, <4>1, <4>3
    <3> QED
      BY <3>2, <3>3 DEF RowAt
  <2>3. ASSUME NEW i \in 0 .. N - Six, NEW j \in Six - 1 .. N - 1,
               \A n \in 0 .. Six - 1 : Board[<<i + n, j - n>>] = side
        PROVE  <<i, j>> \in Point /\ RowAt(Board, <<i, j>>, 1, side)
    <3>1. i \in Int /\ j \in Int /\ \A n \in 0 .. (Six - 1) : n \in Int
      BY <1>1
    <3>2. <<i, j>> \in Point
      BY <1>1, <3>1, Cells
    <3>3. ASSUME NEW n \in 0 .. (Six - 1)
          PROVE  Shift(<<i, j>>, 1, n) \in Point /\ Board[Shift(<<i, j>>, 1, n)] = side
      <4>1. Shift(<<i, j>>, 1, n) = <<i + n, j - n>>
        BY <1>2, <3>1
      <4>2. i + n \in 0 .. (N - 1) /\ j - n \in 0 .. (N - 1)
        BY <1>1
      <4>3. <<i + n, j - n>> \in Point
        BY <4>2, Cells
      <4> QED
        BY <2>3, <4>1, <4>3
    <3> QED
      BY <3>2, <3>3 DEF RowAt
  <2>4. ASSUME NEW i \in 0 .. N - Six, NEW j \in 0 .. N - Six,
               \A n \in 0 .. Six - 1 : Board[<<i + n, j + n>>] = side
        PROVE  <<i, j>> \in Point /\ RowAt(Board, <<i, j>>, 3, side)
    <3>1. i \in Int /\ j \in Int /\ \A n \in 0 .. (Six - 1) : n \in Int
      BY <1>1
    <3>2. <<i, j>> \in Point
      BY <1>1, <3>1, Cells
    <3>3. ASSUME NEW n \in 0 .. (Six - 1)
          PROVE  Shift(<<i, j>>, 3, n) \in Point /\ Board[Shift(<<i, j>>, 3, n)] = side
      <4>1. Shift(<<i, j>>, 3, n) = <<i + n, j + n>>
        BY <1>2, <3>1
      <4>2. i + n \in 0 .. (N - 1) /\ j + n \in 0 .. (N - 1)
        BY <1>1
      <4>3. <<i + n, j + n>> \in Point
        BY <4>2, Cells
      <4> QED
        BY <2>4, <4>1, <4>3
    <3> QED
      BY <3>2, <3>3 DEF RowAt
  <2>5. 0 \in Angle /\ 1 \in Angle /\ 2 \in Angle /\ 3 \in Angle
    BY DEF Angle
  <2> QED
    BY <1>3, <2>1, <2>2, <2>3, <2>4, <2>5 DEF WinOrLose
<1>4. ASSUME NEW a \in Point, NEW k \in Angle, RowAt(Board, a, k, side) PROVE WinOrLose(side)
  <2>1. PICK x \in 0 .. (N - 1), y \in 0 .. (N - 1) : a = <<x, y>>
    BY DEF Point
  <2>2. /\ x \in Int /\ y \in Int /\ Six - 1 \in 0 .. (Six - 1) /\ Six - 1 \in Int
        /\ \A n \in 0 .. (Six - 1) : n \in Int
    BY <1>1
  <2>3. Shift(a, k, Six - 1) \in Point /\ \A n \in 0 .. (Six - 1) : Board[Shift(a, k, n)] = side
    BY <1>4, <2>2 DEF RowAt
  <2>4. CASE k = 0
    <3>1. <<x + (Six - 1), y>> \in Point /\ \A n \in 0 .. Six - 1 : Board[<<x + n, y>>] = side
      <4>1. \A n \in 0 .. (Six - 1) : Shift(a, k, n) = <<x + n, y>>
        BY <1>2, <2>1, <2>2, <2>4
      <4> QED
        BY <2>2, <2>3, <4>1
    <3>2. x \in 0 .. N - Six
      BY <1>1, <2>1, <2>2, <3>1, Cells
    <3> QED
      BY <2>1, <3>1, <3>2 DEF WinOrLose
  <2>5. CASE k = 1
    <3>1. <<x + (Six - 1), y - (Six - 1)>> \in Point /\ \A n \in 0 .. Six - 1 : Board[<<x + n, y - n>>] = side
      <4>1. \A n \in 0 .. (Six - 1) : Shift(a, k, n) = <<x + n, y - n>>
        BY <1>2, <2>1, <2>2, <2>5
      <4> QED
        BY <2>2, <2>3, <4>1
    <3>2. x \in 0 .. N - Six /\ y \in Six - 1 .. N - 1
      BY <1>1, <2>1, <2>2, <3>1, Cells
    <3> QED
      BY <3>1, <3>2 DEF WinOrLose
  <2>6. CASE k = 2
    <3>1. <<x, y + (Six - 1)>> \in Point /\ \A n \in 0 .. Six - 1 : Board[<<x, y + n>>] = side
      <4>1. \A n \in 0 .. (Six - 1) : Shift(a, k, n) = <<x, y + n>>
        BY <1>2, <2>1, <2>2, <2>6
      <4> QED
        BY <2>2, <2>3, <4>1
    <3>2. y \in 0 .. N - Six
      BY <1>1, <2>1, <2>2, <3>1, Cells
    <3> QED
      BY <2>1, <3>1, <3>2 DEF WinOrLose
  <2>7. CASE k = 3
    <3>1. <<x + (Six - 1), y + (Six - 1)>> \in Point /\ \A n \in 0 .. Six - 1 : Board[<<x + n, y + n>>] = side
      <4>1. \A n \in 0 .. (Six - 1) : Shift(a, k, n) = <<x + n, y + n>>
        BY <1>2, <2>1, <2>2, <2>7
      <4> QED
        BY <2>2, <2>3, <4>1
    <3>2. x \in 0 .. N - Six /\ y \in 0 .. N - Six
      BY <1>1, <2>1, <2>2, <3>1, Cells
    <3> QED
      BY <3>1, <3>2 DEF WinOrLose
  <2> QED
    BY <2>4, <2>5, <2>6, <2>7 DEF Angle
<1> QED
  BY <1>3, <1>4

\* The end of the game as WinOrLose finds it is a row in the line data the search
\* plays by: no entry is missing for a line with room for a row, and each is read in
\* the order of its places.
THEOREM SixIsSeenHolds == Spec => []SixIsSeen
<1>1. PInv => SixIsSeen
  <2> SUFFICES ASSUME Good, NEW side \in Side
               PROVE  WinOrLose(side) <=> \E id \in LineIDs : HasRow(LineInfo[side][id][0], side)
    BY DEF PInv, SixIsSeen
  <2>1. Board \in [Point -> Stone] /\ frames \in Seq(Call)
    BY DEF Good, Types
  <2>2. 0 \in Wanted(side)
    <3>1. CASE Probing
      <4>1. Last(frames) \in Call
        BY <2>1, <3>1 DEF Probing, Last
      <4>2. Last(frames).which[side] \in 0 .. 7
        BY <4>1 DEF Call
      <4> QED
        BY <3>1, <4>2, ComputedCopied DEF Wanted
    <3>2. CASE ~Probing
      BY <3>2 DEF Wanted, Part
    <3> QED
      BY <3>1, <3>2
  <2>3. \A id \in LineIDs : LineInfo[side][id][0] = Content(Board, id, side)
    BY <2>2, EntryRead
  <2> QED
    BY <2>1, <2>3, LineRows, LoopRows
<1> QED
  BY <1>1, PositionInvariant, PTL
=============================================================================
