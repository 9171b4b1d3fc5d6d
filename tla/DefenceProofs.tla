--------------------------- MODULE DefenceProofs ---------------------------
(***************************************************************************)
(* The number of stones the engine takes a threat to need is the number    *)
(* that it needs, and its answers meet what can be met: for a board of any *)
(* size, a row of any length from three, and any game.                     *)
(*                                                                         *)
(* A threat on the board is a stretch of Six places that holds stones of   *)
(* its side and at most two gaps; its set is the gaps (Way).  The windows  *)
(* of the lines are these stretches (WaysAre, ThreatsAre), and so are, but *)
(* for stretches with gaps on the border only, the rows that               *)
(* AnalyzeLineSegID finds after stones on the gaps (RowsThreat,            *)
(* ThreatRows).  The sum over the lines is what they need together if no   *)
(* place is in the threats of two lines, and never less (SumsUp).          *)
(***************************************************************************)
EXTENDS Defence, PositionProofs, WellFoundedInduction

-----------------------------------------------------------------------------
(* Places that meet sets of places *)

\* A set of one or two elements.
LEMMA CountTwo ==
  ASSUME NEW x, NEW y
  PROVE  /\ IsFiniteSet({x, y}) /\ Cardinality({x, y}) = IF x = y THEN 1 ELSE 2
         /\ \A S : S \subseteq {x, y} => IsFiniteSet(S) /\ Cardinality(S) \in Nat /\ Cardinality(S) <= 2
<1>1. IsFiniteSet({x}) /\ Cardinality({x}) = 1
  BY FS_Singleton
<1>2. {x, y} = {x} \cup {y}
  OBVIOUS
<1>3. IsFiniteSet({x, y}) /\ Cardinality({x, y}) = IF x = y THEN 1 ELSE 2
  BY <1>1, <1>2, FS_AddElement
<1>4. ASSUME NEW S \in SUBSET {x, y} PROVE IsFiniteSet(S) /\ Cardinality(S) \in Nat /\ Cardinality(S) <= 2
  <2>1. IsFiniteSet(S) /\ Cardinality(S) <= Cardinality({x, y})
    BY <1>3, FS_Subset
  <2>2. Cardinality(S) \in Nat
    BY <2>1, FS_CardinalityType
  <2> QED
    BY <1>3, <2>1, <2>2
<1> QED
  BY <1>3, <1>4

\* Pairs are of two elements.
LEMMA PairsAre ==
  ASSUME NEW points, NEW xy
  PROVE  xy \in Pairs(points) <=> \E x, y \in points : x # y /\ xy = {x, y}
<1>1. ASSUME NEW x, NEW y PROVE Cardinality({x, y}) = 2 <=> x # y
  <2>1. Cardinality({x, y}) = IF x = y THEN 1 ELSE 2
    BY CountTwo
  <2> QED
    BY <2>1
<1>2. xy \in Pairs(points) <=> \E x, y \in points : xy = {x, y} /\ Cardinality(xy) = 2
  BY DEF Pairs
<1> QED
  BY <1>1, <1>2

\* Least is the least number of places, whether they are in the sets or not.
LEMMA LeastIs ==
  ASSUME NEW sets
  PROVE  /\ Least(sets) \in 0 .. 3
         /\ Least(sets) = 0 <=> sets = {}
         /\ Least(sets) <= 1 <=> \E x : Meet({x}, sets)
         /\ Least(sets) <= 2 <=> \E x, y : Meet({x, y}, sets)
         /\ Least(sets) = 2 => \E x, y \in UNION sets : x # y /\ Meet({x, y}, sets)
<1> DEFINE points == UNION sets
           One == \E p \in points : Meet({p}, sets)
           Two == \E xy \in Pairs(points) : Meet(xy, sets)
           AnyOne == \E x : Meet({x}, sets)
           AnyTwo == \E x, y : Meet({x, y}, sets)
           Both == \E x, y \in points : x # y /\ Meet({x, y}, sets)
<1>1. Least(sets) = IF sets = {} THEN 0 ELSE IF One THEN 1 ELSE IF Two THEN 2 ELSE 3
  BY DEF Least
<1>2. sets = {} => AnyOne /\ AnyTwo
  BY DEF Meet
<1>3. ASSUME sets # {}, NEW x, Meet({x}, sets) PROVE One
  BY <1>3 DEF Meet
<1>4. Two <=> Both
  <2>1. \A xy : xy \in Pairs(points) <=> \E x, y \in points : x # y /\ xy = {x, y}
    BY PairsAre
  <2>2. ASSUME NEW xy \in Pairs(points), Meet(xy, sets) PROVE Both
    <3>1. PICK x \in points, y \in points : x # y /\ xy = {x, y}
      BY <2>1, <2>2
    <3>2. Meet({x, y}, sets)
      BY <2>2, <3>1
    <3> QED
      BY <3>1, <3>2
  <2>3. ASSUME NEW x \in points, NEW y \in points, x # y, Meet({x, y}, sets) PROVE Two
    BY <2>1, <2>3
  <2> QED
    BY <2>2, <2>3
<1>5. ASSUME sets # {}, NEW x, NEW y, Meet({x, y}, sets) PROVE One \/ Two
  <2>1. CASE x \notin points
    <3>1. Meet({y}, sets)
      BY <1>5, <2>1 DEF Meet
    <3> QED
      BY <1>3, <1>5, <3>1
  <2>2. CASE y \notin points
    <3>1. Meet({x}, sets)
      BY <1>5, <2>2 DEF Meet
    <3> QED
      BY <1>3, <1>5, <3>1
  <2>3. CASE x = y
    <3>1. Meet({x}, sets)
      BY <1>5, <2>3 DEF Meet
    <3> QED
      BY <1>3, <1>5, <3>1
  <2> QED
    BY <1>4, <1>5, <2>1, <2>2, <2>3
<1>6. AnyOne => AnyTwo
  <2>1. ASSUME NEW x, Meet({x}, sets) PROVE Meet({x, x}, sets)
    BY <2>1 DEF Meet
  <2> QED
    BY <2>1
<1>7. sets # {} => (One <=> AnyOne)
  BY <1>3
<1>8. Both => AnyTwo
  OBVIOUS
<1>9. sets # {} /\ AnyTwo => One \/ Two
  BY <1>5
<1> SUFFICES /\ Least(sets) \in 0 .. 3
             /\ Least(sets) = 0 <=> sets = {}
             /\ Least(sets) <= 1 <=> AnyOne
             /\ Least(sets) <= 2 <=> AnyTwo
             /\ Least(sets) = 2 => Both
  OBVIOUS
<1> HIDE DEF One, Two, AnyOne, AnyTwo, Both
<1>10. CASE sets = {}
  BY <1>1, <1>2, <1>10
<1>11. CASE sets # {} /\ One
  BY <1>1, <1>6, <1>7, <1>11
<1>12. CASE sets # {} /\ ~One /\ Two
  BY <1>1, <1>4, <1>7, <1>8, <1>12
<1>13. CASE sets # {} /\ ~One /\ ~Two
  BY <1>1, <1>6, <1>7, <1>9, <1>13
<1> QED
  BY <1>10, <1>11, <1>12, <1>13

\* A set of names is that of a set.
Calls(name, t, s) == \A q : q \in t <=> \E j \in s : q = name[j]

\* The names are different, and name sets for sets.
Renames(name, D, named, sets) ==
  /\ \A i, j \in D : name[i] = name[j] => i = j
  /\ sets \in SUBSET (SUBSET D)
  /\ \A t \in named : \E s \in sets : Calls(name, t, s)
  /\ \A s \in sets : \E t \in named : Calls(name, t, s)

\* The number is the same if the places are called by other names.
LEMMA LeastNamed ==
  ASSUME NEW name, NEW D, NEW named, NEW sets, Renames(name, D, named, sets)
  PROVE  Least(named) = Least(sets)
<1> /\ \A i, j \in D : name[i] = name[j] => i = j
    /\ sets \in SUBSET (SUBSET D)
    /\ \A t \in named : \E s \in sets : Calls(name, t, s)
    /\ \A s \in sets : \E t \in named : Calls(name, t, s)
  BY DEF Renames
<1>1. ASSUME NEW s \in sets, NEW t, Calls(name, t, s)
      PROVE  \A i \in D : name[i] \in t <=> i \in s
  BY <1>1 DEF Calls
<1>2. \A s \in sets : \A t : Calls(name, t, s) => \A x \in t : \E i \in D : x = name[i]
  BY DEF Calls
<1>3. UNION named \subseteq {name[i] : i \in D}
  BY <1>2
<1>4. ASSUME NEW i \in D, NEW j \in D
      PROVE  Meet({i, j}, sets) <=> Meet({name[i], name[j]}, named)
  <2>1. Meet({i, j}, sets) <=> \A s \in sets : i \in s \/ j \in s
    BY DEF Meet
  <2>2. Meet({name[i], name[j]}, named) <=> \A t \in named : name[i] \in t \/ name[j] \in t
    BY DEF Meet
  <2> QED
    BY <1>1, <2>1, <2>2
<1>5. \A x : {x} = {x, x}
  OBVIOUS
<1>6. ASSUME NEW x \in UNION named PROVE \E i \in D : x = name[i]
  BY <1>3
<1>7. UNION sets \subseteq D
  OBVIOUS
<1>8. named = {} <=> sets = {}
  OBVIOUS
<1>9. ASSUME sets # {} PROVE Least(named) <= 1 <=> Least(sets) <= 1
  <2>1. ASSUME NEW x, Meet({x}, named) PROVE \E i \in D : Meet({i}, sets)
    <3>1. x \in UNION named
      BY <1>8, <1>9, <2>1 DEF Meet
    <3>2. PICK i \in D : x = name[i]
      BY <1>6, <3>1
    <3>3. Meet({name[i], name[i]}, named)
      BY <1>5, <2>1, <3>2
    <3>4. Meet({i, i}, sets)
      BY <1>4, <3>3
    <3> QED
      BY <1>5, <3>4
  <2>2. ASSUME NEW x, Meet({x}, sets) PROVE Meet({name[x]}, named)
    <3>1. x \in D
      BY <1>7, <1>9, <2>2 DEF Meet
    <3>2. Meet({x, x}, sets)
      BY <1>5, <2>2
    <3>3. Meet({name[x], name[x]}, named)
      BY <1>4, <3>1, <3>2
    <3> QED
      BY <1>5, <3>3
  <2>3. (\E x : Meet({x}, named)) <=> \E x : Meet({x}, sets)
    BY <2>1, <2>2
  <2> QED
    BY <2>3, LeastIs
<1>10. Least(named) = 2 => Least(sets) <= 2
  <2> SUFFICES ASSUME Least(named) = 2 PROVE Least(sets) <= 2
    OBVIOUS
  <2>1. PICK x \in UNION named, y \in UNION named : Meet({x, y}, named)
    BY LeastIs
  <2>2. PICK i \in D, j \in D : x = name[i] /\ y = name[j]
    BY <1>6
  <2>3. Meet({i, j}, sets)
    BY <1>4, <2>1, <2>2
  <2> QED
    BY <2>3, LeastIs
<1>11. Least(sets) = 2 => Least(named) <= 2
  <2> SUFFICES ASSUME Least(sets) = 2 PROVE Least(named) <= 2
    OBVIOUS
  <2>1. PICK x \in UNION sets, y \in UNION sets : Meet({x, y}, sets)
    BY LeastIs
  <2>2. Meet({name[x], name[y]}, named)
    BY <1>4, <1>7, <2>1
  <2>3. \E u, v : Meet({u, v}, named)
    BY <2>2
  <2> QED
    BY <2>3, LeastIs
<1>12. Least(sets) \in 0 .. 3 /\ Least(named) \in 0 .. 3
       /\ (Least(sets) = 0 <=> sets = {}) /\ (Least(named) = 0 <=> named = {})
  BY LeastIs
<1> QED
  BY <1>8, <1>9, <1>10, <1>11, <1>12

-----------------------------------------------------------------------------
(* Sums *)

\* A set of numbers that is not empty has a least one.
LEMMA LeastNumber ==
  ASSUME NEW S \in SUBSET Nat, S # {}
  PROVE  \E x \in S : \A y \in S : x <= y
<1>1. PICK x \in S : \A y \in S : <<y, x>> \notin OpToRel(<, Nat)
  BY NatLessThanWellFounded, WFMin
<1>2. \A y \in S : ~(y < x)
  BY <1>1 DEF OpToRel
<1> QED
  BY <1>2

\* One element less.
LEMMA OneLess ==
  ASSUME NEW S, IsFiniteSet(S), NEW T \in SUBSET S, NEW a \in T
  PROVE  /\ T \ {a} \in SUBSET S
         /\ Cardinality(T) \in Nat /\ Cardinality(T \ {a}) \in Nat
         /\ Cardinality(T) = Cardinality(T \ {a}) + 1
<1>1. IsFiniteSet(T)
  BY FS_Subset
<1>2. IsFiniteSet(T \ {a}) /\ Cardinality(T \ {a}) = Cardinality(T) - 1
  BY <1>1, FS_RemoveElement
<1>3. Cardinality(T) \in Nat /\ Cardinality(T \ {a}) \in Nat
  BY <1>1, <1>2, FS_CardinalityType
<1> QED
  BY <1>2, <1>3

\* The function SumFunction defines.
Some(s) == CHOOSE x \in s : TRUE
Adds(S, f, g) ==
  g = [s \in SUBSET S |-> IF s = {} THEN 0 ELSE f[CHOOSE x \in s : TRUE] + g[s \ {CHOOSE x \in s : TRUE}]]

\* SumFunction is such a function of the set of all.
LEMMA SumAdds ==
  ASSUME NEW S, NEW f \in [S -> Nat], NEW g, Adds(S, f, g)
  PROVE  \E h : Adds(S, f, h) /\ SumFunction(f) = h[S]
<1> DEFINE h == CHOOSE i : Adds(S, f, i)
<1>1. DOMAIN f = S
  OBVIOUS
<1>2. SumFunction(f)
        = LET iter[s \in SUBSET S] ==
                IF s = {} THEN 0 ELSE LET x == CHOOSE x \in s : TRUE IN f[x] + iter[s \ {x}]
          IN iter[S]
  BY <1>1 DEF SumFunction, SumFunctionOnSet, FoldFunctionOnSet, MapThenFoldSet
<1>3. SumFunction(f) = h[S]
  BY <1>2, Zenon DEF Adds
<1>4. Adds(S, f, h)
  BY Zenon
<1> QED
  BY <1>3, <1>4

\* There is one.
LEMMA CanAdd ==
  ASSUME NEW S, IsFiniteSet(S), NEW f \in [S -> Nat]
  PROVE  \E g : Adds(S, f, g)
<1> DEFINE Step(g, s) == IF s = {} THEN 0 ELSE f[Some(s)] + g[s \ {Some(s)}]
           UpTo(k, g) == /\ g = [s \in SUBSET S |-> g[s]]
                         /\ \A s \in SUBSET S : Cardinality(s) <= k => g[s] = Step(g, s)
           B == {k \in Nat : ~\E g : UpTo(k, g)}
<1>1. ASSUME NEW s \in SUBSET S
      PROVE  /\ Cardinality(s) \in Nat /\ Cardinality(s) <= Cardinality(S) /\ Cardinality(S) \in Nat
             /\ Cardinality(s) = 0 <=> s = {}
  <2>1. IsFiniteSet(s) /\ Cardinality(s) <= Cardinality(S)
    BY FS_Subset
  <2> QED
    BY <2>1, FS_CardinalityType, FS_EmptySet
<1>2. ASSUME B # {} PROVE FALSE
  <2>1. PICK b \in B : \A k \in B : b <= k
    <3>1. B \in SUBSET Nat
      OBVIOUS
    <3> QED
      BY <1>2, <3>1, LeastNumber
  <2>2. b \in Nat /\ ~\E g : UpTo(b, g)
    BY <2>1
  <2>3. CASE b = 0
    <3> DEFINE g == [s \in SUBSET S |-> 0]
    <3>1. g = [s \in SUBSET S |-> g[s]]
      OBVIOUS
    <3>2. \A s \in SUBSET S : Cardinality(s) <= b => g[s] = Step(g, s)
      BY <1>1, <2>3
    <3> QED
      BY <2>2, <3>1, <3>2
  <2>4. CASE b # 0
    <3>1. b - 1 \in Nat /\ ~(b <= b - 1)
      BY <2>2, <2>4
    <3>2. PICK g : UpTo(b - 1, g)
      BY <2>1, <3>1
    <3> DEFINE h == [s \in SUBSET S |-> Step(g, s)]
    <3>3. h = [s \in SUBSET S |-> h[s]]
      OBVIOUS
    <3>4. \A s \in SUBSET S : Cardinality(s) <= b - 1 => h[s] = g[s]
      BY <3>2
    <3>5. ASSUME NEW s \in SUBSET S, Cardinality(s) <= b PROVE h[s] = Step(h, s)
      <4>1. CASE s = {}
        BY <4>1
      <4>2. CASE s # {}
        <5>1. Some(s) \in s
          BY <4>2 DEF Some
        <5>2. s \ {Some(s)} \in SUBSET S /\ Cardinality(s \ {Some(s)}) <= b - 1
          BY <2>2, <3>5, <5>1, OneLess
        <5>3. h[s \ {Some(s)}] = g[s \ {Some(s)}]
          BY <3>4, <5>2
        <5>4. h[s] = f[Some(s)] + g[s \ {Some(s)}]
          BY <4>2
        <5> QED
          BY <4>2, <5>3, <5>4
      <4> QED
        BY <4>1, <4>2
    <3> HIDE DEF h
    <3> QED
      BY <2>2, <3>3, <3>5
  <2> QED
    BY <2>3, <2>4
<1>3. S \in SUBSET S
  OBVIOUS
<1>4. PICK g : UpTo(Cardinality(S), g)
  BY <1>1, <1>2, <1>3
<1>5. \A s \in SUBSET S : g[s] = Step(g, s)
  BY <1>1, <1>4
<1>6. g = [s \in SUBSET S |-> Step(g, s)]
  BY <1>4, <1>5
<1> QED
  BY <1>6 DEF Adds, Some

\* The order does not matter.
LEMMA AnyOrder ==
  ASSUME NEW S, IsFiniteSet(S), NEW f \in [S -> Nat], NEW g, Adds(S, f, g)
  PROVE  /\ g[{}] = 0
         /\ \A T \in SUBSET S :
              /\ g[T] \in Nat
              /\ \A a \in T : g[T] = f[a] + g[T \ {a}]
              /\ g[T] = 0 <=> \A a \in T : f[a] = 0
<1> DEFINE Fine(T) == /\ g[T] \in Nat
                      /\ \A a \in T : g[T] = f[a] + g[T \ {a}]
                      /\ g[T] = 0 <=> \A a \in T : f[a] = 0
           B == {Cardinality(T) : T \in {s \in SUBSET S : ~Fine(s)}}
<1>1. \A T \in SUBSET S : g[T] = IF T = {} THEN 0 ELSE f[Some(T)] + g[T \ {Some(T)}]
  <2> DEFINE h == [s \in SUBSET S |-> IF s = {} THEN 0 ELSE f[Some(s)] + g[s \ {Some(s)}]]
  <2>1. g = h
    BY DEF Adds, Some
  <2>2. \A T \in SUBSET S : h[T] = IF T = {} THEN 0 ELSE f[Some(T)] + g[T \ {Some(T)}]
    OBVIOUS
  <2> HIDE DEF h
  <2> QED
    BY <2>1, <2>2
<1>2. g[{}] = 0
  BY <1>1
<1>3. \A a \in S : f[a] \in Nat
  OBVIOUS
<1>4. ASSUME B # {} PROVE FALSE
  <2>1. B \in SUBSET Nat
    <3> SUFFICES ASSUME NEW T \in SUBSET S PROVE Cardinality(T) \in Nat
      OBVIOUS
    <3> QED
      BY FS_Subset, FS_CardinalityType
  <2>2. PICK b \in B : \A k \in B : b <= k
    BY <1>4, <2>1, LeastNumber
  <2>3. PICK T \in SUBSET S : ~Fine(T) /\ Cardinality(T) = b
    BY <2>2
  <2>4. ASSUME NEW a \in T PROVE Fine(T \ {a})
    <3>1. T \ {a} \in SUBSET S /\ Cardinality(T \ {a}) \in Nat /\ Cardinality(T \ {a}) < b
      BY <2>1, <2>3, OneLess
    <3>2. Cardinality(T \ {a}) \notin B
      BY <2>1, <2>2, <3>1
    <3> QED
      BY <3>1, <3>2
  <2> HIDE DEF B
  <2>5. CASE T = {}
    BY <1>2, <2>3, <2>5
  <2>6. CASE T # {}
    <3> DEFINE c == Some(T)
    <3>1. c \in T /\ g[T] = f[c] + g[T \ {c}]
      BY <1>1, <2>6 DEF Some
    <3> HIDE DEF c
    <3>2. Fine(T \ {c})
      BY <2>4, <3>1
    <3>3. g[T] \in Nat
      BY <1>3, <3>1, <3>2
    <3>4. ASSUME NEW a \in T PROVE g[T] = f[a] + g[T \ {a}]
      <4>1. CASE a = c
        BY <3>1, <4>1
      <4>2. CASE a # c
        <5>1. g[T \ {c}] = f[a] + g[(T \ {c}) \ {a}] /\ g[T \ {a}] = f[c] + g[(T \ {a}) \ {c}]
          BY <2>4, <3>1, <4>2
        <5>2. (T \ {c}) \ {a} = (T \ {a}) \ {c}
          OBVIOUS
        <5>3. (T \ {a}) \ {c} \in SUBSET S /\ f[a] \in Nat /\ f[c] \in Nat
          BY <1>3, <3>1
        <5>4. g[T \ {c}] \in Nat /\ g[T \ {a}] \in Nat
          BY <2>4, <3>1
        <5>5. ASSUME NEW u, g[T \ {c}] = f[a] + u, g[T \ {a}] = f[c] + u, u \in Int
              PROVE  g[T] = f[a] + g[T \ {a}]
          BY <3>1, <5>3, <5>5
        <5>6. g[(T \ {a}) \ {c}] \in Int
          <6>1. T \ {a} \in SUBSET S /\ c \in T \ {a}
            BY <3>1, <4>2
          <6>2. Cardinality((T \ {a}) \ {c}) < b /\ (T \ {a}) \ {c} \in SUBSET S
                /\ Cardinality((T \ {a}) \ {c}) \in Nat /\ b \in Nat
            <7>1. /\ Cardinality(T) \in Nat /\ Cardinality(T \ {a}) \in Nat
                  /\ Cardinality(T) = Cardinality(T \ {a}) + 1
              BY OneLess
            <7>2. /\ (T \ {a}) \ {c} \in SUBSET S /\ Cardinality((T \ {a}) \ {c}) \in Nat
                  /\ Cardinality(T \ {a}) = Cardinality((T \ {a}) \ {c}) + 1
              BY <6>1, OneLess
            <7> QED
              BY <2>3, <7>1, <7>2
          <6>3. Fine((T \ {a}) \ {c})
            <7>1. Cardinality((T \ {a}) \ {c}) \notin B
              BY <2>1, <2>2, <6>2
            <7> QED
              BY <6>2, <7>1 DEF B
          <6> QED
            BY <6>3
        <5> QED
          BY <5>1, <5>2, <5>5, <5>6
      <4> QED
        BY <4>1, <4>2
    <3>5. g[T] = 0 <=> \A a \in T : f[a] = 0
      <4>1. f[c] \in Nat /\ g[T \ {c}] \in Nat /\ (g[T \ {c}] = 0 <=> \A a \in T \ {c} : f[a] = 0)
        BY <1>3, <3>1, <3>2
      <4>2. g[T] = 0 <=> f[c] = 0 /\ g[T \ {c}] = 0
        BY <3>1, <4>1
      <4> QED
        BY <3>1, <4>1, <4>2
    <3> QED
      BY <2>3, <3>3, <3>4, <3>5
  <2> QED
    BY <2>5, <2>6
<1>5. \A T \in SUBSET S : Fine(T)
  BY <1>4
<1> QED
  BY <1>2, <1>5

\* What is known of a sum of numbers from one or two of them.
LEMMA SumIs ==
  ASSUME NEW S, IsFiniteSet(S), NEW f \in [S -> Nat]
  PROVE  /\ SumFunction(f) \in Nat
         /\ SumFunction(f) = 0 <=> \A a \in S : f[a] = 0
         /\ \A a \in S : /\ SumFunction(f) >= f[a]
                         /\ SumFunction(f) = f[a] <=> \A c \in S \ {a} : f[c] = 0
         /\ \A a \in S : \A b \in S \ {a} :
              /\ SumFunction(f) >= f[a] + f[b]
              /\ SumFunction(f) = f[a] + f[b] <=> \A c \in S \ {a, b} : f[c] = 0
<1>1. PICK g : Adds(S, f, g) /\ SumFunction(f) = g[S]
  BY CanAdd, SumAdds
<1>2. /\ g[{}] = 0
      /\ \A T \in SUBSET S :
           /\ g[T] \in Nat
           /\ \A a \in T : g[T] = f[a] + g[T \ {a}]
           /\ g[T] = 0 <=> \A a \in T : f[a] = 0
  BY <1>1, AnyOrder
<1>3. S \in SUBSET S /\ \A a \in S : f[a] \in Nat
  OBVIOUS
<1>4. ASSUME NEW a \in S
      PROVE  /\ g[S] >= f[a]
             /\ g[S] = f[a] <=> \A c \in S \ {a} : f[c] = 0
  <2>1. g[S] = f[a] + g[S \ {a}] /\ g[S \ {a}] \in Nat
        /\ (g[S \ {a}] = 0 <=> \A c \in S \ {a} : f[c] = 0)
    BY <1>2
  <2>2. g[S] >= f[a] /\ (g[S] = f[a] <=> g[S \ {a}] = 0)
    BY <1>3, <2>1
  <2> QED
    BY <2>1, <2>2
<1>5. ASSUME NEW a \in S, NEW b \in S \ {a}
      PROVE  /\ g[S] >= f[a] + f[b]
             /\ g[S] = f[a] + f[b] <=> \A c \in S \ {a, b} : f[c] = 0
  <2>1. g[S] = f[a] + g[S \ {a}] /\ g[S \ {a}] = f[b] + g[(S \ {a}) \ {b}]
    BY <1>2
  <2>2. (S \ {a}) \ {b} = S \ {a, b} /\ S \ {a, b} \in SUBSET S
    OBVIOUS
  <2>3. g[S \ {a, b}] \in Nat /\ (g[S \ {a, b}] = 0 <=> \A c \in S \ {a, b} : f[c] = 0)
    BY <1>2, <2>2
  <2>4. g[S] = f[a] + (f[b] + g[S \ {a, b}]) /\ f[a] \in Nat /\ f[b] \in Nat
    BY <1>3, <2>1, <2>2
  <2>5. g[S] >= f[a] + f[b] /\ (g[S] = f[a] + f[b] <=> g[S \ {a, b}] = 0)
    BY <2>3, <2>4
  <2> QED
    BY <2>3, <2>5
<1>6. g[S] \in Nat /\ (g[S] = 0 <=> \A a \in S : f[a] = 0)
  BY <1>2, <1>3
<1> QED
  BY <1>1, <1>4, <1>5, <1>6

-----------------------------------------------------------------------------
(* Threats on the board *)

\* The places of a stretch.
Stretch(a, k) == {Shift(a, k, n) : n \in 0 .. (Six - 1)}

\* A stretch where a side could make a row of two stones at most, and its gaps.
Way(board, a, k, side, X) ==
  /\ Fits(a, k)
  /\ X = {q \in Stretch(a, k) : board[q] = EMPTY}
  /\ \A q \in Stretch(a, k) : board[q] \in {side, EMPTY}
  /\ \E x, y : X \subseteq {x, y}

\* What Threats has of a line.
WaysOf(board, id, side) ==
  {{PointsOf[id][j] : j \in s} : s \in ThreatSets([i \in DOMAIN PointsOf[id] |-> board[PointsOf[id][i]]], side)}

\* No place is on a line twice.
LEMMA PointsOnce ==
  ASSUME NEW id \in LineIDs
  PROVE  \A i, j \in DOMAIN PointsOf[id] : PointsOf[id][i] = PointsOf[id][j] => i = j
<1> DEFINE S == {p \in Point : id \in Cross[p]}
<1>1. S \in SUBSET Point /\ S \in SUBSET Pair
  BY Cells
<1>2. IsFiniteSet(S)
  BY <1>1, PointsFinite, FS_Subset
<1>3. PointsOf[id] = InOrder(S)
  BY DEF PointsOf
<1> HIDE DEF S
<1>4. /\ InOrder(S) \in Seq(S) /\ Len(InOrder(S)) = Cardinality(S)
      /\ \A i, j \in 1 .. Cardinality(S) : InOrder(S)[i] = InOrder(S)[j] => i = j
  BY <1>1, <1>2, InOrderElements
<1>5. DOMAIN InOrder(S) = 1 .. Cardinality(S)
  BY <1>4
<1> QED
  BY <1>3, <1>4, <1>5

\* Nothing is counted where there is nothing.
LEMMA CountNone ==
  ASSUME NEW seq, NEW x, DOMAIN seq = 1 .. Six
  PROVE  Count(seq, x) = 0 <=> \A j \in 1 .. Six : seq[j] # x
<1> DEFINE S == {j \in 1 .. Six : seq[j] = x}
<1>1. Six \in Nat /\ IsFiniteSet(1 .. Six)
  BY BoardAssumption, FS_Interval
<1>2. Count(seq, x) = Cardinality(S) /\ S \in SUBSET (1 .. Six)
  BY DEF Count
<1>3. IsFiniteSet(S)
  BY <1>1, <1>2, FS_Subset
<1>4. Cardinality(S) = 0 <=> S = {}
  BY <1>3, FS_EmptySet
<1> QED
  BY <1>2, <1>4

\* A set of at most two elements.
LEMMA AtMostTwo ==
  ASSUME NEW B, IsFiniteSet(B), Cardinality(B) <= 2
  PROVE  \E x, y : B \subseteq {x, y}
<1>1. Cardinality(B) \in Nat
  BY FS_CardinalityType
<1>2. CASE B = {}
  BY <1>2
<1>3. ASSUME NEW x \in B PROVE \E y : B \subseteq {x, y}
  <2>1. IsFiniteSet(B \ {x}) /\ Cardinality(B \ {x}) = Cardinality(B) - 1
    BY FS_RemoveElement
  <2>2. Cardinality(B \ {x}) \in Nat
    BY <2>1, FS_CardinalityType
  <2>3. CASE B \ {x} = {}
    BY <2>3
  <2>4. ASSUME NEW y \in B \ {x} PROVE B \subseteq {x, y}
    <3>1. IsFiniteSet((B \ {x}) \ {y}) /\ Cardinality((B \ {x}) \ {y}) = Cardinality(B \ {x}) - 1
      BY <2>1, FS_RemoveElement
    <3>2. Cardinality((B \ {x}) \ {y}) \in Nat
      BY <3>1, FS_CardinalityType
    <3>3. Cardinality((B \ {x}) \ {y}) = 0
      BY <1>1, <2>1, <2>2, <3>1, <3>2
    <3>4. (B \ {x}) \ {y} = {}
      BY <3>1, <3>3, FS_EmptySet
    <3> QED
      BY <3>4
  <2> QED
    BY <2>3, <2>4
<1> QED
  BY <1>2, <1>3

\* A window without stones of the other side lacks at most two of a row.
LEMMA GapsFew ==
  ASSUME NEW w \in [1 .. Six -> Stone], NEW side \in Side, Count(w, NEXT(side)) = 0
  PROVE  Count(w, side) >= Six - 2 <=> \E m, n : \A j \in 1 .. Six : w[j] = EMPTY => j \in {m, n}
<1> DEFINE A == {j \in 1 .. Six : w[j] = side}
           B == {j \in 1 .. Six : w[j] = EMPTY}
<1>1. Six \in Nat /\ IsFiniteSet(1 .. Six) /\ Cardinality(1 .. Six) = Six
  BY BoardAssumption, FS_Interval
<1>2. A \in SUBSET (1 .. Six) /\ B \in SUBSET (1 .. Six)
  OBVIOUS
<1>3. IsFiniteSet(A) /\ IsFiniteSet(B)
  BY <1>1, <1>2, FS_Subset
<1>4. Count(w, side) = Cardinality(A)
  BY DEF Count
<1>5. \A j \in 1 .. Six : w[j] # NEXT(side)
  BY CountNone
<1>6. side # EMPTY /\ Stone = {side, NEXT(side), EMPTY}
  BY BoardAssumption DEF Stone, Side, NEXT
<1>7. A \cup B = 1 .. Six /\ A \cap B = {}
  BY <1>5, <1>6
<1> HIDE DEF A, B
<1>8. Cardinality(A \cup B) = Cardinality(A) + Cardinality(B)
  <2>1. Cardinality(A \cup B) = Cardinality(A) + Cardinality(B) - Cardinality(A \cap B)
    BY <1>3, FS_Union
  <2>2. Cardinality(A \cap B) = 0
    BY <1>7, FS_EmptySet
  <2>3. Cardinality(A) \in Nat /\ Cardinality(B) \in Nat
    BY <1>3, FS_CardinalityType
  <2> QED
    BY <2>1, <2>2, <2>3
<1>9. Cardinality(A) \in Nat /\ Cardinality(B) \in Nat
  BY <1>3, FS_CardinalityType
<1>10. Count(w, side) >= Six - 2 <=> Cardinality(B) <= 2
  <2>1. Cardinality(A) + Cardinality(B) = Six
    BY <1>1, <1>7, <1>8
  <2> QED
    BY <1>1, <1>4, <1>9, <2>1
<1>11. Cardinality(B) <= 2 <=> \E m, n : B \subseteq {m, n}
  BY <1>3, AtMostTwo, CountTwo
<1>12. (\E m, n : B \subseteq {m, n}) <=> \E m, n : \A j \in 1 .. Six : w[j] = EMPTY => j \in {m, n}
  BY DEF B
<1> QED
  BY <1>10, <1>11, <1>12

\* What a window of a line lacks are the gaps of its stretch.
LEMMA WindowWay ==
  ASSUME NEW board \in [Point -> Stone], NEW id \in LineIDs, NEW side \in Side,
         NEW i \in 1 .. Len(PointsOf[id]) - Six + 1, NEW a \in Point, NEW k \in Angle, Fits(a, k),
         \A n \in 0 .. (Six - 1) : i + n \in DOMAIN PointsOf[id] /\ PointsOf[id][i + n] = Shift(a, k, n)
  PROVE  LET read == [j \in DOMAIN PointsOf[id] |-> board[PointsOf[id][j]]]
             X    == {PointsOf[id][j] : j \in {m \in i .. i + Six - 1 : read[m] = EMPTY}}
         IN /\ X = {q \in Stretch(a, k) : board[q] = EMPTY}
            /\ /\ Count(Window(read, i), NEXT(side)) = 0
               /\ Count(Window(read, i), side) >= Six - 2
               <=> Way(board, a, k, side, X)
<1> DEFINE list == PointsOf[id]
           read == [j \in DOMAIN list |-> board[list[j]]]
           w == Window(read, i)
           X == {list[j] : j \in {m \in i .. i + Six - 1 : read[m] = EMPTY}}
<1>1. Six \in Nat /\ 1 < Six
  BY BoardAssumption
<1>2. list \in Seq(Point) /\ i \in 1 .. Len(list) - Six + 1
  BY PointsTyped
<1>3. \A m, j \in DOMAIN list : list[m] = list[j] => m = j
  BY PointsOnce
<1>4. \A n \in 0 .. (Six - 1) : i + n \in DOMAIN list /\ list[i + n] = Shift(a, k, n)
  OBVIOUS
<1> HIDE DEF list
<1>5. Len(list) \in Nat /\ DOMAIN list = 1 .. Len(list) /\ i \in Nat
  BY <1>2
<1>6. read \in Seq(Stone) /\ Len(read) = Len(list) /\ \A j \in DOMAIN list : read[j] = board[list[j]]
  BY <1>2, <1>5
<1>7. w \in [1 .. Six -> Stone] /\ \A j \in 1 .. Six : w[j] = read[i + j - 1]
  <2>1. w = SubSeq(read, i, i + Six - 1)
    BY DEF Window
  <2> HIDE DEF read, w
  <2>2. i + Six - 1 <= Len(read) /\ i + Six - 1 \in Nat /\ (i + Six - 1) - i + 1 = Six
    BY <1>1, <1>2, <1>5, <1>6
  <2>3. w \in Seq(Stone) /\ Len(w) = Six /\ \A j \in 1 .. Six : w[j] = read[i + j - 1]
    BY <1>1, <1>5, <1>6, <2>1, <2>2
  <2> QED
    BY <2>3
<1> HIDE DEF w, read
<1>8. ASSUME NEW j \in 1 .. Six
      PROVE  j - 1 \in 0 .. (Six - 1) /\ w[j] = board[Shift(a, k, j - 1)]
  <2>1. j - 1 \in 0 .. (Six - 1) /\ i + (j - 1) = i + j - 1
    BY <1>1, <1>5
  <2> QED
    BY <1>4, <1>6, <1>7, <2>1
<1>9. ASSUME NEW n \in 0 .. (Six - 1)
      PROVE  n + 1 \in 1 .. Six /\ w[n + 1] = board[Shift(a, k, n)]
  <2>1. n + 1 \in 1 .. Six /\ (n + 1) - 1 = n
    BY <1>1
  <2> QED
    BY <1>8, <2>1
<1>10. X = {q \in Stretch(a, k) : board[q] = EMPTY}
  <2>1. ASSUME NEW q \in X PROVE q \in Stretch(a, k) /\ board[q] = EMPTY
    <3>1. PICK m \in i .. i + Six - 1 : read[m] = EMPTY /\ q = list[m]
      OBVIOUS
    <3>2. m - i \in 0 .. (Six - 1) /\ i + (m - i) = m
      BY <1>1, <1>5
    <3> QED
      BY <1>4, <1>6, <3>1, <3>2 DEF Stretch
  <2>2. ASSUME NEW q \in Stretch(a, k), board[q] = EMPTY PROVE q \in X
    <3>1. PICK n \in 0 .. (Six - 1) : q = Shift(a, k, n)
      BY DEF Stretch
    <3>2. i + n \in i .. i + Six - 1 /\ list[i + n] = q /\ read[i + n] = EMPTY
      BY <1>1, <1>4, <1>5, <1>6, <2>2, <3>1
    <3> QED
      BY <3>2
  <2> QED
    BY <2>1, <2>2
<1> HIDE DEF X
<1>11. NEXT(side) # EMPTY /\ side # EMPTY /\ side # NEXT(side) /\ Stone = {side, NEXT(side), EMPTY}
  BY BoardAssumption DEF Stone, Side, NEXT
<1>12. Count(w, NEXT(side)) = 0 <=> \A q \in Stretch(a, k) : board[q] \in {side, EMPTY}
  <2>1. Count(w, NEXT(side)) = 0 <=> \A j \in 1 .. Six : w[j] # NEXT(side)
    BY <1>7, CountNone
  <2>2. (\A j \in 1 .. Six : w[j] # NEXT(side)) <=> \A n \in 0 .. (Six - 1) : board[Shift(a, k, n)] # NEXT(side)
    BY <1>8, <1>9
  <2>3. \A n \in 0 .. (Six - 1) : board[Shift(a, k, n)] \in Stone
    BY DEF Fits
  <2>4. \A n \in 0 .. (Six - 1) : board[Shift(a, k, n)] # NEXT(side) <=> board[Shift(a, k, n)] \in {side, EMPTY}
    BY <1>11, <2>3
  <2> QED
    BY <2>1, <2>2, <2>4 DEF Stretch
<1>13. ASSUME Count(w, NEXT(side)) = 0
       PROVE  Count(w, side) >= Six - 2 <=> \E x, y : X \subseteq {x, y}
  <2>1. Count(w, side) >= Six - 2 <=> \E m, n : \A j \in 1 .. Six : w[j] = EMPTY => j \in {m, n}
    BY <1>7, <1>13, GapsFew
  <2>2. ASSUME NEW m, NEW n, \A j \in 1 .. Six : w[j] = EMPTY => j \in {m, n}
        PROVE  \E x, y : X \subseteq {x, y}
    <3>1. X \subseteq {Shift(a, k, m - 1), Shift(a, k, n - 1)}
      <4> SUFFICES ASSUME NEW q \in X PROVE q \in {Shift(a, k, m - 1), Shift(a, k, n - 1)}
        OBVIOUS
      <4>1. PICK r \in 0 .. (Six - 1) : q = Shift(a, k, r) /\ board[q] = EMPTY
        BY <1>10 DEF Stretch
      <4>2. r + 1 \in {m, n} /\ (r + 1) - 1 = r
        BY <1>9, <2>2, <4>1
      <4> QED
        BY <4>1, <4>2
    <3> QED
      BY <3>1
  <2>3. ASSUME NEW x, NEW y, X \subseteq {x, y}
        PROVE  \E m, n : \A j \in 1 .. Six : w[j] = EMPTY => j \in {m, n}
    <3> DEFINE At(z) == CHOOSE j \in 1 .. Six : Shift(a, k, j - 1) = z
    <3>1. ASSUME NEW j \in 1 .. Six, w[j] = EMPTY PROVE Shift(a, k, j - 1) \in {x, y}
      BY <1>8, <1>10, <2>3, <3>1 DEF Stretch
    <3>2. ASSUME NEW j \in 1 .. Six PROVE At(Shift(a, k, j - 1)) = j
      <4>1. \A h \in 1 .. Six : Shift(a, k, h - 1) = list[i + (h - 1)] /\ i + (h - 1) \in DOMAIN list /\ h \in Int
        BY <1>4, <1>8
      <4>2. ASSUME NEW h \in 1 .. Six, Shift(a, k, h - 1) = Shift(a, k, j - 1) PROVE h = j
        <5>1. i + (h - 1) = i + (j - 1)
          BY <1>3, <4>1, <4>2
        <5> QED
          BY <1>5, <4>1, <5>1
      <4> QED
        BY <4>2
    <3> HIDE DEF At
    <3>3. \A j \in 1 .. Six : w[j] = EMPTY => j \in {At(x), At(y)}
      BY <3>1, <3>2
    <3> QED
      BY <3>3
  <2> QED
    BY <2>1, <2>2, <2>3
<1>14. Way(board, a, k, side, X) <=> /\ \A q \in Stretch(a, k) : board[q] \in {side, EMPTY}
                                     /\ \E x, y : X \subseteq {x, y}
  BY <1>10 DEF Way
<1>15. Count(w, NEXT(side)) = 0 /\ Count(w, side) >= Six - 2 <=> Way(board, a, k, side, X)
  BY <1>12, <1>13, <1>14
<1> QED
  BY <1>10, <1>15 DEF X, w, read, list

\* The threats on a line.
LEMMA WaysAre ==
  ASSUME NEW board \in [Point -> Stone], NEW id \in LineIDs, NEW side \in Side, NEW X
  PROVE  X \in WaysOf(board, id, side)
           <=> \E a \in Point, k \in Angle : LineID(a, k) = id /\ Way(board, a, k, side, X)
<1> DEFINE list == PointsOf[id]
           read == [j \in DOMAIN list |-> board[list[j]]]
           Gap(i) == {j \in i .. i + Six - 1 : read[j] = EMPTY}
           Named(i) == {list[j] : j \in Gap(i)}
           Wants(i) == Count(Window(read, i), NEXT(side)) = 0 /\ Count(Window(read, i), side) >= Six - 2
<1>1. Len(read) = Len(list)
  BY PointsTyped
<1>2. X \in WaysOf(board, id, side) <=> \E i \in 1 .. Len(list) - Six + 1 : Wants(i) /\ X = Named(i)
  <2>1. ThreatSets(read, side) = {Gap(i) : i \in {w \in 1 .. Len(list) - Six + 1 : Wants(w)}}
    BY <1>1 DEF ThreatSets
  <2>2. WaysOf(board, id, side) = {{list[j] : j \in s} : s \in ThreatSets(read, side)}
    BY DEF WaysOf
  <2> HIDE DEF list, read, Wants
  <2> QED
    BY <2>1, <2>2
<1>3. ASSUME NEW i \in 1 .. Len(list) - Six + 1, NEW a \in Point, NEW k \in Angle, Fits(a, k),
             \A n \in 0 .. (Six - 1) : i + n \in DOMAIN list /\ list[i + n] = Shift(a, k, n)
      PROVE  Named(i) = {q \in Stretch(a, k) : board[q] = EMPTY} /\ (Wants(i) <=> Way(board, a, k, side, Named(i)))
  BY <1>3, WindowWay
<1>4. ASSUME NEW i \in 1 .. Len(list) - Six + 1
      PROVE  \E a \in Point, k \in Angle :
               /\ Fits(a, k) /\ LineID(a, k) = id
               /\ \A n \in 0 .. (Six - 1) : i + n \in DOMAIN list /\ list[i + n] = Shift(a, k, n)
  BY WindowStretch
<1>5. ASSUME NEW a \in Point, NEW k \in Angle, Fits(a, k), LineID(a, k) = id
      PROVE  \E i \in 1 .. Len(list) - Six + 1 : \A n \in 0 .. (Six - 1) :
               i + n \in DOMAIN list /\ list[i + n] = Shift(a, k, n)
  BY <1>5, StretchWindow
<1> HIDE DEF list, read, Named, Wants
<1>6. ASSUME NEW i \in 1 .. Len(list) - Six + 1, Wants(i), X = Named(i)
      PROVE  \E a \in Point, k \in Angle : LineID(a, k) = id /\ Way(board, a, k, side, X)
  <2>1. PICK a \in Point, k \in Angle :
               /\ Fits(a, k) /\ LineID(a, k) = id
               /\ \A n \in 0 .. (Six - 1) : i + n \in DOMAIN list /\ list[i + n] = Shift(a, k, n)
    BY <1>4
  <2> QED
    BY <1>3, <1>6, <2>1
<1>7. ASSUME NEW a \in Point, NEW k \in Angle, LineID(a, k) = id, Way(board, a, k, side, X)
      PROVE  \E i \in 1 .. Len(list) - Six + 1 : Wants(i) /\ X = Named(i)
  <2>1. Fits(a, k) /\ X = {q \in Stretch(a, k) : board[q] = EMPTY}
    BY <1>7 DEF Way
  <2>2. PICK i \in 1 .. Len(list) - Six + 1 : \A n \in 0 .. (Six - 1) :
               i + n \in DOMAIN list /\ list[i + n] = Shift(a, k, n)
    BY <1>5, <1>7, <2>1
  <2>3. X = Named(i) /\ (Wants(i) <=> Way(board, a, k, side, Named(i)))
    BY <1>3, <2>1, <2>2
  <2> QED
    BY <1>7, <2>3
<1> QED
  BY <1>2, <1>6, <1>7

\* All threats of a board.
LEMMA ThreatsAre ==
  ASSUME Board \in [Point -> Stone], NEW side \in Side, NEW X
  PROVE  /\ X \in Threats(side) <=> \E id \in LineIDs : X \in WaysOf(Board, id, side)
         /\ X \in Threats(side) <=> \E a \in Point, k \in Angle : Way(Board, a, k, side, X)
<1>1. X \in Threats(side) <=> \E id \in LineIDs : X \in WaysOf(Board, id, side)
  <2>1. Threats(side) = UNION {WaysOf(Board, id, side) : id \in LineIDs}
    BY DEF Threats, WaysOf
  <2> QED
    BY <2>1
<1>2. ASSUME NEW a \in Point, NEW k \in Angle, Way(Board, a, k, side, X)
      PROVE  \E id \in LineIDs : X \in WaysOf(Board, id, side)
  <2>1. LineID(a, k) \in LineIDs
    BY <1>2, StretchWindow DEF Way
  <2> QED
    BY <1>2, <2>1, WaysAre
<1> QED
  BY <1>1, <1>2, WaysAre

-----------------------------------------------------------------------------
(* AnalyzeLineSegID *)

\* What ends the walk back from a place.
Stops(board, p, k, side, i) == board[Shift(p, k, -i)] = NEXT(side) \/ Border(Shift(p, k, -i))
BackOf(board, p, k, side) == CHOOSE i \in 0 .. N - 1 :
  /\ board[Shift(p, k, -i)] = NEXT(side) \/ Border(Shift(p, k, -i))
  /\ \A j \in 0 .. i - 1 : board[Shift(p, k, -j)] # NEXT(side) /\ ~Border(Shift(p, k, -j))

\* Between two places of the board on a line are places of the board.
LEMMA Between ==
  ASSUME NEW p \in Point, NEW k \in Angle, NEW b \in Nat, Shift(p, k, -b) \in Point, NEW j \in 0 .. b
  PROVE  Shift(p, k, -j) \in Point
<1>1. p \in Pair /\ p[1] \in 0 .. (N - 1) /\ p[2] \in 0 .. (N - 1) /\ N \in Nat
      /\ -b \in Int /\ -j \in Int /\ j \in Nat /\ j <= b
  BY BoardAssumption DEF Point, Pair
<1>2. /\ Shift(p, 0, -b) = <<p[1] + -b, p[2]>> /\ Shift(p, 0, -j) = <<p[1] + -j, p[2]>>
      /\ Shift(p, 1, -b) = <<p[1] + -b, p[2] - (-b)>> /\ Shift(p, 1, -j) = <<p[1] + -j, p[2] - (-j)>>
      /\ Shift(p, 2, -b) = <<p[1], p[2] + -b>> /\ Shift(p, 2, -j) = <<p[1], p[2] + -j>>
      /\ Shift(p, 3, -b) = <<p[1] + -b, p[2] + -b>> /\ Shift(p, 3, -j) = <<p[1] + -j, p[2] + -j>>
  BY <1>1, Shifts
<1>3. \A x, y \in Int : <<x, y>> \in Point <=> x \in 0 .. (N - 1) /\ y \in 0 .. (N - 1)
  BY Cells
<1>4. CASE k = 0
  <2>1. p[1] + -b \in 0 .. (N - 1)
    BY <1>1, <1>2, <1>3, <1>4
  <2>2. p[1] + -j \in 0 .. (N - 1)
    BY <1>1, <2>1
  <2> QED
    BY <1>1, <1>2, <1>3, <1>4, <2>2
<1>5. CASE k = 1
  <2>1. p[1] + -b \in 0 .. (N - 1) /\ p[2] - (-b) \in 0 .. (N - 1)
    BY <1>1, <1>2, <1>3, <1>5
  <2>2. p[1] + -j \in 0 .. (N - 1) /\ p[2] - (-j) \in 0 .. (N - 1)
    BY <1>1, <2>1
  <2> QED
    BY <1>1, <1>2, <1>3, <1>5, <2>2
<1>6. CASE k = 2
  <2>1. p[2] + -b \in 0 .. (N - 1)
    BY <1>1, <1>2, <1>3, <1>6
  <2>2. p[2] + -j \in 0 .. (N - 1)
    BY <1>1, <2>1
  <2> QED
    BY <1>1, <1>2, <1>3, <1>6, <2>2
<1>7. CASE k = 3
  <2>1. p[1] + -b \in 0 .. (N - 1) /\ p[2] + -b \in 0 .. (N - 1)
    BY <1>1, <1>2, <1>3, <1>7
  <2>2. p[1] + -j \in 0 .. (N - 1) /\ p[2] + -j \in 0 .. (N - 1)
    BY <1>1, <2>1
  <2> QED
    BY <1>1, <1>2, <1>3, <1>7, <2>2
<1> QED
  BY <1>4, <1>5, <1>6, <1>7 DEF Angle

\* The walk back ends on the board.
LEMMA BackIs ==
  ASSUME NEW board, NEW p \in Point, NEW k \in Angle, NEW side
  PROVE  LET b == BackOf(board, p, k, side)
         IN /\ b \in 0 .. (N - 1) /\ Stops(board, p, k, side, b)
            /\ \A j \in 0 .. (b - 1) : ~Stops(board, p, k, side, j)
            /\ \A j \in 0 .. b : Shift(p, k, -j) \in Point
<1> DEFINE S == {i \in 0 .. N - 1 : Stops(board, p, k, side, i)}
<1>1. N \in Nat /\ 1 < N
  BY BoardAssumption
<1>2. PICK e \in 0 .. (N - 1) : Start(p, k) = Shift(p, k, -e)
  BY StartIs
<1>3. Start(p, k) \in Point /\ Shift(Start(p, k), k, -1) \notin Point
  BY StartIs
<1>4. Border(Shift(p, k, -e))
  <2>1. \/ Start(p, k)[1] \in {0, N - 1}
        \/ Start(p, k)[2] \in {0, N - 1}
    BY <1>3, OnBorder DEF Angle
  <2> QED
    BY <1>2, <2>1 DEF Border
<1>5. e \in S
  BY <1>2, <1>4 DEF Stops
<1>6. PICK i \in S : \A j \in S : i <= j
  <2>1. S \in SUBSET Nat
    OBVIOUS
  <2> HIDE DEF S
  <2> QED
    BY <1>5, <2>1, LeastNumber
<1>7. /\ i \in 0 .. N - 1 /\ Stops(board, p, k, side, i)
      /\ \A j \in 0 .. i - 1 : ~Stops(board, p, k, side, j)
  <2>1. i \in 0 .. N - 1 /\ Stops(board, p, k, side, i)
    BY <1>6
  <2>2. ASSUME NEW j \in 0 .. i - 1, Stops(board, p, k, side, j) PROVE FALSE
    <3>1. j \in 0 .. N - 1 /\ ~(i <= j)
      BY <1>1, <2>1
    <3> QED
      BY <1>6, <2>2, <3>1
  <2> QED
    BY <2>1, <2>2
<1> DEFINE b == BackOf(board, p, k, side)
<1>8. /\ b \in 0 .. N - 1 /\ Stops(board, p, k, side, b)
      /\ \A j \in 0 .. b - 1 : ~Stops(board, p, k, side, j)
  BY <1>7 DEF BackOf, Stops
<1> HIDE DEF b
<1>9. b <= e
  <2> SUFFICES ASSUME e < b PROVE FALSE
    BY <1>2, <1>8
  <2>1. e \in 0 .. b - 1
    BY <1>2, <1>8
  <2> QED
    BY <1>5, <1>8, <2>1
<1>10. ASSUME NEW j \in 0 .. b PROVE Shift(p, k, -j) \in Point
  <2>1. e \in Nat /\ j \in 0 .. e /\ Shift(p, k, -e) \in Point
    BY <1>2, <1>3, <1>8, <1>9
  <2> QED
    BY <2>1, Between
<1> QED
  BY <1>8, <1>10 DEF b

\* What SegHasRow goes through.
FromOf(board, p, k, side) ==
  IF board[Shift(p, k, -BackOf(board, p, k, side))] = NEXT(side)
  THEN 1 - BackOf(board, p, k, side) ELSE -BackOf(board, p, k, side)
SegOf(board, p, k, side) ==
  {i \in FromOf(board, p, k, side) .. N : \A j \in FromOf(board, p, k, side) .. i :
     Shift(p, k, j) \in Point /\ board[Shift(p, k, j)] # NEXT(side)}

\* In these words.
LEMMA SegIs ==
  ASSUME NEW board, NEW p, NEW k, NEW side
  PROVE  SegHasRow(board, p, k, side)
           <=> \E i \in SegOf(board, p, k, side) : \A j \in i .. i + Six - 1 :
                 j \in SegOf(board, p, k, side) /\ board[Shift(p, k, j)] = side
BY DEF SegHasRow, SegOf, FromOf, BackOf

\* A row that AnalyzeLineSegID finds is on the board.
LEMMA SegSound ==
  ASSUME NEW board, NEW p \in Point, NEW k \in Angle, NEW side, SegHasRow(board, p, k, side)
  PROVE  \E a \in Point : RowAt(board, a, k, side)
<1> DEFINE seg == SegOf(board, p, k, side)
           from == FromOf(board, p, k, side)
<1>1. N \in Nat /\ Six \in Nat /\ 1 < Six /\ p \in Pair
  BY BoardAssumption, Cells
<1>2. from \in Int
  <2>1. BackOf(board, p, k, side) \in 0 .. (N - 1)
    BY BackIs
  <2> QED
    BY <1>1, <2>1 DEF FromOf
<1>3. PICK i \in seg : \A j \in i .. i + Six - 1 : j \in seg /\ board[Shift(p, k, j)] = side
  BY SegIs
<1>4. \A j \in seg : j \in Int /\ Shift(p, k, j) \in Point
  <2> SUFFICES ASSUME NEW j \in seg PROVE j \in Int /\ Shift(p, k, j) \in Point
    OBVIOUS
  <2>1. j \in from .. N /\ \A h \in from .. j : Shift(p, k, h) \in Point
    BY DEF SegOf
  <2> HIDE DEF from
  <2>2. j \in from .. j /\ j \in Int
    BY <1>1, <1>2, <2>1
  <2> QED
    BY <2>1, <2>2
<1> HIDE DEF seg, from
<1>5. i \in Int /\ Shift(p, k, i) \in Point
  BY <1>4
<1>6. ASSUME NEW n \in 0 .. (Six - 1)
      PROVE  Shift(Shift(p, k, i), k, n) \in Point /\ board[Shift(Shift(p, k, i), k, n)] = side
  <2>1. i + n \in i .. i + Six - 1 /\ n \in Int
    BY <1>1, <1>5
  <2>2. Shift(Shift(p, k, i), k, n) = Shift(p, k, i + n)
    BY <1>1, <1>5, <2>1, ShiftShift
  <2> QED
    BY <1>3, <1>4, <2>1, <2>2
<1> QED
  BY <1>5, <1>6 DEF RowAt

\* Who has places on both sides and is on the border is on a line along it.
LEMMA AlongBorder ==
  ASSUME NEW q \in Point, NEW k \in Angle, Border(q),
         Shift(q, k, -1) \in Point, Shift(q, k, 1) \in Point, NEW i \in Int
  PROVE  Border(Shift(q, k, i))
<1>1. q \in Pair /\ q[1] \in 0 .. (N - 1) /\ q[2] \in 0 .. (N - 1) /\ N \in Nat
  BY BoardAssumption DEF Point, Pair
<1>2. /\ Shift(q, 0, -1) = <<q[1] - 1, q[2]>> /\ Shift(q, 1, -1) = <<q[1] - 1, q[2] + 1>>
      /\ Shift(q, 2, -1) = <<q[1], q[2] - 1>> /\ Shift(q, 3, -1) = <<q[1] - 1, q[2] - 1>>
  BY <1>1, ShiftBack
<1>3. /\ Shift(q, 0, 1) = <<q[1] + 1, q[2]>> /\ Shift(q, 1, 1) = <<q[1] + 1, q[2] - 1>>
      /\ Shift(q, 2, 1) = <<q[1], q[2] + 1>> /\ Shift(q, 3, 1) = <<q[1] + 1, q[2] + 1>>
  BY <1>1, Shifts
<1>4. Shift(q, 0, i) = <<q[1] + i, q[2]>> /\ Shift(q, 2, i) = <<q[1], q[2] + i>>
  BY <1>1, Shifts
<1>5. \A x, y \in Int : <<x, y>> \in Point <=> x \in 0 .. (N - 1) /\ y \in 0 .. (N - 1)
  BY Cells
<1>6. q[1] \in {0, N - 1} \/ q[2] \in {0, N - 1}
  BY DEF Border
<1>7. CASE k = 0
  <2>1. q[1] - 1 \in 0 .. (N - 1) /\ q[1] + 1 \in 0 .. (N - 1)
    BY <1>1, <1>2, <1>3, <1>5, <1>7
  <2>2. q[2] \in {0, N - 1}
    BY <1>1, <1>6, <2>1
  <2> QED
    BY <1>4, <1>7, <2>2 DEF Border
<1>8. CASE k = 2
  <2>1. q[2] - 1 \in 0 .. (N - 1) /\ q[2] + 1 \in 0 .. (N - 1)
    BY <1>1, <1>2, <1>3, <1>5, <1>8
  <2>2. q[1] \in {0, N - 1}
    BY <1>1, <1>6, <2>1
  <2> QED
    BY <1>4, <1>8, <2>2 DEF Border
<1>9. CASE k = 1
  <2>1. /\ q[1] - 1 \in 0 .. (N - 1) /\ q[1] + 1 \in 0 .. (N - 1)
        /\ q[2] - 1 \in 0 .. (N - 1) /\ q[2] + 1 \in 0 .. (N - 1)
    BY <1>1, <1>2, <1>3, <1>5, <1>9
  <2> QED
    BY <1>1, <1>6, <2>1
<1>10. CASE k = 3
  <2>1. /\ q[1] - 1 \in 0 .. (N - 1) /\ q[1] + 1 \in 0 .. (N - 1)
        /\ q[2] - 1 \in 0 .. (N - 1) /\ q[2] + 1 \in 0 .. (N - 1)
    BY <1>1, <1>2, <1>3, <1>5, <1>10
  <2> QED
    BY <1>1, <1>6, <2>1
<1> QED
  BY <1>7, <1>8, <1>9, <1>10 DEF Angle

\* A row is found from each of its places that is not on the border.
LEMMA SegComplete ==
  ASSUME NEW board, NEW side \in Side, NEW a \in Point, NEW k \in Angle, RowAt(board, a, k, side),
         NEW m \in 0 .. (Six - 1), ~Border(Shift(a, k, m))
  PROVE  SegHasRow(board, Shift(a, k, m), k, side)
<1> DEFINE p == Shift(a, k, m)
           b == BackOf(board, p, k, side)
           from == FromOf(board, p, k, side)
           seg == SegOf(board, p, k, side)
<1>1. N \in Nat /\ Six \in Nat /\ 1 < Six /\ Six < N /\ a \in Pair /\ side # NEXT(side)
  BY BoardAssumption, Cells DEF Side, NEXT
<1>2. \A n \in 0 .. (Six - 1) : Shift(a, k, n) \in Point /\ board[Shift(a, k, n)] = side
  BY DEF RowAt
<1>3. p \in Point /\ p \in Pair
  BY <1>2, Cells
<1>4. /\ b \in 0 .. (N - 1) /\ Stops(board, p, k, side, b)
      /\ \A j \in 0 .. (b - 1) : ~Stops(board, p, k, side, j)
      /\ \A j \in 0 .. b : Shift(p, k, -j) \in Point
  BY <1>3, BackIs
<1>5. ~Border(p)
  OBVIOUS
<1>6. \A j \in Int : Shift(p, k, j) = Shift(a, k, m + j)
  BY <1>1, ShiftShift
<1>7. from = IF board[Shift(p, k, -b)] = NEXT(side) THEN 1 - b ELSE -b
  BY DEF FromOf
<1>8. seg = {i \in from .. N : \A j \in from .. i : Shift(p, k, j) \in Point /\ board[Shift(p, k, j)] # NEXT(side)}
  BY DEF SegOf
<1> HIDE DEF p, b, from, seg
<1>9. \A j \in -m .. (Six - 1 - m) : Shift(p, k, j) \in Point /\ board[Shift(p, k, j)] = side
  <2> SUFFICES ASSUME NEW j \in -m .. (Six - 1 - m)
               PROVE  Shift(p, k, j) \in Point /\ board[Shift(p, k, j)] = side
    OBVIOUS
  <2>1. m + j \in 0 .. (Six - 1) /\ j \in Int
    BY <1>1
  <2> QED
    BY <1>2, <1>6, <2>1
<1>10. b >= m
  <2> SUFFICES ASSUME b < m PROVE FALSE
    BY <1>4
  <2> DEFINE q == Shift(p, k, -b)
  <2>1. m - b \in 0 .. (Six - 1) /\ (m - b) - 1 \in 0 .. (Six - 1) /\ -b \in Int /\ m + (-b) = m - b
    BY <1>1, <1>4
  <2>2. q = Shift(a, k, m - b)
    BY <1>6, <2>1
  <2> HIDE DEF q
  <2>3. q \in Point /\ q \in Pair /\ board[q] = side
    BY <1>2, <2>1, <2>2, Cells
  <2>4. Border(q)
    BY <1>1, <1>4, <2>3 DEF Stops, q
  <2>5. Shift(q, k, -1) = Shift(a, k, (m - b) - 1)
    <3>1. m - b \in Int /\ -1 \in Int /\ (m - b) + (-1) = (m - b) - 1
      BY <1>1, <1>4
    <3> QED
      BY <1>1, <2>2, <3>1, ShiftShift
  <2>6. \A i \in Int : Shift(q, k, i) = Shift(a, k, (m - b) + i)
    <3>1. m - b \in Int
      BY <1>1, <1>4
    <3> QED
      BY <1>1, <2>2, <3>1, ShiftShift
  <2>7. q # p /\ b # 0
    <3>1. b = 0 => q = p
      <4>1. ASSUME b = 0 PROVE m - b = m
        BY <4>1
      <4> QED
        BY <2>2, <4>1 DEF p
    <3> QED
      BY <1>5, <2>4, <3>1
  <2>8. (m - b) + 1 \in 0 .. (Six - 1) /\ Shift(q, k, 1) = Shift(a, k, (m - b) + 1)
    BY <1>1, <1>4, <2>1, <2>6, <2>7
  <2>9. Shift(q, k, -1) \in Point /\ Shift(q, k, 1) \in Point
    BY <1>2, <2>1, <2>5, <2>8
  <2>10. p = Shift(q, k, b)
    <3>1. b \in Int /\ (m - b) + b = m
      BY <1>1, <1>4
    <3> QED
      BY <2>6, <3>1 DEF p
  <2>11. Border(p)
    BY <1>4, <2>3, <2>4, <2>9, <2>10, AlongBorder
  <2> QED
    BY <1>5, <2>11
<1>11. board[Shift(p, k, -b)] = NEXT(side) => b # m
  <2>1. -m \in -m .. (Six - 1 - m)
    BY <1>1
  <2> QED
    BY <1>1, <1>9, <2>1
<1>12. from \in Int /\ from <= -m
  BY <1>1, <1>4, <1>7, <1>10, <1>11
<1>13. ASSUME NEW j \in from .. (Six - 1 - m)
       PROVE  Shift(p, k, j) \in Point /\ board[Shift(p, k, j)] # NEXT(side)
  <2>1. CASE j \in -m .. (Six - 1 - m)
    BY <1>1, <1>9, <2>1
  <2>2. CASE j < -m
    <3> DEFINE t == -j
    <3>1. t \in 0 .. b /\ j = -t /\ j \in Int
      BY <1>1, <1>4, <1>7, <1>12, <2>2
    <3> HIDE DEF t
    <3>2. Shift(p, k, j) \in Point
      BY <1>4, <3>1
    <3>3. CASE t = b
      <4>1. board[Shift(p, k, -b)] # NEXT(side)
        <5> SUFFICES ASSUME board[Shift(p, k, -b)] = NEXT(side) PROVE FALSE
          OBVIOUS
        <5>1. from = 1 - b
          BY <1>7
        <5> QED
          BY <1>1, <1>4, <1>12, <3>1, <3>3, <5>1
      <4> QED
        BY <3>1, <3>2, <3>3, <4>1
    <3>4. CASE t # b
      <4>1. t \in 0 .. (b - 1)
        BY <1>4, <3>1, <3>4
      <4>2. ~Stops(board, p, k, side, t)
        BY <1>4, <4>1
      <4> QED
        BY <3>1, <3>2, <4>2 DEF Stops
    <3> QED
      BY <3>3, <3>4
  <2> QED
    BY <1>1, <1>12, <2>1, <2>2
<1>14. ASSUME NEW j \in -m .. (Six - 1 - m) PROVE j \in seg
  <2>1. j \in from .. N /\ \A h \in from .. j : h \in from .. (Six - 1 - m)
    BY <1>1, <1>12
  <2> QED
    BY <1>8, <1>13, <2>1
<1>15. -m \in seg /\ \A j \in -m .. -m + Six - 1 : j \in seg /\ board[Shift(p, k, j)] = side
  <2>1. -m \in -m .. (Six - 1 - m) /\ -m .. -m + Six - 1 = -m .. (Six - 1 - m)
    BY <1>1
  <2> QED
    BY <1>9, <1>14, <2>1
<1>16. SegHasRow(board, p, k, side)
  BY <1>15, SegIs DEF seg
<1> QED
  BY <1>16 DEF p

-----------------------------------------------------------------------------
(* What the engine reads of the threats *)

\* A position the engine looks at: without calls, and no row of six yet.
Quiet == Good /\ frames = <<>> /\ Going

\* Places without a stone.
Vacant == {p \in Point : Board[p] = EMPTY}

\* The two sides, and what stands on a place.
LEMMA Sides ==
  ASSUME NEW side \in Side
  PROVE  /\ NEXT(side) \in Side /\ NEXT(side) # side /\ NEXT(NEXT(side)) = side
         /\ side # EMPTY /\ NEXT(side) # EMPTY /\ Stone = {side, NEXT(side), EMPTY}
BY BoardAssumption DEF Stone, Side, NEXT

\* A threat is one or two empty places.
LEMMA ThreatTwo ==
  ASSUME Quiet, NEW side \in Side, NEW X \in Threats(side)
  PROVE  X \subseteq Vacant /\ \E x, y \in X : X = {x, y}
<1>1. Board \in [Point -> Stone] /\ ~WinOrLose(side)
  BY DEF Quiet, Good, Types, Going
<1>2. PICK a \in Point, k \in Angle : Way(Board, a, k, side, X)
  BY <1>1, ThreatsAre
<1>3. /\ Fits(a, k) /\ X = {q \in Stretch(a, k) : Board[q] = EMPTY}
      /\ \A q \in Stretch(a, k) : Board[q] \in {side, EMPTY}
      /\ \E x, y : X \subseteq {x, y}
  BY <1>2 DEF Way
<1>4. X \subseteq Vacant
  BY <1>3 DEF Stretch, Fits, Vacant
<1>5. X # {}
  <2> SUFFICES ASSUME X = {} PROVE FALSE
    OBVIOUS
  <2>1. \A q \in Stretch(a, k) : Board[q] = side
    BY <1>3
  <2>2. RowAt(Board, a, k, side)
    BY <1>3, <2>1 DEF RowAt, Fits, Stretch
  <2> QED
    BY <1>1, <2>2, LoopRows
<1>6. PICK x, y : X \subseteq {x, y}
  BY <1>3
<1>7. CASE x \in X /\ y \in X
  <2>1. X = {x, y}
    BY <1>6, <1>7
  <2> QED
    BY <1>4, <1>7, <2>1
<1>8. CASE x \notin X
  <2>1. X = {y, y} /\ y \in X
    BY <1>5, <1>6, <1>8
  <2> QED
    BY <1>4, <2>1
<1>9. CASE y \notin X
  <2>1. X = {x, x} /\ x \in X
    BY <1>5, <1>6, <1>9
  <2> QED
    BY <1>4, <2>1
<1> QED
  BY <1>4, <1>7, <1>8, <1>9

\* Stones on the board.
LEMMA WithIs ==
  ASSUME NEW board \in [Point -> Stone], NEW places, NEW side \in Side
  PROVE  /\ With(board, places, side) \in [Point -> Stone]
         /\ \A p \in Point : With(board, places, side)[p] = IF p \in places THEN side ELSE board[p]
         /\ With(board, {}, side) = board
<1>1. \A p \in Point : board[p] \in Stone /\ side \in Stone
  BY DEF Stone
<1>2. With(board, {}, side) = [p \in Point |-> board[p]]
  BY DEF With
<1> QED
  BY <1>1, <1>2 DEF With

\* A row that is found after stones of the other side is a threat that they do not meet.
LEMMA RowsThreat ==
  ASSUME Quiet, NEW side \in Side, NEW stones \in SUBSET Vacant,
         NEW x \in Vacant, NEW y \in Vacant, x \notin stones, y \notin stones,
         RowSeen(With(Board, stones, NEXT(side)), {x, y}, side)
  PROVE  \E X \in Threats(side) : X \subseteq {x, y}
<1> DEFINE one == With(Board, stones, NEXT(side))
           two == With(one, {x, y}, side)
<1>1. Board \in [Point -> Stone]
  BY DEF Quiet, Good, Types
<1>2. one \in [Point -> Stone] /\ \A p \in Point : one[p] = IF p \in stones THEN NEXT(side) ELSE Board[p]
  BY <1>1, Sides, WithIs
<1>3. two \in [Point -> Stone] /\ \A p \in Point : two[p] = IF p \in {x, y} THEN side ELSE one[p]
  <2> HIDE DEF one
  <2> QED
    BY <1>2, WithIs
<1>4. PICK p \in {x, y}, k \in Angle : SegHasRow(two, p, k, side)
  BY DEF RowSeen
<1>5. p \in Point
  BY DEF Vacant
<1> HIDE DEF one, two
<1>6. PICK a \in Point : RowAt(two, a, k, side)
  BY <1>4, <1>5, SegSound
<1> DEFINE X == {q \in Stretch(a, k) : Board[q] = EMPTY}
<1>7. ASSUME NEW q \in Stretch(a, k)
      PROVE  q \in Point /\ Board[q] \in {side, EMPTY} /\ (q \notin {x, y} => Board[q] = side)
  <2>1. q \in Point /\ two[q] = side
    BY <1>6 DEF RowAt, Stretch
  <2>2. CASE q \in {x, y}
    BY <2>1, <2>2 DEF Vacant
  <2>3. CASE q \notin {x, y}
    BY <1>2, <1>3, <2>1, <2>3, Sides
  <2> QED
    BY <2>1, <2>2, <2>3
<1>8. X \subseteq {x, y}
  BY <1>7, Sides
<1>9. Fits(a, k)
  BY <1>6 DEF RowAt, Fits
<1>10. Way(Board, a, k, side, X)
  BY <1>7, <1>8, <1>9 DEF Way
<1>11. X \in Threats(side)
  BY <1>1, <1>10, ThreatsAre
<1> QED
  BY <1>8, <1>11

\* The row of a threat that stones of the other side do not meet is found, unless
\* it lacks places on the border only.
LEMMA ThreatRows ==
  ASSUME Quiet, NEW side \in Side, NEW X \in Threats(side), NEW stones \in SUBSET Vacant,
         X \cap stones = {}, NEW p \in X, ~Border(p)
  PROVE  RowSeen(With(Board, stones, NEXT(side)), X, side)
<1> DEFINE one == With(Board, stones, NEXT(side))
           two == With(one, X, side)
<1>1. Board \in [Point -> Stone]
  BY DEF Quiet, Good, Types
<1>2. one \in [Point -> Stone] /\ \A q \in Point : one[q] = IF q \in stones THEN NEXT(side) ELSE Board[q]
  BY <1>1, Sides, WithIs
<1>3. two \in [Point -> Stone] /\ \A q \in Point : two[q] = IF q \in X THEN side ELSE one[q]
  <2> HIDE DEF one
  <2> QED
    BY <1>2, WithIs
<1>4. PICK a \in Point, k \in Angle : Way(Board, a, k, side, X)
  BY <1>1, ThreatsAre
<1>5. /\ Fits(a, k) /\ X = {q \in Stretch(a, k) : Board[q] = EMPTY}
      /\ \A q \in Stretch(a, k) : Board[q] \in {side, EMPTY}
  BY <1>4 DEF Way
<1> HIDE DEF one, two
<1>6. ASSUME NEW q \in Stretch(a, k) PROVE q \in Point /\ two[q] = side
  <2>1. q \in Point
    BY <1>5 DEF Stretch, Fits
  <2>2. q \in stones => q \in X
    BY <1>5 DEF Vacant
  <2> QED
    BY <1>2, <1>3, <1>5, <2>1, <2>2
<1>7. RowAt(two, a, k, side)
  BY <1>6 DEF RowAt, Stretch
<1>8. PICK m \in 0 .. (Six - 1) : p = Shift(a, k, m)
  BY <1>5 DEF Stretch
<1>9. SegHasRow(two, p, k, side)
  BY <1>7, <1>8, SegComplete
<1> QED
  BY <1>9 DEF RowSeen, one, two

\* The lines are those of the board.
LEMMA LinesRead ==
  ASSUME Quiet, NEW side \in Side, NEW id \in LineIDs, NEW f \in Part
  PROVE  LineInfo[side][id][f] = Content(Board, id, side)
<1>1. f \in Wanted(side)
  BY DEF Wanted, Probing, Quiet
<1> QED
  BY <1>1, EntryRead DEF Quiet

\* A line without a stone of the side threatens nothing.
LEMMA SetsRead ==
  ASSUME NEW board \in [Point -> Stone], NEW side \in Side, NEW id \in LineIDs
  PROVE  ThreatSets(Content(board, id, side), side)
           = ThreatSets([i \in DOMAIN PointsOf[id] |-> board[PointsOf[id][i]]], side)
<1> DEFINE list == PointsOf[id]
           read == [i \in DOMAIN list |-> board[list[i]]]
<1>1. Six \in Nat /\ 2 < Six
  BY BoardAssumption, ThreatAssumption
<1>2. list \in Seq(Point)
  BY PointsTyped
<1>3. Content(board, id, side) = IF \E i \in DOMAIN read : read[i] = side THEN read ELSE <<>>
  BY DEF Content, Analyze
<1> HIDE DEF list
<1>4. read \in Seq(Stone) /\ Len(read) = Len(list) /\ Len(list) \in Nat /\ DOMAIN read = 1 .. Len(list)
  BY <1>2
<1> HIDE DEF read
<1>5. ASSUME \A i \in DOMAIN read : read[i] # side
      PROVE  ThreatSets(read, side) = {} /\ ThreatSets(<<>>, side) = {}
  <2>1. 1 .. Len(<<>>) - Six + 1 = {}
    BY <1>1
  <2>2. ThreatSets(<<>>, side) = {}
    BY <2>1 DEF ThreatSets
  <2>3. ASSUME NEW w \in 1 .. Len(read) - Six + 1, Count(Window(read, w), side) >= Six - 2 PROVE FALSE
    <3> DEFINE v == Window(read, w)
    <3>1. v = SubSeq(read, w, w + Six - 1)
      BY DEF Window
    <3>2. DOMAIN v = 1 .. Six /\ \A j \in 1 .. Six : v[j] = read[w + j - 1] /\ w + j - 1 \in DOMAIN read
      BY <1>1, <1>4, <3>1
    <3> HIDE DEF v
    <3>3. \A j \in 1 .. Six : v[j] # side
      BY <1>5, <3>2
    <3>4. Count(v, side) = 0
      BY <3>2, <3>3, CountNone
    <3> QED
      BY <1>1, <2>3, <3>4 DEF v
  <2>4. ThreatSets(read, side) = {}
    BY <2>3 DEF ThreatSets
  <2> QED
    BY <2>2, <2>4
<1>6. ThreatSets(Content(board, id, side), side) = ThreatSets(read, side)
  BY <1>3, <1>5
<1> QED
  BY <1>6 DEF read, list

\* The places of a line's threats are places of the line.
LEMMA SetsOnLine ==
  ASSUME NEW board, NEW side \in Side, NEW id \in LineIDs
  PROVE  ThreatSets([i \in DOMAIN PointsOf[id] |-> board[PointsOf[id][i]]], side)
           \subseteq SUBSET (DOMAIN PointsOf[id])
<1> DEFINE list == PointsOf[id]
           read == [i \in DOMAIN list |-> board[list[i]]]
<1>1. Six \in Nat /\ 1 < Six /\ list \in Seq(Point)
  BY BoardAssumption, PointsTyped
<1> HIDE DEF list
<1>2. Len(read) = Len(list) /\ Len(list) \in Nat /\ DOMAIN list = 1 .. Len(list)
  BY <1>1
<1> HIDE DEF read
<1>3. ASSUME NEW i \in 1 .. Len(read) - Six + 1, NEW j \in i .. i + Six - 1 PROVE j \in DOMAIN list
  BY <1>1, <1>2
<1>4. ThreatSets(read, side) \subseteq SUBSET (DOMAIN list)
  BY <1>3 DEF ThreatSets
<1> QED
  BY <1>4 DEF read, list

\* The number of a line, its threat points, and those of the board.
LEMMA LineThreats ==
  ASSUME Quiet, NEW side \in Side
  PROVE  /\ \A id \in LineIDs :
              /\ LineThreatNum(id, side) = Least(WaysOf(Board, id, side))
              /\ ThreatOf(LineInfo[side][id][1], side) = {} <=> WaysOf(Board, id, side) = {}
         /\ ThreatPoint(side) = UNION Threats(side)
<1>1. Board \in [Point -> Stone] /\ 0 \in Part /\ 1 \in Part
  BY DEF Quiet, Good, Types, Part
<1> DEFINE Read(id) == [i \in DOMAIN PointsOf[id] |-> Board[PointsOf[id][i]]]
           Sets(id) == ThreatSets(Read(id), side)
<1>2. ASSUME NEW id \in LineIDs, NEW f \in Part PROVE ThreatSets(LineInfo[side][id][f], side) = Sets(id)
  BY <1>1, LinesRead, SetsRead
<1>3. ASSUME NEW id \in LineIDs
      PROVE  /\ Sets(id) \in SUBSET (SUBSET (DOMAIN PointsOf[id]))
             /\ WaysOf(Board, id, side) = {{PointsOf[id][j] : j \in s} : s \in Sets(id)}
  BY SetsOnLine DEF WaysOf
<1> HIDE DEF Sets
<1>4. ASSUME NEW id \in LineIDs PROVE LineThreatNum(id, side) = Least(WaysOf(Board, id, side))
  <2>1. LineThreatNum(id, side) = Least(Sets(id))
    BY <1>1, <1>2 DEF LineThreatNum
  <2> DEFINE list == PointsOf[id]
             sets == Sets(id)
             D == DOMAIN list
  <2>2. \A i, j \in D : list[i] = list[j] => i = j
    BY PointsOnce
  <2>3. sets \in SUBSET (SUBSET D)
    BY <1>3
  <2>4. WaysOf(Board, id, side) = {{list[j] : j \in s} : s \in sets}
    BY <1>3
  <2>5. \A s : Calls(list, {list[j] : j \in s}, s)
    BY DEF Calls
  <2> HIDE DEF list, sets, D
  <2>6. /\ \A t \in WaysOf(Board, id, side) : \E s \in sets : Calls(list, t, s)
        /\ \A s \in sets : \E t \in WaysOf(Board, id, side) : Calls(list, t, s)
    BY <2>4, <2>5
  <2>7. Renames(list, D, WaysOf(Board, id, side), sets)
    BY <2>2, <2>3, <2>6 DEF Renames
  <2>8. Least(WaysOf(Board, id, side)) = Least(sets)
    BY <2>7, LeastNamed
  <2> QED
    BY <2>1, <2>8 DEF sets
<1>5. ASSUME NEW id \in LineIDs
      PROVE  {PointsOf[id][j] : j \in ThreatOf(LineInfo[side][id][1], side)} = UNION WaysOf(Board, id, side)
  <2>1. ThreatOf(LineInfo[side][id][1], side) = UNION Sets(id)
    BY <1>1, <1>2 DEF ThreatOf
  <2> DEFINE list == PointsOf[id]
             Called(s) == {list[j] : j \in s}
  <2>2. WaysOf(Board, id, side) = {Called(s) : s \in Sets(id)}
    BY <1>3
  <2>3. \A q, s : q \in Called(s) <=> \E j \in s : q = list[j]
    OBVIOUS
  <2> HIDE DEF list, Called
  <2>4. \A q : q \in UNION WaysOf(Board, id, side) <=> \E s \in Sets(id) : q \in Called(s)
    BY <2>2
  <2>5. \A q : q \in {list[j] : j \in UNION Sets(id)} <=> \E s \in Sets(id) : q \in Called(s)
    BY <2>3
  <2>6. {list[j] : j \in UNION Sets(id)} = UNION WaysOf(Board, id, side)
    BY <2>4, <2>5
  <2> QED
    BY <2>1, <2>6 DEF list
<1>6. ASSUME NEW id \in LineIDs
      PROVE  ThreatOf(LineInfo[side][id][1], side) = {} <=> WaysOf(Board, id, side) = {}
  <2>1. ThreatOf(LineInfo[side][id][1], side) = {} <=> UNION WaysOf(Board, id, side) = {}
    BY <1>5
  <2>2. ASSUME NEW X \in WaysOf(Board, id, side) PROVE X # {}
    <3>1. X \in Threats(side)
      BY <1>1, <2>2, ThreatsAre
    <3> QED
      BY <3>1, ThreatTwo
  <2> QED
    BY <2>1, <2>2
<1>7. ThreatPoint(side) = UNION Threats(side)
  <2>1. ThreatPoint(side) = UNION {UNION WaysOf(Board, id, side) : id \in LineIDs}
    BY <1>5 DEF ThreatPoint
  <2>2. \A X : X \in Threats(side) <=> \E id \in LineIDs : X \in WaysOf(Board, id, side)
    BY <1>1, ThreatsAre
  <2> QED
    BY <2>1, <2>2
<1> QED
  BY <1>4, <1>6, <1>7

\* The threat points are empty places.
LEMMA ThreatPointsVacant ==
  ASSUME Quiet, NEW side \in Side
  PROVE  ThreatPoint(side) \subseteq Vacant /\ (Threats(side) # {} <=> ThreatPoint(side) # {})
<1>1. ThreatPoint(side) = UNION Threats(side)
  BY LineThreats
<1>2. \A X \in Threats(side) : X \subseteq Vacant /\ X # {}
  BY ThreatTwo
<1> QED
  BY <1>1, <1>2

\* Stones that meet the threats defend against the rows that are found.
LEMMA MeetDefends ==
  ASSUME Quiet, NEW side \in Side, NEW stones \in SUBSET Vacant, Meet(stones, Threats(side))
  PROVE  Defended(Rows(side), stones, side)
<1> SUFFICES ASSUME NEW xy \in Rows(side), xy \cap stones = {},
                    RowSeen(With(Board, stones, NEXT(side)), xy, side)
             PROVE  FALSE
  BY DEF Defended
<1>1. PICK x \in ThreatPoint(side), y \in ThreatPoint(side) : xy = {x, y}
  BY DEF Rows
<1>2. x \in Vacant /\ y \in Vacant /\ x \notin stones /\ y \notin stones
  BY <1>1, ThreatPointsVacant
<1>3. PICK X \in Threats(side) : X \subseteq {x, y}
  BY <1>1, <1>2, RowsThreat
<1> QED
  BY <1>1, <1>3 DEF Meet

\* And stones that do meet the threats, unless a row is not found.
LEMMA DefendMeets ==
  ASSUME Quiet, NEW side \in Side, NEW stones \in SUBSET Vacant, Inner(side),
         Defended(Rows(side), stones, side)
  PROVE  Meet(stones, Threats(side))
<1> SUFFICES ASSUME NEW X \in Threats(side), X \cap stones = {} PROVE FALSE
  BY DEF Meet
<1>1. PICK p \in X : ~Border(p)
  BY DEF Inner
<1>2. PICK x \in X, y \in X : X = {x, y}
  BY ThreatTwo
<1>3. x \in ThreatPoint(side) /\ y \in ThreatPoint(side)
  BY LineThreats
<1>4. With(Board, {}, NEXT(side)) = Board
  BY Sides, WithIs DEF Quiet, Good, Types
<1>5. RowSeen(Board, X, side)
  <2>1. {} \in SUBSET Vacant /\ X \cap {} = {}
    OBVIOUS
  <2>2. RowSeen(With(Board, {}, NEXT(side)), X, side)
    BY <1>1, <2>1, ThreatRows
  <2> QED
    BY <1>4, <2>2
<1>6. X \in Rows(side)
  BY <1>2, <1>3, <1>5 DEF Rows
<1>7. ~RowSeen(With(Board, stones, NEXT(side)), X, side)
  BY <1>6 DEF Defended
<1> QED
  BY <1>1, <1>7, ThreatRows

-----------------------------------------------------------------------------
(* The number of a side *)

\* A line has its number all along.
LEMMA LineAlong ==
  ASSUME NEW a \in Point, NEW k \in Angle, NEW m \in Int
  PROVE  LineID(Shift(a, k, m), k) = LineID(a, k)
<1>1. a \in Pair /\ a[1] \in Int /\ a[2] \in Int /\ N \in Int /\ Six \in Int
  BY BoardAssumption, Cells DEF Pair
<1>2. /\ Shift(a, 0, m) = <<a[1] + m, a[2]>> /\ Shift(a, 1, m) = <<a[1] + m, a[2] - m>>
      /\ Shift(a, 2, m) = <<a[1], a[2] + m>> /\ Shift(a, 3, m) = <<a[1] + m, a[2] + m>>
  BY <1>1, Shifts
<1>3. CASE k = 0
  BY <1>1, <1>2, <1>3 DEF LineID
<1>4. CASE k = 1
  <2>1. 2 * N + (a[1] + m) + (a[2] - m) - (Six - 1) = 2 * N + a[1] + a[2] - (Six - 1)
    BY <1>1
  <2> QED
    BY <1>2, <1>4, <2>1 DEF LineID
<1>5. CASE k = 2
  BY <1>1, <1>2, <1>5 DEF LineID
<1>6. CASE k = 3
  <2> DEFINE c == 2 * N + (2 * N - 2 * Six + 1) + (N - Six)
  <2>1. c \in Int
    BY <1>1
  <2> HIDE DEF c
  <2>2. c + (a[2] + m) - (a[1] + m) = c + a[2] - a[1]
    BY <1>1, <2>1
  <2> QED
    BY <1>2, <1>6, <2>2 DEF LineID, c
<1> QED
  BY <1>3, <1>4, <1>5, <1>6 DEF Angle

\* The ranges of the numbers tell the direction.
LEMMA DirectionIs ==
  ASSUME NEW a \in Point, NEW k \in Angle, Fits(a, k)
  PROVE  Direction(LineID(a, k)) = k
<1> DEFINE id == LineID(a, k)
<1>1. N \in Nat /\ Six \in Nat /\ 1 < Six /\ Six < N
  BY BoardAssumption
<1>2. /\ k = 0 => id \in 0 .. (N - 1)
      /\ k = 1 => id \in 2 * N .. 4 * N - 2 * Six
      /\ k = 2 => id \in N .. 2 * N - 1
      /\ k = 3 => id \in 4 * N - 2 * Six + 1 .. 6 * N - 4 * Six + 1
  BY StretchWindow, LineIDKinds
<1>3. Direction(id) = IF id < N THEN 0
                      ELSE IF id < 2 * N THEN 2
                      ELSE IF id < 2 * N + (2 * N - 2 * Six + 1) THEN 1
                      ELSE 3
  BY DEF Direction
<1> HIDE DEF id
<1>4. Direction(id) = k
  BY <1>1, <1>2, <1>3 DEF Angle
<1> QED
  BY <1>4 DEF id

\* Parallel lines have no place in common.
LEMMA ParallelApart ==
  ASSUME NEW board \in [Point -> Stone], NEW side \in Side, NEW a \in LineIDs, NEW b \in LineIDs,
         Direction(a) = Direction(b),
         NEW X \in WaysOf(board, a, side), NEW Y \in WaysOf(board, b, side), X \cap Y # {}
  PROVE  a = b
<1>1. PICK p : p \in X /\ p \in Y
  OBVIOUS
<1>2. ASSUME NEW id \in LineIDs, NEW Z \in WaysOf(board, id, side), p \in Z
      PROVE  p \in Point /\ Direction(id) \in Angle /\ LineID(p, Direction(id)) = id
  <2>1. PICK c \in Point, k \in Angle : LineID(c, k) = id /\ Way(board, c, k, side, Z)
    BY WaysAre
  <2>2. Fits(c, k) /\ Z = {q \in Stretch(c, k) : board[q] = EMPTY}
    BY <2>1 DEF Way
  <2>3. PICK n \in 0 .. (Six - 1) : p = Shift(c, k, n)
    BY <1>2, <2>2 DEF Stretch
  <2>4. p \in Point
    BY <2>2, <2>3 DEF Fits
  <2>5. LineID(p, k) = id /\ Direction(id) = k
    BY <2>1, <2>2, <2>3, LineAlong, DirectionIs
  <2> QED
    BY <2>4, <2>5
<1> QED
  BY <1>1, <1>2

\* Some sets of sets of places, by a finite set of lines: what each needs, and all
\* together.  Distinct, if no place is in sets of two lines.
Needs(S, f, W, T) == /\ IsFiniteSet(S) /\ f \in [S -> Nat]
                     /\ \A a \in S : f[a] = Least(W[a])
                     /\ \A X : X \in T <=> \E a \in S : X \in W[a]
Distinct(S, W) == \A a, b \in S : \A X \in W[a], Y \in W[b] : X \cap Y # {} => a = b

\* The sum of what the lines need, and what they need together.
LEMMA SumsUp ==
  ASSUME NEW S, NEW f, NEW W, NEW T, Needs(S, f, W, T)
  PROVE  /\ SumFunction(f) \in Nat
         /\ SumFunction(f) = 0 <=> T = {}
         /\ SumFunction(f) = 1 => Least(T) <= 1
         /\ SumFunction(f) = 2 => Least(T) <= 2
         /\ Distinct(S, W) => /\ Least(T) <= 1 => SumFunction(f) <= 1
                              /\ Least(T) <= 2 => SumFunction(f) <= 2
<1> DEFINE sum == SumFunction(f)
           Apart2 == \A a, b \in S : \A X \in W[a], Y \in W[b] : X \cap Y # {} => a = b
<1> /\ IsFiniteSet(S) /\ f \in [S -> Nat]
    /\ \A a \in S : f[a] = Least(W[a])
    /\ \A X : X \in T <=> \E a \in S : X \in W[a]
  BY DEF Needs
<1>1. /\ sum \in Nat
      /\ sum = 0 <=> \A a \in S : f[a] = 0
      /\ \A a \in S : sum >= f[a] /\ (sum = f[a] <=> \A c \in S \ {a} : f[c] = 0)
      /\ \A a \in S : \A b \in S \ {a} :
           /\ sum >= f[a] + f[b]
           /\ sum = f[a] + f[b] <=> \A c \in S \ {a, b} : f[c] = 0
  BY SumIs
<1> HIDE DEF sum
<1>2. \A a \in S : f[a] \in 0 .. 3 /\ (f[a] = 0 <=> W[a] = {})
  BY LeastIs
<1>3. ASSUME NEW a \in S PROVE f[a] <= 1 <=> \E x : Meet({x}, W[a])
  <2>1. Least(W[a]) <= 1 <=> \E x : Meet({x}, W[a])
    BY LeastIs
  <2> QED
    BY <2>1
<1>4. ASSUME NEW a \in S PROVE f[a] <= 2 <=> \E x, y : Meet({x, y}, W[a])
  <2>1. Least(W[a]) <= 2 <=> \E x, y : Meet({x, y}, W[a])
    BY LeastIs
  <2> QED
    BY <2>1
<1>5. (Least(T) <= 1 <=> \E x : Meet({x}, T)) /\ (Least(T) <= 2 <=> \E x, y : Meet({x, y}, T))
  BY LeastIs
<1>6. sum = 0 <=> T = {}
  BY <1>1, <1>2
<1>7. ASSUME NEW a \in S, \A c \in S \ {a} : f[c] = 0 PROVE T = W[a]
  BY <1>2, <1>7
<1>8. ASSUME sum = 1 PROVE Least(T) <= 1
  <2>1. PICK a \in S : f[a] # 0
    BY <1>1, <1>8
  <2>2. sum >= f[a] /\ f[a] \in 0 .. 3
    BY <1>1, <1>2
  <2>3. f[a] = 1
    BY <1>8, <2>1, <2>2
  <2>4. T = W[a]
    BY <1>1, <1>7, <1>8, <2>3
  <2> QED
    BY <2>3, <2>4
<1>9. ASSUME sum = 2 PROVE Least(T) <= 2
  <2>1. PICK a \in S : f[a] # 0
    BY <1>1, <1>9
  <2>2. sum >= f[a] /\ f[a] \in 0 .. 3
    BY <1>1, <1>2
  <2>3. CASE f[a] = 2
    <3>1. T = W[a]
      BY <1>1, <1>7, <1>9, <2>3
    <3> QED
      BY <2>3, <3>1
  <2>4. CASE f[a] = 1
    <3>1. PICK b \in S \ {a} : f[b] # 0
      BY <1>1, <1>9, <2>4
    <3>2. sum >= f[a] + f[b] /\ f[b] \in 0 .. 3
      BY <1>1, <1>2, <3>1
    <3>3. f[b] = 1 /\ sum = f[a] + f[b]
      BY <1>9, <2>4, <3>1, <3>2
    <3>4. \A c \in S \ {a, b} : f[c] = 0
      BY <1>1, <3>1, <3>3
    <3>9. f[a] <= 1 /\ f[b] <= 1
      BY <2>4, <3>3
    <3>5. PICK x : Meet({x}, W[a])
      BY <1>3, <3>9
    <3>6. PICK y : Meet({y}, W[b])
      BY <1>3, <3>9
    <3>7. \A X \in T : X \in W[a] \/ X \in W[b]
      BY <1>2, <3>4
    <3>8. Meet({x, y}, T)
      BY <3>5, <3>6, <3>7 DEF Meet
    <3> QED
      BY <1>5, <3>8
  <2> QED
    BY <1>9, <2>1, <2>2, <2>3, <2>4
<1> DEFINE Hits(z, c) == \E X \in W[c] : z \in X
<1>10. ASSUME Apart2, NEW z, NEW c \in S, NEW d \in S, Hits(z, c), Hits(z, d) PROVE c = d
  <2>1. PICK X \in W[c], Y \in W[d] : z \in X /\ z \in Y
    BY <1>10
  <2>2. X \cap Y # {}
    BY <2>1
  <2> QED
    BY <1>10, <2>2
<1>11. ASSUME NEW x, NEW y, Meet({x, y}, T), NEW c \in S
       PROVE  /\ Meet({x, y}, W[c]) /\ (f[c] # 0 => Hits(x, c) \/ Hits(y, c))
              /\ ~Hits(y, c) => f[c] <= 1
              /\ ~Hits(x, c) => f[c] <= 1
  <2>1. Meet({x, y}, W[c])
    BY <1>11 DEF Meet
  <2>2. f[c] # 0 => Hits(x, c) \/ Hits(y, c)
    BY <1>2, <2>1 DEF Meet
  <2>3. ~Hits(y, c) => Meet({x}, W[c])
    BY <2>1 DEF Meet
  <2>4. ~Hits(x, c) => Meet({y}, W[c])
    BY <2>1 DEF Meet
  <2> QED
    BY <1>3, <2>1, <2>2, <2>3, <2>4
<1> HIDE DEF Hits
<1>12. ASSUME Apart2, Least(T) <= 1 PROVE sum <= 1
  <2>1. PICK x : Meet({x}, T)
    BY <1>5, <1>12
  <2>2. Meet({x, x}, T)
    BY <2>1 DEF Meet
  <2>3. CASE \A a \in S : f[a] = 0
    BY <1>1, <2>3
  <2>4. ASSUME NEW a \in S, f[a] # 0 PROVE sum <= 1
    <3>1. \A c \in S : f[c] # 0 => Hits(x, c)
      BY <1>11, <2>2
    <3>2. \A c \in S \ {a} : f[c] = 0
      BY <1>10, <1>12, <2>4, <3>1
    <3>3. Meet({x}, W[a])
      BY <2>1 DEF Meet
    <3>4. f[a] <= 1
      BY <1>3, <3>3
    <3> QED
      BY <1>1, <3>2, <3>4
  <2> QED
    BY <2>3, <2>4
<1>13. ASSUME Apart2, Least(T) <= 2 PROVE sum <= 2
  <2>1. PICK u, v : Meet({u, v}, T)
    BY <1>5, <1>13
  <2>2. CASE \A a \in S : f[a] = 0
    BY <1>1, <2>2
  <2>3. ASSUME NEW a \in S, f[a] # 0, \A c \in S \ {a} : f[c] = 0 PROVE sum <= 2
    <3>1. Meet({u, v}, W[a])
      BY <1>11, <2>1
    <3>2. f[a] <= 2
      BY <1>4, <3>1
    <3> QED
      BY <1>1, <2>3, <3>2
  <2>4. ASSUME NEW x, NEW y, Meet({x, y}, T), NEW a \in S, Hits(x, a), NEW b \in S \ {a}, f[b] # 0
        PROVE  sum <= 2
    <3>1. ~Hits(x, b)
      BY <1>10, <1>13, <2>4
    <3>2. Hits(y, b)
      BY <1>11, <2>4, <3>1
    <3>3. ~Hits(y, a)
      BY <1>10, <1>13, <2>4, <3>2
    <3>4. f[a] <= 1 /\ f[b] <= 1
      BY <1>11, <2>4, <3>1, <3>3
    <3>5. ASSUME NEW c \in S \ {a, b} PROVE f[c] = 0
      <4>1. ~Hits(x, c) /\ ~Hits(y, c)
        BY <1>10, <1>13, <2>4, <3>2
      <4> QED
        BY <1>11, <2>4, <4>1
    <3>6. sum = f[a] + f[b] /\ f[a] \in 0 .. 3 /\ f[b] \in 0 .. 3
      BY <1>1, <1>2, <3>5
    <3> QED
      BY <3>4, <3>6
  <2>5. ASSUME NEW a \in S, f[a] # 0, NEW b \in S \ {a}, f[b] # 0 PROVE sum <= 2
    <3>1. Hits(u, a) \/ Hits(v, a)
      BY <1>11, <2>1, <2>5
    <3>2. Meet({v, u}, T)
      BY <2>1 DEF Meet
    <3> QED
      BY <2>1, <2>4, <2>5, <3>1, <3>2
  <2> QED
    BY <2>2, <2>3, <2>5
<1> QED
  BY <1>1, <1>6, <1>8, <1>9, <1>12, <1>13 DEF sum, Distinct

\* The lines of a side that threaten.
Threatening(side) == {id \in LineIDs : ThreatOf(LineInfo[side][id][1], side) # {}}
SumOf(side)       == SumFunction([id \in LineIDs |-> LineThreatNum(id, side)])
Parallel(side)    == Cardinality({Direction(id) : id \in Threatening(side)}) < 2

\* The sum over the lines.
LEMMA SumLeast ==
  ASSUME Quiet, NEW side \in Side
  PROVE  /\ SumOf(side) \in Nat
         /\ SumOf(side) = 0 <=> Threats(side) = {}
         /\ SumOf(side) = 1 => Least(Threats(side)) <= 1
         /\ SumOf(side) = 2 => Least(Threats(side)) <= 2
         /\ Parallel(side) => /\ Least(Threats(side)) <= 1 => SumOf(side) <= 1
                              /\ Least(Threats(side)) <= 2 => SumOf(side) <= 2
<1> DEFINE f == [id \in LineIDs |-> LineThreatNum(id, side)]
           W == [id \in LineIDs |-> WaysOf(Board, id, side)]
           T == Threats(side)
<1>1. N \in Nat /\ Six \in Nat /\ Six < N /\ Board \in [Point -> Stone]
  BY BoardAssumption DEF Quiet, Good, Types
<1>2. IsFiniteSet(LineIDs)
  <2>1. 0 \in Int /\ 2 * N + 2 * (2 * N - 2 * Six + 1) - 1 \in Int
    BY <1>1
  <2> QED
    BY <2>1, FS_Interval DEF LineIDs
<1>3. \A id \in LineIDs : W[id] = WaysOf(Board, id, side) /\ f[id] = Least(W[id])
  BY LineThreats
<1>4. f \in [LineIDs -> Nat]
  <2>1. \A id \in LineIDs : LineThreatNum(id, side) \in Nat
    BY LineThreats, LeastIs
  <2> QED
    BY <2>1
<1>5. \A X : X \in T <=> \E id \in LineIDs : X \in W[id]
  BY <1>1, <1>3, ThreatsAre
<1>6. ASSUME Parallel(side), NEW a \in LineIDs, NEW b \in LineIDs, NEW X \in W[a], NEW Y \in W[b],
             X \cap Y # {}
      PROVE  a = b
  <2> DEFINE D == {Direction(id) : id \in Threatening(side)}
  <2>1. D \in SUBSET (0 .. 3)
    BY DEF Direction
  <2>2. IsFiniteSet(D)
    <3> HIDE DEF D
    <3>1. IsFiniteSet(0 .. 3)
      <4>1. 0 \in Int /\ 3 \in Int
        OBVIOUS
      <4> QED
        BY <4>1, FS_Interval
    <3> QED
      BY <2>1, <3>1, FS_Subset
  <2>3. a \in Threatening(side) /\ b \in Threatening(side)
    BY <1>3, <1>6, LineThreats DEF Threatening
  <2>4. {Direction(a), Direction(b)} \subseteq D
    BY <2>3
  <2>5. Cardinality({Direction(a), Direction(b)}) <= Cardinality(D) /\ Cardinality(D) \in Nat
    BY <2>2, <2>4, FS_Subset, FS_CardinalityType
  <2>6. Cardinality({Direction(a), Direction(b)}) = IF Direction(a) = Direction(b) THEN 1 ELSE 2
    BY CountTwo
  <2>7. Direction(a) = Direction(b)
    BY <1>6, <2>5, <2>6 DEF Parallel
  <2> QED
    BY <1>1, <1>3, <1>6, <2>7, ParallelApart
<1>7. Parallel(side) => Distinct(LineIDs, W)
  BY <1>6 DEF Distinct
<1>9. \A id \in LineIDs : f[id] = Least(W[id])
  BY <1>3
<1> HIDE DEF f, W, T
<1>10. Needs(LineIDs, f, W, T)
  BY <1>2, <1>4, <1>5, <1>9 DEF Needs
<1>8. /\ SumFunction(f) \in Nat
      /\ SumFunction(f) = 0 <=> T = {}
      /\ SumFunction(f) = 1 => Least(T) <= 1
      /\ SumFunction(f) = 2 => Least(T) <= 2
      /\ Distinct(LineIDs, W)
           => /\ Least(T) <= 1 => SumFunction(f) <= 1
              /\ Least(T) <= 2 => SumFunction(f) <= 2
  BY <1>10, SumsUp
<1> QED
  BY <1>7, <1>8 DEF SumOf, f, T

\* What ThreatNum is.
LEMMA NumIs ==
  ASSUME NEW side
  PROVE  /\ ThreatNum(side) = IF SumOf(side) < 2 \/ Parallel(side) THEN SumOf(side)
                              ELSE EnsureThreatNum(side, SumOf(side))
         /\ EnsureThreatNum(side, SumOf(side))
              = IF \E p \in ThreatPoint(side) : Defended(Rows(side), {p}, side) THEN 1
                ELSE IF \E xy \in Pairs(ThreatPoint(side)) : Defended(Rows(side), xy, side) THEN 2
                ELSE SumOf(side)
BY DEF ThreatNum, EnsureThreatNum, SumOf, Parallel, Threatening

\* It is a number.
LEMMA NumTyped ==
  ASSUME Quiet, NEW side \in Side
  PROVE  ThreatNum(side) \in Nat
<1>1. SumOf(side) \in Nat
  BY SumLeast
<1>2. EnsureThreatNum(side, SumOf(side)) \in {1, 2, SumOf(side)}
  <2> DEFINE One == \E p \in ThreatPoint(side) : Defended(Rows(side), {p}, side)
             Two == \E xy \in Pairs(ThreatPoint(side)) : Defended(Rows(side), xy, side)
  <2>1. EnsureThreatNum(side, SumOf(side)) = IF One THEN 1 ELSE IF Two THEN 2 ELSE SumOf(side)
    BY NumIs
  <2> HIDE DEF One, Two
  <2> QED
    BY <2>1
<1>3. ThreatNum(side) \in {SumOf(side), EnsureThreatNum(side, SumOf(side))}
  BY NumIs
<1> QED
  BY <1>1, <1>2, <1>3

\* What two threat points are.
LEMMA ThreatPairs ==
  ASSUME Quiet, NEW side \in Side, NEW xy \in Pairs(ThreatPoint(side))
  PROVE  xy \in SUBSET Vacant /\ \E x, y \in Vacant : x # y /\ xy = {x, y}
<1>1. PICK x \in ThreatPoint(side), y \in ThreatPoint(side) : x # y /\ xy = {x, y}
  BY PairsAre
<1> QED
  BY <1>1, ThreatPointsVacant

\* It takes no more stones than are needed, if one or two are.
LEMMA NumNever ==
  ASSUME Quiet, NEW side \in Side, Least(Threats(side)) < 3
  PROVE  ThreatNum(side) <= Least(Threats(side)) /\ ThreatNum(side) \in Nat
<1> DEFINE least == Least(Threats(side))
<1>1. /\ least \in 0 .. 3
      /\ least = 0 <=> Threats(side) = {}
      /\ least <= 1 <=> \E x : Meet({x}, Threats(side))
      /\ least = 2 => \E x, y \in UNION Threats(side) : x # y /\ Meet({x, y}, Threats(side))
  BY LeastIs
<1>2. least \in 0 .. 2
  BY <1>1
<1>3. /\ SumOf(side) \in Nat
      /\ SumOf(side) = 0 <=> Threats(side) = {}
      /\ Parallel(side) => (least <= 1 => SumOf(side) <= 1) /\ (least <= 2 => SumOf(side) <= 2)
  BY SumLeast
<1>4. ThreatPoint(side) = UNION Threats(side)
  BY LineThreats
<1>5. ThreatPoint(side) \subseteq Vacant
  BY ThreatPointsVacant
<1> HIDE DEF least
<1>6. CASE SumOf(side) < 2 \/ Parallel(side)
  <2>1. ThreatNum(side) = SumOf(side)
    BY <1>6, NumIs
  <2>2. SumOf(side) <= least
    <3>1. CASE least = 0
      BY <1>1, <1>3, <3>1
    <3>2. CASE least = 1
      BY <1>3, <1>6, <3>2
    <3>3. CASE least = 2
      BY <1>3, <1>6, <3>3
    <3> QED
      BY <1>2, <3>1, <3>2, <3>3
  <2> QED
    BY <1>3, <2>1, <2>2 DEF least
<1>7. CASE ~(SumOf(side) < 2 \/ Parallel(side))
  <2>1. ThreatNum(side) = EnsureThreatNum(side, SumOf(side))
    BY <1>7, NumIs
  <2>2. Threats(side) # {} /\ least # 0
    BY <1>1, <1>3, <1>7
  <2>3. CASE least = 1
    <3>5. least <= 1
      BY <2>3
    <3>1. PICK x : Meet({x}, Threats(side))
      BY <1>1, <3>5
    <3>2. x \in ThreatPoint(side)
      BY <1>4, <2>2, <3>1 DEF Meet
    <3>3. Defended(Rows(side), {x}, side)
      <4>1. {x} \in SUBSET Vacant
        BY <1>5, <3>2
      <4> QED
        BY <3>1, <4>1, MeetDefends
    <3>4. EnsureThreatNum(side, SumOf(side)) = 1
      BY <3>2, <3>3, NumIs
    <3> QED
      BY <2>1, <2>3, <3>4 DEF least
  <2>4. CASE least = 2
    <3>1. PICK x \in UNION Threats(side), y \in UNION Threats(side) : x # y /\ Meet({x, y}, Threats(side))
      BY <1>1, <2>4
    <3>2. {x, y} \in Pairs(ThreatPoint(side)) /\ {x, y} \in SUBSET Vacant
      BY <1>4, <1>5, <3>1, PairsAre
    <3>3. Defended(Rows(side), {x, y}, side)
      BY <3>1, <3>2, MeetDefends
    <3>4. EnsureThreatNum(side, SumOf(side)) \in {1, 2}
      BY <3>2, <3>3, NumIs
    <3> QED
      BY <2>1, <2>4, <3>4 DEF least
  <2> QED
    BY <1>2, <2>2, <2>3, <2>4
<1> QED
  BY <1>6, <1>7

\* Nor less, unless a row is not found.
LEMMA NumLess ==
  ASSUME Quiet, NEW side \in Side, Inner(side)
  PROVE  ThreatNum(side) >= Least(Threats(side))
<1> DEFINE least == Least(Threats(side))
<1>1. /\ least \in 0 .. 3
      /\ least = 0 <=> Threats(side) = {}
      /\ least <= 1 <=> \E x : Meet({x}, Threats(side))
      /\ least <= 2 <=> \E x, y : Meet({x, y}, Threats(side))
  BY LeastIs
<1>2. /\ SumOf(side) \in Nat
      /\ SumOf(side) = 0 <=> Threats(side) = {}
      /\ SumOf(side) = 1 => least <= 1
      /\ SumOf(side) = 2 => least <= 2
  BY SumLeast
<1> HIDE DEF least
<1>3. SumOf(side) >= least
  BY <1>1, <1>2
<1>4. CASE \E p \in ThreatPoint(side) : Defended(Rows(side), {p}, side)
  <2>1. PICK p \in ThreatPoint(side) : Defended(Rows(side), {p}, side)
    BY <1>4
  <2>2. {p} \in SUBSET Vacant
    BY ThreatPointsVacant
  <2>3. Meet({p}, Threats(side))
    BY <2>1, <2>2, DefendMeets
  <2>4. least <= 1
    BY <1>1, <2>3
  <2>5. EnsureThreatNum(side, SumOf(side)) = 1
    BY <1>4, NumIs
  <2> QED
    BY <1>3, <2>4, <2>5, NumIs DEF least
<1>5. CASE /\ ~\E p \in ThreatPoint(side) : Defended(Rows(side), {p}, side)
           /\ \E xy \in Pairs(ThreatPoint(side)) : Defended(Rows(side), xy, side)
  <2>1. PICK xy \in Pairs(ThreatPoint(side)) : Defended(Rows(side), xy, side)
    BY <1>5
  <2>2. PICK x, y : xy = {x, y}
    BY ThreatPairs
  <2>3. Meet(xy, Threats(side))
    BY <2>1, ThreatPairs, DefendMeets
  <2>4. least <= 2
    BY <1>1, <2>2, <2>3
  <2>5. EnsureThreatNum(side, SumOf(side)) = 2
    BY <1>5, NumIs
  <2> QED
    BY <1>3, <2>4, <2>5, NumIs DEF least
<1>6. CASE /\ ~\E p \in ThreatPoint(side) : Defended(Rows(side), {p}, side)
           /\ ~\E xy \in Pairs(ThreatPoint(side)) : Defended(Rows(side), xy, side)
  <2>1. EnsureThreatNum(side, SumOf(side)) = SumOf(side)
    BY <1>6, NumIs
  <2> QED
    BY <1>3, <2>1, NumIs DEF least
<1> QED
  BY <1>4, <1>5, <1>6

-----------------------------------------------------------------------------
(* Stones that are put on a board *)

\* A threat after stones of the other side was one before, and they are not in it.
LEMMA WayBefore ==
  ASSUME NEW board \in [Point -> Stone], NEW places, NEW side \in Side, NEW a \in Point, NEW k \in Angle, NEW X,
         Way(With(board, places, NEXT(side)), a, k, side, X)
  PROVE  Way(board, a, k, side, X) /\ X \cap places = {}
<1> DEFINE after == With(board, places, NEXT(side))
<1>1. \A p \in Point : after[p] = IF p \in places THEN NEXT(side) ELSE board[p]
  BY Sides, WithIs
<1> HIDE DEF after
<1>2. /\ Fits(a, k) /\ X = {q \in Stretch(a, k) : after[q] = EMPTY}
      /\ \A q \in Stretch(a, k) : after[q] \in {side, EMPTY}
      /\ \E x, y : X \subseteq {x, y}
  BY DEF Way, after
<1>3. \A q \in Stretch(a, k) : q \in Point
  BY <1>2 DEF Stretch, Fits
<1>4. \A q \in Stretch(a, k) : q \notin places /\ after[q] = board[q]
  BY <1>1, <1>2, <1>3, Sides
<1>5. X = {q \in Stretch(a, k) : board[q] = EMPTY}
  BY <1>2, <1>4
<1>6. X \cap places = {}
  BY <1>4, <1>5
<1> QED
  BY <1>2, <1>4, <1>5, <1>6 DEF Way

\* One that they do not meet is one after them.
LEMMA WayAfter ==
  ASSUME NEW board \in [Point -> Stone], NEW places, NEW side \in Side, NEW a \in Point, NEW k \in Angle, NEW X,
         Way(board, a, k, side, X), X \cap places = {}, \A p \in places : board[p] = EMPTY
  PROVE  Way(With(board, places, NEXT(side)), a, k, side, X)
<1> DEFINE after == With(board, places, NEXT(side))
<1>1. \A p \in Point : after[p] = IF p \in places THEN NEXT(side) ELSE board[p]
  BY Sides, WithIs
<1> HIDE DEF after
<1>2. /\ Fits(a, k) /\ X = {q \in Stretch(a, k) : board[q] = EMPTY}
      /\ \A q \in Stretch(a, k) : board[q] \in {side, EMPTY}
      /\ \E x, y : X \subseteq {x, y}
  BY DEF Way
<1>3. \A q \in Stretch(a, k) : q \in Point
  BY <1>2 DEF Stretch, Fits
<1>4. \A q \in Stretch(a, k) : q \notin places /\ after[q] = board[q]
  BY <1>1, <1>2, <1>3
<1>5. X = {q \in Stretch(a, k) : after[q] = EMPTY}
  BY <1>2, <1>4
<1> QED
  BY <1>2, <1>4, <1>5 DEF Way, after

\* After a stone a threat is left on the lines, if it did not meet all.
LEMMA LeavesIs ==
  ASSUME Quiet, NEW side \in Side, NEW p \in Vacant
  PROVE  Leaves(p, side) <=> ~Meet({p}, Threats(side))
<1> DEFINE after == With(Board, {p}, NEXT(side))
<1>1. Board \in [Point -> Stone] /\ Board[p] = EMPTY
  BY DEF Quiet, Good, Types, Vacant
<1>2. after \in [Point -> Stone]
  BY <1>1, Sides, WithIs
<1>3. Leaves(p, side) <=> \E id \in LineIDs : ThreatOf(Content(after, id, side), side) # {}
  BY DEF Leaves, Content
<1>4. ASSUME NEW X, X \in Threats(side) PROVE X # {}
  BY <1>4, ThreatTwo
<1>5. \A places : \A a \in Point, k \in Angle : \A X :
        Way(With(Board, places, NEXT(side)), a, k, side, X) => Way(Board, a, k, side, X) /\ X \cap places = {}
  BY <1>1, WayBefore
<1>6. ASSUME NEW a \in Point, NEW k \in Angle, NEW X, Way(after, a, k, side, X)
      PROVE  X \in Threats(side) /\ p \notin X
  <2>1. Way(Board, a, k, side, X) /\ X \cap {p} = {}
    BY <1>5, <1>6
  <2> QED
    BY <1>1, <2>1, ThreatsAre
<1>7. ASSUME NEW X \in Threats(side), p \notin X
      PROVE  \E id \in LineIDs : X \in WaysOf(after, id, side)
  <2>1. PICK a \in Point, k \in Angle : Way(Board, a, k, side, X)
    BY <1>1, ThreatsAre
  <2>2. Way(after, a, k, side, X)
    <3>1. X \cap {p} = {} /\ \A q \in {p} : Board[q] = EMPTY
      BY <1>1, <1>7
    <3> QED
      BY <1>1, <2>1, <3>1, WayAfter
  <2>3. LineID(a, k) \in LineIDs
    BY <2>1, StretchWindow DEF Way
  <2> HIDE DEF after
  <2> QED
    BY <1>2, <2>2, <2>3, WaysAre
<1> HIDE DEF after
<1>8. ASSUME NEW id \in LineIDs
      PROVE  ThreatOf(Content(after, id, side), side) # {} <=> WaysOf(after, id, side) # {}
  <2> DEFINE sets == ThreatSets([i \in DOMAIN PointsOf[id] |-> after[PointsOf[id][i]]], side)
  <2>1. ThreatOf(Content(after, id, side), side) = UNION sets
    BY <1>2, SetsRead DEF ThreatOf
  <2>2. WaysOf(after, id, side) = {{PointsOf[id][j] : j \in s} : s \in sets}
    BY DEF WaysOf
  <2> HIDE DEF sets
  <2>3. ASSUME NEW s \in sets PROVE s # {}
    <3> DEFINE X == {PointsOf[id][j] : j \in s}
    <3>1. X \in WaysOf(after, id, side)
      BY <2>2
    <3>2. PICK a \in Point, k \in Angle : Way(after, a, k, side, X)
      BY <1>2, <3>1, WaysAre
    <3>3. X # {}
      BY <1>4, <1>6, <3>2
    <3> QED
      BY <3>3
  <2> QED
    <3>1. UNION sets # {} <=> sets # {}
      BY <2>3
    <3>2. {{PointsOf[id][j] : j \in s} : s \in sets} # {} <=> sets # {}
      OBVIOUS
    <3> QED
      BY <2>1, <2>2, <3>1, <3>2
<1>9. ASSUME NEW id \in LineIDs, NEW X \in WaysOf(after, id, side) PROVE X \in Threats(side) /\ p \notin X
  BY <1>2, <1>6, WaysAre
<1>10. (\E id \in LineIDs : WaysOf(after, id, side) # {}) <=> \E X \in Threats(side) : p \notin X
  BY <1>7, <1>9
<1>11. Meet({p}, Threats(side)) <=> \A X \in Threats(side) : p \in X
  BY DEF Meet
<1> QED
  BY <1>3, <1>8, <1>10, <1>11

-----------------------------------------------------------------------------
(* The answers *)

\* An answer is two empty places.
LEMMA AnswerTwo ==
  ASSUME Quiet, NEW side \in Side, NEW second \in BOOLEAN, NEW others \in SUBSET Vacant,
         NEW xy \in Answers(side, second, others)
  PROVE  \E x, y \in Vacant : x # y /\ xy = {x, y}
<1> DEFINE num == ThreatNum(side)
<1>1. CASE num >= 2
  <2>1. Answers(side, second, others) = DefendForMultiThreat(side, num)
    BY <1>1 DEF Answers
  <2>2. xy \in Pairs(ThreatPoint(side))
    BY <2>1 DEF DefendForMultiThreat
  <2> QED
    BY <2>2, ThreatPairs
<1>2. CASE ~(num >= 2) /\ num = 1
  <2>1. Answers(side, second, others) = DefendForSingleThreat(side, second, others)
    BY <1>2 DEF Answers
  <2> DEFINE S == IF second THEN Meeting(side) ELSE ThreatPoint(side)
  <2>2. S \subseteq ThreatPoint(side)
    BY DEF Meeting
  <2>3. PICK p \in S : xy \in {{p, q} : q \in others \ {p}}
    BY <2>1 DEF DefendForSingleThreat
  <2>4. PICK q \in others \ {p} : xy = {p, q}
    BY <2>3
  <2> HIDE DEF S
  <2> QED
    BY <2>2, <2>4, ThreatPointsVacant
<1>3. CASE ~(num >= 2) /\ num # 1
  <2>1. Answers(side, second, others) = Pairs(others)
    BY <1>3 DEF Answers
  <2>2. PICK x \in others, y \in others : x # y /\ xy = {x, y}
    BY <2>1, PairsAre
  <2> QED
    BY <2>2
<1> QED
  BY <1>1, <1>2, <1>3

\* What decides between two stones and more.
LEMMA TwoNeeded ==
  ASSUME Quiet, NEW side \in Side
  PROVE  /\ ThreatNum(side) >= 2 => \E x, y \in ThreatPoint(side) : x # y
         /\ ThreatNum(side) = 2 => \E xy \in Pairs(ThreatPoint(side)) : Defended(Rows(side), xy, side)
<1> DEFINE least == Least(Threats(side))
           num == ThreatNum(side)
           rows == Rows(side)
<1>1. /\ least \in 0 .. 3
      /\ least = 0 <=> Threats(side) = {}
      /\ least <= 1 <=> \E x : Meet({x}, Threats(side))
      /\ least = 2 => \E x, y \in UNION Threats(side) : x # y /\ Meet({x, y}, Threats(side))
  BY LeastIs
<1>2. least < 3 => num <= least /\ num \in Nat
  BY NumNever
<1>3. ThreatPoint(side) = UNION Threats(side)
  BY LineThreats
<1>4. SumOf(side) \in Nat /\ (SumOf(side) = 2 => least <= 2)
  BY SumLeast
<1>5. num \in Nat
  BY NumTyped
<1> HIDE DEF least, num, rows
<1>6. ASSUME num >= 2 PROVE \E x, y \in ThreatPoint(side) : x # y
  <2>1. least > 1
    BY <1>1, <1>2, <1>5, <1>6
  <2>2. PICK X \in Threats(side) : X # {}
    <3>1. Threats(side) # {}
      BY <1>1, <2>1
    <3> QED
      BY <3>1, ThreatTwo
  <2>3. PICK x \in X : x \in ThreatPoint(side)
    BY <1>3, <2>2
  <2>4. ~Meet({x}, Threats(side))
    <3>1. ~(least <= 1)
      BY <1>1, <2>1
    <3> QED
      BY <1>1, <3>1
  <2>5. PICK Y \in Threats(side) : x \notin Y
    BY <2>4 DEF Meet
  <2>6. Y # {}
    BY ThreatTwo
  <2> QED
    BY <1>3, <2>3, <2>5, <2>6
<1>7. ASSUME num = 2 PROVE \E xy \in Pairs(ThreatPoint(side)) : Defended(rows, xy, side)
  <2>1. num = SumOf(side) \/ num = 1 \/ \E xy \in Pairs(ThreatPoint(side)) : Defended(rows, xy, side)
    BY NumIs DEF num, rows
  <2>2. CASE SumOf(side) = 2
    <3>1. least = 2
      BY <1>1, <1>2, <1>4, <1>7, <2>2
    <3>2. PICK x \in UNION Threats(side), y \in UNION Threats(side) : x # y /\ Meet({x, y}, Threats(side))
      BY <1>1, <3>1
    <3>3. {x, y} \in Pairs(ThreatPoint(side))
      BY <1>3, <3>2, PairsAre
    <3>4. {x, y} \in SUBSET Vacant
      BY <3>3, ThreatPairs
    <3>5. Defended(rows, {x, y}, side)
      BY <3>2, <3>4, MeetDefends DEF rows
    <3> QED
      BY <3>3, <3>5
  <2> QED
    BY <1>7, <2>1, <2>2
<1> QED
  BY <1>6, <1>7 DEF num, rows

\* Whenever two stones or more are said to be needed the list is not empty.
LEMMA MultiThere ==
  ASSUME Quiet, NEW side \in Side, ThreatNum(side) >= 2
  PROVE  DefendForMultiThreat(side, ThreatNum(side)) # {}
<1> DEFINE num == ThreatNum(side)
           rows == Rows(side)
           list == {xy \in Pairs(ThreatPoint(side)) : num >= 3 \/ Defended(rows, xy, side)}
<1>1. num \in Nat /\ num >= 2
  BY NumTyped
<1>2. DefendForMultiThreat(side, num) = list
  BY DEF DefendForMultiThreat
<1>3. CASE num >= 3
  <2>1. PICK x \in ThreatPoint(side), y \in ThreatPoint(side) : x # y
    BY TwoNeeded
  <2>2. {x, y} \in Pairs(ThreatPoint(side))
    BY <2>1, PairsAre
  <2> QED
    BY <1>2, <1>3, <2>2
<1>4. CASE num = 2
  BY <1>2, <1>4, TwoNeeded
<1>5. num >= 3 \/ num = 2
  <2>1. \A i \in Nat : i >= 2 => i >= 3 \/ i = 2
    OBVIOUS
  <2> HIDE DEF num
  <2> QED
    BY <1>1, <2>1
<1> HIDE DEF list
<1> QED
  BY <1>3, <1>4, <1>5

\* After an answer to what one or two stones meet the board has no threat.
LEMMA AnswerLeaves ==
  ASSUME Quiet, NEW side \in Side, Inner(side), Least(Threats(side)) < 3,
         NEW others \in SUBSET Vacant, NEW xy \in Answers(side, TRUE, others),
         NEW a \in Point, NEW k \in Angle, NEW X, Way(With(Board, xy, NEXT(side)), a, k, side, X)
  PROVE  FALSE
<1> DEFINE least == Least(Threats(side))
           num == ThreatNum(side)
<1>1. Board \in [Point -> Stone]
  BY DEF Quiet, Good, Types
<1>2. Way(Board, a, k, side, X) /\ X \cap xy = {}
  BY <1>1, WayBefore
<1>3. X \in Threats(side)
  BY <1>1, <1>2, ThreatsAre
<1>4. /\ least \in 0 .. 2 /\ num = least
      /\ least # 0
      /\ least <= 1 <=> \E x : Meet({x}, Threats(side))
  <2>1. /\ least \in 0 .. 3 /\ (least = 0 <=> Threats(side) = {})
        /\ least <= 1 <=> \E x : Meet({x}, Threats(side))
    BY LeastIs
  <2>2. num <= least /\ num \in Nat /\ num >= least
    BY NumNever, NumLess
  <2>3. Threats(side) # {} /\ least < 3
    BY <1>3
  <2> HIDE DEF least, num
  <2>4. least # 0
    BY <2>1, <2>3
  <2>5. least \in 0 .. 2 /\ num = least
    BY <2>1, <2>2, <2>3
  <2> QED
    BY <2>1, <2>4, <2>5
<1>5. CASE num = 2
  <2>1. Answers(side, TRUE, others) = DefendForMultiThreat(side, num)
    BY <1>5 DEF Answers
  <2>2. xy \in Pairs(ThreatPoint(side)) /\ (num >= 3 \/ Defended(Rows(side), xy, side))
    BY <2>1 DEF DefendForMultiThreat
  <2>3. Defended(Rows(side), xy, side)
    BY <1>5, <2>2
  <2>4. Meet(xy, Threats(side))
    BY <2>2, <2>3, ThreatPairs, DefendMeets
  <2> QED
    BY <1>2, <1>3, <2>4 DEF Meet
<1>6. CASE num = 1
  <2>1. Answers(side, TRUE, others) = DefendForSingleThreat(side, TRUE, others)
    BY <1>6 DEF Answers
  <2> HIDE DEF least, num
  <2>9. least <= 1
    BY <1>4, <1>6
  <2>2. PICK x : Meet({x}, Threats(side))
    BY <1>4, <2>9
  <2>3. x \in ThreatPoint(side)
    BY <1>3, <2>2, LineThreats DEF Meet
  <2>4. \A p \in ThreatPoint(side) : Leaves(p, side) <=> ~Meet({p}, Threats(side))
    BY LeavesIs, ThreatPointsVacant
  <2>5. x \in Meeting(side)
    BY <2>2, <2>3, <2>4 DEF Meeting
  <2>6. PICK p \in Meeting(side) : xy \in {{p, q} : q \in others \ {p}}
    BY <2>1, <2>5 DEF DefendForSingleThreat
  <2>7. p \in xy /\ p \in ThreatPoint(side) /\ ~Leaves(p, side)
    BY <2>6 DEF Meeting
  <2>8. Meet({p}, Threats(side))
    BY <2>4, <2>7
  <2> QED
    BY <1>2, <1>3, <2>7, <2>8 DEF Meet
<1> HIDE DEF least, num
<1> QED
  BY <1>4, <1>5, <1>6

-----------------------------------------------------------------------------
(* The game *)

\* The invariant of the game: that of the position, without calls of the search.
GInv == PInv /\ frames = <<>>

\* Without calls the board is that of the steps.
LEMMA BoardShown ==
  ASSUME Good, frames = <<>>
  PROVE  Board = shown /\ shown \in [Point -> Stone] /\ Board \in [Point -> Stone]
<1>1. shown \in [Point -> Stone] /\ Board = Layers(shown, frames, 1 .. Len(frames))
  BY DEF Good, Types
<1> QED
  BY <1>1, NoCalls

\* A position is looked at while the game goes on.
LEMMA GoingQuiet == GInv /\ Going => Quiet
BY DEF GInv, PInv, Going, Quiet

\* Two places in the order of UniquePoint.
LEMMA TwoInOrder ==
  ASSUME NEW x \in Point, NEW y \in Point, x # y
  PROVE  \E a, b \in Point : InOrder({x, y}) = <<a, b>> /\ a # b /\ {a, b} = {x, y}
<1> DEFINE S == {x, y}
           list == InOrder(S)
<1>1. S \in SUBSET Pair
  BY Cells
<1>2. IsFiniteSet(S) /\ Cardinality(S) = 2
  BY CountTwo
<1> HIDE DEF S
<1>3. /\ list \in Seq(S) /\ Len(list) = 2
      /\ \A m, n \in 1 .. 2 : list[m] = list[n] => m = n
  BY <1>1, <1>2, InOrderElements
<1> HIDE DEF list
<1>4. list = <<list[1], list[2]>> /\ list[1] \in S /\ list[2] \in S /\ list[1] # list[2]
  <2>1. 1 \in 1 .. 2 /\ 2 \in 1 .. 2 /\ 1 # 2
    OBVIOUS
  <2>2. list[1] # list[2]
    BY <1>3, <2>1
  <2>3. list \in Seq(S) /\ Len(list) = 2
    BY <1>3
  <2>4. list[1] \in S /\ list[2] \in S
    BY <2>3
  <2>5. list = <<list[1], list[2]>>
    BY <2>3
  <2> QED
    BY <2>2, <2>4, <2>5
<1>5. {list[1], list[2]} = {x, y} /\ list[1] \in Point /\ list[2] \in Point
  BY <1>4 DEF S
<1> QED
  BY <1>4, <1>5 DEF list, S

\* The human is one of the sides.
LEMMA HumanSide ==
  ASSUME Good
  PROVE  Human \in Side /\ NEXT(Human) = ComputerColor
<1>1. ComputerColor \in Side
  BY DEF Good, Types
<1> QED
  BY <1>1, Sides DEF Human

\* An answer is a step of two empty places.
LEMMA AnswerStep ==
  ASSUME GInv, NEW second \in BOOLEAN, Answer(second)
  PROVE  /\ Quiet /\ Open(2) /\ StepID > 0 /\ Player = ComputerColor
         /\ \E others \in SUBSET Vacant : \E xy \in Answers(Human, second, others) : \E a, b \in Vacant :
              a # b /\ xy = {a, b} /\ Play(Board, <<a, b>>)
<1>1. Asked /\ Open(2)
  BY DEF Answer
<1>2. Quiet /\ StepID > 0 /\ Player = ComputerColor
  BY <1>1, GoingQuiet DEF Asked, Thinking
<1>3. Free \in SUBSET Vacant
  BY BoardAssumption DEF Free, Vacant
<1>4. PICK xy \in Answers(Human, second, Free) : Play(Board, InOrder(xy))
  BY DEF Answer
<1>5. Human \in Side
  BY <1>2, HumanSide DEF Quiet
<1>6. PICK x \in Vacant, y \in Vacant : x # y /\ xy = {x, y}
  BY <1>2, <1>3, <1>5, AnswerTwo
<1>7. x \in Point /\ y \in Point
  BY DEF Vacant
<1>8. PICK a \in Point, b \in Point : InOrder({x, y}) = <<a, b>> /\ a # b /\ {a, b} = {x, y}
  BY <1>6, <1>7, TwoInOrder
<1>9. a \in Vacant /\ b \in Vacant
  BY <1>6, <1>8
<1>10. a # b /\ xy = {a, b} /\ Play(Board, <<a, b>>)
  BY <1>4, <1>6, <1>8
<1> QED
  BY <1>1, <1>2, <1>3, <1>9, <1>10

\* It holds at the start.
LEMMA InitGInv == Init => GInv
BY InitPInv DEF Init, GInv

\* Each step of the game keeps it: all but the answers are steps of Position.
LEMMA NextGInv == GInv /\ [Game]_vars => GInv'
<1> SUFFICES ASSUME GInv, [Game]_vars PROVE GInv'
  OBVIOUS
<1>1. PInv /\ frames = <<>>
  BY DEF GInv
<1>2. CASE UNCHANGED vars
  <2>1. PInv'
    BY <1>1, <1>2, NextPInv
  <2> QED
    BY <1>1, <1>2, <2>1 DEF GInv, vars
<1>3. CASE Opening \/ HumanMove \/ StrangeMove \/ WinMove \/ \E p \in Area : HumanOpening(p)
  <2>1. PInv'
    BY <1>1, <1>3, NextPInv DEF Next
  <2>2. frames' = frames
    BY <1>3 DEF Opening, HumanMove, StrangeMove, WinMove, HumanOpening, Play
  <2> QED
    BY <1>1, <2>1, <2>2 DEF GInv
<1>4. ASSUME NEW second \in BOOLEAN, Answer(second) PROVE GInv'
  <2>1. Quiet /\ Open(2) /\ StepID > 0
    BY <1>4, AnswerStep
  <2>2. PICK a \in Vacant, b \in Vacant : a # b /\ Play(Board, <<a, b>>)
    BY <1>4, AnswerStep
  <2> DEFINE points == <<a, b>>
  <2>3. Good /\ frames = <<>> /\ StepID # 0 /\ Board = shown
    BY <2>1, BoardShown DEF Quiet, Good, Types
  <2>4. a \in Point /\ b \in Point /\ Board[a] = EMPTY /\ Board[b] = EMPTY
    BY DEF Vacant
  <2>5. /\ points \in Seq(Point) /\ Len(points) = 2 /\ points[1] # points[2]
        /\ \A p \in Range(points) : shown[p] = EMPTY
    BY <2>2, <2>3, <2>4, TwoPlaces
  <2>6. Play(Board, points)
    BY <2>2
  <2> HIDE DEF points
  <2>7. frames' = frames
    BY <2>6 DEF Play
  <2>8. PInv'
    BY <2>3, <2>5, <2>6, PlayKeeps
  <2> QED
    BY <1>1, <2>7, <2>8 DEF GInv
<1> QED
  BY <1>2, <1>3, <1>4 DEF Game

\* The invariant of the game.
THEOREM GameInvariant == GameSpec => []GInv
BY InitGInv, NextGInv, PTL DEF GameSpec

-----------------------------------------------------------------------------
(* The results *)

\* A position is never taken for lost, nor two threats seen, where fewer stones
\* meet them: the lines are added up only if no place is on two that threaten,
\* and else EnsureThreatNum tries all places that could meet them.
THEOREM NeverMoreHolds == GameSpec => []NeverMore
<1>1. GInv => NeverMore
  <2> SUFFICES ASSUME GInv, Going, NEW side \in Side, Least(Threats(side)) < 3
               PROVE  ThreatNum(side) <= Least(Threats(side))
    BY DEF NeverMore
  <2> QED
    BY GoingQuiet, NumNever
<1> QED
  BY <1>1, GameInvariant, PTL

\* No threat is overlooked, unless a row lacks places on the border only: what
\* two lines need together is no more than their sum, and EnsureThreatNum finds
\* from a place off the border every row that a threat is about.
THEOREM NeverLessHolds == GameSpec => []NeverLess
<1>1. GInv => NeverLess
  <2> SUFFICES ASSUME GInv, Going, NEW side \in Side, Inner(side)
               PROVE  ThreatNum(side) >= Least(Threats(side))
    BY DEF NeverLess
  <2> QED
    BY GoingQuiet, NumLess
<1> QED
  BY <1>1, GameInvariant, PTL

\* The list of DefendForMultiThreat, of which ComputerMove takes the first step
\* unseen, is never empty: where two stones are said to be enough, two threat
\* points leave no row.
THEOREM AnswerThereHolds == GameSpec => []AnswerThere
<1>1. GInv => AnswerThere
  <2> DEFINE num == ThreatNum(Human)
  <2> SUFFICES ASSUME GInv, Asked, num >= 2 PROVE DefendForMultiThreat(Human, num) # {}
    BY DEF AnswerThere
  <2>1. Going /\ Quiet
    BY GoingQuiet DEF Asked
  <2>2. Human \in Side
    BY <2>1, HumanSide DEF Quiet
  <2> QED
    BY <2>1, <2>2, MultiThere
<1> QED
  BY <1>1, GameInvariant, PTL

\* After the answer to what one or two stones meet, no threat of the human is on
\* the board, unless there was one on the border or no threat point that meets it
\* had a second place.
THEOREM AnswerMeetsHolds == GameSpec => AnswerMeets
<1>1. ASSUME GInv, Answer(TRUE), Inner(Human), Least(Threats(Human)) < 3 PROVE Threats(Human)' = {}
  <2>1. Quiet /\ Player = ComputerColor
    BY <1>1, AnswerStep
  <2>2. PICK others \in SUBSET Vacant : \E xy \in Answers(Human, TRUE, others) : \E a, b \in Vacant :
              a # b /\ xy = {a, b} /\ Play(Board, <<a, b>>)
    BY <1>1, AnswerStep
  <2>3. PICK xy \in Answers(Human, TRUE, others), a \in Vacant, b \in Vacant :
              xy = {a, b} /\ Play(Board, <<a, b>>)
    BY <2>2
  <2> DEFINE H == Human
  <2>4. H \in Side /\ NEXT(H) = ComputerColor /\ Human' = H
    BY <2>1, <2>3, HumanSide DEF Quiet, Human, Play
  <2>5. Board' = With(Board, xy, NEXT(H))
    <3>1. Range(<<a, b>>) = {a, b}
      BY DEF Range
    <3>2. Board' = Put(Board, <<a, b>>, Player)
      BY <2>3 DEF Play, Place
    <3> QED
      BY <2>1, <2>3, <2>4, <3>1, <3>2 DEF Put, With
  <2>6. Board' \in [Point -> Stone]
    <3>1. Board \in [Point -> Stone]
      BY <2>1 DEF Quiet, Good, Types
    <3> QED
      BY <2>4, <2>5, <3>1, Sides, WithIs
  <2>7. Threats(Human)' = UNION {WaysOf(Board', id, H) : id \in LineIDs}
    BY <2>4 DEF Threats, WaysOf
  <2> SUFFICES ASSUME NEW id \in LineIDs, NEW X \in WaysOf(Board', id, H) PROVE FALSE
    BY <2>7
  <2>8. PICK c \in Point, k \in Angle : Way(Board', c, k, H, X)
    BY <2>4, <2>6, WaysAre
  <2>9. Way(With(Board, xy, NEXT(H)), c, k, H, X)
    BY <2>5, <2>8
  <2> QED
    BY <1>1, <2>1, <2>3, <2>4, <2>9, AnswerLeaves
<1>2. GInv /\ [Game]_vars => [Answer(TRUE) /\ Inner(Human) /\ Least(Threats(Human)) < 3 => Threats(Human)' = {}]_vars
  BY <1>1
<1> QED
  BY <1>2, GameInvariant, PTL DEF GameSpec, AnswerMeets
=============================================================================
