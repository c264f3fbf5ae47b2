----------------------------- MODULE ZoneProofs -----------------------------
(***************************************************************************)
(* The zone of a node on the mesh, for any number of nodes, any payloads,  *)
(* any places, and whatever the air does with the frames.                  *)
(*                                                                         *)
(* A frame is right when it denotes an order that somebody composed, by    *)
(* the author it is read under.  That is what passes from the store of one *)
(* node to that of another, through as many relays as there are.  And as   *)
(* long as all rooms are the same, every number that travels is the one    *)
(* composed or the next even one, however often it is encoded again.       *)
(***************************************************************************)
EXTENDS Zone, FiniteSetTheorems, SequenceTheorems, WellFoundedInduction, TLAPS

Kind == {"waypoint", "graphic", "remove", "ack", "text", "clear"}
Refers == {"remove", "ack"}
Points == {s \in Seq(Point) : Len(s) >= 2}

-----------------------------------------------------------------------------
(* Minima, folds and functions defined by recursion.                       *)

LEMMA Least ==
  ASSUME NEW T, T \subseteq Nat, T # {}
  PROVE  \E x \in T : \A y \in T : x <= y
<1> DEFINE R == OpToRel(<, Nat)
<1>1. IsWellFoundedOn(R, Nat)
  BY NatLessThanWellFounded
<1>2. ASSUME NEW x \in Nat, NEW y \in Nat, y < x PROVE <<y, x>> \in R
  BY <1>2 DEF OpToRel
<1> HIDE DEF R
<1>3. PICK x \in T : \A y \in T : ~ (<<y, x>> \in R)
  BY <1>1, WFMin
<1>4. ASSUME NEW y \in T PROVE x <= y
  <2>1. x \in Nat /\ y \in Nat
    OBVIOUS
  <2>2. ~ (y < x)
    BY <1>2, <1>3, <2>1
  <2> QED
    BY <2>1, <2>2
<1> QED
  BY <1>4

LEMMA MinOfSet ==
  ASSUME NEW T, T \subseteq Nat, T # {}
  PROVE  Min(T) \in T
<1>1. \E x \in T : \A y \in T : x <= y
  BY Least
<1> QED
  BY <1>1 DEF Min

LEMMA Smaller ==
  ASSUME NEW a \in Nat, NEW b \in Nat
  PROVE  Cut(a, b) \in Nat
<1>1. Min({a, b}) \in {a, b}
  <2>1. {a, b} \subseteq Nat /\ {a, b} # {}
    OBVIOUS
  <2> QED
    BY <2>1, MinOfSet
<1> QED
  BY <1>1 DEF Cut

\* The sum of a function over a finite set, as the fold computes it.
Added(fun, f, U) ==
  IF U = {} THEN 0
  ELSE LET x == CHOOSE x \in U : TRUE IN fun[x] + f[U \ {x}]

SumUpTo(fun, S, n) ==
  \E f : f = [U \in {V \in SUBSET S : Cardinality(V) <= n} |-> Added(fun, f, U)]

LEMMA SumUpToAll ==
  ASSUME NEW fun, NEW S, IsFiniteSet(S), NEW n \in Nat
  PROVE  SumUpTo(fun, S, n)
<1> DEFINE Small(k) == {V \in SUBSET S : Cardinality(V) <= k}
           Bad == {k \in Nat : ~ SumUpTo(fun, S, k)}
<1>1. \A U \in SUBSET S : IsFiniteSet(U) /\ Cardinality(U) \in Nat
  BY FS_Subset, FS_CardinalityType
<1>2. SumUpTo(fun, S, 0)
  <2> DEFINE f == [U \in Small(0) |-> 0]
  <2>1. ASSUME NEW U \in Small(0) PROVE U = {}
    BY <1>1, FS_EmptySet
  <2>2. f = [U \in Small(0) |-> Added(fun, f, U)]
    BY <2>1 DEF Added
  <2> QED
    BY <2>2 DEF SumUpTo
<1>3. ASSUME NEW k \in Nat, SumUpTo(fun, S, k) PROVE SumUpTo(fun, S, k + 1)
  <2>1. PICK f : f = [U \in Small(k) |-> Added(fun, f, U)]
    BY <1>3 DEF SumUpTo
  <2> DEFINE g == [U \in Small(k + 1) |-> Added(fun, f, U)]
  <2>2. ASSUME NEW U \in Small(k + 1) PROVE Added(fun, f, U) = Added(fun, g, U)
    <3>1. CASE U = {}
      BY <3>1 DEF Added
    <3>2. CASE U # {}
      <4> DEFINE x == CHOOSE x \in U : TRUE
                 V == U \ {x}
      <4>1. x \in U /\ U \in SUBSET S /\ Cardinality(U) <= k + 1
        BY <3>2
      <4>2. Cardinality(V) = Cardinality(U) - 1
        BY <1>1, <4>1, FS_RemoveElement
      <4>3. V \in Small(k) /\ V \in Small(k + 1)
        BY <1>1, <4>1, <4>2
      <4>4. f[V] = Added(fun, f, V) /\ g[V] = Added(fun, f, V)
        BY <2>1, <4>3
      <4> HIDE DEF g
      <4> QED
        BY <3>2, <4>4 DEF Added
    <3> QED
      BY <3>1, <3>2
  <2>3. g = [U \in Small(k + 1) |-> Added(fun, g, U)]
    <3>1. \A U \in Small(k + 1) : Added(fun, f, U) = Added(fun, g, U)
      BY <2>2
    <3> DEFINE h == [U \in Small(k + 1) |-> Added(fun, g, U)]
    <3>2. \A U \in Small(k + 1) : g[U] = h[U]
      BY <3>1
    <3> QED
      BY <3>2
  <2> QED
    BY <2>3 DEF SumUpTo
<1>4. Bad = {}
  <2> SUFFICES ASSUME Bad # {} PROVE FALSE
    OBVIOUS
  <2>1. PICK k \in Bad : \A j \in Bad : k <= j
    <3>1. Bad \subseteq Nat
      OBVIOUS
    <3> HIDE DEF Bad
    <3> QED
      BY <3>1, Least
  <2>2. k # 0 /\ k \in Nat
    BY <1>2
  <2>3. k - 1 \in Nat /\ k - 1 \notin Bad
    BY <2>1, <2>2
  <2>4. SumUpTo(fun, S, (k - 1) + 1)
    BY <1>3, <2>3
  <2> QED
    BY <2>1, <2>2, <2>4
<1> QED
  BY <1>4

LEMMA SumIsNumber ==
  ASSUME NEW S, IsFiniteSet(S), NEW fun, \A x \in S : fun[x] \in Nat
  PROVE  FoldFunctionOnSet(+, 0, fun, S) \in Nat
<1> DEFINE Eq(f) == f = [U \in SUBSET S |-> Added(fun, f, U)]
           fold == CHOOSE f : Eq(f)
<1>1. \A U \in SUBSET S : IsFiniteSet(U) /\ Cardinality(U) \in Nat
  BY FS_Subset, FS_CardinalityType
<1>2. Eq(fold)
  <2>1. Cardinality(S) \in Nat /\ SumUpTo(fun, S, Cardinality(S))
    BY FS_CardinalityType, SumUpToAll
  <2>2. {V \in SUBSET S : Cardinality(V) <= Cardinality(S)} = SUBSET S
    BY FS_Subset
  <2>3. \E f : Eq(f)
    BY <2>1, <2>2 DEF SumUpTo
  <2> HIDE DEF Eq
  <2> QED
    BY <2>3
<1>3. FoldFunctionOnSet(+, 0, fun, S) = fold[S]
  BY DEF FoldFunctionOnSet, MapThenFoldSet, Added
<1> DEFINE Bad == {k \in Nat : \E U \in SUBSET S : Cardinality(U) = k /\ fold[U] \notin Nat}
<1> HIDE DEF fold
<1>4. Bad = {}
  <2> SUFFICES ASSUME Bad # {} PROVE FALSE
    OBVIOUS
  <2>1. PICK k \in Bad : \A j \in Bad : k <= j
    <3>1. Bad \subseteq Nat
      OBVIOUS
    <3> HIDE DEF Bad
    <3> QED
      BY <3>1, Least
  <2>2. PICK U \in SUBSET S : Cardinality(U) = k /\ fold[U] \notin Nat
    OBVIOUS
  <2>3. fold[U] = Added(fun, fold, U)
    BY <1>2
  <2>4. U # {}
    BY <2>2, <2>3 DEF Added
  <2> DEFINE x == CHOOSE x \in U : TRUE
             V == U \ {x}
  <2>5. x \in U
    BY <2>4
  <2>6. Cardinality(V) = Cardinality(U) - 1 /\ V \in SUBSET S
    BY <1>1, <2>5, FS_RemoveElement
  <2>7. fold[U] = fun[x] + fold[V]
    BY <2>3, <2>4 DEF Added
  <2> HIDE DEF x
  <2>8. fold[V] \notin Nat
    BY <2>2, <2>5, <2>7
  <2>9. Cardinality(V) \in Nat /\ Cardinality(U) \in Nat /\ Cardinality(V) \in Bad
    BY <1>1, <2>6, <2>8
  <2>10. k <= Cardinality(V)
    BY <2>1, <2>9
  <2> HIDE DEF V
  <2> QED
    BY <2>2, <2>6, <2>9, <2>10
<1>5. Cardinality(S) \in Nat /\ S \in SUBSET S
  BY FS_CardinalityType
<1>6. fold[S] \in Nat
  <2> SUFFICES ASSUME fold[S] \notin Nat PROVE FALSE
    OBVIOUS
  <2>1. Cardinality(S) \in Bad
    BY <1>5
  <2> QED
    BY <1>4, <2>1
<1> QED
  BY <1>3, <1>6

-----------------------------------------------------------------------------
(* Numbers that travel: what is read is the number meant, rounded up to an *)
(* even one, be it encoded once or more.                                   *)

Up(v) == 2 * ((v + 1) \div 2)
UpPoint(p) == <<Up(p[1]), Up(p[2])>>

LEMMA UpIs ==
  ASSUME NEW v \in Int
  PROVE  Up(v) \in Int /\ Up(Up(v)) = Up(v) /\ Abs(Up(v) - v) <= 1 /\ Abs(v - v) <= 1
  BY DEF Up, Abs

LEMMA RoundedIs ==
  ASSUME NEW v \in Int, NEW r \in Int
  PROVE  Rounded(v) \in Int /\ Rounded(v) - r \in Int
         /\ 2 * (r + (Rounded(v) - r)) = Up(v)
         /\ Rounded(v - 2 * r) \in Int /\ 2 * (r + Rounded(v - 2 * r)) = Up(v)
  BY DEF Rounded, Up

LEMMA OffsetIs ==
  ASSUME NEW a \in Point, NEW p \in Point
  PROVE  Offset(a, p) \in Point /\ Place(a, p) \in Point /\ UpPoint(p) \in Point
         /\ Place(a, Offset(a, p)) = UpPoint(p) /\ UpPoint(UpPoint(p)) = UpPoint(p)
<1>1. a[1] \in Int /\ a[2] \in Int /\ p[1] \in Int /\ p[2] \in Int
  BY DEF Point
<1> DEFINE o == Offset(a, p)
<1>2. o = [i \in 1 .. 2 |-> Rounded(p[i] - 2 * a[i])]
  BY DEF Offset
<1>3. /\ Rounded(p[1] - 2 * a[1]) \in Int /\ Rounded(p[2] - 2 * a[2]) \in Int
      /\ 2 * (a[1] + Rounded(p[1] - 2 * a[1])) = Up(p[1])
      /\ 2 * (a[2] + Rounded(p[2] - 2 * a[2])) = Up(p[2])
  BY <1>1, RoundedIs
<1>4. o[1] \in Int /\ o[2] \in Int /\ o \in Int \X Int
  BY <1>2, <1>3
<1>5. Place(a, o) = [i \in 1 .. 2 |-> 2 * (a[i] + o[i])]
  BY DEF Place
<1>6. Place(a, o) = <<2 * (a[1] + o[1]), 2 * (a[2] + o[2])>>
  BY <1>5
<1>7. Place(a, o) = UpPoint(p)
  BY <1>2, <1>3, <1>6 DEF UpPoint
<1>8. Place(a, p) = [i \in 1 .. 2 |-> 2 * (a[i] + p[i])]
  BY DEF Place
<1>9. Place(a, p) \in Int \X Int
  BY <1>1, <1>8
<1>10. /\ Up(p[1]) \in Int /\ Up(p[2]) \in Int
       /\ Up(Up(p[1])) = Up(p[1]) /\ Up(Up(p[2])) = Up(p[2])
  BY <1>1, UpIs
<1>11. UpPoint(p) \in Int \X Int /\ UpPoint(UpPoint(p)) = UpPoint(p)
  BY <1>10 DEF UpPoint
<1> QED
  BY <1>4, <1>7, <1>9, <1>11 DEF Point

LEMMA WidthIs ==
  ASSUME NEW v \in Int
  PROVE  ZigzagWidth(v) \in Nat
<1> DEFINE u == IF v < 0 THEN -2 * v - 1 ELSE 2 * v
<1>1. u \in Int
  OBVIOUS
<1> HIDE DEF u
<1>2. (CASE u < 128 -> 1 [] u >= 128 /\ u < 16384 -> 2
        [] u >= 16384 /\ u < 2097152 -> 3 [] OTHER -> 4) \in Nat
  BY <1>1
<1> QED
  BY <1>2 DEF ZigzagWidth, u

-----------------------------------------------------------------------------
(* Lines: their geometry in a frame, and their thinning.                   *)

Geom == [rect : {TRUE}, offs : {s \in Seq(Point) : Len(s) = 2}, size : Nat]
          \cup [rect : {FALSE}, offs : Points, size : Nat]

LEMMA ListOfPoints ==
  ASSUME NEW m \in Nat, NEW s, s = [i \in 1 .. m |-> s[i]], \A i \in 1 .. m : s[i] \in Point
  PROVE  s \in Seq(Point) /\ Len(s) = m
<1>1. s \in [1 .. m -> Point] /\ DOMAIN s = 1 .. m
  OBVIOUS
<1> QED
  BY <1>1

LEMMA GeometryIs ==
  ASSUME NEW g, g.polygon \in BOOLEAN, NEW offs \in Points
  PROVE  LET geom == Geometry(g, offs)
         IN  /\ geom \in Geom /\ Vertices(geom) \in Points
             /\ Vertices(geom)[1] = offs[1]
             /\ ~ g.polygon => Vertices(geom) = offs
<1>1. offs \in Seq(Point) /\ Len(offs) \in Nat /\ Len(offs) >= 2
  BY DEF Points
<1>2. \A i \in 1 .. Len(offs) : offs[i] \in Point /\ offs[i][1] \in Int /\ offs[i][2] \in Int
  BY <1>1 DEF Point
<1>3. CASE g.polygon /\ IsRect(offs)
  <2>1. Len(Corners(offs)) = 4
    BY <1>3 DEF IsRect
  <2>2. Len(offs) >= 4
    <3>1. CASE Len(offs) = 5
      BY <3>1
    <3>2. CASE Len(offs) # 5
      <4>1. Corners(offs) = offs
        BY <3>2 DEF Corners
      <4>2. Len(offs) = 4
        BY <2>1, <4>1
      <4> QED
        BY <4>2
    <3> QED
      BY <3>1, <3>2
  <2>3. offs[1] \in Point /\ offs[3] \in Point
    BY <1>1, <1>2, <2>2
  <2> DEFINE a == offs[1]
             c == offs[3]
             s == <<a, c>>
             geom == [rect |-> TRUE, offs |-> s, size |-> 8]
             v == <<a, <<c[1], a[2]>>, c, <<a[1], c[2]>>, a>>
  <2>4. Geometry(g, offs) = geom
    BY <1>3 DEF Geometry
  <2>5. s \in Seq(Point) /\ Len(s) = 2 /\ s[1] = a /\ s[2] = c
    BY <2>3
  <2>6. geom \in Geom
    <3> HIDE DEF s
    <3> QED
      BY <2>5 DEF Geom
  <2>7. <<c[1], a[2]>> \in Point /\ <<a[1], c[2]>> \in Point
    BY <2>3 DEF Point
  <2>8. v \in Seq(Point) /\ Len(v) = 5 /\ v[1] = a
    <3> HIDE DEF a, c
    <3> QED
      BY <2>3, <2>7 DEF a, c
  <2>9. Vertices(geom) = v
    BY <2>5 DEF Vertices
  <2>10. v \in Points
    <3>1. v \in Seq(Point) /\ Len(v) >= 2
      BY <2>8
    <3> HIDE DEF v
    <3> QED
      BY <3>1 DEF Points
  <2> HIDE DEF v, geom
  <2> QED
    BY <1>3, <2>4, <2>6, <2>8, <2>9, <2>10
<1>4. CASE ~ (g.polygon /\ IsRect(offs))
  <2> DEFINE step == [i \in 2 .. Len(offs) |->
                        ZigzagWidth(offs[i][1] - offs[i - 1][1])
                        + ZigzagWidth(offs[i][2] - offs[i - 1][2])]
             sum == FoldFunctionOnSet(+, 0, step, 2 .. Len(offs))
             geom == [rect |-> FALSE, offs |-> offs, size |-> 5 + sum]
  <2>1. Geometry(g, offs) = geom
    BY <1>4 DEF Geometry
  <2>2. ASSUME NEW i \in 2 .. Len(offs) PROVE step[i] \in Nat
    <3>1. i \in 1 .. Len(offs) /\ i - 1 \in 1 .. Len(offs)
      BY <1>1
    <3>2. /\ offs[i][1] - offs[i - 1][1] \in Int
          /\ offs[i][2] - offs[i - 1][2] \in Int
      BY <1>2, <3>1
    <3>3. /\ ZigzagWidth(offs[i][1] - offs[i - 1][1]) \in Nat
          /\ ZigzagWidth(offs[i][2] - offs[i - 1][2]) \in Nat
      BY <3>2, WidthIs
    <3> QED
      BY <3>3
  <2>3. IsFiniteSet(2 .. Len(offs))
    BY <1>1, FS_Interval
  <2> HIDE DEF step
  <2>4. sum \in Nat
    BY <2>2, <2>3, SumIsNumber
  <2> HIDE DEF sum
  <2>5. geom \in Geom /\ Vertices(geom) = offs
    BY <2>4 DEF Geom, Vertices
  <2> QED
    BY <2>1, <2>5
<1> QED
  BY <1>3, <1>4

LEMMA DropKeepsEnds ==
  ASSUME NEW s \in Points
  PROVE  LET d == DropLeastSignificant(s)
         IN  d \in Points /\ d[1] = s[1] /\ d[Len(d)] = s[Len(s)]
<1>1. s \in Seq(Point) /\ Len(s) \in Nat /\ Len(s) >= 2
  BY DEF Points
<1>2. CASE Len(s) <= 3
  BY <1>2 DEF DropLeastSignificant
<1>3. CASE Len(s) > 3
  <2> DEFINE inner == 2 .. Len(s) - 1
             area(i) == Area(s[i - 1], s[i], s[i + 1])
             best == {i \in inner : \A j \in inner : area(i) <= area(j)}
  <2>1. ASSUME NEW i \in inner PROVE area(i) \in Nat
    <3>1. i - 1 \in 1 .. Len(s) /\ i \in 1 .. Len(s) /\ i + 1 \in 1 .. Len(s)
      BY <1>1
    <3>2. s[i - 1] \in Point /\ s[i] \in Point /\ s[i + 1] \in Point
      BY <1>1, <3>1
    <3>3. ASSUME NEW a \in Point, NEW b \in Point, NEW c \in Point PROVE Area(a, b, c) \in Nat
      <4>1. /\ a[1] \in Int /\ a[2] \in Int /\ b[1] \in Int /\ b[2] \in Int
            /\ c[1] \in Int /\ c[2] \in Int
        BY DEF Point
      <4>2. (b[1] - a[1]) * (c[2] - a[2]) - (c[1] - a[1]) * (b[2] - a[2]) \in Int
        <5>1. \A x, y \in Int : x * y \in Int /\ x - y \in Int
          OBVIOUS
        <5>2. /\ b[1] - a[1] \in Int /\ c[2] - a[2] \in Int
              /\ c[1] - a[1] \in Int /\ b[2] - a[2] \in Int
          BY <4>1, <5>1
        <5>3. /\ (b[1] - a[1]) * (c[2] - a[2]) \in Int
              /\ (c[1] - a[1]) * (b[2] - a[2]) \in Int
          BY <5>1, <5>2
        <5> QED
          BY <5>1, <5>3
      <4>3. \A v \in Int : Abs(v) \in Nat
        BY DEF Abs
      <4> QED
        BY <4>2, <4>3 DEF Area
    <3> QED
      BY <3>2, <3>3
  <2>2. best # {}
    <3> DEFINE T == {area(i) : i \in inner}
    <3>1. T \subseteq Nat
      BY <2>1
    <3>2. 2 \in inner
      BY <1>1, <1>3
    <3>3. T # {}
      BY <3>2
    <3>4. PICK x \in T : \A y \in T : x <= y
      <4> HIDE DEF T
      <4> QED
        BY <3>1, <3>3, Least
    <3>5. PICK i \in inner : x = area(i)
      OBVIOUS
    <3>6. \A j \in inner : area(j) \in T
      OBVIOUS
    <3> HIDE DEF T
    <3> QED
      BY <3>4, <3>5, <3>6
  <2> DEFINE k == Min(best)
  <2>3. k \in inner
    <3>1. best \subseteq Nat
      OBVIOUS
    <3>2. best \subseteq inner
      OBVIOUS
    <3> HIDE DEF best
    <3> QED
      BY <2>2, <3>1, <3>2, MinOfSet
  <2>4. DropLeastSignificant(s) = RemoveAt(s, k)
    BY <1>1, <1>3 DEF DropLeastSignificant
  <2> HIDE DEF k
  <2> DEFINE a == SubSeq(s, 1, k - 1)
             b == SubSeq(s, k + 1, Len(s))
  <2>5. k \in Nat /\ 2 <= k /\ k <= Len(s) - 1
    BY <1>1, <2>3
  <2>6. a \in Seq(Point) /\ Len(a) = k - 1 /\ a[1] = s[1]
    BY <1>1, <2>5, SubSeqProperties
  <2>7. b \in Seq(Point) /\ Len(b) = Len(s) - k /\ b[Len(s) - k] = s[Len(s)]
    BY <1>1, <2>5, SubSeqProperties
  <2>8. RemoveAt(s, k) = a \o b
    BY DEF RemoveAt
  <2> HIDE DEF a, b
  <2>9. /\ a \o b \in Seq(Point) /\ Len(a \o b) = Len(s) - 1
        /\ (a \o b)[1] = s[1] /\ (a \o b)[Len(s) - 1] = s[Len(s)]
    <3>1. /\ a \o b \in Seq(Point) /\ Len(a \o b) = Len(a) + Len(b)
          /\ \A i \in 1 .. Len(a) + Len(b) :
               (a \o b)[i] = IF i <= Len(a) THEN a[i] ELSE b[i - Len(a)]
      BY <2>6, <2>7, ConcatProperties
    <3>2. Len(a) + Len(b) = Len(s) - 1
      BY <1>1, <2>5, <2>6, <2>7
    <3>3. (a \o b)[1] = a[1]
      BY <1>1, <1>3, <2>5, <2>6, <3>1, <3>2
    <3>4. Len(s) - 1 > Len(a) /\ (Len(s) - 1) - Len(a) = Len(s) - k /\ Len(s) - 1 \in 1 .. Len(s) - 1
      BY <1>1, <2>5, <2>6
    <3>5. (a \o b)[Len(s) - 1] = b[(Len(s) - 1) - Len(a)]
      BY <1>1, <2>5, <2>6, <3>1, <3>2, <3>4
    <3> QED
      BY <2>6, <2>7, <3>1, <3>2, <3>3, <3>4, <3>5
  <2> QED
    BY <1>1, <1>3, <2>4, <2>8, <2>9 DEF Points
<1> QED
  BY <1>1, <1>2, <1>3

\* The lines that encodeOrderFitted tries, one vertex less each time.
Thinning(s, f, k) == IF k = 0 THEN s ELSE DropLeastSignificant(f[k - 1])

LEMMA ThinningExists ==
  ASSUME NEW s, NEW n \in Nat
  PROVE  \E f : f = [k \in 0 .. n |-> Thinning(s, f, k)]
<1> DEFINE Good(m) == \E f : f = [k \in 0 .. m |-> Thinning(s, f, k)]
           Bad == {m \in Nat : ~ Good(m)}
<1>1. Good(0)
  <2> DEFINE f == [k \in 0 .. 0 |-> s]
  <2>1. f = [k \in 0 .. 0 |-> Thinning(s, f, k)]
    BY DEF Thinning
  <2> QED
    BY <2>1
<1>2. ASSUME NEW m \in Nat, Good(m) PROVE Good(m + 1)
  <2>1. PICK f : f = [k \in 0 .. m |-> Thinning(s, f, k)]
    BY <1>2
  <2> DEFINE g == [k \in 0 .. m + 1 |-> Thinning(s, f, k)]
  <2>2. ASSUME NEW k \in 0 .. m PROVE f[k] = g[k]
    BY <2>1
  <2>3. ASSUME NEW k \in 0 .. m + 1 PROVE Thinning(s, f, k) = Thinning(s, g, k)
    <3>1. k = 0 \/ (k # 0 /\ k - 1 \in 0 .. m)
      OBVIOUS
    <3> HIDE DEF g
    <3> QED
      BY <2>2, <3>1 DEF Thinning
  <2>4. g = [k \in 0 .. m + 1 |-> Thinning(s, g, k)]
    <3> DEFINE h == [k \in 0 .. m + 1 |-> Thinning(s, g, k)]
    <3>1. \A k \in 0 .. m + 1 : g[k] = h[k]
      BY <2>3
    <3> QED
      BY <3>1
  <2> QED
    BY <2>4
<1>3. Bad = {}
  <2> SUFFICES ASSUME Bad # {} PROVE FALSE
    OBVIOUS
  <2>1. PICK m \in Bad : \A j \in Bad : m <= j
    <3>1. Bad \subseteq Nat
      OBVIOUS
    <3> HIDE DEF Bad
    <3> QED
      BY <3>1, Least
  <2>2. m \in Nat /\ ~ Good(m)
    OBVIOUS
  <2>3. m # 0
    BY <1>1, <2>2
  <2>4. m - 1 \in Nat /\ m - 1 \notin Bad
    BY <2>1, <2>2, <2>3
  <2>5. Good((m - 1) + 1)
    BY <1>2, <2>4
  <2>6. (m - 1) + 1 = m
    BY <2>2
  <2> HIDE DEF Good
  <2> QED
    BY <2>2, <2>5, <2>6
<1> QED
  BY <1>3

LEMMA ThinnedKeepsEnds ==
  ASSUME NEW s \in Points, NEW n \in Nat,
         NEW f, f = [k \in 0 .. n |-> Thinning(s, f, k)], NEW i \in 0 .. n
  PROVE  f[i] \in Points /\ f[i][1] = s[1] /\ f[i][Len(f[i])] = s[Len(s)]
<1> DEFINE Good(k) == f[k] \in Points /\ f[k][1] = s[1] /\ f[k][Len(f[k])] = s[Len(s)]
           Bad == {k \in 0 .. n : ~ Good(k)}
<1>1. \A k \in 0 .. n : f[k] = Thinning(s, f, k)
  OBVIOUS
<1>2. Bad = {}
  <2> SUFFICES ASSUME Bad # {} PROVE FALSE
    OBVIOUS
  <2>1. PICK k \in Bad : \A j \in Bad : k <= j
    <3>1. Bad \subseteq Nat
      OBVIOUS
    <3> HIDE DEF Bad
    <3> QED
      BY <3>1, Least
  <2>2. k \in 0 .. n /\ ~ Good(k) /\ f[k] = Thinning(s, f, k)
    BY <1>1
  <2>3. k # 0
    BY <2>2 DEF Thinning
  <2>4. k - 1 \in 0 .. n /\ k - 1 \notin Bad
    BY <2>1, <2>2, <2>3
  <2>5. Good(k - 1)
    BY <2>4
  <2>6. f[k] = DropLeastSignificant(f[k - 1])
    BY <2>2, <2>3 DEF Thinning
  <2> QED
    BY <2>2, <2>5, <2>6, DropKeepsEnds
<1> QED
  BY <1>2

-----------------------------------------------------------------------------
(* The codec: what is read of an order is the order, rounded.              *)

Order == [id : Node \X Nat, ts : Int, payload : Payload]

\* The frame of an order that is not relayed.
Framed(f) ==
  /\ f.op \in Kind /\ f.seq \in Nat /\ f.dt \in Int /\ f.size \in Int
  /\ f.op = "waypoint" => f.content.off \in Point /\ f.content.name \in Nat
  /\ f.op = "graphic" => /\ Vertices(f.content.geom) \in Points
                         /\ f.content.polygon \in BOOLEAN /\ f.content.label \in Nat
  /\ f.op = "text" => f.content \in Nat
  /\ f.op = "clear" => f.content \in Int

\* What a frame says when it is read under this author.
Target(f, author) == <<IF f.content.own THEN author ELSE f.content.node, f.content.seq>>

Read(f, room, author) ==
  [id |-> <<author, f.seq>>, ts |-> 2 * (room.epoch + f.dt),
   payload |-> DecodePayload(f, room, author)]

\* A frame that tells what o is, author apart, in this room.
Tells(f, room, o) ==
  /\ f.op = o.payload.kind /\ f.seq = o.id[2]
  /\ 2 * (room.epoch + f.dt) = Up(o.ts)
  /\ f.op = "waypoint" => Place(room.anchor, f.content.off) = UpPoint(o.payload.at)
  /\ f.op = "clear" => 2 * (room.epoch + f.content) = Up(o.payload.before)
  /\ f.op = "graphic" =>
       LET v == Vertices(f.content.geom)
       IN  /\ f.content.polygon = o.payload.polygon
           /\ Place(room.anchor, v[1]) = UpPoint(o.payload.points[1])
           /\ ~ o.payload.polygon =>
                Place(room.anchor, Last(v)) = UpPoint(Last(o.payload.points))
  /\ f.op \in Refers => Target(f, o.id[1]) = o.payload.target

LEMMA PayloadIs ==
  ASSUME NEW p \in Payload
  PROVE  /\ p.kind \in Kind
         /\ p.kind = "waypoint" => p.at \in Point /\ p.name \in Nat
         /\ p.kind = "graphic" => p.polygon \in BOOLEAN /\ p.label \in Nat /\ p.points \in Points
         /\ p.kind \in Refers => p.target \in Node \X Nat
         /\ p.kind = "text" => p.body \in Nat
         /\ p.kind = "clear" => p.before \in Int
  BY DEF Payload, Kind, Refers, Points

LEMMA SizedIs ==
  ASSUME NEW o \in Order, NEW room \in Room, NEW content, NEW size \in Int, NEW budget,
         Sized(o, room, content, size, budget) # None
  PROVE  LET f == Sized(o, room, content, size, budget)
         IN  /\ f.op = o.payload.kind /\ f.seq = o.id[2] /\ f.content = content
             /\ f.seq \in Nat /\ f.dt \in Int /\ f.size \in Int
             /\ f.size <= budget
             /\ 2 * (room.epoch + f.dt) = Up(o.ts)
<1> DEFINE dt == Rounded(o.ts) - room.epoch
           total == 3 + ZigzagWidth(dt) + size
           f == [op |-> o.payload.kind, seq |-> o.id[2], dt |-> dt,
                 content |-> content, size |-> total]
<1>1. o.ts \in Int /\ o.id[2] \in Nat /\ room.epoch \in Int
  BY DEF Order, Room
<1>2. dt \in Int /\ 2 * (room.epoch + dt) = Up(o.ts)
  BY <1>1, RoundedIs
<1>3. total \in Int
  <2> HIDE DEF dt
  <2>1. ZigzagWidth(dt) \in Nat
    BY <1>2, WidthIs
  <2> QED
    BY <2>1
<1>4. Sized(o, room, content, size, budget) = f /\ total <= budget
  BY DEF Sized
<1> HIDE DEF dt, total
<1> QED
  BY <1>1, <1>2, <1>3, <1>4

LEMMA EncodeTells ==
  ASSUME NEW o \in Order, NEW room \in Room, NEW budget, EncodeOrder(o, room, budget) # None
  PROVE  LET f == EncodeOrder(o, room, budget)
         IN  Framed(f) /\ Tells(f, room, o) /\ f.size <= budget
<1> DEFINE p == o.payload
           f == EncodeOrder(o, room, budget)
<1>1. p \in Payload /\ o.id \in Node \X Nat /\ room.anchor \in Point /\ room.epoch \in Int
  BY DEF Order, Room
<1>2. CASE p.kind = "waypoint"
  <2> DEFINE off == Offset(room.anchor, p.at)
             content == [off |-> off, name |-> Cut(p.name, 48)]
             size == 6 + Cut(p.name, 48)
  <2>1. f = Sized(o, room, content, size, budget) /\ f # None
    BY <1>2 DEF EncodeOrder
  <2>2. off \in Point /\ Place(room.anchor, off) = UpPoint(p.at)
    BY <1>1, <1>2, PayloadIs, OffsetIs
  <2>3. Cut(p.name, 48) \in Nat
    BY <1>1, <1>2, PayloadIs, Smaller
  <2>4. size \in Int /\ content.off = off /\ content.name \in Nat
    BY <2>3
  <2> HIDE DEF f, content, size
  <2>5. Framed(f) /\ Tells(f, room, o) /\ f.size <= budget
    BY <1>2, <2>1, <2>2, <2>4, SizedIs DEF Framed, Tells, Kind, Refers
  <2> QED
    BY <2>5 DEF f
<1>3. CASE p.kind = "graphic"
  <2> DEFINE offs == [i \in 1 .. Len(p.points) |-> Offset(room.anchor, p.points[i])]
             geom == Geometry(p, offs)
             content == [geom |-> geom, polygon |-> p.polygon, label |-> Cut(p.label, 32)]
             size == 2 + geom.size + (IF p.label > 0 THEN 1 + Cut(p.label, 32) ELSE 0)
             v == Vertices(geom)
  <2>1. f = Sized(o, room, content, size, budget) /\ f # None
    BY <1>3 DEF EncodeOrder
  <2>2. p.points \in Points /\ p.polygon \in BOOLEAN /\ p.label \in Nat
    BY <1>1, <1>3, PayloadIs
  <2>3. p.points \in Seq(Point) /\ Len(p.points) \in Nat /\ Len(p.points) >= 2
    BY <2>2 DEF Points
  <2>4. ASSUME NEW i \in 1 .. Len(p.points)
        PROVE  offs[i] \in Point /\ Place(room.anchor, offs[i]) = UpPoint(p.points[i])
    <3>1. p.points[i] \in Point
      BY <2>3
    <3> QED
      BY <1>1, <3>1, OffsetIs
  <2>5. offs \in Points /\ Len(offs) = Len(p.points)
    <3>1. offs = [i \in 1 .. Len(p.points) |-> offs[i]]
      OBVIOUS
    <3> HIDE DEF offs
    <3>2. offs \in Seq(Point) /\ Len(offs) = Len(p.points)
      BY <2>3, <2>4, <3>1, ListOfPoints
    <3> QED
      BY <2>3, <3>2 DEF Points
  <2> HIDE DEF offs
  <2>6. geom \in Geom /\ v \in Points /\ v[1] = offs[1] /\ (~ p.polygon => v = offs)
    BY <2>2, <2>5, GeometryIs
  <2>7. geom.size \in Nat
    BY <2>6 DEF Geom
  <2>8. Cut(p.label, 32) \in Nat
    BY <2>2, Smaller
  <2> HIDE DEF geom
  <2>9. size \in Int /\ content.geom = geom /\ content.polygon = p.polygon /\ content.label \in Nat
    BY <2>2, <2>7, <2>8
  <2>10. /\ Place(room.anchor, v[1]) = UpPoint(p.points[1])
         /\ ~ p.polygon => Place(room.anchor, Last(v)) = UpPoint(Last(p.points))
    <3>1. 1 \in 1 .. Len(p.points) /\ Len(p.points) \in 1 .. Len(p.points)
      BY <2>3
    <3> QED
      BY <2>4, <2>5, <2>6, <3>1 DEF Last
  <2> HIDE DEF f, content, size
  <2>11. Framed(f)
    BY <1>3, <2>1, <2>2, <2>6, <2>9, SizedIs DEF Framed, Kind
  <2>12. Tells(f, room, o) /\ f.size <= budget
    BY <1>3, <2>1, <2>9, <2>10, SizedIs DEF Tells, Refers
  <2> QED
    BY <2>11, <2>12 DEF f
<1>4. CASE p.kind \in Refers
  <2>1. f = Sized(o, room, Ref(o), Ref(o).size, budget) /\ f # None
    BY <1>4 DEF EncodeOrder, Refers
  <2>2. p.target \in Node \X Nat
    BY <1>1, <1>4, PayloadIs
  <2>3. Ref(o).size \in Int
    BY DEF Ref
  <2> HIDE DEF f
  <2>4. /\ f.op = p.kind /\ f.seq = o.id[2] /\ f.content = Ref(o)
        /\ f.seq \in Nat /\ f.dt \in Int /\ f.size \in Int
        /\ f.size <= budget
        /\ 2 * (room.epoch + f.dt) = Up(o.ts)
    BY <2>1, <2>3, SizedIs
  <2>5. Target(f, o.id[1]) = p.target
    <3>1. p.target = <<p.target[1], p.target[2]>>
      BY <2>2
    <3>2. /\ f.content.own = (p.target[1] = o.id[1]) /\ f.content.seq = p.target[2]
          /\ p.target[1] # o.id[1] => f.content.node = p.target[1]
      BY <2>4 DEF Ref
    <3> QED
      BY <3>1, <3>2 DEF Target
  <2>6. Framed(f) /\ Tells(f, room, o) /\ f.size <= budget
    BY <1>4, <2>4, <2>5 DEF Framed, Tells, Kind, Refers
  <2> QED
    BY <2>6 DEF f
<1>5. CASE p.kind = "text"
  <2> DEFINE content == Cut(p.body, 180)
             size == 1 + Cut(p.body, 180)
  <2>1. f = Sized(o, room, content, size, budget) /\ f # None
    BY <1>5 DEF EncodeOrder
  <2>2. content \in Nat
    <3>1. p.body \in Nat
      BY <1>1, <1>5, PayloadIs
    <3> QED
      BY <3>1, Smaller
  <2>3. size \in Int
    BY <2>2
  <2> HIDE DEF f, content, size
  <2>4. Framed(f) /\ Tells(f, room, o) /\ f.size <= budget
    BY <1>5, <2>1, <2>2, <2>3, SizedIs DEF Framed, Tells, Kind, Refers
  <2> QED
    BY <2>4 DEF f
<1>6. CASE p.kind = "clear"
  <2> DEFINE before == Rounded(p.before) - room.epoch
             size == ZigzagWidth(before)
  <2>1. f = Sized(o, room, before, size, budget) /\ f # None
    BY <1>6 DEF EncodeOrder
  <2>2. before \in Int /\ 2 * (room.epoch + before) = Up(p.before)
    BY <1>1, <1>6, PayloadIs, RoundedIs
  <2> HIDE DEF f, before
  <2>3. size \in Int
    BY <2>2, WidthIs
  <2> HIDE DEF size
  <2>4. Framed(f) /\ Tells(f, room, o) /\ f.size <= budget
    BY <1>6, <2>1, <2>2, <2>3, SizedIs DEF Framed, Tells, Kind, Refers
  <2> QED
    BY <2>4 DEF f
<1> QED
  BY <1>1, <1>2, <1>3, <1>4, <1>5, <1>6, PayloadIs DEF Kind, Refers

LEMMA FittedTells ==
  ASSUME NEW o \in Order, NEW room \in Room, NEW budget, EncodeOrderFitted(o, room, budget) # None
  PROVE  LET f == EncodeOrderFitted(o, room, budget)
         IN  Framed(f) /\ Tells(f, room, o) /\ f.size <= budget
<1>1. CASE o.payload.kind # "graphic"
  BY <1>1, EncodeTells DEF EncodeOrderFitted
<1>2. CASE o.payload.kind = "graphic"
  <2> DEFINE p == o.payload
             n == Len(p.points)
             Eq(g) == g = [k \in 0 .. n |-> Thinning(p.points, g, k)]
             thinned == CHOOSE g : Eq(g)
             thin(k) == [o EXCEPT !.payload.points = thinned[k]]
             f == EncodeOrderFitted(o, room, budget)
  <2>1. p \in Payload /\ p.points \in Points /\ n \in Nat
    <3>1. p \in Payload
      BY DEF Order
    <3>2. p.points \in Points
      BY <1>2, <3>1, PayloadIs
    <3> QED
      BY <3>1, <3>2 DEF Points
  <2>2. Eq(thinned)
    <3>1. \E g : Eq(g)
      BY <2>1, ThinningExists
    <3> HIDE DEF Eq
    <3> QED
      BY <3>1
  <2>3. \E k \in 0 .. n : f = EncodeOrder(thin(k), room, budget)
    <3> DEFINE encoded(k) == EncodeOrder(thin(k), room, budget)
               firstFit(k) == encoded(k) # None /\ \A j \in 0 .. k - 1 : encoded(j) = None
    <3>1. f = IF \E k \in 0 .. n : firstFit(k)
                THEN encoded(CHOOSE k \in 0 .. n : firstFit(k)) ELSE None
      BY <1>2 DEF EncodeOrderFitted, Thinning
    <3> HIDE DEF f, thinned, firstFit
    <3>2. \E k \in 0 .. n : firstFit(k)
      BY <3>1 DEF f
    <3>3. (CHOOSE k \in 0 .. n : firstFit(k)) \in 0 .. n
      BY <3>2
    <3> HIDE DEF encoded
    <3>4. f = encoded(CHOOSE k \in 0 .. n : firstFit(k))
      BY <3>1, <3>2
    <3> QED
      BY <3>3, <3>4 DEF encoded
  <2>4. PICK k \in 0 .. n : f = EncodeOrder(thin(k), room, budget)
    BY <2>3
  <2> HIDE DEF f, thinned
  <2>5. /\ thinned[k] \in Points /\ thinned[k][1] = p.points[1]
        /\ thinned[k][Len(thinned[k])] = p.points[Len(p.points)]
    BY <2>1, <2>2, ThinnedKeepsEnds
  <2> DEFINE q == thin(k)
             r == [p EXCEPT !.points = thinned[k]]
  <2>6. q = [o EXCEPT !.payload = r]
    OBVIOUS
  <2>7. /\ r \in Payload /\ r.kind = "graphic" /\ r.polygon = p.polygon /\ r.points = thinned[k]
    <3>1. p \in [kind : {"graphic"}, polygon : BOOLEAN, label : Nat, points : Points]
      BY <1>2, <2>1 DEF Payload, Points
    <3>2. r \in [kind : {"graphic"}, polygon : BOOLEAN, label : Nat, points : Points]
      BY <2>5, <3>1
    <3>3. r \in Payload
      BY <3>2 DEF Payload, Points
    <3> QED
      BY <3>1, <3>3
  <2> HIDE DEF r
  <2>8. q \in Order /\ q.payload = r /\ q.id = o.id /\ q.ts = o.ts
    BY <2>6, <2>7 DEF Order
  <2> HIDE DEF q
  <2>9. f # None /\ f = EncodeOrder(q, room, budget)
    BY <2>4 DEF f, q
  <2>10. Framed(f) /\ Tells(f, room, q) /\ f.size <= budget
    BY <2>8, <2>9, EncodeTells
  <2>11. Tells(f, room, o)
    BY <1>2, <2>5, <2>7, <2>8, <2>10 DEF Tells, Refers, Last
  <2> QED
    BY <2>10, <2>11 DEF f
<1> QED
  BY <1>1, <1>2

-----------------------------------------------------------------------------
(* Orders and frames that mean what somebody composed.                     *)

Same(o, a) ==
  /\ o.id = a.id /\ o.payload.kind = a.payload.kind
  /\ a.payload.kind \in Refers => o.payload.target = a.payload.target

Meant(o, A) == \E a \in A : Same(o, a)

Distinct(A) == \A a, b \in A : a.id = b.id => a = b

\* An order of the codec, in an envelope or not.
Carried(p) == p.frame.op \in Kind \cup {"relay"}
Inner(p) == IF p.frame.op = "relay" THEN p.frame.inner ELSE p.frame
Writer(p) == IF p.frame.op = "relay" THEN p.frame.author ELSE p.from

Right(f, author, A) ==
  \E a \in A : /\ a.id = <<author, f.seq>> /\ f.op = a.payload.kind
               /\ a.payload.kind \in Refers => Target(f, author) = a.payload.target

RightFrame(p, A) ==
  /\ p.from \in Node /\ p.frame.size <= MaxPayload
  /\ p.frame.op \in Kind \cup {"relay", "anchor", "user", "position"}
  /\ Carried(p) => Framed(Inner(p)) /\ Writer(p) \in Node /\ Right(Inner(p), Writer(p), A)
  /\ p.frame.op = "anchor" => \E r \in Room : p.frame = AnchorFrame(r)
  /\ p.frame.op = "position" => p.frame \in Fix

\* The number composed, or what becomes of it on the way.
AsMeant(v, w) == v = w \/ v = Up(w)
AsMeantAt(p, q) == p = q \/ p = UpPoint(q)

Close(o, a) ==
  /\ AsMeant(o.ts, a.ts)
  /\ a.payload.kind = "waypoint" => AsMeantAt(o.payload.at, a.payload.at)
  /\ a.payload.kind = "clear" => AsMeant(o.payload.before, a.payload.before)
  /\ a.payload.kind = "graphic" =>
       /\ o.payload.polygon = a.payload.polygon
       /\ AsMeantAt(o.payload.points[1], a.payload.points[1])
       /\ ~ a.payload.polygon => AsMeantAt(Last(o.payload.points), Last(a.payload.points))

HeldClose(o, A) == \A a \in A : a.id = o.id => Close(o, a)

ReadsClose(p, room, A) == HeldClose(DecodeOrder(p.frame, room, p.from), A)

LEMMA AsMeantIsUp ==
  ASSUME NEW w \in Int, NEW v, AsMeant(v, w)
  PROVE  v \in Int /\ Up(v) = Up(w) /\ Abs(v - w) <= 1
  BY UpIs DEF AsMeant

LEMMA AsMeantAtIsUp ==
  ASSUME NEW q \in Point, NEW p, AsMeantAt(p, q)
  PROVE  UpPoint(p) = UpPoint(q) /\ Near(p, q)
<1>1. UpPoint(p) = UpPoint(q)
  BY OffsetIs DEF AsMeantAt
<1>2. q[1] \in Int /\ q[2] \in Int
  BY DEF Point
<1>3. AsMeant(p[1], q[1]) /\ AsMeant(p[2], q[2])
  BY DEF AsMeantAt, AsMeant, UpPoint
<1>4. Abs(p[1] - q[1]) <= 1 /\ Abs(p[2] - q[2]) <= 1
  BY <1>2, <1>3, AsMeantIsUp
<1> QED
  BY <1>1, <1>4 DEF Near

LEMMA OrderIs ==
  ASSUME NEW o \in Order
  PROVE  /\ o.id \in Node \X Nat /\ o.ts \in Int /\ o.payload \in Payload
         /\ o.id = <<o.id[1], o.id[2]>> /\ o.id[1] \in Node /\ o.id[2] \in Nat
  BY DEF Order

LEMMA DecodedIsMeant ==
  ASSUME NEW A \in SUBSET Order, NEW p, RightFrame(p, A), Carried(p), NEW room \in Room
  PROVE  LET o == DecodeOrder(p.frame, room, p.from)
         IN  o \in Order /\ Meant(o, A)
<1> DEFINE f == Inner(p)
           author == Writer(p)
           o == DecodeOrder(p.frame, room, p.from)
           q == DecodePayload(f, room, author)
<1>1. Framed(f) /\ author \in Node /\ Right(f, author, A)
  BY DEF RightFrame
<1>2. o = [id |-> <<author, f.seq>>, ts |-> 2 * (room.epoch + f.dt), payload |-> q]
  BY DEF DecodeOrder, Inner, Writer
<1> HIDE DEF f, author, o
<1>3. PICK a \in A : /\ a.id = <<author, f.seq>> /\ f.op = a.payload.kind
                     /\ a.payload.kind \in Refers => Target(f, author) = a.payload.target
  BY <1>1 DEF Right
<1>4. a.payload \in Payload
  BY OrderIs
<1>5. room.anchor \in Point /\ room.epoch \in Int
  BY DEF Room
<1>6. q \in Payload /\ q.kind = f.op /\ (f.op \in Refers => q.target = Target(f, author))
  <2>1. CASE f.op = "waypoint"
    <3> DEFINE at == Place(room.anchor, f.content.off)
    <3>1. q = [kind |-> "waypoint", at |-> at, name |-> f.content.name]
      BY <2>1 DEF DecodePayload
    <3>2. at \in Point /\ f.content.name \in Nat
      BY <1>1, <1>5, <2>1, OffsetIs DEF Framed
    <3> HIDE DEF at, q
    <3> QED
      BY <2>1, <3>1, <3>2 DEF Payload, Refers
  <2>2. CASE f.op = "graphic"
    <3> DEFINE v == Vertices(f.content.geom)
               pts == [i \in 1 .. Len(v) |-> Place(room.anchor, v[i])]
    <3>1. q = [kind |-> "graphic", polygon |-> f.content.polygon, label |-> f.content.label,
               points |-> pts]
      BY <2>2 DEF DecodePayload
    <3>2. v \in Points /\ f.content.polygon \in BOOLEAN /\ f.content.label \in Nat
      BY <1>1, <2>2 DEF Framed
    <3> HIDE DEF v
    <3>3. v \in Seq(Point) /\ Len(v) \in Nat /\ Len(v) >= 2
      BY <3>2 DEF Points
    <3>4. ASSUME NEW i \in 1 .. Len(v) PROVE pts[i] \in Point
      <4>1. v[i] \in Point
        BY <3>3
      <4> QED
        BY <1>5, <4>1, OffsetIs
    <3>5. pts = [i \in 1 .. Len(v) |-> pts[i]]
      OBVIOUS
    <3> HIDE DEF pts, q
    <3>6. pts \in Seq(Point) /\ Len(pts) = Len(v)
      BY <3>3, <3>4, <3>5, ListOfPoints
    <3>7. pts \in {s \in Seq(Point) : Len(s) >= 2}
      BY <3>3, <3>6
    <3> QED
      BY <2>2, <3>1, <3>2, <3>7 DEF Payload, Refers
  <2>3. CASE f.op \in Refers
    <3>1. q = [kind |-> f.op, target |-> Target(f, author)]
      BY <2>3 DEF DecodePayload, Target, Refers
    <3>2. Target(f, author) \in Node \X Nat
      BY <1>3, <1>4, <2>3, PayloadIs
    <3> HIDE DEF q
    <3> QED
      BY <2>3, <3>1, <3>2 DEF Payload, Refers
  <2>4. CASE f.op = "text"
    <3>1. q = [kind |-> "text", body |-> f.content] /\ f.content \in Nat
      BY <1>1, <2>4 DEF DecodePayload, Framed
    <3> HIDE DEF q
    <3> QED
      BY <2>4, <3>1 DEF Payload, Refers
  <2>5. CASE f.op = "clear"
    <3>1. q = [kind |-> "clear", before |-> 2 * (room.epoch + f.content)] /\ f.content \in Int
      BY <1>1, <2>5 DEF DecodePayload, Framed
    <3>2. 2 * (room.epoch + f.content) \in Int
      BY <1>5, <3>1
    <3> HIDE DEF q
    <3> QED
      BY <2>5, <3>1, <3>2 DEF Payload, Refers
  <2> QED
    BY <1>1, <2>1, <2>2, <2>3, <2>4, <2>5 DEF Framed, Kind, Refers
<1> HIDE DEF q
<1>7. 2 * (room.epoch + f.dt) \in Int /\ f.seq \in Nat
  BY <1>1, <1>5 DEF Framed
<1>8. o \in Order
  BY <1>1, <1>2, <1>6, <1>7 DEF Order
<1>9. Same(o, a)
  BY <1>2, <1>3, <1>6 DEF Same
<1> QED
  BY <1>8, <1>9 DEF Meant, o

\* A frame that tells o is read as o, to the next even numbers.
LEMMA DecodedIsClose ==
  ASSUME NEW o \in Order, NEW a \in Order, NEW room \in Room, NEW p,
         o.payload.kind = a.payload.kind, Close(o, a),
         Carried(p), Framed(Inner(p)), Tells(Inner(p), room, o)
  PROVE  Close(DecodeOrder(p.frame, room, p.from), a)
<1> DEFINE f == Inner(p)
           author == Writer(p)
           d == DecodeOrder(p.frame, room, p.from)
           q == DecodePayload(f, room, author)
<1>1. d.ts = 2 * (room.epoch + f.dt) /\ d.payload = q
  BY DEF DecodeOrder, Inner, Writer
<1>2. a.ts \in Int /\ a.payload \in Payload
  BY OrderIs
<1>3. AsMeant(d.ts, a.ts)
  BY <1>1, <1>2, AsMeantIsUp DEF Close, Tells, AsMeant
<1> HIDE DEF d
<1>4. CASE a.payload.kind = "waypoint"
  <2>1. q.at = Place(room.anchor, f.content.off)
    BY <1>4 DEF Tells, DecodePayload
  <2>2. a.payload.at \in Point
    BY <1>2, <1>4, PayloadIs
  <2>3. AsMeantAt(q.at, a.payload.at)
    BY <1>4, <2>1, <2>2, AsMeantAtIsUp DEF Close, Tells, AsMeantAt
  <2> HIDE DEF q
  <2> QED
    BY <1>1, <1>3, <1>4, <2>3 DEF Close, d
<1>5. CASE a.payload.kind = "clear"
  <2>1. q.before = 2 * (room.epoch + f.content)
    BY <1>5 DEF Tells, DecodePayload
  <2>2. a.payload.before \in Int
    BY <1>2, <1>5, PayloadIs
  <2>3. AsMeant(q.before, a.payload.before)
    BY <1>5, <2>1, <2>2, AsMeantIsUp DEF Close, Tells, AsMeant
  <2> HIDE DEF q
  <2> QED
    BY <1>1, <1>3, <1>5, <2>3 DEF Close, d
<1>6. CASE a.payload.kind = "graphic"
  <2> DEFINE v == Vertices(f.content.geom)
  <2>1. /\ q.polygon = f.content.polygon
        /\ q.points = [i \in 1 .. Len(v) |-> Place(room.anchor, v[i])]
    BY <1>6 DEF Tells, DecodePayload
  <2>2. v \in Points
    BY <1>6 DEF Tells, Framed
  <2>3. Len(v) \in Nat /\ Len(v) >= 2
    BY <2>2 DEF Points
  <2>4. a.payload.points \in Seq(Point) /\ Len(a.payload.points) \in Nat
        /\ Len(a.payload.points) >= 2
    BY <1>2, <1>6, PayloadIs DEF Points
  <2>5. a.payload.points[1] \in Point /\ Last(a.payload.points) \in Point
    BY <2>4 DEF Last
  <2> HIDE DEF v, q
  <2>6. Len(q.points) = Len(v) /\ q.points[1] = Place(room.anchor, v[1])
        /\ Last(q.points) = Place(room.anchor, Last(v))
    BY <2>1, <2>3 DEF Last
  <2>7. f.content.polygon = o.payload.polygon /\ o.payload.polygon = a.payload.polygon
    BY <1>6 DEF Tells, Close
  <2>8. AsMeantAt(q.points[1], a.payload.points[1])
    BY <1>6, <2>5, <2>6, AsMeantAtIsUp DEF Close, Tells, AsMeantAt, v
  <2>9. ~ a.payload.polygon => AsMeantAt(Last(q.points), Last(a.payload.points))
    BY <1>6, <2>5, <2>6, <2>7, AsMeantAtIsUp DEF Close, Tells, AsMeantAt, v
  <2> QED
    BY <1>1, <1>3, <1>6, <2>1, <2>7, <2>8, <2>9 DEF Close, d
<1>7. CASE a.payload.kind \notin {"waypoint", "clear", "graphic"}
  BY <1>3, <1>7 DEF Close, d
<1> QED
  BY <1>4, <1>5, <1>6, <1>7

\* What a node makes of an order it holds.
LEMMA EncodedIsRight ==
  ASSUME NEW n \in Node, NEW A \in SUBSET Order, Distinct(A), NEW o \in Order, Meant(o, A),
         NEW room \in Room, EncodedBy(n, o, room) # None
  PROVE  LET p == [from |-> n, frame |-> EncodedBy(n, o, room)]
         IN  /\ RightFrame(p, A) /\ Carried(p)
             /\ HeldClose(o, A) => ReadsClose(p, room, A)
<1> DEFINE f == EncodedBy(n, o, room)
           p == [from |-> n, frame |-> f]
<1>1. PICK a \in A : Same(o, a)
  BY DEF Meant
<1>2. o.id = <<o.id[1], o.id[2]>> /\ o.id[1] \in Node /\ a.id = o.id
  BY <1>1, OrderIs DEF Same
<1>3. /\ p.from = n /\ p.frame = f /\ f.size <= MaxPayload
      /\ f.op \in Kind \cup {"relay"}
      /\ Writer(p) = o.id[1] /\ Framed(Inner(p)) /\ Tells(Inner(p), room, o)
  <2>1. CASE o.id[1] = n
    <3>1. f = EncodeOrderFitted(o, room, MaxPayload) /\ f # None
      BY <2>1 DEF EncodedBy
    <3> HIDE DEF f
    <3>2. Framed(f) /\ Tells(f, room, o) /\ f.size <= MaxPayload
      BY <3>1, FittedTells
    <3>3. f.op \in Kind /\ f.op # "relay"
      BY <3>2 DEF Framed, Kind
    <3>4. Writer(p) = n /\ Inner(p) = f
      BY <3>3 DEF Writer, Inner
    <3> QED
      BY <2>1, <3>2, <3>3, <3>4
  <2>2. CASE o.id[1] # n
    <3> DEFINE inner == EncodeOrderFitted(o, room, RelayInnerBudget)
    <3>1. f = EncodeRelay(o.id[1], inner) /\ inner # None
      BY <2>2 DEF EncodedBy
    <3> HIDE DEF f, inner
    <3>2. Framed(inner) /\ Tells(inner, room, o) /\ inner.size <= RelayInnerBudget
      BY <3>1, FittedTells DEF inner
    <3>3. f.op = "relay" /\ f.author = o.id[1] /\ f.inner = inner
          /\ f.size = inner.size + RelayOverhead
      BY <3>1 DEF EncodeRelay
    <3>4. f.size <= MaxPayload
      BY <3>2, <3>3, ZoneAssumption DEF Framed, RelayInnerBudget, RelayOverhead
    <3>5. Writer(p) = o.id[1] /\ Inner(p) = inner
      BY <3>3 DEF Writer, Inner
    <3> QED
      BY <3>2, <3>3, <3>4, <3>5
  <2> QED
    BY <2>1, <2>2
<1>4. Carried(p)
  BY <1>3 DEF Carried
<1>5. Right(Inner(p), Writer(p), A)
  BY <1>1, <1>2, <1>3 DEF Right, Tells, Same
<1>6. RightFrame(p, A)
  <2>1. f.op # "anchor" /\ f.op # "position"
    BY <1>3 DEF Kind
  <2> HIDE DEF f
  <2> QED
    BY <1>2, <1>3, <1>5, <2>1 DEF RightFrame
<1>7. ASSUME HeldClose(o, A) PROVE ReadsClose(p, room, A)
  <2>1. DecodeOrder(p.frame, room, p.from).id = <<Writer(p), Inner(p).seq>>
    BY DEF DecodeOrder, Inner, Writer
  <2>2. DecodeOrder(p.frame, room, p.from).id = o.id
    BY <1>2, <1>3, <2>1 DEF Tells
  <2> HIDE DEF p
  <2>3. ASSUME NEW b \in A, b.id = o.id PROVE Close(DecodeOrder(p.frame, room, p.from), b)
    <3>1. Close(o, b) /\ b \in Order
      BY <1>7, <2>3 DEF HeldClose
    <3>2. b = a
      BY <1>2, <2>3 DEF Distinct
    <3>3. o.payload.kind = b.payload.kind
      BY <1>1, <3>2 DEF Same
    <3> QED
      BY <1>3, <1>4, <3>1, <3>3, DecodedIsClose DEF p
  <2> QED
    BY <2>2, <2>3 DEF ReadsClose, HeldClose
<1> QED
  BY <1>4, <1>6, <1>7

-----------------------------------------------------------------------------
(* The inductive invariant.                                                *)

RoomOf(f) == [anchor |-> f.anchor, epoch |-> f.epoch]

\* A set of frames whose anchors are the same, and one that is read as meant.
Consistent(F) ==
  \A p, q \in F : p.frame.op = "anchor" /\ q.frame.op = "anchor" => p.frame = q.frame

AllRight(F, A) == \A p \in F : RightFrame(p, A)

AllRead(F, A) ==
  \A p, q \in F : Carried(p) /\ q.frame.op = "anchor" => ReadsClose(p, RoomOf(q.frame), A)

\* Nothing is sent before an anchor is.
AnchorFirst(F) ==
  (\E p \in F : Carried(p)) => \E q \in F : q.frame.op = "anchor"

Types ==
  /\ time \in 0 .. MaxTime
  /\ rooms \in [Node -> Room \cup {None}]
  /\ authored \in SUBSET Order
  /\ pending \in [Node -> Seq(authored)]
  /\ orders \in [Node -> SUBSET Order]
  /\ DOMAIN unread = Node
  /\ fixes \in [Node -> Nat] /\ \A n \in Node : fixes[n] <= MaxFixes[n]
  /\ attaches \in [Node -> Nat]

Numbered ==
  /\ Distinct(authored)
  /\ \A n \in Node : /\ IsFiniteSet(Composed(n))
                     /\ \A a \in Composed(n) : a.id[2] < Cardinality(Composed(n))

Stored ==
  \A n \in Node : Distinct(orders[n]) /\ \A o \in orders[n] : Meant(o, authored)

Waiting ==
  \A n \in Node : /\ rooms[n] # None => pending[n] = <<>>
                  /\ \A op \in unread[n] : \E p \in air : p.frame.op = op

Anchored ==
  /\ AnchorFirst(air)
  /\ \A n \in Node : rooms[n] # None => \E q \in air : q.frame = AnchorFrame(rooms[n])

Faithful ==
  Consistent(air) =>
    /\ \A n \in Node : \A o \in orders[n] : HeldClose(o, authored)
    /\ AllRead(air, authored)

Core ==
  Types /\ Numbered /\ Stored /\ AllRight(air, authored) /\ Waiting /\ Anchored /\ Faithful

-----------------------------------------------------------------------------
(* Stores and frames.                                                      *)

LEMMA RoomOfAnchor ==
  ASSUME NEW r \in Room
  PROVE  AnchorFrame(r).op = "anchor" /\ AnchorFrame(r).size = AnchorBytes
         /\ RoomOf(AnchorFrame(r)) = r
  BY DEF AnchorFrame, RoomOf, Room

LEMMA MeantGrows ==
  ASSUME NEW A, NEW B, A \subseteq B
  PROVE  /\ \A o : Meant(o, A) => Meant(o, B)
         /\ \A p : RightFrame(p, A) => RightFrame(p, B)
<1>1. \A o : Meant(o, A) => Meant(o, B)
  BY DEF Meant
<1>2. \A f, author : Right(f, author, A) => Right(f, author, B)
  BY DEF Right
<1> QED
  BY <1>1, <1>2 DEF RightFrame

\* An order that means something composed does so whatever is composed later.
LEMMA CloseGrows ==
  ASSUME NEW A, NEW B, A \subseteq B, Distinct(B), NEW o, Meant(o, A), HeldClose(o, A)
  PROVE  HeldClose(o, B)
  BY DEF Meant, Same, HeldClose, Distinct

LEMMA ReadGrows ==
  ASSUME NEW A \in SUBSET Order, NEW B \in SUBSET Order, A \subseteq B, Distinct(B),
         NEW F, AllRight(F, A), AllRead(F, A)
  PROVE  AllRead(F, B)
<1> SUFFICES ASSUME NEW p \in F, NEW q \in F, Carried(p), q.frame.op = "anchor"
             PROVE  ReadsClose(p, RoomOf(q.frame), B)
  BY DEF AllRead
<1>1. PICK r \in Room : q.frame = AnchorFrame(r)
  BY DEF AllRight, RightFrame
<1>2. RoomOf(q.frame) = r
  BY <1>1, RoomOfAnchor
<1>3. Meant(DecodeOrder(p.frame, r, p.from), A)
  BY DecodedIsMeant DEF AllRight
<1>4. HeldClose(DecodeOrder(p.frame, r, p.from), A)
  BY <1>2 DEF AllRead, ReadsClose
<1> QED
  BY <1>2, <1>3, <1>4, CloseGrows DEF ReadsClose

\* More frames, that were written in room r, and an anchor of that room.
LEMMA MoreIsRead ==
  ASSUME NEW A \in SUBSET Order, NEW F, NEW N, NEW r \in Room,
         AnchorFirst(F), AllRead(F, A), Consistent(F \cup N),
         \A p \in N : Carried(p) => ReadsClose(p, r, A),
         \E q \in F \cup N : q.frame = AnchorFrame(r)
  PROVE  AllRead(F \cup N, A)
<1> SUFFICES ASSUME NEW p \in F \cup N, NEW q \in F \cup N, Carried(p), q.frame.op = "anchor"
             PROVE  ReadsClose(p, RoomOf(q.frame), A)
  BY DEF AllRead
<1>1. q.frame = AnchorFrame(r) /\ RoomOf(q.frame) = r
  BY RoomOfAnchor DEF Consistent
<1>2. CASE p \in N
  BY <1>1, <1>2
<1>3. CASE p \in F
  <2>1. PICK s \in F : s.frame.op = "anchor"
    BY <1>3 DEF AnchorFirst
  <2>2. s.frame = q.frame
    BY <2>1 DEF Consistent
  <2> QED
    BY <1>3, <2>1, <2>2 DEF AllRead
<1> QED
  BY <1>2, <1>3

LEMMA FramesAreRight ==
  ASSUME NEW n \in Node, NEW A \in SUBSET Order, Distinct(A), NEW room \in Room, NEW list,
         \A o \in ToSet(list) : o \in Order /\ Meant(o, A)
  PROVE  \A p \in FramesOf(n, list, room) :
           /\ RightFrame(p, A) /\ Carried(p) /\ p.frame.op # "anchor"
           /\ (\A o \in ToSet(list) : HeldClose(o, A)) => ReadsClose(p, room, A)
<1> SUFFICES ASSUME NEW p \in FramesOf(n, list, room)
             PROVE  /\ RightFrame(p, A) /\ Carried(p) /\ p.frame.op # "anchor"
                    /\ (\A o \in ToSet(list) : HeldClose(o, A)) => ReadsClose(p, room, A)
  OBVIOUS
<1>1. PICK o \in ToSet(list) : /\ EncodedBy(n, o, room) # None
                               /\ p = [from |-> n, frame |-> EncodedBy(n, o, room)]
  BY DEF FramesOf
<1>2. o \in Order /\ Meant(o, A)
  OBVIOUS
<1>3. RightFrame(p, A) /\ Carried(p) /\ (HeldClose(o, A) => ReadsClose(p, room, A))
  BY <1>1, <1>2, EncodedIsRight
<1>4. p.frame.op # "anchor"
  BY <1>3 DEF Carried, Kind
<1> QED
  BY <1>3, <1>4

LEMMA MergedIs ==
  ASSUME NEW S \in SUBSET Order, Distinct(S), NEW o \in Order
  PROVE  /\ Merged(S, o) \in SUBSET Order /\ Distinct(Merged(S, o))
         /\ Merged(S, o) \subseteq S \cup {o}
<1>1. CASE o.id \notin Ids(S)
  BY <1>1 DEF Merged, Distinct, Ids
<1>2. CASE o.id \in Ids(S)
  <2> DEFINE held == ById(S, o.id)
  <2>1. held \in S /\ held.id = o.id
    BY <1>2 DEF Ids, ById
  <2>2. Merged(S, o) = S \/ Merged(S, o) = (S \ {held}) \cup {o}
    BY <1>2 DEF Merged
  <2> HIDE DEF held
  <2>3. Distinct((S \ {held}) \cup {o})
    BY <2>1 DEF Distinct
  <2> QED
    BY <2>2, <2>3
<1> QED
  BY <1>1, <1>2

LEMMA RoomAtIs ==
  ASSUME Types, NEW n \in Node
  PROVE  RoomAt(n) \in Room
<1>1. Where[n] \in Point /\ time \in Nat /\ Cell \in Nat /\ Cell # 0
  BY ZoneAssumption DEF Types
<1>2. Where[n][1] \in Int /\ Where[n][2] \in Int
  BY <1>1 DEF Point
<1> DEFINE d == 2 * Cell
           k(v) == (v + Cell) \div d
<1>3. d \in Nat /\ d > 0
  BY <1>1
<1>4. ASSUME NEW v \in Int PROVE Cell * ((v + Cell) \div d) \in Int
  <2>1. v + Cell \in Int
    BY <1>1
  <2> HIDE DEF d
  <2>2. (v + Cell) \div d \in Int
    BY <1>3, <2>1
  <2>3. \A x, y \in Int : x * y \in Int
    OBVIOUS
  <2> QED
    BY <1>1, <2>2, <2>3
<1>5. CanonicalAnchor(Where[n]) \in Point
  <2>1. /\ Cell * ((Where[n][1] + Cell) \div (2 * Cell)) \in Int
        /\ Cell * ((Where[n][2] + Cell) \div (2 * Cell)) \in Int
    BY <1>2, <1>4
  <2>2. CanonicalAnchor(Where[n])
          = [i \in 1 .. 2 |-> Cell * ((Where[n][i] + Cell) \div (2 * Cell))]
    BY DEF CanonicalAnchor
  <2> QED
    BY <2>1, <2>2 DEF Point
<1>6. time \div 2 \in Nat
  BY <1>1
<1> QED
  BY <1>5, <1>6 DEF RoomAt, Room

-----------------------------------------------------------------------------
(* The steps.                                                              *)

\* What a step that only sends must keep.
Sending ==
  /\ rooms' \in [Node -> Room \cup {None}]
  /\ pending' \in [Node -> Seq(authored)]
  /\ air \subseteq air'
  /\ AllRight(air', authored)
  /\ \A n \in Node : rooms'[n] # None => pending'[n] = <<>>
  /\ Anchored'
  /\ Consistent(air') => AllRead(air', authored)

\* Frames that carry no order and are no anchor.
Plain(n, more) ==
  \A f \in more : /\ RightFrame([from |-> n, frame |-> f], authored)
                  /\ f.op \in {"user", "position"}

LEMMA PlainKeeps ==
  ASSUME Core, NEW n \in Node, NEW more, Plain(n, more),
         air' = air \cup {[from |-> n, frame |-> f] : f \in more},
         UNCHANGED <<rooms, pending>>
  PROVE  Sending
<1> DEFINE N == {[from |-> n, frame |-> f] : f \in more}
<1>1. \A p \in N : RightFrame(p, authored) /\ p.frame.op \in {"user", "position"}
  BY DEF Plain
<1>2. \A p \in N : ~ Carried(p) /\ p.frame.op # "anchor"
  BY <1>1 DEF Carried, Kind
<1> HIDE DEF N
<1>3. air' = air \cup N
  BY DEF N
<1>4. AllRight(air', authored)
  BY <1>1, <1>3 DEF Core, AllRight
<1>5. Anchored'
  BY <1>2, <1>3 DEF Core, Anchored, AnchorFirst
<1>6. ASSUME Consistent(air') PROVE AllRead(air', authored)
  <2>1. Consistent(air)
    BY <1>3, <1>6 DEF Consistent
  <2> QED
    BY <1>2, <1>3, <2>1 DEF Core, Faithful, AllRead
<1> QED
  BY <1>3, <1>4, <1>5, <1>6 DEF Sending, Core, Types, Waiting

LEMMA EstablishedKeeps ==
  ASSUME Core, NEW n \in Node, NEW more, Plain(n, more), rooms[n] = None, Established(n, more)
  PROVE  Sending
<1> DEFINE r == RoomAt(n)
           M == {[from |-> n, frame |-> f] : f \in more \cup {AnchorFrame(r)}}
           N == M \cup FramesOf(n, pending[n], r)
<1>1. r \in Room
  BY RoomAtIs DEF Core
<1>2. /\ rooms' = [rooms EXCEPT ![n] = r]
      /\ air' = air \cup N
      /\ pending' = [pending EXCEPT ![n] = <<>>]
  BY DEF Established
<1> HIDE DEF r
<1>3. RightFrame([from |-> n, frame |-> AnchorFrame(r)], authored)
  <2>1. AnchorFrame(r).op = "anchor" /\ AnchorFrame(r).size = AnchorBytes
    BY <1>1, RoomOfAnchor
  <2>2. "anchor" \notin Kind
    BY DEF Kind
  <2> QED
    BY <1>1, <2>1, <2>2, ZoneAssumption DEF RightFrame, Carried
<1>4. \A p \in M : RightFrame(p, authored) /\ ~ Carried(p)
                   /\ (p.frame.op = "anchor" => p.frame = AnchorFrame(r))
  <2>1. ASSUME NEW f \in more
        PROVE  RightFrame([from |-> n, frame |-> f], authored) /\ f.op \in {"user", "position"}
    BY DEF Plain
  <2>2. AnchorFrame(r).op = "anchor"
    BY <1>1, RoomOfAnchor
  <2> QED
    BY <1>3, <2>1, <2>2 DEF Carried, Kind
<1>5. authored \in SUBSET Order /\ Distinct(authored)
  BY DEF Core, Types, Numbered
<1>6. ASSUME NEW o \in ToSet(pending[n])
      PROVE  o \in Order /\ Meant(o, authored) /\ HeldClose(o, authored)
  <2>1. o \in authored
    BY DEF ToSet, Core, Types
  <2>2. Same(o, o)
    BY DEF Same
  <2>3. Close(o, o)
    BY DEF Close, AsMeant, AsMeantAt
  <2> QED
    BY <1>5, <2>1, <2>2, <2>3 DEF Meant, HeldClose, Distinct
<1>7. \A p \in FramesOf(n, pending[n], r) :
        RightFrame(p, authored) /\ p.frame.op # "anchor" /\ ReadsClose(p, r, authored)
  BY <1>1, <1>5, <1>6, FramesAreRight
<1>8. /\ \A p \in N : RightFrame(p, authored) /\ (Carried(p) => ReadsClose(p, r, authored))
      /\ \E q \in N : q.frame = AnchorFrame(r)
  <2>1. [from |-> n, frame |-> AnchorFrame(r)] \in M
    OBVIOUS
  <2> HIDE DEF M
  <2> QED
    BY <1>4, <1>7, <2>1
<1> HIDE DEF M, N
<1>9. AllRight(air', authored)
  BY <1>2, <1>8 DEF Core, AllRight
<1>10. rooms' \in [Node -> Room \cup {None}] /\ pending' \in [Node -> Seq(authored)]
  BY <1>1, <1>2 DEF Core, Types
<1>11. \A m \in Node : rooms'[m] # None => pending'[m] = <<>>
  BY <1>2 DEF Core, Types, Waiting
<1>12. Anchored'
  <2>1. PICK q \in air' : q.frame = AnchorFrame(r)
    BY <1>2, <1>8
  <2>2. AnchorFirst(air')
    BY <1>1, <2>1, RoomOfAnchor DEF AnchorFirst
  <2>3. ASSUME NEW m \in Node, rooms'[m] # None
        PROVE  \E s \in air' : s.frame = AnchorFrame(rooms'[m])
    <3>1. CASE m = n
      BY <1>2, <2>1, <3>1 DEF Core, Types
    <3>2. CASE m # n
      BY <1>2, <2>3, <3>2 DEF Core, Types, Anchored
    <3> QED
      BY <3>1, <3>2
  <2> QED
    BY <2>2, <2>3 DEF Anchored
<1>13. ASSUME Consistent(air') PROVE AllRead(air', authored)
  <2>1. Consistent(air) /\ AnchorFirst(air)
    BY <1>2, <1>13 DEF Consistent, Core, Anchored
  <2>2. AllRead(air, authored)
    BY <2>1 DEF Core, Faithful
  <2> QED
    BY <1>1, <1>2, <1>5, <1>8, <1>13, <2>1, <2>2, MoreIsRead
<1> QED
  BY <1>2, <1>9, <1>10, <1>11, <1>12, <1>13 DEF Sending

LEMMA EnsureKeeps ==
  ASSUME Core, NEW n \in Node, NEW more, Plain(n, more), EnsureAnchor(n, more)
  PROVE  Sending
<1>1. CASE rooms[n] = None
  BY <1>1, EstablishedKeeps DEF EnsureAnchor
<1>2. CASE rooms[n] # None
  BY <1>2, PlainKeeps DEF EnsureAnchor
<1> QED
  BY <1>1, <1>2

\* A step that sends, and changes neither the stores nor the orders composed.
LEMMA SendingKeepsCore ==
  ASSUME Core, Sending, UNCHANGED <<time, orders, unread, authored>>,
         fixes' \in [Node -> Nat], \A n \in Node : fixes'[n] <= MaxFixes[n],
         attaches' \in [Node -> Nat]
  PROVE  Core'
<1>1. Types' /\ Numbered' /\ Stored'
  BY DEF Core, Types, Numbered, Stored, Sending, Composed
<1>2. AllRight(air, authored)' /\ Anchored'
  BY DEF Sending
<1>3. Waiting'
  BY DEF Core, Waiting, Sending
<1>4. Faithful'
  <2> SUFFICES ASSUME Consistent(air')
               PROVE  /\ \A n \in Node : \A o \in orders'[n] : HeldClose(o, authored')
                      /\ AllRead(air', authored')
    BY DEF Faithful
  <2>1. Consistent(air)
    BY DEF Consistent, Sending
  <2> QED
    BY <2>1 DEF Core, Faithful, Sending
<1> QED
  BY <1>1, <1>2, <1>3, <1>4 DEF Core

\* An order that is submitted waits, or leaves; B are the orders composed then.
LEMMA SubmittedKeeps ==
  ASSUME Core, NEW n \in Node, NEW B \in SUBSET Order, authored \subseteq B, Distinct(B),
         NEW o \in Order, Meant(o, B), rooms[n] = None => o \in B,
         Consistent(air) => HeldClose(o, B),
         Submitted(n, o), rooms' = rooms
  PROVE  /\ pending' \in [Node -> Seq(B)]
         /\ air \subseteq air'
         /\ AllRight(air', B)
         /\ \A m \in Node : rooms'[m] # None => pending'[m] = <<>>
         /\ Anchored'
         /\ Consistent(air') => AllRead(air', B)
<1>1. /\ authored \in SUBSET Order /\ AllRight(air, authored) /\ AllRight(air, B)
      /\ pending \in [Node -> Seq(B)]
      /\ \A m \in Node : rooms[m] # None => pending[m] = <<>>
  <2>1. Seq(authored) \subseteq Seq(B)
    OBVIOUS
  <2>2. AllRight(air, B)
    BY MeantGrows DEF Core, AllRight
  <2> QED
    BY <2>1, <2>2 DEF Core, Types, Waiting
<1>2. ASSUME Consistent(air) PROVE AllRead(air, B)
  BY <1>1, <1>2, ReadGrows DEF Core, Faithful
<1>3. CASE rooms[n] = None
  <2>1. pending' = [pending EXCEPT ![n] = Append(@, o)] /\ air' = air /\ o \in B
    BY <1>3 DEF Submitted
  <2>2. pending' \in [Node -> Seq(B)]
    BY <1>1, <2>1
  <2>3. Anchored'
    BY <2>1 DEF Core, Anchored
  <2>4. \A m \in Node : rooms'[m] # None => pending'[m] = <<>>
    BY <1>1, <1>3, <2>1
  <2> QED
    BY <1>1, <1>2, <2>1, <2>2, <2>3, <2>4
<1>4. CASE rooms[n] # None
  <2> DEFINE r == rooms[n]
             N == FramesOf(n, <<o>>, r)
  <2>1. air' = air \cup N /\ pending' = pending
    BY <1>4 DEF Submitted
  <2>2. r \in Room
    BY <1>4 DEF Core, Types
  <2>3. ToSet(<<o>>) = {o}
    BY DEF ToSet
  <2>4. \A p \in N : /\ RightFrame(p, B) /\ p.frame.op # "anchor"
                     /\ HeldClose(o, B) => ReadsClose(p, r, B)
    BY <2>2, <2>3, FramesAreRight
  <2> HIDE DEF N
  <2>5. PICK q \in air : q.frame = AnchorFrame(r)
    BY <1>4 DEF Core, Anchored
  <2>6. AllRight(air', B)
    BY <1>1, <2>1, <2>4 DEF AllRight
  <2>7. Anchored'
    <3>1. q.frame.op = "anchor" /\ q \in air'
      BY <2>1, <2>2, <2>5, RoomOfAnchor
    <3>2. AnchorFirst(air')
      BY <3>1 DEF AnchorFirst
    <3> QED
      BY <2>1, <3>2 DEF Core, Anchored
  <2>8. ASSUME Consistent(air') PROVE AllRead(air', B)
    <3>1. Consistent(air) /\ AnchorFirst(air)
      BY <2>1, <2>8 DEF Consistent, Core, Anchored
    <3>2. AllRead(air, B) /\ HeldClose(o, B)
      BY <1>2, <3>1
    <3> QED
      BY <2>1, <2>2, <2>4, <2>5, <2>8, <3>1, <3>2, MoreIsRead
  <2> QED
    BY <1>1, <2>1, <2>6, <2>7, <2>8
<1> QED
  BY <1>3, <1>4

LEMMA PositionIsPlain ==
  ASSUME Core, NEW n \in Node
  PROVE  PositionFrame(n) \in Fix /\ Plain(n, {PositionFrame(n)})
<1>1. Where[n] \in Point /\ time \in Nat /\ Rounded(time) \in Nat
  BY ZoneAssumption DEF Core, Types, Rounded
<1>2. PositionFrame(n) \in Fix
  BY <1>1 DEF PositionFrame, Fix
<1>3. PositionFrame(n).op = "position" /\ PositionFrame(n).size = 0
  BY DEF PositionFrame
<1>4. RightFrame([from |-> n, frame |-> PositionFrame(n)], authored)
  BY <1>2, <1>3, ZoneAssumption DEF RightFrame, Carried, Kind
<1> QED
  BY <1>2, <1>3, <1>4 DEF Plain

LEMMA AnnounceSends ==
  ASSUME Core, NEW n \in Node, Announce(n)
  PROVE  Sending
<1> DEFINE f == [op |-> "user", size |-> 0]
<1>1. f.op = "user" /\ f.size = 0
  OBVIOUS
<1>2. air' = air \cup {[from |-> n, frame |-> g] : g \in {f}} /\ UNCHANGED <<rooms, pending>>
  BY DEF Announce, transport
<1> HIDE DEF f
<1>3. RightFrame([from |-> n, frame |-> f], authored)
  BY <1>1, ZoneAssumption DEF RightFrame, Carried, Kind
<1>4. Plain(n, {f})
  BY <1>1, <1>3 DEF Plain
<1> QED
  BY <1>2, <1>4, PlainKeeps

LEMMA ComposeKeepsCore ==
  ASSUME Core, NEW n \in Node, Compose(n)
  PROVE  Core'
<1> DEFINE c == Cardinality(Composed(n))
<1>1. PICK p \in Drafts[n] :
        LET o == [id |-> <<n, c>>, ts |-> time, payload |-> p]
        IN  /\ authored' = authored \cup {o}
            /\ orders' = [orders EXCEPT ![n] = Merged(@, o)]
            /\ Submitted(n, o)
  BY DEF Compose
<1> DEFINE o == [id |-> <<n, c>>, ts |-> time, payload |-> p]
<1>2. /\ authored' = authored \cup {o}
      /\ orders' = [orders EXCEPT ![n] = Merged(orders[n], o)]
      /\ Submitted(n, o)
      /\ UNCHANGED <<time, rooms, unread, fixes, attaches>>
  BY <1>1 DEF Compose, Core, Types
<1>3. IsFiniteSet(Composed(n)) /\ c \in Nat
  BY FS_CardinalityType DEF Core, Numbered
<1> HIDE DEF c
<1>4. o \in Order /\ o.id = <<n, c>> /\ Author(o.id) = n /\ o.id[2] = c
  <2>1. p \in Payload /\ time \in Int
    BY ZoneAssumption DEF Core, Types
  <2> QED
    BY <1>3, <2>1 DEF Order, Author
<1> HIDE DEF o
<1>5. /\ authored \in SUBSET Order /\ authored' \in SUBSET Order /\ Distinct(authored)
      /\ orders \in [Node -> SUBSET Order]
  BY <1>2, <1>4 DEF Core, Types, Numbered
<1>6. ASSUME NEW a \in authored PROVE a.id # o.id
  <2> SUFFICES ASSUME a.id = o.id PROVE FALSE
    OBVIOUS
  <2>1. a \in Composed(n) /\ a.id[2] = c
    BY <1>4 DEF Composed
  <2>2. a.id[2] < Cardinality(Composed(n))
    BY <2>1 DEF Core, Numbered
  <2> QED
    BY <1>3, <2>1, <2>2 DEF c
<1>7. Distinct(authored')
  BY <1>2, <1>5, <1>6 DEF Distinct
<1>8. Meant(o, authored') /\ HeldClose(o, authored')
  <2>1. Same(o, o) /\ Close(o, o)
    BY DEF Same, Close, AsMeant, AsMeantAt
  <2> QED
    BY <1>2, <1>7, <2>1 DEF Meant, HeldClose, Distinct
<1>9. /\ pending' \in [Node -> Seq(authored')]
      /\ air \subseteq air' /\ AllRight(air', authored')
      /\ \A m \in Node : rooms'[m] # None => pending'[m] = <<>>
      /\ Anchored'
      /\ Consistent(air') => AllRead(air', authored')
  BY <1>2, <1>4, <1>5, <1>7, <1>8, SubmittedKeeps
<1>10. ASSUME NEW m \in Node
       PROVE  orders'[m] \in SUBSET Order /\ Distinct(orders'[m])
              /\ orders'[m] \subseteq orders[m] \cup {o}
  <2>1. orders[m] \in SUBSET Order /\ Distinct(orders[m])
    BY <1>5 DEF Core, Stored
  <2>2. CASE m = n
    BY <1>2, <1>4, <1>5, <2>1, <2>2, MergedIs
  <2>3. CASE m # n
    BY <1>2, <1>5, <2>1, <2>3
  <2> QED
    BY <2>2, <2>3
<1>11. Types'
  <2>1. orders' \in [Node -> SUBSET Order]
    BY <1>2, <1>5, <1>10
  <2> QED
    BY <1>2, <1>5, <1>9, <2>1 DEF Core, Types
<1>12. Numbered'
  <2>1. ASSUME NEW m \in Node
        PROVE  /\ IsFiniteSet(Composed(m)')
               /\ \A a \in Composed(m)' : a.id[2] < Cardinality(Composed(m)')
    <3>1. CASE m = n
      <4>1. Composed(m)' = Composed(n) \cup {o}
        BY <1>2, <1>4, <3>1 DEF Composed
      <4>2. o \notin Composed(n)
        BY <1>6 DEF Composed
      <4>3. IsFiniteSet(Composed(n) \cup {o}) /\ Cardinality(Composed(n) \cup {o}) = c + 1
        BY <1>3, <4>2, FS_AddElement DEF c
      <4>4. ASSUME NEW a \in Composed(n) \cup {o} PROVE a.id[2] < c + 1
        <5>1. CASE a = o
          BY <1>3, <1>4, <5>1
        <5>2. CASE a \in Composed(n)
          <6>1. a.id[2] < c
            BY <5>2 DEF Core, Numbered, c
          <6>2. a.id[2] \in Nat
            BY <1>5, <5>2, OrderIs DEF Composed
          <6> QED
            BY <1>3, <6>1, <6>2
        <5> QED
          BY <5>1, <5>2
      <4> QED
        BY <4>1, <4>3, <4>4
    <3>2. CASE m # n
      <4>1. Composed(m)' = Composed(m)
        BY <1>2, <1>4, <3>2 DEF Composed
      <4> QED
        BY <4>1 DEF Core, Numbered
    <3> QED
      BY <3>1, <3>2
  <2> QED
    BY <1>7, <2>1 DEF Numbered
<1>13. Stored'
  <2>1. ASSUME NEW m \in Node, NEW q \in orders'[m] PROVE Meant(q, authored')
    <3>1. CASE q = o
      BY <1>8, <3>1
    <3>2. CASE q \in orders[m]
      <4>1. Meant(q, authored)
        BY <3>2 DEF Core, Stored
      <4> QED
        BY <1>2, <4>1, MeantGrows
    <3> QED
      BY <1>10, <3>1, <3>2
  <2> QED
    BY <1>10, <2>1 DEF Stored
<1>14. Waiting'
  BY <1>2, <1>9 DEF Core, Waiting
<1>15. Faithful'
  <2> SUFFICES ASSUME Consistent(air')
               PROVE  /\ \A m \in Node : \A q \in orders'[m] : HeldClose(q, authored')
                      /\ AllRead(air', authored')
    BY DEF Faithful
  <2>1. Consistent(air)
    BY <1>9 DEF Consistent
  <2>2. ASSUME NEW m \in Node, NEW q \in orders'[m] PROVE HeldClose(q, authored')
    <3>1. CASE q = o
      BY <1>8, <3>1
    <3>2. CASE q \in orders[m]
      <4>1. Meant(q, authored) /\ HeldClose(q, authored)
        BY <2>1, <3>2 DEF Core, Stored, Faithful
      <4> QED
        BY <1>2, <1>7, <4>1, CloseGrows
    <3> QED
      BY <1>10, <3>1, <3>2
  <2> QED
    BY <1>9, <2>2
<1> QED
  BY <1>9, <1>11, <1>12, <1>13, <1>14, <1>15 DEF Core

LEMMA ResendSends ==
  ASSUME Core, NEW n \in Node, Resend(n)
  PROVE  Sending
<1>1. PICK o \in orders[n] : Submitted(n, o)
  BY DEF Resend
<1>2. rooms[n] # None /\ rooms' = rooms
  BY DEF Resend
<1>3. o \in Order /\ Meant(o, authored) /\ (Consistent(air) => HeldClose(o, authored))
  BY DEF Core, Types, Stored, Faithful
<1>4. authored \in SUBSET Order /\ Distinct(authored) /\ rooms \in [Node -> Room \cup {None}]
  BY DEF Core, Types, Numbered
<1> QED
  BY <1>1, <1>2, <1>3, <1>4, SubmittedKeeps DEF Sending

\* What is merged into a store was composed, and is read as it was meant.
LEMMA HearPrivateKeepsCore ==
  ASSUME Core, NEW n \in Node, NEW p \in air, HearPrivate(n, p)
  PROVE  Core'
<1>1. UNCHANGED <<time, air, fixes, attaches, authored>>
  BY DEF HearPrivate
<1>2. CASE Unreadable(n, p)
  <2>1. /\ unread' = [unread EXCEPT ![n] = @ \cup {p.frame.op}]
        /\ UNCHANGED <<rooms, pending, orders>>
    BY <1>2 DEF Unreadable
  <2>2. Types' /\ Numbered' /\ Stored' /\ AllRight(air, authored)' /\ Anchored' /\ Faithful'
    BY <1>1, <2>1 DEF Core, Types, Numbered, Stored, Anchored, Faithful, Composed
  <2>3. Waiting'
    <3>1. ASSUME NEW m \in Node, NEW op \in unread'[m] PROVE \E q \in air : q.frame.op = op
      BY <2>1, <3>1 DEF Core, Types, Waiting
    <3> QED
      BY <1>1, <2>1, <3>1 DEF Core, Waiting
  <2> QED
    BY <2>2, <2>3 DEF Core
<1>3. CASE p.frame.op = "anchor" /\ OnAnchor(n, p.frame)
  <2>1. UNCHANGED <<rooms, pending, orders, unread>>
    BY <1>3 DEF OnAnchor
  <2> QED
    BY <1>1, <2>1 DEF Core, Types, Numbered, Stored, Waiting, Anchored, Faithful, Composed
<1>4. CASE p.frame.op # "anchor" /\ OnOrder(n, p)
  <2> DEFINE d == DecodeOrder(p.frame, rooms[n], p.from)
  <2>1. /\ rooms[n] # None /\ orders' = [orders EXCEPT ![n] = Merged(orders[n], d)]
        /\ UNCHANGED <<rooms, pending, unread>>
    BY <1>4 DEF OnOrder, Core, Types
  <2>2. rooms[n] \in Room /\ orders \in [Node -> SUBSET Order] /\ authored \in SUBSET Order
    BY <2>1 DEF Core, Types
  <2>3. RightFrame(p, authored) /\ Carried(p)
    BY <1>4 DEF Core, AllRight, RightFrame, Carried, HearPrivate
  <2>4. d \in Order /\ Meant(d, authored)
    BY <2>2, <2>3, DecodedIsMeant
  <2>5. ASSUME Consistent(air) PROVE HeldClose(d, authored)
    <3>1. PICK q \in air : q.frame = AnchorFrame(rooms[n])
      BY <2>1 DEF Core, Anchored
    <3>2. q.frame.op = "anchor" /\ RoomOf(q.frame) = rooms[n]
      BY <2>2, <3>1, RoomOfAnchor
    <3> QED
      BY <2>3, <2>5, <3>2 DEF Core, Faithful, AllRead, ReadsClose
  <2> HIDE DEF d
  <2>6. ASSUME NEW m \in Node
        PROVE  orders'[m] \in SUBSET Order /\ Distinct(orders'[m])
               /\ orders'[m] \subseteq orders[m] \cup {d}
    <3>1. orders[m] \in SUBSET Order /\ Distinct(orders[m])
      BY <2>2 DEF Core, Stored
    <3>2. CASE m = n
      BY <2>1, <2>2, <2>4, <3>1, <3>2, MergedIs
    <3>3. CASE m # n
      BY <2>1, <2>2, <3>1, <3>3
    <3> QED
      BY <3>2, <3>3
  <2>7. Types'
    <3>1. orders' \in [Node -> SUBSET Order]
      BY <2>1, <2>2, <2>6
    <3> QED
      BY <1>1, <2>1, <3>1 DEF Core, Types
  <2>8. Stored'
    BY <1>1, <2>4, <2>6 DEF Core, Stored
  <2>9. Numbered' /\ AllRight(air, authored)' /\ Waiting' /\ Anchored'
    BY <1>1, <2>1 DEF Core, Numbered, Waiting, Anchored, Composed
  <2>10. Faithful'
    BY <1>1, <2>5, <2>6 DEF Core, Faithful
  <2> QED
    BY <2>7, <2>8, <2>9, <2>10 DEF Core
<1> QED
  BY <1>2, <1>3, <1>4 DEF HearPrivate

LEMMA AttachKeepsCore ==
  ASSUME Core, NEW n \in Node, Attach(n)
  PROVE  Core'
<1>1. /\ attaches' = [attaches EXCEPT ![n] = @ + 1]
      /\ rooms' = [rooms EXCEPT ![n] = None]
      /\ pending' = [pending EXCEPT ![n] = <<>>]
      /\ unread' = [unread EXCEPT ![n] = {}]
      /\ UNCHANGED <<time, orders, air, fixes, authored>>
  BY DEF Attach
<1>2. Types'
  BY <1>1 DEF Core, Types
<1>3. Numbered' /\ Stored' /\ AllRight(air, authored)' /\ Faithful'
  BY <1>1 DEF Core, Numbered, Stored, Faithful, Composed
<1>4. Waiting'
  BY <1>1 DEF Core, Types, Waiting
<1>5. Anchored'
  BY <1>1 DEF Core, Types, Anchored
<1> QED
  BY <1>2, <1>3, <1>4, <1>5 DEF Core

LEMMA InitIsCore == Init => Core
<1> SUFFICES ASSUME Init PROVE Core
  OBVIOUS
<1>1. Types
  BY ZoneAssumption DEF Init, Types
<1>2. Numbered
  <2>1. \A n \in Node : Composed(n) = {}
    BY DEF Init, Composed
  <2> QED
    BY <2>1, FS_EmptySet DEF Init, Numbered, Distinct
<1>3. Stored /\ AllRight(air, authored) /\ Waiting
  BY DEF Init, Stored, Distinct, AllRight, Waiting
<1>4. Anchored /\ Faithful
  BY DEF Init, Anchored, AnchorFirst, Faithful, AllRead
<1> QED
  BY <1>1, <1>2, <1>3, <1>4 DEF Core

LEMMA NextKeepsCore == Core /\ [Next]_vars => Core'
<1> SUFFICES ASSUME Core, [Next]_vars PROVE Core'
  OBVIOUS
<1>0. fixes \in [Node -> Nat] /\ attaches \in [Node -> Nat]
      /\ \A n \in Node : fixes[n] <= MaxFixes[n] /\ MaxFixes[n] \in Nat
  BY ZoneAssumption DEF Core, Types
<1>1. ASSUME NEW n \in Node, FirstFix(n) PROVE Core'
  <2>1. Plain(n, {})
    BY DEF Plain
  <2>2. Sending
    BY <1>1, <2>1, EnsureKeeps DEF FirstFix
  <2> QED
    BY <1>0, <1>1, <2>2, SendingKeepsCore DEF FirstFix
<1>2. ASSUME NEW n \in Node, SendPosition(n) PROVE Core'
  <2>1. Sending
    BY <1>2, PositionIsPlain, EnsureKeeps DEF SendPosition
  <2>2. fixes' \in [Node -> Nat] /\ \A m \in Node : fixes'[m] <= MaxFixes[m]
    BY <1>0, <1>2 DEF SendPosition
  <2>3. attaches' \in [Node -> Nat] /\ UNCHANGED <<time, orders, unread, authored>>
    BY <1>0, <1>2 DEF SendPosition
  <2> QED
    BY <2>1, <2>2, <2>3, SendingKeepsCore
<1>3. ASSUME NEW n \in Node, Announce(n) PROVE Core'
  <2>1. Sending
    BY <1>3, AnnounceSends
  <2> QED
    BY <1>0, <1>3, <2>1, SendingKeepsCore DEF Announce, transport
<1>4. ASSUME NEW n \in Node, Compose(n) PROVE Core'
  BY <1>4, ComposeKeepsCore
<1>5. ASSUME NEW n \in Node, Resend(n) PROVE Core'
  <2>1. Sending
    BY <1>5, ResendSends
  <2> QED
    BY <1>0, <1>5, <2>1, SendingKeepsCore DEF Resend
<1>6. ASSUME NEW n \in Node, Attach(n) PROVE Core'
  BY <1>6, AttachKeepsCore
<1>7. ASSUME NEW n \in Node, NEW p \in air, HearPrivate(n, p) PROVE Core'
  BY <1>7, HearPrivateKeepsCore
<1>8. ASSUME UNCHANGED <<time, rooms, pending, orders, unread, air, fixes, attaches, authored>>
      PROVE  Core'
  BY <1>8 DEF Core, Types, Numbered, Stored, AllRight, Waiting, Anchored, Faithful, Composed
<1>9. ASSUME NEW n \in Node, NEW p \in air, HearPosition(n, p) \/ HearUser(n, p) PROVE Core'
  BY <1>8, <1>9 DEF HearPosition, HearUser
<1>10. CASE Pass
  <2>1. time' \in 0 .. MaxTime
    BY <1>10, ZoneAssumption DEF Pass, Core, Types
  <2> QED
    BY <1>10, <2>1
       DEF Pass, transport, Core, Types, Numbered, Stored, AllRight, Waiting, Anchored, Faithful,
           Composed
<1>11. CASE UNCHANGED vars
  BY <1>8, <1>11 DEF vars, transport
<1> QED
  BY <1>1, <1>2, <1>3, <1>4, <1>5, <1>6, <1>7, <1>9, <1>10, <1>11 DEF Next

-----------------------------------------------------------------------------
(* The markers.                                                            *)

Markers ==
  /\ register \in [Node -> [Node -> Fix \cup {None}]]
  /\ shown \in [Node -> [Node -> Fix \cup {None}]]
  /\ known \in [Node -> SUBSET Node]
  /\ \A n \in Node : n \notin known[n]
  /\ \A n, m \in Node : shown[n][m] # None => m \in known[n]
  /\ ShownIsNewest

IInv == Core /\ Markers

LEMMA InitIsMarked == Init => Markers
  BY DEF Init, Markers, ShownIsNewest

LEMMA PositionKeepsMarkers ==
  ASSUME Core, Markers, NEW n \in Node, NEW p \in air, HearPosition(n, p)
  PROVE  Markers'
<1>1. p.from \in Node /\ p.frame \in Fix
  BY DEF HearPosition, Core, AllRight, RightFrame
<1>2. /\ register' = [register EXCEPT ![n][p.from] = p.frame]
      /\ shown' = IF p.from \in known[n] THEN [shown EXCEPT ![n][p.from] = p.frame] ELSE shown
      /\ known' = known
  BY DEF HearPosition
<1>3. /\ register' \in [Node -> [Node -> Fix \cup {None}]]
      /\ shown' \in [Node -> [Node -> Fix \cup {None}]]
  BY <1>1, <1>2 DEF Markers
<1>4. ASSUME NEW k \in Node, NEW m \in Node
      PROVE  /\ shown'[k][m] # None => m \in known[k]
             /\ m \in known[k] /\ register'[k][m] # None => shown'[k][m] = register'[k][m]
  <2>1. CASE k = n /\ m = p.from
    <3>1. register'[k][m] = p.frame
      BY <1>1, <1>2, <2>1 DEF Markers
    <3>2. shown'[k][m] = IF m \in known[k] THEN p.frame ELSE shown[k][m]
      BY <1>1, <1>2, <2>1 DEF Markers
    <3> QED
      BY <3>1, <3>2 DEF Markers
  <2>2. CASE ~ (k = n /\ m = p.from)
    <3>1. register'[k][m] = register[k][m] /\ shown'[k][m] = shown[k][m]
      BY <1>1, <1>2, <2>2 DEF Markers
    <3> QED
      BY <3>1 DEF Markers, ShownIsNewest
  <2> QED
    BY <2>1, <2>2
<1> QED
  BY <1>2, <1>3, <1>4 DEF Markers, ShownIsNewest

LEMMA UserKeepsMarkers ==
  ASSUME Core, Markers, NEW n \in Node, NEW p \in air, HearUser(n, p)
  PROVE  Markers'
<1>1. p.from \in Node /\ p.from # n
  BY DEF HearUser, Core, AllRight, RightFrame
<1>2. /\ known' = [known EXCEPT ![n] = @ \cup {p.from}]
      /\ shown' = [shown EXCEPT ![n][p.from] = register[n][p.from]]
      /\ register' = register
  BY DEF HearUser, FirstShown
<1>3. /\ shown' \in [Node -> [Node -> Fix \cup {None}]]
      /\ known' \in [Node -> SUBSET Node]
      /\ \A k \in Node : k \notin known'[k]
  BY <1>1, <1>2 DEF Markers
<1>4. ASSUME NEW k \in Node, NEW m \in Node
      PROVE  /\ shown'[k][m] # None => m \in known'[k]
             /\ m \in known'[k] /\ register[k][m] # None => shown'[k][m] = register[k][m]
  <2>1. CASE k = n /\ m = p.from
    BY <1>1, <1>2, <2>1 DEF Markers
  <2>2. CASE ~ (k = n /\ m = p.from)
    <3>1. /\ shown'[k][m] = shown[k][m]
          /\ known[k] \subseteq known'[k] /\ (m \in known'[k] => m \in known[k])
      BY <1>1, <1>2, <2>2 DEF Markers
    <3> QED
      BY <3>1 DEF Markers, ShownIsNewest
  <2> QED
    BY <2>1, <2>2
<1> QED
  BY <1>2, <1>3, <1>4 DEF Markers, ShownIsNewest

LEMMA AttachKeepsMarkers ==
  ASSUME Markers, NEW n \in Node, Attach(n)
  PROVE  Markers'
<1>1. register' = [register EXCEPT ![n] = [m \in Node |-> None]] /\ UNCHANGED <<known, shown>>
  BY DEF Attach
<1>2. register' \in [Node -> [Node -> Fix \cup {None}]]
  BY <1>1 DEF Markers
<1>3. \A k, m \in Node : register'[k][m] # None => register'[k][m] = register[k][m]
  BY <1>1 DEF Markers
<1> QED
  BY <1>1, <1>2, <1>3 DEF Markers, ShownIsNewest

\* The other steps leave the register and the markers alone.
LEMMA OtherSteps ==
  ASSUME [Next]_vars,
         ~ \E n \in Node, p \in air : HearPosition(n, p) \/ HearUser(n, p),
         ~ \E n \in Node : Attach(n)
  PROVE  UNCHANGED <<register, known, shown>>
  BY DEF Next, vars, transport, FirstFix, SendPosition, Announce, Compose, Resend, HearPrivate, Pass

LEMMA NextKeepsMarkers == Core /\ Markers /\ [Next]_vars => Markers'
<1> SUFFICES ASSUME Core, Markers, [Next]_vars PROVE Markers'
  OBVIOUS
<1>1. CASE \E n \in Node, p \in air : HearPosition(n, p) \/ HearUser(n, p)
  BY <1>1, PositionKeepsMarkers, UserKeepsMarkers
<1>2. CASE \E n \in Node : Attach(n)
  BY <1>2, AttachKeepsMarkers
<1>3. ASSUME UNCHANGED <<register, known, shown>> PROVE Markers'
  BY <1>3 DEF Markers, ShownIsNewest
<1> QED
  BY <1>1, <1>2, <1>3, OtherSteps

LEMMA IInvariant == Spec => []IInv
<1>1. Init => IInv
  BY InitIsCore, InitIsMarked DEF IInv
<1>2. IInv /\ [Next]_vars => IInv'
  BY NextKeepsCore, NextKeepsMarkers DEF IInv
<1> QED
  BY <1>1, <1>2, PTL DEF Spec

-----------------------------------------------------------------------------
(* What follows.                                                           *)

(***************************************************************************)
(* Every frame fits the radio, also the line that fitted exactly when its  *)
(* author sent it and travels on in the envelope of a relay                *)
(* (codec.ts:446).                                                         *)
(***************************************************************************)
THEOREM EveryFrameFits == Spec => []FramesFit
<1>1. IInv => FramesFit
  BY DEF IInv, Core, AllRight, RightFrame, FramesFit
<1> QED
  BY <1>1, IInvariant, PTL

LEMMA ComposedIsFound ==
  ASSUME Core, NEW n \in Node, NEW o \in orders[n]
  PROVE  /\ o.id \in Ids(authored)
         /\ ById(authored, o.id) \in authored
         /\ Same(o, ById(authored, o.id))
<1>1. PICK a \in authored : Same(o, a)
  BY DEF Core, Stored, Meant
<1>2. a.id = o.id
  BY <1>1 DEF Same
<1>3. ById(authored, o.id) = a
  BY <1>2 DEF ById, Core, Numbered, Distinct
<1> QED
  BY <1>1, <1>2, <1>3 DEF Ids

(***************************************************************************)
(* Whoever holds an order holds it under its true author, and a removal    *)
(* means the object its author meant, through as many relays and whatever  *)
(* rooms (meshTransport.ts:262); and the types.                            *)
(***************************************************************************)
THEOREM AuthorsAreKept == Spec => []AuthorsKept
<1>1. IInv => TypeOK
  <2> SUFFICES ASSUME IInv PROVE TypeOK
    OBVIOUS
  <2>1. time \in 0 .. MaxTime
    BY DEF IInv, Core, Types
  <2>2. ASSUME NEW n \in Node
        PROVE  /\ rooms[n] = None \/ rooms[n] \in Room
               /\ rooms[n] # None => pending[n] = <<>>
               /\ \A o, p \in orders[n] : o.id = p.id => o = p
               /\ \A op \in unread[n] : \E p \in air : p.frame.op = op
               /\ known[n] \subseteq Node \ {n}
               /\ fixes[n] \in 0 .. MaxFixes[n]
    <3>1. rooms[n] = None \/ rooms[n] \in Room
      BY DEF IInv, Core, Types
    <3>2. /\ rooms[n] # None => pending[n] = <<>>
          /\ \A op \in unread[n] : \E p \in air : p.frame.op = op
      BY DEF IInv, Core, Waiting
    <3>3. \A o, p \in orders[n] : o.id = p.id => o = p
      BY DEF IInv, Core, Stored, Distinct
    <3>4. known[n] \subseteq Node \ {n}
      BY DEF IInv, Markers
    <3>5. fixes[n] \in 0 .. MaxFixes[n]
      BY ZoneAssumption DEF IInv, Core, Types
    <3> QED
      BY <3>1, <3>2, <3>3, <3>4, <3>5
  <2> QED
    BY <2>1, <2>2 DEF TypeOK
<1>2. IInv => AuthorsKept
  <2> SUFFICES ASSUME IInv PROVE AuthorsKept
    OBVIOUS
  <2>1. ASSUME NEW n \in Node, NEW o \in orders[n]
        PROVE  /\ o.id \in Ids(authored)
               /\ LET a == ById(authored, o.id).payload
                  IN  /\ o.payload.kind = a.kind
                      /\ a.kind \in {"remove", "ack"} => o.payload.target = a.target
    BY ComposedIsFound DEF IInv, Same, Refers
  <2> QED
    BY <1>1, <2>1 DEF AuthorsKept
<1> QED
  BY <1>2, IInvariant, PTL

(***************************************************************************)
(* As long as all rooms are the same, places and instants are those that   *)
(* the author meant, to the half metre and half second, however often they *)
(* were encoded again, and a line keeps its ends however much it was       *)
(* thinned (codec.ts:464).                                                 *)
(***************************************************************************)
THEOREM AllIsReadAsMeant == Spec => []ReadAsMeant
<1>1. IInv => ReadAsMeant
  <2> SUFFICES ASSUME IInv, Agreed, NEW n \in Node, NEW o \in orders[n]
               PROVE  LET a == ById(authored, o.id)
                          p == o.payload
                          q == a.payload
                      IN  /\ Abs(o.ts - a.ts) <= 1
                          /\ q.kind = "waypoint" => Near(p.at, q.at)
                          /\ q.kind = "clear" => Abs(p.before - q.before) <= 1
                          /\ q.kind = "graphic" =>
                               /\ Near(p.points[1], q.points[1])
                               /\ ~q.polygon => Near(Last(p.points), Last(q.points))
    BY DEF ReadAsMeant
  <2> DEFINE a == ById(authored, o.id)
             q == a.payload
  <2>1. a \in authored /\ a.id = o.id
    BY ComposedIsFound DEF IInv, Same
  <2>2. Consistent(air)
    BY DEF Agreed, Consistent
  <2>3. a \in Order
    BY <2>1 DEF IInv, Core, Types
  <2> HIDE DEF a
  <2>4. Close(o, a)
    BY <2>1, <2>2 DEF IInv, Core, Faithful, HeldClose
  <2>5. a.ts \in Int /\ q \in Payload
    BY <2>3, OrderIs
  <2>6. Abs(o.ts - a.ts) <= 1
    BY <2>4, <2>5, AsMeantIsUp DEF Close
  <2>7. ASSUME q.kind = "waypoint" PROVE Near(o.payload.at, q.at)
    BY <2>4, <2>5, <2>7, PayloadIs, AsMeantAtIsUp DEF Close
  <2>8. ASSUME q.kind = "clear" PROVE Abs(o.payload.before - q.before) <= 1
    BY <2>4, <2>5, <2>8, PayloadIs, AsMeantIsUp DEF Close
  <2>9. ASSUME q.kind = "graphic"
        PROVE  /\ Near(o.payload.points[1], q.points[1])
               /\ ~q.polygon => Near(Last(o.payload.points), Last(q.points))
    <3>1. q.points \in Seq(Point) /\ Len(q.points) \in Nat /\ Len(q.points) >= 2
      BY <2>5, <2>9, PayloadIs DEF Points
    <3>2. q.points[1] \in Point /\ Last(q.points) \in Point
      BY <3>1 DEF Last
    <3> QED
      BY <2>4, <2>9, <3>2, AsMeantAtIsUp DEF Close
  <2> QED
    BY <2>6, <2>7, <2>8, <2>9 DEF a
<1> QED
  BY <1>1, IInvariant, PTL

(***************************************************************************)
(* The marker of a member is at the newest position heard of it, be it     *)
(* before or after the member was (meshTransport.ts:228).                  *)
(***************************************************************************)
THEOREM MarkersAreNewest == Spec => []ShownIsNewest
<1>1. IInv => ShownIsNewest
  BY DEF IInv, Markers
<1> QED
  BY <1>1, IInvariant, PTL

(***************************************************************************)
(* A marker never goes back in time once the transport has heard of the    *)
(* member, unless the module is connected anew (positions.ts:21).          *)
(***************************************************************************)
THEOREM MarkersGoForward == Spec => MarkersAdvance
<1>1. ASSUME IInv, [Next]_vars, attaches' = attaches, NEW n \in Node, NEW m \in Node,
             shown[n][m] # None, register[n][m] # None
      PROVE  shown'[n][m] # None /\ shown'[n][m].ts >= shown[n][m].ts
  <2>1. /\ shown[n][m] \in Fix /\ shown[n][m].ts \in Nat /\ None \notin Fix
        /\ m \in known[n] /\ shown[n][m] = register[n][m]
    BY <1>1, ZoneAssumption DEF IInv, Markers, ShownIsNewest, Fix
  <2>2. ASSUME NEW k \in Node, NEW p \in air, HearPosition(k, p)
        PROVE  shown'[n][m] # None /\ shown'[n][m].ts >= shown[n][m].ts
    <3>1. p.from \in Node /\ p.frame \in Fix /\ p.frame.ts \in Nat
      BY <1>1, <2>2 DEF HearPosition, IInv, Core, AllRight, RightFrame, Fix
    <3>2. shown' = IF p.from \in known[k] THEN [shown EXCEPT ![k][p.from] = p.frame] ELSE shown
      BY <2>2 DEF HearPosition
    <3>3. shown \in [Node -> [Node -> Fix \cup {None}]]
      BY <1>1 DEF IInv, Markers
    <3>4. CASE k = n /\ p.from = m
      <4>1. shown'[n][m] = p.frame
        BY <2>1, <3>1, <3>2, <3>3, <3>4
      <4>2. p.frame.ts > register[n][m].ts
        BY <1>1, <2>2, <3>4 DEF HearPosition, Replaces
      <4> QED
        BY <2>1, <3>1, <4>1, <4>2
    <3>5. CASE ~ (k = n /\ p.from = m)
      <4>1. shown'[n][m] = shown[n][m]
        BY <3>1, <3>2, <3>3, <3>5
      <4> QED
        BY <2>1, <4>1
    <3> QED
      BY <3>4, <3>5
  <2>3. ASSUME NEW k \in Node, NEW p \in air, HearUser(k, p)
        PROVE  shown'[n][m] = shown[n][m]
    <3>1. shown' = [shown EXCEPT ![k][p.from] = FirstShown(k, p.from)] /\ p.from \notin known[k]
      BY <2>3 DEF HearUser
    <3>2. shown \in [Node -> [Node -> Fix \cup {None}]] /\ p.from \in Node
      BY <1>1 DEF IInv, Markers, Core, AllRight, RightFrame
    <3>3. ~ (k = n /\ p.from = m)
      BY <2>1, <3>1
    <3> QED
      BY <3>1, <3>2, <3>3
  <2>4. ASSUME NEW k \in Node, Attach(k) PROVE FALSE
    <3>1. attaches' = [attaches EXCEPT ![k] = @ + 1] /\ attaches \in [Node -> Nat]
      BY <1>1, <2>4 DEF Attach, IInv, Core, Types
    <3>2. attaches'[k] = attaches[k] + 1 /\ attaches[k] \in Nat
      BY <3>1
    <3> QED
      BY <1>1, <3>2
  <2>5. ASSUME UNCHANGED <<register, known, shown>>
        PROVE  shown'[n][m] # None /\ shown'[n][m].ts >= shown[n][m].ts
    BY <1>1, <2>1, <2>5
  <2>6. ASSUME shown'[n][m] = shown[n][m]
        PROVE  shown'[n][m] # None /\ shown'[n][m].ts >= shown[n][m].ts
    BY <1>1, <2>1, <2>6
  <2> QED
    BY <1>1, <2>2, <2>3, <2>4, <2>5, <2>6, OtherSteps
<1>2. IInv /\ [Next]_vars =>
        [attaches' = attaches =>
           \A n, m \in Node :
             shown[n][m] # None /\ register[n][m] # None =>
               shown'[n][m] # None /\ shown'[n][m].ts >= shown[n][m].ts]_vars
  BY <1>1
<1> QED
  BY <1>2, IInvariant, PTL DEF Spec, MarkersAdvance

=============================================================================
