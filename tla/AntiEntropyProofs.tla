------------------------- MODULE AntiEntropyProofs -------------------------
(***************************************************************************)
(* A list of intervals holds what was added to it and its digest is true,  *)
(* whatever the list.  The anti-entropy implements Gossip, its vectors     *)
(* claim nothing but what the store holds and what a save took from it,    *)
(* and its requests begin with what is missing: for every number of nodes, *)
(* every delay and limit, whatever the radio loses and whatever a save     *)
(* compacts.                                                               *)
(***************************************************************************)
EXTENDS AntiEntropy, SequenceTheorems, FiniteSetTheorems, WellFoundedInduction, TLAPS

-----------------------------------------------------------------------------
(* The version vector of an author.                                        *)

(***************************************************************************)
(* A list of the code: intervals of naturals, in order, none touching.     *)
(***************************************************************************)
Vectors == {r \in Seq(SeqRange) : WellFormed(r)}

LEMMA Least ==
  ASSUME NEW T, T \subseteq Nat, T # {}
  PROVE  \E x \in T : \A y \in T : x <= y
<1> DEFINE R == OpToRel(<, Nat)
<1>1. IsWellFoundedOn(R, Nat)
  BY NatLessThanWellFounded
<1>2. ASSUME NEW x \in Nat, NEW y \in Nat, y < x PROVE <<y, x>> \in R
  BY <1>2 DEF OpToRel
<1> HIDE DEF R
<1>3. PICK x \in T : \A y \in T : ~ (<<y, x>> \in R)
  BY <1>1, WFMin
<1>4. ASSUME NEW y \in T PROVE x <= y
  <2>1. x \in Nat /\ y \in Nat
    OBVIOUS
  <2>2. ~ (y < x)
    BY <1>2, <1>3, <2>1
  <2> QED
    BY <2>1, <2>2
<1> QED
  BY <1>4

LEMMA SlotIsFirst ==
  ASSUME NEW r \in Seq(SeqRange), NEW s \in Nat
  PROVE  /\ Slot(r, s) \in 1 .. Len(r) + 1
         /\ Slot(r, s) <= Len(r) => r[Slot(r, s)].to >= s - 1
         /\ \A j \in 1 .. Slot(r, s) - 1 : r[j].to < s - 1
<1> DEFINE T == {i \in 1 .. Len(r) : r[i].to >= s - 1} \cup {Len(r) + 1}
<1>1. PICK i \in T : \A j \in T : i <= j
  <2>1. T \subseteq Nat /\ T # {}
    OBVIOUS
  <2> HIDE DEF T
  <2> QED
    BY <2>1, Least
<1>2. i \in 1 .. Len(r) + 1 /\ (i <= Len(r) => r[i].to >= s - 1)
  OBVIOUS
<1>3. ASSUME NEW j \in 1 .. i - 1 PROVE r[j].to < s - 1
  <2>1. j \in 1 .. Len(r) /\ j \notin T
    BY <1>1, <1>2
  <2>2. r[j] \in SeqRange
    BY <2>1
  <2>3. r[j].to \in Nat
    BY <2>2 DEF SeqRange
  <2> QED
    BY <2>1, <2>3
<1> QED
  BY <1>2, <1>3 DEF Slot

LEMMA InsertedAt ==
  ASSUME NEW r \in Seq(SeqRange), NEW i \in 1 .. Len(r) + 1, NEW e \in SeqRange
  PROVE  /\ InsertAt(r, i, e) \in Seq(SeqRange)
         /\ Len(InsertAt(r, i, e)) = Len(r) + 1
         /\ \A j \in 1 .. Len(r) + 1 :
              InsertAt(r, i, e)[j] = IF j < i THEN r[j] ELSE IF j = i THEN e ELSE r[j - 1]
<1> DEFINE a == SubSeq(r, 1, i - 1)
           b == SubSeq(r, i, Len(r))
           c == a \o <<e>>
<1>1. /\ a \in Seq(SeqRange) /\ Len(a) = i - 1
      /\ \A j \in 1 .. i - 1 : a[j] = r[j]
  BY SubSeqProperties
<1>2. /\ b \in Seq(SeqRange) /\ Len(b) = Len(r) - i + 1
      /\ \A j \in 1 .. Len(r) - i + 1 : b[j] = r[i + j - 1]
  BY SubSeqProperties
<1>3. /\ c \in Seq(SeqRange) /\ Len(c) = i
      /\ \A j \in 1 .. i : c[j] = IF j < i THEN r[j] ELSE e
  <2> HIDE DEF a, b
  <2> QED
    BY <1>1, ConcatProperties
<1>4. InsertAt(r, i, e) = c \o b
  BY DEF InsertAt
<1>5. Len(r) \in Nat
  OBVIOUS
<1> HIDE DEF a, b, c
<1>6. c \o b \in Seq(SeqRange) /\ Len(c \o b) = Len(r) + 1
  <2>1. c \o b \in Seq(SeqRange) /\ Len(c \o b) = Len(c) + Len(b)
    BY <1>2, <1>3, ConcatProperties
  <2>2. Len(c) + Len(b) = Len(r) + 1
    BY <1>2, <1>3, <1>5
  <2> QED
    BY <2>1, <2>2
<1>7. ASSUME NEW j \in 1 .. Len(r) + 1
      PROVE  (c \o b)[j] = IF j < i THEN r[j] ELSE IF j = i THEN e ELSE r[j - 1]
  <2>1. (c \o b)[j] = IF j <= i THEN c[j] ELSE b[j - i]
    BY <1>2, <1>3, <1>5, ConcatProperties
  <2>2. j <= i => c[j] = IF j < i THEN r[j] ELSE e
    BY <1>3
  <2>3. j > i => j - i \in 1 .. Len(r) - i + 1 /\ i + (j - i) - 1 = j - 1
    BY <1>5
  <2>4. j > i => b[j - i] = r[j - 1]
    BY <1>2, <2>3
  <2> QED
    BY <2>1, <2>2, <2>4, <1>5
<1> QED
  BY <1>4, <1>6, <1>7

LEMMA RemovedAt ==
  ASSUME NEW r \in Seq(SeqRange), NEW i \in 1 .. Len(r)
  PROVE  /\ RemoveAt(r, i) \in Seq(SeqRange)
         /\ Len(RemoveAt(r, i)) = Len(r) - 1
         /\ \A j \in 1 .. Len(r) - 1 :
              RemoveAt(r, i)[j] = IF j < i THEN r[j] ELSE r[j + 1]
<1> DEFINE a == SubSeq(r, 1, i - 1)
           b == SubSeq(r, i + 1, Len(r))
<1>1. /\ a \in Seq(SeqRange) /\ Len(a) = i - 1
      /\ \A j \in 1 .. i - 1 : a[j] = r[j]
  BY SubSeqProperties
<1>2. /\ b \in Seq(SeqRange) /\ Len(b) = Len(r) - i
      /\ \A j \in 1 .. Len(r) - i : b[j] = r[i + j]
  BY SubSeqProperties
<1>3. RemoveAt(r, i) = a \o b
  BY DEF RemoveAt
<1>4. Len(r) \in Nat
  OBVIOUS
<1> HIDE DEF a, b
<1>5. a \o b \in Seq(SeqRange) /\ Len(a \o b) = Len(r) - 1
  <2>1. a \o b \in Seq(SeqRange) /\ Len(a \o b) = Len(a) + Len(b)
    BY <1>1, <1>2, ConcatProperties
  <2>2. Len(a) + Len(b) = Len(r) - 1
    BY <1>1, <1>2, <1>4
  <2> QED
    BY <2>1, <2>2
<1>6. ASSUME NEW j \in 1 .. Len(r) - 1
      PROVE  (a \o b)[j] = IF j < i THEN r[j] ELSE r[j + 1]
  <2>1. (a \o b)[j] = IF j <= i - 1 THEN a[j] ELSE b[j - (i - 1)]
    BY <1>1, <1>2, <1>4, ConcatProperties
  <2>2. j >= i => j - (i - 1) \in 1 .. Len(r) - i /\ i + (j - (i - 1)) = j + 1
    BY <1>4
  <2>3. j >= i => b[j - (i - 1)] = r[j + 1]
    BY <1>2, <2>2
  <2> QED
    BY <1>1, <2>1, <2>3, <1>4
<1> QED
  BY <1>3, <1>5, <1>6

LEMMA Ends ==
  ASSUME NEW r \in Seq(SeqRange), NEW i \in 1 .. Len(r)
  PROVE  r[i] \in SeqRange /\ r[i].from \in Nat /\ r[i].to \in Nat
<1>1. r[i] \in SeqRange
  OBVIOUS
<1> QED
  BY <1>1 DEF SeqRange

LEMMA Held ==
  ASSUME NEW r \in Seq(SeqRange), NEW x
  PROVE  x \in Numbers(r)
           <=> x \in Int /\ \E i \in 1 .. Len(r) : r[i].from <= x /\ x <= r[i].to
<1>1. ASSUME NEW i \in 1 .. Len(r)
      PROVE  x \in r[i].from .. r[i].to
               <=> x \in Int /\ r[i].from <= x /\ x <= r[i].to
  BY Ends
<1>2. x \in Numbers(r) <=> \E i \in 1 .. Len(r) : x \in r[i].from .. r[i].to
  BY DEF Numbers
<1> QED
  BY <1>1, <1>2

(***************************************************************************)
(* What is expected of the list q that add makes of r.                     *)
(***************************************************************************)
Adds(r, s, q) ==
  /\ q \in Seq(SeqRange)
  /\ WellFormed(q)
  /\ Numbers(q) = Numbers(r) \cup {s}

\* The new number lies beyond every interval, by more than one.
LEMMA AddsAtTheEnd ==
  ASSUME NEW r \in Vectors, NEW s \in Nat,
         \A j \in 1 .. Len(r) : r[j].to < s - 1
  PROVE  Adds(r, s, Append(r, [from |-> s, to |-> s]))
<1> DEFINE e == [from |-> s, to |-> s]
           q == Append(r, e)
<1>1. r \in Seq(SeqRange) /\ WellFormed(r) /\ Len(r) \in Nat
  BY DEF Vectors
<1>2. e \in SeqRange /\ e.from = s /\ e.to = s
  BY DEF SeqRange
<1> HIDE DEF e
<1>3. /\ q \in Seq(SeqRange) /\ Len(q) = Len(r) + 1
      /\ \A j \in 1 .. Len(r) : q[j] = r[j]
      /\ q[Len(r) + 1] = e
  BY <1>1, <1>2, AppendProperties
<1> HIDE DEF q
<1>4. WellFormed(q)
  <2>1. ASSUME NEW j \in 1 .. Len(q) PROVE q[j].from <= q[j].to
    <3>1. CASE j = Len(r) + 1
      BY <1>2, <1>3, <3>1
    <3>2. CASE j \in 1 .. Len(r)
      BY <1>1, <1>3, <3>2 DEF WellFormed
    <3> QED
      BY <1>1, <1>3, <3>1, <3>2
  <2>2. ASSUME NEW j \in 1 .. Len(q), NEW k \in 1 .. Len(q), j < k
        PROVE  q[j].to + 1 < q[k].from
    <3>1. j \in 1 .. Len(r) /\ q[j] = r[j] /\ r[j].to \in Nat
      BY <1>1, <1>3, <2>2, Ends
    <3>2. CASE k = Len(r) + 1
      BY <1>2, <1>3, <3>1, <3>2
    <3>3. CASE k \in 1 .. Len(r)
      BY <1>1, <1>3, <2>2, <3>1, <3>3 DEF WellFormed
    <3> QED
      BY <1>1, <1>3, <3>2, <3>3
  <2> QED
    BY <2>1, <2>2 DEF WellFormed
<1>5. ASSUME NEW x PROVE x \in Numbers(q) <=> x \in Numbers(r) \/ x = s
  <2>1. (\E j \in 1 .. Len(q) : q[j].from <= x /\ x <= q[j].to)
          <=> (\E j \in 1 .. Len(r) : r[j].from <= x /\ x <= r[j].to)
                \/ (e.from <= x /\ x <= e.to)
    BY <1>1, <1>3
  <2>2. x \in Int => (e.from <= x /\ x <= e.to <=> x = s)
    BY <1>2
  <2> QED
    BY <1>1, <1>3, <2>1, <2>2, Held
<1> QED
  BY <1>3, <1>4, <1>5 DEF Adds, q, e

LEMMA ReplacedAt ==
  ASSUME NEW r \in Seq(SeqRange), NEW i \in 1 .. Len(r), NEW e \in SeqRange
  PROVE  /\ [r EXCEPT ![i] = e] \in Seq(SeqRange)
         /\ Len([r EXCEPT ![i] = e]) = Len(r)
         /\ \A j \in 1 .. Len(r) :
              [r EXCEPT ![i] = e][j] = IF j = i THEN e ELSE r[j]
  BY ExceptSeq

(***************************************************************************)
(* Interval i is replaced by a longer one, e, that takes in s and nothing  *)
(* else, and that touches neither neighbour.                               *)
(***************************************************************************)
LEMMA AddsByGrowing ==
  ASSUME NEW r \in Vectors, NEW s \in Nat, NEW i \in 1 .. Len(r), NEW e \in SeqRange,
         \/ e.from = s /\ s = r[i].from - 1 /\ e.to = r[i].to
         \/ e.to = s /\ s = r[i].to + 1 /\ e.from = r[i].from,
         \A j \in 1 .. i - 1 : r[j].to < e.from - 1,
         \A j \in i + 1 .. Len(r) : e.to + 1 < r[j].from
  PROVE  Adds(r, s, [r EXCEPT ![i] = e])
<1> DEFINE q == [r EXCEPT ![i] = e]
<1>1. r \in Seq(SeqRange) /\ WellFormed(r) /\ Len(r) \in Nat
  BY DEF Vectors
<1>2. /\ e.from \in Nat /\ e.to \in Nat
      /\ r[i].from \in Nat /\ r[i].to \in Nat /\ r[i].from <= r[i].to
  BY <1>1, Ends DEF SeqRange, WellFormed
<1>3. /\ q \in Seq(SeqRange) /\ Len(q) = Len(r)
      /\ \A j \in 1 .. Len(r) : q[j] = IF j = i THEN e ELSE r[j]
  BY <1>1, ReplacedAt
<1> HIDE DEF q
<1>4. WellFormed(q)
  <2>1. ASSUME NEW j \in 1 .. Len(q) PROVE q[j].from <= q[j].to
    BY <1>1, <1>2, <1>3 DEF WellFormed
  <2>2. ASSUME NEW j \in 1 .. Len(q), NEW k \in 1 .. Len(q), j < k
        PROVE  q[j].to + 1 < q[k].from
    <3>1. CASE j = i
      BY <1>1, <1>3, <2>2, <3>1
    <3>2. CASE k = i
      <4>1. j \in 1 .. i - 1 /\ q[j] = r[j] /\ q[k] = e
        BY <1>1, <1>3, <2>2, <3>2
      <4>2. r[j].to \in Nat
        BY <1>1, <1>3, Ends
      <4> QED
        BY <1>2, <4>1, <4>2, SMTT(30)
    <3>3. CASE j # i /\ k # i
      BY <1>1, <1>3, <2>2, <3>3 DEF WellFormed
    <3> QED
      BY <3>1, <3>2, <3>3
  <2> QED
    BY <2>1, <2>2 DEF WellFormed
<1>5. ASSUME NEW x \in Int PROVE x \in Numbers(q) <=> x \in Numbers(r) \/ x = s
  <2>1. e.from <= x /\ x <= e.to <=> (r[i].from <= x /\ x <= r[i].to) \/ x = s
    <3>1. CASE e.from = s /\ s = r[i].from - 1 /\ e.to = r[i].to
      BY <1>2, <3>1
    <3>2. CASE e.to = s /\ s = r[i].to + 1 /\ e.from = r[i].from
      BY <1>2, <3>2
    <3> QED
      BY <3>1, <3>2
  <2>2. (\E j \in 1 .. Len(q) : q[j].from <= x /\ x <= q[j].to)
          <=> (\E j \in 1 .. Len(r) : r[j].from <= x /\ x <= r[j].to) \/ x = s
    BY <1>1, <1>3, <2>1
  <2> QED
    BY <1>1, <1>3, <2>2, Held
<1>6. Numbers(q) \subseteq Int /\ Numbers(r) \subseteq Int
  BY <1>1, <1>3, Held
<1>7. Adds(r, s, q)
  BY <1>3, <1>4, <1>5, <1>6 DEF Adds
<1> QED
  BY <1>7 DEF q

\* The new number fills the gap between interval i and the next one.
LEMMA AddsByMerging ==
  ASSUME NEW r \in Vectors, NEW s \in Nat, NEW i \in 1 .. Len(r),
         i < Len(r), s = r[i].to + 1, r[i + 1].from = s + 1
  PROVE  Adds(r, s,
              RemoveAt([r EXCEPT ![i] = [from |-> r[i].from, to |-> r[i + 1].to]], i + 1))
<1> DEFINE e == [from |-> r[i].from, to |-> r[i + 1].to]
           u == [r EXCEPT ![i] = e]
           q == RemoveAt(u, i + 1)
<1>1. r \in Seq(SeqRange) /\ WellFormed(r) /\ Len(r) \in Nat /\ i + 1 \in 1 .. Len(r)
  BY DEF Vectors
<1>2. /\ r[i].from \in Nat /\ r[i].to \in Nat /\ r[i + 1].from \in Nat /\ r[i + 1].to \in Nat
      /\ r[i].from <= r[i].to /\ r[i + 1].from <= r[i + 1].to
  BY <1>1, Ends DEF WellFormed
<1>3. e \in SeqRange /\ e.from = r[i].from /\ e.to = r[i + 1].to
  BY <1>2 DEF SeqRange
<1> HIDE DEF e
<1>4. /\ u \in Seq(SeqRange) /\ Len(u) = Len(r)
      /\ \A j \in 1 .. Len(r) : u[j] = IF j = i THEN e ELSE r[j]
  BY <1>1, <1>3, ReplacedAt
<1> HIDE DEF u
<1>5. /\ q \in Seq(SeqRange) /\ Len(q) = Len(r) - 1
      /\ \A j \in 1 .. Len(r) - 1 : q[j] = IF j < i + 1 THEN u[j] ELSE u[j + 1]
  <2>1. i + 1 \in 1 .. Len(u)
    BY <1>1, <1>4
  <2> HIDE DEF q
  <2>2. /\ RemoveAt(u, i + 1) \in Seq(SeqRange) /\ Len(RemoveAt(u, i + 1)) = Len(u) - 1
        /\ \A j \in 1 .. Len(u) - 1 :
             RemoveAt(u, i + 1)[j] = IF j < i + 1 THEN u[j] ELSE u[j + 1]
    BY <1>4, <2>1, RemovedAt
  <2> QED
    BY <1>4, <2>2 DEF q
<1> HIDE DEF q
<1>6. /\ i \in 1 .. Len(q) /\ q[i] = e
      /\ \A j \in 1 .. Len(q) : j < i => j \in 1 .. Len(r) /\ q[j] = r[j]
      /\ \A j \in 1 .. Len(q) : j > i => j + 1 \in 1 .. Len(r) /\ q[j] = r[j + 1]
  BY <1>1, <1>4, <1>5
<1>7. WellFormed(q)
  <2>1. ASSUME NEW j \in 1 .. Len(q) PROVE q[j].from <= q[j].to
    <3>1. CASE j = i
      <4>1. q[j] = e
        BY <1>6, <3>1
      <4>2. /\ r[i].from <= r[i].to /\ r[i].to <= r[i + 1].from
            /\ r[i + 1].from <= r[i + 1].to
        BY <1>2
      <4>3. r[i].from <= r[i + 1].to
        BY <1>2, <4>2, SMTT(30)
      <4> QED
        BY <1>3, <4>1, <4>3
    <3>2. CASE j < i
      BY <1>1, <1>6, <3>2 DEF WellFormed
    <3>3. CASE j > i
      BY <1>1, <1>6, <3>3 DEF WellFormed
    <3> QED
      BY <3>1, <3>2, <3>3
  <2>2. ASSUME NEW j \in 1 .. Len(q), NEW k \in 1 .. Len(q), j < k
        PROVE  q[j].to + 1 < q[k].from
    <3>1. CASE j = i
      <4>1. q[j] = e /\ q[k] = r[k + 1] /\ k + 1 \in 1 .. Len(r)
        BY <1>1, <1>5, <1>6, <2>2, <3>1
      <4>2. r[i + 1].to + 1 < r[k + 1].from
        BY <1>1, <2>2, <3>1, <4>1 DEF WellFormed
      <4> QED
        BY <1>3, <4>1, <4>2
    <3>2. CASE k = i
      <4>1. q[j] = r[j] /\ q[k] = e /\ j \in 1 .. Len(r)
        BY <1>1, <1>5, <1>6, <2>2, <3>2
      <4>2. r[j].to + 1 < r[i].from
        BY <1>1, <2>2, <3>2, <4>1 DEF WellFormed
      <4> QED
        BY <1>3, <4>1, <4>2
    <3>3. CASE k < i
      BY <1>1, <1>5, <1>6, <2>2, <3>3 DEF WellFormed
    <3>4. CASE j < i /\ k > i
      <4>1. q[j] = r[j] /\ q[k] = r[k + 1] /\ j \in 1 .. Len(r) /\ k + 1 \in 1 .. Len(r)
        BY <1>1, <1>5, <1>6, <3>4
      <4> QED
        BY <1>1, <2>2, <4>1 DEF WellFormed
    <3>5. CASE j > i
      <4>1. q[j] = r[j + 1] /\ q[k] = r[k + 1] /\ j + 1 \in 1 .. Len(r) /\ k + 1 \in 1 .. Len(r)
        BY <1>1, <1>5, <1>6, <2>2, <3>5
      <4> QED
        BY <1>1, <2>2, <4>1 DEF WellFormed
    <3> QED
      BY <2>2, <3>1, <3>2, <3>3, <3>4, <3>5
  <2> QED
    BY <2>1, <2>2 DEF WellFormed
<1>8. ASSUME NEW x \in Int PROVE x \in Numbers(q) <=> x \in Numbers(r) \/ x = s
  <2>1. e.from <= x /\ x <= e.to
          <=> \/ r[i].from <= x /\ x <= r[i].to
              \/ r[i + 1].from <= x /\ x <= r[i + 1].to
              \/ x = s
    BY <1>2, <1>3, SMTT(30)
  <2>2. ASSUME NEW j \in 1 .. Len(q), q[j].from <= x, x <= q[j].to
        PROVE  x \in Numbers(r) \/ x = s
    <3>1. CASE j = i
      BY <1>1, <1>5, <1>6, <2>1, <2>2, <3>1, Held
    <3>2. CASE j < i
      <4>1. j \in 1 .. Len(r) /\ q[j] = r[j]
        BY <1>1, <1>5, <1>6, <3>2
      <4> QED
        BY <1>1, <2>2, <4>1, Held
    <3>3. CASE j > i
      <4>1. j + 1 \in 1 .. Len(r) /\ q[j] = r[j + 1]
        BY <1>1, <1>5, <1>6, <3>3
      <4> QED
        BY <1>1, <2>2, <4>1, Held
    <3> QED
      BY <3>1, <3>2, <3>3
  <2>3. i \in 1 .. Len(q) /\ q[i] = e
    BY <1>1, <1>5, <1>6
  <2>4. ASSUME NEW j \in 1 .. Len(r), r[j].from <= x, x <= r[j].to
        PROVE  x \in Numbers(q)
    <3>1. CASE j = i \/ j = i + 1
      BY <1>5, <2>1, <2>3, <2>4, <3>1, Held
    <3>2. CASE j < i
      <4>1. j \in 1 .. Len(q) /\ q[j] = r[j]
        BY <1>1, <1>5, <1>6, <3>2
      <4> QED
        BY <1>5, <2>4, <4>1, Held
    <3>3. CASE j > i + 1
      <4>1. j - 1 \in 1 .. Len(q) /\ q[j - 1] = r[j]
        BY <1>1, <1>5, <1>6, <3>3
      <4> QED
        BY <1>5, <2>4, <4>1, Held
    <3> QED
      BY <3>1, <3>2, <3>3
  <2>5. x = s => x \in Numbers(q)
    BY <1>5, <2>1, <2>3, Held
  <2> QED
    BY <1>1, <1>5, <2>2, <2>4, <2>5, Held
<1>9. Numbers(q) \subseteq Int /\ Numbers(r) \subseteq Int
  BY <1>1, <1>5, Held
<1>10. Adds(r, s, q)
  BY <1>5, <1>7, <1>8, <1>9 DEF Adds
<1> QED
  BY <1>10 DEF q, u, e

\* The new number lies between two intervals and touches neither.
LEMMA AddsByInserting ==
  ASSUME NEW r \in Vectors, NEW s \in Nat, NEW i \in 1 .. Len(r),
         \A j \in 1 .. i - 1 : r[j].to < s - 1,
         s < r[i].from - 1
  PROVE  Adds(r, s, InsertAt(r, i, [from |-> s, to |-> s]))
<1> DEFINE e == [from |-> s, to |-> s]
           q == InsertAt(r, i, e)
<1>1. r \in Seq(SeqRange) /\ WellFormed(r) /\ Len(r) \in Nat /\ i \in 1 .. Len(r) + 1
  BY DEF Vectors
<1>2. e \in SeqRange /\ e.from = s /\ e.to = s
  BY DEF SeqRange
<1> HIDE DEF e
<1>3. /\ q \in Seq(SeqRange) /\ Len(q) = Len(r) + 1
      /\ \A j \in 1 .. Len(r) + 1 :
           q[j] = IF j < i THEN r[j] ELSE IF j = i THEN e ELSE r[j - 1]
  BY <1>1, <1>2, InsertedAt
<1> HIDE DEF q
<1>4. /\ i \in 1 .. Len(q) /\ q[i] = e
      /\ \A j \in 1 .. Len(q) : j < i => j \in 1 .. Len(r) /\ q[j] = r[j]
      /\ \A j \in 1 .. Len(q) : j > i => j - 1 \in 1 .. Len(r) /\ q[j] = r[j - 1]
  BY <1>1, <1>3
<1>5. \A j \in i .. Len(r) : s + 1 < r[j].from
  <2> TAKE j \in i .. Len(r)
  <2>1. /\ j \in 1 .. Len(r) /\ r[i].from \in Nat /\ r[i].to \in Nat /\ r[j].from \in Nat
        /\ r[i].from <= r[i].to
    BY <1>1, Ends DEF WellFormed
  <2>2. CASE j = i
    BY <2>1, <2>2
  <2>3. CASE j > i
    <3>1. r[i].to + 1 < r[j].from
      BY <1>1, <2>1, <2>3 DEF WellFormed
    <3> QED
      BY <2>1, <3>1
  <2> QED
    BY <2>1, <2>2, <2>3
<1>6. WellFormed(q)
  <2>1. ASSUME NEW j \in 1 .. Len(q) PROVE q[j].from <= q[j].to
    <3>1. CASE j = i
      BY <1>2, <1>4, <3>1
    <3>2. CASE j < i
      BY <1>1, <1>4, <3>2 DEF WellFormed
    <3>3. CASE j > i
      BY <1>1, <1>4, <3>3 DEF WellFormed
    <3> QED
      BY <3>1, <3>2, <3>3
  <2>2. ASSUME NEW j \in 1 .. Len(q), NEW k \in 1 .. Len(q), j < k
        PROVE  q[j].to + 1 < q[k].from
    <3>1. CASE j = i
      <4>1. q[j] = e /\ q[k] = r[k - 1] /\ k - 1 \in i .. Len(r)
        BY <1>1, <1>4, <2>2, <3>1
      <4> QED
        BY <1>2, <1>5, <4>1
    <3>2. CASE k = i
      <4>1. q[j] = r[j] /\ q[k] = e /\ j \in 1 .. i - 1 /\ j \in 1 .. Len(r)
        BY <1>1, <1>4, <2>2, <3>2
      <4>2. r[j].to \in Nat /\ r[j].to < s - 1
        BY <1>1, <4>1, Ends
      <4> QED
        BY <1>2, <4>1, <4>2
    <3>3. CASE k < i
      BY <1>1, <1>4, <2>2, <3>3 DEF WellFormed
    <3>4. CASE j < i /\ k > i
      <4>1. /\ q[j] = r[j] /\ q[k] = r[k - 1] /\ j \in 1 .. i - 1
            /\ j \in 1 .. Len(r) /\ k - 1 \in i .. Len(r)
        BY <1>1, <1>4, <3>4
      <4>2. r[j].to \in Nat /\ r[k - 1].from \in Nat
        <5>1. k - 1 \in 1 .. Len(r)
          BY <1>1, <4>1
        <5> QED
          BY <1>1, <4>1, <5>1, Ends
      <4>3. r[j].to < s - 1 /\ s + 1 < r[k - 1].from
        BY <1>5, <4>1
      <4> QED
        BY <4>1, <4>2, <4>3, SMTT(30)
    <3>5. CASE j > i
      <4>1. q[j] = r[j - 1] /\ q[k] = r[k - 1] /\ j - 1 \in 1 .. Len(r) /\ k - 1 \in 1 .. Len(r)
        BY <1>1, <1>4, <2>2, <3>5
      <4> QED
        BY <1>1, <2>2, <4>1 DEF WellFormed
    <3> QED
      BY <2>2, <3>1, <3>2, <3>3, <3>4, <3>5
  <2> QED
    BY <2>1, <2>2 DEF WellFormed
<1>7. ASSUME NEW x \in Int PROVE x \in Numbers(q) <=> x \in Numbers(r) \/ x = s
  <2>1. ASSUME NEW j \in 1 .. Len(q), q[j].from <= x, x <= q[j].to
        PROVE  x \in Numbers(r) \/ x = s
    <3>1. CASE j = i
      BY <1>2, <1>4, <2>1, <3>1
    <3>2. CASE j < i
      BY <1>1, <1>4, <2>1, <3>2, Held
    <3>3. CASE j > i
      BY <1>1, <1>4, <2>1, <3>3, Held
    <3> QED
      BY <3>1, <3>2, <3>3
  <2>2. ASSUME NEW j \in 1 .. Len(r), r[j].from <= x, x <= r[j].to
        PROVE  x \in Numbers(q)
    <3>1. CASE j < i
      <4>1. j \in 1 .. Len(q) /\ q[j] = r[j]
        BY <1>1, <1>3, <3>1
      <4> QED
        BY <1>3, <2>2, <4>1, Held
    <3>2. CASE j >= i
      <4>1. j + 1 \in 1 .. Len(q) /\ q[j + 1] = r[j]
        BY <1>1, <1>3, <3>2
      <4> QED
        BY <1>3, <2>2, <4>1, Held
    <3> QED
      BY <3>1, <3>2
  <2>3. ASSUME x = s PROVE x \in Numbers(q)
    <3>1. q[i].from <= x /\ x <= q[i].to
      BY <1>2, <1>4, <2>3
    <3>2. i \in 1 .. Len(q)
      BY <1>4
    <3> QED
      BY <1>3, <3>1, <3>2, Held
  <2> QED
    BY <1>1, <1>3, <2>1, <2>2, <2>3, Held
<1>8. Numbers(q) \subseteq Int /\ Numbers(r) \subseteq Int
  BY <1>1, <1>3, Held
<1>9. Adds(r, s, q)
  BY <1>3, <1>6, <1>7, <1>8 DEF Adds
<1> QED
  BY <1>9 DEF q, e

(***************************************************************************)
(* VersionVector.add keeps an author's list what the digests assume of it: *)
(* intervals of naturals, in increasing order, no two of which touch; and  *)
(* it holds the number added, every number held before, and no other.      *)
(***************************************************************************)
THEOREM AddIsCorrect ==
  ASSUME NEW r \in Vectors, NEW s \in Nat
  PROVE  /\ Add(r, s) \in Vectors
         /\ Numbers(Add(r, s)) = Numbers(r) \cup {s}
<1> DEFINE i == Slot(r, s)
           e == [from |-> s, to |-> s]
<1>1. r \in Seq(SeqRange) /\ WellFormed(r) /\ Len(r) \in Nat
  BY DEF Vectors
<1>2. /\ i \in 1 .. Len(r) + 1
      /\ i <= Len(r) => r[i].to >= s - 1
      /\ \A j \in 1 .. i - 1 : r[j].to < s - 1
  BY <1>1, SlotIsFirst
<1> HIDE DEF i
<1>3. Adds(r, s, Add(r, s))
  <2>1. CASE i > Len(r)
    <3>1. \A j \in 1 .. Len(r) : r[j].to < s - 1
      BY <1>1, <1>2, <2>1
    <3>2. Add(r, s) = Append(r, e)
      BY <2>1 DEF Add, i
    <3> QED
      BY <3>1, <3>2, AddsAtTheEnd
  <2>2. CASE i <= Len(r)
    <3>1. i \in 1 .. Len(r) /\ ~ (i > Len(r))
      BY <1>1, <1>2, <2>2
    <3>2. /\ r[i].from \in Nat /\ r[i].to \in Nat /\ r[i].from <= r[i].to
          /\ r[i].to >= s - 1
      BY <1>1, <1>2, <2>2, <3>1, Ends DEF WellFormed
    <3>3. CASE s \in r[i].from .. r[i].to
      <4>1. Add(r, s) = r
        BY <3>1, <3>3 DEF Add, i
      <4>2. s \in Numbers(r)
        BY <3>1, <3>3 DEF Numbers
      <4> QED
        BY <1>1, <4>1, <4>2 DEF Adds
    <3>4. CASE s = r[i].from - 1
      <4> DEFINE g == [from |-> s, to |-> r[i].to]
      <4>1. Add(r, s) = [r EXCEPT ![i] = g]
        <5>1. ~ (s \in r[i].from .. r[i].to)
          BY <3>2, <3>4
        <5> QED
          BY <3>1, <3>4, <5>1 DEF Add, i
      <4>2. g \in SeqRange /\ g.from = s /\ g.to = r[i].to
        BY <3>2 DEF SeqRange
      <4>3. \A j \in i + 1 .. Len(r) : r[i].to + 1 < r[j].from
        BY <1>1, <3>1 DEF WellFormed
      <4> HIDE DEF g
      <4>4. /\ g.from = s /\ s = r[i].from - 1 /\ g.to = r[i].to
            /\ \A j \in 1 .. i - 1 : r[j].to < g.from - 1
            /\ \A j \in i + 1 .. Len(r) : g.to + 1 < r[j].from
        BY <1>2, <3>4, <4>2, <4>3
      <4> QED
        BY <3>1, <4>1, <4>2, <4>4, AddsByGrowing, SMTT(30)
    <3>5. CASE s = r[i].to + 1
      <4>1. Add(r, s) = Joined(r, i, s)
        <5>1. ~ (s \in r[i].from .. r[i].to) /\ s # r[i].from - 1
          BY <3>2, <3>5
        <5> QED
          BY <3>1, <3>5, <5>1 DEF Add, i
      <4>2. CASE i < Len(r) /\ r[i + 1].from = s + 1
        <5>1. Add(r, s)
                = RemoveAt([r EXCEPT ![i] = [from |-> r[i].from, to |-> r[i + 1].to]], i + 1)
          BY <3>1, <4>1, <4>2 DEF Joined
        <5> QED
          BY <3>1, <3>5, <4>2, <5>1, AddsByMerging
      <4>3. CASE ~ (i < Len(r) /\ r[i + 1].from = s + 1)
        <5> DEFINE g == [from |-> r[i].from, to |-> s]
        <5>1. Add(r, s) = [r EXCEPT ![i] = g]
          BY <3>1, <4>1, <4>3 DEF Joined
        <5>2. g \in SeqRange /\ g.from = r[i].from /\ g.to = s
          BY <3>2 DEF SeqRange
        <5>3. ASSUME NEW j \in 1 .. i - 1 PROVE r[j].to < r[i].from - 1
          <6>1. j \in 1 .. Len(r) /\ j < i /\ r[j].to \in Nat
            BY <1>1, <3>1, Ends
          <6>2. r[j].to + 1 < r[i].from
            BY <1>1, <3>1, <6>1 DEF WellFormed
          <6> QED
            BY <3>2, <6>1, <6>2
        <5>4. ASSUME NEW j \in i + 1 .. Len(r) PROVE s + 1 < r[j].from
          <6>1. /\ i < Len(r) /\ i + 1 \in 1 .. Len(r) /\ j \in 1 .. Len(r)
                /\ r[i + 1].from \in Nat /\ r[i + 1].to \in Nat /\ r[j].from \in Nat
                /\ r[i + 1].from <= r[i + 1].to
            BY <1>1, <3>1, Ends DEF WellFormed
          <6>2. r[i].to + 1 < r[i + 1].from
            BY <1>1, <3>1, <6>1 DEF WellFormed
          <6>3. s + 1 < r[i + 1].from
            BY <3>2, <3>5, <4>3, <6>1, <6>2, SMTT(30)
          <6>4. j > i + 1 => r[i + 1].to + 1 < r[j].from
            BY <1>1, <6>1 DEF WellFormed
          <6>5. j = i + 1 \/ j > i + 1
            BY <3>1
          <6> QED
            BY <6>1, <6>3, <6>4, <6>5
        <5> HIDE DEF g
        <5>5. /\ \A j \in 1 .. i - 1 : r[j].to < g.from - 1
              /\ \A j \in i + 1 .. Len(r) : g.to + 1 < r[j].from
          BY <5>2, <5>3, <5>4
        <5> QED
          BY <3>1, <3>5, <5>1, <5>2, <5>5, AddsByGrowing, SMTT(30)
      <4> QED
        BY <4>2, <4>3
    <3>6. CASE /\ ~ (s \in r[i].from .. r[i].to)
               /\ s # r[i].from - 1
               /\ s # r[i].to + 1
      <4>1. Add(r, s) = InsertAt(r, i, e)
        BY <3>1, <3>6 DEF Add, i
      <4>2. s < r[i].from - 1
        BY <3>2, <3>6
      <4> QED
        BY <1>2, <3>1, <4>1, <4>2, AddsByInserting
    <3> QED
      BY <3>3, <3>4, <3>5, <3>6
  <2> QED
    BY <1>1, <1>2, <2>1, <2>2
<1> QED
  BY <1>3 DEF Adds, Vectors

(***************************************************************************)
(* What a digest says of an author is true: everything from the lowest     *)
(* number held up to contiguousUpto is held, the number after it is not,   *)
(* and neither is any number of a gap that the node asks for.              *)
(***************************************************************************)
THEOREM DigestIsTrue ==
  ASSUME NEW r \in Vectors, r # <<>>
  PROVE  /\ r[1].from .. ContiguousUpto(r) \subseteq Numbers(r)
         /\ ContiguousUpto(r) + 1 \notin Numbers(r)
         /\ \A i \in 1 .. Len(r) - 1 :
              Gaps(r)[i].from .. Gaps(r)[i].from + Gaps(r)[i].count - 1
                \cap Numbers(r) = {}
<1>1. r \in Seq(SeqRange) /\ WellFormed(r) /\ Len(r) \in Nat /\ 1 \in 1 .. Len(r)
  BY DEF Vectors
<1>2. ContiguousUpto(r) = r[1].to
  BY DEF ContiguousUpto
<1>3. r[1].from .. r[1].to \subseteq Numbers(r)
  BY <1>1 DEF Numbers
<1>4. ASSUME NEW i \in 1 .. Len(r), NEW x \in Int, r[i].to < x,
             i < Len(r) => x < r[i + 1].from
      PROVE  x \notin Numbers(r)
  <2>1. ASSUME NEW j \in 1 .. Len(r) PROVE ~ (r[j].from <= x /\ x <= r[j].to)
    <3>1. /\ r[i].from \in Nat /\ r[i].to \in Nat /\ r[j].from \in Nat /\ r[j].to \in Nat
      BY <1>1, Ends
    <3>2. CASE j < i
      <4>1. r[j].to + 1 < r[i].from /\ r[i].from <= r[i].to
        BY <1>1, <3>2 DEF WellFormed
      <4> QED
        BY <1>4, <3>1, <4>1
    <3>3. CASE j = i
      BY <1>4, <3>1, <3>3
    <3>4. CASE j > i
      <4>1. /\ i < Len(r) /\ i + 1 \in 1 .. Len(r)
            /\ r[i + 1].from \in Nat /\ r[i + 1].to \in Nat
            /\ r[i + 1].from <= r[i + 1].to
        BY <1>1, <3>4, Ends DEF WellFormed
      <4>2. j > i + 1 => r[i + 1].to + 1 < r[j].from
        BY <1>1, <4>1 DEF WellFormed
      <4>3. j = i + 1 \/ j > i + 1
        BY <3>4
      <4> QED
        BY <1>4, <3>1, <4>1, <4>2, <4>3
    <3> QED
      BY <3>2, <3>3, <3>4
  <2> QED
    BY <1>1, <2>1, Held
<1>5. r[1].to + 1 \notin Numbers(r)
  <2>1. r[1].to \in Nat
    BY <1>1, Ends
  <2>2. 1 < Len(r) => r[1].to + 1 < r[1 + 1].from
    BY <1>1 DEF WellFormed
  <2> QED
    BY <1>1, <1>4, <2>1, <2>2
<1>6. ASSUME NEW i \in 1 .. Len(r) - 1,
             NEW x \in Gaps(r)[i].from .. Gaps(r)[i].from + Gaps(r)[i].count - 1
      PROVE  x \notin Numbers(r)
  <2>1. /\ Gaps(r)[i].from = r[i].to + 1
        /\ Gaps(r)[i].count = r[i + 1].from - r[i].to - 1
    BY DEF Gaps
  <2>2. /\ i \in 1 .. Len(r) /\ i + 1 \in 1 .. Len(r)
        /\ r[i].to \in Nat /\ r[i + 1].from \in Nat
    BY <1>1, Ends
  <2>3. x \in Int /\ r[i].to < x /\ x < r[i + 1].from
    BY <2>1, <2>2, SMTT(30)
  <2> QED
    BY <1>4, <2>2, <2>3
<1> QED
  BY <1>2, <1>3, <1>5, <1>6

(***************************************************************************)
(* AddAll is a fold over a set of numbers: a function on the subsets of S  *)
(* that takes an element out, chosen somehow, and adds it last.  That      *)
(* there is such a function is shown for ever larger subsets.              *)
(***************************************************************************)
Step(r, f, U) ==
  IF U = {} THEN r
  ELSE LET x == CHOOSE x \in U : TRUE IN Add(f[U \ {x}], x)

Small(S, n) == {U \in SUBSET S : Cardinality(U) <= n}

FoldUpTo(r, S, n) ==
  \E f : f = [U \in Small(S, n) |-> Step(r, f, U)]

LEMMA FoldUpToAll ==
  ASSUME NEW r, NEW S, IsFiniteSet(S), NEW n \in Nat
  PROVE  FoldUpTo(r, S, n)
<1> DEFINE Bad == {k \in Nat : ~ FoldUpTo(r, S, k)}
<1>1. \A U \in SUBSET S : IsFiniteSet(U) /\ Cardinality(U) \in Nat
  BY FS_Subset, FS_CardinalityType
<1>2. FoldUpTo(r, S, 0)
  <2> DEFINE f == [U \in Small(S, 0) |-> r]
  <2>1. ASSUME NEW U \in Small(S, 0) PROVE U = {}
    BY <1>1, FS_EmptySet DEF Small
  <2>2. f = [U \in Small(S, 0) |-> Step(r, f, U)]
    BY <2>1 DEF Step
  <2> QED
    BY <2>2 DEF FoldUpTo
<1>3. ASSUME NEW k \in Nat, FoldUpTo(r, S, k) PROVE FoldUpTo(r, S, k + 1)
  <2>1. PICK f : f = [U \in Small(S, k) |-> Step(r, f, U)]
    BY <1>3 DEF FoldUpTo
  <2> DEFINE g == [U \in Small(S, k + 1) |-> Step(r, f, U)]
  <2>2. ASSUME NEW U \in Small(S, k + 1) PROVE Step(r, f, U) = Step(r, g, U)
    <3>1. CASE U = {}
      BY <3>1 DEF Step
    <3>2. CASE U # {}
      <4> DEFINE x == CHOOSE x \in U : TRUE
                 V == U \ {x}
      <4>1. x \in U /\ U \in SUBSET S /\ Cardinality(U) <= k + 1
        BY <3>2 DEF Small
      <4>2. Cardinality(V) = Cardinality(U) - 1
        BY <1>1, <4>1, FS_RemoveElement
      <4>3. V \in Small(S, k) /\ V \in Small(S, k + 1)
        BY <1>1, <4>1, <4>2 DEF Small
      <4>4. f[V] = Step(r, f, V) /\ g[V] = Step(r, f, V)
        BY <2>1, <4>3
      <4> HIDE DEF g
      <4> QED
        BY <3>2, <4>4 DEF Step
    <3> QED
      BY <3>1, <3>2
  <2>3. g = [U \in Small(S, k + 1) |-> Step(r, g, U)]
    <3>1. \A U \in Small(S, k + 1) : Step(r, f, U) = Step(r, g, U)
      BY <2>2
    <3> DEFINE h == [U \in Small(S, k + 1) |-> Step(r, g, U)]
    <3>2. \A U \in Small(S, k + 1) : g[U] = h[U]
      BY <3>1
    <3> QED
      BY <3>2
  <2> QED
    BY <2>3 DEF FoldUpTo
<1>4. Bad = {}
  <2> SUFFICES ASSUME Bad # {} PROVE FALSE
    OBVIOUS
  <2>1. PICK k \in Bad : \A j \in Bad : k <= j
    <3>1. Bad \subseteq Nat
      OBVIOUS
    <3> HIDE DEF Bad
    <3> QED
      BY <3>1, Least
  <2>2. k # 0 /\ k \in Nat
    BY <1>2
  <2>3. k - 1 \in Nat /\ k - 1 \notin Bad
    BY <2>1, <2>2
  <2>4. FoldUpTo(r, S, (k - 1) + 1)
    BY <1>3, <2>3
  <2> QED
    BY <2>1, <2>2, <2>4
<1> QED
  BY <1>4

(* The equation of the fold. *)
LEMMA AddAllUnfolds ==
  ASSUME NEW r, NEW S, IsFiniteSet(S)
  PROVE  \E f : /\ AddAll(r, S) = f[S]
                /\ f = [U \in SUBSET S |-> Step(r, f, U)]
<1> DEFINE Eq(f) == f = [U \in SUBSET S |-> Step(r, f, U)]
           fold == CHOOSE f : Eq(f)
<1>1. \E f : Eq(f)
  <2>1. Cardinality(S) \in Nat /\ FoldUpTo(r, S, Cardinality(S))
    BY FS_CardinalityType, FoldUpToAll
  <2>2. Small(S, Cardinality(S)) = SUBSET S
    BY FS_Subset DEF Small
  <2> QED
    BY <2>1, <2>2 DEF FoldUpTo
<1>2. Eq(fold)
  <2> HIDE DEF Eq
  <2> QED
    BY <1>1
<1>3. AddAll(r, S) = fold[S]
  BY DEF AddAll, FoldSet, MapThenFoldSet, Step
<1> HIDE DEF fold
<1> QED
  BY <1>2, <1>3

(***************************************************************************)
(* Whatever the order in which the numbers of a set are added, the result  *)
(* is a list of the kind the code expects, of the numbers held before and  *)
(* those of the set (antiEntropy.ts observes the re-emissions one by one). *)
(***************************************************************************)
THEOREM AddAllIsCorrect ==
  ASSUME NEW r \in Vectors, NEW S \in SUBSET Nat, IsFiniteSet(S)
  PROVE  /\ AddAll(r, S) \in Vectors
         /\ Numbers(AddAll(r, S)) = Numbers(r) \cup S
<1>1. PICK f : AddAll(r, S) = f[S] /\ f = [U \in SUBSET S |-> Step(r, f, U)]
  BY AddAllUnfolds
<1> DEFINE Right(U) == f[U] \in Vectors /\ Numbers(f[U]) = Numbers(r) \cup U
           Bad == {k \in Nat : \E U \in SUBSET S : Cardinality(U) = k /\ ~ Right(U)}
<1>2. \A U \in SUBSET S : IsFiniteSet(U) /\ Cardinality(U) \in Nat
  BY FS_Subset, FS_CardinalityType
<1>3. \A U \in SUBSET S : f[U] = Step(r, f, U)
  BY <1>1
<1>4. ASSUME NEW U \in SUBSET S, \A V \in SUBSET S : Cardinality(V) < Cardinality(U) => Right(V)
      PROVE  Right(U)
  <2>1. CASE U = {}
    BY <1>3, <2>1 DEF Step
  <2>2. CASE U # {}
    <3> DEFINE x == CHOOSE x \in U : TRUE
               V == U \ {x}
    <3>1. x \in U /\ x \in Nat
      BY <2>2
    <3>2. V \in SUBSET S /\ Cardinality(V) < Cardinality(U)
      <4> HIDE DEF x
      <4>1. Cardinality(V) = Cardinality(U) - 1 /\ Cardinality(U) \in Nat
        BY <1>2, <3>1, FS_RemoveElement
      <4>2. Cardinality(V) < Cardinality(U)
        BY <4>1
      <4> QED
        BY <4>2
    <3>3. f[U] = Add(f[V], x)
      BY <1>3, <2>2 DEF Step
    <3>4. U = V \cup {x}
      BY <3>1
    <3> HIDE DEF x, V
    <3>5. f[V] \in Vectors /\ Numbers(f[V]) = Numbers(r) \cup V
      BY <1>4, <3>2
    <3>6. Add(f[V], x) \in Vectors /\ Numbers(Add(f[V], x)) = Numbers(f[V]) \cup {x}
      BY <3>1, <3>5, AddIsCorrect
    <3> QED
      BY <3>3, <3>4, <3>5, <3>6
  <2> QED
    BY <2>1, <2>2
<1>5. Bad = {}
  <2> SUFFICES ASSUME Bad # {} PROVE FALSE
    OBVIOUS
  <2>1. PICK k \in Bad : \A j \in Bad : k <= j
    <3>1. Bad \subseteq Nat
      OBVIOUS
    <3> HIDE DEF Bad
    <3> QED
      BY <3>1, Least
  <2>2. PICK U \in SUBSET S : Cardinality(U) = k /\ ~ Right(U)
    OBVIOUS
  <2>3. ASSUME NEW V \in SUBSET S, Cardinality(V) < Cardinality(U) PROVE Right(V)
    <3>1. Cardinality(V) \in Nat /\ Cardinality(U) \in Nat
      BY <1>2
    <3>2. Cardinality(V) \notin Bad
      BY <2>1, <2>2, <2>3, <3>1
    <3> QED
      BY <3>1, <3>2
  <2> QED
    BY <1>4, <2>2, <2>3
<1> QED
  BY <1>1, <1>2, <1>5

-----------------------------------------------------------------------------
(* Identifiers, sets and minima.                                           *)

LEMMA NodeIsFinite == IsFiniteSet(Node)
<1>1. Phase \in Seq(Node) /\ ToSet(Phase) = Node
  BY AntiEntropyAssumption
<1>2. Phase \in [1 .. Len(Phase) -> Node] /\ DOMAIN Phase = 1 .. Len(Phase) /\ Len(Phase) \in Nat
  BY <1>1, LenProperties
<1>3. Phase \in Surjection(1 .. Len(Phase), Node)
  BY <1>1, <1>2 DEF ToSet, Surjection
<1>4. IsFiniteSet(1 .. Len(Phase))
  BY <1>2, FS_Interval
<1> QED
  BY <1>3, <1>4, FS_Surjection

LEMMA MinOfTwo ==
  ASSUME NEW a \in Int, NEW b \in Int
  PROVE  Min({a, b}) = IF a <= b THEN a ELSE b
<1> DEFINE m == IF a <= b THEN a ELSE b
<1>1. m \in {a, b} /\ \A y \in {a, b} : m =< y
  OBVIOUS
<1>2. \A x \in {a, b} : (\A y \in {a, b} : x =< y) => x = m
  OBVIOUS
<1> HIDE DEF m
<1>3. (CHOOSE x \in {a, b} : \A y \in {a, b} : x =< y) = m
  BY <1>1, <1>2
<1> QED
  BY <1>3 DEF Min, m

LEMMA IdIsPair ==
  /\ \A i \in Id : /\ i = <<i[1], i[2]>> /\ i[1] \in Node /\ i[2] \in Nat
                   /\ i[2] \in Start[i[1]] .. Composed[i[1]] - 1
  /\ \A n \in Node : \A s \in Start[n] .. Composed[n] - 1 : <<n, s>> \in Id
<1>1. \A n \in Node : Start[n] \in Nat /\ Composed[n] \in Nat
  BY AntiEntropyAssumption
<1>2. ASSUME NEW i \in Id
      PROVE  /\ i = <<i[1], i[2]>> /\ i[1] \in Node /\ i[2] \in Nat
             /\ i[2] \in Start[i[1]] .. Composed[i[1]] - 1
  <2>1. PICK n \in Node : i \in {n} \X (Start[n] .. Composed[n] - 1)
    BY DEF Id
  <2>2. i = <<i[1], i[2]>> /\ i[1] = n /\ i[2] \in Start[n] .. Composed[n] - 1
    BY <2>1
  <2> QED
    BY <1>1, <2>2
<1>3. ASSUME NEW n \in Node, NEW s \in Start[n] .. Composed[n] - 1 PROVE <<n, s>> \in Id
  BY DEF Id
<1> QED
  BY <1>2, <1>3

(* The numbers of an author among the ids of I. *)
NumbersOf(I, a) == {i[2] : i \in {j \in I : j[1] = a}}

LEMMA NumbersOfIsFinite ==
  ASSUME NEW I \in SUBSET Id, NEW a \in Node
  PROVE  /\ NumbersOf(I, a) \in SUBSET Nat
         /\ IsFiniteSet(NumbersOf(I, a))
         /\ \A i \in Id : i[1] = a => (i[2] \in NumbersOf(I, a) <=> i \in I)
<1>1. NumbersOf(I, a) \in SUBSET (Start[a] .. Composed[a] - 1)
  BY IdIsPair DEF NumbersOf
<1>2. Start[a] \in Nat /\ Composed[a] - 1 \in Int
  BY AntiEntropyAssumption
<1>3. IsFiniteSet(Start[a] .. Composed[a] - 1)
  BY <1>2, FS_Interval
<1>4. ASSUME NEW i \in Id, i[1] = a, i[2] \in NumbersOf(I, a) PROVE i \in I
  <2>1. PICK j \in I : j[1] = a /\ j[2] = i[2]
    BY <1>4 DEF NumbersOf
  <2> QED
    BY <1>4, <2>1, IdIsPair
<1>5. NumbersOf(I, a) \in SUBSET Nat
  BY <1>1, <1>2
<1>6. IsFiniteSet(NumbersOf(I, a))
  BY <1>1, <1>3, FS_Subset
<1>7. ASSUME NEW i \in I, i[1] = a PROVE i[2] \in NumbersOf(I, a)
  BY <1>7 DEF NumbersOf
<1> QED
  BY <1>4, <1>5, <1>6, <1>7

LEMMA HasIsNumber ==
  ASSUME NEW r, NEW s
  PROVE  Has(r, s) <=> s \in Numbers(r)
BY DEF Has, Numbers

LEMMA EmptyVector ==
  ASSUME NEW r \in Vectors
  PROVE  r = <<>> <=> Numbers(r) = {}
<1>1. r \in Seq(SeqRange) /\ WellFormed(r) /\ Len(r) \in Nat
  BY DEF Vectors
<1>2. CASE r = <<>>
  BY <1>2 DEF Numbers
<1>3. CASE r # <<>>
  <2>1. 1 \in 1 .. Len(r)
    BY <1>1, <1>3
  <2>2. r[1].from \in Nat /\ r[1].to \in Nat /\ r[1].from <= r[1].to
    BY <1>1, <2>1, Ends DEF WellFormed
  <2>3. r[1].from \in Numbers(r)
    BY <2>1, <2>2 DEF Numbers
  <2> QED
    BY <1>3, <2>3
<1> QED
  BY <1>2, <1>3

LEMMA SetToSeqIsList ==
  ASSUME NEW T, IsFiniteSet(T)
  PROVE  SetToSeq(T) \in Seq(T) /\ ToSet(SetToSeq(T)) = T
<1> DEFINE c == Cardinality(T)
           f == SetToSeq(T)
<1>1. c \in Nat /\ ExistsBijection(1 .. c, T)
  BY FS_CardinalityType
<1>2. \E g \in [1 .. c -> T] : IsInjective(g)
  BY <1>1 DEF ExistsBijection, Bijection, Injection
<1>3. f \in [1 .. c -> T] /\ IsInjective(f)
  BY <1>2 DEF SetToSeq
<1> HIDE DEF f
<1>4. f \in Seq(T) /\ DOMAIN f = 1 .. c
  BY <1>1, <1>3
<1>5. f \in Surjection(1 .. c, T)
  <2>1. f \in Injection(1 .. c, T)
    BY <1>3 DEF Injection
  <2>2. IsFiniteSet(1 .. c) /\ Cardinality(1 .. c) = c
    BY <1>1, FS_Interval
  <2> QED
    BY <2>1, <2>2, FS_Injection
<1>6. ToSet(f) = T
  BY <1>4, <1>5 DEF ToSet, Surjection
<1> QED
  BY <1>4, <1>6 DEF f

LEMMA ToSetOfConcat ==
  ASSUME NEW S, NEW s \in Seq(S), NEW t \in Seq(S)
  PROVE  s \o t \in Seq(S) /\ ToSet(s \o t) = ToSet(s) \cup ToSet(t)
<1>1. /\ s \o t \in Seq(S) /\ Len(s \o t) = Len(s) + Len(t)
      /\ \A i \in 1 .. Len(s) + Len(t) :
           (s \o t)[i] = IF i <= Len(s) THEN s[i] ELSE t[i - Len(s)]
  BY ConcatProperties
<1>2. /\ DOMAIN s = 1 .. Len(s) /\ DOMAIN t = 1 .. Len(t)
      /\ DOMAIN (s \o t) = 1 .. Len(s) + Len(t) /\ Len(s) \in Nat /\ Len(t) \in Nat
  BY <1>1, LenProperties
<1>3. ASSUME NEW x \in ToSet(s \o t) PROVE x \in ToSet(s) \cup ToSet(t)
  <2>1. PICK i \in 1 .. Len(s) + Len(t) : x = (s \o t)[i]
    BY <1>2 DEF ToSet
  <2>2. CASE i <= Len(s)
    BY <1>1, <1>2, <2>1, <2>2 DEF ToSet
  <2>3. CASE i > Len(s)
    <3>1. i - Len(s) \in 1 .. Len(t) /\ x = t[i - Len(s)]
      BY <1>1, <1>2, <2>1, <2>3
    <3> QED
      BY <1>2, <3>1 DEF ToSet
  <2> QED
    BY <1>2, <2>2, <2>3
<1>4. ASSUME NEW i \in 1 .. Len(s) PROVE s[i] \in ToSet(s \o t)
  <2>1. i \in 1 .. Len(s) + Len(t) /\ s[i] = (s \o t)[i]
    BY <1>1, <1>2
  <2> QED
    BY <1>2, <2>1 DEF ToSet
<1>5. ASSUME NEW i \in 1 .. Len(t) PROVE t[i] \in ToSet(s \o t)
  <2>1. i + Len(s) \in 1 .. Len(s) + Len(t) /\ t[i] = (s \o t)[i + Len(s)]
    BY <1>1, <1>2
  <2> QED
    BY <1>2, <2>1 DEF ToSet
<1> QED
  BY <1>1, <1>2, <1>3, <1>4, <1>5 DEF ToSet

-----------------------------------------------------------------------------
(* The inductive invariant.                                                *)

Typed ==
  /\ orders \in [Node -> SUBSET Id]
  /\ compacted \in [Node -> SUBSET Id]
  /\ held \in [Node -> [Node -> Vectors]]
  /\ authors \in [Node -> Seq(Node)]
  /\ heard \in [Node -> [Id -> 0 .. Suppression]]
  /\ scheduled \in [Node -> [Id -> Idle .. Jitter]]
  /\ requests \in [Node -> [Node -> Request \cup {NoReq}]]
  /\ cursor \in [Node -> Nat]
  /\ composed \in [Node -> Nat]

\* The authors of a vector are those of whom something is held.
AuthorsListed == \A n \in Node : ToSet(authors[n]) = {a \in Node : held[n][a] # <<>>}

\* Stores hold what was composed.
StoresIssued == \A n \in Node : Start[n] <= composed[n] /\ orders[n] \subseteq Issued

\* What a vector claims was put in the store, where only a save takes it from.
Honest == \A n \in Node, i \in Id : Holds(n, i) => i \in orders[n] \cup compacted[n]

\* Frames speak of what was composed, of authors, of numbers.
FrameOK(f) ==
  \/ f.kind = "order" /\ f.id \in Issued
  \/ f.kind = "digest" /\ \A e \in ToSet(f.entries) : e.author \in Node /\ e.upto \in Int
  \/ f.kind = "req" /\ f.author \in Node /\ f.from \in Nat /\ f.count \in Nat

AirOK == \A x \in air : x[2] \in Node /\ FrameOK(x[1])

GossipInv == Typed /\ AuthorsListed /\ StoresIssued /\ Honest /\ AirOK

LEMMA HeldWithAdds ==
  ASSUME Typed, NEW n \in Node, NEW I \in SUBSET Id, NEW a \in Node
  PROVE  /\ HeldWith(n, I)[a] \in Vectors
         /\ Numbers(HeldWith(n, I)[a]) = Numbers(held[n][a]) \cup NumbersOf(I, a)
<1>1. HeldWith(n, I)[a] = AddAll(held[n][a], NumbersOf(I, a))
  BY DEF HeldWith, NumbersOf
<1>2. held[n][a] \in Vectors
  BY DEF Typed
<1>3. NumbersOf(I, a) \in SUBSET Nat /\ IsFiniteSet(NumbersOf(I, a))
  BY NumbersOfIsFinite
<1> QED
  BY <1>1, <1>2, <1>3, AddAllIsCorrect

LEMMA AuthorsWithLists ==
  ASSUME Typed, AuthorsListed, NEW n \in Node, NEW I \in SUBSET Id
  PROVE  /\ AuthorsWith(n, I) \in Seq(Node)
         /\ ToSet(AuthorsWith(n, I)) = {a \in Node : HeldWith(n, I)[a] # <<>>}
<1> DEFINE new == {i[1] : i \in I} \ ToSet(authors[n])
<1>1. new \in SUBSET Node
  BY IdIsPair
<1>2. IsFiniteSet(new)
  BY <1>1, NodeIsFinite, FS_Subset
<1>3. SetToSeq(new) \in Seq(new) /\ ToSet(SetToSeq(new)) = new
  BY <1>2, SetToSeqIsList
<1>4. SetToSeq(new) \in Seq(Node) /\ authors[n] \in Seq(Node)
  BY <1>1, <1>3, SeqMonotonic DEF Typed
<1>5. /\ AuthorsWith(n, I) \in Seq(Node)
      /\ ToSet(AuthorsWith(n, I)) = ToSet(authors[n]) \cup new
  <2>1. AuthorsWith(n, I) = authors[n] \o SetToSeq(new)
    BY DEF AuthorsWith
  <2> HIDE DEF new
  <2> QED
    BY <2>1, <1>3, <1>4, ToSetOfConcat
<1>6. ASSUME NEW a \in Node
      PROVE  a \in ToSet(authors[n]) \cup {i[1] : i \in I} <=> HeldWith(n, I)[a] # <<>>
  <2>1. a \in ToSet(authors[n]) <=> Numbers(held[n][a]) # {}
    <3>1. held[n][a] \in Vectors
      BY DEF Typed
    <3> QED
      BY <3>1, EmptyVector DEF AuthorsListed
  <2>2. a \in {i[1] : i \in I} <=> NumbersOf(I, a) # {}
    BY DEF NumbersOf
  <2>3. HeldWith(n, I)[a] # <<>> <=> Numbers(held[n][a]) \cup NumbersOf(I, a) # {}
    BY HeldWithAdds, EmptyVector, SMTT(30)
  <2> QED
    BY <2>1, <2>2, <2>3
<1>7. {i[1] : i \in I} \subseteq Node /\ ToSet(authors[n]) \subseteq Node
  BY IdIsPair DEF AuthorsListed
<1> QED
  BY <1>5, <1>6, <1>7

LEMMA ObserveAdds ==
  ASSUME Typed, AuthorsListed, NEW n \in Node, NEW I \in SUBSET Id, Observe(n, I)
  PROVE  /\ held' \in [Node -> [Node -> Vectors]]
         /\ authors' \in [Node -> Seq(Node)]
         /\ heard' \in [Node -> [Id -> 0 .. Suppression]]
         /\ AuthorsListed'
         /\ \A m \in Node, i \in Id : Holds(m, i)' <=> Holds(m, i) \/ (m = n /\ i \in I)
<1>1. HeldWith(n, I) \in [Node -> Vectors]
  BY HeldWithAdds DEF HeldWith
<1>2. /\ held' \in [Node -> [Node -> Vectors]]
      /\ \A m \in Node : held'[m] = IF m = n THEN HeldWith(n, I) ELSE held[m]
  BY <1>1 DEF Typed, Observe
<1>3. /\ authors' \in [Node -> Seq(Node)]
      /\ \A m \in Node : authors'[m] = IF m = n THEN AuthorsWith(n, I) ELSE authors[m]
  BY AuthorsWithLists DEF Typed, Observe
<1>4. heard' \in [Node -> [Id -> 0 .. Suppression]]
  BY AntiEntropyAssumption DEF Typed, Observe
<1>5. AuthorsListed'
  <2> SUFFICES ASSUME NEW m \in Node
               PROVE  ToSet(authors'[m]) = {a \in Node : held'[m][a] # <<>>}
    BY DEF AuthorsListed
  <2>1. CASE m = n
    <3>1. held'[m] = HeldWith(n, I) /\ authors'[m] = AuthorsWith(n, I)
      BY <1>2, <1>3, <2>1
    <3>2. ToSet(AuthorsWith(n, I)) = {a \in Node : HeldWith(n, I)[a] # <<>>}
      BY AuthorsWithLists
    <3> QED
      BY <3>1, <3>2
  <2>2. CASE m # n
    BY <1>2, <1>3, <2>2 DEF AuthorsListed
  <2> QED
    BY <2>1, <2>2
<1>6. ASSUME NEW m \in Node, NEW i \in Id
      PROVE  Holds(m, i)' <=> Holds(m, i) \/ (m = n /\ i \in I)
  <2>1. i[1] \in Node
    BY IdIsPair
  <2>2. Holds(m, i)' <=> i[2] \in Numbers(held'[m][i[1]])
    BY DEF Holds, Has, Numbers
  <2>3. Holds(m, i) <=> i[2] \in Numbers(held[m][i[1]])
    BY HasIsNumber DEF Holds
  <2>4. CASE m = n
    <3>0. Numbers(HeldWith(n, I)[i[1]]) = Numbers(held[n][i[1]]) \cup NumbersOf(I, i[1])
      BY <2>1, HeldWithAdds
    <3>1. Numbers(held'[m][i[1]]) = Numbers(held[m][i[1]]) \cup NumbersOf(I, i[1])
      BY <1>2, <2>4, <3>0
    <3>2. i[2] \in NumbersOf(I, i[1]) <=> i \in I
      BY <2>1, NumbersOfIsFinite
    <3> QED
      BY <2>2, <2>3, <2>4, <3>1, <3>2
  <2>5. CASE m # n
    <3>1. held'[m] = held[m]
      BY <1>2, <2>5
    <3> QED
      BY <2>2, <2>3, <2>5, <3>1
  <2> QED
    BY <2>4, <2>5
<1> QED
  BY <1>2, <1>3, <1>4, <1>5, <1>6

-----------------------------------------------------------------------------
(* What the steps have in common.                                          *)

LEMMA InitHolds == Init => GossipInv
<1> SUFFICES ASSUME Init PROVE GossipInv
  OBVIOUS
<1>1. <<>> \in Vectors
  BY DEF Vectors, WellFormed
<1>2. Typed
  BY <1>1, AntiEntropyAssumption DEF Init, Typed, Idle
<1>3. AuthorsListed
  BY DEF Init, AuthorsListed, ToSet
<1>4. StoresIssued
  BY AntiEntropyAssumption DEF Init, StoresIssued
<1>5. ASSUME NEW n \in Node, NEW i \in Id, Holds(n, i) PROVE FALSE
  BY <1>5, IdIsPair DEF Init, Holds, Has
<1>6. Honest
  BY <1>5 DEF Honest
<1>7. AirOK
  BY DEF Init, AirOK
<1> QED
  BY <1>2, <1>3, <1>4, <1>6, <1>7 DEF GossipInv

\* Frames stay as they were, and the new ones are as they should be.
LEMMA AirGrows ==
  ASSUME AirOK, Issued \subseteq Issued', NEW new, air' \subseteq air \cup new,
         \A x \in new : x[2] \in Node /\ FrameOK(x[1])'
  PROVE  AirOK'
<1>1. ASSUME NEW f, FrameOK(f) PROVE FrameOK(f)'
  BY <1>1 DEF FrameOK
<1>2. \A x \in air : x[2] \in Node /\ FrameOK(x[1])'
  BY <1>1 DEF AirOK
<1>3. \A x \in air' : x[2] \in Node /\ FrameOK(x[1])'
  BY <1>2
<1> QED
  BY <1>3 DEF AirOK

LEMMA AirShrinks ==
  ASSUME AirOK, Issued' = Issued, air' \subseteq air
  PROVE  AirOK'
<1> DEFINE new == {}
<1>1. Issued \subseteq Issued' /\ air' \subseteq air \cup new
  OBVIOUS
<1>2. \A x \in new : x[2] \in Node /\ FrameOK(x[1])'
  OBVIOUS
<1> HIDE DEF new
<1> QED
  BY <1>1, <1>2, AirGrows

LEMMA EmitIsPairs ==
  ASSUME NEW n, NEW frames, NEW x \in Emit(n, frames)
  PROVE  x[1] \in frames /\ x[2] \in Node
BY DEF Emit, Others

LEMMA CalledOffTyped ==
  ASSUME Typed, NEW n \in Node, NEW I
  PROVE  CalledOff(n, I) \in [Id -> Idle .. Jitter]
<1>1. \A i \in Id : scheduled[n][i] \in Idle .. Jitter
  BY DEF Typed
<1>2. Idle \in Idle .. Jitter
  BY AntiEntropyAssumption DEF Idle
<1> QED
  BY <1>1, <1>2 DEF CalledOff

\* What n has observed is what it learns.
LEMMA KnownGrows ==
  ASSUME NEW n \in Node, NEW I \in SUBSET Id,
         \A m \in Node, i \in Id : Holds(m, i)' <=> Holds(m, i) \/ (m = n /\ i \in I)
  PROVE  [m \in Node |-> Known(m)]' =
           [[m \in Node |-> Known(m)] EXCEPT ![n] = @ \cup I]
<1>1. \A m \in Node : Known(m)' = IF m = n THEN Known(m) \cup I ELSE Known(m)
  BY DEF Known
<1> QED
  BY <1>1

\* Nothing of what the refinement sees has changed.
LEMMA Unseen ==
  ASSUME UNCHANGED <<held, composed>>
  PROVE  UNCHANGED <<[m \in Node |-> Known(m)], Issued>>
BY DEF Known, Holds, Has, Issued

\* An order that this node observes and that its store holds already.
LEMMA ObservedIsHonest ==
  ASSUME Honest, NEW n \in Node, NEW I \in SUBSET Id,
         \A m \in Node, i \in Id : Holds(m, i)' <=> Holds(m, i) \/ (m = n /\ i \in I),
         \A m \in Node : orders[m] \subseteq orders'[m],
         compacted' = compacted,
         I \subseteq orders'[n]
  PROVE  Honest'
BY DEF Honest

-----------------------------------------------------------------------------
(* One lemma for each action.                                              *)

LEMMA ComposeStep ==
  ASSUME GossipInv, NEW n \in Node, Compose(n)
  PROVE  GossipInv' /\ \E i \in Id : Vector!Issue(n, i)
<1>1. Typed /\ AuthorsListed /\ StoresIssued /\ Honest /\ AirOK
  BY DEF GossipInv
<1>2. composed[n] \in Start[n] .. Composed[n] - 1
  BY <1>1, AntiEntropyAssumption DEF Compose, Typed, StoresIssued
<1>3. PICK i \in Id : i = <<n, composed[n]>> /\ i[1] = n /\ i[2] = composed[n]
  BY <1>2, IdIsPair
<1>4. /\ orders' = [orders EXCEPT ![n] = @ \cup {i}]
      /\ air' = air \cup Emit(n, {OrderFrame(i)})
      /\ Observe(n, {i})
      /\ scheduled' = [scheduled EXCEPT ![n] = CalledOff(n, {i})]
      /\ composed' = [composed EXCEPT ![n] = @ + 1]
      /\ UNCHANGED <<requests, digestAge, cursor, turn, losses, attaches, compacted>>
  BY <1>3 DEF Compose
<1>5. /\ held' \in [Node -> [Node -> Vectors]]
      /\ authors' \in [Node -> Seq(Node)]
      /\ heard' \in [Node -> [Id -> 0 .. Suppression]]
      /\ AuthorsListed'
      /\ \A m \in Node, j \in Id : Holds(m, j)' <=> Holds(m, j) \/ (m = n /\ j \in {i})
  BY <1>1, <1>3, <1>4, ObserveAdds
<1>6. \A m \in Node : composed'[m] = IF m = n THEN composed[m] + 1 ELSE composed[m]
  BY <1>1, <1>4 DEF Typed
<1>7. i \notin Issued /\ Issued' = Issued \cup {i}
  <2>1. ASSUME NEW j \in Id PROVE j \in Issued' <=> j \in Issued \/ j = i
    <3>1. j = <<j[1], j[2]>> /\ j[1] \in Node /\ j[2] \in Nat /\ composed[j[1]] \in Nat
      BY <1>1, IdIsPair DEF Typed
    <3>2. j = i <=> j[1] = n /\ j[2] = composed[n]
      BY <1>3, <3>1
    <3>3. j \in Issued' <=> j[2] < composed'[j[1]]
      BY DEF Issued
    <3>4. j \in Issued <=> j[2] < composed[j[1]]
      BY DEF Issued
    <3> QED
      BY <1>6, <3>1, <3>2, <3>3, <3>4
  <2>2. i \notin Issued
    BY <1>1, <1>3 DEF Issued, Typed
  <2> QED
    BY <1>3, <2>1, <2>2 DEF Issued
<1>8. Typed'
  <2>1. orders' \in [Node -> SUBSET Id]
    BY <1>1, <1>3, <1>4 DEF Typed
  <2>2. scheduled' \in [Node -> [Id -> Idle .. Jitter]]
    BY <1>1, <1>4, CalledOffTyped DEF Typed
  <2>3. composed' \in [Node -> Nat]
    BY <1>1, <1>4 DEF Typed
  <2> QED
    BY <1>1, <1>4, <1>5, <2>1, <2>2, <2>3 DEF Typed
<1>9. \A m \in Node : orders'[m] = IF m = n THEN orders[m] \cup {i} ELSE orders[m]
  BY <1>1, <1>4 DEF Typed
<1>10. StoresIssued'
  <2> SUFFICES ASSUME NEW m \in Node
               PROVE  Start[m] <= composed'[m] /\ orders'[m] \subseteq Issued'
    BY DEF StoresIssued
  <2>1. Start[m] <= composed'[m]
    <3>1. Start[m] \in Nat /\ composed[m] \in Nat /\ Start[m] <= composed[m]
      BY <1>1, AntiEntropyAssumption DEF StoresIssued, Typed
    <3> QED
      BY <1>6, <3>1
  <2> QED
    BY <1>1, <1>7, <1>9, <2>1 DEF StoresIssued
<1>11. Honest'
  <2>1. {i} \in SUBSET Id
    BY <1>3
  <2>2. compacted' = compacted
    BY <1>4
  <2> QED
    BY <1>1, <1>5, <1>9, <2>1, <2>2, ObservedIsHonest
<1>12. AirOK'
  <2>1. \A x \in Emit(n, {OrderFrame(i)}) : x[2] \in Node /\ x[1] = OrderFrame(i)
    BY EmitIsPairs
  <2>2. FrameOK(OrderFrame(i))'
    BY <1>7 DEF FrameOK, OrderFrame
  <2> QED
    BY <1>1, <1>4, <1>7, <2>1, <2>2, AirGrows
<1>13. Vector!Issue(n, i)
  <2>1. [m \in Node |-> Known(m)]' = [[m \in Node |-> Known(m)] EXCEPT ![n] = @ \cup {i}]
    <3> DEFINE I == {i}
    <3>1. I \in SUBSET Id
      BY <1>3
    <3>2. \A m \in Node, j \in Id : Holds(m, j)' <=> Holds(m, j) \/ (m = n /\ j \in I)
      BY <1>5
    <3> HIDE DEF I
    <3>3. [m \in Node |-> Known(m)]' = [[m \in Node |-> Known(m)] EXCEPT ![n] = @ \cup I]
      BY <3>1, <3>2, KnownGrows
    <3> QED
      BY <3>3 DEF I
  <2> QED
    BY <1>7, <2>1 DEF Vector!Issue
<1> QED
  BY <1>3, <1>5, <1>8, <1>10, <1>11, <1>12, <1>13 DEF GossipInv

\* Whoever hears an order learns it.
LEMMA OnOrderStep ==
  ASSUME GossipInv, NEW m \in Node, NEW i \in Issued, OnOrder(m, i), UNCHANGED composed,
         air' \subseteq air
  PROVE  GossipInv' /\ Vector!Learn(m, {i})
<1> DEFINE I == {i}
<1>1. Typed /\ AuthorsListed /\ StoresIssued /\ Honest /\ AirOK
  BY DEF GossipInv
<1>2. i \in Id /\ I \in SUBSET Id /\ I \subseteq Issued /\ i \in I
  BY DEF Issued
<1>3. /\ orders' = [orders EXCEPT ![m] = @ \cup I]
      /\ Observe(m, I)
      /\ scheduled' = [scheduled EXCEPT ![m] = CalledOff(m, I)]
      /\ UNCHANGED <<requests, digestAge, cursor, compacted>>
  BY DEF OnOrder
<1> HIDE DEF I
<1>4. /\ held' \in [Node -> [Node -> Vectors]]
      /\ authors' \in [Node -> Seq(Node)]
      /\ heard' \in [Node -> [Id -> 0 .. Suppression]]
      /\ AuthorsListed'
      /\ \A n \in Node, j \in Id : Holds(n, j)' <=> Holds(n, j) \/ (n = m /\ j \in I)
  BY <1>1, <1>2, <1>3, ObserveAdds
<1>5. \A n \in Node : orders'[n] = IF n = m THEN orders[n] \cup I ELSE orders[n]
  BY <1>1, <1>3 DEF Typed
<1>6. Issued' = Issued
  BY DEF Issued
<1>7. Typed'
  <2>1. orders' \in [Node -> SUBSET Id]
    BY <1>1, <1>2, <1>3 DEF Typed
  <2>2. scheduled' \in [Node -> [Id -> Idle .. Jitter]]
    BY <1>1, <1>3, CalledOffTyped DEF Typed
  <2> QED
    BY <1>1, <1>3, <1>4, <2>1, <2>2 DEF Typed
<1>8. StoresIssued'
  BY <1>1, <1>2, <1>5, <1>6 DEF StoresIssued
<1>9. Honest'
  <2>1. \A n \in Node : orders[n] \subseteq orders'[n]
    BY <1>5
  <2>2. I \subseteq orders'[m]
    BY <1>5
  <2>3. compacted' = compacted
    BY <1>3
  <2>4. \A n \in Node, j \in Id : Holds(n, j)' <=> Holds(n, j) \/ (n = m /\ j \in I)
    BY <1>4
  <2> QED
    BY <1>1, <1>2, <2>1, <2>2, <2>3, <2>4, ObservedIsHonest, ZenonT(40)
<1>10. AirOK'
  BY <1>1, <1>6, AirShrinks
<1>11. Vector!Learn(m, I)
  <2>1. [n \in Node |-> Known(n)]' = [[n \in Node |-> Known(n)] EXCEPT ![m] = @ \cup I]
    BY <1>2, <1>4, KnownGrows
  <2> QED
    BY <1>2, <1>6, <2>1 DEF Vector!Learn
<1> QED
  BY <1>4, <1>7, <1>8, <1>9, <1>10, <1>11 DEF GossipInv, I

\* A step that only schedules, forgets or drops frames.
LEMMA QuietStep ==
  ASSUME GossipInv, UNCHANGED <<orders, held, authors, composed, compacted>>,
         heard' \in [Node -> [Id -> 0 .. Suppression]],
         scheduled' \in [Node -> [Id -> Idle .. Jitter]],
         requests' \in [Node -> [Node -> Request \cup {NoReq}]],
         cursor' \in [Node -> Nat],
         air' \subseteq air
  PROVE  GossipInv' /\ UNCHANGED <<[m \in Node |-> Known(m)], Issued>>
<1>1. Typed /\ AuthorsListed /\ StoresIssued /\ Honest /\ AirOK
  BY DEF GossipInv
<1>2. UNCHANGED <<[m \in Node |-> Known(m)], Issued>>
  BY Unseen
<1>3. Typed'
  BY <1>1 DEF Typed
<1>4. AuthorsListed' /\ StoresIssued'
  BY <1>1, <1>2 DEF AuthorsListed, StoresIssued
<1>5. Honest'
  BY <1>1 DEF Honest, Holds, Has
<1>6. AirOK'
  BY <1>1, <1>2, AirShrinks
<1> QED
  BY <1>2, <1>3, <1>4, <1>5, <1>6 DEF GossipInv

LEMMA UptoIsNumber ==
  ASSUME NEW r \in Vectors
  PROVE  ContiguousUpto(r) \in Int /\ ContiguousUpto(r) + 1 \in Nat
<1>1. CASE r = <<>>
  BY <1>1 DEF ContiguousUpto
<1>2. CASE r # <<>>
  <2>1. r \in Seq(SeqRange) /\ 1 \in 1 .. Len(r)
    BY <1>2 DEF Vectors
  <2> QED
    BY <1>2, <2>1, Ends DEF ContiguousUpto
<1> QED
  BY <1>1, <1>2

LEMMA DeficitTyped ==
  ASSUME Typed, NEW m \in Node, NEW e, e.author \in Node, e.upto \in Int, InDeficit(m, e)
  PROVE  Deficit(m, e).from \in Nat /\ Deficit(m, e).count \in Nat \ {0}
<1> DEFINE r == held[m][e.author]
<1>1. r \in Vectors
  BY DEF Typed
<1> HIDE DEF r
<1>2. ContiguousUpto(r) + 1 \in Nat
  BY <1>1, UptoIsNumber
<1>3. e.upto - (ContiguousUpto(r) + 1) + 1 \in Int /\ ReqMax \in Nat
  BY <1>2, AntiEntropyAssumption
<1>4. Min({e.upto - (ContiguousUpto(r) + 1) + 1, ReqMax}) \in Int
  BY <1>3, MinOfTwo
<1> QED
  BY <1>2, <1>4 DEF Deficit, InDeficit, r

\* What hearing a digest schedules is well typed.
LEMMA OnDigestStep ==
  ASSUME GossipInv, NEW m \in Node, NEW entries,
         \A e \in ToSet(entries) : e.author \in Node /\ e.upto \in Int,
         OnDigest(m, entries), UNCHANGED composed, air' \subseteq air
  PROVE  GossipInv' /\ UNCHANGED <<[n \in Node |-> Known(n)], Issued>>
<1>1. Typed
  BY DEF GossipInv
<1> DEFINE lacking == {e \in ToSet(entries) : InDeficit(m, e)}
<1>2. PICK wait \in [Offered(m, entries) -> 0 .. Jitter],
           reqWait \in [{e.author : e \in lacking} -> 0 .. Jitter] :
        /\ scheduled' = [scheduled EXCEPT ![m] =
             [i \in Id |-> IF i \in Offered(m, entries) THEN wait[i] ELSE @[i]]]
        /\ requests' = [requests EXCEPT ![m] =
             [a \in Node |->
                IF \E e \in lacking : e.author = a
                  THEN LET d == Deficit(m, CHOOSE e \in lacking : e.author = a)
                       IN  [from |-> d.from, count |-> d.count, wait |-> reqWait[a]]
                  ELSE @[a]]]
        /\ UNCHANGED <<orders, held, authors, heard, digestAge, cursor, compacted>>
  BY DEF OnDigest
<1>3. scheduled' \in [Node -> [Id -> Idle .. Jitter]]
  <2>1. ASSUME NEW i \in Id
        PROVE  (IF i \in Offered(m, entries) THEN wait[i] ELSE scheduled[m][i])
                  \in Idle .. Jitter
    BY <1>1, AntiEntropyAssumption, SMTT(30) DEF Typed, Idle
  <2>2. [i \in Id |-> IF i \in Offered(m, entries) THEN wait[i] ELSE scheduled[m][i]]
          \in [Id -> Idle .. Jitter]
    BY <2>1
  <2> QED
    BY <1>1, <1>2, <2>2 DEF Typed
<1>4. requests' \in [Node -> [Node -> Request \cup {NoReq}]]
  <2> DEFINE asked(a) == Deficit(m, CHOOSE e \in lacking : e.author = a)
             req(a) == IF \E e \in lacking : e.author = a
                         THEN [from |-> asked(a).from, count |-> asked(a).count,
                               wait |-> reqWait[a]]
                         ELSE requests[m][a]
  <2>1. ASSUME NEW a \in Node PROVE req(a) \in Request \cup {NoReq}
    <3>1. CASE \E e \in lacking : e.author = a
      <4> DEFINE x == CHOOSE e \in lacking : e.author = a
      <4>1. x \in lacking /\ x.author = a
        BY <3>1
      <4>2. reqWait[a] \in 0 .. Jitter
        BY <4>1
      <4> HIDE DEF x
      <4>3. Deficit(m, x).from \in Nat /\ Deficit(m, x).count \in Nat \ {0}
        BY <1>1, <4>1, DeficitTyped
      <4>4. asked(a).from \in Nat /\ asked(a).count \in Nat \ {0}
        BY <4>3 DEF x
      <4> HIDE DEF asked, lacking
      <4> QED
        BY <3>1, <4>2, <4>4 DEF Request
    <3>2. CASE ~ \E e \in lacking : e.author = a
      BY <1>1, <3>2 DEF Typed
    <3> QED
      BY <3>1, <3>2
  <2>2. requests' = [requests EXCEPT ![m] = [a \in Node |-> req(a)]]
    BY <1>2
  <2> HIDE DEF req
  <2> QED
    BY <1>1, <2>1, <2>2 DEF Typed
<1>5. heard' \in [Node -> [Id -> 0 .. Suppression]] /\ cursor' \in [Node -> Nat]
  BY <1>1, <1>2 DEF Typed
<1> QED
  BY <1>2, <1>3, <1>4, <1>5, QuietStep

LEMMA OnReqStep ==
  ASSUME GossipInv, NEW m \in Node, NEW r, OnReq(m, r), UNCHANGED composed, air' \subseteq air
  PROVE  GossipInv' /\ UNCHANGED <<[n \in Node |-> Known(n)], Issued>>
<1>1. Typed
  BY DEF GossipInv
<1> DEFINE wanted == Id \cap {<<r.author, s>> : s \in r.from .. r.from + r.count - 1}
           offered == {i \in wanted \cap orders[m] : ~IsSuppressed(m, i)}
<1>2. PICK wait \in [offered -> 0 .. (Jitter + 2) \div 3] :
        /\ scheduled' = [scheduled EXCEPT ![m] =
             [i \in Id |-> IF i \in offered THEN wait[i] ELSE @[i]]]
        /\ UNCHANGED <<orders, held, authors, heard, requests, digestAge, cursor, compacted>>
  BY DEF OnReq
<1>3. ((Jitter + 2) \div 3 \in Nat /\ (Jitter + 2) \div 3 <= Jitter) \/ Jitter = 0
  BY AntiEntropyAssumption
<1>4. Jitter = 0 => (Jitter + 2) \div 3 = 0
  OBVIOUS
<1>5. \A w \in 0 .. (Jitter + 2) \div 3 : w \in Idle .. Jitter
  BY <1>3, <1>4, AntiEntropyAssumption, SMTT(30) DEF Idle
<1> HIDE DEF offered
<1>6. [i \in Id |-> IF i \in offered THEN wait[i] ELSE scheduled[m][i]] \in [Id -> Idle .. Jitter]
  BY <1>1, <1>5 DEF Typed
<1>7. scheduled' \in [Node -> [Id -> Idle .. Jitter]]
  BY <1>1, <1>2, <1>6 DEF Typed
<1>8. /\ heard' \in [Node -> [Id -> 0 .. Suppression]] /\ cursor' \in [Node -> Nat]
      /\ requests' \in [Node -> [Node -> Request \cup {NoReq}]]
  BY <1>1, <1>2 DEF Typed
<1> QED
  BY <1>2, <1>7, <1>8, QuietStep

LEMMA ReceiveStep ==
  ASSUME GossipInv, NEW x \in air, Receive(x[1], x[2])
  PROVE  /\ GossipInv'
         /\ \/ \E m \in Node, I \in SUBSET Id : Vector!Learn(m, I)
            \/ UNCHANGED <<[n \in Node |-> Known(n)], Issued>>
<1>1. x[2] \in Node /\ FrameOK(x[1])
  BY DEF GossipInv, AirOK
<1>2. air' \subseteq air /\ UNCHANGED composed
  BY DEF Receive, bounds
<1>3. CASE x[1].kind = "order" /\ OnOrder(x[2], x[1].id)
  <2>1. x[1].id \in Issued
    BY <1>1, <1>3 DEF FrameOK
  <2>2. {x[1].id} \in SUBSET Id
    BY <2>1 DEF Issued
  <2> QED
    BY <1>1, <1>2, <1>3, <2>1, <2>2, OnOrderStep
<1>4. CASE x[1].kind = "digest" /\ OnDigest(x[2], x[1].entries)
  <2>1. \A e \in ToSet(x[1].entries) : e.author \in Node /\ e.upto \in Int
    BY <1>1, <1>4 DEF FrameOK
  <2> QED
    BY <1>1, <1>2, <1>4, <2>1, OnDigestStep
<1>5. CASE x[1].kind = "req" /\ OnReq(x[2], x[1])
  BY <1>1, <1>2, <1>5, OnReqStep
<1> QED
  BY <1>3, <1>4, <1>5 DEF Receive

LEMMA LoseStep ==
  ASSUME GossipInv, NEW x \in air, Lose(x[1], x[2])
  PROVE  GossipInv' /\ UNCHANGED <<[n \in Node |-> Known(n)], Issued>>
<1>1. Typed
  BY DEF GossipInv
<1>2. air' \subseteq air /\ UNCHANGED node /\ UNCHANGED composed
  BY DEF Lose
<1> QED
  BY <1>1, <1>2, QuietStep DEF node, Typed

LEMMA AdvanceStep ==
  ASSUME GossipInv, Advance
  PROVE  GossipInv' /\ UNCHANGED <<[n \in Node |-> Known(n)], Issued>>
<1>1. Typed
  BY DEF GossipInv
<1>2. /\ heard' = [n \in Node |-> [i \in Id |-> Min({heard[n][i] + 1, Suppression})]]
      /\ scheduled' = [n \in Node |-> [i \in Id |->
           IF scheduled[n][i] > 0 THEN scheduled[n][i] - 1 ELSE scheduled[n][i]]]
      /\ requests' = [n \in Node |-> [a \in Node |->
           IF requests[n][a] # NoReq /\ requests[n][a].wait > 0
             THEN [requests[n][a] EXCEPT !.wait = @ - 1] ELSE requests[n][a]]]
      /\ UNCHANGED <<orders, held, authors, cursor, air, composed, compacted>>
  BY DEF Advance, bounds
<1>3. heard' \in [Node -> [Id -> 0 .. Suppression]]
  <2>1. ASSUME NEW n \in Node, NEW i \in Id
        PROVE  Min({heard[n][i] + 1, Suppression}) \in 0 .. Suppression
    <3>1. heard[n][i] \in 0 .. Suppression /\ Suppression \in Nat
      BY <1>1, AntiEntropyAssumption DEF Typed
    <3> QED
      BY <3>1, MinOfTwo
  <2> QED
    BY <1>2, <2>1
<1>4. scheduled' \in [Node -> [Id -> Idle .. Jitter]]
  <2>1. ASSUME NEW n \in Node, NEW i \in Id
        PROVE  (IF scheduled[n][i] > 0 THEN scheduled[n][i] - 1 ELSE scheduled[n][i])
                 \in Idle .. Jitter
    <3>1. scheduled[n][i] \in Idle .. Jitter /\ Jitter \in Nat
      BY <1>1, AntiEntropyAssumption DEF Typed
    <3> QED
      BY <3>1 DEF Idle
  <2> QED
    BY <1>2, <2>1
<1>5. requests' \in [Node -> [Node -> Request \cup {NoReq}]]
  <2>1. ASSUME NEW n \in Node, NEW a \in Node
        PROVE  (IF requests[n][a] # NoReq /\ requests[n][a].wait > 0
                  THEN [requests[n][a] EXCEPT !.wait = @ - 1] ELSE requests[n][a])
                 \in Request \cup {NoReq}
    <3>1. requests[n][a] \in Request \cup {NoReq} /\ Jitter \in Nat
      BY <1>1, AntiEntropyAssumption DEF Typed
    <3> QED
      BY <3>1 DEF Request
  <2> QED
    BY <1>2, <2>1
<1>6. cursor' \in [Node -> Nat] /\ air' \subseteq air
  BY <1>1, <1>2 DEF Typed
<1> QED
  BY <1>2, <1>3, <1>4, <1>5, <1>6, QuietStep

\* A save: the store shrinks, and what it loses is what compacted gains.
LEMMA SaveStep ==
  ASSUME GossipInv, NEW n \in Node, Save(n)
  PROVE  GossipInv' /\ UNCHANGED <<[m \in Node |-> Known(m)], Issued>>
<1>1. Typed /\ AuthorsListed /\ StoresIssued /\ Honest /\ AirOK
  BY DEF GossipInv
<1>2. PICK gone \in SUBSET orders[n] :
        /\ orders' = [orders EXCEPT ![n] = @ \ gone]
        /\ compacted' = [compacted EXCEPT ![n] = @ \cup gone]
  BY DEF Save, Compacts
<1>3. UNCHANGED <<held, authors, heard, scheduled, requests, cursor, air, composed>>
  BY DEF Save, bounds
<1>4. UNCHANGED <<[m \in Node |-> Known(m)], Issued>>
  BY <1>3, Unseen
<1>5. /\ \A m \in Node : orders'[m] = IF m = n THEN orders[m] \ gone ELSE orders[m]
      /\ \A m \in Node :
           compacted'[m] = IF m = n THEN compacted[m] \cup gone ELSE compacted[m]
  BY <1>1, <1>2 DEF Typed
<1>6. Typed'
  <2>1. orders' \in [Node -> SUBSET Id] /\ compacted' \in [Node -> SUBSET Id]
    BY <1>1, <1>2 DEF Typed
  <2> QED
    BY <1>1, <1>3, <2>1 DEF Typed
<1>7. AuthorsListed'
  BY <1>1, <1>3 DEF AuthorsListed
<1>8. StoresIssued'
  BY <1>1, <1>3, <1>4, <1>5 DEF StoresIssued
<1>9. Honest'
  <2>1. \A m \in Node : orders[m] \cup compacted[m] \subseteq orders'[m] \cup compacted'[m]
    BY <1>5
  <2>2. \A m \in Node, i \in Id : Holds(m, i)' <=> Holds(m, i)
    BY <1>3 DEF Holds, Has
  <2> QED
    BY <1>1, <2>1, <2>2 DEF Honest
<1>10. AirOK'
  BY <1>1, <1>3, <1>4, AirShrinks
<1> QED
  BY <1>4, <1>6, <1>7, <1>8, <1>9, <1>10 DEF GossipInv

\* A new connection of the radio: the vector starts over, the store stays but
\* for what the save that waited takes.
LEMMA AttachStep ==
  ASSUME GossipInv, NEW n \in Node, Attach(n)
  PROVE  GossipInv' /\ Vector!StartOver(n)
<1>1. Typed /\ AuthorsListed /\ StoresIssued /\ Honest /\ AirOK
  BY DEF GossipInv
<1>2. /\ held' = [held EXCEPT ![n] = [a \in Node |-> <<>>]]
      /\ authors' = [authors EXCEPT ![n] = <<>>]
      /\ heard' = [heard EXCEPT ![n] = [i \in Id |-> Suppression]]
      /\ scheduled' = [scheduled EXCEPT ![n] = [i \in Id |-> Idle]]
      /\ requests' = [requests EXCEPT ![n] = [a \in Node |-> NoReq]]
      /\ cursor' = [cursor EXCEPT ![n] = 0]
      /\ compacted' = [compacted EXCEPT ![n] = {}]
      /\ UNCHANGED <<air, composed>>
  BY DEF Attach
<1>3. Issued' = Issued
  BY <1>2 DEF Issued
<1>4. <<>> \in Vectors
  BY DEF Vectors, WellFormed
<1>5. \A m \in Node : held'[m] = IF m = n THEN [a \in Node |-> <<>>] ELSE held[m]
  BY <1>1, <1>2 DEF Typed
<1>6. PICK gone \in SUBSET orders[n] : orders' = [orders EXCEPT ![n] = @ \ gone]
  BY DEF Attach, Compacts
<1>7. /\ \A m \in Node : orders'[m] = IF m = n THEN orders[m] \ gone ELSE orders[m]
      /\ \A m \in Node : compacted'[m] = IF m = n THEN {} ELSE compacted[m]
  BY <1>1, <1>2, <1>6 DEF Typed
<1>8. Typed'
  <2>1. held' \in [Node -> [Node -> Vectors]]
    BY <1>1, <1>2, <1>4 DEF Typed
  <2>2. /\ heard' \in [Node -> [Id -> 0 .. Suppression]]
        /\ scheduled' \in [Node -> [Id -> Idle .. Jitter]]
    BY <1>1, <1>2, AntiEntropyAssumption DEF Typed, Idle
  <2>3. requests' \in [Node -> [Node -> Request \cup {NoReq}]]
    BY <1>1, <1>2 DEF Typed
  <2>4. authors' \in [Node -> Seq(Node)] /\ cursor' \in [Node -> Nat]
    BY <1>1, <1>2 DEF Typed
  <2>5. orders' \in [Node -> SUBSET Id] /\ compacted' \in [Node -> SUBSET Id]
    BY <1>1, <1>2, <1>6 DEF Typed
  <2> QED
    BY <1>1, <1>2, <2>1, <2>2, <2>3, <2>4, <2>5 DEF Typed
<1>9. AuthorsListed'
  <2>1. \A m \in Node : authors'[m] = IF m = n THEN <<>> ELSE authors[m]
    BY <1>1, <1>2 DEF Typed
  <2>2. ToSet(<<>>) = {}
    BY DEF ToSet
  <2> QED
    BY <1>1, <1>5, <2>1, <2>2 DEF AuthorsListed
<1>10. StoresIssued'
  BY <1>1, <1>2, <1>3, <1>7 DEF StoresIssued
<1>11. \A m \in Node, i \in Id : Holds(m, i)' <=> Holds(m, i) /\ m # n
  <2> SUFFICES ASSUME NEW m \in Node, NEW i \in Id
               PROVE  Holds(m, i)' <=> Holds(m, i) /\ m # n
    OBVIOUS
  <2>1. i[1] \in Node
    BY IdIsPair
  <2>2. CASE m = n
    <3>1. held'[m][i[1]] = <<>>
      BY <1>5, <2>1, <2>2
    <3> QED
      BY <2>2, <3>1 DEF Holds, Has
  <2>3. CASE m # n
    BY <1>5, <2>3 DEF Holds, Has
  <2> QED
    BY <2>2, <2>3
<1>12. Honest'
  BY <1>1, <1>7, <1>11 DEF Honest
<1>13. AirOK'
  BY <1>1, <1>2, <1>3, AirShrinks
<1>14. Vector!StartOver(n)
  <2>1. \A m \in Node : Known(m)' = IF m = n THEN {} ELSE Known(m)
    BY <1>11 DEF Known
  <2>2. [m \in Node |-> Known(m)]' = [[m \in Node |-> Known(m)] EXCEPT ![n] = {}]
    BY <2>1
  <2> QED
    BY <1>3, <2>2 DEF Vector!StartOver
<1> QED
  BY <1>8, <1>9, <1>10, <1>12, <1>13, <1>14 DEF GossipInv

-----------------------------------------------------------------------------
(* The heartbeat.                                                          *)

\* Every gap begins with a number, and is not empty.
LEMMA GapIsNotEmpty ==
  ASSUME NEW r \in Vectors, Gaps(r) # <<>>
  PROVE  Gaps(r)[1].from \in Nat /\ Gaps(r)[1].count \in Nat \ {0}
<1>1. r \in Seq(SeqRange) /\ WellFormed(r) /\ Len(r) \in Nat
  BY DEF Vectors
<1>2. Len(r) - 1 >= 1
  <2> SUFFICES ASSUME Len(r) - 1 < 1 PROVE FALSE
    BY <1>1
  <2>1. 1 .. Len(r) - 1 = {}
    BY <1>1
  <2>2. Gaps(r) = [i \in {} |-> 0]
    BY <2>1 DEF Gaps
  <2> QED
    BY <2>2
<1>3. 1 \in 1 .. Len(r) - 1 /\ 1 \in 1 .. Len(r) /\ 2 \in 1 .. Len(r)
  BY <1>1, <1>2
<1>4. r[1].to \in Nat /\ r[2].from \in Nat /\ r[1].to + 1 < r[2].from
  BY <1>1, <1>3, Ends DEF WellFormed
<1>5. Gaps(r)[1] = [from |-> r[1].to + 1, count |-> r[2].from - r[1].to - 1]
  BY <1>3 DEF Gaps
<1> QED
  BY <1>4, <1>5

LEMMA GapRequestsTyped ==
  ASSUME NEW vector \in [Node -> Vectors], NEW list \in Seq(Node), NEW waiting,
         NEW a \in DOMAIN GapRequests(vector, list, waiting)
  PROVE  /\ a \in Node
         /\ GapRequests(vector, list, waiting)[a].from \in Nat
         /\ GapRequests(vector, list, waiting)[a].count \in Nat \ {0}
<1> DEFINE gaps(b) == Gaps(vector[b])
           before(k) == UNION {{list[j]} \X DOMAIN gaps(list[j]) : j \in 1 .. k - 1}
           asked == {list[k] : k \in {j \in 1 .. Len(list) :
                                        /\ gaps(list[j]) # <<>>
                                        /\ Cardinality(before(j)) < ResendMax}}
           reqs == [b \in asked \ waiting |->
                      [from |-> gaps(b)[1].from, count |-> Min({gaps(b)[1].count, ReqMax})]]
<1>1. GapRequests(vector, list, waiting) = reqs
  BY DEF GapRequests
<1>2. a \in asked
  BY <1>1
<1>3. PICK k \in 1 .. Len(list) : a = list[k] /\ gaps(list[k]) # <<>>
  BY <1>2
<1>4. a \in Node /\ Gaps(vector[a]) # <<>>
  BY <1>3
<1>5. vector[a] \in Vectors
  BY <1>4
<1>6. Gaps(vector[a])[1].from \in Nat /\ Gaps(vector[a])[1].count \in Nat \ {0}
  BY <1>4, <1>5, GapIsNotEmpty
<1>7. ReqMax \in Nat \ {0}
  BY AntiEntropyAssumption
<1>8. Min({Gaps(vector[a])[1].count, ReqMax}) \in Nat \ {0}
  BY <1>6, <1>7, MinOfTwo
<1>9. reqs[a] = [from |-> Gaps(vector[a])[1].from,
                 count |-> Min({Gaps(vector[a])[1].count, ReqMax})]
  BY <1>1
<1> HIDE DEF reqs
<1> QED
  BY <1>1, <1>4, <1>6, <1>8, <1>9

LEMMA AnnouncedIsList ==
  ASSUME NEW start \in Nat, NEW all \in Seq(Node), Len(all) > DigestMax
  PROVE  Announced(start, all) \in Seq(Node)
<1>1. Len(all) \in Nat /\ Len(all) > 0 /\ DigestMax \in Nat
  BY AntiEntropyAssumption
<1>2. Min({Len(all), DigestMax}) \in Nat
  BY <1>1, MinOfTwo
<1>3. ASSUME NEW k \in 1 .. Min({Len(all), DigestMax})
      PROVE  all[((start + k - 1) % Len(all)) + 1] \in Node
  <2>1. start + k - 1 \in Nat
    BY <1>2
  <2>2. (start + k - 1) % Len(all) \in 0 .. Len(all) - 1
    BY <1>1, <2>1
  <2>3. ((start + k - 1) % Len(all)) + 1 \in 1 .. Len(all)
    BY <1>1, <2>2
  <2> QED
    BY <2>3
<1>4. PICK c \in Nat : c = Min({Len(all), DigestMax})
  BY <1>2
<1>5. Announced(start, all) = [k \in 1 .. c |-> all[((start + k - 1) % Len(all)) + 1]]
  BY <1>4 DEF Announced
<1>6. \A k \in 1 .. c : all[((start + k - 1) % Len(all)) + 1] \in Node
  BY <1>3, <1>4
<1> QED
  BY <1>5, <1>6

LEMMA DigestIsOK ==
  ASSUME NEW vector \in [Node -> Vectors], NEW list \in Seq(Node)
  PROVE  FrameOK(DigestOf(vector, list))'
<1> DEFINE entries == [k \in 1 .. Len(list) |->
                         [author |-> list[k], upto |-> ContiguousUpto(vector[list[k]])]]
<1>1. DigestOf(vector, list) = [kind |-> "digest", entries |-> entries]
  BY DEF DigestOf, DigestFrame
<1>2. ASSUME NEW e \in ToSet(entries) PROVE e.author \in Node /\ e.upto \in Int
  <2>1. PICK k \in 1 .. Len(list) : e = entries[k]
    BY DEF ToSet
  <2>2. list[k] \in Node /\ vector[list[k]] \in Vectors
    OBVIOUS
  <2> QED
    BY <2>1, <2>2, UptoIsNumber
<1> HIDE DEF entries
<1> QED
  BY <1>1, <1>2 DEF FrameOK

\* What is left of a request begins with a number that is missing.
LEMMA RecheckedIsOK ==
  ASSUME Typed, NEW n \in Node, NEW a \in DueRequests(n), NEW ranges \in Vectors,
         NEW q, q = Rechecked(n, a, ranges), q.count > 0
  PROVE  FrameOK(q)' /\ q.kind = "req" /\ q.author = a /\ a \in Node /\ ~Has(ranges, q.from)
<1> DEFINE r == requests[n][a]
           from == IF ranges = <<>> THEN r.from ELSE ContiguousUpto(ranges) + 1
<1>1. a \in Node /\ r \in Request
  BY DEF Typed, DueRequests
<1>2. r.from \in Nat /\ r.count \in Nat
  BY <1>1 DEF Request
<1>3. from \in Nat
  BY <1>2, UptoIsNumber
<1>4. Rechecked(n, a, ranges) =
        [kind |-> "req", author |-> a, from |-> from, count |-> r.from + r.count - from]
  BY DEF Rechecked, ReqFrame
<1>5. ~Has(ranges, from)
  <2>1. CASE ranges = <<>>
    BY <2>1 DEF Has
  <2>2. CASE ranges # <<>>
    <3>1. ContiguousUpto(ranges) + 1 \notin Numbers(ranges)
      BY <2>2, DigestIsTrue
    <3> QED
      BY <2>2, <3>1, HasIsNumber
  <2> QED
    BY <2>1, <2>2
<1>6. PICK c : c = r.from + r.count - from
  OBVIOUS
<1>7. PICK f : f = from
  OBVIOUS
<1> HIDE DEF from, r
<1>9. q = [kind |-> "req", author |-> a, from |-> f, count |-> c] /\ f \in Nat /\ c \in Nat
  BY <1>2, <1>3, <1>4, <1>6, <1>7
<1>10. FrameOK(q)'
  BY <1>1, <1>9 DEF FrameOK
<1> QED
  BY <1>1, <1>5, <1>7, <1>9, <1>10

\* The frames of a heartbeat: what is sent again, what is asked for, a digest.
TickFrames(n, resent, vector, list) ==
  LET asked == {f \in {Rechecked(n, a, vector[a]) : a \in DueRequests(n)} : f.count > 0}
      start == cursor[n] % Len(list)
  IN  {OrderFrame(i) : i \in resent} \cup asked
        \cup (IF digestAge[n] = DigestInterval /\ list # <<>>
                THEN {DigestOf(vector, IF Len(list) <= DigestMax THEN list
                                       ELSE Announced(start, list))}
                ELSE {})

\* What a heartbeat sends is sound, and a request asks for what is missing.
LEMMA TickFramesAreOK ==
  ASSUME Typed, NEW n \in Node, NEW resent \in SUBSET Issued, Issued' = Issued,
         NEW vector \in [Node -> Vectors], NEW list \in Seq(Node),
         NEW f \in TickFrames(n, resent, vector, list)
  PROVE  /\ FrameOK(f)'
         /\ f.kind = "req" => f.author \in Node /\ ~Has(vector[f.author], f.from)
<1>1. CASE f \in {OrderFrame(i) : i \in resent}
  BY <1>1 DEF FrameOK, OrderFrame
<1>2. CASE f \in {g \in {Rechecked(n, a, vector[a]) : a \in DueRequests(n)} : g.count > 0}
  <2>1. PICK a \in DueRequests(n) : f = Rechecked(n, a, vector[a]) /\ f.count > 0
    BY <1>2
  <2>2. a \in Node
    BY DEF DueRequests
  <2>3. vector[a] \in Vectors
    BY <2>2
  <2> QED
    BY <2>1, <2>3, RecheckedIsOK
<1>3. CASE list # <<>> /\ f = DigestOf(vector, list)
  <2>1. f.kind = "digest"
    BY <1>3 DEF DigestOf, DigestFrame
  <2> QED
    BY <1>3, <2>1, DigestIsOK
<1>4. CASE /\ list # <<>> /\ ~(Len(list) <= DigestMax)
           /\ f = DigestOf(vector, Announced(cursor[n] % Len(list), list))
  <2>1. Len(list) \in Nat /\ Len(list) > DigestMax /\ DigestMax \in Nat /\ cursor[n] \in Nat
    <3>1. Len(list) \in Nat /\ DigestMax \in Nat
      BY AntiEntropyAssumption
    <3>2. cursor[n] \in Nat
      BY DEF Typed
    <3> QED
      BY <1>4, <3>1, <3>2
  <2>2. cursor[n] % Len(list) \in Nat
    BY <2>1
  <2>3. PICK some \in Seq(Node) : some = Announced(cursor[n] % Len(list), list)
    BY <2>1, <2>2, AnnouncedIsList
  <2>4. f = DigestOf(vector, some) /\ f.kind = "digest"
    BY <1>4, <2>3 DEF DigestOf, DigestFrame
  <2> QED
    BY <2>4, DigestIsOK
<1> QED
  BY <1>1, <1>2, <1>3, <1>4 DEF TickFrames

\* The parts of a heartbeat that the proofs use.
LEMMA TickUnfolds ==
  ASSUME GossipInv, NEW n \in Node, Tick(n)
  PROVE  \E resent \in SUBSET Id, vector \in [Node -> Vectors], list \in Seq(Node) :
           /\ resent = Resent(n) /\ resent \subseteq orders[n]
           /\ vector = HeldWith(n, resent) /\ list = AuthorsWith(n, resent)
           /\ Observe(n, resent)
           /\ held'[n] = vector
           /\ air' = air \cup Emit(n, TickFrames(n, resent, vector, list))
           /\ turn' = turn + 1 /\ Phase[turn + 1] = n
<1>1. Typed /\ AuthorsListed
  BY DEF GossipInv
<1>2. PICK resent : resent = Resent(n)
  OBVIOUS
<1>3. resent \in SUBSET Id /\ resent \subseteq orders[n]
  BY <1>1, <1>2 DEF Resent, Typed
<1>4. PICK vector : vector = HeldWith(n, resent)
  OBVIOUS
<1>5. vector \in [Node -> Vectors]
  <2>1. \A a \in Node : HeldWith(n, resent)[a] \in Vectors
    BY <1>1, <1>3, HeldWithAdds
  <2> QED
    BY <1>4, <2>1 DEF HeldWith
<1>6. PICK list \in Seq(Node) : list = AuthorsWith(n, resent)
  BY <1>1, <1>3, AuthorsWithLists
<1>7. Observe(n, resent) /\ turn' = turn + 1 /\ Phase[turn + 1] = n
  BY <1>2 DEF Tick
<1>8. held'[n] = vector
  BY <1>1, <1>4, <1>7 DEF Observe, Typed
<1>9. air' = air \cup Emit(n, TickFrames(n, resent, vector, list))
  BY <1>2, <1>4, <1>6 DEF Tick, TickFrames
<1> QED
  BY <1>2, <1>3, <1>4, <1>5, <1>6, <1>7, <1>8, <1>9

\* The timers and the requests that a heartbeat leaves.
LEMMA TickSchedules ==
  ASSUME GossipInv, NEW n \in Node, Tick(n)
  PROVE  /\ scheduled' \in [Node -> [Id -> Idle .. Jitter]]
         /\ requests' \in [Node -> [Node -> Request \cup {NoReq}]]
         /\ cursor' \in [Node -> Nat]
<1>1. Typed
  BY DEF GossipInv
<1> DEFINE vector == HeldWith(n, Resent(n))
           list == AuthorsWith(n, Resent(n))
           due == DueRequests(n)
           left == {a \in Node : requests[n][a] # NoReq} \ due
           digest == digestAge[n] = DigestInterval
           gaps == IF digest THEN GapRequests(vector, list, left) ELSE <<>>
           start == cursor[n] % Len(list)
<1>2. vector \in [Node -> Vectors] /\ list \in Seq(Node)
  BY TickUnfolds
<1>3. /\ scheduled' = [scheduled EXCEPT ![n] =
           [i \in Id |-> IF @[i] = 0 THEN Idle ELSE @[i]]]
      /\ cursor' = [cursor EXCEPT ![n] =
           IF digest /\ Len(list) > DigestMax THEN (start + DigestMax) % Len(list) ELSE @]
      /\ \E wait \in [DOMAIN gaps -> 0 .. Jitter] :
           requests' = [requests EXCEPT ![n] =
             [a \in Node |-> IF a \in DOMAIN gaps
                               THEN [from |-> gaps[a].from, count |-> gaps[a].count,
                                     wait |-> wait[a]]
                             ELSE IF a \in due THEN NoReq ELSE @[a]]]
  BY DEF Tick
<1> HIDE DEF vector, list
<1>4. scheduled' \in [Node -> [Id -> Idle .. Jitter]]
  <2>1. \A i \in Id : scheduled[n][i] \in Idle .. Jitter
    BY <1>1 DEF Typed
  <2>2. Idle \in Idle .. Jitter
    BY AntiEntropyAssumption DEF Idle
  <2>3. [i \in Id |-> IF scheduled[n][i] = 0 THEN Idle ELSE scheduled[n][i]]
          \in [Id -> Idle .. Jitter]
    BY <2>1, <2>2
  <2> QED
    BY <1>1, <1>3, <2>3 DEF Typed
<1>5. cursor' \in [Node -> Nat]
  <2>1. cursor[n] \in Nat /\ Len(list) \in Nat /\ DigestMax \in Nat
    BY <1>1, <1>2, AntiEntropyAssumption DEF Typed
  <2>2. Len(list) > DigestMax => (start + DigestMax) % Len(list) \in Nat
    <3> SUFFICES ASSUME Len(list) > DigestMax PROVE (start + DigestMax) % Len(list) \in Nat
      OBVIOUS
    <3>1. start \in Nat
      BY <2>1
    <3> HIDE DEF start
    <3>2. start + DigestMax \in Nat /\ Len(list) > 0
      BY <2>1, <3>1
    <3> QED
      BY <2>1, <3>2
  <2> HIDE DEF start, digest
  <2>3. (IF digest /\ Len(list) > DigestMax THEN (start + DigestMax) % Len(list)
           ELSE cursor[n]) \in Nat
    BY <2>1, <2>2
  <2> QED
    BY <1>1, <1>3, <2>3 DEF Typed
<1>6. requests' \in [Node -> [Node -> Request \cup {NoReq}]]
  <2>1. PICK wait \in [DOMAIN gaps -> 0 .. Jitter] :
           requests' = [requests EXCEPT ![n] =
             [a \in Node |-> IF a \in DOMAIN gaps
                               THEN [from |-> gaps[a].from, count |-> gaps[a].count,
                                     wait |-> wait[a]]
                             ELSE IF a \in due THEN NoReq ELSE @[a]]]
    BY <1>3
  <2>2. ASSUME NEW a \in DOMAIN gaps
        PROVE  gaps[a].from \in Nat /\ gaps[a].count \in Nat \ {0}
    <3>1. CASE digest
      BY <1>2, <3>1, GapRequestsTyped
    <3>2. CASE ~digest
      BY <3>2
    <3> QED
      BY <3>1, <3>2
  <2> HIDE DEF gaps, due
  <2> DEFINE req(a) == IF a \in DOMAIN gaps
                         THEN [from |-> gaps[a].from, count |-> gaps[a].count,
                               wait |-> wait[a]]
                       ELSE IF a \in due THEN NoReq ELSE requests[n][a]
  <2>3. ASSUME NEW a \in Node PROVE req(a) \in Request \cup {NoReq}
    <3>1. requests[n][a] \in Request \cup {NoReq}
      BY <1>1 DEF Typed
    <3>2. CASE a \in DOMAIN gaps
      <4>1. gaps[a].from \in Nat /\ gaps[a].count \in Nat \ {0} /\ wait[a] \in 0 .. Jitter
        BY <2>2, <3>2
      <4> QED
        BY <3>2, <4>1 DEF Request
    <3>3. CASE a \notin DOMAIN gaps
      BY <3>1, <3>3
    <3> QED
      BY <3>2, <3>3
  <2>4. requests' = [requests EXCEPT ![n] = [a \in Node |-> req(a)]]
    BY <2>1
  <2> HIDE DEF req
  <2> QED
    BY <1>1, <2>3, <2>4 DEF Typed
<1> QED
  BY <1>4, <1>5, <1>6

LEMMA TickStep ==
  ASSUME GossipInv, NEW n \in Node, Tick(n)
  PROVE  GossipInv' /\ \E I \in SUBSET Id : Vector!Learn(n, I)
<1>1. Typed /\ AuthorsListed /\ StoresIssued /\ Honest /\ AirOK
  BY DEF GossipInv
<1>2. PICK I \in SUBSET Id, vector \in [Node -> Vectors], list \in Seq(Node) :
           /\ I \subseteq orders[n]
           /\ Observe(n, I)
           /\ air' = air \cup Emit(n, TickFrames(n, I, vector, list))
  BY TickUnfolds
<1>3. UNCHANGED <<orders, composed, compacted>>
  BY DEF Tick, bounds
<1>4. I \subseteq Issued /\ Issued' = Issued
  BY <1>1, <1>2, <1>3 DEF StoresIssued, Issued
<1>5. /\ held' \in [Node -> [Node -> Vectors]]
      /\ authors' \in [Node -> Seq(Node)]
      /\ heard' \in [Node -> [Id -> 0 .. Suppression]]
      /\ AuthorsListed'
      /\ \A m \in Node, i \in Id : Holds(m, i)' <=> Holds(m, i) \/ (m = n /\ i \in I)
  BY <1>1, <1>2, ObserveAdds
<1>6. Typed'
  BY <1>1, <1>3, <1>5, TickSchedules DEF Typed
<1>7. StoresIssued'
  BY <1>1, <1>3, <1>4 DEF StoresIssued
<1>8. Honest'
  BY <1>1, <1>2, <1>3, <1>5, ObservedIsHonest
<1>9. AirOK'
  <2>1. \A f \in TickFrames(n, I, vector, list) : FrameOK(f)'
    BY <1>1, <1>4, TickFramesAreOK
  <2> DEFINE frames == TickFrames(n, I, vector, list)
  <2>2. PICK new : new = Emit(n, frames)
    OBVIOUS
  <2>3. \A x \in new : x[2] \in Node /\ FrameOK(x[1])'
    BY <2>1, <2>2, EmitIsPairs
  <2> HIDE DEF frames
  <2>4. air' \subseteq air \cup new
    BY <1>2, <2>2 DEF frames
  <2> QED
    BY <1>1, <1>4, <2>3, <2>4, AirGrows
<1>10. Vector!Learn(n, I)
  <2>1. [m \in Node |-> Known(m)]' = [[m \in Node |-> Known(m)] EXCEPT ![n] = @ \cup I]
    BY <1>5, KnownGrows
  <2> QED
    BY <1>4, <2>1 DEF Vector!Learn
<1> QED
  BY <1>5, <1>6, <1>7, <1>8, <1>9, <1>10 DEF GossipInv

-----------------------------------------------------------------------------
(* The theorems.                                                           *)

LEMMA GossipStep ==
  ASSUME GossipInv, [Next]_vars
  PROVE  GossipInv' /\ [Vector!Next]_<<[n \in Node |-> Known(n)], Issued>>
<1>1. ASSUME NEW n \in Node, NEW I \in SUBSET Id, Vector!Learn(n, I) PROVE Vector!Next
  BY <1>1 DEF Vector!Next
<1>2. CASE \E x \in air : Receive(x[1], x[2])
  BY <1>1, <1>2, ReceiveStep
<1>3. CASE \E n \in Node : Tick(n)
  BY <1>1, <1>3, TickStep
<1>4. CASE Advance
  BY <1>4, AdvanceStep
<1>5. CASE \E n \in Node : Compose(n)
  BY <1>5, ComposeStep DEF Vector!Next
<1>6. CASE \E n \in Node : Attach(n)
  BY <1>6, AttachStep DEF Vector!Next
<1>7. CASE \E n \in Node : Save(n)
  BY <1>7, SaveStep
<1>8. CASE \E x \in air : Lose(x[1], x[2])
  BY <1>8, LoseStep
<1>9. CASE UNCHANGED vars
  <2>1. UNCHANGED <<orders, held, authors, heard, scheduled, requests, cursor, air, composed,
                    compacted>>
    BY <1>9 DEF vars, node, bounds
  <2>2. Typed
    BY DEF GossipInv
  <2> QED
    BY <2>1, <2>2, QuietStep DEF Typed
<1> QED
  BY <1>2, <1>3, <1>4, <1>5, <1>6, <1>7, <1>8, <1>9 DEF Next, Beat

LEMMA GossipInvariant == Spec => []GossipInv
<1>1. GossipInv /\ [Next]_vars => GossipInv'
  BY GossipStep
<1> QED
  BY <1>1, InitHolds, PTL DEF Spec

LEMMA HonestFollows == GossipInv => VectorIsHonest
<1> SUFFICES ASSUME GossipInv PROVE VectorIsHonest
  OBVIOUS
<1>1. Typed /\ AuthorsListed /\ StoresIssued /\ Honest /\ AirOK
  BY DEF GossipInv
<1>2. TypeOK
  BY <1>1 DEF TypeOK, Typed, AuthorsListed, AirOK
<1>3. \A n, a \in Node : WellFormed(held[n][a])
  BY <1>1 DEF Typed, Vectors
<1> QED
  BY <1>1, <1>2, <1>3 DEF VectorIsHonest, Honest

(***************************************************************************)
(* A vector is always a list of intervals that do not touch, and claims    *)
(* nothing but what the store holds and what saves took from it since the  *)
(* vector started, whatever is lost, heard twice or heard late and         *)
(* whatever is compacted (versionVector.ts:29, antiEntropy.ts:86,          *)
(* meshStore.ts:62).                                                       *)
(***************************************************************************)
THEOREM VectorsAreHonest == Spec => []VectorIsHonest
BY GossipInvariant, HonestFollows, PTL

(***************************************************************************)
(* A request begins with a number that is missing when it leaves, whatever *)
(* has been heard since it was scheduled (antiEntropy.ts:189).             *)
(***************************************************************************)
THEOREM AsksOnlyWhatIsMissing == Spec => AsksWhatIsMissing
<1> DEFINE Asks == \A x \in air' \ air : x[1].kind = "req" =>
                     \A n \in Node : Ticks(n) => ~Has(held'[n][x[1].author], x[1].from)
<1>1. ASSUME GossipInv, [Next]_vars PROVE Asks
  <2> SUFFICES ASSUME NEW x \in air', x \notin air, x[1].kind = "req",
                      NEW m \in Node, Ticks(m)
               PROVE  ~Has(held'[m][x[1].author], x[1].from)
    OBVIOUS
  <2>1. CASE \E n \in Node : Tick(n)
    <3>1. PICK n \in Node : Tick(n)
      BY <2>1
    <3>2. PICK resent \in SUBSET Id, vector \in [Node -> Vectors], list \in Seq(Node) :
             /\ resent \subseteq orders[n]
             /\ held'[n] = vector
             /\ air' = air \cup Emit(n, TickFrames(n, resent, vector, list))
             /\ Phase[turn + 1] = n
      BY <1>1, <3>1, TickUnfolds
    <3>3. m = n
      BY <3>2 DEF Ticks
    <3>4. Typed /\ resent \subseteq Issued /\ Issued' = Issued
      BY <1>1, <3>1, <3>2 DEF GossipInv, StoresIssued, Issued, Tick, bounds
    <3>5. x[1] \in TickFrames(n, resent, vector, list)
      BY <3>2, EmitIsPairs
    <3>6. ~Has(vector[x[1].author], x[1].from)
      BY <3>4, <3>5, TickFramesAreOK
    <3> QED
      BY <3>2, <3>3, <3>6
  <2>2. CASE \E n \in Node : Compose(n)
    <3>1. PICK n \in Node : air' = air \cup Emit(n, {OrderFrame(<<n, composed[n]>>)})
      BY <2>2 DEF Compose
    <3>2. x[1] = OrderFrame(<<n, composed[n]>>)
      BY <3>1, EmitIsPairs
    <3> QED
      BY <3>2 DEF OrderFrame
  <2>3. CASE air' \subseteq air
    BY <2>3
  <2>4. (\E y \in air : Receive(y[1], y[2]) \/ Lose(y[1], y[2])) => air' \subseteq air
    BY DEF Receive, Lose
  <2>5. Advance \/ (\E n \in Node : Attach(n) \/ Save(n)) \/ UNCHANGED vars
          => air' \subseteq air
    BY DEF Advance, Attach, Save, vars
  <2> QED
    BY <1>1, <2>1, <2>2, <2>3, <2>4, <2>5 DEF Next, Beat
<1>2. GossipInv /\ [Next]_vars => [Asks]_vars
  BY <1>1
<1> QED
  BY <1>2, GossipInvariant, PTL DEF Spec, AsksWhatIsMissing

(***************************************************************************)
(* The anti-entropy implements Gossip: a vector grows by orders somebody   *)
(* composed, and is emptied only by a new connection of the radio          *)
(* (antiEntropy.ts:139, meshTransport.ts attaches a new engine).           *)
(***************************************************************************)
THEOREM ImplementsGossip == Spec => GossipSpec
<1>1. Init => Vector!Init
  <2> SUFFICES ASSUME Init PROVE Vector!Init
    OBVIOUS
  <2>1. \A n \in Node, i \in Id : ~Holds(n, i)
    BY IdIsPair DEF Init, Holds, Has
  <2>2. Issued = {}
    <3>1. ASSUME NEW i \in Id, i[2] < composed[i[1]] PROVE FALSE
      BY <3>1, IdIsPair, AntiEntropyAssumption DEF Init
    <3> QED
      BY <3>1 DEF Issued
  <2> QED
    BY <2>1, <2>2 DEF Vector!Init, Known
<1>2. GossipInv /\ [Next]_vars => [Vector!Next]_<<[n \in Node |-> Known(n)], Issued>>
  BY GossipStep
<1> QED
  BY <1>1, <1>2, GossipInvariant, PTL DEF Spec, GossipSpec, Vector!Spec

=============================================================================
