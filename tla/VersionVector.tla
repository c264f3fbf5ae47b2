--------------------------- MODULE VersionVector ---------------------------
(***************************************************************************)
(* What a node holds of one author (client/src/crdt/versionVector.ts): the *)
(* sequence numbers, kept as a list of intervals in increasing order, no   *)
(* two of which touch.  Pure operators on one such list; an author of whom *)
(* nothing is held has the empty list.                                     *)
(***************************************************************************)
EXTENDS Integers, SequencesExt

SeqRange == [from : Nat, to : Nat]

\* The list is in increasing order, and two neighbours leave a gap.
WellFormed(ranges) ==
  /\ \A i \in 1 .. Len(ranges) : ranges[i].from <= ranges[i].to
  /\ \A i, j \in 1 .. Len(ranges) : i < j => ranges[i].to + 1 < ranges[j].from

Has(ranges, s) == \E i \in 1 .. Len(ranges) : s \in ranges[i].from .. ranges[i].to

Numbers(ranges) == UNION {ranges[i].from .. ranges[i].to : i \in 1 .. Len(ranges)}

\* Where the loop of add stops: the first interval that does not end before
\* s - 1, or the place after the last one.
Slot(ranges, s) ==
  CHOOSE i \in 1 .. Len(ranges) + 1 :
    /\ i <= Len(ranges) => ranges[i].to >= s - 1
    /\ \A j \in 1 .. i - 1 : ranges[j].to < s - 1

\* Interval i grows to the right; if it now touches the next one they are one.
Joined(ranges, i, s) ==
  IF i < Len(ranges) /\ ranges[i + 1].from = s + 1
    THEN RemoveAt([ranges EXCEPT ![i] = [from |-> @.from, to |-> ranges[i + 1].to]],
                  i + 1)
    ELSE [ranges EXCEPT ![i] = [from |-> @.from, to |-> s]]

\* A bug that writes over the interval it should insert before.
AddOver(ranges, s) ==
  LET i == Slot(ranges, s)
  IN  IF i > Len(ranges) THEN Append(ranges, [from |-> s, to |-> s])
      ELSE IF s \in ranges[i].from .. ranges[i].to THEN ranges
      ELSE IF s = ranges[i].to + 1 THEN Joined(ranges, i, s)
      ELSE [ranges EXCEPT ![i] = [from |-> s, to |-> s]]

\* A bug that stretches the interval above down to s, adjacent or not.
AddStretching(ranges, s) ==
  LET i == Slot(ranges, s)
  IN  IF i > Len(ranges) THEN Append(ranges, [from |-> s, to |-> s])
      ELSE IF s \in ranges[i].from .. ranges[i].to THEN ranges
      ELSE IF s = ranges[i].to + 1 THEN Joined(ranges, i, s)
      ELSE [ranges EXCEPT ![i] = [from |-> s, to |-> @.to]]

Add(ranges, s) ==
  LET i == Slot(ranges, s)
  IN  IF i > Len(ranges) THEN Append(ranges, [from |-> s, to |-> s])
      ELSE IF s \in ranges[i].from .. ranges[i].to THEN ranges
      ELSE IF s = ranges[i].from - 1
        THEN [ranges EXCEPT ![i] = [from |-> s, to |-> @.to]]
      ELSE IF s = ranges[i].to + 1 THEN Joined(ranges, i, s)
      ELSE InsertAt(ranges, i, [from |-> s, to |-> s])

\* All the numbers of a set, one after the other.
AddAll(ranges, S) == FoldSet(LAMBDA s, longer : Add(longer, s), ranges, S)

\* The end of the first interval; -1 stands for the null of an unknown author.
ContiguousUpto(ranges) == IF ranges = <<>> THEN -1 ELSE ranges[1].to

Gaps(ranges) ==
  [i \in 1 .. Len(ranges) - 1 |->
     [from |-> ranges[i].to + 1, count |-> ranges[i + 1].from - ranges[i].to - 1]]

\* The limit lowest numbers held above s.
HeldAbove(ranges, s, limit) ==
  LET above == {x \in Numbers(ranges) : x > s}
  IN  {x \in above : Cardinality({y \in above : y < x}) < limit}
=============================================================================
