\* Two nodes, one clock a tick ahead of the other, two ticks in a second.
SPECIFICATION Spec
CONSTANTS
  n1 = n1
  n2 = n2
  Node = {n1, n2}
  Author = {n1, n2}
  Id = {a, b, c}
  NoId = NoId
  Absent = Absent
  Skew <- OneAhead
  Grain = 2
  Ttl = 3
  MaxDelay = 2
  MaxTime = 3
  MaxFrames = 3
SYMMETRY IdSymmetry
INVARIANTS TypeOK CardIsAddWins NoResurrection
PROPERTIES SaveRevealsNothing DeletionActs
CHECK_DEADLOCK FALSE
