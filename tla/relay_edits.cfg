\* Two members edit one object at the same time, on connections that hold.
SPECIFICATION Spec
CONSTANTS
  c1 = c1
  c2 = c2
  Client = {c1, c2}
  None = None
  Author = {m1, m2}
  Id = {a}
  NoId = NoId
  Absent = Absent
  Stamp = {1, 2, 3}
  MaxRecent = 3
  Faults <- NoFaults
  Ends = {}
  MaxOrders = 3
  MaxConnects <- Once
INVARIANTS MembersAgree
CHECK_DEADLOCK FALSE
