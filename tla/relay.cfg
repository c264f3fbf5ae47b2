\* Two clients, two sessions, one order of the room remembered; c1 has trouble.
SPECIFICATION Spec
CONSTANTS
  c1 = c1
  c2 = c2
  Client = {c1, c2}
  None = None
  Author = {m1, m2}
  Id = {a, b}
  NoId = NoId
  Absent = Absent
  Stamp = {1}
  MaxRecent = 1
  Faults <- C1Faulty
  Ends = {"close", "kick", "expire"}
  MaxOrders = 2
  MaxConnects <- C1Twice
INVARIANTS TypeOK OwnOrdersKept InSync PendingShown
CHECK_DEADLOCK FALSE
