\* One client whose connection may be lost twice, two sessions, two orders.
SPECIFICATION Spec
CONSTANTS
  c1 = c1
  c2 = c2
  Client = {c1}
  None = None
  Author = {m1, m2}
  Id = {a, b}
  NoId = NoId
  Absent = Absent
  Stamp = {1}
  MaxRecent = 1
  Faults <- C1Faulty
  Ends = {"close", "kick", "expire"}
  MaxOrders = 2
  MaxConnects <- Thrice
PROPERTIES Delivered
CHECK_DEADLOCK FALSE
