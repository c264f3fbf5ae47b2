\* An old connection that ends after the new one has rejoined.
SPECIFICATION RegimeSpec
CONSTANTS
  Code = {r, q}
  MemberId = {m1, m2}
  Socket = {s1, s2}
  Callsign = {x, y}
  Post = {GV}
  GV = GV
  None = None
  Absent = Absent
  MaxRooms = 2
  MaxMembers = 2
  Grace = 1
  EmptyTtl = 1
  Restarts = {}
  MaxTime = 0
SYMMETRY NameSymmetry
PROPERTIES ReboundKept
CHECK_DEADLOCK FALSE
