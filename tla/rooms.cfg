\* Two rooms of two places; restarts of the server, or four ticks of its clock.
SPECIFICATION RegimeSpec
CONSTANTS
  Code = {r, q}
  MemberId = {m1, m2, m3}
  Socket = {s1, s2}
  Callsign = {x, y, z}
  Post = {GV, CDU}
  GV = GV
  None = None
  Absent = Absent
  MaxRooms = 2
  MaxMembers = 2
  Grace = 1
  EmptyTtl = 1
  Restarts = {"shutdown", "crash"}
  MaxTime = 3
SYMMETRY NameSymmetry
INVARIANTS TypeOK OneHolder CountdownRuns WithinLimits
PROPERTIES EvictionAdmits GraceHonoured RoomKeptForTtl
CHECK_DEADLOCK FALSE
