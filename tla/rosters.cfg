\* Two phones, one with trouble; replacements, or positions, or late answers.
SPECIFICATION RegimeSpec
CONSTANTS
  p1 = p1
  p2 = p2
  Phone = {p1, p2}
  MemberId = {a, b, c}
  Socket = {s1, s2, s3}
  None = None
  Absent = Absent
  Faults <- Faulty
  MaxFix = 2
  MaxQueue = 2
SYMMETRY NameSymmetry
INVARIANTS RosterFollows MapFollowsRoster
PROPERTIES PositionsAdvance
CHECK_DEADLOCK FALSE
