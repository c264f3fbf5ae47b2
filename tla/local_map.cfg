\* Two rooms, four ways to use a phone.
SPECIFICATION Spec
CONSTANTS
  r1 = r1
  r2 = r2
  x = x
  y = y
  cover = cover
  fix = fix
  Room = {r1, r2}
  Others = Others
  Solo = Solo
  Node = Node
  None = None
  Absent = Absent
  NoId = NoId
  Author = {r1, r2, Others, Solo, Node}
  Id = {x, y, a, b, c}
  Plots = {x, a}
  Aired = {y}
  Remote <- OnePlot
  Mission = {cover, fix}
  TwoArrows = {cover}
  MaxVertices = 2
  Phones <- Users
INVARIANTS   SoloDeletesForGood 
CHECK_DEADLOCK FALSE
