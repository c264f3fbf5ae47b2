\* One node draws, the other removes; both stand in one cell of the grid.
SPECIFICATION Spec
CONSTANTS
  n1 = n1
  n2 = n2
  Node = {n1, n2}
  None = None
  MaxPayload = 24
  AnchorRange = 300
  Where <- SameCell
  Cell = 100
  Drafts <- SomeDrafts
  MaxOrders = 1
  MaxTime = 1
  InSession = {n1}
  MaxFixes <- Two1
  MaxAttach <- Once2
INVARIANTS FramesFit AuthorsKept ReadAsMeant ShownIsNewest
PROPERTIES MarkersAdvance
CHECK_DEADLOCK FALSE
