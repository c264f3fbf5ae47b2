\* One tab, one module, and a random number to start from.
SPECIFICATION SpecIds
CONSTANTS
  Tab = {t}
  NodeNumber = {n1, n2, r1, r2}
  Radio = {r1}
  None = None
  Wrap = 16
  MaxIssued = 12
SYMMETRY Symmetry
INVARIANTS NextIsFresh
