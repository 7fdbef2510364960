CONSTANTS
  Node = {n1, n2, n3}
  Null = Null
  Junk = Junk
  Prios <- MCPrios
  Periods <- MCPeriods
  MaxOps = 2
  DeletesOthers = TRUE
SPECIFICATION Spec
SYMMETRY Interchangeable
INVARIANT NoDangling
