CONSTANTS
  Node = {n1, n2, n3}
  Null = Null
  Junk = Junk
  Prios <- MCPrios
  Periods <- MCPeriods
  MaxOps = 2
  DeletesOthers = FALSE
SPECIFICATION Spec
SYMMETRY Interchangeable
INVARIANTS TypeOK ListSound NoDangling
PROPERTY PriorityRespected
