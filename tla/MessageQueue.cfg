\* A pool of four messages; the positions wrap with every round.
SPECIFICATION Spec
CONSTANTS
  Depth = 4
  Wrap = 4
  Null = Null
  Eager = FALSE
  MaxEntries = 0
INVARIANTS TypeOK EachBlockOwnedOnce NoLeak
PROPERTY ImplementsChannel
