SPECIFICATION Spec
CONSTANTS
  SlLog2 = 1
  FlCount = 4
  Split = 17
  NumCells = 24
  Handle = {h1, h2}
  Nobody = Nobody
  Sizes = {0, 4, 64}
  Aligns = {2}
PROPERTY ImplementsHeap
