SPECIFICATION Spec
CONSTANTS
  Handle = {h1, h2, h3}
  Nobody = Nobody
  NumBlocks = 10
  UmmSizes = {0, 4, 13, 21}
  Nums = {3}
  PoolCells = 14
  PoolSizes = {0, 8, 17, 30}
  LvCells = 7
  LvSizes = {0, 4, 9}
  MaxLost = 1
  SlLog2 = 1
  FlCount = 4
  Split = 17
  TlsfCells = 24
  TlsfSizes = {0, 4, 16, 17, 24}
  Aligns = {2, 4}
  MmemSize = 7
  MmemSizes = {0, 1, 2, 4}
SYMMETRY Symmetry
INVARIANTS TypeOK Integrity Coalesced
PROPERTY ImplementsHeap
