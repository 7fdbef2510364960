SPECIFICATION IsrSpec
CONSTANTS
  Size = 4
  MaxLen = 3
  PerCall = 2
  IdMod = 9
INVARIANT InOrder
