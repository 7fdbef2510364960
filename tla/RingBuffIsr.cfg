SPECIFICATION IsrSpec
CONSTANTS
  Size = 6
  MaxLen = 5
  PerCall = 1
  IdMod = 13
INVARIANTS IsrTypeOK InOrder DmaBehindWriter NothingStuck
