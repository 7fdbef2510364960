SPECIFICATION Spec
CONSTANTS
  Size = 3
  Byte = {0, 1}
  MaxLen = 4
PROPERTY MovedIsTold
