SPECIFICATION Spec
CONSTANTS
  Depth = 2
  Wrap = 4
  Null = Null
  Eager = TRUE
  MaxEntries = 3
PROPERTY ReadFindsMessage
