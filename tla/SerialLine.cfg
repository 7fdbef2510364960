\* A ring and a line of four bytes, and a queue that has room for the two events
\* of a line beside those of others.
CONSTANTS
  BufSize = 4
  QueueSize = 3
  Others = 1
  MaxBytes = 8
  BareErase = FALSE
  End = End
  Erase = Erase
  Nul = Nul
SPECIFICATION LineSpec
INVARIANT LineTypeOK
PROPERTIES LinesIntact Drains
