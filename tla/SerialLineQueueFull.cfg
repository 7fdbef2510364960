CONSTANTS
  BufSize = 4
  QueueSize = 3
  Others = 2
  MaxBytes = 8
  BareErase = FALSE
  End = End
  Erase = Erase
  Nul = Nul
SPECIFICATION LineSpec
PROPERTY LinesIntact
