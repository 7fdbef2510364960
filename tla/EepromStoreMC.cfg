CONSTANTS
  b0 = b0
  b1 = b1
  Blank = Blank
  Torn = Torn
  PageSize = 2
  Size = 8
  AddrWrap = 10
  Record = {"bat", "dac"}
  Base <- MCBase
  Values <- MCValues
  Default <- MCDefault
  Byte <- MCByte
  Raw <- MCRaw
  Losses = {TRUE, FALSE}
SPECIFICATION Spec
INVARIANT TypeOK
PROPERTIES WriteExact ImplementsParamStore
