SPECIFICATION Spec
CONSTANTS
  p1 = p1
  p2 = p2
  p3 = p3
  Nil = Nil
  Proc <- TwoProcs
  IsrPolled <- OneDriver
  NumEvents = 1
  MaxOps = 1
  ExitActive = TRUE
  Inits = {FALSE}
INVARIANT RunningIffListed
