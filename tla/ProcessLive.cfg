SPECIFICATION Spec
CONSTANTS
  p1 = p1
  p2 = p2
  p3 = p3
  Nil = Nil
  Proc <- TwoProcs
  IsrPolled <- TwoDrivers
  NumEvents = 2
  MaxOps = 2
  ExitActive = FALSE
  Inits = {FALSE}
PROPERTY PollDelivered
