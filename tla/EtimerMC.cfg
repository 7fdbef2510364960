SPECIFICATION Spec
CONSTANTS
  Timer = {t1, t2, t3}
  Proc = {p1, p2}
  None = None
  W = 4
  Intervals = {1}
  Adjusts <- Advance
  NumEvents = 1
  Slack = 1
  MayExit = TRUE
  LastWords = {}
  MayWrap = FALSE
SYMMETRY Symmetry
INVARIANTS TypeOK ListedOnce OwnersAlive
