SPECIFICATION Spec
CONSTANTS
  Timer = {t1, t2}
  Proc = {p1, p2}
  None = None
  W = 7
  Intervals = {1, 3}
  Adjusts = {}
  NumEvents = 1
  Slack = 2
  MayExit = TRUE
  LastWords = {}
  MayWrap = TRUE
INVARIANT NothingDueUnpolled
