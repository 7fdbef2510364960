SPECIFICATION Spec
CONSTANTS
  Timer = {t1, t2}
  Proc = {p1}
  None = None
  W = 9
  Intervals = {2, 3}
  Adjusts = {}
  NumEvents = 1
  Slack = 2
  MayExit = FALSE
  LastWords = {}
  MayWrap = TRUE
PROPERTY EventDue
