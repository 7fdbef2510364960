\* An event timer and a callback timer on a clock that passes its end.
SPECIFICATION CSpec
CONSTANTS
  Timer = {t1, t2}
  Callback = {t2}
  Proc = {p1, ctimer}
  CtimerProcess = ctimer
  None = None
  W = 6
  Intervals = {1, 2}
  Adjusts = {}
  NumEvents = 1
  Slack = 2
  MayExit = FALSE
  LastWords = {}
  MayWrap = TRUE
INVARIANT NothingDueUnpolled
PROPERTIES NeverEarly Served
