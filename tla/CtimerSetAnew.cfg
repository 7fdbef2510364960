SPECIFICATION CSpec
CONSTANTS
  Timer = {t1, t2}
  Callback = {t2}
  Proc = {p1, ctimer}
  CtimerProcess = ctimer
  None = None
  W = 7
  Intervals = {1, 3}
  Adjusts = {}
  NumEvents = 1
  Slack = 2
  MayExit = FALSE
  LastWords = {}
  MayWrap = TRUE
PROPERTY CallbackDue
