SPECIFICATION Spec
CONSTANTS
  t1 = t1
  t2 = t2
  t3 = t3
  t4 = t4
  h1 = h1
  h2 = h2
  h3 = h3
  NoTimer = NoTimer
  Timers = {t1, t3}
  Holders = {h1, h2}
  Interval <- MCInterval
  NewIntervals = {}
  OneShot = {t1}
  CallbackOps = {}
  MaxTime = 2
PROPERTY OnlyExpiredStops
CHECK_DEADLOCK FALSE
