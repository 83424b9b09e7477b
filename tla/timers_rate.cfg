SPECIFICATION Spec
CONSTANTS
  t1 = t1
  t2 = t2
  t3 = t3
  t4 = t4
  h1 = h1
  h2 = h2
  h3 = h3
  NoTimer = NoTimer
  Timers = {t1, t3}
  Holders = {h1, h2}
  Interval <- MCInterval
  NewIntervals = {2}
  OneShot = {t1, t3}
  CallbackOps = {"resetOwn", "resetEarlier", "resetLater", "start", "adjust", "clear"}
  MaxTime = 5
INVARIANTS RateBound AtMostTwoMissed
CHECK_DEADLOCK FALSE
