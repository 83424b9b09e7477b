SPECIFICATION Spec
CONSTANTS
  t1 = t1
  t2 = t2
  t3 = t3
  t4 = t4
  h1 = h1
  h2 = h2
  h3 = h3
  NoTimer = NoTimer
  Timers = {t1, t2, t3}
  Holders <- MCHolders
  Interval <- MCInterval
  NewIntervals = {}
  OneShot = {}
  CallbackOps = {"resetLater", "start", "adjust"}
  MaxTime = 2
INVARIANTS TokensAgree
PROPERTY ImplementsHandles
CHECK_DEADLOCK FALSE
SYMMETRY MCSymmetry
