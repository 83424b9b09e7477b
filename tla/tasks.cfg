SPECIFICATION FairSpec
CONSTANTS
  w1 = w1
  w2 = w2
  w3 = w3
  c1 = c1
  c2 = c2
  a1 = a1
  a2 = a2
  a3 = a3
  m1 = m1
  m2 = m2
  NoTask = NoTask
  NoThread = NoThread
  Workers = {w1, w2}
  Clients = {c1}
  AsyncTasks = {a1, a2}
  MainTasks = {m1, m2}
  Endless = {}
  MayStop = TRUE
INVARIANTS TypeOK OneAtATime MainWakeup StopNotLost
PROPERTIES ImplementsFifos TasksRun DestructorReturns
CHECK_DEADLOCK FALSE
