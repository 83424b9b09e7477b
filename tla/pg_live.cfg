SPECIFICATION FairSpec
CONSTANTS
  q1 = q1
  q2 = q2
  q3 = q3
  NoQuery = NoQuery
  Queries <- MCTwo
  Priority <- MCPriority
  Awaited = {q3}
  CopyIn = {q1}
  UserOps = {"cancel", "recancel", "lazyDisconnect", "disconnect", "disconnectInResult", "connectAgain", "connectInResult", "reconnect", "notify"}
  Faults = {"connectStart", "resetStart", "startInResult", "polling", "lost", "sendLost", "sendRefused", "terminated"}
  MaxAdmin = 3
  MaxFaults = 3
INVARIANTS NeverStranded NoStall
PROPERTIES TimerOnlyWhenDown EveryQueryLeaves LazyDisconnectHappens
CHECK_DEADLOCK FALSE
