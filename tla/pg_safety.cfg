SPECIFICATION Spec
CONSTANTS
  q1 = q1
  q2 = q2
  q3 = q3
  NoQuery = NoQuery
  Queries <- MCQueries
  Priority <- MCPriority
  Awaited = {q2}
  CopyIn = {q1}
  UserOps = {"cancel", "lazyDisconnect", "disconnect", "connectAgain", "connectInResult", "reconnect", "setAutoReconnect", "notify"}
  Faults = {"connectStart", "resetStart", "polling", "lost", "sendLost"}
  MaxAdmin = 3
  MaxFaults = 2
INVARIANTS TypeOK NoUB InflightIsCurrent CompletedAtMostOnce FifoWithinPriority
PROPERTY ImplementsLifecycle
CHECK_DEADLOCK FALSE
