SPECIFICATION Spec
CONSTANTS
  q1 = q1
  q2 = q2
  q3 = q3
  NoQuery = NoQuery
  Queries <- MCTwo
  Priority <- MCPriority
  Awaited = {}
  CopyIn = {}
  UserOps = {"lazyDisconnect"}
  Faults = {}
  MaxAdmin = 2
  MaxFaults = 0
PROPERTY LazyDisconnectWaits
CHECK_DEADLOCK FALSE
