SPECIFICATION FairSpec
CONSTANTS
  q1 = q1
  q2 = q2
  q3 = q3
  NoQuery = NoQuery
  Queries <- MCTwo
  Priority <- MCPriority
  Awaited = {q1}
  CopyIn = {}
  UserOps = {"cancel"}
  Faults = {}
  MaxAdmin = 1
  MaxFaults = 0
PROPERTY CancelledIsCalledBack
CHECK_DEADLOCK FALSE
