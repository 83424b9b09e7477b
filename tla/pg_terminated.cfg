SPECIFICATION Spec
CONSTANTS
  q1 = q1
  q2 = q2
  q3 = q3
  NoQuery = NoQuery
  Queries <- MCTwo
  Priority <- MCPriority
  Awaited = {}
  CopyIn = {}
  UserOps = {}
  Faults = {"terminated"}
  MaxAdmin = 1
  MaxFaults = 1
INVARIANT CurrentIsNotEnd
CHECK_DEADLOCK FALSE
