SPECIFICATION FairSpec
CONSTANTS
  r1 = r1
  r2 = r2
  r3 = r3
  h1 = h1
  h2 = h2
  NoRequest = NoRequest
  Requests = {r1, r2, r3}
  HostOf <- HostsOfThree
  Multiplexing = {h1}
  MaxConnections = 1
  CallbackRequests = {r2, r3}
  Throwing = {r1, r3}
INVARIANTS TypeOK OwnsHandles CountLags OnlyUncountedStranded
PROPERTY EveryRequestEnds
CHECK_DEADLOCK FALSE
