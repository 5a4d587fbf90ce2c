CONSTANTS
  Reqs = {r1}
  Kinds = {"tools"}
  Servers = {"tools"}
  MaxCalls = 2
  MaxPings = 1
  MaxUpdates = 0
  Pinger = pinger
SPECIFICATION FairSpec
CHECK_DEADLOCK FALSE
PROPERTY ImplementsRPC RequestsEnd
