CONSTANTS
  Reqs = {r1}
  Kinds = {"tools"}
  Servers = {"tools"}
  MaxCalls = 0
  MaxPings = 0
  MaxUpdates = 0
  Pinger = pinger
SPECIFICATION Spec
CHECK_DEADLOCK FALSE
INVARIANT CancelStopsRequest
