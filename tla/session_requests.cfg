CONSTANTS
  Reqs = {r1, r2}
  Kinds = {"ping", "tools", "subscribe", "unsubscribe", "setLevel", "completePrompt"}
  Servers = {"resources", "tools", "logging"}
  MaxCalls = 0
  MaxPings = 0
  MaxUpdates = 1
  Pinger = pinger
SPECIFICATION Spec
SYMMETRY Symmetry
CHECK_DEADLOCK FALSE
INVARIANTS  SubscriptionHolds PanicCauses
PROPERTIES UnsubscribedSilent ServedThenAll
