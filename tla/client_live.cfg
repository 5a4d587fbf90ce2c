CONSTANTS
  Calls = {a}
  Pings = {}
  ReqIDs = {r1}
  PeerIDs = {s1}
  Pushes = {"ping", "roots", "sampling", "cancelled", "notify", "ignored", "malformed"}
  MaxPushed = 1
  ClosesMessages = FALSE
  RootsUpdater = TRUE
  None = None
SPECIFICATION FairSpec
CHECK_DEADLOCK FALSE
PROPERTIES CallsReturn AckedUnlessAbandoned CloseStopsUnlessStuck
