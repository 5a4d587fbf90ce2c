CONSTANTS
  Calls = {a, p}
  Pings = {p}
  ReqIDs = {r1, r2}
  PeerIDs = {s1}
  Pushes = {"sampling", "cancelled"}
  MaxPushed = 2
  ClosesMessages = TRUE
  RootsUpdater = FALSE
  None = None
SPECIFICATION Spec
CHECK_DEADLOCK FALSE
SYMMETRY Symmetry
INVARIANTS OwnAnswer NoPanicWhileOpen
PROPERTY ImplementsRPC
