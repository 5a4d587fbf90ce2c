CONSTANTS
  Calls = {c1, c2}
  URIs = {u1, u2}
  LogCap = 1
  ProgCap = 1
  MaxReqs = 2
  MaxSteps = 2
  NumRes = 3
  PageSize = 2
  Token = Token
  None = None
SPECIFICATION FairSpec
CHECK_DEADLOCK FALSE
INVARIANTS ProgressInOrder OneStaleUpdate PagesOnce
PROPERTIES  UpdatesReach
