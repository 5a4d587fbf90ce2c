CONSTANTS
  MaxLines = 4
  None = None
SPECIFICATION FairSpec
CHECK_DEADLOCK FALSE
INVARIANTS LinesInOrder ClosedOnce
PROPERTIES RunEnds Exits
