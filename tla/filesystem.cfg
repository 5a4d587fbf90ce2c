CONSTANTS
  Calls = {c1, c2, c3}
  MaxActive = 2
  Names = {1, 2}
  Paths <- CallPaths
  Nodes = {0, 1, 2, 3}
  None = None
SPECIFICATION Spec
SYMMETRY CallSymmetry
CHECK_DEADLOCK FALSE
INVARIANTS FilesWhole EditsLost  
