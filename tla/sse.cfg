CONSTANTS
  Conns = {c1}
  Senders = {s1, s2}
  MaxFaults = 1
  None = None
SPECIFICATION FairSpec
CHECK_DEADLOCK FALSE
INVARIANTS InOrder EmptySessionCauses 
PROPERTIES  StartReturns
