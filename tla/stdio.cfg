CONSTANTS
  c1 = c1
  c2 = c2
  s1 = s1
  CliReqs = {c1, c2}
  SrvReqs = {s1}
  Long <- LongReply
  MaxFaults = 1
  None = None
SPECIFICATION FairSpec
CHECK_DEADLOCK FALSE
INVARIANTS NoSilentLoss
PROPERTY RepliesArrive
