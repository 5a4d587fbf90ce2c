CONSTANTS
  Sessions = {s1, s2}
  Topics = {"updates", "progress"}
  Buffer = 1
  ClosesChans = TRUE
  MaxEvents = 1
  MaxMsgs = 1
  None = None
SPECIFICATION FairSpec
CHECK_DEADLOCK FALSE
 
PROPERTIES RefusedOnlyOutside EndedRemoved BroadcastUnlessWedged MsgVerdict
