SPECIFICATION FairSpec
CONSTANTS
  Dialers = {"source", "follower"}
  Batch = 2
  MaxHead = 4
  MaxSessions = 2
PROPERTIES
  CatchesUp
CHECK_DEADLOCK FALSE
