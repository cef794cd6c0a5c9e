SPECIFICATION FairSpec
CONSTANTS
  Dialers = {"source", "follower"}
  Batch = 2
  MaxHead = 5
  MaxSessions = 2
INVARIANTS
  NoGapAfterList
PROPERTIES
  CatchesUpAfterList
CHECK_DEADLOCK FALSE
