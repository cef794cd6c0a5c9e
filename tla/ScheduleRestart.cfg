SPECIFICATION Spec
CONSTANTS
  k1 = k1
  k2 = k2
  NoKey = NoKey
  Names = {1, 2, 3}
  Keys = {k1}
  XMax = 9
  XMaxKey = k1
  Genesis <- TwoBuilders
  Own = {1}
  BuildersPerRound = 2
  BlocksPerBuilder = 1
  Kills = {"rest","open"}
  MaxTime = 6
  MaxDelta = 3
INVARIANTS

  ScheduleAgrees
CHECK_DEADLOCK FALSE
