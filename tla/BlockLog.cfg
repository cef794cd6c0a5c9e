SPECIFICATION Spec
CONSTANTS
  Bodies = {body1, body2}
  Queries = {1, 2, 3, 4}
  MaxBlocks = 3
  MaxRestarts = 3
INVARIANTS
  IndexMatchesLog
  OpenDetectsTorn
  ReadsRight
  AppendsAtRightPosition
PROPERTIES
  ImplementsLog
CHECK_DEADLOCK FALSE
