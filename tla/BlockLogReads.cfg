SPECIFICATION Spec
CONSTANTS
  Bodies = {body1, body2}
  Queries = {0, 1, 2, 3, 4}
  MaxBlocks = 3
  MaxRestarts = 3
INVARIANTS AppendsAtRightPosition
CHECK_DEADLOCK FALSE
