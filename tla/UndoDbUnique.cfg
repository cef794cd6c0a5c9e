SPECIFICATION Spec
CONSTANTS
  Values = {x, y}
  None = None
  MaxId = 2
  MaxDepth = 1
  MaxRevision = 2
  UniqueIndex = TRUE
INVARIANTS
  UndoNeverFails
CHECK_DEADLOCK FALSE
