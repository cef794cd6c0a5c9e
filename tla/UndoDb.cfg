SPECIFICATION Spec
CONSTANTS
  Values = {x, y}
  None = None
  MaxId = 2
  MaxDepth = 3
  MaxRevision = 3
  UniqueIndex = FALSE
INVARIANTS
  SessionsRestore
  UndoNeverFails
PROPERTIES
  ImplementsAbs
CHECK_DEADLOCK FALSE
