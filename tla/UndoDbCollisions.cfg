SPECIFICATION Spec
CONSTANTS
  Values = {x, y}
  None = None
  MaxId = 3
  MaxDepth = 2
  MaxRevision = 2
  UniqueIndex = TRUE
INVARIANTS
  ValuesUnique
CHECK_DEADLOCK FALSE
