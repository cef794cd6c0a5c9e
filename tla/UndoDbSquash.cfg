SPECIFICATION Spec
CONSTANTS
  Values = {x, y}
  None = None
  MaxId = 2
  MaxDepth = 2
  MaxRevision = 2
  UniqueIndex = FALSE
PROPERTIES
  SquashReducesRevision
CHECK_DEADLOCK FALSE
