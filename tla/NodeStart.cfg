SPECIFICATION Spec
CONSTANTS
  A = A
  B = B
  Builders = {A, B}
  Own = {A}
  Faulty = {}
  Uncaught = {}
  Confirmers = {}
  DposNeed = 2
  ForkDepth = 1
  MaxBlocks = 4
  MaxRestarts = 1
  Ranks = {0}
  Ends = {"stop"}
INVARIANTS
  CanStart
