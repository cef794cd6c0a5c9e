SPECIFICATION Spec
CONSTANTS
  A = A
  B = B
  C = C
  Builders = {A, B, C}
  Own = {A}
  Faulty = {}
  Uncaught = {}
  Confirmers = {}
  DposNeed = 1
  ForkDepth = 1
  MaxBlocks = 5
  MaxRestarts = 2
  Ranks = {0}
  Ends = {"stop", "kill", "torn"}
INVARIANTS
  CanStart
SYMMETRY Others
