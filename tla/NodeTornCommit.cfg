SPECIFICATION Spec
CONSTANTS
  A = A
  B = B
  C = C
  Builders = {A, B, C}
  Own = {A}
  Faulty = {}
  Uncaught = {}
  Confirmers = {}
  DposNeed = 1
  ForkDepth = 1
  MaxBlocks = 4
  MaxRestarts = 1
  Ranks = {0}
  Ends = {"torn"}
INVARIANTS
  DbFollowsHead
SYMMETRY Others
