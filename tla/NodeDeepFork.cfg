SPECIFICATION Spec
CONSTANTS
  A = A
  B = B
  C = C
  Builders = {A, B, C}
  Own = {A}
  Faulty = {}
  Uncaught = {}
  Confirmers = {}
  DposNeed = 1
  ForkDepth = 3
  MaxBlocks = 7
  MaxRestarts = 0
  Ranks = {0}
  Ends = {}
PROPERTIES
  BranchesFound
SYMMETRY Others
