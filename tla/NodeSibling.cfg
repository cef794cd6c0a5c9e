SPECIFICATION Spec
CONSTANTS
  A = A
  B = B
  Builders = {A, B}
  Own = {A}
  Faulty = {}
  Uncaught = {}
  Confirmers = {}
  DposNeed = 2
  ForkDepth = 1
  MaxBlocks = 5
  MaxRestarts = 0
  Ranks = {0}
  Ends = {}
PROPERTIES
  IrreversibleLinks
