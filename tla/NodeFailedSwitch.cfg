SPECIFICATION Spec
CONSTANTS
  B = B
  C = C
  Builders = {B, C}
  Own = {}
  Faulty = {C}
  Uncaught = {}
  Confirmers = {}
  DposNeed = 3
  ForkDepth = 9
  MaxBlocks = 5
  MaxRestarts = 0
  Ranks = {0}
  Ends = {}
PROPERTIES
  OriginBranch
