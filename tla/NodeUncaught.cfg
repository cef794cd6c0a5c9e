SPECIFICATION Spec
CONSTANTS
  A = A
  B = B
  C = C
  Builders = {A, B, C}
  Own = {A}
  Faulty = {C}
  Uncaught = {C}
  Confirmers = {}
  DposNeed = 1
  ForkDepth = 2
  MaxBlocks = 5
  MaxRestarts = 0
  Ranks = {0}
  Ends = {}
PROPERTIES
  PushedIsHead
