SPECIFICATION Spec
CONSTANTS
  A = A
  B = B
  Builders = {A, B}
  Own = {A}
  Faulty = {}
  Uncaught = {}
  Confirmers = {B}
  DposNeed = 2
  ForkDepth = 2
  MaxBlocks = 5
  MaxRestarts = 0
  Ranks = {0}
  Ends = {}
PROPERTIES
  PushedIsHead
