SPECIFICATION Spec
CONSTANTS
  A = A
  B = B
  Builders = {A, B}
  Own = {A}
  Faulty = {B}
  Uncaught = {B}
  Confirmers = {B}
  DposNeed = 1
  ForkDepth = 9
  MaxBlocks = 5
  MaxRestarts = 1
  Ranks = {0}
  Ends = {"torn"}
PROPERTIES
  NeverPopIrreversible
CHECK_DEADLOCK FALSE
