SPECIFICATION FairSpec
CONSTANTS
  A = A
  B = B
  C = C
  Builders = {A, B, C}
  Own = {A}
  Faulty = {}
  Uncaught = {}
  Confirmers = {}
  DposNeed = 1
  ForkDepth = 2
  MaxBlocks = 5
  MaxRestarts = 0
  Ranks = {0}
  Ends = {}
INVARIANTS
  StoresAgree
  FinalityKeepsUp
PROPERTIES
  FinalityNeedsTurns
  BranchesFound
  PushedIsHead
  IrreversibleLinks
  HandlerEnds
