SPECIFICATION Spec
CONSTANTS
  Accounts = {"p", "sys.any"}
  Initial <- MCInitial
  Names = {"p", "sys.any"}
  Keys = {1, 2}
  Funcs = {"addaccount", ""}
  New <- MCNew
  MaxLinks = 1
  Candidates <- MCCandidates
  WeightRange = 4
  ThresholdRange = 8
  MaxDepth = 3
  MaxIds = 6
  MaxEntries = 2
INVARIANTS
  AuthoritiesRooted
  AncestorsExact
  ChecksSound
CHECK_DEADLOCK FALSE
