SPECIFICATION FairSpec
CONSTANTS
  Trxs <- MCTrxs
  Builders = {"a", "b"}
  Supply = 200
  Accounts <- MCAccounts
  GasRange = 64
  ShareHalf = 64
  TestFolded = TRUE
  MaxMessages = 4
  MaxPushes = 3
  MaxBlocks = 2
  MaxPeer = 1
INVARIANTS
  StateIsReplay
  RecordedOnce
  TokensConserved
PROPERTIES
  PoolDrains
