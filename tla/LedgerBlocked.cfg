SPECIFICATION FairSpec
CONSTANTS
  Trxs <- MCTrxs
  Builders = {"a"}
  Supply = 200
  Accounts <- MCAccounts
  GasRange = 64
  ShareHalf = 64
  TestFolded = TRUE
  MaxMessages = 2
  MaxPushes = 2
  MaxBlocks = 1
  MaxPeer = 0
PROPERTIES
  PoolDrains
