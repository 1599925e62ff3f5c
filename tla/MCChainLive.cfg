\* Nested reorganisations over two invalid blocks.
CONSTANTS
  TxId            <- MCTxId
  Ins             <- MCIns
  Outs            <- MCOuts
  BadScript       <- MCBadScript
  Word            = 64
  InitialReward   = 5
  HalvingInterval = 100
  Block           <- ReorgBlocks
  Genesis         = "g"
  ParentOf        <- ReorgParent
  BlockTxs        <- CoinbaseTxs
  MaxHistory      = 3
  NoSyncDistance  = 1
  MaxRejected     = 1
  StartNoSync     = {TRUE, FALSE}
SPECIFICATION FairSpec
CHECK_DEADLOCK FALSE
PROPERTY
  EveryCallEnds
