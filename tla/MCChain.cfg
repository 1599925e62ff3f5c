\* Every order in which the blocks of two branches and a bad one can arrive.
CONSTANTS
  TxId            <- MCTxId
  Ins             <- MCIns
  Outs            <- MCOuts
  BadScript       <- MCBadScript
  Word            = 64
  InitialReward   = 5
  HalvingInterval = 100
  Block           <- WideBlocks
  Genesis         = "g"
  ParentOf        <- WideParent
  BlockTxs        <- WideTxs
  MaxHistory      = 3
  NoSyncDistance  = 1
  MaxRejected     = 1
  StartNoSync     = {TRUE, FALSE}
SPECIFICATION Spec
CHECK_DEADLOCK FALSE
INVARIANTS
  UnwindFollowsTip
  LedgerIsReplay
  ActiveChainValid
  PanicsHaveCauses
  SyncModeRestored
PROPERTY
  TipIsBest
