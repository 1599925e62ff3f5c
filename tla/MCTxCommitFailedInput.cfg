\* A transaction with an input that fails, and enough value without it.
CONSTANTS
  TxId            <- MCTxId
  Ins             <- MCIns
  Outs            <- MCOuts
  BadScript       <- MCBadScript
  Word            = 32
  InitialReward   = 5
  HalvingInterval = 2
  StartLedgers    <- MCStartLedgers
  Blocks          <- MCBlocks
  Heights         <- MCHeights
SPECIFICATION Spec
CHECK_DEADLOCK FALSE
INVARIANT
  FailedInputRejectsBlock
