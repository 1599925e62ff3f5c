\* Every block of at most four transactions, on every part of base's outputs.
CONSTANTS
  TxId            <- MCTxId
  Ins             <- MCIns
  Outs            <- MCOuts
  BadScript       <- MCBadScript
  Word            = 32
  InitialReward   = 5
  HalvingInterval = 2
  StartLedgers    <- MCStartLedgers
  Blocks          <- MCBlocks
  Heights         <- MCHeights
SPECIFICATION Spec
CHECK_DEADLOCK FALSE
INVARIANTS
  AgreesWithTheRule
  NoValueFromNothing
  UndoableUpToOwnOutputs
