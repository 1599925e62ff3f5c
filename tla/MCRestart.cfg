\* Up to eight blocks stored, crashes and power failures at any write.
CONSTANTS
  Block       <- MCBlock
  Genesis     = "g"
  Zeros       = "zeros"
  ParentOf    <- MCParent
  Bad         <- MCBad
  UndoAtStart = 1
  MaxBlocks   = 8
  MaxFailures = 1
SPECIFICATION Spec
CHECK_DEADLOCK FALSE
INVARIANTS
  GetBlockGivesTheBlock
  FlagsTellTheTruth
  StartsAtTheHighest
  StartPanicsHaveCauses
