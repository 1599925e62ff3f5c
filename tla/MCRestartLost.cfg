\* Two blocks suffice: the message of chain_load.go:60.
CONSTANTS
  Block       <- MCBlock
  Genesis     = "g"
  Zeros       = "zeros"
  ParentOf    <- MCParent
  Bad         <- MCBad
  UndoAtStart = 1
  MaxBlocks   = 3
  MaxFailures = 1
SPECIFICATION Spec
CHECK_DEADLOCK FALSE
INVARIANT LastBlockFound
