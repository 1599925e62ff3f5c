\* Two regular outpoints and one irregular; a window of two records.
CONSTANTS
  o1 = o1
  o2 = o2
  x1 = x1
  b1 = b1
  OutPoint    <- MCOutPoint
  Irregular   <- MCIrregular
  BlockHash   = {b1}
  NoHash      = NoHash
  MaxHistory  = 2
  StartupUndo = 1
  MaxHeight   = 3
SPECIFICATION Spec
INVARIANTS
  TypeOK
  UtxoMatchesTip
  RecordsUndoBlocks
  UnwindWindow
  UndoneToTheEnd
  MinedAtIsRight
PROPERTY
  AtomicBlocks
