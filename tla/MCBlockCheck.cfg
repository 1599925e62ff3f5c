\* Two retargets, the first one measured from the root, on both networks.
CONSTANTS
  Byte               = 8
  nInterval          = 3
  nTargetTimespan    = 8
  MinDifficultyAfter = 5
  FutureTime         = 4
  Uint32             = 128
  bnProofOfWorkLimit = 4095
  GenesisTime        = 4
  Times              = {4, 7, 40}
  MaxHeight          = 6
  Bodies             <- MCBodies
  Lengths            <- MCLengths
  TxLists            <- MCTxLists
  Testnets           = {TRUE, FALSE}
SPECIFICATION Spec
INVARIANTS
  OneTargetPerPeriod
  RetargetFollowsTheRule
  LengthsComeBack
  RootFixesTheList
PROPERTIES
  DosIsFinal
