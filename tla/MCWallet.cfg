\* Up to three payments, each of whose runs may end at any of its writes.
CONSTANTS
  Addr        <- MCAddr
  KeyLists    <- MCKeyLists
  FundingOuts <- MCFunding
  SendTo      <- MCSendTo
  Fees        = {0, 1}
  Word        = 32
  MaxTxs      = 4
SPECIFICATION Spec
CHECK_DEADLOCK FALSE
INVARIANTS
  SignedIsBalanced
  FileIsUnspent
  SpentTwiceOnlyIfStillListed
  StuckOnlyAfterLines
