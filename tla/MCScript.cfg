\* Every opcode in short scripts, and multisignatures of three keys.
CONSTANTS
  Word       = 8
  WordLen    = 2
  HashLen    = 4
  HashWord   = 5
  MaxElement = 8
  MaxOps     = 4
  MaxStack   = 8
  MaxKeys    = 3
  Numbers    <- MCNumbers
  Families   <- MCFamilies
SPECIFICATION FairSpec
INVARIANTS
  TypeOK
  LimitsHold
PROPERTIES
  NoUnderflow
  MultiSigIsOrderedMatch
  EvaluationEnds
CHECK_DEADLOCK FALSE
