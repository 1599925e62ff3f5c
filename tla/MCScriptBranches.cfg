\* The comment on OP_IF: statements of the branch not taken have no effect.
CONSTANTS
  Word       = 8
  WordLen    = 2
  HashLen    = 4
  HashWord   = 5
  MaxElement = 8
  MaxOps     = 4
  MaxStack   = 8
  MaxKeys    = 3
  Numbers    <- MCNumbers
  Families   <- MCFamilies
SPECIFICATION Spec
PROPERTY UntakenBranchSkipped
CHECK_DEADLOCK FALSE
