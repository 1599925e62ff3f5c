\* Three goroutines, rounds of up to four jobs.
CONSTANTS
  UseRoutines = 3
  MaxTxs      = 4
  MaxIns      = 4
SPECIFICATION FairSpec
INVARIANTS
  TypeOK
  RoomForAnswers
  CleanBetweenRounds
  VerdictIsRight
PROPERTY
  BlockEnds
