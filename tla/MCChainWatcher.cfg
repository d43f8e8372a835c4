SPECIFICATION FairSpec
INVARIANT TypeOK
INVARIANT GrinderHasCachedEpoch
INVARIANT CachedBeforeAnnounced
INVARIANT BlockNotAfterState
PROPERTY EpochsMoveForward
PROPERTY GrinderCatchesUp
CONSTANTS
  easy = easy
  hard = hard
  None = None
  EpochBlocks = 2
  Targets <- OneTarget
  TestTarget = None
  MaxBlock = 5
  MaxReorgs = 1
CHECK_DEADLOCK FALSE
