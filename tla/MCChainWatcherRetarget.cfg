SPECIFICATION Spec
INVARIANT DifficultyChangeIsPublished
CONSTANTS
  easy = easy
  hard = hard
  None = None
  EpochBlocks = 2
  Targets <- BothTargets
  TestTarget = None
  MaxBlock = 4
  MaxReorgs = 0
CHECK_DEADLOCK FALSE
