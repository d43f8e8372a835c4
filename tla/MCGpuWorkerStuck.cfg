SPECIFICATION StuckSubmitterSpec
PROPERTY KernelOutlivesSubmitter
CONSTANTS
  easy = easy
  hard = hard
  None = None
  MaxEpoch = 1
  Targets <- OneTarget
  NonceSpace = 8
  BatchSize = 4
  BlockSize = 2
  GridWord = 4
  Capacity = 1
  MaxSwaps = 1
  MaxLaunches = 0
CHECK_DEADLOCK FALSE
