SPECIFICATION FairSpec
INVARIANT TypeOK
INVARIANT HitsMatchOrders
INVARIANT RegionIsSwept
PROPERTY LastOrdersReachDevice
PROPERTY ShutdownEndsThread
CONSTANTS
  easy = easy
  hard = hard
  None = None
  MaxEpoch = 1
  Targets <- BothTargets
  NonceSpace = 7
  BatchSize = 3
  BlockSize = 2
  GridWord = 4
  Capacity = 1
  MaxSwaps = 2
  MaxLaunches = 3
CHECK_DEADLOCK FALSE
