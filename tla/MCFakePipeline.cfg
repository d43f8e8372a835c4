SPECIFICATION FairSpec
INVARIANT TypeOK
INVARIANT UpdateIsCurrent
INVARIANT HitsAreConsistent
INVARIANT NothingSkipped
PROPERTY LastUpdateIsApplied
PROPERTY StreamSpec
CONSTANTS
  c1 = c1
  c2 = c2
  d1 = d1
  d2 = d2
  None = None
  EpochBlocks = 2
  Targets <- SomeTargets
  Callers <- TwoCallers
  MaxHead = 4
  MaxUpdates = 1
  Drivers <- OneDriver
  Capacity = 1
  Challenges <- ThreeEpochs
  Digest <- SmallDigest
  NonceBound = 3
  MaxFound = 2
  BusCapacity = 1
  TestTarget = None
CHECK_DEADLOCK FALSE
