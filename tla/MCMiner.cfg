SPECIFICATION FairSpec
INVARIANT TypeOK
INVARIANT StaleIsDead
INVARIANT RevertHasCause
INVARIANT ReportMatchesContract
PROPERTY RetargetFollowsRate
PROPERTY AnswersSpec
PROPERTY MiningEndsForGood
PROPERTY HitIsDecided
CONSTANTS
  None = None
  EpochBlocks = 2
  Interval = 2
  BlocksPerMint = 1
  MintsPerBlock = 3
  MiningSupply = 17
  Halved <- HalvedFrom8
  EraMints = 2
  MaxWord = 11
  GenesisDifficulty = 2
  Nonces <- TwoNonces
  Digest <- SmallDigest
  MaxBlock = 3
  EvMintsPerBlock = 3
  RatioNum = 6
  RatioDen = 5
  Costs <- TwoCosts
  Capacity = 1
  TestTarget = None
CHECK_DEADLOCK FALSE
