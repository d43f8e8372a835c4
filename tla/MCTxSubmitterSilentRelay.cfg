SPECIFICATION SilentRelaySpec
PROPERTY FanOutReachesEveryRelay
CONSTANTS
  h1 = h1
  h2 = h2
  h3 = h3
  Hits <- TwoHits
  None = None
  RelayCount = 2
  Confirmations = 1
  HeadLag = 1
  MaxEpoch = 0
  MaxHead = 1
  MaxReorgs = 0
CHECK_DEADLOCK FALSE
