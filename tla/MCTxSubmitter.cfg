SPECIFICATION Spec
INVARIANT TypeOK
INVARIANT GateProtectsCounter
INVARIANT CounterLeavesNoGap
INVARIANT SettledNonceNeverReissued
INVARIANT SettledIsBuried
PROPERTY SerialSpec
SYMMETRY SymmetricHits
CONSTANTS
  h1 = h1
  h2 = h2
  h3 = h3
  Hits <- TwoHits
  None = None
  RelayCount = 2
  Confirmations = 1
  HeadLag = 1
  MaxEpoch = 1
  MaxHead = 2
  MaxReorgs = 1
CHECK_DEADLOCK FALSE
