SPECIFICATION Spec
INVARIANT TypeOK
INVARIANT FirstWinnerWins
PROPERTY SearchSpec
CONSTANTS
  None = None
  NonceSpace = 5
  BatchSize = 5
  BlockSize = 2
  GridWord = 3
  Word = 2
  Digests <- FewDigests
CHECK_DEADLOCK FALSE
