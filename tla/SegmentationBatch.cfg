CONSTANTS
  w1 = w1
  w2 = w2
  w3 = w3
  Workers = {w1, w2, w3}
  Total = 8
  BatchSize = 3
  WarmStart = TRUE
  WarmWindows = 3
  SmallBatch = 2
  TxCapacity = 2
  MayFail = TRUE

SPECIFICATION FairSpec

INVARIANTS
  MergeInv
  WindowsInOrder
  OutcomeTruthful

PROPERTIES
  RunReturns
