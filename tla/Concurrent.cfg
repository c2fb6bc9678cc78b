CONSTANTS
  MaxTotal = 4
  NumSpeakers = 2
  SegBatch = 3
  TxCapacity = 1
  BatchSize = 3

SPECIFICATION FairSpec

INVARIANTS
  EmbeddingsAligned
  OutcomeTruthful

PROPERTIES
  CallReturns
