CONSTANTS
  MaxTotal = 3
  NumSpeakers = 1
  SegBatch = 2
  TxCapacity = 1
  BatchSize = 2

SPECIFICATION Spec

INVARIANTS
  StreamCountMatches
