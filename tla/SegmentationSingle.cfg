CONSTANTS
  Total = 7
  NumWorkers = 3
  TxCapacity = 2
  MayFail = TRUE

SPECIFICATION FairSpec

INVARIANTS
  SingleInv
  DisplacedMeansFailure
  OutcomeTruthful

PROPERTIES
  RunReturns
