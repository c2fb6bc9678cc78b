CONSTANTS
  p1 = p1
  p2 = p2
  Preps = {p1, p2}
  Calls <- MCCalls

SPECIFICATION FairSpec

INVARIANTS
  OutcomeTruthful

PROPERTIES
  CallReturns
