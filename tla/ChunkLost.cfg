CONSTANTS
  p1 = p1
  Preps = {p1}
  Calls <- MCOverflow

SPECIFICATION FairSpec

PROPERTIES
  FailureSurfaced

\* the call may stop for ever: that is what the run shows
CHECK_DEADLOCK FALSE
