CONSTANTS
  s1 = s1
  s2 = s2
  good = good
  bad = bad
  Senders = {s1, s2}
  First = s1
  c1 = c1
  c2 = c2
  Callers = {c1, c2}
  Files = {good, bad}
  BadFiles = {bad}
  Capacity = 1
  MaxJobs = 3
  MaxReplies = 3
  MayPanic = TRUE

SPECIFICATION FairSpec

INVARIANTS
  QueueInv
  AnsweredInOrder
  ClosedMeansAnswered
  JobIdsOrdered
  IteratorFused

PROPERTIES
  ImplementsService
  EveryRequestAnswered
  DrainingEnds
  PanicReported
  AbandonedWorkerStops
