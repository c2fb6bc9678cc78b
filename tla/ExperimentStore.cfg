CONSTANTS
  i1 = i1
  i2 = i2
  Configurations <- MCConfigurations

SPECIFICATION FairSpec

INVARIANTS
  RecordsComparable
  InDeclaredOrder

PROPERTIES
  DurableStays
  

\* A crash before the manifest is written leaves a directory no command accepts.
CHECK_DEADLOCK FALSE
