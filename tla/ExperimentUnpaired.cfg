CONSTANTS
  i1 = i1
  i2 = i2
  Configurations <- FailingConfigurations

SPECIFICATION Spec

INVARIANTS
  ProjectionsRebuildable

CHECK_DEADLOCK FALSE
