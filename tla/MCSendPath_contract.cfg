SPECIFICATION Spec
CONSTANTS
  QueueCap = 1
  Parts = 2
  MaxWrites = 2
INVARIANT SomeDemandMet
CHECK_DEADLOCK FALSE
