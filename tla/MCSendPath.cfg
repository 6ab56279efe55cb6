SPECIFICATION FairSpec
CONSTANTS
  QueueCap = 1
  Parts = 2
  MaxWrites = 3
INVARIANTS TypeOK QueueNeverHolds Accounted StartsInOrder
PROPERTY EveryPacketSettles
CHECK_DEADLOCK FALSE
