SPECIFICATION Spec
CONSTANTS
  Kinds = {"data"}
  MaxCalls = 2
  Pieces = 1
  ClientThreads = 2
  ServerThreads = 1
INVARIANT DataReadable
CHECK_DEADLOCK FALSE
