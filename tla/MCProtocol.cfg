SPECIFICATION FairSpec
CONSTANTS
  Kinds = {"handshake", "test", "data"}
  MaxCalls = 2
  Pieces = 2
  ClientThreads = 3
  ServerThreads = 2
INVARIANTS TypeOK ServerFollows NoncesDrift
PROPERTY TestAnswered
CHECK_DEADLOCK FALSE
