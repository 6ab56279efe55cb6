SPECIFICATION FairSpec
CONSTANTS
  Kinds = {"handshake"}
  MaxCalls = 1
  Pieces = 1
  ClientThreads = 3
  ServerThreads = 1
PROPERTY HandshakeCompletes
CHECK_DEADLOCK FALSE
