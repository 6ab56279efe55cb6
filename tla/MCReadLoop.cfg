SPECIFICATION FairSpec
CONSTANTS
  Kinds <- MCKinds
  MaxPackets = 2
  MaxResets = 1
INVARIANTS TypeOK WholeIsAccepted AcceptedWasSent ReadAlive 
PROPERTY NewCallbackReads
CHECK_DEADLOCK FALSE
