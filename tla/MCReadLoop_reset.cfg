SPECIFICATION Spec
CONSTANTS
  Kinds <- MCKinds
  MaxPackets = 2
  MaxResets = 1
INVARIANT OldCallbackStops
CHECK_DEADLOCK FALSE
