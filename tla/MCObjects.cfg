SPECIFICATION ObjectsSpec
CONSTANTS
  r1 = r1
  r2 = r2
  Rings = {r1, r2}
  Capacity <- TwoRings
  Radix = 2
  Payloads <- MixedPayloads
  WordMod = 4
  BlockLen = 3
  TagLen = 2
  KeyLen = 1
  Keys <- MCKeys
  Seconds = {0, 1}
  MaxDraw = 6
  FirstKey <- MCKeyOne
  Intervals = {1, 2, 3}
  Shapes <- MCShapes
  MaxPackets = 4
  Base = 64
  Half = 32768
  KeyLimbs <- MCKeyLimbs
  BlockLimbs <- MCBlockLimbs
  MaxBlocks = 4
INVARIANTS TypeOK Intact FSTypeOK CountersInStep PadsUsedOnce WholeIsRead LimbsTypeOK TagIsPolynomial
PROPERTIES IsMessageQueue OneStream
CHECK_DEADLOCK FALSE
