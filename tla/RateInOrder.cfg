CONSTANTS
  Modulus = 5
  DefaultDelay = 2
  MaxDelay = 3
  LossThreshold = 2
  Fifo = TRUE
  Overtaking = FALSE
  MaxMessages = 3
  MaxHandshakes = 1
  MaxLoss = 3
  MaxInFlight = 3
SPECIFICATION Spec
INVARIANTS TypeOK NaksCountLostPackets
CHECK_DEADLOCK FALSE
