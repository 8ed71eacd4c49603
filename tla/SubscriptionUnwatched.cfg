CONSTANTS
  None = None
  PeerSubscriptions = 2
  Key = {k1, k2, k3}
  MaxMailbox = 2
  MaxLoss = 1
  MaxLate = 1
  MaxDown = 1
  MaxGreeting = 1
SPECIFICATION Spec
PROPERTY MissedIsDown
CHECK_DEADLOCK FALSE
