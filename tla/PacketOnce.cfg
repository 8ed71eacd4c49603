CONSTANTS
  n1 = n1
  n2 = n2
  n3 = n3
  Node = {n1, n2, n3}
  Subscribers <- BothWays
  Keys <- BothWays
  SeenSize = 2
  Nak = Nak
  MaxMessages = 1
  MaxUpdates = 1
SPECIFICATION Spec
INVARIANTS TypeOK AtMostOnce Disseminated
PROPERTY ImplementsBroadcast
