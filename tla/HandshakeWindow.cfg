CONSTANTS
  Window = 6
  MinDelay = 1
  MaxDelay = 15
  Timeout = 30
  MaxLatency = 1
  MaxSkew = 0
SPECIFICATION Spec
INVARIANT NoneRefused
