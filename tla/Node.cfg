CONSTANTS
  Capacity = 1
  MaxCasts = 1
  HandlerReplies = TRUE
SPECIFICATION Spec
INVARIANTS TypeOK CirclesNeedFullMailbox ShutdownIsAcknowledged ShutdownGoesOn
CHECK_DEADLOCK FALSE
