SPECIFICATION FairSpec
CONSTANTS
  Seeded = 2
  MaxSent = 7
  MaxMessages = 2
  MaxTokens = 4
  Tokens <- MCTokens
  MaxAttempts = 2
  FaultKinds = {"crash", "db"}
  MaxFaults = 4
  AnyRebuild = FALSE
PROPERTIES
  ImplementsIndexLog
  EventuallySettled
\* The instance stops when MaxSent messages are settled and no fault is left.
CHECK_DEADLOCK FALSE
