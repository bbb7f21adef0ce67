SPECIFICATION FairSpec
CONSTANTS
  Seeded = 0
  MaxSent = 3
  MaxMessages = 2
  MaxTokens = 4
  Tokens <- MCTokens
  MaxAttempts = 5
  FaultKinds = {"crash"}
  MaxFaults = 1
  AnyRebuild = TRUE
PROPERTY EventuallySettled
\* The instance stops when MaxSent messages are settled and no fault is left.
CHECK_DEADLOCK FALSE
