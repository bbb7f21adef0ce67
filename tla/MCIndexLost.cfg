SPECIFICATION Spec
CONSTANTS
  Seeded = 0
  MaxSent = 3
  MaxMessages = 2
  MaxTokens = 4
  Tokens <- MCTokens
  MaxAttempts = 5
  FaultKinds = {"model"}
  MaxFaults = 1
  AnyRebuild = FALSE
INVARIANT DoneIsChunked
\* The instance stops when MaxSent messages are settled and no fault is left.
CHECK_DEADLOCK FALSE
