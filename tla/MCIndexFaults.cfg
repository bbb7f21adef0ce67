SPECIFICATION Spec
CONSTANTS
  Seeded = 1
  MaxSent = 5
  MaxMessages = 2
  MaxTokens = 4
  Tokens <- MCTokens
  MaxAttempts = 3
  FaultKinds = {"crash", "model", "db"}
  MaxFaults = 4
  AnyRebuild = TRUE
INVARIANTS
  TypeOK
  SingleProcessing
  AttemptsBounded
  ClosedIffEmbedded
  ChunkChain
  ChunksWithinLimits
  LossOnlyAfterRetry
PROPERTIES
  ClosedChunksFrozen
  SettledIsFinal
\* The instance stops when MaxSent messages are settled and no fault is left.
CHECK_DEADLOCK FALSE
