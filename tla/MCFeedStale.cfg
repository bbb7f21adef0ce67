CONSTANTS
  Seeded = 1
  MaxOrdinal = 2
  PageSize = 2
  RepairLimit = 2
  MaxFailures = 0
SPECIFICATION FairSpec
INVARIANT CaughtUp
