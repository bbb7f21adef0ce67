\* The processes of golden_publish, over one dataset; CURRENT can always be read.
CONSTANTS
  Processes = 3
  Golds = {a}
  NoGold = NoGold
  MaxFaults = 1
  Unreadable = FALSE
SPECIFICATION Spec
INVARIANT PriorReleasesReadable
CHECK_DEADLOCK FALSE
