\* Two processes, one of which fails, and a clean-up that cannot read CURRENT.
CONSTANTS
  Processes = 2
  Golds = {a}
  NoGold = NoGold
  MaxFaults = 1
  Unreadable = TRUE
SPECIFICATION Spec
INVARIANT ReadersFindRelease
CHECK_DEADLOCK FALSE
