\* Three processes, one command each, over one dataset or two.
CONSTANTS
  Processes = 3
  Golds = {a, b}
  NoGold = NoGold
  MaxFaults = 1
  Unreadable = TRUE
SPECIFICATION FairSpec
INVARIANTS TypeOK PointerWhole PublishedKept ApprovedFaithful AuditedOnly FailedLeavesNothing
PROPERTIES PublisherEnds
CHECK_DEADLOCK FALSE
