\* One canonical message, up to five live ones, pages of two, repairs of two rows.
CONSTANTS
  Seeded = 1
  MaxOrdinal = 5
  PageSize = 2
  RepairLimit = 2
  MaxFailures = 1
SPECIFICATION FairSpec
INVARIANTS TypeOK InOrder NoHole LossOnlyByFirstPage
PROPERTIES AlwaysRepaired
