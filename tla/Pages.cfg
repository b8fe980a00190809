SPECIFICATION FairSpec
CONSTANTS
  Entries = 6
  Limit = 2
  Window = 6
  MaxChanges = 3
  MaxFaults = 1
INVARIANTS
  LossBounded
  RejectedOnlyWhenFull
PROPERTIES
  LoopEnds
