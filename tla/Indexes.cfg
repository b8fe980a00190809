SPECIFICATION FairSpec
CONSTANTS
  Starters = {s1}
  Migrators = {m1, m2}
  Ids = {i1}
  Contents = {x}
  NoDoc = NoDoc
  NoIndex = NoIndex
  TryMappingUpdate = TRUE
  Overlap = FALSE
  MaxVersion = 3
  MaxFaults = 2
INVARIANTS
  AliasServes
  NothingLost
  MappingApplied
PROPERTIES
  EveryoneStarts
