SPECIFICATION Spec
CONSTANTS
  Starters = {s1, s2}
  Migrators = {m1}
  Ids = {i1}
  Contents = {x}
  NoDoc = NoDoc
  NoIndex = NoIndex
  TryMappingUpdate = TRUE
  Overlap = TRUE
  MaxVersion = 3
  MaxFaults = 0
SYMMETRY Interchangeable
INVARIANTS
  MigratedVersion
