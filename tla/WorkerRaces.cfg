SPECIFICATION Spec
CONSTANTS
  u1 = u1
  u2 = u2
  admin = admin
  user = user
  d1 = d1
  d2 = d2
  f1 = f1
  f2 = f2
  n1 = n1
  v1 = v1
  v2 = v2
  Users <- MCUsers
  NoUser = NoUser
  Groups <- MCGroups
  NoGroup = NoGroup
  Features <- MCFeatures
  Fields <- MCFields
  Values <- MCValues
  NoValue = NoValue
  InitialGroupRights <- TwoInitialGroups
  Ids = {d1}
  NoId = NoId
  NoRights = NoRights
  NoDoc = NoDoc
  NoRead = NoRead
  Logs <- RaceLogs
  UseBulk = FALSE
  BulkWorkers = 1
  MaxFaults = 1
  MaxCrashes = 0
INVARIANTS
  TypeOK
  RightsComeWhole
  OwnsExistence
  InitialRightsAsConfigured
PROPERTIES
  ImplementsStore
