SPECIFICATION Spec
CONSTANTS
  u1 = u1
  u2 = u2
  admin = admin
  user = user
  d1 = d1
  d2 = d2
  f1 = f1
  f2 = f2
  n1 = n1
  v1 = v1
  v2 = v2
  Users <- MCUsers
  NoUser = NoUser
  Groups <- MCGroups
  NoGroup = NoGroup
  Features <- MCFeatures
  Fields <- MCFields
  Values <- MCValues
  NoValue = NoValue
  InitialGroupRights <- OneInitialGroup
  Ids = {d1, d2}
  NoId = NoId
  NoRights = NoRights
  NoDoc = NoDoc
  NoRead = NoRead
  Logs <- DeliveryLogs
  UseBulk = TRUE
  BulkWorkers = 2
  MaxFaults = 2
  MaxCrashes = 2
INVARIANTS
  FeaturesFollowLog
  DoneImpliesApplied
  CommittedImpliesDone
