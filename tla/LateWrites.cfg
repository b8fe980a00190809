SPECIFICATION FairSpec
CONSTANTS
  u1 = u1
  u2 = u2
  g1 = g1
  f1 = f1
  f2 = f2
  d1 = d1
  Users <- MCUsers
  NoUser = NoUser
  Groups <- MCGroups
  NoGroup = NoGroup
  Features = {f1, f2}
  Fields = {}
  Values = {}
  NoValue = NoValue
  InitialGroupRights <- MCInitialGroupRights
  Ids = {d1}
  NoId = NoId
  NoRights = NoRights
  NoDoc = NoDoc
  NoRead = NoRead
  Logs <- MCLogs
  Others <- MCOthers
  Imports <- MCImports
  MaxOthers = 1
  MaxImports = 1
  MaxFaults = 2
INVARIANTS
  FollowsUnlessBlind
PROPERTIES
  OnlyCreationsReplace
  ConsumedIfStarted
