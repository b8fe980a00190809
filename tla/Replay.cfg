SPECIFICATION FairSpec
CONSTANTS
  u1 = u1
  u2 = u2
  admin = admin
  user = user
  f1 = f1
  Users <- MCUsers
  NoUser = NoUser
  Groups <- MCGroups
  NoGroup = NoGroup
  Features = {f1}
  Fields = {}
  Values = {}
  NoValue = NoValue
  InitialGroupRights <- MCInitialGroupRights
  Ids = {1, 2, 3}
  NoId = NoId
  NoRights = NoRights
  NoDoc = NoDoc
  BatchSize = 2
  InitialDocs <- AllOrSome
  ForeignCommands <- Foreign
  PermCommands <- Grants
  MaxForeign = 2
  MaxFaults = 1
  MaxRestarts = 1
INVARIANTS
  SentInOrder
  SteadySent
PROPERTIES
  RightsReplayedAsTheyWere
  ReplayEnds
