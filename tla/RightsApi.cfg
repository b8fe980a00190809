SPECIFICATION Spec
SYMMETRY Symmetric
CONSTANTS
  u1 = u1
  u2 = u2
  admin = admin
  user = user
  f1 = f1
  f2 = f2
  d1 = d1
  d2 = d2
  q1 = q1
  q2 = q2
  Users <- MCUsers
  NoUser = NoUser
  Groups <- MCGroups
  NoGroup = NoGroup
  Features = {f1, f2}
  Fields = {}
  Values = {}
  NoValue = NoValue
  InitialGroupRights <- MCInitialGroupRights
  Ids <- MCIds
  NoId = NoId
  NoRights = NoRights
  NoDoc = NoDoc
  PlatformAdmin = admin
  Requests <- MCRequests
  RightsRequests <- MCRightsRequests
  Others = Others
  ForeignCommands <- MCForeign
  Prefixes <- MCPrefixes
  NoKey = NoKey
  Hash <- MCHash
  InitialTopic <- MCInitialTopic
  MaxForeign = 2
  MaxFaults = 1
  MaxCompactions = 1
  MaxRestarts = 1
INVARIANTS
  TypeOK
  AdminUserKept
  AuthorityFromTopic
  AnswerIsTrue
  DocumentSurvivesCompaction
  RightsSurviveCompaction
PROPERTIES
  OwnCommandKeepsCaller
