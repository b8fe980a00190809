SPECIFICATION Spec
CONSTANTS
  u1 = u1
  u2 = u2
  admin = admin
  user = user
  m = m
  f1 = f1
  f2 = f2
  Users <- MCUsers
  NoUser = NoUser
  Groups <- MCGroups
  Features = {f1, f2}
  Fields = {}
  Values = {}
  NoValue = NoValue
  InitialGroupRights <- MCInitialGroupRights
  Ids = {1, 2}
  Mods = {m}
  NoMod = NoMod
  AnyFeature = AnyFeature
  NoDoc = NoDoc
  AdminRole = admin
  Contents <- MCContents
  Requests <- MCRequests
  MaxChanges = 2
  MaxFaults = 1
INVARIANTS
  SelectedAsPermitted
