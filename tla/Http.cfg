SPECIFICATION HttpSpec
CONSTANTS
  id1 = id1
  text1 = text1
  filter1 = filter1
  ids1 = ids1
  mod1 = mod1
  Absent = Absent
  Empty = Empty
  Garbage = Garbage
  DefaultLimit = 2
  MaxWindow = 4
  Calls <- MCCalls
  Requests <- MCRequests
  Values <- MCValues
  MaxLost = 1
INVARIANTS
  RemoteAsLocal
  AnswersTellOutcome
