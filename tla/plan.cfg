SPECIFICATION Spec
CONSTANTS
  p1 = p1
  p2 = p2
  p3 = p3
  Clients = {a, b}
  Phases = {p1, p2, p3}
  NameRank <- MCNameRank
  Created <- MCCreated
  LastDay = 1
  None = None
  Project = Project
  Requests = {r1, r2}
  MaxRequests = 2
SYMMETRY Symmetry
INVARIANTS
  TypeOK
  Dense
  SavedIsLive
  DayIsWhole
  ProjectHasClient
PROPERTY FollowsPhaseList
CHECK_DEADLOCK FALSE
