SPECIFICATION FairSpec
CONSTANTS
  Foremen = {f1, f2, f3}
  Workers = {w1}
  None = None
  MaxEvents = 2
  MaxFaults = 1
  Fetches = {x, y}
  MaxVisits = 1
INVARIANTS
  TypeOK
  OneSocketPerTicket
  RoomIsWatched
  NoticeIsHeard
PROPERTIES
  DeadAreSwept
  CatchesUp
CHECK_DEADLOCK FALSE
