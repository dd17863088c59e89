SPECIFICATION FairSpec
CONSTANTS
  Media = {m1, m2}
  Files = {f1, f2}
  Size = 2
  Phases = {p}
  None = None
  Requests = {r1, r2}
  MaxRequests = 2
  Servers = {s1}
  Batch = 1
  MaxFaults = 1
INVARIANTS
  TypeOK
  RowHasBytes
  ReportFindsItsFile
  StoredOnce
  SendsWhatWasAsked
PROPERTIES
  LosesOnlyUnseenLinks
  OrphansGo
CHECK_DEADLOCK FALSE
