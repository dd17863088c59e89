SPECIFICATION FairSpec
CONSTANTS
  Sessions = {s1}
  Calls = {c1, c2}
  None = None
  MaxExpiries = 1
INVARIANTS
  TypeOK
  SpentOnlyAfterLoss
  RestartKeepsSession
PROPERTY CallsEnd
CHECK_DEADLOCK FALSE
