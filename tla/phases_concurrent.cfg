SPECIFICATION Spec
CONSTANTS
  p1 = p1
  p2 = p2
  k1 = k1
  k2 = k2
  Phases = {p1}
  Reports = {k1, k2}
  PhaseOf <- MCPhaseOf
  Project = Project
  Requests = {r1, r2, r3}
  Lenient = FALSE
  MaxRequests = 5
SYMMETRY Symmetry
INVARIANTS
  TypeOK
  AuditTrail
  ReportIsWhole
PROPERTIES
  DoneLeftByStaleReadOnly
CHECK_DEADLOCK FALSE
