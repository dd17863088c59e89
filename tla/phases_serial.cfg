SPECIFICATION Spec
CONSTANTS
  p1 = p1
  p2 = p2
  k1 = k1
  k2 = k2
  Phases = {p1, p2}
  Reports = {k1, k2}
  PhaseOf <- MCPhaseOf
  Project = Project
  Requests = {r1}
  Lenient = FALSE
  MaxRequests = 5
INVARIANTS
  SerialTidy
PROPERTIES
  ImplementsStrictPhase
  ProjectStaysDone
CHECK_DEADLOCK FALSE
