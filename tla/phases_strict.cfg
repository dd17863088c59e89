SPECIFICATION Spec
CONSTANTS
  p1 = p1
  p2 = p2
  k1 = k1
  k2 = k2
  Phases = {p1}
  Reports = {k1, k2}
  PhaseOf <- MCPhaseOf
  Project = Project
  Requests = {r1, r2}
  Lenient = FALSE
  MaxRequests = 5
PROPERTIES
  StrictTransitions
CHECK_DEADLOCK FALSE
