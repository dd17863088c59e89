SPECIFICATION Spec
CONSTANTS
  f1 = f1
  w1 = w1
  k1 = k1
  Foremen = {f1}
  Workers = {w1}
  Sessions = {s1, s2}
  Tokens = {t1, t2, t3}
  Tickets = {k1}
  WorkerOf <- MCWorkerOf
  Nobody = Nobody
  Requests = {r1, r2}
  MaxRequests = 3
  MaxExpired = 1
SYMMETRY Symmetry
INVARIANTS
  TypeOK
  EndedIsFinal
  TicketOpensOneSession
CHECK_DEADLOCK FALSE
