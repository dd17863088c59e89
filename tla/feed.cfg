SPECIFICATION Spec
CONSTANTS
  Workers = {1, 2}
  OnSite = {1}
  Foremen = {a, b}
  Requests = {r1, r2}
  None = None
  Times = {0, 1, 2}
  Batches <- MCBatches
  Patches <- MCPatches
  Names = {1, 2}
  Hours = {1, 2, 3}
  Window = 1
  Keep = 0
  Limit = 1
  MaxTime = 1
  MaxEvents = 2
  MaxRequests = 2
SYMMETRY Symmetry
INVARIANTS
  TypeOK
  StaysUntilRead
  ShiftHasLength
  WalkIsWhole
PROPERTIES
  RetriesAddNothing
  FirstReadKept
CHECK_DEADLOCK FALSE
