CONSTANTS
  r1 = r1
  r2 = r2
  r3 = r3
  r4 = r4
  Requests <- MCRequests
  Limit = 2
  Window = 2
  MaxTime = 5
  Kinds <- EveryKind
  MaxDisruptions = 1
SPECIFICATION Spec
CHECK_DEADLOCK FALSE
SYMMETRY Symmetry
INVARIANTS
  ThrottleHolds
  CountersHaveDeadlines
