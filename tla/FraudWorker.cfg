CONSTANTS
  w1 = w1
  w2 = w2
  approvable = approvable
  rejectable = rejectable
  NoClaim = NoClaim
  Workers <- MCWorkers
  Claims <- MCClaims
  Decision <- MCDecision
  Kinds <- EveryKind
  MaxDisruptions = 2
SPECIFICATION Spec
SYMMETRY Symmetry
INVARIANTS
  TypeOK
  AtMostOneCopy
  RetryBudget
  LossBounded
  ExclusiveUpdate
  UncountedBounded
PROPERTY LifecycleSpec
