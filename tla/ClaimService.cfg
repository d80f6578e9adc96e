CONSTANTS
  w1 = w1
  w2 = w2
  r1 = r1
  r2 = r2
  k1 = k1
  k2 = k2
  NoClaim = NoClaim
  Workers <- MCWorkers
  Claims <- MCClaims
  Keys <- MCKeys
  KeyOf <- MCKeyOf
  Host <- MCHost
  Decision <- MCDecision
  QueueLimit = 1
  Kinds <- AllKinds
  MaxDisruptions = 1
SPECIFICATION FairSpec
INVARIANTS
  AcknowledgedLossBounded
  ReplayFindsClaim
PROPERTIES
  LifecycleSpec
  IdempotentSpec
  AcknowledgedSettles
  HalfProcessedIsDeadLettered
  LockIsReleased
  EveryRequestAnswered
