CONSTANTS
  r1 = r1
  r2 = r2
  r3 = r3
  sharedKey = sharedKey
  ownKey = ownKey
  NoClaim = NoClaim
  Claims <- MCClaims
  Keys <- MCKeys
  KeyOf <- OneKeyOf
  QueueLimit = 2
  Kinds <- EveryKind
  MaxDisruptions = 3
SPECIFICATION Spec
CHECK_DEADLOCK FALSE
SYMMETRY AllSymmetry
INVARIANTS
  TypeOK
  LockProtects
  CompleteNeverDangles
  AcknowledgedIsQueued
  OrphansBounded
PROPERTY IdempotentSpec
