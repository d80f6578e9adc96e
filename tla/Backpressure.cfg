CONSTANTS
  r1 = r1
  r2 = r2
  r3 = r3
  sharedKey = sharedKey
  ownKey = ownKey
  NoClaim = NoClaim
  Claims <- MCClaims
  Keys <- MCKeys
  KeyOf <- MCKeyOf
  QueueLimit = 1
  Kinds <- NoKinds
  MaxDisruptions = 0
SPECIFICATION Spec
CHECK_DEADLOCK FALSE
INVARIANT BackpressureHolds
