CONSTANTS
  s1 = s1
  s2 = s2
  Sites <- MCSites
  OptionalInts = {"CLAIM_CREATE_RATE_LIMIT"}
  RequiredInts = {"REDIS_PORT"}
  Fallback <- MCFallback
  Raws <- MCRaws
  IntegerOf <- MCIntegerOf
  Minimum <- MCMinimum
  MaxText = 2
  DefaultOrigin <- MCDefaultOrigin
SPECIFICATION ConfigSpec
CHECK_DEADLOCK FALSE
INVARIANTS
  ConfiguredPagesOnly
  ServesIfInOrder
