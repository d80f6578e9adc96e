CONSTANTS
  claim = claim
  alice = alice
  bob = bob
  aliceToken = aliceToken
  bobToken = bobToken
  forged = forged
  shapeless = shapeless
  NoIdentity = NoIdentity
  Claims <- MCClaims
  Users <- MCUsers
  OwnerOf <- MCOwnerOf
  Tokens <- MCTokens
  Bearer <- MCBearer
  Shapeless <- MCShapeless
  Kinds <- ReadRefusals
  MaxDisruptions = 1
SPECIFICATION HttpSpec
CHECK_DEADLOCK FALSE
INVARIANTS
  OnlyForBearers
  RefusedDoesNothing
  StatusIsTrue
