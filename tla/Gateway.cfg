CONSTANTS
  claim = claim
  alice = alice
  bob = bob
  aliceToken = aliceToken
  bobToken = bobToken
  aliceSocket = aliceSocket
  bobSocket = bobSocket
  p1 = p1
  p2 = p2
  NoIdentity = NoIdentity
  Claims <- MCClaims
  Identities <- MCIdentities
  OwnerOf <- MCOwnerOf
  Tokens <- MCTokens
  Bearer <- MCBearer
  Sockets <- MCSockets
  TokenOf <- MCTokenOf
  Processes <- MCProcesses
  ProcessOf <- MCProcessOf
  Kinds <- ReadRefusals
  MaxDisruptions = 1
SPECIFICATION Spec
CHECK_DEADLOCK FALSE
INVARIANTS
  TypeOK
  OnlyOwnersHear
  EndedTokenStaysOut
  RoomMissesNothing
