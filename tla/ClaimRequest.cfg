CONSTANTS
  alice = alice
  bob = bob
  Identities <- MCIdentities
  Inputs <- MCInputs
  SafeChars <- MCSafeChars
  MaxKey = 2
  Digest <- MCDigest
  MinLength = 2
  MaxLength = 3
  MaxRequests = 2
SPECIFICATION Spec
CHECK_DEADLOCK FALSE
INVARIANTS
  RetriesShare
  KeysApart
  ContentDecides
