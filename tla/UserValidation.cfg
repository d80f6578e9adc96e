CONSTANTS
  u1 = u1
  c1 = c1
  c2 = c2
  c3 = c3
  Users <- MCUsers
  Callers <- MCCallers
  TTL = 3
  Timeout = 2
SPECIFICATION FairSpec
PROPERTIES
  YesIsRecent
  NoIsRecent
  EveryCallReturns
