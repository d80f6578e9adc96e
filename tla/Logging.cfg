CONSTANTS
  r1 = r1
  r2 = r2
  NoId = NoId
  Untold = Untold
  Requests <- MCRequests
  Worker = "worker"
  Supplied = {sent}
  Trees <- MCTrees
  Depth <- MCDepth
  Metadata <- MCMetadata
  Sensitive = {"accessToken"}
  LogLevel = "info"
SPECIFICATION LogSpec
INVARIANTS
  LinesNameTheirRequest
  OnlySecretsAreHidden
