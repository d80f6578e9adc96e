------------------------------- MODULE MCLogging -------------------------------
(***************************************************************************)
(* Two requests and the worker; trees of depth four over two keys, one of  *)
(* them sensitive, and LOG_LEVEL unset.                                    *)
(***************************************************************************)
EXTENDS Logging, FiniteSetsExt

CONSTANTS r1, r2

MCRequests == {r1, r2}
Fields(trees) == UNION {[keys -> trees] : keys \in SUBSET {"claimId", "accessToken"}}
Leaf == {Text("x"), Error("PrismaError", "failed", "query")}
Flat == {Array(<<leaf>>) : leaf \in Leaf} \cup {Object(f) : f \in Fields(Leaf)}
Nested == {Array(<<t>>) : t \in Leaf \cup Flat}
MCMetadata ==
  {Text("Context"), Array(<<>>)}
    \cup {Object(f) : f \in UNION {[{key} -> Leaf \cup Flat \cup Nested] : key \in {"claimId", "accessToken"}}}
    \cup {Object(f) : f \in Fields(Leaf)}
MCGiven == Leaf \cup Flat \cup Nested \cup MCMetadata
MCWritten[t \in MCGiven] == SanitizeOf(MCWritten, t)
MCTrees ==
  MCGiven \cup Range(MCWritten) \cup {Text(text) : text \in {RedactedText, "PrismaError", "failed"}}
MCDepth[t \in MCTrees] ==
  IF Parts(t) = {} THEN 0 ELSE 1 + Max({MCDepth[part] : part \in Parts(t)})
=============================================================================
