SPECIFICATION TurnFairSpec
CONSTANTS
  t1 = t1
  t2 = t2
  k1 = k1
  k2 = k2
  k3 = k3
  d1 = d1
  Tenants = {t1, t2}
  ChunkIds = {k1, k2, k3}
  DocumentIds = {d1}
  OtherNodes = {}
  OwnerOf <- MC_OwnerOf
  DocumentOf <- MC_DocumentOf
  Similarity <- MC_Similarity
  Tasks = {c1}
  Readers = {t1}
  TopK = 2
  Depth = 1
  TraversalSupport = {TRUE, FALSE}
  Exact = FALSE
  MayFail = {"search", "traverse"}
  TurnMayFail = {"tool", "complete"}
  MaxEdges = 1
  Registrations <- MC_Registrations
  ToolRequests <- MC_ToolRequests
INVARIANT TurnTypeOK
INVARIANT RetrievalFirst
INVARIANT FailedToolsCostNothingElse
PROPERTY TurnsEnd
