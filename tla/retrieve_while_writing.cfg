SPECIFICATION Spec
CONSTANTS
  t1 = t1
  t2 = t2
  k1 = k1
  k2 = k2
  k3 = k3
  k4 = k4
  d1 = d1
  d2 = d2
  Tenants = {t1, t2}
  ChunkIds = {k1, k2, k3, k4}
  DocumentIds = {d1, d2}
  OtherNodes = {}
  OwnerOf <- MC_OwnerOf
  DocumentOf <- MC_DocumentOf
  Similarity <- MC_Similarity
  Tasks = {c1}
  Readers = {t1}
  TopK = 2
  Depth = 2
  TraversalSupport = {TRUE, FALSE}
  Exact = TRUE
  MayFail = {"search", "traverse"}
  MaxEdges = 2
INVARIANT TypeOK
INVARIANT EveryHitIsReturned
INVARIANT EdgesBracketed
INVARIANT OwnDataOnly
