SPECIFICATION Spec
CONSTANTS
  t1 = t1
  t2 = t2
  k1 = k1
  k2 = k2
  d1 = d1
  e1 = e1
  e2 = e2
  c1 = c1
  c2 = c2
  Tasks = {c1, c2}
  Tenants = {t1, t2}
  ChunkIds = {k1, k2}
  DocumentIds = {d1}
  ChunksOf <- MC_ChunksOf
  DocumentOf <- MC_DocumentOf
  Embeddings = {e1, e2}
  Similarity <- MC_Similarity
  Exact = TRUE
  TopKs = {0, 2}
  SupportsVectorSearch = TRUE
  RepliesLost = TRUE
SYMMETRY Symmetric
INVARIANT TypeOK
INVARIANT AcknowledgedIsStored
INVARIANT PurgeIsComplete
INVARIANT FilteredBeforeLimit
PROPERTY DocumentsKeepTheirTenant
