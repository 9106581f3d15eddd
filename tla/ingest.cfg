SPECIFICATION IngestSpec
CONSTANTS
  t1 = t1
  t2 = t2
  d1 = d1
  d2 = d2
  k1 = k1
  k2 = k2
  k3 = k3
  k4 = k4
  k5 = k5
  near = near
  far = far
  broken = broken
  alpha = alpha
  beta = beta
  gamma = gamma
  noise = noise
  NaN = NaN
  Tenants = {t1, t2}
  ChunkIds = {k1, k2, k3, k4, k5}
  DocumentIds = {d1, d2}
  Queries = {q1}
  Score <- MC_Score
  OwnerOf <- MC_OwnerOf
  MaxTopK = 2
  Embeddings = {near, far, broken}
  Collisions = FALSE
  Jobs = {j1, j2}
  Texts <- MC_Texts
  Pages <- MC_Pages
  MaxCharacters = 2
  Overlap = 1
  Fingerprint <- MC_Fingerprint
  NewDocument <- MC_NewDocument
  NewChunk <- MC_NewChunk
  DirectVectors = {broken}
  DirectIds = {k4, k5}
SYMMETRY MC_Symmetry
INVARIANT TypeOK
INVARIANT IngestedInOrder
INVARIANT VisibleTextOnly
PROPERTY RefinesTenantStore
