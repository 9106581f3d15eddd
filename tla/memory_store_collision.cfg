SPECIFICATION Spec
CONSTANTS
  t1 = t1
  t2 = t2
  k1 = k1
  k2 = k2
  k3 = k3
  near = near
  far = far
  broken = broken
  NaN = NaN
  Tenants = {t1, t2}
  ChunkIds = {k1, k2, k3}
  DocumentIds = {d1, d2}
  Queries = {q1}
  Score <- MC_Score
  OwnerOf <- MC_OwnerOf
  MaxTopK = 2
  Embeddings = {near, far}
  Collisions = TRUE
PROPERTY OtherTenantsUntouched
