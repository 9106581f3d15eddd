SPECIFICATION Spec
CONSTANTS
  Tenants = {t1, t2}
  Nodes = {v1, v2, v3}
  Depths = {0, 1, 2, 4}
  MaxEdges = 3
INVARIANT TypeOK
INVARIANT TraversalExact
INVARIANT WalkSound
SYMMETRY MC_Symmetry
