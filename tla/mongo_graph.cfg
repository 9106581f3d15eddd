SPECIFICATION Spec
CONSTANTS
  t1 = t1
  t2 = t2
  n1 = n1
  n2 = n2
  n3 = n3
  Tasks = {c1}
  Tenants = {t1, t2}
  Nodes = {n1, n2, n3}
  Depths = {0, 1, 3}
  SupportsTraversal = TRUE
  MaxEdges = 3
SYMMETRY SymmetricNodes
INVARIANT TypeOK
INVARIANT TraversalBracketed
