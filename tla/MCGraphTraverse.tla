-------------------------- MODULE MCGraphTraverse --------------------------
(* Small instances of GraphTraverse for TLC.                               *)
EXTENDS GraphTraverse, TLC

(* Node names and tenants are interchangeable.                             *)
MC_Symmetry == Permutations(Nodes) \cup Permutations(Tenants)
=============================================================================
