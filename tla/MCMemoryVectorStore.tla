------------------------ MODULE MCMemoryVectorStore ------------------------
(* Small instances of MemoryVectorStore for TLC.                           *)
EXTENDS MemoryVectorStore

CONSTANTS t1, t2, k1, k2, k3, near, far, broken

MC_OwnerOf == (k1 :> t1) @@ (k2 :> t1) @@ (k3 :> t2)

(* Three embeddings: two finite similarities and one whose similarity to   *)
(* every query is NaN (a NaN component, or a norm that overflows).         *)
MC_Score(q, e) == CASE e = near -> 2 [] e = far -> 1 [] e = broken -> NaN
=============================================================================
