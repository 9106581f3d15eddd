---------------------------- MODULE MCKnowledge ----------------------------
(* Small instances of Knowledge for TLC.                                   *)
EXTENDS Knowledge

CONSTANTS t1, t2, k1, k2, k3, k4, d1, d2

(* Three chunks of one tenant in two documents, one more than a search may *)
(* answer, and one of the other tenant.                                    *)
MC_OwnerOf == (k1 :> t1) @@ (k2 :> t1) @@ (k3 :> t2) @@ (k4 :> t1)
MC_DocumentOf == (k1 :> d1) @@ (k2 :> d2) @@ (k3 :> d1) @@ (k4 :> d1)
MC_Similarity == (k1 :> 2) @@ (k2 :> 1) @@ (k3 :> 2) @@ (k4 :> 1)
=============================================================================
