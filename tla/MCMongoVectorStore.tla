------------------------- MODULE MCMongoVectorStore -------------------------
(* Small instances of MongoVectorStore for TLC.                            *)
EXTENDS MongoVectorStore

CONSTANTS t1, t2, k1, k2, d1, e1, e2, c1, c2

(* Both tenants use k1; k2 is t1's second chunk of the same document.      *)
MC_ChunksOf == (t1 :> {k1, k2}) @@ (t2 :> {k1})
MC_DocumentOf == (k1 :> d1) @@ (k2 :> d1)
MC_Similarity == (e1 :> 1) @@ (e2 :> 2)
Symmetric == Permutations({c1, c2})
=============================================================================
