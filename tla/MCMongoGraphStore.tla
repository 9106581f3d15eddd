------------------------- MODULE MCMongoGraphStore --------------------------
(* Small instances of MongoGraphStore for TLC.                             *)
EXTENDS MongoGraphStore, TLC

CONSTANTS t1, t2, n1, n2, n3

SymmetricNodes == Permutations({n1, n2, n3})
=============================================================================
