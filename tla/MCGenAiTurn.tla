---------------------------- MODULE MCGenAiTurn -----------------------------
(* Small instances of GenAiTurn for TLC.                                   *)
EXTENDS GenAiTurn

CONSTANTS t1, t2, k1, k2, k3, d1

MC_OwnerOf == (k1 :> t1) @@ (k2 :> t1) @@ (k3 :> t2)
MC_DocumentOf == (k1 :> d1) @@ (k2 :> d1) @@ (k3 :> d1)
MC_Similarity == (k1 :> 2) @@ (k2 :> 1) @@ (k3 :> 2)

(* Two tools under one name, and a name nobody registered.                 *)
MC_Registrations ==
  <<[name |-> "echo", tool |-> "echo"], [name |-> "calculator", tool |-> "old"],
    [name |-> "calculator", tool |-> "new"]>>
MC_ToolRequests == {<<>>, <<"calculator", "missing", "echo">>}
=============================================================================
