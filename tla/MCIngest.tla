----------------------------- MODULE MCIngest -----------------------------
(* Small instances of Ingest for TLC.                                      *)
EXTENDS Ingest

CONSTANTS t1, t2, d1, d2, k1, k2, k3, k4, k5, near, far, broken, alpha, beta, gamma, noise

(* One tenant ingests; both call the store, with one chunk id each.        *)
MC_OwnerOf == (k1 :> t1) @@ (k2 :> t1) @@ (k3 :> t1) @@ (k4 :> t2) @@ (k5 :> t1)
MC_NewDocument == (t1 :> <<d1, d2>>) @@ (t2 :> <<>>)
MC_NewChunk == (t1 :> <<k1, k2, k3>>) @@ (t2 :> <<>>)

MC_Symmetry == Permutations(Jobs)

MC_Score(q, e) == CASE e = near -> 2 [] e = far -> 1 [] e = broken -> NaN

(* Two tokens in either order have one fingerprint, a third another.       *)
MC_Fingerprint(bag) == IF alpha \in DOMAIN bag THEN near ELSE far

(* A blank file and one of three words: two chunks, which share a word.    *)
MC_Texts == {<<>>, <<alpha, beta, gamma>>}

MC_Node(parent, kind, words) == [parent |-> parent, kind |-> kind, words |-> words]

(* A page with a script nested in its body and a <noscript> that holds an  *)
(* element, and a page of frames, which has no body.                       *)
MC_Pages ==
  {<<MC_Node(0, "html", <<>>), MC_Node(1, "head", <<>>), MC_Node(2, "text", <<noise>>),
     MC_Node(1, "body", <<>>), MC_Node(4, "text", <<alpha>>), MC_Node(4, "script", <<>>),
     MC_Node(6, "text", <<noise>>), MC_Node(4, "noscript", <<>>), MC_Node(8, "p", <<>>),
     MC_Node(9, "text", <<noise>>), MC_Node(4, "p", <<>>), MC_Node(11, "text", <<gamma>>)>>,
   <<MC_Node(0, "html", <<>>), MC_Node(1, "head", <<>>), MC_Node(2, "text", <<beta>>),
     MC_Node(1, "frameset", <<>>)>>}
=============================================================================
