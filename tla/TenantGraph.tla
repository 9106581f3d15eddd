---------------------------- MODULE TenantGraph ----------------------------
(***************************************************************************)
(* What the GraphStore trait (crates/milona-core/src/traits.rs:60-87)      *)
(* promises of a traversal, as operators on a sequence of edges shared by  *)
(* all tenants.  An edge is identified by its position in the sequence.    *)
(***************************************************************************)
EXTENDS Integers, Sequences

(* The positions of the edges of tenant t that leave a node of S.          *)
Leaving(edges, t, S) ==
  {i \in 1..Len(edges) : edges[i].tenant_id = t /\ edges[i].from \in S}

(* The nodes within k steps of s along the edges of tenant t.              *)
Within(edges, t, s, k) ==
  LET W[j \in 0..k] ==
        IF j = 0 THEN {s} ELSE W[j - 1] \cup {edges[i].to : i \in Leaving(edges, t, W[j - 1])}
  IN  W[k]

(* The answer of `traverse`: the edges met within max_depth steps.         *)
Traversed(edges, t, s, max_depth) ==
  IF max_depth = 0 THEN {} ELSE Leaving(edges, t, Within(edges, t, s, max_depth - 1))
=============================================================================
