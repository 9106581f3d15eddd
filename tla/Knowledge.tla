----------------------------- MODULE Knowledge -----------------------------
(***************************************************************************)
(* Knowledge::retrieve of crates/milona-knowledge/src/lib.rs: one search   *)
(* and then one graph traversal per hit, each an await of its own, while   *)
(* other requests retrieve and ingestion writes to the two stores.         *)
(*                                                                         *)
(* The stores are what their traits promise: the vector store answers as   *)
(* module TenantStore says and the graph store as module TenantGraph.      *)
(* Chunk ids are generated once (ChunkId::new), so a chunk has one tenant, *)
(* one document and one embedding; `stored` says which are in the store.   *)
(***************************************************************************)
EXTENDS Integers, FiniteSets, Sequences, SequencesExt, TenantGraph

CONSTANTS
  Tasks,              \* the retrievals that can be in progress together
  Tenants, ChunkIds, DocumentIds,
  OtherNodes,         \* graph nodes that are not the node of a chunk
  OwnerOf, DocumentOf,
  Similarity,         \* of each chunk's embedding and the question's
  Readers,            \* the tenants AuthzPolicy::can_read lets read
  TopK,               \* top_k
  Depth,              \* graph_traversal_depth
  Exact,              \* TRUE for an exhaustive search, FALSE for an ANN index
  TraversalSupport,   \* what GraphStore::supports_traversal can be
  MayFail,            \* the store calls that can fail
  MaxEdges            \* bound on the number of edges

ASSUME KnowledgeAssumption ==
  /\ OwnerOf \in [ChunkIds -> Tenants]
  /\ DocumentOf \in [ChunkIds -> DocumentIds]
  /\ Similarity \in [ChunkIds -> Int]
  /\ TopK \in Nat /\ Depth \in Nat /\ MaxEdges \in Nat
  /\ Exact \in BOOLEAN /\ TraversalSupport \subseteq BOOLEAN
  /\ MayFail \subseteq {"search", "traverse"}

VARIABLES
  supports_traversal,  \* of the graph store Knowledge::new was given
  stored,   \* the chunks in the vector store
  edges,    \* the graph store
  pc,       \* where each task is in retrieve
  tenant,   \* ctx.tenant_id
  matches,  \* the hits of the search
  items,    \* the RetrievedItems built so far
  began     \* history: the tenant's chunks and the edges as the search saw them

storeVars == <<stored, edges>>
callVars == <<pc, tenant, matches, items, began>>
vars == <<supports_traversal, stored, edges, pc, tenant, matches, items, began>>

Nodes == ChunkIds \cup OtherNodes
Edge == [tenant_id : Tenants, from : Nodes, to : Nodes]

Ended == {"idle", "done", "unauthorized", "failed"}
Running == {"search", "traverse"}

(* chunk_id_as_node: the Debug text of the id, one node for each chunk.    *)
chunk_id_as_node(c) == c

\* Mutant: the chunks of all tenants.
ChunksOf_Everybody(t) == stored

ChunksOf(t) == {c \in stored : OwnerOf[c] = t}

SimilarityTo(question, c) == Similarity[c]

Vectors == INSTANCE TenantStore WITH
  chunks <- [t \in Tenants |-> [c \in ChunksOf(t) |->
               [document_id |-> DocumentOf[c], embedding |-> c]]],
  answer <- [kind |-> "none"],
  Embeddings <- ChunkIds, Queries <- {"question"}, Score <- SimilarityTo

-----------------------------------------------------------------------------
Init ==
  /\ supports_traversal \in TraversalSupport
  /\ stored = {}
  /\ edges = <<>>
  /\ pc = [c \in Tasks |-> "idle"]
  /\ tenant \in [Tasks -> Tenants]
  /\ matches = [c \in Tasks |-> <<>>]
  /\ items = [c \in Tasks |-> <<>>]
  /\ began = [c \in Tasks |-> [chunks |-> {}, edges |-> 0]]

Goto(c, label) == pc' = [pc EXCEPT ![c] = label]

(* retrieve, up to its first await: the policy is asked about the caller's *)
(* own tenant.                                                             *)
retrieve(c, t) ==
  /\ pc[c] \in Ended
  /\ tenant' = [tenant EXCEPT ![c] = t]
  /\ matches' = [matches EXCEPT ![c] = <<>>]
  /\ items' = [items EXCEPT ![c] = <<>>]
  /\ began' = [began EXCEPT ![c] = [chunks |-> {}, edges |-> 0]]
  /\ Goto(c, IF t \in Readers THEN "search" ELSE "unauthorized")
  /\ UNCHANGED storeVars

\* Mutant: the loop is entered without a hit.
SearchSucceeds_NoHits(c) ==
  /\ pc[c] = "search"
  /\ \E hits \in SeqOf(ChunksOf(tenant[c]), TopK) :
       /\ Vectors!IsRanking(tenant[c], "question", TopK, hits)
       /\ matches' = [matches EXCEPT ![c] = hits]
       /\ Goto(c, "traverse")
  /\ began' = [began EXCEPT ![c] = [chunks |-> ChunksOf(tenant[c]), edges |-> Len(edges)]]
  /\ UNCHANGED <<stored, edges, tenant, items>>

SearchSucceeds(c) ==
  /\ pc[c] = "search"
  /\ \E hits \in SeqOf(ChunksOf(tenant[c]), TopK) :
       /\ Vectors!IsRanking(tenant[c], "question", TopK, hits)
       /\ matches' = [matches EXCEPT ![c] = hits]
       /\ Goto(c, IF hits = <<>> THEN "done" ELSE "traverse")
  /\ began' = [began EXCEPT ![c] = [chunks |-> ChunksOf(tenant[c]), edges |-> Len(edges)]]
  /\ UNCHANGED <<stored, edges, tenant, items>>

(* The search's error is retrieve's error.                                 *)
SearchFails(c) ==
  /\ pc[c] = "search" /\ "search" \in MayFail
  /\ Goto(c, "failed")
  /\ UNCHANGED <<stored, edges, tenant, matches, items, began>>

NextMatch(c) == matches[c][Len(items[c]) + 1]

PushItem(c, related, how) ==
  /\ items' = [items EXCEPT ![c] = Append(@,
                 [chunk_id |-> NextMatch(c), related_edges |-> related, graph |-> how])]
  /\ Goto(c, IF Len(items[c]) + 1 = Len(matches[c]) THEN "done" ELSE "traverse")
  /\ UNCHANGED <<stored, edges, tenant, matches, began>>

\* Mutant: the walk always starts at the best hit.
TraverseMatch_First(c) ==
  /\ pc[c] = "traverse" /\ supports_traversal
  /\ PushItem(c, Traversed(edges, tenant[c], chunk_id_as_node(matches[c][1]), Depth), "traversed")

TraverseMatch(c) ==
  /\ pc[c] = "traverse" /\ supports_traversal
  /\ PushItem(c, Traversed(edges, tenant[c], chunk_id_as_node(NextMatch(c)), Depth), "traversed")

\* Mutant: `continue` on an error, so that the hit is lost.
TraversalFails_Skip(c) ==
  /\ pc[c] = "traverse" /\ supports_traversal /\ "traverse" \in MayFail
  /\ matches' = [matches EXCEPT ![c] = RemoveAt(@, Len(items[c]) + 1)]
  /\ Goto(c, IF Len(items[c]) + 1 = Len(matches[c]) THEN "done" ELSE "traverse")
  /\ UNCHANGED <<stored, edges, tenant, items, began>>

(* A failed traversal is logged and its item has no edges.                 *)
TraversalFails(c) ==
  /\ pc[c] = "traverse" /\ supports_traversal /\ "traverse" \in MayFail
  /\ PushItem(c, {}, "failed")

NoTraversal(c) ==
  /\ pc[c] = "traverse" /\ ~supports_traversal
  /\ PushItem(c, {}, "unsupported")

Step(c) ==
  \/ SearchSucceeds(c) \/ SearchFails(c)
  \/ TraverseMatch(c) \/ TraversalFails(c) \/ NoTraversal(c)

(* The caller's future is dropped at an await.                             *)
Drop(c) ==
  /\ pc[c] \in Running
  /\ Goto(c, "idle")
  /\ matches' = [matches EXCEPT ![c] = <<>>]
  /\ items' = [items EXCEPT ![c] = <<>>]
  /\ began' = [began EXCEPT ![c] = [chunks |-> {}, edges |-> 0]]
  /\ UNCHANGED <<stored, edges, tenant>>

(* The writers of the two stores.                                          *)
upsert(c) ==
  /\ stored' = stored \cup {c}
  /\ UNCHANGED edges /\ UNCHANGED callVars

delete_document(t, d) ==
  /\ stored' = {c \in stored : ~(OwnerOf[c] = t /\ DocumentOf[c] = d)}
  /\ UNCHANGED edges /\ UNCHANGED callVars

add_edge(edge) ==
  /\ Len(edges) < MaxEdges
  /\ edges' = Append(edges, edge)
  /\ UNCHANGED stored /\ UNCHANGED callVars

Write ==
  \/ \E c \in ChunkIds : upsert(c)
  \/ \E t \in Tenants, d \in DocumentIds : delete_document(t, d)
  \/ \E edge \in Edge : add_edge(edge)

Next ==
  /\ \/ \E c \in Tasks, t \in Tenants : retrieve(c, t)
     \/ \E c \in Tasks : Step(c) \/ Drop(c)
     \/ Write
  /\ UNCHANGED supports_traversal

Spec == Init /\ [][Next]_vars

-----------------------------------------------------------------------------
(* Correctness.                                                            *)

Item == [chunk_id : ChunkIds, related_edges : SUBSET (1..Len(edges)),
         graph : {"traversed", "failed", "unsupported"}]

(* Every variable has its type; the items never outnumber the matches, and *)
(* a traversal is in progress only for a match that is left.               *)
TypeOK ==
  /\ supports_traversal \in TraversalSupport
  /\ stored \subseteq ChunkIds
  /\ edges \in Seq(Edge)
  /\ pc \in [Tasks -> Ended \cup Running]
  /\ tenant \in [Tasks -> Tenants]
  /\ matches \in [Tasks -> Seq(ChunkIds)]
  /\ items \in [Tasks -> Seq(Item)]
  /\ began \in [Tasks -> [chunks : SUBSET ChunkIds, edges : 0..Len(edges)]]
  /\ \A c \in Tasks :
       /\ Len(items[c]) <= Len(matches[c])
       /\ pc[c] = "search" => matches[c] = <<>>
       /\ pc[c] = "traverse" => Len(items[c]) < Len(matches[c])
       /\ pc[c] = "done" => Len(items[c]) = Len(matches[c])

(* The answer of a retrieval is the ranking of what the tenant had stored  *)
(* at one moment of the retrieval (lib.rs:95-120): best first, no chunk    *)
(* twice, top_k of them or all there were, whatever is stored or purged    *)
(* while the graph is walked and whichever traversals fail.                *)
EveryHitIsReturned ==
  \A c \in Tasks :
    pc[c] = "done" =>
      LET found == {items[c][i].chunk_id : i \in DOMAIN items[c]}
      IN  /\ found \subseteq began[c].chunks
          /\ \A i, j \in DOMAIN items[c] :
               i < j => /\ items[c][i].chunk_id # items[c][j].chunk_id
                        /\ Similarity[items[c][i].chunk_id] >= Similarity[items[c][j].chunk_id]
          /\ Exact => Len(items[c]) = IF TopK < Cardinality(began[c].chunks)
                                      THEN TopK ELSE Cardinality(began[c].chunks)

(* The edges of an item were read at some moment of the retrieval          *)
(* (lib.rs:102-110): all that were within reach of its chunk when the      *)
(* search ran are there, and nothing that is out of reach now; edges that  *)
(* are added while the items are built may be in one item and not another. *)
EdgesBracketed ==
  \A c \in Tasks : \A i \in DOMAIN items[c] :
    items[c][i].graph = "traversed" =>
      LET node == chunk_id_as_node(items[c][i].chunk_id)
          before == SubSeq(edges, 1, began[c].edges)
      IN  /\ Traversed(before, tenant[c], node, Depth) \subseteq items[c][i].related_edges
          /\ items[c][i].related_edges \subseteq Traversed(edges, tenant[c], node, Depth)

(* Whatever tenants write and read at the same time, everything a          *)
(* retrieval collects is its caller's (lib.rs:74-76).                      *)
OwnDataOnly ==
  \A c \in Tasks :
    /\ \A i \in DOMAIN matches[c] : OwnerOf[matches[c][i]] = tenant[c]
    /\ \A i \in DOMAIN items[c] :
         /\ OwnerOf[items[c][i].chunk_id] = tenant[c]
         /\ \A k \in items[c][i].related_edges : edges[k].tenant_id = tenant[c]
=============================================================================
