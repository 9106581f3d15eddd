-------------------------- MODULE MongoGraphStore ---------------------------
(***************************************************************************)
(* crates/milona-storage/src/mongo/graph.rs: edges of all tenants in one   *)
(* collection, and traverse as a $graphLookup aggregation.                 *)
(*                                                                         *)
(* The server is external.  As its manual has it, $graphLookup queries the *)
(* collection once per depth for the documents that match the restriction  *)
(* and leave a value met at the depth before, collects each document once  *)
(* and goes on until maxDepth or until it meets no new value.  It is not   *)
(* isolated from insertions: each query sees the collection as it is.      *)
(***************************************************************************)
EXTENDS Integers, Sequences, TenantGraph

CONSTANTS
  Tasks,              \* the traversals that can be in progress together
  Tenants, Nodes,
  Depths,             \* the values of max_depth
  SupportsTraversal,  \* MongoBackend::supports_graph_traversal
  MaxEdges            \* bound on the number of edges

ASSUME MongoGraphAssumption ==
  /\ Depths \subseteq Nat /\ MaxEdges \in Nat /\ SupportsTraversal \in BOOLEAN

VARIABLES
  edges,     \* the collection, in the order of insertion
  call,      \* the arguments of each task's traverse
  pc,        \* where it is in it
  hop,       \* the depth the server has to query next
  frontier,  \* the values it queries
  met,       \* the values it has queried or is to query
  path,      \* the positions of the documents collected
  began      \* history: the number of edges when the traversal was called

callVars == <<call, pc, hop, frontier, met, path, began>>
vars == <<edges, call, pc, hop, frontier, met, path, began>>

EdgeDocument == [tenant_id : Tenants, from : Nodes, to : Nodes]
Call == [tenant_id : Tenants, start_node : Nodes, max_depth : Depths]

-----------------------------------------------------------------------------
Init ==
  /\ edges = <<>>
  /\ call \in [Tasks -> Call]
  /\ pc = [c \in Tasks |-> "idle"]
  /\ hop = [c \in Tasks |-> 0]
  /\ frontier = [c \in Tasks |-> {}]
  /\ met = [c \in Tasks |-> {}]
  /\ path = [c \in Tasks |-> {}]
  /\ began = [c \in Tasks |-> 0]

Goto(c, label) == pc' = [pc EXCEPT ![c] = label]

add_edge(document) ==
  /\ Len(edges) < MaxEdges
  /\ edges' = Append(edges, document)
  /\ UNCHANGED callVars

(* traverse, up to the aggregation: the start node is its seed.            *)
traverse(c, args) ==
  /\ pc[c] # "lookup"
  /\ call' = [call EXCEPT ![c] = args]
  /\ Goto(c, IF SupportsTraversal THEN "lookup" ELSE "unsupported")
  /\ hop' = [hop EXCEPT ![c] = 0]
  /\ frontier' = [frontier EXCEPT ![c] = {args.start_node}]
  /\ met' = [met EXCEPT ![c] = {args.start_node}]
  /\ path' = [path EXCEPT ![c] = {}]
  /\ began' = [began EXCEPT ![c] = Len(edges)]
  /\ UNCHANGED edges

\* Mutant: maxDepth counted as the in-memory store counts max_depth.
maxDepth_NoSub(c) == call[c].max_depth

(* maxDepth: max_depth.saturating_sub(1), the first query being depth 0.   *)
maxDepth(c) == IF call[c].max_depth = 0 THEN 0 ELSE call[c].max_depth - 1

\* Mutant: no restrictSearchWithMatch.
Found_AnyTenant(c) == {i \in 1..Len(edges) : edges[i].from \in frontier[c]}

(* One query: restrictSearchWithMatch and connectToField.                  *)
Found(c) == Leaving(edges, call[c].tenant_id, frontier[c])

NewValues(c) == {edges[i].to : i \in Found(c)} \ met[c]

Collect(c) ==
  /\ path' = [path EXCEPT ![c] = @ \cup Found(c)]
  /\ UNCHANGED <<edges, call, began>>

Hop(c) ==
  /\ pc[c] = "lookup"
  /\ hop[c] < maxDepth(c) /\ NewValues(c) # {}
  /\ Collect(c)
  /\ hop' = [hop EXCEPT ![c] = @ + 1]
  /\ frontier' = [frontier EXCEPT ![c] = NewValues(c)]
  /\ met' = [met EXCEPT ![c] = @ \cup NewValues(c)]
  /\ UNCHANGED pc

(* The last query; $unwind, $replaceRoot and the cursor hand its documents *)
(* on as they are.                                                         *)
LastHop(c) ==
  /\ pc[c] = "lookup"
  /\ hop[c] = maxDepth(c) \/ NewValues(c) = {}
  /\ Collect(c)
  /\ Goto(c, "ok")
  /\ UNCHANGED <<hop, frontier, met>>

(* The aggregation or its cursor fails: nothing is returned.               *)
Disconnect(c) ==
  /\ pc[c] = "lookup"
  /\ Goto(c, "error")
  /\ path' = [path EXCEPT ![c] = {}]
  /\ UNCHANGED <<edges, call, hop, frontier, met, began>>

Next ==
  \/ \E document \in EdgeDocument : add_edge(document)
  \/ \E c \in Tasks :
       \/ \E args \in Call : traverse(c, args)
       \/ Hop(c) \/ LastHop(c) \/ Disconnect(c)

Spec == Init /\ [][Next]_vars

-----------------------------------------------------------------------------
(* Correctness.                                                            *)

(* Every variable has its type; the server never queries beyond maxDepth.  *)
TypeOK ==
  /\ edges \in Seq(EdgeDocument)
  /\ call \in [Tasks -> Call]
  /\ pc \in [Tasks -> {"idle", "lookup", "ok", "error", "unsupported"}]
  /\ frontier \in [Tasks -> SUBSET Nodes] /\ met \in [Tasks -> SUBSET Nodes]
  /\ \A c \in Tasks :
       /\ frontier[c] \subseteq met[c]
       /\ path[c] \subseteq 1..Len(edges) /\ began[c] \in 0..Len(edges)
       /\ hop[c] \in Nat
       /\ hop[c] = 0 \/ hop[c] < call[c].max_depth

(* What a traversal answers lies between what the contract asks of the     *)
(* graph as it was when the traversal was called and as it is now, though  *)
(* edges are added between the server's queries (graph.rs:103-126): no     *)
(* edge that was within reach is missed.  Depth 0 is served as depth 1.    *)
TraversalBracketed ==
  \A c \in Tasks :
    pc[c] = "ok" =>
      LET depth == IF call[c].max_depth = 0 THEN 1 ELSE call[c].max_depth
          reached(seen) == Traversed(seen, call[c].tenant_id, call[c].start_node, depth)
      IN  /\ reached(SubSeq(edges, 1, began[c])) \subseteq path[c]
          /\ path[c] \subseteq reached(edges)
=============================================================================
