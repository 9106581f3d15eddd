--------------------------- MODULE GraphTraverse ---------------------------
(***************************************************************************)
(* InMemoryGraphStore of crates/milona-storage/src/memory.rs: a Vec of     *)
(* edges shared by all tenants behind one Mutex, and the bounded           *)
(* breadth-first walk of `traverse`, one action per turn of its innermost  *)
(* loop.  The walk holds the lock from its first line to its last, so no   *)
(* edge is added while pc = "walk".                                        *)
(*                                                                         *)
(* An edge is identified by its position in the Vec: the store keeps       *)
(* duplicates.  Edge labels (`relation`) play no part and are left out.    *)
(***************************************************************************)
EXTENDS Integers, Sequences, FiniteSets, TenantGraph

CONSTANTS
  Tenants, Nodes,
  Depths,       \* the max_depth values asked for
  MaxEdges      \* bound on the number of edges

ASSUME DepthAssumption == Depths \subseteq Nat

VARIABLES
  edges,          \* InMemoryGraphStore.edges
  pc,             \* "idle", "walk", "done"
  tenant,         \* ctx.tenant_id of the traversal
  start_node, max_depth,
  round,          \* the turn of `for _ in 0..max_depth`, from 1
  frontier, next_frontier,
  n,              \* the position in frontier
  e,              \* the position in edges
  visited,
  result          \* positions of the edges pushed so far

walkVars == <<pc, tenant, start_node, max_depth, round, frontier, next_frontier,
              n, e, visited, result>>
vars == <<edges, pc, tenant, start_node, max_depth, round, frontier, next_frontier,
          n, e, visited, result>>

StoredEdge == [tenant_id : Tenants, from : Nodes, to : Nodes]

Elements(s) == {s[i] : i \in 1..Len(s)}

-----------------------------------------------------------------------------
Init ==
  /\ edges = <<>>
  /\ pc = "idle"
  /\ tenant \in Tenants /\ start_node \in Nodes /\ max_depth \in Depths
  /\ round = 1 /\ n = 1 /\ e = 1
  /\ frontier = <<>> /\ next_frontier = <<>>
  /\ visited = {}
  /\ result = <<>>

add_edge(edge) ==
  /\ pc = "idle" /\ Len(edges) < MaxEdges
  /\ edges' = Append(edges, edge)
  /\ UNCHANGED walkVars

(* `traverse` up to its loop; with max_depth = 0 the loop does not run.    *)
traverse(t, s, d) ==
  /\ pc = "idle"
  /\ pc' = IF d = 0 THEN "done" ELSE "walk"
  /\ tenant' = t /\ start_node' = s /\ max_depth' = d
  /\ round' = 1 /\ n' = 1 /\ e' = 1
  /\ frontier' = <<s>> /\ next_frontier' = <<>>
  /\ visited' = {s}
  /\ result' = <<>>
  /\ UNCHANGED edges

\* Mutant: no tenant filter in the walk.
Leaves_AnyTenant(node, i) == edges[i].from = node

(* Edge i is one of the tenant's edges out of node (memory.rs:132-136,     *)
(* 146).                                                                   *)
Leaves(node, i) == edges[i].tenant_id = tenant /\ edges[i].from = node

Scanning == pc = "walk" /\ n <= Len(frontier) /\ e <= Len(edges)

\* Mutant: an edge to a visited node is dropped like a visited node.
FollowToVisited_Dropped ==
  /\ Scanning /\ Leaves(frontier[n], e) /\ edges[e].to \in visited
  /\ e' = e + 1
  /\ UNCHANGED <<edges, pc, tenant, start_node, max_depth, round, frontier,
                 next_frontier, n, visited, result>>

FollowToVisited ==
  /\ Scanning /\ Leaves(frontier[n], e) /\ edges[e].to \in visited
  /\ result' = Append(result, e)
  /\ e' = e + 1
  /\ UNCHANGED <<edges, pc, tenant, start_node, max_depth, round, frontier,
                 next_frontier, n, visited>>

\* Mutant: the node is queued but not marked.
FollowToNew_Unmarked ==
  /\ Scanning /\ Leaves(frontier[n], e) /\ edges[e].to \notin visited
  /\ result' = Append(result, e)
  /\ next_frontier' = Append(next_frontier, edges[e].to)
  /\ e' = e + 1
  /\ UNCHANGED <<edges, pc, tenant, start_node, max_depth, round, frontier, n, visited>>

FollowToNew ==
  /\ Scanning /\ Leaves(frontier[n], e) /\ edges[e].to \notin visited
  /\ result' = Append(result, e)
  /\ visited' = visited \cup {edges[e].to}
  /\ next_frontier' = Append(next_frontier, edges[e].to)
  /\ e' = e + 1
  /\ UNCHANGED <<edges, pc, tenant, start_node, max_depth, round, frontier, n>>

Skip ==
  /\ Scanning /\ ~Leaves(frontier[n], e)
  /\ e' = e + 1
  /\ UNCHANGED <<edges, pc, tenant, start_node, max_depth, round, frontier,
                 next_frontier, n, visited, result>>

NextNode ==
  /\ pc = "walk" /\ n <= Len(frontier) /\ e > Len(edges)
  /\ n' = n + 1 /\ e' = 1
  /\ UNCHANGED <<edges, pc, tenant, start_node, max_depth, round, frontier,
                 next_frontier, visited, result>>

(* The early `break` of a round that met no new node.                      *)
Break ==
  /\ pc = "walk" /\ n > Len(frontier) /\ next_frontier = <<>>
  /\ pc' = "done"
  /\ UNCHANGED <<edges, tenant, start_node, max_depth, round, frontier,
                 next_frontier, n, e, visited, result>>

\* Mutant: the rounds counted from zero to max_depth inclusive.
LastRound_Inclusive == round = max_depth + 1

LastRound == round = max_depth

NextRound ==
  /\ pc = "walk" /\ n > Len(frontier) /\ next_frontier # <<>>
  /\ frontier' = next_frontier /\ next_frontier' = <<>>
  /\ n' = 1 /\ e' = 1
  /\ pc' = IF LastRound THEN "done" ELSE "walk"
  /\ round' = IF LastRound THEN round ELSE round + 1
  /\ UNCHANGED <<edges, tenant, start_node, max_depth, visited, result>>

(* The answer is returned and the lock released.                           *)
Return ==
  /\ pc = "done"
  /\ pc' = "idle"
  /\ round' = 1 /\ n' = 1 /\ e' = 1
  /\ frontier' = <<>> /\ next_frontier' = <<>>
  /\ visited' = {} /\ result' = <<>>
  /\ UNCHANGED <<edges, tenant, start_node, max_depth>>

Walk ==
  FollowToVisited \/ FollowToNew \/ Skip \/ NextNode \/ Break \/ NextRound

Next ==
  \/ \E edge \in StoredEdge : add_edge(edge)
  \/ \E t \in Tenants, s \in Nodes, d \in Depths : traverse(t, s, d)
  \/ Walk
  \/ Return

Spec == Init /\ [][Next]_vars

-----------------------------------------------------------------------------
(* Correctness.                                                            *)

(* Every variable has its type; the walk's positions stay inside the       *)
(* vectors they index, and a walk makes at most max_depth rounds.          *)
TypeOK ==
  /\ edges \in Seq(StoredEdge)
  /\ pc \in {"idle", "walk", "done"}
  /\ tenant \in Tenants /\ start_node \in Nodes /\ max_depth \in Depths
  /\ round \in Nat /\ (pc = "walk" => round \in 1..max_depth)
  /\ frontier \in Seq(Nodes) /\ next_frontier \in Seq(Nodes)
  /\ n \in 1..(Len(frontier) + 1)
  /\ e \in 1..(Len(edges) + 1)
  /\ visited \subseteq Nodes
  /\ result \in Seq(1..Len(edges))

(* A finished traversal returns exactly the tenant's edges that leave a    *)
(* node less than max_depth steps from the start (memory.rs:101-103),      *)
(* whatever cycles, duplicates and foreign edges the Vec holds.            *)
TraversalExact ==
  pc = "done" => Elements(result) = Traversed(edges, tenant, start_node, max_depth)

(* The walk visits a node once, so no stored edge is returned twice        *)
(* (memory.rs:148).                                                        *)
EachEdgeOnce ==
  \A i, j \in 1..Len(result) : result[i] = result[j] => i = j

(* A set of nodes that no edge of the tenant leaves.                       *)
Closed(t, C) ==
  \A i \in 1..Len(edges) :
    edges[i].tenant_id = t /\ edges[i].from \in C => edges[i].to \in C

(* Tenant isolation of the walk (memory.rs:130-131): every edge returned   *)
(* is the tenant's own and starts at a node the tenant's own edges reach;  *)
(* another tenant's edges never extend the walk.                           *)
ResultReachable ==
  \A C \in SUBSET Nodes :
    start_node \in C /\ Closed(tenant, C) =>
      \A i \in Elements(result) : edges[i].tenant_id = tenant /\ edges[i].from \in C

(* The early break (memory.rs:153-155) loses nothing: the nodes visited by *)
(* then have no edge of the tenant out of them that was not returned.      *)
BreakIsComplete ==
  pc = "done" /\ n > Len(frontier) =>
    /\ Closed(tenant, visited)
    /\ \A i \in 1..Len(edges) :
         edges[i].tenant_id = tenant /\ edges[i].from \in visited => i \in Elements(result)

(* A cycle does not keep the walk going when max_depth would let it        *)
(* (memory.rs:148-155): every round but the first has met a new node, so   *)
(* the rounds are bounded by the nodes seen and not by max_depth.          *)
RoundsBounded == pc \in {"walk", "done"} => round <= Cardinality(visited)

(* What a caller may rely on whatever the graph and max_depth are          *)
(* (memory.rs:123-160): the walk is the tenant's own, returns an edge      *)
(* once, misses none when it stops early, and is bounded by what it meets. *)
WalkSound == EachEdgeOnce /\ ResultReachable /\ BreakIsComplete /\ RoundsBounded
=============================================================================
