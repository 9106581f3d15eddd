------------------------ MODULE GraphTraverseProofs ------------------------
(***************************************************************************)
(* Proofs about GraphTraverse, for every graph, every set of tenants and   *)
(* every max_depth.                                                        *)
(***************************************************************************)
EXTENDS GraphTraverse, OperatorLemmas, FiniteSetTheorems

InWalk == pc \in {"walk", "done"}

(* Where the walk has been: inside every closed set around the start.      *)
ReachInv ==
  /\ pc = "idle" => result = <<>>
  /\ InWalk =>
       /\ start_node \in visited
       /\ \A j \in 1..Len(frontier) : frontier[j] \in visited
       /\ \A j \in 1..Len(next_frontier) : next_frontier[j] \in visited
       /\ \A k \in 1..Len(result) : /\ edges[result[k]].tenant_id = tenant
                                    /\ edges[result[k]].from \in visited
                                    /\ edges[result[k]].to \in visited
       /\ \A C \in SUBSET Nodes :
            start_node \in C /\ Closed(tenant, C) => visited \subseteq C

(* Edge i, out of a visited node, is still to be scanned.                  *)
Waiting(i) ==
  \/ \E j \in 1..Len(next_frontier) : next_frontier[j] = edges[i].from
  \/ \E j \in n..Len(frontier) : frontier[j] = edges[i].from /\ (j = n => e <= i)

Returned(i) == \E k \in 1..Len(result) : result[k] = i

CompleteInv ==
  /\ InWalk =>
       \A i \in 1..Len(edges) :
         edges[i].tenant_id = tenant /\ edges[i].from \in visited
           => Returned(i) \/ Waiting(i)
  /\ pc = "done" /\ n > Len(frontier) => next_frontier = <<>>

(* A node is queued once, and its edges are returned while it is scanned.  *)
OnceInv ==
  InWalk =>
    /\ \A i, j \in 1..Len(frontier) : frontier[i] = frontier[j] => i = j
    /\ \A i, j \in 1..Len(next_frontier) : next_frontier[i] = next_frontier[j] => i = j
    /\ \A k \in 1..Len(result), j \in 1..Len(frontier) :
         edges[result[k]].from = frontier[j] => j < n \/ (j = n /\ result[k] < e)
    /\ \A k \in 1..Len(result), j \in 1..Len(next_frontier) :
         edges[result[k]].from # next_frontier[j]
    /\ \A i \in 1..Len(frontier), j \in 1..Len(next_frontier) :
         frontier[i] # next_frontier[j]
    /\ EachEdgeOnce

(* Each round but the first was queued by a node that was new.             *)
RoundInv ==
  InWalk =>
    /\ IsFiniteSet(visited)
    /\ round <= Cardinality(visited)
    /\ next_frontier # <<>> => round + 1 <= Cardinality(visited)

(* The nodes within k steps of the start, for the walk under way.          *)
Layer(k) == Within(edges, tenant, start_node, k)

(* Round r starts with the nodes within r - 1 steps visited, takes edges   *)
(* out of those only, and queues the nodes that are exactly r steps away.  *)
LayerInv ==
  /\ pc = "walk" =>
       /\ Layer(round - 1) \subseteq visited /\ visited \subseteq Layer(round)
       /\ \A j \in 1..Len(frontier) : frontier[j] \in Layer(round - 1)
       /\ \A j \in 1..Len(next_frontier) : next_frontier[j] \notin Layer(round - 1)
       /\ \A v \in visited :
            \/ v \in Layer(round - 1)
            \/ \E j \in 1..Len(next_frontier) : next_frontier[j] = v
       /\ \A k \in 1..Len(result) : edges[result[k]].from \in Layer(round - 1)
  /\ TraversalExact

-----------------------------------------------------------------------------

(***************************************************************************)
(* The two steps that push an edge: what Append does to the vectors, once. *)
(***************************************************************************)
LEMMA AppendFacts ==
  ASSUME NEW S, NEW s \in Seq(S), NEW x \in S
  PROVE  /\ Append(s, x) \in Seq(S)
         /\ Len(Append(s, x)) = Len(s) + 1
         /\ \A k \in 1..Len(s) : Append(s, x)[k] = s[k]
         /\ Append(s, x)[Len(s) + 1] = x
         /\ \A k \in 1..Len(Append(s, x)) : k \in 1..Len(s) \/ k = Len(s) + 1
  OBVIOUS

PushFacts ==
  /\ pc = "walk" /\ pc' = "walk"
  /\ edges[e].tenant_id = tenant /\ edges[e].from = frontier[n]
  /\ n \in 1..Len(frontier) /\ e \in 1..Len(edges) /\ e' = e + 1
  /\ Len(frontier) \in Nat /\ Len(edges) \in Nat /\ Len(result) \in Nat
  /\ result' \in Seq(1..Len(edges))
  /\ Len(result') = Len(result) + 1
  /\ \A k \in 1..Len(result) : result'[k] = result[k] /\ result[k] \in 1..Len(edges)
  /\ result'[Len(result) + 1] = e
  /\ \A k \in 1..Len(result') : k \in 1..Len(result) \/ k = Len(result) + 1
  /\ edges[e].to \in Nodes
  /\ edges' = edges /\ tenant' = tenant /\ start_node' = start_node
  /\ max_depth' = max_depth /\ round' = round /\ frontier' = frontier /\ n' = n

LEMMA Pushed ==
  ASSUME TypeOK, FollowToVisited \/ FollowToNew
  PROVE  PushFacts
<1>1. /\ Scanning /\ Leaves(frontier[n], e) /\ result' = Append(result, e) /\ e' = e + 1
      /\ pc' = pc /\ edges' = edges /\ tenant' = tenant /\ start_node' = start_node
      /\ max_depth' = max_depth /\ round' = round /\ frontier' = frontier /\ n' = n
  BY DEF FollowToVisited, FollowToNew
<1>2. pc = "walk" /\ n \in 1..Len(frontier) /\ e \in 1..Len(edges)
  BY <1>1 DEF Scanning, TypeOK
<1>3. edges[e] \in StoredEdge
  BY <1>2 DEF TypeOK
<1>4. edges[e].to \in Nodes
  BY <1>3 DEF StoredEdge
<1>5. /\ result \in Seq(1..Len(edges)) /\ Len(result) \in Nat
      /\ Len(frontier) \in Nat /\ Len(edges) \in Nat
      /\ \A k \in 1..Len(result) : result[k] \in 1..Len(edges)
  BY DEF TypeOK
<1>6. edges[e].tenant_id = tenant /\ edges[e].from = frontier[n]
  BY <1>1 DEF Leaves
<1>7. /\ result' \in Seq(1..Len(edges)) /\ Len(result') = Len(result) + 1
      /\ \A k \in 1..Len(result) : result'[k] = result[k]
      /\ result'[Len(result) + 1] = e
      /\ \A k \in 1..Len(result') : k \in 1..Len(result) \/ k = Len(result) + 1
  BY <1>1, <1>2, <1>5, AppendFacts
<1> QED BY <1>1, <1>2, <1>4, <1>5, <1>6, <1>7 DEF PushFacts

QueueFacts ==
  /\ next_frontier' \in Seq(Nodes)
  /\ Len(next_frontier') = Len(next_frontier) + 1 /\ Len(next_frontier) \in Nat
  /\ \A k \in 1..Len(next_frontier) : next_frontier'[k] = next_frontier[k]
  /\ next_frontier'[Len(next_frontier) + 1] = edges[e].to
  /\ \A k \in 1..Len(next_frontier') :
       k \in 1..Len(next_frontier) \/ k = Len(next_frontier) + 1
  /\ edges[e].to \notin visited /\ visited' = visited \cup {edges[e].to}

LEMMA Queued ==
  ASSUME TypeOK, FollowToNew
  PROVE  QueueFacts
<1>1. edges[e].to \in Nodes
  BY Pushed DEF PushFacts
<1>2. /\ next_frontier' = Append(next_frontier, edges[e].to)
      /\ edges[e].to \notin visited /\ visited' = visited \cup {edges[e].to}
  BY DEF FollowToNew
<1>3. next_frontier \in Seq(Nodes) /\ Len(next_frontier) \in Nat
  BY DEF TypeOK
<1> QED BY <1>1, <1>2, <1>3, AppendFacts DEF QueueFacts

(* TypeOK depends on the walk's result being empty while edges are added.  *)
LEMMA TypeStep ==
  ASSUME TypeOK, ReachInv, [Next]_vars
  PROVE  TypeOK'
<1> USE DepthAssumption
<1>1. CASE UNCHANGED vars
  BY <1>1 DEF vars, TypeOK
<1>2. ASSUME NEW edge \in StoredEdge, add_edge(edge) PROVE TypeOK'
  BY <1>2 DEF add_edge, walkVars, ReachInv, TypeOK
<1>3. ASSUME NEW t \in Tenants, NEW s \in Nodes, NEW d \in Depths, traverse(t, s, d)
      PROVE  TypeOK'
  BY <1>3 DEF traverse, TypeOK
<1>4. CASE FollowToVisited
  BY <1>4, Pushed DEF FollowToVisited, TypeOK, PushFacts
<1>5. CASE FollowToNew
  <2>1. PushFacts /\ QueueFacts
    BY <1>5, Pushed, Queued
  <2>2. visited' \subseteq Nodes /\ next_frontier' \in Seq(Nodes)
    BY <2>1 DEF PushFacts, QueueFacts, TypeOK
  <2>3. e' \in 1..(Len(edges') + 1) /\ result' \in Seq(1..Len(edges'))
    BY <2>1 DEF PushFacts
  <2> QED BY <2>1, <2>2, <2>3 DEF PushFacts, TypeOK
<1>6. CASE Skip
  BY <1>6 DEF Skip, Scanning, TypeOK
<1>7. CASE NextNode
  BY <1>7 DEF NextNode, TypeOK
<1>8. CASE Break
  BY <1>8 DEF Break, TypeOK
<1>9. CASE NextRound
  BY <1>9 DEF NextRound, LastRound, TypeOK
<1>10. CASE Return
  BY <1>10 DEF Return, TypeOK
<1> QED
  BY <1>1, <1>2, <1>3, <1>4, <1>5, <1>6, <1>7, <1>8, <1>9, <1>10 DEF Next, Walk

(* Pushing edge e keeps the result inside what the walk has visited.       *)
ResultReached ==
  \A k \in 1..Len(result) : /\ edges[result[k]].tenant_id = tenant
                            /\ edges[result[k]].from \in visited
                            /\ edges[result[k]].to \in visited

LEMMA EdgeReached ==
  ASSUME PushFacts, ResultReached, visited \subseteq visited',
         edges[e].from \in visited, edges[e].to \in visited'
  PROVE  \A k \in 1..Len(result') : /\ edges'[result'[k]].tenant_id = tenant'
                                    /\ edges'[result'[k]].from \in visited'
                                    /\ edges'[result'[k]].to \in visited'
<1> SUFFICES ASSUME NEW k \in 1..Len(result')
             PROVE  /\ edges[result'[k]].tenant_id = tenant
                    /\ edges[result'[k]].from \in visited'
                    /\ edges[result'[k]].to \in visited'
  BY DEF PushFacts
<1>1. CASE k \in 1..Len(result)
  <2>1. result'[k] = result[k]
    BY <1>1 DEF PushFacts
  <2> QED BY <1>1, <2>1 DEF ResultReached
<1>2. CASE k = Len(result) + 1
  <2>1. result'[k] = e /\ edges[e].tenant_id = tenant
    BY <1>2 DEF PushFacts
  <2> QED BY <2>1
<1> QED BY <1>1, <1>2 DEF PushFacts

LEMMA ReachStep ==
  ASSUME TypeOK, ReachInv, [Next]_vars
  PROVE  ReachInv'
<1> USE DEF ReachInv, InWalk
<1>1. CASE UNCHANGED vars
  BY <1>1 DEF vars, Closed
<1>2. ASSUME NEW edge \in StoredEdge, add_edge(edge) PROVE ReachInv'
  BY <1>2 DEF add_edge, walkVars
<1>3. ASSUME NEW t \in Tenants, NEW s \in Nodes, NEW d \in Depths, traverse(t, s, d)
      PROVE  ReachInv'
  BY <1>3 DEF traverse
<1>4. CASE FollowToVisited
  <2>1. PushFacts
    BY <1>4, Pushed
  <2>2. visited' = visited /\ next_frontier' = next_frontier /\ edges[e].to \in visited
    BY <1>4 DEF FollowToVisited
  <2>3. \A C : Closed(tenant, C)' = Closed(tenant, C)
    BY <2>1 DEF Closed, PushFacts
  <2>4. ResultReached /\ edges[e].from \in visited
    BY <2>1 DEF PushFacts, ResultReached
  <2>5. \A k \in 1..Len(result') : /\ edges'[result'[k]].tenant_id = tenant'
                                   /\ edges'[result'[k]].from \in visited'
                                   /\ edges'[result'[k]].to \in visited'
    BY <2>1, <2>2, <2>4, EdgeReached
  <2>6. \A C \in SUBSET Nodes :
          start_node' \in C /\ Closed(tenant, C)' => visited' \subseteq C
    BY <2>1, <2>2, <2>3 DEF PushFacts
  <2>7. /\ \A j \in 1..Len(frontier') : frontier'[j] \in visited'
        /\ \A j \in 1..Len(next_frontier') : next_frontier'[j] \in visited'
        /\ start_node' \in visited' /\ pc' = "walk" /\ tenant' = tenant
    BY <2>1, <2>2 DEF PushFacts
  <2> QED BY <2>3, <2>5, <2>6, <2>7
<1>5. CASE FollowToNew
  <2>1. PushFacts /\ QueueFacts
    BY <1>5, Pushed, Queued
  <2>a. ResultReached
    BY <2>1 DEF PushFacts, ResultReached
  <2>2. edges[e].from \in visited
    BY <2>1 DEF PushFacts
  <2>3. \A C \in SUBSET Nodes :
          start_node \in C /\ Closed(tenant, C) => edges[e].to \in C
    BY <2>1, <2>2 DEF Closed, PushFacts
  <2>4. \A C : Closed(tenant, C)' = Closed(tenant, C)
    BY <2>1 DEF Closed, PushFacts
  <2>5. \A C \in SUBSET Nodes :
          start_node' \in C /\ Closed(tenant, C)' => visited' \subseteq C
    <3>1. start_node' = start_node /\ visited' = visited \cup {edges[e].to}
      BY <2>1 DEF PushFacts, QueueFacts
    <3>2. \A C \in SUBSET Nodes :
            start_node \in C /\ Closed(tenant, C) => visited \subseteq C
      BY <2>1 DEF PushFacts
    <3> QED BY <2>3, <2>4, <3>1, <3>2
  <2>6. \A k \in 1..Len(result') : /\ edges'[result'[k]].tenant_id = tenant'
                                   /\ edges'[result'[k]].from \in visited'
                                   /\ edges'[result'[k]].to \in visited'
    <3>1. visited \subseteq visited' /\ edges[e].to \in visited'
      BY <2>1 DEF QueueFacts
    <3> QED BY <2>1, <2>2, <2>a, <3>1, EdgeReached
  <2>7. \A j \in 1..Len(next_frontier') : next_frontier'[j] \in visited'
    BY <2>1 DEF PushFacts, QueueFacts
  <2>8. /\ pc' = "walk" /\ start_node' \in visited'
        /\ \A j \in 1..Len(frontier') : frontier'[j] \in visited'
    BY <2>1 DEF PushFacts, QueueFacts
  <2>9. tenant' = tenant
    BY <2>1 DEF PushFacts
  <2> QED BY <2>5, <2>6, <2>7, <2>8, <2>9
<1>6. CASE Skip
  BY <1>6 DEF Skip, Scanning, Closed
<1>7. CASE NextNode
  BY <1>7 DEF NextNode, Closed
<1>8. CASE Break
  BY <1>8 DEF Break, Closed
<1>9. CASE NextRound
  <2>1. frontier' = next_frontier /\ Len(next_frontier') = 0 /\ pc = "walk" /\ pc' # "idle"
    BY <1>9 DEF NextRound
  <2>2. /\ edges' = edges /\ tenant' = tenant /\ start_node' = start_node
        /\ visited' = visited /\ result' = result
    BY <1>9 DEF NextRound
  <2> QED BY <2>1, <2>2 DEF Closed
<1>10. CASE Return
  BY <1>10 DEF Return
<1> QED
  BY <1>1, <1>2, <1>3, <1>4, <1>5, <1>6, <1>7, <1>8, <1>9, <1>10 DEF Next, Walk

LEMMA StaysReturned ==
  ASSUME PushFacts, NEW i, Returned(i)
  PROVE  Returned(i)'
<1>1. PICK k \in 1..Len(result) : result[k] = i
  BY DEF Returned
<1>2. k \in 1..Len(result') /\ result'[k] = i
  BY <1>1 DEF PushFacts
<1> QED BY <1>2 DEF Returned

LEMMA CompleteStep ==
  ASSUME TypeOK, ReachInv, CompleteInv, [Next]_vars
  PROVE  CompleteInv'
<1> DEFINE Mine(i) == edges[i].tenant_id = tenant /\ edges[i].from \in visited
           Good == \A i \in 1..Len(edges) : Mine(i) => Returned(i) \/ Waiting(i)
<1>a. InWalk => Good
  BY DEF CompleteInv
<1>b. ASSUME pc' = "walk", Good' PROVE CompleteInv'
  BY <1>b DEF CompleteInv
<1>1. CASE UNCHANGED vars
  BY <1>1 DEF vars, CompleteInv, InWalk, Returned, Waiting
<1>2. ASSUME NEW edge \in StoredEdge, add_edge(edge) PROVE CompleteInv'
  BY <1>2 DEF add_edge, walkVars, CompleteInv, InWalk
<1>3. ASSUME NEW t \in Tenants, NEW s \in Nodes, NEW d \in Depths, traverse(t, s, d)
      PROVE  CompleteInv'
  <2>1. /\ edges' = edges /\ n' = 1 /\ e' = 1 /\ frontier' = <<s>> /\ next_frontier' = <<>>
        /\ visited' = {s} /\ Len(frontier') = 1 /\ Len(edges) \in Nat
    BY <1>3 DEF traverse, TypeOK
  <2>2. ASSUME NEW i \in 1..Len(edges), edges[i].from = s PROVE Waiting(i)'
    BY <2>1, <2>2 DEF Waiting
  <2>3. Good'
    BY <2>1, <2>2
  <2> QED BY <2>1, <2>3 DEF CompleteInv
<1>4. CASE FollowToVisited
  <2>1. PushFacts /\ next_frontier' = next_frontier /\ visited' = visited
    BY <1>4, Pushed DEF FollowToVisited
  <2>2. SUFFICES ASSUME NEW i \in 1..Len(edges), Mine(i)
                 PROVE  Returned(i)' \/ Waiting(i)'
    BY <2>1, <1>b DEF PushFacts
  <2>3. Returned(i) \/ Waiting(i)
    BY <1>a, <2>1, <2>2 DEF PushFacts, InWalk
  <2>4. CASE i = e
    BY <2>1, <2>4 DEF Returned, PushFacts
  <2>5. CASE Returned(i)
    BY <2>1, <2>5, StaysReturned
  <2>6. CASE i # e /\ Waiting(i)
    <3>1. CASE \E j \in 1..Len(next_frontier) : next_frontier[j] = edges[i].from
      BY <2>1, <3>1 DEF Waiting, PushFacts
    <3>2. CASE \E j \in n..Len(frontier) : frontier[j] = edges[i].from /\ (j = n => e <= i)
      BY <2>1, <2>6, <3>2 DEF Waiting, PushFacts
    <3> QED BY <2>6, <3>1, <3>2 DEF Waiting
  <2> QED BY <2>3, <2>4, <2>5, <2>6
<1>5. CASE FollowToNew
  <2>1. PushFacts /\ QueueFacts
    BY <1>5, Pushed, Queued
  <2>2. SUFFICES ASSUME NEW i \in 1..Len(edges),
                        edges[i].tenant_id = tenant, edges[i].from \in visited'
                 PROVE  Returned(i)' \/ Waiting(i)'
    BY <2>1, <1>b DEF PushFacts
  <2>3. CASE edges[i].from = edges[e].to
    <3>1. edges' = edges /\ Len(next_frontier) + 1 \in 1..Len(next_frontier')
      BY <2>1 DEF PushFacts, QueueFacts
    <3>2. next_frontier'[Len(next_frontier) + 1] = edges'[i].from
      BY <2>1, <2>3, <3>1 DEF QueueFacts
    <3> QED BY <3>1, <3>2 DEF Waiting
  <2>4. CASE edges[i].from # edges[e].to
    <3>1. Returned(i) \/ Waiting(i)
      BY <1>a, <2>1, <2>2, <2>4 DEF PushFacts, QueueFacts, InWalk
    <3>2. CASE i = e
      <4>1. Len(result) + 1 \in 1..Len(result') /\ result'[Len(result) + 1] = i
        BY <2>1, <3>2 DEF PushFacts
      <4> QED BY <4>1 DEF Returned
    <3>3. CASE Returned(i)
      BY <2>1, <3>3, StaysReturned
    <3>4. CASE \E j \in 1..Len(next_frontier) : next_frontier[j] = edges[i].from
      <4>1. PICK j \in 1..Len(next_frontier) : next_frontier[j] = edges[i].from
        BY <3>4
      <4>2. j \in 1..Len(next_frontier') /\ next_frontier'[j] = next_frontier[j]
        BY <2>1, <4>1 DEF QueueFacts
      <4>3. edges' = edges
        BY <2>1 DEF PushFacts
      <4> QED BY <4>1, <4>2, <4>3 DEF Waiting
    <3>5. CASE i # e /\ \E j \in n..Len(frontier) : frontier[j] = edges[i].from /\ (j = n => e <= i)
      BY <2>1, <3>5 DEF Waiting, PushFacts
    <3> QED BY <3>1, <3>2, <3>3, <3>4, <3>5 DEF Waiting
  <2> QED BY <2>3, <2>4
<1>6. CASE Skip
  <2>1. /\ pc = "walk" /\ pc' = "walk" /\ e' = e + 1 /\ e \in 1..Len(edges)
        /\ edges' = edges /\ tenant' = tenant /\ frontier' = frontier /\ n' = n
        /\ next_frontier' = next_frontier /\ visited' = visited /\ result' = result
        /\ Len(edges) \in Nat
    BY <1>6 DEF Skip, Scanning, TypeOK
  <2>2. SUFFICES ASSUME NEW i \in 1..Len(edges), Mine(i)
                 PROVE  Returned(i)' \/ Waiting(i)'
    BY <2>1, <1>b
  <2>3. Returned(i) \/ Waiting(i)
    BY <1>a, <2>1, <2>2 DEF InWalk
  <2>4. Returned(i) => Returned(i)'
    BY <2>1 DEF Returned
  <2>5. i = e => edges[i].from # frontier[n]
    BY <1>6, <2>2 DEF Skip, Leaves
  <2>6. Waiting(i) => Waiting(i)'
    BY <2>1, <2>5 DEF Waiting
  <2> QED BY <2>3, <2>4, <2>6
<1>7. CASE NextNode
  <2>1. /\ pc = "walk" /\ pc' = "walk" /\ n' = n + 1 /\ e' = 1 /\ e > Len(edges)
        /\ edges' = edges /\ tenant' = tenant /\ frontier' = frontier
        /\ next_frontier' = next_frontier /\ visited' = visited /\ result' = result
        /\ Len(edges) \in Nat /\ n \in Nat /\ e \in Nat /\ Len(frontier) \in Nat
    BY <1>7 DEF NextNode, TypeOK
  <2>2. SUFFICES ASSUME NEW i \in 1..Len(edges), Mine(i)
                 PROVE  Returned(i)' \/ Waiting(i)'
    BY <2>1, <1>b
  <2>3. Returned(i) \/ Waiting(i)
    BY <1>a, <2>1, <2>2 DEF InWalk
  <2>4. Returned(i) => Returned(i)'
    BY <2>1 DEF Returned
  <2>5. Waiting(i) => Waiting(i)'
    BY <2>1 DEF Waiting
  <2> QED BY <2>3, <2>4, <2>5
<1>8. CASE Break
  BY <1>8 DEF Break, CompleteInv, InWalk, Returned, Waiting
<1>9. CASE NextRound
  <2>1. /\ pc = "walk" /\ n' = 1 /\ e' = 1 /\ n > Len(frontier)
        /\ frontier' = next_frontier /\ next_frontier' = <<>>
        /\ Len(next_frontier) \in Nat \ {0} /\ n \in Nat /\ Len(frontier) \in Nat
        /\ edges' = edges /\ tenant' = tenant /\ visited' = visited /\ result' = result
        /\ Len(edges) \in Nat
    BY <1>9 DEF NextRound, TypeOK
  <2>2. ASSUME NEW i \in 1..Len(edges), Mine(i)
        PROVE  Returned(i)' \/ Waiting(i)'
    <3>1. Returned(i) \/ Waiting(i)
      BY <1>a, <2>1, <2>2 DEF InWalk
    <3>2. Returned(i) => Returned(i)'
      BY <2>1 DEF Returned
    <3>3. Waiting(i) => Waiting(i)'
      BY <2>1 DEF Waiting
    <3> QED BY <3>1, <3>2, <3>3
  <2>3. Good'
    BY <2>1, <2>2
  <2> QED BY <2>1, <2>3 DEF CompleteInv
<1>10. CASE Return
  BY <1>10 DEF Return, CompleteInv, InWalk
<1> QED
  BY <1>1, <1>2, <1>3, <1>4, <1>5, <1>6, <1>7, <1>8, <1>9, <1>10 DEF Next, Walk

LEMMA DistinctGrows ==
  ASSUME NEW s, NEW r, Len(s) \in Nat, Len(r) = Len(s) + 1,
         \A k \in 1..Len(s) : r[k] = s[k] /\ s[k] # r[Len(s) + 1],
         \A i, j \in 1..Len(s) : s[i] = s[j] => i = j
  PROVE  \A i, j \in 1..Len(r) : r[i] = r[j] => i = j
<1> SUFFICES ASSUME NEW i \in 1..Len(r), NEW j \in 1..Len(r), r[i] = r[j]
             PROVE  i = j
  OBVIOUS
<1>1. CASE i \in 1..Len(s) /\ j \in 1..Len(s)
  BY <1>1
<1>2. CASE i = Len(s) + 1 /\ j \in 1..Len(s)
  BY <1>2
<1>3. CASE i \in 1..Len(s) /\ j = Len(s) + 1
  BY <1>3
<1> QED BY <1>1, <1>2, <1>3

(* What pushing edge e keeps of OnceInv: the edge is not in the result     *)
(* yet, and no later node of the frontier has an edge in it.               *)
LEMMA PushOnce ==
  ASSUME TypeOK, PushFacts, OnceInv, InWalk
  PROVE  /\ \A i, j \in 1..Len(result') : result'[i] = result'[j] => i = j
         /\ (\A k \in 1..Len(result), j \in 1..Len(frontier) :
               edges[result[k]].from = frontier[j] => j < n \/ (j = n /\ result[k] < e))'
<1>a. \A k \in 1..Len(result), j \in 1..Len(frontier) :
        edges[result[k]].from = frontier[j] => j < n \/ (j = n /\ result[k] < e)
  BY DEF OnceInv
<1>b. /\ n \in 1..Len(frontier) /\ e \in 1..Len(edges) /\ edges[e].from = frontier[n]
      /\ Len(edges) \in Nat /\ Len(result) \in Nat /\ Len(frontier) \in Nat
      /\ \A k \in 1..Len(result) : result'[k] = result[k] /\ result[k] \in 1..Len(edges)
      /\ result'[Len(result) + 1] = e /\ Len(result') = Len(result) + 1
  BY DEF PushFacts
<1>c. /\ \A k \in 1..Len(result') : k \in 1..Len(result) \/ k = Len(result) + 1
      /\ edges' = edges /\ frontier' = frontier /\ n' = n /\ e' = e + 1
  BY DEF PushFacts
<1>1. ASSUME NEW k \in 1..Len(result) PROVE result[k] # e
  <2> SUFFICES ASSUME result[k] = e PROVE FALSE
    OBVIOUS
  <2>1. n < n \/ (n = n /\ e < e)
    BY <1>a, <1>b
  <2> QED BY <2>1, <1>b
<1>2. \A i, j \in 1..Len(result) : result[i] = result[j] => i = j
  BY DEF OnceInv, EachEdgeOnce
<1>3. \A i, j \in 1..Len(result') : result'[i] = result'[j] => i = j
  <2>1. \A k \in 1..Len(result) : /\ result'[k] = result[k]
                                   /\ result[k] # result'[Len(result) + 1]
    BY <1>1, <1>b
  <2> QED BY <2>1, <1>b, <1>2, DistinctGrows
<1>4. ASSUME NEW k \in 1..Len(result'), NEW j \in 1..Len(frontier),
             edges[result'[k]].from = frontier[j]
      PROVE  j < n \/ (j = n /\ result'[k] < e + 1)
  <2>1. CASE k \in 1..Len(result)
    <3>1. result'[k] = result[k] /\ result[k] \in Nat
      BY <2>1, <1>b
    <3>2. j < n \/ (j = n /\ result[k] < e)
      BY <2>1, <3>1, <1>4, <1>a
    <3> QED BY <3>1, <3>2, <1>b
  <2>2. CASE k = Len(result) + 1
    <3>1. frontier[n] = frontier[j] /\ result'[k] = e
      BY <2>2, <1>4, <1>b
    <3>2. j = n
      BY <3>1, <1>b DEF OnceInv
    <3> QED BY <3>1, <3>2, <1>b
  <2> QED BY <2>1, <2>2, <1>c
<1> QED BY <1>3, <1>4, <1>c

LEMMA PushApart ==
  ASSUME PushFacts, OnceInv, InWalk,
         NEW k \in 1..Len(result'), NEW j \in 1..Len(next_frontier)
  PROVE  edges[result'[k]].from # next_frontier[j]
<1>1. CASE k \in 1..Len(result)
  <2>1. result'[k] = result[k]
    BY <1>1 DEF PushFacts
  <2> QED BY <1>1, <2>1 DEF OnceInv
<1>2. CASE k = Len(result) + 1
  <2>1. edges[result'[k]].from = frontier[n] /\ n \in 1..Len(frontier)
    BY <1>2 DEF PushFacts
  <2> QED BY <2>1 DEF OnceInv
<1> QED BY <1>1, <1>2 DEF PushFacts

LEMMA OnceStep ==
  ASSUME TypeOK, ReachInv, OnceInv, [Next]_vars
  PROVE  OnceInv'
<1> DEFINE Distinct(s) == \A i, j \in 1..Len(s) : s[i] = s[j] => i = j
           Behind == \A k \in 1..Len(result), j \in 1..Len(frontier) :
                       edges[result[k]].from = frontier[j] => j < n \/ (j = n /\ result[k] < e)
           Apart == \A k \in 1..Len(result), j \in 1..Len(next_frontier) :
                      edges[result[k]].from # next_frontier[j]
           Fresh == \A i \in 1..Len(frontier), j \in 1..Len(next_frontier) :
                      frontier[i] # next_frontier[j]
<1>a. InWalk => /\ Distinct(frontier) /\ Distinct(next_frontier) /\ Distinct(result)
                /\ Behind /\ Apart /\ Fresh
  BY DEF OnceInv, EachEdgeOnce
<1>b. ASSUME Distinct(frontier'), Distinct(next_frontier'), Distinct(result'), Behind', Apart', Fresh'
      PROVE  OnceInv'
  <2>1. EachEdgeOnce'
    BY <1>b DEF EachEdgeOnce
  <2> QED BY <1>b, <2>1 DEF OnceInv
<1>c. \A k \in 1..Len(result) : result[k] \in 1..Len(edges)
  BY DEF TypeOK
<1> HIDE DEF Distinct
<1>1. CASE UNCHANGED vars
  BY <1>1 DEF vars, OnceInv, InWalk, EachEdgeOnce
<1>2. ASSUME NEW edge \in StoredEdge, add_edge(edge) PROVE OnceInv'
  BY <1>2 DEF add_edge, walkVars, OnceInv, InWalk
<1>3. ASSUME NEW t \in Tenants, NEW s \in Nodes, NEW d \in Depths, traverse(t, s, d)
      PROVE  OnceInv'
  <2>1. /\ frontier' = <<s>> /\ next_frontier' = <<>> /\ result' = <<>>
    BY <1>3 DEF traverse
  <2> QED BY <2>1, <1>b DEF Distinct
<1>4. CASE FollowToVisited
  <2>1. PushFacts /\ next_frontier' = next_frontier /\ visited' = visited /\ InWalk
    BY <1>4, Pushed DEF FollowToVisited, PushFacts, InWalk
  <2>2. Distinct(result') /\ Behind'
    BY <2>1, PushOnce DEF Distinct
  <2>6. Apart' /\ Fresh'
    <3>1. Fresh'
      BY <2>1, <1>a DEF PushFacts
    <3>2. \A k \in 1..Len(result'), j \in 1..Len(next_frontier) :
            edges[result'[k]].from # next_frontier[j]
      BY <2>1, PushApart
    <3> QED BY <2>1, <3>1, <3>2 DEF PushFacts
  <2>7. frontier' = frontier
    BY <2>1 DEF PushFacts
  <2> QED BY <2>1, <2>2, <2>6, <2>7, <1>a, <1>b
<1>5. CASE FollowToNew
  <2>1. PushFacts /\ QueueFacts /\ InWalk
    BY <1>5, Pushed, Queued DEF PushFacts, InWalk
  <2>2. Distinct(result') /\ Behind'
    BY <2>1, PushOnce DEF Distinct
  <2>6. /\ \A k \in 1..Len(result') : edges[result'[k]].from \in visited
        /\ \A j \in 1..Len(frontier) : frontier[j] \in visited
        /\ \A j \in 1..Len(next_frontier) : next_frontier[j] \in visited
    BY <2>1 DEF PushFacts, ReachInv
  <2>7. Distinct(next_frontier')
    <3>1. \A k \in 1..Len(next_frontier) :
            /\ next_frontier'[k] = next_frontier[k]
            /\ next_frontier[k] # next_frontier'[Len(next_frontier) + 1]
      BY <2>1, <2>6 DEF QueueFacts
    <3>2. Len(next_frontier) \in Nat /\ Len(next_frontier') = Len(next_frontier) + 1
      BY <2>1 DEF QueueFacts
    <3> QED BY <3>1, <3>2, <2>1, <1>a, DistinctGrows DEF Distinct
  <2>8. Fresh'
    <3>1. ASSUME NEW i \in 1..Len(frontier), NEW j \in 1..Len(next_frontier')
          PROVE  frontier[i] # next_frontier'[j]
      <4>1. CASE j \in 1..Len(next_frontier)
        BY <4>1, <2>1, <1>a DEF QueueFacts
      <4>2. CASE j = Len(next_frontier) + 1
        BY <4>2, <2>1, <2>6 DEF QueueFacts
      <4> QED BY <4>1, <4>2, <2>1 DEF QueueFacts
    <3> QED BY <3>1, <2>1 DEF PushFacts
  <2>9. ASSUME NEW k \in 1..Len(result'), NEW j \in 1..Len(next_frontier')
        PROVE  edges[result'[k]].from # next_frontier'[j]
    <3>1. CASE j = Len(next_frontier) + 1
      BY <2>1, <2>6, <3>1 DEF QueueFacts
    <3>2. CASE j \in 1..Len(next_frontier)
      <4>1. next_frontier'[j] = next_frontier[j]
        BY <2>1, <3>2 DEF QueueFacts
      <4> QED BY <2>1, <3>2, <4>1, PushApart
    <3> QED BY <2>1, <3>1, <3>2 DEF QueueFacts
  <2>10. Apart' /\ frontier' = frontier
    BY <2>1, <2>9 DEF PushFacts
  <2> QED BY <2>1, <2>2, <2>7, <2>8, <2>10, <1>a, <1>b
<1>6. CASE Skip
  <2>1. /\ InWalk /\ e' = e + 1 /\ e \in Nat
        /\ edges' = edges /\ frontier' = frontier /\ n' = n
        /\ next_frontier' = next_frontier /\ result' = result
    BY <1>6 DEF Skip, Scanning, TypeOK, InWalk
  <2>2. ASSUME NEW k \in 1..Len(result), NEW j \in 1..Len(frontier),
               edges[result[k]].from = frontier[j]
        PROVE  j < n \/ (j = n /\ result[k] < e + 1)
    <3>1. j < n \/ (j = n /\ result[k] < e)
      BY <2>1, <2>2, <1>a
    <3>2. result[k] \in Nat
      BY <1>c
    <3> QED BY <2>1, <3>1, <3>2
  <2>3. Behind'
    BY <2>1, <2>2
  <2> QED BY <2>1, <2>3, <1>a, <1>b
<1>7. CASE NextNode
  <2>1. /\ InWalk /\ e' = 1 /\ n' = n + 1 /\ n \in Nat
        /\ edges' = edges /\ frontier' = frontier
        /\ next_frontier' = next_frontier /\ result' = result
    BY <1>7 DEF NextNode, TypeOK, InWalk
  <2>2. Behind'
    BY <2>1, <1>a
  <2> QED BY <2>1, <2>2, <1>a, <1>b
<1>8. CASE Break
  BY <1>8 DEF Break, OnceInv, InWalk, EachEdgeOnce
<1>9. CASE NextRound
  <2>1. /\ InWalk /\ frontier' = next_frontier /\ next_frontier' = <<>>
        /\ edges' = edges /\ result' = result
    BY <1>9 DEF NextRound, InWalk
  <2>2. Behind' /\ Apart' /\ Fresh'
    BY <2>1, <1>a
  <2>3. Distinct(next_frontier')
    BY <2>1 DEF Distinct
  <2> QED BY <2>1, <2>2, <2>3, <1>a, <1>b
<1>10. CASE Return
  BY <1>10 DEF Return, OnceInv, InWalk
<1> QED
  BY <1>1, <1>2, <1>3, <1>4, <1>5, <1>6, <1>7, <1>8, <1>9, <1>10 DEF Next, Walk

LEMMA RoundStep ==
  ASSUME TypeOK, ReachInv, RoundInv, [Next]_vars
  PROVE  RoundInv'
<1> USE DEF RoundInv, InWalk
<1>a. IsFiniteSet(visited) => Cardinality(visited) \in Nat
  BY FS_CardinalityType
<1>1. CASE UNCHANGED vars
  BY <1>1 DEF vars
<1>2. ASSUME NEW edge \in StoredEdge, add_edge(edge) PROVE RoundInv'
  BY <1>2 DEF add_edge, walkVars
<1>3. ASSUME NEW t \in Tenants, NEW s \in Nodes, NEW d \in Depths, traverse(t, s, d)
      PROVE  RoundInv'
  <2>1. IsFiniteSet({s}) /\ Cardinality({s}) = 1
    BY FS_Singleton
  <2> QED BY <1>3, <2>1 DEF traverse
<1>4. CASE FollowToVisited
  BY <1>4 DEF FollowToVisited, Scanning
<1>5. CASE FollowToNew
  <2>1. PushFacts /\ QueueFacts
    BY <1>5, Pushed, Queued
  <2>2. IsFiniteSet(visited) /\ round <= Cardinality(visited) /\ round \in Nat
    BY <2>1 DEF PushFacts, TypeOK
  <2>3. IsFiniteSet(visited') /\ Cardinality(visited') = Cardinality(visited) + 1
    BY <2>1, <2>2, FS_AddElement DEF QueueFacts
  <2>4. round' + 1 <= Cardinality(visited') /\ round' <= Cardinality(visited')
    BY <2>1, <2>2, <2>3, <1>a DEF PushFacts
  <2> QED BY <2>3, <2>4
<1>6. CASE Skip
  BY <1>6 DEF Skip, Scanning
<1>7. CASE NextNode
  BY <1>7 DEF NextNode
<1>8. CASE Break
  BY <1>8 DEF Break
<1>9. CASE NextRound
  BY <1>9 DEF NextRound, TypeOK
<1>10. CASE Return
  BY <1>10 DEF Return
<1> QED
  BY <1>1, <1>2, <1>3, <1>4, <1>5, <1>6, <1>7, <1>8, <1>9, <1>10 DEF Next, Walk

(* After a round's scan every edge out of its starting nodes is returned,  *)
(* and the nodes visited are those one step further.                       *)
LEMMA RoundScanned ==
  ASSUME TypeOK, ReachInv, CompleteInv, LayerInv, pc = "walk", n > Len(frontier)
  PROVE  /\ Elements(result) = Leaving(edges, tenant, Layer(round - 1))
         /\ visited = Layer(round)
         /\ Layer(round) = Onward(edges, tenant, Layer(round - 1))
<1>a. /\ n \in Nat /\ Len(frontier) \in Nat /\ InWalk
      /\ round \in Nat /\ round - 1 \in Nat /\ (round - 1) + 1 = round
      /\ \A k \in 1..Len(result) : result[k] \in 1..Len(edges)
  BY DEF TypeOK, InWalk
<1>1. Layer(round) = Onward(edges, tenant, Layer(round - 1))
  <2>1. Within(edges, tenant, start_node, (round - 1) + 1)
          = Onward(edges, tenant, Within(edges, tenant, start_node, round - 1))
    BY <1>a, WithinNext
  <2> QED BY <2>1, <1>a DEF Layer
<1>2. ASSUME NEW i \in Leaving(edges, tenant, Layer(round - 1))
      PROVE  Returned(i)
  <2>1. i \in 1..Len(edges) /\ edges[i].tenant_id = tenant
        /\ edges[i].from \in Layer(round - 1)
    BY DEF Leaving
  <2>2. edges[i].from \in visited
    BY <2>1 DEF LayerInv
  <2>3. Returned(i) \/ Waiting(i)
    BY <2>1, <2>2, <1>a DEF CompleteInv
  <2>4. ~Waiting(i)
    BY <2>1, <1>a DEF Waiting, LayerInv
  <2> QED BY <2>3, <2>4
<1>3. \A k \in 1..Len(result) : result[k] \in Leaving(edges, tenant, Layer(round - 1))
  BY <1>a DEF LayerInv, ReachInv, Leaving
<1>4. Elements(result) = Leaving(edges, tenant, Layer(round - 1))
  BY <1>2, <1>3 DEF Elements, Returned
<1>5. \A i \in Leaving(edges, tenant, Layer(round - 1)) : edges[i].to \in visited
  BY <1>2, <1>a DEF Returned, ReachInv
<1>6. visited = Layer(round)
  BY <1>1, <1>5 DEF Onward, LayerInv
<1> QED BY <1>1, <1>4, <1>6

LEMMA LayerStep ==
  ASSUME TypeOK, ReachInv, CompleteInv, LayerInv, [Next]_vars
  PROVE  LayerInv'
<1>a. pc' = "walk" => round - 1 \in Int
  BY DEF TypeOK
<1>1. CASE UNCHANGED vars
  BY <1>1 DEF vars, LayerInv, Layer, TraversalExact
<1>2. ASSUME NEW edge \in StoredEdge, add_edge(edge) PROVE LayerInv'
  BY <1>2 DEF add_edge, walkVars, LayerInv, TraversalExact
<1>3. ASSUME NEW t \in Tenants, NEW s \in Nodes, NEW d \in Depths, traverse(t, s, d)
      PROVE  LayerInv'
  <2>1. /\ frontier' = <<s>> /\ next_frontier' = <<>> /\ result' = <<>>
        /\ visited' = {s} /\ round' = 1 /\ edges' = edges /\ max_depth' = d
        /\ tenant' = t /\ start_node' = s /\ pc' = IF d = 0 THEN "done" ELSE "walk"
    BY <1>3 DEF traverse
  <2>2. Layer(round - 1)' = {s} /\ {s} \subseteq Layer(round)'
    <3>1. Within(edges, t, s, 0) = {s}
      BY WithinStart
    <3>2. Within(edges, t, s, 0 + 1) = Onward(edges, t, Within(edges, t, s, 0))
      BY WithinNext
    <3>3. round' - 1 = 0 /\ round' = 0 + 1
      BY <2>1
    <3> QED BY <2>1, <3>1, <3>2, <3>3 DEF Layer, Onward
  <2>3. TraversalExact'
    <3>1. ASSUME pc' = "done"
          PROVE  Elements(result)' = Traversed(edges', tenant', start_node', max_depth')
      <4>1. max_depth' = 0 /\ Len(result') = 0
        BY <2>1, <3>1
      <4> QED BY <4>1 DEF Elements, Traversed
    <3> QED BY <3>1 DEF TraversalExact
  <2> QED BY <2>1, <2>2, <2>3 DEF LayerInv
<1>4. CASE FollowToVisited
  <2>1. PushFacts /\ next_frontier' = next_frontier /\ visited' = visited
    BY <1>4, Pushed DEF FollowToVisited
  <2>2. Layer(round)' = Layer(round) /\ Layer(round - 1)' = Layer(round - 1)
    BY <2>1 DEF PushFacts, Layer
  <2>3. \A k \in 1..Len(result') : edges'[result'[k]].from \in Layer(round - 1)
    BY <2>1 DEF PushFacts, LayerInv
  <2> QED BY <2>1, <2>2, <2>3 DEF PushFacts, LayerInv, TraversalExact
<1>5. CASE FollowToNew
  <2>1. PushFacts /\ QueueFacts
    BY <1>5, Pushed, Queued
  <2>2. Layer(round)' = Layer(round) /\ Layer(round - 1)' = Layer(round - 1)
    BY <2>1 DEF PushFacts, Layer
  <2>3. \A k \in 1..Len(result') : edges'[result'[k]].from \in Layer(round - 1)
    BY <2>1 DEF PushFacts, LayerInv
  <2>4. edges[e].to \in Layer(round)
    <3>1. round - 1 \in Nat /\ (round - 1) + 1 = round
      <4>1. pc = "walk"
        BY <2>1 DEF PushFacts
      <4> QED BY <4>1 DEF TypeOK
    <3>2. Layer(round) = Onward(edges, tenant, Layer(round - 1))
      <4>1. Within(edges, tenant, start_node, (round - 1) + 1)
              = Onward(edges, tenant, Within(edges, tenant, start_node, round - 1))
        BY <3>1, WithinNext
      <4> QED BY <4>1, <3>1 DEF Layer
    <3>3. e \in Leaving(edges, tenant, Layer(round - 1))
      BY <2>1 DEF PushFacts, Leaving, LayerInv
    <3> QED BY <3>2, <3>3 DEF Onward
  <2>5. edges[e].to \notin Layer(round - 1)
    BY <2>1 DEF PushFacts, QueueFacts, LayerInv
  <2>6. \A j \in 1..Len(next_frontier') : next_frontier'[j] \notin Layer(round - 1)
    BY <2>1, <2>5 DEF PushFacts, QueueFacts, LayerInv
  <2>7. ASSUME NEW v \in visited'
        PROVE  \/ v \in Layer(round - 1)
               \/ \E j \in 1..Len(next_frontier') : next_frontier'[j] = v
    <3>1. Len(next_frontier) + 1 \in 1..Len(next_frontier')
          /\ 1..Len(next_frontier) \subseteq 1..Len(next_frontier')
      BY <2>1 DEF QueueFacts
    <3>2. CASE v = edges[e].to
      BY <2>1, <3>1, <3>2 DEF QueueFacts
    <3>3. CASE v \in visited
      BY <2>1, <3>1, <3>3 DEF PushFacts, QueueFacts, LayerInv
    <3> QED BY <2>1, <3>2, <3>3 DEF QueueFacts
  <2>8. /\ pc = "walk" /\ pc' = "walk" /\ frontier' = frontier
        /\ visited' = visited \cup {edges[e].to}
    BY <2>1 DEF PushFacts, QueueFacts
  <2>9. /\ Layer(round - 1) \subseteq visited /\ visited \subseteq Layer(round)
        /\ \A j \in 1..Len(frontier) : frontier[j] \in Layer(round - 1)
    BY <2>8 DEF LayerInv
  <2>10. TraversalExact'
    BY <2>8 DEF TraversalExact
  <2> QED
    BY <2>2, <2>3, <2>4, <2>6, <2>7, <2>8, <2>9, <2>10 DEF LayerInv
<1>6. CASE Skip
  BY <1>6 DEF Skip, LayerInv, Layer, TraversalExact, Scanning
<1>7. CASE NextNode
  BY <1>7 DEF NextNode, LayerInv, Layer, TraversalExact
<1>8. CASE Break
  <2>1. /\ pc = "walk" /\ n > Len(frontier) /\ next_frontier = <<>> /\ pc' = "done"
        /\ result' = result /\ edges' = edges /\ tenant' = tenant
        /\ start_node' = start_node /\ max_depth' = max_depth
    BY <1>8 DEF Break
  <2>2. /\ Elements(result) = Leaving(edges, tenant, Layer(round - 1))
        /\ visited = Layer(round)
        /\ Layer(round) = Onward(edges, tenant, Layer(round - 1))
    BY <2>1, RoundScanned
  <2>3. Layer(round) = Layer(round - 1)
    <3>1. Layer(round - 1) \subseteq visited
      BY <2>1 DEF LayerInv
    <3>2. Len(next_frontier) = 0
      BY <2>1
    <3>3. visited \subseteq Layer(round - 1)
      BY <2>1, <3>2 DEF LayerInv
    <3> QED BY <2>2, <3>1, <3>3
  <2>4. Layer(max_depth - 1) = Layer(round - 1) /\ max_depth # 0
    <3>1. round - 1 \in Nat /\ max_depth - 1 \in Nat /\ round - 1 <= max_depth - 1
      BY <2>1, DepthAssumption DEF TypeOK
    <3>2. \A i \in Leaving(edges, tenant, Layer(round - 1)) :
            edges[i].to \in Layer(round - 1)
      BY <2>2, <2>3 DEF Onward
    <3> QED BY <3>1, <3>2, WithinCloses DEF Layer
  <2> QED BY <2>1, <2>2, <2>4 DEF LayerInv, TraversalExact, Traversed, Layer, Elements
<1>9. CASE NextRound
  <2>1. /\ pc = "walk" /\ n > Len(frontier) /\ result' = result /\ edges' = edges
        /\ tenant' = tenant /\ start_node' = start_node /\ max_depth' = max_depth
        /\ visited' = visited /\ frontier' = next_frontier /\ next_frontier' = <<>>
        /\ pc' = IF LastRound THEN "done" ELSE "walk"
        /\ round' = IF LastRound THEN round ELSE round + 1
    BY <1>9 DEF NextRound
  <2>2. /\ Elements(result) = Leaving(edges, tenant, Layer(round - 1))
        /\ visited = Layer(round)
        /\ Layer(round) = Onward(edges, tenant, Layer(round - 1))
    BY <2>1, RoundScanned
  <2>3. round \in 1..max_depth
    BY <2>1 DEF TypeOK
  <2>4. CASE LastRound
    <3>1. pc' = "done" /\ max_depth # 0 /\ round = max_depth
      BY <2>1, <2>3, <2>4 DEF LastRound
    <3> QED BY <2>1, <2>2, <3>1 DEF LayerInv, TraversalExact, Traversed, Layer, Elements
  <2>5. CASE ~LastRound
    <3>1. pc' = "walk" /\ round' = round + 1 /\ round' - 1 = round /\ round \in Nat
      BY <2>1, <2>3, <2>5
    <3>2. Layer(round - 1)' = Layer(round)
      BY <2>1, <3>1 DEF Layer
    <3>3. Layer(round) \subseteq Layer(round)'
      <4>1. Within(edges, tenant, start_node, round)
              \subseteq Within(edges, tenant, start_node, round + 1)
        BY <3>1, WithinGrows
      <4> QED BY <2>1, <3>1, <4>1 DEF Layer
    <3>4. \A j \in 1..Len(next_frontier) : next_frontier[j] \in visited
      BY <2>1 DEF ReachInv, InWalk
    <3>5. Layer(round - 1) \subseteq Layer(round)
      BY <2>2 DEF Onward
    <3>6. \A k \in 1..Len(result') : edges'[result'[k]].from \in Layer(round)
      BY <2>1, <3>5 DEF LayerInv
    <3>7. Len(next_frontier') = 0 /\ TraversalExact'
      BY <2>1, <3>1 DEF TraversalExact
    <3> QED BY <2>1, <2>2, <3>1, <3>2, <3>3, <3>4, <3>6, <3>7 DEF LayerInv
  <2> QED BY <2>4, <2>5
<1>10. CASE Return
  BY <1>10 DEF Return, LayerInv, TraversalExact
<1> QED
  BY <1>1, <1>2, <1>3, <1>4, <1>5, <1>6, <1>7, <1>8, <1>9, <1>10 DEF Next, Walk

-----------------------------------------------------------------------------
IInv == TypeOK /\ ReachInv /\ CompleteInv /\ OnceInv /\ RoundInv /\ LayerInv

LEMMA Inductive == Spec => []IInv
<1>1. Init => IInv
  <2>1. Init => TypeOK /\ ReachInv /\ CompleteInv /\ OnceInv /\ RoundInv
    BY DEF Init, TypeOK, ReachInv, CompleteInv, OnceInv, RoundInv, InWalk
  <2>2. Init => LayerInv
    BY DEF Init, LayerInv, TraversalExact
  <2> QED BY <2>1, <2>2 DEF IInv
<1>2. IInv /\ [Next]_vars => IInv'
  BY TypeStep, ReachStep, CompleteStep, OnceStep, RoundStep, LayerStep DEF IInv
<1> QED
  BY <1>1, <1>2, PTL DEF Spec

(***************************************************************************)
(* TypeOK holds in every reachable state: the walk's indices stay inside   *)
(* its vectors, and it makes at most max_depth rounds (memory.rs:138-157). *)
(***************************************************************************)
THEOREM TypeCorrect == Spec => []TypeOK
<1>1. IInv => TypeOK
  BY DEF IInv
<1> QED
  BY <1>1, Inductive, PTL

(***************************************************************************)
(* traverse returns the edges it promises, no fewer and no more, for every *)
(* graph and every max_depth: a finished walk has returned the tenant's    *)
(* edges that leave a node less than max_depth steps from the start, by    *)
(* the early break and by the last round alike (memory.rs:123-160).        *)
(***************************************************************************)
THEOREM TraversalIsExact == Spec => []TraversalExact
<1>1. IInv => TraversalExact
  BY DEF IInv, LayerInv
<1> QED
  BY <1>1, Inductive, PTL

(***************************************************************************)
(* Tenant isolation of traverse (memory.rs:130-157): whatever edges other  *)
(* tenants store, the result lies inside every set of nodes that the       *)
(* caller's own edges do not leave.                                        *)
(***************************************************************************)
THEOREM TraversalIsIsolated == Spec => []ResultReachable
<1>1. IInv => ResultReachable
  <2> SUFFICES ASSUME IInv, NEW C \in SUBSET Nodes,
                      start_node \in C, Closed(tenant, C), NEW i \in Elements(result)
               PROVE  edges[i].tenant_id = tenant /\ edges[i].from \in C
    BY DEF ResultReachable
  <2>1. PICK k \in 1..Len(result) : result[k] = i
    BY DEF Elements
  <2>2. InWalk
    BY <2>1 DEF IInv, TypeOK, ReachInv, InWalk
  <2> QED BY <2>1, <2>2 DEF IInv, ReachInv
<1> QED
  BY <1>1, Inductive, PTL

(***************************************************************************)
(* The early break of traverse (memory.rs:153-155) is complete: the nodes  *)
(* visited are closed under the tenant's edges and all of those edges are  *)
(* in the result.                                                          *)
(***************************************************************************)
THEOREM BreakLosesNothing == Spec => []BreakIsComplete
<1>1. IInv => BreakIsComplete
  <2> SUFFICES ASSUME IInv, pc = "done", n > Len(frontier),
                      NEW i \in 1..Len(edges),
                      edges[i].tenant_id = tenant, edges[i].from \in visited
               PROVE  edges[i].to \in visited /\ i \in Elements(result)
    BY DEF BreakIsComplete, Closed
  <2>1. next_frontier = <<>> /\ (Returned(i) \/ Waiting(i))
    BY DEF IInv, CompleteInv, InWalk
  <2>2. n \in Nat /\ Len(frontier) \in Nat
    BY DEF IInv, TypeOK
  <2>3. ~Waiting(i)
    BY <2>1, <2>2 DEF Waiting
  <2>4. PICK k \in 1..Len(result) : result[k] = i
    BY <2>1, <2>3 DEF Returned
  <2> QED BY <2>4 DEF IInv, ReachInv, InWalk, Elements
<1> QED
  BY <1>1, Inductive, PTL

(***************************************************************************)
(* No stored edge is returned twice, on cyclic graphs and graphs with      *)
(* several paths to a node alike (memory.rs:148).                          *)
(***************************************************************************)
THEOREM EdgesAreReturnedOnce == Spec => []EachEdgeOnce
<1>1. IInv => EachEdgeOnce
  BY DEF IInv, TypeOK, OnceInv, ReachInv, InWalk, EachEdgeOnce
<1> QED
  BY <1>1, Inductive, PTL

(***************************************************************************)
(* The rounds of a walk are bounded by the nodes it has seen, whatever     *)
(* max_depth the caller asks for (memory.rs:143-157).                      *)
(***************************************************************************)
THEOREM RoundsAreBounded == Spec => []RoundsBounded
<1>1. IInv => RoundsBounded
  BY DEF IInv, RoundInv, RoundsBounded, InWalk
<1> QED
  BY <1>1, Inductive, PTL

(***************************************************************************)
(* The four together, as the run on small graphs checks them               *)
(* (memory.rs:123-160).                                                    *)
(***************************************************************************)
THEOREM WalkIsSound == Spec => []WalkSound
<1>1. EachEdgeOnce /\ ResultReachable /\ BreakIsComplete /\ RoundsBounded => WalkSound
  BY DEF WalkSound
<1> QED
  BY <1>1, EdgesAreReturnedOnce, TraversalIsIsolated, BreakLosesNothing, RoundsAreBounded, PTL
=============================================================================
