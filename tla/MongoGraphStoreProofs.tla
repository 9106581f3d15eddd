------------------------ MODULE MongoGraphStoreProofs ------------------------
(***************************************************************************)
(* Proofs about MongoGraphStore, for every number of traversals in         *)
(* progress, tenants, nodes, depths and edges: a $graphLookup that is not  *)
(* isolated from insertions still answers between the traversals of the    *)
(* graph as it was and as it is.                                           *)
(***************************************************************************)
EXTENDS MongoGraphStore, OperatorLemmas

TypedState ==
  /\ edges \in Seq(EdgeDocument)
  /\ call \in [Tasks -> Call]
  /\ pc \in [Tasks -> {"idle", "lookup", "ok", "error", "unsupported"}]
  /\ hop \in [Tasks -> Nat] /\ began \in [Tasks -> Nat]
  /\ frontier \in [Tasks -> SUBSET Nodes] /\ met \in [Tasks -> SUBSET Nodes]
  /\ path \in [Tasks -> SUBSET Nat]
  /\ \A c \in Tasks :
       /\ frontier[c] \subseteq met[c]
       /\ path[c] \subseteq 1..Len(edges) /\ began[c] \in 0..Len(edges)
       /\ hop[c] <= maxDepth(c)

LEMMA DepthArithmetic ==
  ASSUME NEW c \in Tasks, call[c] \in Call
  PROVE  /\ call[c].max_depth \in Nat /\ maxDepth(c) \in Nat
         /\ call[c].max_depth # 0 => maxDepth(c) = call[c].max_depth - 1
         /\ call[c].max_depth = 0 => maxDepth(c) = 0
<1>1. call[c].max_depth \in Nat
  BY MongoGraphAssumption DEF Call
<1>2. \A n \in Nat : n # 0 => n - 1 \in Nat
  OBVIOUS
<1> QED BY <1>1, <1>2 DEF maxDepth

LEMMA TypedStateTypes == TypedState => TypeOK
<1> SUFFICES ASSUME TypedState PROVE TypeOK
  OBVIOUS
<1>1. ASSUME NEW c \in Tasks PROVE hop[c] = 0 \/ hop[c] < call[c].max_depth
  <2>1. call[c] \in Call /\ hop[c] \in Nat /\ hop[c] <= maxDepth(c)
    BY DEF TypedState
  <2> QED BY <2>1, DepthArithmetic
<1> QED BY <1>1 DEF TypedState, TypeOK

(* What one query of the server finds.                                     *)
LEMMA FoundTyped ==
  ASSUME TypedState, NEW c \in Tasks
  PROVE  Found(c) \subseteq 1..Len(edges) /\ NewValues(c) \subseteq Nodes
<1>1. Found(c) \subseteq 1..Len(edges)
  BY DEF Found, Leaving
<1>2. \A i \in 1..Len(edges) : edges[i].to \in Nodes
  <2>1. edges \in Seq(EdgeDocument)
    BY DEF TypedState
  <2>2. \A i \in 1..Len(edges) : edges[i] \in EdgeDocument
    BY <2>1
  <2> QED BY <2>2 DEF EdgeDocument
<1> QED BY <1>1, <1>2 DEF NewValues

LEMMA AppendIsPrefix ==
  ASSUME NEW S, NEW e \in Seq(S), NEW x \in S
  PROVE  /\ IsPrefixOf(e, Append(e, x)) /\ Append(e, x) \in Seq(S)
         /\ Len(Append(e, x)) = Len(e) + 1 /\ Len(e) \in Nat
BY DEF IsPrefixOf

(* The traversals in progress do not change the collection, an insertion   *)
(* does not change them.                                                   *)
LEMMA EdgesOnlyAdded ==
  ASSUME TypedState, [Next]_vars
  PROVE  edges' \in Seq(EdgeDocument) /\ IsPrefixOf(edges, edges')
<1>1. edges \in Seq(EdgeDocument)
  BY DEF TypedState
<1>2. CASE UNCHANGED edges
  BY <1>1, <1>2 DEF IsPrefixOf
<1>3. ASSUME NEW document \in EdgeDocument, add_edge(document)
      PROVE  edges' \in Seq(EdgeDocument) /\ IsPrefixOf(edges, edges')
  BY <1>1, <1>3, AppendIsPrefix DEF add_edge
<1>4. UNCHANGED edges \/ \E document \in EdgeDocument : add_edge(document)
  BY DEF Next, vars, traverse, Hop, LastHop, Collect, Disconnect
<1> QED BY <1>2, <1>3, <1>4

LEMMA TypedStep ==
  ASSUME TypedState, [Next]_vars
  PROVE  TypedState'
<1> DEFINE Places == {"idle", "lookup", "ok", "error", "unsupported"}
<1>1. /\ edges' \in Seq(EdgeDocument) /\ Len(edges) \in Nat /\ Len(edges') \in Nat
      /\ Len(edges) <= Len(edges')
  BY EdgesOnlyAdded DEF IsPrefixOf
<1>a. /\ call \in [Tasks -> Call] /\ pc \in [Tasks -> Places]
      /\ hop \in [Tasks -> Nat] /\ began \in [Tasks -> Nat]
      /\ frontier \in [Tasks -> SUBSET Nodes] /\ met \in [Tasks -> SUBSET Nodes]
      /\ path \in [Tasks -> SUBSET Nat]
      /\ \A c \in Tasks :
           /\ frontier[c] \subseteq met[c]
           /\ path[c] \subseteq 1..Len(edges) /\ began[c] \in 0..Len(edges)
           /\ hop[c] <= maxDepth(c)
  BY DEF TypedState
<1>b. \A c \in Tasks : path[c] \subseteq 1..Len(edges') /\ began[c] \in 0..Len(edges')
  BY <1>1, <1>a
<1>2. CASE UNCHANGED callVars
  <2>1. UNCHANGED <<call, pc, hop, frontier, met, path, began>>
    BY <1>2 DEF callVars
  <2> QED BY <1>1, <1>a, <1>b, <2>1 DEF TypedState, maxDepth
<1>3. ASSUME NEW c \in Tasks, NEW args \in Call, traverse(c, args) PROVE TypedState'
  <2>1. args.start_node \in Nodes /\ args.max_depth \in Nat
    BY MongoGraphAssumption DEF Call
  <2>2. /\ edges' = edges
        /\ call' = [call EXCEPT ![c] = args]
        /\ \E p \in Places : pc' = [pc EXCEPT ![c] = p]
        /\ hop' = [hop EXCEPT ![c] = 0] /\ frontier' = [frontier EXCEPT ![c] = {args.start_node}]
        /\ met' = [met EXCEPT ![c] = {args.start_node}] /\ path' = [path EXCEPT ![c] = {}]
        /\ began' = [began EXCEPT ![c] = Len(edges)]
    BY <1>3 DEF traverse, Goto
  <2>3. /\ call' \in [Tasks -> Call] /\ pc' \in [Tasks -> Places]
        /\ hop' \in [Tasks -> Nat] /\ began' \in [Tasks -> Nat]
        /\ frontier' \in [Tasks -> SUBSET Nodes] /\ met' \in [Tasks -> SUBSET Nodes]
        /\ path' \in [Tasks -> SUBSET Nat]
    BY <1>1, <1>a, <2>1, <2>2
  <2>4. ASSUME NEW d \in Tasks
        PROVE  /\ frontier'[d] \subseteq met'[d]
               /\ path'[d] \subseteq 1..Len(edges') /\ began'[d] \in 0..Len(edges')
               /\ hop'[d] <= maxDepth(d)'
    <3>1. CASE d = c
      <4>1. call'[c] = args
        BY <1>a, <2>2
      <4>2. maxDepth(c)' \in Nat
        BY <2>1, <4>1 DEF maxDepth
      <4> QED BY <1>1, <1>a, <2>2, <3>1, <4>2
    <3>2. CASE d # c
      <4>1. call'[d] = call[d]
        BY <1>a, <2>2, <3>2
      <4>2. maxDepth(d)' = maxDepth(d)
        BY <4>1 DEF maxDepth
      <4> QED BY <1>a, <2>2, <3>2, <4>2
    <3> QED BY <3>1, <3>2
  <2> QED BY <1>1, <2>3, <2>4 DEF TypedState
<1>4. ASSUME NEW c \in Tasks, Hop(c) PROVE TypedState'
  <2>1. Found(c) \subseteq 1..Len(edges) /\ NewValues(c) \subseteq Nodes
    BY FoundTyped
  <2>2. /\ edges' = edges /\ call' = call /\ pc' = pc /\ began' = began
        /\ path' = [path EXCEPT ![c] = @ \cup Found(c)]
        /\ hop' = [hop EXCEPT ![c] = @ + 1]
        /\ frontier' = [frontier EXCEPT ![c] = NewValues(c)]
        /\ met' = [met EXCEPT ![c] = @ \cup NewValues(c)]
        /\ hop[c] < maxDepth(c)
    BY <1>4 DEF Hop, Collect
  <2>3. maxDepth(c) \in Nat /\ \A d \in Tasks : maxDepth(d)' = maxDepth(d)
    BY <1>a, <2>2, DepthArithmetic DEF maxDepth
  <2>4. /\ hop' \in [Tasks -> Nat]
        /\ frontier' \in [Tasks -> SUBSET Nodes] /\ met' \in [Tasks -> SUBSET Nodes]
        /\ path' \in [Tasks -> SUBSET Nat]
    <3>1. Found(c) \in SUBSET Nat
      BY <1>1, <2>1
    <3>2. hop' \in [Tasks -> Nat]
      BY <1>a, <2>2
    <3>3. frontier' \in [Tasks -> SUBSET Nodes] /\ met' \in [Tasks -> SUBSET Nodes]
      BY <1>a, <2>1, <2>2
    <3>4. path' \in [Tasks -> SUBSET Nat]
      BY <1>a, <2>2, <3>1
    <3> QED BY <3>2, <3>3, <3>4
  <2>5. ASSUME NEW d \in Tasks
        PROVE  /\ frontier'[d] \subseteq met'[d] /\ path'[d] \subseteq 1..Len(edges)
               /\ hop'[d] <= maxDepth(d)
    BY <1>a, <2>1, <2>2, <2>3
  <2> QED BY <1>1, <1>a, <1>b, <2>2, <2>3, <2>4, <2>5 DEF TypedState
<1>5. ASSUME NEW c \in Tasks, LastHop(c) \/ Disconnect(c) PROVE TypedState'
  <2>1. Found(c) \subseteq 1..Len(edges)
    BY FoundTyped
  <2>2. /\ edges' = edges /\ call' = call /\ began' = began /\ hop' = hop
        /\ frontier' = frontier /\ met' = met
        /\ \E p \in Places : pc' = [pc EXCEPT ![c] = p]
        /\ path' = [path EXCEPT ![c] = @ \cup Found(c)] \/ path' = [path EXCEPT ![c] = {}]
    BY <1>5 DEF LastHop, Disconnect, Collect, Goto
  <2>3. path' \in [Tasks -> SUBSET Nat] /\ pc' \in [Tasks -> Places]
        /\ \A d \in Tasks : path'[d] \subseteq 1..Len(edges)
    <3>1. pc' \in [Tasks -> Places]
      BY <1>a, <2>2
    <3>2. Found(c) \in SUBSET Nat
      BY <1>1, <2>1
    <3>3. \E S \in SUBSET Nat : S \subseteq 1..Len(edges) /\ path' = [path EXCEPT ![c] = S]
      BY <1>a, <2>1, <2>2, <3>2
    <3> QED BY <1>a, <3>1, <3>3
  <2> QED BY <1>1, <1>a, <1>b, <2>2, <2>3 DEF TypedState, maxDepth
<1>6. UNCHANGED vars => UNCHANGED callVars
  BY DEF vars, callVars
<1>7. \A document \in EdgeDocument : add_edge(document) => UNCHANGED callVars
  BY DEF add_edge
<1> QED BY <1>2, <1>3, <1>4, <1>5, <1>6, <1>7 DEF Next

LEMMA TypedAlways == Spec => []TypedState
<1>1. Init => TypedState
  <2> SUFFICES ASSUME Init PROVE TypedState
    OBVIOUS
  <2>1. \A c \in Tasks : maxDepth(c) \in Nat
    BY DepthArithmetic DEF Init
  <2> QED BY <2>1 DEF Init, TypedState
<1>2. TypedState /\ [Next]_vars => TypedState'
  BY TypedStep
<1> QED BY <1>1, <1>2, PTL DEF Spec

(***************************************************************************)
(* Every variable has its type, and the server queries no deeper than      *)
(* maxDepth (graph.rs:114-126).                                            *)
(***************************************************************************)
THEOREM TypeCorrect == Spec => []TypeOK
BY TypedStateTypes, TypedAlways, PTL

-----------------------------------------------------------------------------
(***************************************************************************)
(* A traversal between two queries.  The values it has queried are closed  *)
(* in the graph as it was at the call: their edges are collected and lead  *)
(* to values it knows.  What it knows lies, hop by hop, between what is    *)
(* within reach in the graph as it was and in the graph as it is.          *)
(***************************************************************************)
Asked(c) == SubSeq(edges, 1, began[c])
Queried(c) == met[c] \ frontier[c]

LookupInv(c) ==
  LET t == call[c].tenant_id
      s == call[c].start_node
  IN  /\ s \in met[c]
      /\ Within(Asked(c), t, s, hop[c]) \subseteq met[c]
      /\ met[c] \subseteq Within(edges, t, s, hop[c])
      /\ Leaving(Asked(c), t, Queried(c)) \subseteq path[c]
      /\ path[c] \subseteq Leaving(edges, t, met[c])
      /\ \A i \in Leaving(Asked(c), t, Queried(c)) : Asked(c)[i].to \in met[c]

DepthOf(c) == IF call[c].max_depth = 0 THEN 1 ELSE call[c].max_depth

Bracketed(c) ==
  LET t == call[c].tenant_id
      s == call[c].start_node
  IN  /\ Traversed(Asked(c), t, s, DepthOf(c)) \subseteq path[c]
      /\ path[c] \subseteq Traversed(edges, t, s, DepthOf(c))

LookupsInv ==
  \A c \in Tasks : /\ pc[c] = "lookup" => LookupInv(c)
                   /\ pc[c] = "ok" => Bracketed(c)

LEMMA AskedIsPrefix ==
  ASSUME TypedState, NEW c \in Tasks
  PROVE  IsPrefixOf(Asked(c), edges)
<1>1. edges \in Seq(EdgeDocument) /\ began[c] \in 0..Len(edges)
  BY DEF TypedState
<1> QED BY <1>1 DEF Asked, IsPrefixOf

LEMMA SameAsked ==
  ASSUME TypedState, NEW c \in Tasks, IsPrefixOf(edges, edges'), edges' \in Seq(EdgeDocument),
         began'[c] = began[c]
  PROVE  Asked(c)' = Asked(c)
<1>1. /\ edges \in Seq(EdgeDocument) /\ began[c] \in 0..Len(edges)
      /\ edges' \in Seq(EdgeDocument) /\ Len(edges) <= Len(edges')
      /\ \A i \in 1..Len(edges) : edges'[i] = edges[i]
  BY DEF TypedState, IsPrefixOf
<1> QED BY <1>1 DEF Asked

LEMMA DepthOfCall ==
  ASSUME TypedState, NEW c \in Tasks
  PROVE  /\ DepthOf(c) \in Nat /\ DepthOf(c) # 0 /\ DepthOf(c) - 1 = maxDepth(c)
         /\ hop[c] \in Nat /\ maxDepth(c) \in Nat /\ hop[c] <= maxDepth(c)
<1>1. call[c] \in Call /\ hop[c] \in Nat /\ hop[c] <= maxDepth(c)
  BY DEF TypedState
<1> QED BY <1>1, DepthArithmetic DEF DepthOf

(* A traversal that takes no part in a step keeps its invariant.           *)
LEMMA OthersKeep ==
  ASSUME TypedState, NEW c \in Tasks, IsPrefixOf(edges, edges'), edges' \in Seq(EdgeDocument),
         call'[c] = call[c], pc'[c] = pc[c], hop'[c] = hop[c], began'[c] = began[c],
         frontier'[c] = frontier[c], met'[c] = met[c], path'[c] = path[c],
         pc[c] = "lookup" => LookupInv(c), pc[c] = "ok" => Bracketed(c)
  PROVE  /\ pc'[c] = "lookup" => LookupInv(c)'
         /\ pc'[c] = "ok" => Bracketed(c)'
<1> DEFINE t == call[c].tenant_id
           s == call[c].start_node
<1>1. Asked(c)' = Asked(c)
  BY SameAsked
<1>2. hop[c] \in Nat /\ DepthOf(c) \in Nat /\ DepthOf(c)' = DepthOf(c)
  BY DepthOfCall DEF DepthOf
<1>3. Within(edges, t, s, hop[c]) \subseteq Within(edges', t, s, hop[c])
  BY <1>2, PrefixWithin
<1>4. Leaving(edges, t, met[c]) \subseteq Leaving(edges', t, met[c])
  BY PrefixLeaving
<1>5. Traversed(edges, t, s, DepthOf(c)) \subseteq Traversed(edges', t, s, DepthOf(c))
  BY <1>2, PrefixTraversed
<1>6. Queried(c)' = Queried(c)
  BY DEF Queried
<1>7. LookupInv(c) => LookupInv(c)'
  BY <1>1, <1>3, <1>4, <1>6 DEF LookupInv
<1>8. Bracketed(c) => Bracketed(c)'
  BY <1>1, <1>2, <1>5 DEF Bracketed
<1> QED BY <1>7, <1>8

(* A query finds all that the graph as it was has at the frontier, so the  *)
(* whole of what was met is closed after it.                               *)
LEMMA QueryCloses ==
  ASSUME TypedState, NEW c \in Tasks, LookupInv(c)
  PROVE  LET t == call[c].tenant_id
             s == call[c].start_node
         IN  /\ Leaving(Asked(c), t, met[c]) \subseteq path[c] \cup Found(c)
             /\ path[c] \cup Found(c) \subseteq Leaving(edges, t, met[c])
             /\ \A i \in Leaving(Asked(c), t, met[c]) :
                  Asked(c)[i].to \in met[c] \cup NewValues(c)
<1> DEFINE t == call[c].tenant_id
           s == call[c].start_node
<1>1. IsPrefixOf(Asked(c), edges)
  BY AskedIsPrefix
<1>2. frontier[c] \subseteq met[c]
  BY DEF TypedState
<1>3. Leaving(Asked(c), t, met[c])
        = Leaving(Asked(c), t, Queried(c)) \cup Leaving(Asked(c), t, frontier[c])
  BY <1>2 DEF Leaving, Queried
<1>4. Leaving(Asked(c), t, frontier[c]) \subseteq Found(c)
  BY <1>1, PrefixLeaving DEF Found
<1>5. Found(c) \subseteq Leaving(edges, t, met[c])
  BY <1>2 DEF Found, Leaving
<1>6. \A i \in Leaving(Asked(c), t, frontier[c]) : Asked(c)[i] = edges[i]
  BY <1>1 DEF IsPrefixOf, Leaving
<1>7. \A i \in Found(c) : edges[i].to \in met[c] \cup NewValues(c)
  BY DEF NewValues
<1> QED BY <1>3, <1>4, <1>5, <1>6, <1>7 DEF LookupInv

LEMMA HopKeeps ==
  ASSUME TypedState, NEW c \in Tasks, LookupInv(c), Hop(c)
  PROVE  pc'[c] = "lookup" /\ LookupInv(c)'
<1> DEFINE t == call[c].tenant_id
           s == call[c].start_node
           known == met[c] \cup NewValues(c)
<1>1. /\ edges' = edges /\ call' = call /\ pc' = pc /\ began' = began /\ pc[c] = "lookup"
      /\ path'[c] = path[c] \cup Found(c) /\ hop'[c] = hop[c] + 1
      /\ frontier'[c] = NewValues(c) /\ met'[c] = known
  BY DEF Hop, Collect, TypedState
<1>2. Asked(c)' = Asked(c)
  BY <1>1 DEF Asked
<1>3. Queried(c)' = met[c]
  BY <1>1 DEF Queried, NewValues
<1>4. hop[c] \in Nat
  BY DEF TypedState
<1>5. /\ Leaving(Asked(c), t, met[c]) \subseteq path[c] \cup Found(c)
      /\ path[c] \cup Found(c) \subseteq Leaving(edges, t, met[c])
      /\ \A i \in Leaving(Asked(c), t, met[c]) : Asked(c)[i].to \in known
  BY QueryCloses
<1>6. Within(Asked(c), t, s, hop[c] + 1) \subseteq known
  <2> DEFINE before == Within(Asked(c), t, s, hop[c])
  <2>1. Within(Asked(c), t, s, hop[c] + 1) = Onward(Asked(c), t, before)
    BY <1>4, WithinNext
  <2>2. before \subseteq met[c]
    BY DEF LookupInv
  <2> HIDE DEF before
  <2>3. Leaving(Asked(c), t, before) \subseteq Leaving(Asked(c), t, met[c])
    BY <2>2 DEF Leaving
  <2> QED BY <1>5, <2>1, <2>2, <2>3 DEF Onward
<1>7. known \subseteq Within(edges, t, s, hop[c] + 1)
  <2> DEFINE now == Within(edges, t, s, hop[c])
  <2>1. Within(edges, t, s, hop[c] + 1) = Onward(edges, t, now)
    BY <1>4, WithinNext
  <2>2. met[c] \subseteq now
    BY DEF LookupInv
  <2> HIDE DEF now
  <2>3. Found(c) \subseteq Leaving(edges, t, now)
    BY <2>2 DEF Found, Leaving, TypedState
  <2> QED BY <2>1, <2>2, <2>3 DEF Onward, NewValues
<1>8. Leaving(edges, t, met[c]) \subseteq Leaving(edges, t, known)
  BY DEF Leaving
<1>9. s \in known
  BY DEF LookupInv
<1> HIDE DEF known
<1> QED BY <1>1, <1>2, <1>3, <1>5, <1>6, <1>7, <1>8, <1>9 DEF LookupInv

LEMMA LastHopBrackets ==
  ASSUME TypedState, NEW c \in Tasks, LookupInv(c), LastHop(c)
  PROVE  pc'[c] = "ok" /\ Bracketed(c)'
<1> DEFINE t == call[c].tenant_id
           s == call[c].start_node
           d == DepthOf(c)
<1>1. /\ edges' = edges /\ call' = call /\ began' = began /\ pc'[c] = "ok"
      /\ path'[c] = path[c] \cup Found(c)
      /\ hop[c] = maxDepth(c) \/ NewValues(c) = {}
  BY DEF LastHop, Collect, Goto, TypedState
<1>2. Asked(c)' = Asked(c) /\ DepthOf(c)' = d
  BY <1>1 DEF Asked, DepthOf
<1>3. d \in Nat /\ d # 0 /\ d - 1 = maxDepth(c) /\ hop[c] \in Nat /\ d - 1 \in Nat
      /\ hop[c] <= d - 1
  BY DepthOfCall
<1> HIDE DEF d
<1>4. /\ Leaving(Asked(c), t, met[c]) \subseteq path[c] \cup Found(c)
      /\ path[c] \cup Found(c) \subseteq Leaving(edges, t, met[c])
      /\ \A i \in Leaving(Asked(c), t, met[c]) : Asked(c)[i].to \in met[c] \cup NewValues(c)
  BY QueryCloses
<1>5. Within(Asked(c), t, s, d - 1) \subseteq met[c]
  <2>1. CASE hop[c] = maxDepth(c)
    BY <2>1, <1>3 DEF LookupInv
  <2>2. CASE NewValues(c) = {}
    <3>1. \A i \in Leaving(Asked(c), t, met[c]) : Asked(c)[i].to \in met[c]
      BY <2>2, <1>4
    <3>2. s \in met[c]
      BY DEF LookupInv
    <3> QED BY <3>1, <3>2, <1>3, WithinInside
  <2> QED BY <2>1, <2>2, <1>1
<1>6. met[c] \subseteq Within(edges, t, s, d - 1)
  <2>1. met[c] \subseteq Within(edges, t, s, hop[c])
    BY DEF LookupInv
  <2> QED BY <2>1, <1>3, WithinGrows
<1>7. Traversed(Asked(c), t, s, d) \subseteq path[c] \cup Found(c)
  BY <1>3, <1>4, <1>5 DEF Traversed, Leaving
<1>8. path[c] \cup Found(c) \subseteq Traversed(edges, t, s, d)
  BY <1>3, <1>4, <1>6 DEF Traversed, Leaving
<1> QED BY <1>1, <1>2, <1>7, <1>8 DEF Bracketed

LEMMA TraverseStarts ==
  ASSUME TypedState, NEW c \in Tasks, NEW args \in Call, traverse(c, args)
  PROVE  pc'[c] # "ok" /\ LookupInv(c)'
<1>1. /\ call'[c] = args /\ pc'[c] \in {"lookup", "unsupported"} /\ hop'[c] = 0
      /\ frontier'[c] = {args.start_node} /\ met'[c] = {args.start_node} /\ path'[c] = {}
  BY DEF traverse, Goto, TypedState
<1>2. Queried(c)' = {}
  BY <1>1 DEF Queried
<1>3. \A E, t : Leaving(E, t, {}) = {}
  BY DEF Leaving
<1> QED BY <1>1, <1>2, <1>3, WithinStart DEF LookupInv

LEMMA LookupsStep ==
  ASSUME TypedState, LookupsInv, [Next]_vars
  PROVE  LookupsInv'
<1>1. edges' \in Seq(EdgeDocument) /\ IsPrefixOf(edges, edges')
  BY EdgesOnlyAdded
<1>2. ASSUME NEW d \in Tasks, call'[d] = call[d], pc'[d] = pc[d], hop'[d] = hop[d],
             began'[d] = began[d], frontier'[d] = frontier[d], met'[d] = met[d],
             path'[d] = path[d]
      PROVE  (pc'[d] = "lookup" => LookupInv(d)') /\ (pc'[d] = "ok" => Bracketed(d)')
  BY <1>1, <1>2, OthersKeep DEF LookupsInv
<1>3. CASE UNCHANGED callVars
  BY <1>2, <1>3 DEF callVars, LookupsInv
<1>4. ASSUME NEW c \in Tasks,
             (\E args \in Call : traverse(c, args)) \/ Hop(c) \/ LastHop(c) \/ Disconnect(c)
      PROVE  LookupsInv'
  <2>1. ASSUME NEW d \in Tasks, d # c
        PROVE  /\ call'[d] = call[d] /\ pc'[d] = pc[d] /\ hop'[d] = hop[d]
               /\ began'[d] = began[d] /\ frontier'[d] = frontier[d] /\ met'[d] = met[d]
               /\ path'[d] = path[d]
    BY <1>4, <2>1 DEF traverse, Hop, LastHop, Disconnect, Collect, Goto, TypedState
  <2>2. (pc'[c] = "lookup" => LookupInv(c)') /\ (pc'[c] = "ok" => Bracketed(c)')
    <3>1. ASSUME NEW args \in Call, traverse(c, args) PROVE pc'[c] # "ok" /\ LookupInv(c)'
      BY <3>1, TraverseStarts
    <3>2. CASE Hop(c)
      <4>1. LookupInv(c)
        BY <3>2 DEF LookupsInv, Hop
      <4> QED BY <3>2, <4>1, HopKeeps
    <3>3. CASE LastHop(c)
      <4>1. LookupInv(c)
        BY <3>3 DEF LookupsInv, LastHop
      <4> QED BY <3>3, <4>1, LastHopBrackets
    <3>4. CASE Disconnect(c)
      BY <3>4 DEF Disconnect, Goto, TypedState
    <3> QED BY <1>4, <3>1, <3>2, <3>3, <3>4
  <2> QED BY <1>2, <2>1, <2>2 DEF LookupsInv
<1>5. UNCHANGED vars => UNCHANGED callVars
  BY DEF vars, callVars
<1>6. \A document \in EdgeDocument : add_edge(document) => UNCHANGED callVars
  BY DEF add_edge
<1> QED BY <1>3, <1>4, <1>5, <1>6 DEF Next

(***************************************************************************)
(* No edge that was within reach when a traversal was called is missed,    *)
(* and none is answered that is not within reach, whatever is inserted     *)
(* between the server's queries and wherever they stop (graph.rs:103-126). *)
(***************************************************************************)
THEOREM TraversalsAreBracketed == Spec => []TraversalBracketed
<1>1. Init => LookupsInv
  BY DEF Init, LookupsInv
<1>2. TypedState /\ LookupsInv /\ [Next]_vars => LookupsInv'
  BY LookupsStep
<1>3. LookupsInv => TraversalBracketed
  BY DEF LookupsInv, Bracketed, Asked, DepthOf, TraversalBracketed
<1> QED BY <1>1, <1>2, <1>3, TypedAlways, PTL DEF Spec
=============================================================================
