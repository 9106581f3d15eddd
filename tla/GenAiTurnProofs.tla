-------------------------- MODULE GenAiTurnProofs --------------------------
(***************************************************************************)
(* Proofs about Knowledge and about GenAiTurn, which extends it, for any   *)
(* tenants, chunks, graph, tools and number of concurrent retrievals and   *)
(* turns, whatever is written between two awaits, fails or is dropped; and *)
(* about Tools, the native tools that a turn runs and their registry.      *)
(***************************************************************************)
EXTENDS GenAiTurn, Tools, OperatorLemmas

USE DEF Ended, Running

(* What the search found: chunks of the caller that were stored then,      *)
(* each once and best first.                                               *)
Ranked(c, hits) ==
  /\ hits \in Seq(ChunkIds)
  /\ \A i \in 1..Len(hits) : hits[i] \in ChunksOf(tenant[c])
  /\ \A i, j \in 1..Len(hits) :
       i < j => hits[i] # hits[j] /\ Similarity[hits[i]] >= Similarity[hits[j]]

LEMMA AppendFacts ==
  ASSUME NEW S, NEW s \in Seq(S), NEW x \in S
  PROVE  /\ Append(s, x) \in Seq(S)
         /\ Len(Append(s, x)) = Len(s) + 1
         /\ \A i \in 1..Len(s) : Append(s, x)[i] = s[i]
         /\ Append(s, x)[Len(s) + 1] = x
  OBVIOUS

(* IsRanking of module TenantStore, for the store the retrieval sees.      *)
LEMMA RankingFacts ==
  ASSUME NEW c \in Tasks, TypeOK,
         NEW hits \in SeqOf(ChunksOf(tenant[c]), TopK),
         Vectors!IsRanking(tenant[c], "question", TopK, hits)
  PROVE  Ranked(c, hits)
<1>1. hits \in Seq(ChunkIds) /\ \A i \in 1..Len(hits) : hits[i] \in ChunksOf(tenant[c])
  <2>1. PICK m \in 0..TopK : hits \in [1..m -> ChunksOf(tenant[c])]
    BY DEF SeqOf
  <2>2. m \in Nat
    BY KnowledgeAssumption, <2>1
  <2>3. hits \in Seq(ChunksOf(tenant[c])) /\ Len(hits) = m
    BY <2>1, <2>2
  <2>4. ChunksOf(tenant[c]) \subseteq ChunkIds
    BY DEF ChunksOf, TypeOK
  <2> QED BY <2>1, <2>3, <2>4
<1>2. DOMAIN hits = 1..Len(hits)
  BY <1>1
<1>3. ASSUME NEW i \in 1..Len(hits), NEW j \in 1..Len(hits), i < j
      PROVE  hits[i] # hits[j] /\ Similarity[hits[i]] >= Similarity[hits[j]]
  BY <1>1, <1>2, <1>3 DEF Vectors!IsRanking, SimilarityTo, TypeOK
<1> QED
  BY <1>1, <1>3 DEF Ranked

-----------------------------------------------------------------------------
(***************************************************************************)
(* What a step does to a retrieval: the items are built from the matches   *)
(* in their order, the matches never change after the search, and the      *)
(* edges an item was given are its tenant's for good, edges being added at *)
(* the end only.                                                           *)
(***************************************************************************)
OwnOf(c) ==
  /\ pc[c] = "search" => items[c] = <<>>
  /\ \A i \in 1..Len(matches[c]) :
       /\ OwnerOf[matches[c][i]] = tenant[c]
       /\ matches[c][i] \in began[c].chunks
  /\ \A i, j \in 1..Len(matches[c]) :
       i < j => /\ matches[c][i] # matches[c][j]
                /\ Similarity[matches[c][i]] >= Similarity[matches[c][j]]
  /\ \A i \in 1..Len(items[c]) :
       /\ items[c][i].chunk_id = matches[c][i]
       /\ \A k \in items[c][i].related_edges : edges[k].tenant_id = tenant[c]

OwnInv == \A c \in Tasks : OwnOf(c)

LEMMA TraversedFacts ==
  ASSUME NEW t, NEW s, NEW d
  PROVE  \A k \in Traversed(edges, t, s, d) : k \in 1..Len(edges) /\ edges[k].tenant_id = t
  BY DEF Traversed, Leaving

(* The step that gives the next match its item.                            *)
LEMMA PushStep ==
  ASSUME TypeOK, OwnInv, NEW c \in Tasks, pc[c] = "traverse",
         NEW how \in {"traversed", "failed", "unsupported"},
         NEW related \in SUBSET (1..Len(edges)),
         \A k \in related : edges[k].tenant_id = tenant[c],
         PushItem(c, related, how), UNCHANGED supports_traversal
  PROVE  TypeOK' /\ OwnInv'
<1> DEFINE item == [chunk_id |-> NextMatch(c), related_edges |-> related, graph |-> how]
<1>1. /\ matches[c] \in Seq(ChunkIds) /\ items[c] \in Seq(Item)
      /\ Len(items[c]) < Len(matches[c])
      /\ Len(items[c]) \in Nat /\ Len(matches[c]) \in Nat
  BY DEF TypeOK
<1>2. item \in Item
  BY <1>1 DEF NextMatch, Item
<1>3. items' = [items EXCEPT ![c] = Append(items[c], item)]
  BY DEF PushItem
<1> HIDE DEF item
<1>4. /\ items' \in [Tasks -> Seq(Item)]
      /\ Len(items'[c]) = Len(items[c]) + 1
      /\ \A i \in 1..Len(items[c]) : items'[c][i] = items[c][i]
      /\ items'[c][Len(items[c]) + 1] = item
      /\ \A d \in Tasks \ {c} : items'[d] = items[d]
  BY <1>1, <1>2, <1>3, AppendFacts DEF TypeOK
<1>5. /\ UNCHANGED <<stored, edges, tenant, matches, began>>
      /\ Item' = Item
      /\ pc' = [pc EXCEPT ![c] = IF Len(items[c]) + 1 = Len(matches[c]) THEN "done" ELSE "traverse"]
  BY DEF PushItem, Goto, Item
<1>6. TypeOK'
  <2>1. \A d \in Tasks :
          /\ Len(items'[d]) <= Len(matches[d])
          /\ pc'[d] = "search" => matches[d] = <<>>
          /\ pc'[d] = "traverse" => Len(items'[d]) < Len(matches[d])
          /\ pc'[d] = "done" => Len(items'[d]) = Len(matches[d])
    BY <1>1, <1>4, <1>5 DEF TypeOK
  <2>2. pc' \in [Tasks -> Ended \cup Running]
    BY <1>5 DEF TypeOK
  <2> QED BY <1>4, <1>5, <2>1, <2>2 DEF TypeOK
<1>7. OwnInv'
  <2>1. \A i \in 1..Len(items'[c]) :
          /\ items'[c][i].chunk_id = matches[c][i]
          /\ \A k \in items'[c][i].related_edges : edges[k].tenant_id = tenant[c]
    <3>1. /\ item.chunk_id = matches[c][Len(items[c]) + 1]
          /\ \A k \in item.related_edges : edges[k].tenant_id = tenant[c]
      BY DEF item, NextMatch
    <3>2. ASSUME NEW i \in 1..Len(items'[c])
          PROVE  i \in 1..Len(items[c]) \/ i = Len(items[c]) + 1
      BY <1>1, <1>4
    <3>3. \A i \in 1..Len(items[c]) :
            /\ items[c][i].chunk_id = matches[c][i]
            /\ \A k \in items[c][i].related_edges : edges[k].tenant_id = tenant[c]
      BY DEF OwnInv, OwnOf
    <3> QED BY <1>4, <3>1, <3>2, <3>3
  <2>2. pc'[c] # "search" /\ \A d \in Tasks \ {c} : pc'[d] = pc[d]
    BY <1>5 DEF TypeOK
  <2>3. ASSUME NEW d \in Tasks, NEW i \in 1..Len(items'[d])
        PROVE  /\ items'[d][i].chunk_id = matches[d][i]
               /\ \A k \in items'[d][i].related_edges : edges[k].tenant_id = tenant[d]
    BY <1>4, <2>1, <2>3 DEF OwnInv, OwnOf
  <2>4. \A d \in Tasks : pc'[d] = "search" => items'[d] = <<>>
    BY <1>4, <2>2 DEF OwnInv, OwnOf
  <2>5. ASSUME NEW d \in Tasks PROVE OwnOf(d)'
    <3>1. OwnOf(d) /\ UNCHANGED <<tenant, matches, began, edges>>
      BY <1>5 DEF OwnInv
    <3>2. /\ \A i \in 1..Len(matches'[d]) :
               /\ OwnerOf[matches'[d][i]] = tenant'[d]
               /\ matches'[d][i] \in began'[d].chunks
          /\ \A i, j \in 1..Len(matches'[d]) :
               i < j => /\ matches'[d][i] # matches'[d][j]
                        /\ Similarity[matches'[d][i]] >= Similarity[matches'[d][j]]
      BY <3>1 DEF OwnOf
    <3>3. \A i \in 1..Len(items'[d]) :
            /\ items'[d][i].chunk_id = matches'[d][i]
            /\ \A k \in items'[d][i].related_edges : edges'[k].tenant_id = tenant'[d]
      BY <2>3, <3>1
    <3> QED BY <2>4, <3>2, <3>3 DEF OwnOf
  <2> QED BY <2>5 DEF OwnInv
<1> QED
  BY <1>6, <1>7

(* A step of task c that leaves the stores alone and gives c the tenant t, *)
(* the matches hits, no items and the history seen.                        *)
Reset(c, t, hits, seen, label) ==
  /\ UNCHANGED <<supports_traversal, stored, edges>>
  /\ tenant' = [tenant EXCEPT ![c] = t]
  /\ matches' = [matches EXCEPT ![c] = hits]
  /\ items' = [items EXCEPT ![c] = <<>>]
  /\ began' = [began EXCEPT ![c] = seen]
  /\ Goto(c, label)

(* Hits that are chunks of t which the search saw, each once, best first.  *)
Sound(t, hits, seen) ==
  /\ hits \in Seq(ChunkIds)
  /\ seen \in [chunks : SUBSET ChunkIds, edges : 0..Len(edges)]
  /\ \A i \in 1..Len(hits) : OwnerOf[hits[i]] = t /\ hits[i] \in seen.chunks
  /\ \A i, j \in 1..Len(hits) :
       i < j => hits[i] # hits[j] /\ Similarity[hits[i]] >= Similarity[hits[j]]

Fits(hits, label) ==
  /\ label \in Ended \cup Running
  /\ label = "search" => hits = <<>>
  /\ label = "traverse" => 0 < Len(hits)
  /\ label = "done" => 0 = Len(hits)

(* What a task owns is kept by a step that leaves its variables and the    *)
(* edges alone, whatever the other tasks do.                               *)
LEMMA OwnKept ==
  ASSUME NEW d \in Tasks, OwnOf(d), edges' = edges,
         pc'[d] = pc[d], tenant'[d] = tenant[d], matches'[d] = matches[d],
         items'[d] = items[d], began'[d] = began[d]
  PROVE  OwnOf(d)'
BY DEF OwnOf

(* A step that starts or ends a retrieval of one task keeps the invariant. *)
LEMMA ResetStep ==
  ASSUME TypeOK, OwnInv, NEW c \in Tasks, NEW t \in Tenants,
         NEW hits, NEW seen, NEW label,
         Reset(c, t, hits, seen, label), Sound(t, hits, seen), Fits(hits, label)
  PROVE  TypeOK' /\ OwnInv'
<1> USE DEF Reset, Sound, Fits
<1>1. Item' = Item /\ <<>> \in Seq(Item) /\ Len(<<>>) = 0
  BY DEF Item
<1>2. TypeOK'
  <2>1. \A d \in Tasks :
          /\ Len(items'[d]) <= Len(matches'[d])
          /\ pc'[d] = "search" => matches'[d] = <<>>
          /\ pc'[d] = "traverse" => Len(items'[d]) < Len(matches'[d])
          /\ pc'[d] = "done" => Len(items'[d]) = Len(matches'[d])
    BY <1>1 DEF TypeOK, Goto
  <2> QED BY <1>1, <2>1 DEF TypeOK, Goto
<1>3. OwnInv'
  <2>1. \A d \in Tasks \ {c} : /\ pc'[d] = pc[d] /\ tenant'[d] = tenant[d]
                              /\ matches'[d] = matches[d] /\ items'[d] = items[d]
                              /\ began'[d] = began[d]
    BY DEF TypeOK, Goto
  <2>2. /\ pc'[c] = label /\ tenant'[c] = t /\ matches'[c] = hits
        /\ items'[c] = <<>> /\ began'[c] = seen
    BY DEF TypeOK, Goto
  <2>3. edges' = edges
    OBVIOUS
  <2>4. ASSUME NEW d \in Tasks \ {c} PROVE OwnOf(d)'
    <3>1. OwnOf(d)
      BY DEF OwnInv
    <3>2. /\ pc'[d] = pc[d] /\ tenant'[d] = tenant[d] /\ matches'[d] = matches[d]
          /\ items'[d] = items[d] /\ began'[d] = began[d]
      BY <2>1
    <3> HIDE DEF Reset, Sound, Fits
    <3> QED BY <2>3, <3>1, <3>2, OwnKept
  <2>5. OwnOf(c)'
    <3>1. \A i \in 1..Len(hits) : OwnerOf[hits[i]] = t /\ hits[i] \in seen.chunks
      OBVIOUS
    <3>2. \A i, j \in 1..Len(hits) :
            i < j => hits[i] # hits[j] /\ Similarity[hits[i]] >= Similarity[hits[j]]
      OBVIOUS
    <3> HIDE DEF Reset, Sound, Fits
    <3> QED BY <1>1, <2>2, <3>1, <3>2 DEF OwnOf
  <2> HIDE DEF Reset, Sound, Fits
  <2> QED BY <2>4, <2>5 DEF OwnInv
<1> QED
  BY <1>2, <1>3

(* A step of the writers: the retrievals stay, the edges only grow.        *)
LEMMA WriteStep ==
  ASSUME TypeOK, OwnInv, Write, UNCHANGED supports_traversal
  PROVE  TypeOK' /\ OwnInv'
<1>1. UNCHANGED callVars
  BY DEF Write, upsert, delete_document, add_edge
<1>2. stored' \subseteq ChunkIds
  BY DEF Write, upsert, delete_document, add_edge, TypeOK
<1>3. /\ edges' \in Seq(Edge) /\ Len(edges) <= Len(edges')
      /\ \A k \in 1..Len(edges) : edges'[k] = edges[k]
  <2>1. CASE UNCHANGED edges
    BY <2>1 DEF TypeOK
  <2>2. ASSUME NEW edge \in Edge, add_edge(edge)
        PROVE  /\ edges' \in Seq(Edge) /\ Len(edges) <= Len(edges')
               /\ \A k \in 1..Len(edges) : edges'[k] = edges[k]
    <3>1. edges \in Seq(Edge) /\ edges' = Append(edges, edge)
      BY <2>2 DEF add_edge, TypeOK
    <3> QED BY <3>1, AppendFacts
  <2> QED BY <2>1, <2>2 DEF Write, upsert, delete_document
<1>4. Len(edges) \in Nat /\ Len(edges') \in Nat
  BY <1>3 DEF TypeOK
<1>5. TypeOK'
  <2>1. Item \subseteq Item'
    BY <1>3, <1>4 DEF Item
  <2>2. items' \in [Tasks -> Seq(Item')]
    BY <1>1, <2>1 DEF TypeOK, callVars
  <2>3. began' \in [Tasks -> [chunks : SUBSET ChunkIds, edges : 0..Len(edges')]]
    BY <1>1, <1>3, <1>4 DEF TypeOK, callVars
  <2> QED BY <1>1, <1>2, <1>3, <2>2, <2>3 DEF TypeOK, callVars
<1>6. OwnInv'
  <2>1. \A c \in Tasks : \A i \in 1..Len(items[c]) : \A k \in items[c][i].related_edges :
          k \in 1..Len(edges)
    <3>1. ASSUME NEW c \in Tasks, NEW i \in 1..Len(items[c]) PROVE items[c][i] \in Item
      <4>1. items[c] \in Seq(Item)
        BY DEF TypeOK
      <4> QED BY <4>1
    <3> QED BY <3>1 DEF Item
  <2>2. \A c \in Tasks : \A i \in 1..Len(items[c]) : \A k \in items[c][i].related_edges :
          edges'[k].tenant_id = tenant[c]
    BY <1>3, <2>1, SMTT(30) DEF OwnInv, OwnOf
  <2> QED BY <1>1, <2>2 DEF OwnInv, OwnOf, callVars
<1> QED
  BY <1>5, <1>6

LEMMA RetrievalStep ==
  ASSUME TypeOK, OwnInv, [Next]_vars
  PROVE  TypeOK' /\ OwnInv'
<1> USE KnowledgeAssumption
<1>1. CASE UNCHANGED vars
  <2>1. Item' = Item
    BY <1>1 DEF vars, Item
  <2>2. TypeOK'
    BY <1>1, <2>1 DEF vars, TypeOK
  <2>3. OwnInv'
    BY <1>1 DEF vars, OwnInv, OwnOf
  <2> QED BY <2>2, <2>3
<1> SUFFICES ASSUME Next PROVE TypeOK' /\ OwnInv'
  BY <1>1
<1>2. UNCHANGED supports_traversal
  BY DEF Next
<1> DEFINE Unseen == [chunks |-> {}, edges |-> 0]
<1>3. \A c \in Tasks : tenant[c] \in Tenants
  BY DEF TypeOK
<1>4. \A t : Sound(t, <<>>, Unseen)
  <2>1. Unseen \in [chunks : SUBSET ChunkIds, edges : 0..Len(edges)]
    BY DEF TypeOK
  <2> QED BY <2>1 DEF Sound
<1> HIDE DEF Unseen
<1>5. ASSUME NEW c \in Tasks, NEW t \in Tenants, retrieve(c, t)
      PROVE  TypeOK' /\ OwnInv'
  <2> DEFINE label == IF t \in Readers THEN "search" ELSE "unauthorized"
  <2>1. Reset(c, t, <<>>, Unseen, label)
    BY <1>2, <1>5 DEF Reset, retrieve, storeVars, Unseen
  <2>2. Fits(<<>>, label)
    BY DEF Fits
  <2> HIDE DEF label
  <2> QED BY <1>4, <2>1, <2>2, ResetStep
<1>6. ASSUME NEW c \in Tasks, SearchSucceeds(c)
      PROVE  TypeOK' /\ OwnInv'
  <2>1. PICK hits \in SeqOf(ChunksOf(tenant[c]), TopK) :
          /\ Vectors!IsRanking(tenant[c], "question", TopK, hits)
          /\ matches' = [matches EXCEPT ![c] = hits]
          /\ Goto(c, IF hits = <<>> THEN "done" ELSE "traverse")
    BY <1>6 DEF SearchSucceeds
  <2> DEFINE label == IF hits = <<>> THEN "done" ELSE "traverse"
             seen == [chunks |-> ChunksOf(tenant[c]), edges |-> Len(edges)]
  <2>2. Ranked(c, hits)
    BY <2>1, RankingFacts
  <2>3. Fits(hits, label)
    BY <2>2 DEF Ranked, Fits
  <2>4. Sound(tenant[c], hits, seen)
    <3>1. /\ seen \in [chunks : SUBSET ChunkIds, edges : 0..Len(edges)]
          /\ seen.chunks = ChunksOf(tenant[c])
      BY DEF TypeOK, ChunksOf
    <3>2. \A x \in ChunksOf(tenant[c]) : OwnerOf[x] = tenant[c]
      BY DEF ChunksOf
    <3> HIDE DEF seen
    <3> QED BY <2>2, <3>1, <3>2 DEF Ranked, Sound
  <2>5. Reset(c, tenant[c], hits, seen, label)
    <3>1. items = [items EXCEPT ![c] = <<>>]
      BY <1>6 DEF SearchSucceeds, OwnInv, OwnOf, TypeOK
    <3>2. tenant = [tenant EXCEPT ![c] = tenant[c]]
      BY DEF TypeOK
    <3> QED BY <1>2, <1>6, <2>1, <3>1, <3>2 DEF SearchSucceeds, Reset
  <2> HIDE DEF label, seen
  <2> QED BY <1>3, <2>3, <2>4, <2>5, ResetStep
<1>7. ASSUME NEW c \in Tasks, SearchFails(c)
      PROVE  TypeOK' /\ OwnInv'
  <2>1. pc[c] = "search" /\ matches[c] = <<>> /\ items[c] = <<>>
    BY <1>7 DEF SearchFails, TypeOK, OwnInv, OwnOf
  <2>2. Reset(c, tenant[c], <<>>, began[c], "failed")
    <3>1. /\ matches = [matches EXCEPT ![c] = <<>>]
          /\ items = [items EXCEPT ![c] = <<>>]
          /\ began = [began EXCEPT ![c] = began[c]]
          /\ tenant = [tenant EXCEPT ![c] = tenant[c]]
      BY <2>1 DEF TypeOK
    <3> QED BY <1>2, <1>7, <3>1 DEF SearchFails, Reset
  <2>3. Sound(tenant[c], <<>>, began[c])
    BY DEF TypeOK, Sound
  <2>4. Fits(<<>>, "failed")
    BY DEF Fits
  <2> QED BY <1>3, <2>2, <2>3, <2>4, ResetStep
<1>8. ASSUME NEW c \in Tasks, Drop(c)
      PROVE  TypeOK' /\ OwnInv'
  <2>1. Reset(c, tenant[c], <<>>, Unseen, "idle")
    <3>1. tenant = [tenant EXCEPT ![c] = tenant[c]]
      BY DEF TypeOK
    <3> QED BY <1>2, <1>8, <3>1 DEF Drop, Reset, Unseen
  <2>2. Fits(<<>>, "idle")
    BY DEF Fits
  <2> QED BY <1>3, <1>4, <2>1, <2>2, ResetStep
<1>9. ASSUME NEW c \in Tasks, TraverseMatch(c) \/ TraversalFails(c) \/ NoTraversal(c)
      PROVE  TypeOK' /\ OwnInv'
  <2> DEFINE related == Traversed(edges, tenant[c], chunk_id_as_node(NextMatch(c)), Depth)
  <2>1. /\ related \in SUBSET (1..Len(edges))
        /\ \A k \in related : edges[k].tenant_id = tenant[c]
    BY TraversedFacts
  <2> HIDE DEF related
  <2>2. pc[c] = "traverse"
    BY <1>9 DEF TraverseMatch, TraversalFails, NoTraversal
  <2>3. \/ PushItem(c, related, "traversed")
        \/ PushItem(c, {}, "failed")
        \/ PushItem(c, {}, "unsupported")
    BY <1>9 DEF TraverseMatch, TraversalFails, NoTraversal, related
  <2>4. ASSUME PushItem(c, related, "traversed") PROVE TypeOK' /\ OwnInv'
    BY <1>2, <2>1, <2>2, <2>4, PushStep
  <2>5. ASSUME NEW how \in {"failed", "unsupported"}, PushItem(c, {}, how)
        PROVE  TypeOK' /\ OwnInv'
    <3>1. {} \in SUBSET (1..Len(edges)) /\ \A k \in {} : edges[k].tenant_id = tenant[c]
      OBVIOUS
    <3> QED BY <1>2, <2>2, <2>5, <3>1, PushStep
  <2> QED BY <2>3, <2>4, <2>5
<1>10. CASE Write
  BY <1>2, <1>10, WriteStep
<1> QED
  BY <1>5, <1>6, <1>7, <1>8, <1>9, <1>10 DEF Next, Step

LEMMA RetrievalInit == Init => TypeOK /\ OwnInv
<1> SUFFICES ASSUME Init PROVE TypeOK /\ OwnInv
  OBVIOUS
<1>1. Len(edges) = 0 /\ edges \in Seq(Edge) /\ <<>> \in Seq(ChunkIds) /\ <<>> \in Seq(Item)
  BY DEF Init
<1>2. TypeOK
  BY <1>1 DEF Init, TypeOK
<1>3. OwnInv
  BY <1>1 DEF Init, OwnInv, OwnOf
<1> QED
  BY <1>2, <1>3

(***************************************************************************)
(* TypeOK holds in every reachable state: a retrieval never has more items *)
(* than matches, and as many when it is done (lib.rs:95-123).              *)
(***************************************************************************)
THEOREM TypeCorrect == Spec => []TypeOK
<1>1. TypeOK /\ OwnInv /\ [Next]_vars => TypeOK' /\ OwnInv'
  BY RetrievalStep
<1> QED
  BY <1>1, RetrievalInit, PTL DEF Spec

LEMMA RetrievalAlways == Spec => [](TypeOK /\ OwnInv)
<1>1. TypeOK /\ OwnInv /\ [Next]_vars => TypeOK' /\ OwnInv'
  BY RetrievalStep
<1> QED
  BY <1>1, RetrievalInit, PTL DEF Spec

(***************************************************************************)
(* Tenant isolation of the facade (lib.rs:74-76): every match, item and    *)
(* edge of a retrieval is its caller's, whatever other tenants write and   *)
(* retrieve between its awaits.                                            *)
(***************************************************************************)
THEOREM RetrievalIsIsolated == Spec => []OwnDataOnly
<1>1. ASSUME TypeOK, OwnInv PROVE OwnDataOnly
  <2>1. \A c \in Tasks : /\ DOMAIN matches[c] = 1..Len(matches[c])
                         /\ DOMAIN items[c] = 1..Len(items[c])
                         /\ Len(items[c]) <= Len(matches[c])
                         /\ Len(items[c]) \in Nat /\ Len(matches[c]) \in Nat
    BY <1>1 DEF TypeOK
  <2>2. \A c \in Tasks : \A i \in 1..Len(items[c]) : i \in 1..Len(matches[c])
    BY <2>1
  <2>3. \A c \in Tasks : \A i \in 1..Len(matches[c]) : OwnerOf[matches[c][i]] = tenant[c]
    BY <1>1 DEF OwnInv, OwnOf
  <2>4. ASSUME NEW c \in Tasks, NEW i \in 1..Len(items[c])
        PROVE  /\ OwnerOf[items[c][i].chunk_id] = tenant[c]
               /\ \A k \in items[c][i].related_edges : edges[k].tenant_id = tenant[c]
    <3>1. /\ items[c][i].chunk_id = matches[c][i]
          /\ \A k \in items[c][i].related_edges : edges[k].tenant_id = tenant[c]
      BY <1>1 DEF OwnInv, OwnOf
    <3> QED BY <2>2, <2>3, <3>1
  <2> QED BY <2>1, <2>3, <2>4 DEF OwnDataOnly
<1> QED
  BY <1>1, RetrievalAlways, PTL

-----------------------------------------------------------------------------
(***************************************************************************)
(* The number of hits of an exhaustive search, for EveryHitIsReturned.     *)
(***************************************************************************)
Wanted(S) == IF TopK < Cardinality(S) THEN TopK ELSE Cardinality(S)

SizeInv ==
  /\ IsFiniteSet(stored)
  /\ \A c \in Tasks :
       pc[c] \in {"traverse", "done"} /\ Exact => Len(matches[c]) = Wanted(began[c].chunks)

(* A sequence without repetition has as many members as it is long.        *)
LEMMA DistinctMembers ==
  ASSUME NEW S, NEW s \in Seq(S),
         \A i, j \in 1..Len(s) : i < j => s[i] # s[j]
  PROVE  Cardinality({s[i] : i \in DOMAIN s}) = Len(s)
<1> DEFINE found == {s[i] : i \in DOMAIN s}
           f == [i \in 1..Len(s) |-> s[i]]
<1>1. DOMAIN s = 1..Len(s) /\ Len(s) \in Nat
  OBVIOUS
<1>2. \A i, j \in 1..Len(s) : s[i] = s[j] => i = j
  BY <1>1
<1>3. f \in Bijection(1..Len(s), found)
  BY <1>1, <1>2 DEF Bijection, Injection, Surjection, IsInjective
<1>4. ExistsBijection(1..Len(s), found)
  BY <1>3 DEF ExistsBijection
<1> HIDE DEF found
<1>5. Cardinality(found) = Len(s)
  BY <1>1, <1>4, FS_CountingElements
<1> QED
  BY <1>5 DEF found

(* An exhaustive search returns top_k of the tenant's chunks or all.       *)
LEMMA RankingSize ==
  ASSUME NEW c \in Tasks, TypeOK, IsFiniteSet(stored), Exact,
         NEW hits \in SeqOf(ChunksOf(tenant[c]), TopK),
         Vectors!IsRanking(tenant[c], "question", TopK, hits)
  PROVE  Len(hits) = Wanted(ChunksOf(tenant[c]))
<1> DEFINE mine == ChunksOf(tenant[c])
           found == {hits[i] : i \in DOMAIN hits}
<1>1. Ranked(c, hits)
  BY RankingFacts
<1>2. IsFiniteSet(mine) /\ Cardinality(mine) \in Nat
  BY FS_Subset, FS_CardinalityType DEF ChunksOf
<1>3. Cardinality(found) = Len(hits)
  BY <1>1, DistinctMembers DEF Ranked
<1>4. /\ found \subseteq mine
      /\ Len(hits) <= TopK
      /\ Len(hits) < TopK => found = mine
  <2>1. DOMAIN [x \in mine |-> [document_id |-> DocumentOf[x], embedding |-> x]] = mine
    OBVIOUS
  <2>2. tenant[c] \in Tenants
    BY DEF TypeOK
  <2> QED BY <2>1, <2>2 DEF Vectors!IsRanking
<1>5. Len(hits) \in Nat
  BY <1>1 DEF Ranked
<1> HIDE DEF mine, found
<1>6. Cardinality(found) <= Cardinality(mine)
  BY <1>2, <1>4, FS_Subset
<1>7. Len(hits) = IF TopK < Cardinality(mine) THEN TopK ELSE Cardinality(mine)
  BY <1>2, <1>3, <1>4, <1>5, <1>6, KnowledgeAssumption
<1> QED
  BY <1>7 DEF mine, Wanted

LEMMA SizeStep ==
  ASSUME TypeOK, OwnInv, SizeInv, [Next]_vars
  PROVE  SizeInv'
<1>1. CASE UNCHANGED vars
  BY <1>1 DEF vars, SizeInv, Wanted
<1> SUFFICES ASSUME Next PROVE SizeInv'
  BY <1>1
<1>2. IsFiniteSet(stored')
  <2>1. CASE UNCHANGED stored
    BY <2>1 DEF SizeInv
  <2>2. ASSUME NEW x \in ChunkIds, upsert(x) PROVE IsFiniteSet(stored')
    BY <2>2, FS_AddElement DEF upsert, SizeInv
  <2>3. ASSUME NEW t, NEW d, delete_document(t, d) PROVE IsFiniteSet(stored')
    BY <2>3, FS_Subset DEF delete_document, SizeInv
  <2> QED
    BY <2>1, <2>2, <2>3 DEF Next, retrieve, storeVars, Step, SearchSucceeds, SearchFails,
      TraverseMatch, TraversalFails, NoTraversal, PushItem, Drop, Write, add_edge
(* A task that the step leaves with hits it had, or without any.           *)
<1> DEFINE Kept(c) == /\ pc'[c] \in {"traverse", "done"} => pc[c] \in {"traverse", "done"}
                      /\ pc'[c] \in {"traverse", "done"} =>
                           matches'[c] = matches[c] /\ began'[c] = began[c]
<1>3. ASSUME NEW c \in Tasks, NEW d \in Tasks, c # d,
             (\E t \in Tenants : retrieve(c, t)) \/ Step(c) \/ Drop(c)
      PROVE  Kept(d)
  BY <1>3 DEF retrieve, Step, SearchSucceeds, SearchFails, TraverseMatch, TraversalFails,
    NoTraversal, PushItem, Drop, Goto, TypeOK
<1>4. ASSUME NEW c \in Tasks,
             \/ \E t \in Tenants : retrieve(c, t)
             \/ SearchFails(c) \/ TraverseMatch(c) \/ TraversalFails(c) \/ NoTraversal(c)
             \/ Drop(c)
      PROVE  Kept(c)
  BY <1>4 DEF retrieve, SearchFails, TraverseMatch, TraversalFails,
    NoTraversal, PushItem, Drop, Goto, TypeOK
<1>5. ASSUME NEW c \in Tasks, SearchSucceeds(c), Exact
      PROVE  Len(matches'[c]) = Wanted(began'[c].chunks)
  <2>1. PICK hits \in SeqOf(ChunksOf(tenant[c]), TopK) :
          /\ Vectors!IsRanking(tenant[c], "question", TopK, hits)
          /\ matches' = [matches EXCEPT ![c] = hits]
    BY <1>5 DEF SearchSucceeds
  <2>2. Len(hits) = Wanted(ChunksOf(tenant[c]))
    BY <1>5, <2>1, RankingSize DEF SizeInv
  <2>3. matches'[c] = hits /\ began'[c].chunks = ChunksOf(tenant[c])
    BY <1>5, <2>1 DEF SearchSucceeds, TypeOK
  <2> QED BY <2>2, <2>3
<1>6. ASSUME Write, NEW c \in Tasks PROVE Kept(c)
  BY <1>6 DEF Write, upsert, delete_document, add_edge, callVars
<1>7. ASSUME NEW c \in Tasks
      PROVE  Kept(c) \/ (Exact => Len(matches'[c]) = Wanted(began'[c].chunks))
  BY <1>3, <1>4, <1>5, <1>6 DEF Next, Step
<1>8. \A c \in Tasks : pc'[c] \in {"traverse", "done"} /\ Exact =>
                         Len(matches'[c]) = Wanted(began'[c].chunks)
  BY <1>7 DEF SizeInv
<1> QED
  BY <1>2, <1>8 DEF SizeInv, Wanted

(***************************************************************************)
(* The answer of a finished retrieval is the ranking of what its tenant    *)
(* had stored when the search ran (lib.rs:95-120): best first, no chunk    *)
(* twice and, if the search is exhaustive, top_k of them or all.           *)
(***************************************************************************)
THEOREM AnswersAreRankings == Spec => []EveryHitIsReturned
<1>1. Init => SizeInv
  BY FS_EmptySet DEF Init, SizeInv
<1>2. TypeOK /\ OwnInv /\ SizeInv /\ [Next]_vars => SizeInv'
  BY SizeStep
<1>3. ASSUME TypeOK, OwnInv, SizeInv PROVE EveryHitIsReturned
  <2> SUFFICES ASSUME NEW c \in Tasks, pc[c] = "done"
               PROVE  LET found == {items[c][i].chunk_id : i \in DOMAIN items[c]}
                      IN  /\ found \subseteq began[c].chunks
                          /\ \A i, j \in DOMAIN items[c] :
                               i < j => /\ items[c][i].chunk_id # items[c][j].chunk_id
                                        /\ Similarity[items[c][i].chunk_id]
                                             >= Similarity[items[c][j].chunk_id]
                          /\ Exact => Len(items[c]) = Wanted(began[c].chunks)
    BY DEF EveryHitIsReturned, Wanted
  <2>1. /\ DOMAIN items[c] = 1..Len(matches[c])
        /\ Len(items[c]) = Len(matches[c])
    BY <1>3 DEF TypeOK
  <2>2. \A i \in DOMAIN items[c] : items[c][i].chunk_id = matches[c][i]
    BY <1>3, <2>1 DEF OwnInv, OwnOf
  <2>3. /\ \A i \in DOMAIN items[c] : matches[c][i] \in began[c].chunks
        /\ \A i, j \in DOMAIN items[c] :
             i < j => /\ matches[c][i] # matches[c][j]
                      /\ Similarity[matches[c][i]] >= Similarity[matches[c][j]]
    BY <1>3, <2>1 DEF OwnInv, OwnOf
  <2>4. Exact => Len(items[c]) = Wanted(began[c].chunks)
    BY <1>3, <2>1 DEF SizeInv
  <2>5. \A i \in DOMAIN items[c] : items[c][i].chunk_id \in began[c].chunks
    BY <2>2, <2>3
  <2>6. \A i, j \in DOMAIN items[c] :
          i < j => /\ items[c][i].chunk_id # items[c][j].chunk_id
                   /\ Similarity[items[c][i].chunk_id] >= Similarity[items[c][j].chunk_id]
    BY <2>2, <2>3
  <2> QED BY <2>4, <2>5, <2>6
<1> QED
  BY <1>1, <1>2, <1>3, RetrievalAlways, PTL DEF Spec

-----------------------------------------------------------------------------
(***************************************************************************)
(* The edges of an item.  What a walk returned was bracketed when the item *)
(* was built, since the edges had only been added to since the search, and *)
(* stays so, since they are only added to afterwards.                      *)
(***************************************************************************)
Before(c) == SubSeq(edges, 1, began[c].edges)

BracketedItem(c, item) ==
  item.graph = "traversed" =>
    LET node == chunk_id_as_node(item.chunk_id)
    IN  /\ Traversed(Before(c), tenant[c], node, Depth) \subseteq item.related_edges
        /\ item.related_edges \subseteq Traversed(edges, tenant[c], node, Depth)

LEMMA BeforeIsPrefix ==
  ASSUME TypeOK, NEW c \in Tasks
  PROVE  IsPrefixOf(Before(c), edges)
<1>1. edges \in Seq(Edge) /\ began[c].edges \in 0..Len(edges)
  BY DEF TypeOK
<1> QED BY <1>1 DEF Before, IsPrefixOf

(* The item that a traversal adds.                                         *)
LEMMA NewItemBracketed ==
  ASSUME TypeOK, NEW c \in Tasks, NEW item,
         item.graph = "traversed" =>
           item.related_edges
             = Traversed(edges, tenant[c], chunk_id_as_node(item.chunk_id), Depth)
  PROVE  BracketedItem(c, item)
<1>1. Depth \in Nat
  BY KnowledgeAssumption
<1>2. IsPrefixOf(Before(c), edges)
  BY BeforeIsPrefix
<1>3. \A node : Traversed(Before(c), tenant[c], node, Depth)
                  \subseteq Traversed(edges, tenant[c], node, Depth)
  BY <1>1, <1>2, PrefixTraversed
<1> QED BY <1>3 DEF BracketedItem

LEMMA SameStart ==
  ASSUME NEW S, NEW s \in Seq(S), NEW r \in Seq(S), NEW k \in 0..Len(s), Len(s) <= Len(r),
         \A i \in 1..Len(s) : r[i] = s[i]
  PROVE  SubSeq(r, 1, k) = SubSeq(s, 1, k)
OBVIOUS

(* The items of a task that a step leaves with its tenant and its history. *)
LEMMA ItemKept ==
  ASSUME TypeOK, NEW c \in Tasks, NEW item, BracketedItem(c, item),
         IsPrefixOf(edges, edges'), edges' \in Seq(Edge),
         tenant'[c] = tenant[c], began'[c] = began[c]
  PROVE  BracketedItem(c, item)'
<1>1. Before(c)' = Before(c)
  <2>1. /\ edges \in Seq(Edge) /\ began[c].edges \in 0..Len(edges)
        /\ edges' \in Seq(Edge) /\ Len(edges) <= Len(edges')
        /\ \A i \in 1..Len(edges) : edges'[i] = edges[i]
    BY DEF TypeOK, IsPrefixOf
  <2>2. SubSeq(edges', 1, began[c].edges) = SubSeq(edges, 1, began[c].edges)
    BY <2>1, SameStart
  <2> QED BY <2>2 DEF Before
<1>2. Depth \in Nat
  BY KnowledgeAssumption
<1>3. \A node : Traversed(edges, tenant[c], node, Depth)
                  \subseteq Traversed(edges', tenant[c], node, Depth)
  BY <1>2, PrefixTraversed
<1> QED BY <1>1, <1>3 DEF BracketedItem, chunk_id_as_node

BracketInv == \A c \in Tasks : \A i \in DOMAIN items[c] : BracketedItem(c, items[c][i])

LEMMA EdgesOnlyAdded ==
  ASSUME TypeOK, TypeOK', [Next]_vars
  PROVE  IsPrefixOf(edges, edges') /\ edges' \in Seq(Edge)
<1>1. edges \in Seq(Edge) /\ edges' \in Seq(Edge)
  BY DEF TypeOK
<1>2. UNCHANGED edges \/ \E edge \in Edge : add_edge(edge)
  BY DEF vars, Next, retrieve, storeVars, Step, SearchSucceeds, SearchFails, TraverseMatch,
    TraversalFails, NoTraversal, PushItem, Drop, Write, upsert, delete_document
<1>3. CASE UNCHANGED edges
  BY <1>1, <1>3 DEF IsPrefixOf
<1>4. ASSUME NEW edge \in Edge, add_edge(edge) PROVE IsPrefixOf(edges, edges')
  BY <1>1, <1>4, AppendFacts DEF add_edge, IsPrefixOf
<1> QED BY <1>1, <1>2, <1>3, <1>4

(* An item of the state after a step is one from before it, of a task that *)
(* kept its tenant and its history, or the one that a walk has just added. *)
Walked(c, item) ==
  item.graph = "traversed" =>
    item.related_edges = Traversed(edges, tenant[c], chunk_id_as_node(item.chunk_id), Depth)

KeptOrNew(c, i) ==
  \/ /\ i \in DOMAIN items[c] /\ items'[c][i] = items[c][i]
     /\ tenant'[c] = tenant[c] /\ began'[c] = began[c]
  \/ UNCHANGED <<edges, tenant, began>> /\ Walked(c, items'[c][i])

LEMMA PushKeepsOrAdds ==
  ASSUME TypeOK, NEW c \in Tasks, NEW related, NEW how,
         PushItem(c, related, how),
         how = "traversed" =>
           related = Traversed(edges, tenant[c], chunk_id_as_node(NextMatch(c)), Depth),
         NEW i \in DOMAIN items'[c]
  PROVE  KeptOrNew(c, i)
<1> DEFINE item == [chunk_id |-> NextMatch(c), related_edges |-> related, graph |-> how]
<1>1. UNCHANGED <<edges, tenant, began>>
  BY DEF PushItem
<1>2. items[c] \in Seq(Item) /\ items'[c] = Append(items[c], item)
  BY DEF PushItem, TypeOK
<1>3. Walked(c, item)
  BY DEF Walked
<1> HIDE DEF item
<1>4. \/ i \in DOMAIN items[c] /\ items'[c][i] = items[c][i]
      \/ items'[c][i] = item
  BY <1>2
<1> QED BY <1>1, <1>3, <1>4 DEF KeptOrNew

LEMMA ItemsAreKeptOrNew ==
  ASSUME TypeOK, OwnInv, [Next]_vars, NEW c \in Tasks, NEW i \in DOMAIN items'[c]
  PROVE  KeptOrNew(c, i)
<1> DEFINE Same(d) == items'[d] = items[d] /\ tenant'[d] = tenant[d] /\ began'[d] = began[d]
<1>1. CASE Same(c)
  BY <1>1 DEF KeptOrNew
<1>2. CASE items'[c] = <<>>
  BY <1>2
<1>3. ASSUME TraverseMatch(c) \/ TraversalFails(c) \/ NoTraversal(c)
      PROVE  KeptOrNew(c, i)
  <2>1. \/ PushItem(c, Traversed(edges, tenant[c], chunk_id_as_node(NextMatch(c)), Depth),
                    "traversed")
        \/ PushItem(c, {}, "failed")
        \/ PushItem(c, {}, "unsupported")
    BY <1>3 DEF TraverseMatch, TraversalFails, NoTraversal
  <2> QED BY <2>1, PushKeepsOrAdds
<1>4. ASSUME NEW d \in Tasks, d # c, (\E t \in Tenants : retrieve(d, t)) \/ Step(d) \/ Drop(d)
      PROVE  Same(c)
  BY <1>4 DEF retrieve, Step, SearchSucceeds, SearchFails, TraverseMatch, TraversalFails,
    NoTraversal, PushItem, Drop, TypeOK
<1>5. ASSUME (\E t \in Tenants : retrieve(c, t)) \/ Drop(c)
      PROVE  items'[c] = <<>>
  BY <1>5 DEF retrieve, Drop, TypeOK
<1>6. ASSUME SearchSucceeds(c) \/ SearchFails(c)
      PROVE  items'[c] = <<>>
  BY <1>6 DEF SearchSucceeds, SearchFails, OwnInv, OwnOf
<1>7. ASSUME Write \/ UNCHANGED vars
      PROVE  Same(c)
  BY <1>7 DEF Write, upsert, delete_document, add_edge, callVars, vars
<1> HIDE DEF Same
<1> QED
  BY <1>1, <1>2, <1>3, <1>4, <1>5, <1>6, <1>7 DEF Next, Step

LEMMA BracketStep ==
  ASSUME TypeOK, OwnInv, BracketInv, TypeOK', [Next]_vars
  PROVE  BracketInv'
<1> SUFFICES ASSUME NEW c \in Tasks, NEW i \in DOMAIN items'[c],
                    NEW item, item = items'[c][i]
             PROVE  BracketedItem(c, item)'
  BY DEF BracketInv
<1>1. IsPrefixOf(edges, edges') /\ edges' \in Seq(Edge)
  BY EdgesOnlyAdded
<1>2. CASE /\ i \in DOMAIN items[c] /\ items'[c][i] = items[c][i]
           /\ tenant'[c] = tenant[c] /\ began'[c] = began[c]
  <2>1. BracketedItem(c, item)
    BY <1>2 DEF BracketInv
  <2> QED BY <1>1, <1>2, <2>1, ItemKept
<1>3. CASE UNCHANGED <<edges, tenant, began>> /\ Walked(c, item)
  <2>1. BracketedItem(c, item)
    BY <1>3, NewItemBracketed DEF Walked
  <2> QED BY <1>3, <2>1 DEF BracketedItem, Before
<1> QED
  BY <1>2, <1>3, ItemsAreKeptOrNew DEF KeptOrNew

(***************************************************************************)
(* The edges of an item were read at some moment of its retrieval          *)
(* (lib.rs:102-110): none that was within reach when the search ran is     *)
(* missing, and none is out of reach now, for any graph, depth and writer. *)
(***************************************************************************)
THEOREM EdgesAreBracketed == Spec => []EdgesBracketed
<1>1. Init => BracketInv
  BY DEF Init, BracketInv
<1>2. TypeOK /\ OwnInv /\ BracketInv /\ TypeOK' /\ [Next]_vars => BracketInv'
  BY BracketStep
<1>3. BracketInv => EdgesBracketed
  BY DEF BracketInv, BracketedItem, Before, EdgesBracketed
<1> QED
  BY <1>1, <1>2, <1>3, RetrievalAlways, PTL DEF Spec

-----------------------------------------------------------------------------
(***************************************************************************)
(* The operator At: the function that it defines recursively exists, and   *)
(* is determined by the elements and the positions it is given.            *)
(***************************************************************************)
Taken(g, s, P, k) ==
  g = [i \in 0..k |-> IF i = 0 THEN <<>>
                      ELSE IF i \in P THEN Append(g[i - 1], s[i]) ELSE g[i - 1]]

TakeNext(before, s, P, i) == IF i \in P THEN Append(before, s[i]) ELSE before

LEMMA TakenValues ==
  ASSUME NEW g, NEW s, NEW P, NEW k \in Nat
  PROVE  Taken(g, s, P, k) <=>
           /\ g = [i \in 0..k |-> g[i]]
           /\ g[0] = <<>>
           /\ \A i \in 0..k : i # 0 => g[i] = TakeNext(g[i - 1], s, P, i)
<1> DEFINE Value(i) == IF i = 0 THEN <<>>
                       ELSE IF i \in P THEN Append(g[i - 1], s[i]) ELSE g[i - 1]
<1>1. Taken(g, s, P, k) <=> g = [i \in 0..k |-> Value(i)]
  BY DEF Taken
<1>2. Value(0) = <<>> /\ \A i \in 0..k : i # 0 => Value(i) = TakeNext(g[i - 1], s, P, i)
  BY DEF TakeNext
<1> HIDE DEF Value
<1>3. 0 \in 0..k
  OBVIOUS
<1>4. ASSUME g = [i \in 0..k |-> Value(i)]
      PROVE  g = [i \in 0..k |-> g[i]] /\ \A i \in 0..k : g[i] = Value(i)
  BY <1>4
<1>5. ASSUME g = [i \in 0..k |-> g[i]], \A i \in 0..k : g[i] = Value(i)
      PROVE  g = [i \in 0..k |-> Value(i)]
  BY <1>5
<1>6. (\A i \in 0..k : g[i] = Value(i)) <=>
        g[0] = <<>> /\ \A i \in 0..k : i # 0 => g[i] = TakeNext(g[i - 1], s, P, i)
  BY <1>2, <1>3
<1> QED BY <1>1, <1>4, <1>5, <1>6

LEMMA TakenExist ==
  ASSUME NEW s, NEW P
  PROVE  \A k \in Nat : \E g : Taken(g, s, P, k)
<1> DEFINE S == {k \in Nat : \E g : Taken(g, s, P, k)}
<1>1. 0 \in S
  <2> DEFINE g == [i \in 0..0 |-> <<>>]
  <2>1. g = [i \in 0..0 |-> g[i]] /\ g[0] = <<>> /\ \A i \in 0..0 : i = 0
    OBVIOUS
  <2> HIDE DEF g
  <2>2. Taken(g, s, P, 0)
    BY <2>1, TakenValues
  <2> QED BY <2>2
<1>2. ASSUME NEW k \in Nat, k \in S PROVE k + 1 \in S
  <2>1. PICK g : Taken(g, s, P, k)
    BY <1>2
  <2>2. g[0] = <<>> /\ \A i \in 0..k : i # 0 => g[i] = TakeNext(g[i - 1], s, P, i)
    BY <2>1, TakenValues
  <2> DEFINE h == [i \in 0..(k + 1) |-> IF i = k + 1 THEN TakeNext(g[k], s, P, k + 1) ELSE g[i]]
  <2>3. h = [i \in 0..(k + 1) |-> h[i]] /\ h[0] = <<>>
    BY <2>2
  <2>4. ASSUME NEW i \in 0..(k + 1), i # 0 PROVE h[i] = TakeNext(h[i - 1], s, P, i)
    <3>1. CASE i = k + 1
      <4>1. i - 1 = k /\ k \in 0..(k + 1) /\ k # k + 1
        BY <3>1
      <4> QED BY <3>1, <4>1
    <3>2. CASE i # k + 1
      <4>1. i \in 0..k /\ i - 1 \in 0..(k + 1) /\ i - 1 # k + 1
        BY <2>4, <3>2
      <4> QED BY <2>2, <2>4, <3>2, <4>1
    <3> QED BY <3>1, <3>2
  <2> HIDE DEF h
  <2>5. Taken(h, s, P, k + 1)
    <3>1. k + 1 \in Nat
      OBVIOUS
    <3> QED BY <2>3, <2>4, <3>1, TakenValues
  <2> QED BY <2>5
<1> HIDE DEF S
<1>3. Nat \subseteq S
  BY <1>1, <1>2, SetInduction
<1> QED BY <1>3 DEF S

LEMMA TakenAgree ==
  ASSUME NEW s, NEW r, NEW P, NEW Q, NEW k \in Nat, NEW m \in Nat, k <= m,
         \A i \in 1..k : s[i] = r[i] /\ (i \in P <=> i \in Q),
         NEW g, NEW h, Taken(g, s, P, k), Taken(h, r, Q, m)
  PROVE  g[k] = h[k]
<1> DEFINE S == {i \in Nat : i <= k => g[i] = h[i]}
<1>1. /\ g[0] = <<>> /\ \A i \in 0..k : i # 0 => g[i] = TakeNext(g[i - 1], s, P, i)
      /\ h[0] = <<>> /\ \A i \in 0..m : i # 0 => h[i] = TakeNext(h[i - 1], r, Q, i)
  BY TakenValues
<1>2. 0 \in S
  BY <1>1
<1>3. ASSUME NEW i \in Nat, i \in S PROVE i + 1 \in S
  <2> SUFFICES ASSUME i + 1 <= k PROVE g[i + 1] = h[i + 1]
    OBVIOUS
  <2>1. /\ g[i] = h[i] /\ i + 1 \in 0..k /\ i + 1 \in 0..m /\ i + 1 \in 1..k
        /\ i + 1 # 0 /\ (i + 1) - 1 = i
    BY <1>3
  <2>2. g[i + 1] = TakeNext(g[i], s, P, i + 1) /\ h[i + 1] = TakeNext(h[i], r, Q, i + 1)
    BY <1>1, <2>1
  <2>3. s[i + 1] = r[i + 1] /\ (i + 1 \in P <=> i + 1 \in Q)
    BY <2>1
  <2> QED BY <2>1, <2>2, <2>3 DEF TakeNext
<1> HIDE DEF S
<1>4. Nat \subseteq S
  BY <1>2, <1>3, SetInduction
<1> QED BY <1>4 DEF S

LEMMA AtIsTaken ==
  ASSUME NEW s, Len(s) \in Nat, NEW P
  PROVE  \E g : Taken(g, s, P, Len(s)) /\ At(s, P) = g[Len(s)]
<1>1. At(s, P) = (CHOOSE g : Taken(g, s, P, Len(s)))[Len(s)]
  BY DEF At, Taken
<1>2. \E g : Taken(g, s, P, Len(s))
  BY TakenExist
<1> QED BY <1>1, <1>2

LEMMA AtEmpty ==
  ASSUME NEW P
  PROVE  At(<<>>, P) = <<>>
<1>1. Len(<<>>) = 0
  OBVIOUS
<1>2. PICK g : Taken(g, <<>>, P, 0) /\ At(<<>>, P) = g[0]
  BY <1>1, AtIsTaken
<1> QED BY <1>2, TakenValues

LEMMA AtAppend ==
  ASSUME NEW S, NEW s \in Seq(S), NEW x \in S, NEW P, NEW Q,
         \A i \in 1..Len(s) : i \in P <=> i \in Q
  PROVE  /\ Len(s) + 1 \in Q => At(Append(s, x), Q) = Append(At(s, P), x)
         /\ Len(s) + 1 \notin Q => At(Append(s, x), Q) = At(s, P)
<1> DEFINE r == Append(s, x)
<1>1. /\ Len(s) \in Nat /\ Len(r) = Len(s) + 1 /\ r[Len(s) + 1] = x
      /\ \A i \in 1..Len(s) : r[i] = s[i]
  BY AppendFacts
<1> HIDE DEF r
<1>2. PICK g : Taken(g, s, P, Len(s)) /\ At(s, P) = g[Len(s)]
  BY <1>1, AtIsTaken
<1>3. PICK h : Taken(h, r, Q, Len(s) + 1) /\ At(r, Q) = h[Len(s) + 1]
  <2>1. Len(r) \in Nat
    BY <1>1
  <2> QED BY <1>1, <2>1, AtIsTaken
<1>4. g[Len(s)] = h[Len(s)]
  <2>1. Len(s) + 1 \in Nat /\ Len(s) <= Len(s) + 1
    BY <1>1
  <2> QED BY <1>1, <1>2, <1>3, <2>1, TakenAgree
<1>5. h[Len(s) + 1] = TakeNext(h[Len(s)], r, Q, Len(s) + 1)
  <2>1. /\ Len(s) + 1 \in Nat /\ Len(s) + 1 \in 0..(Len(s) + 1) /\ Len(s) + 1 # 0
        /\ (Len(s) + 1) - 1 = Len(s)
    BY <1>1
  <2>2. h[Len(s) + 1] = TakeNext(h[(Len(s) + 1) - 1], r, Q, Len(s) + 1)
    BY <1>3, <2>1, TakenValues
  <2> QED BY <2>1, <2>2
<1>6. At(r, Q) = TakeNext(At(s, P), r, Q, Len(s) + 1)
  BY <1>2, <1>3, <1>4, <1>5
<1> QED BY <1>1, <1>6 DEF TakeNext, r

LEMMA AtIsSeq ==
  ASSUME NEW S, NEW s \in Seq(S), NEW P
  PROVE  At(s, P) \in Seq(S)
<1>1. PICK g : Taken(g, s, P, Len(s)) /\ At(s, P) = g[Len(s)]
  <2>1. Len(s) \in Nat
    OBVIOUS
  <2> QED BY <2>1, AtIsTaken
<1>2. g[0] = <<>> /\ \A i \in 0..Len(s) : i # 0 => g[i] = TakeNext(g[i - 1], s, P, i)
  BY <1>1, TakenValues
<1> DEFINE T == {i \in Nat : i <= Len(s) => g[i] \in Seq(S)}
<1>3. 0 \in T
  <2>1. <<>> \in Seq(S)
    OBVIOUS
  <2> QED BY <1>2, <2>1
<1>4. ASSUME NEW i \in Nat, i \in T PROVE i + 1 \in T
  <2> SUFFICES ASSUME i + 1 <= Len(s) PROVE g[i + 1] \in Seq(S)
    OBVIOUS
  <2>1. g[i] \in Seq(S) /\ i + 1 \in 0..Len(s) /\ i + 1 \in 1..Len(s) /\ (i + 1) - 1 = i
    BY <1>4
  <2>2. g[i + 1] = TakeNext(g[i], s, P, i + 1) /\ s[i + 1] \in S
    BY <1>2, <2>1
  <2> QED BY <2>1, <2>2 DEF TakeNext
<1> HIDE DEF T
<1>5. Nat \subseteq T
  BY <1>3, <1>4, SetInduction
<1>6. Len(s) \in T
  BY <1>5
<1> QED BY <1>1, <1>6 DEF T

(* The positions from n + 1 on.                                            *)
LEMMA AtTail ==
  ASSUME NEW S, NEW s \in Seq(S), NEW n \in 0..Len(s), NEW P,
         \A i \in 1..Len(s) : i \in P <=> n < i
  PROVE  /\ Len(At(s, P)) = Len(s) - n
         /\ \A j \in 1..(Len(s) - n) : At(s, P)[j] = s[n + j]
<1>1. PICK g : Taken(g, s, P, Len(s)) /\ At(s, P) = g[Len(s)]
  <2>1. Len(s) \in Nat
    OBVIOUS
  <2> QED BY <2>1, AtIsTaken
<1>2. g[0] = <<>> /\ \A i \in 0..Len(s) : i # 0 => g[i] = TakeNext(g[i - 1], s, P, i)
  BY <1>1, TakenValues
<1> DEFINE Ending(i) == IF i <= n THEN g[i] = <<>>
                      ELSE /\ g[i] \in Seq(S) /\ Len(g[i]) = i - n
                           /\ \A j \in 1..(i - n) : g[i][j] = s[n + j]
           T == {i \in Nat : i <= Len(s) => Ending(i)}
<1>3. 0 \in T
  BY <1>2
<1>4. ASSUME NEW i \in Nat, i \in T PROVE i + 1 \in T
  <2> SUFFICES ASSUME i + 1 <= Len(s) PROVE Ending(i + 1)
    OBVIOUS
  <2>1. Ending(i) /\ i + 1 \in 0..Len(s) /\ i + 1 \in 1..Len(s) /\ (i + 1) - 1 = i
    BY <1>4
  <2>2. g[i + 1] = TakeNext(g[i], s, P, i + 1) /\ s[i + 1] \in S
    BY <1>2, <2>1
  <2>3. CASE i + 1 <= n
    <3>1. i + 1 \notin P /\ i <= n
      BY <2>1, <2>3
    <3> QED BY <2>1, <2>2, <2>3, <3>1 DEF TakeNext
  <2>4. CASE n < i + 1
    <3>1. g[i + 1] = Append(g[i], s[i + 1])
      BY <2>1, <2>2, <2>4 DEF TakeNext
    <3>2. g[i] \in Seq(S) /\ Len(g[i]) = i - n /\ \A j \in 1..(i - n) : g[i][j] = s[n + j]
      <4>1. CASE i <= n
        <5>1. i = n /\ g[i] = <<>>
          BY <2>1, <2>4, <4>1
        <5> QED BY <5>1
      <4>2. CASE ~(i <= n)
        BY <2>1, <4>2
      <4> QED BY <4>1, <4>2
    <3>3. /\ g[i + 1] \in Seq(S) /\ Len(g[i + 1]) = (i - n) + 1
          /\ \A j \in 1..(i - n) : g[i + 1][j] = g[i][j]
          /\ g[i + 1][(i - n) + 1] = s[i + 1]
      <4> DEFINE a == g[i]
                 x == s[i + 1]
      <4>1. a \in Seq(S) /\ x \in S /\ Len(a) = i - n
        BY <2>2, <3>2
      <4>2. g[i + 1] = Append(a, x)
        BY <3>1
      <4> HIDE DEF a, x
      <4>3. /\ Append(a, x) \in Seq(S) /\ Len(Append(a, x)) = Len(a) + 1
            /\ \A j \in 1..Len(a) : Append(a, x)[j] = a[j]
            /\ Append(a, x)[Len(a) + 1] = x
        BY <4>1, AppendFacts
      <4> QED BY <4>1, <4>2, <4>3 DEF a, x
    <3>4. (i - n) + 1 = (i + 1) - n /\ n + ((i + 1) - n) = i + 1
      OBVIOUS
    <3>5. ASSUME NEW j \in 1..((i + 1) - n) PROVE g[i + 1][j] = s[n + j]
      <4>1. j \in 1..(i - n) \/ j = (i + 1) - n
        OBVIOUS
      <4> QED BY <3>2, <3>3, <3>4, <4>1
    <3> QED BY <2>4, <3>3, <3>4, <3>5
  <2> QED BY <2>3, <2>4
<1> HIDE DEF T
<1>5. Nat \subseteq T
  BY <1>3, <1>4, SetInduction
<1>6. Ending(Len(s))
  BY <1>5 DEF T
<1>7. CASE Len(s) <= n
  <2>1. g[Len(s)] = <<>> /\ Len(s) - n = 0
    BY <1>6, <1>7
  <2> QED BY <1>1, <2>1
<1>8. CASE ~(Len(s) <= n)
  BY <1>1, <1>6, <1>8
<1> QED BY <1>7, <1>8

-----------------------------------------------------------------------------
(***************************************************************************)
(* The turns.  What a turn does to the retrieval's variables is a step of  *)
(* Knowledge or none, so that what is proved of a retrieval holds of the   *)
(* retrievals inside of turns.                                             *)
(***************************************************************************)
LEMMA TurnStepRetrieves ==
  ASSUME [TurnNext]_allVars
  PROVE  [Next]_vars
<1>1. CASE UNCHANGED allVars
  BY <1>1 DEF allVars, vars
<1>2. ASSUME TurnNext PROVE [Next]_vars
  <2>0. UNCHANGED supports_traversal
    BY <1>2 DEF TurnNext
  <2>1. ASSUME NEW c \in Tasks, NEW t \in Tenants, NEW wanted \in ToolRequests,
               run_turn(c, t, wanted)
        PROVE  Next
    BY <2>0, <2>1 DEF run_turn, Next
  <2>2. ASSUME NEW c \in Tasks, Retrieve(c) \/ (TurnDrop(c) /\ Drop(c))
        PROVE  Next
    BY <2>0, <2>2 DEF Retrieve, TurnDrop, Next
  <2>3. ASSUME NEW c \in Tasks,
               \/ ToolAnswers(c) \/ ToolFails(c) \/ ToolsDone(c)
               \/ Build(c) \/ Answer(c) \/ CompletionFails(c)
               \/ (TurnDrop(c) /\ UNCHANGED <<stored, edges, pc, tenant, matches, items, began>>)
        PROVE  UNCHANGED vars
    BY <2>0, <2>3 DEF ToolAnswers, ToolFails, ToolCall, ToolsDone, Build, Answer,
      CompletionFails, vars
  <2>4. ASSUME TurnWrite PROVE Next
    BY <2>0, <2>4 DEF TurnWrite, Next
  <2> QED
    BY <1>2, <2>1, <2>2, <2>3, <2>4 DEF TurnNext, Advance, TurnDrop
<1> QED BY <1>1, <1>2

(***************************************************************************)
(* A turn implements the retrieval that it awaits (genai_loop.rs:76-79):   *)
(* run_turn touches the retrieval's state by the steps of retrieve only,   *)
(* so every theorem above about Spec holds of the turns too.               *)
(***************************************************************************)
THEOREM TurnsRetrieve == TurnSpec => Spec
<1>1. TurnInit => Init
  BY DEF TurnInit
<1>2. [TurnNext]_allVars => [Next]_vars
  BY TurnStepRetrieves
<1> QED BY <1>1, <1>2, PTL DEF TurnSpec, Spec

(* Who may not read gets no further than the policy.                       *)
Permitted == \A c \in Tasks : pc[c] \in {"search", "traverse", "done"} => tenant[c] \in Readers

LEMMA PermittedStep ==
  ASSUME TypeOK, Permitted, [Next]_vars
  PROVE  Permitted'
<1> SUFFICES ASSUME NEW d \in Tasks, pc'[d] \in {"search", "traverse", "done"}
             PROVE  tenant'[d] \in Readers
  BY DEF Permitted
<1>1. ASSUME pc'[d] = pc[d], tenant'[d] = tenant[d] PROVE tenant'[d] \in Readers
  BY <1>1 DEF Permitted
<1>2. CASE UNCHANGED vars \/ Write
  BY <1>1, <1>2 DEF vars, Write, upsert, delete_document, add_edge, callVars
<1>3. ASSUME NEW c \in Tasks, NEW t \in Tenants, retrieve(c, t)
      PROVE  tenant'[d] \in Readers
  <2>1. CASE c # d
    BY <1>1, <1>3, <2>1 DEF retrieve, Goto, TypeOK
  <2>2. CASE c = d
    <3>1. tenant'[d] = t /\ pc'[d] = IF t \in Readers THEN "search" ELSE "unauthorized"
      BY <1>3, <2>2 DEF retrieve, Goto, TypeOK
    <3> QED BY <3>1
  <2> QED BY <2>1, <2>2
<1>4. ASSUME NEW c \in Tasks, Step(c)
      PROVE  tenant'[d] \in Readers
  <2>1. UNCHANGED tenant /\ pc[c] \in {"search", "traverse"}
    BY <1>4 DEF Step, SearchSucceeds, SearchFails, TraverseMatch, TraversalFails, NoTraversal,
      PushItem
  <2>2. c # d => pc'[d] = pc[d]
    BY <1>4 DEF Step, SearchSucceeds, SearchFails, TraverseMatch, TraversalFails, NoTraversal,
      PushItem, Goto, TypeOK
  <2> QED BY <1>1, <2>1, <2>2 DEF Permitted
<1>5. ASSUME NEW c \in Tasks, Drop(c)
      PROVE  tenant'[d] \in Readers
  <2>1. UNCHANGED tenant /\ pc'[c] = "idle" /\ (c # d => pc'[d] = pc[d])
    BY <1>5 DEF Drop, Goto, TypeOK
  <2> QED BY <1>1, <2>1
<1> QED BY <1>2, <1>3, <1>4, <1>5 DEF Next

LEMMA RetrievalOfTurns == TurnSpec => [](TypeOK /\ OwnInv /\ Permitted)
<1>1. Init => Permitted
  BY DEF Init, Permitted
<1>2. TypeOK /\ Permitted /\ [Next]_vars => Permitted'
  BY PermittedStep
<1>3. Spec => [](TypeOK /\ OwnInv /\ Permitted)
  BY <1>1, <1>2, RetrievalAlways, PTL DEF Spec
<1> QED BY <1>3, TurnsRetrieve, PTL

-----------------------------------------------------------------------------
(***************************************************************************)
(* The invariant of a turn: where it is, the calls it has made, what it    *)
(* has of them, and what of that is in the prompt.                         *)
(***************************************************************************)
Call == [name : STRING, tenant : Tenants, outcome : {"ok", "not_found", "error"}]

IsASeq(s) == s \in Seq({s[i] : i \in DOMAIN s})

TurnShape ==
  /\ stage \in [Tasks -> TurnEnded \cup Underway]
  /\ requests \in [Tasks -> Seq(STRING)]
  /\ ran \in [Tasks -> Seq(Call)]
  /\ DOMAIN results = Tasks /\ DOMAIN prompt = Tasks
  /\ \A c \in Tasks : IsASeq(results[c])

(* The turn and its retrieval agree on where they are, and nothing that    *)
(* comes after the retrieval has happened before it is done.               *)
InStage(c) ==
  /\ stage[c] = "retrieval" <=> pc[c] \in {"search", "traverse"}
  /\ stage[c] \in {"tools", "build", "completion", "answered"} => pc[c] = "done"
  /\ stage[c] \in {"idle", "retrieval"} => ran[c] = <<>>
  /\ ran[c] # <<>> => pc[c] = "done"
  /\ prompt[c] # <<>> => stage[c] \in {"completion", "answered", "failed"} /\ pc[c] = "done"

(* The calls are the requested ones so far, in order, for the caller's     *)
(* tenant, and the results are those of the calls that answered.           *)
CallsMade(c) ==
  /\ Len(ran[c]) <= Len(requests[c])
  /\ stage[c] = "build" \/ prompt[c] # <<>> => Len(ran[c]) = Len(requests[c])
  /\ \A i \in 1..Len(ran[c]) : ran[c][i].name = requests[c][i] /\ ran[c][i].tenant = tenant[c]
  /\ Len(results[c]) <= Len(ran[c])
  /\ Len(results[c]) = Len(Answered(ran[c]))
  /\ \A i \in 1..Len(results[c]) : results[c][i].name = Answered(ran[c])[i].name

InPrompt(c) ==
  prompt[c] # <<>> =>
    /\ IsASeq(Outputs(prompt[c]))
    /\ Len(Outputs(prompt[c])) = Len(results[c])
    /\ \A i \in 1..Len(results[c]) : Outputs(prompt[c])[i] = ToolOutput(results[c][i])

TurnOf(c) == InStage(c) /\ CallsMade(c) /\ InPrompt(c)

TurnInv == TurnShape /\ \A c \in Tasks : TurnOf(c)

LEMMA AppendToAny ==
  ASSUME NEW s, IsASeq(s), NEW x
  PROVE  /\ IsASeq(Append(s, x))
         /\ Len(Append(s, x)) = Len(s) + 1
         /\ \A i \in 1..Len(s) : Append(s, x)[i] = s[i]
         /\ Append(s, x)[Len(s) + 1] = x
<1> DEFINE S == {s[i] : i \in DOMAIN s} \cup {x}
           a == Append(s, x)
<1>1. s \in Seq(S)
  BY DEF IsASeq
<1>2. /\ Len(a) = Len(s) + 1 /\ a \in Seq(S) /\ DOMAIN a = 1..Len(a)
      /\ \A i \in 1..Len(s) : a[i] = s[i]
      /\ a[Len(s) + 1] = x
  BY <1>1
<1> HIDE DEF a
<1>3. a \in Seq({a[i] : i \in DOMAIN a})
  BY <1>2
<1> QED
  BY <1>2, <1>3 DEF IsASeq, a

(* A task that takes no part in a step.                                    *)
LEMMA TurnKept ==
  ASSUME NEW d \in Tasks, TurnOf(d),
         pc'[d] = pc[d], tenant'[d] = tenant[d],
         stage'[d] = stage[d], requests'[d] = requests[d],
         ran'[d] = ran[d], results'[d] = results[d], prompt'[d] = prompt[d]
  PROVE  TurnOf(d)'
<1>1. InStage(d)'
  BY DEF TurnOf, InStage
<1>2. CallsMade(d)'
  BY DEF TurnOf, CallsMade
<1>3. InPrompt(d)'
  BY DEF TurnOf, InPrompt
<1> QED BY <1>1, <1>2, <1>3 DEF TurnOf

OthersKept(c) ==
  \A d \in Tasks \ {c} :
    /\ pc'[d] = pc[d] /\ tenant'[d] = tenant[d]
    /\ stage'[d] = stage[d] /\ requests'[d] = requests[d]
    /\ ran'[d] = ran[d] /\ results'[d] = results[d] /\ prompt'[d] = prompt[d]

LEMMA OthersKeep ==
  ASSUME TurnInv, NEW c \in Tasks, OthersKept(c), TurnShape', TurnOf(c)'
  PROVE  TurnInv'
<1>1. ASSUME NEW d \in Tasks \ {c} PROVE TurnOf(d)'
  BY TurnKept DEF OthersKept, TurnInv
<1> QED BY <1>1 DEF TurnInv

(* A step to a turn without a call, a result or a prompt.                  *)
LEMMA EmptyTurn ==
  ASSUME NEW c \in Tasks, ran'[c] = <<>>, results'[c] = <<>>, prompt'[c] = <<>>,
         requests'[c] \in Seq(STRING), stage'[c] # "build",
         stage'[c] = "retrieval" <=> pc'[c] \in {"search", "traverse"},
         stage'[c] \in {"tools", "completion", "answered"} => pc'[c] = "done"
  PROVE  TurnOf(c)'
<1>1. Answered(<<>>) = <<>>
  BY AtEmpty DEF Answered
<1>2. Len(requests'[c]) \in Nat /\ Len(<<>>) = 0
  OBVIOUS
<1>3. InStage(c)' /\ InPrompt(c)'
  BY DEF InStage, InPrompt
<1>4. CallsMade(c)'
  <2>1. Answered(ran[c])' = Answered(<<>>)
    BY DEF Answered
  <2> QED BY <1>1, <1>2, <2>1 DEF CallsMade
<1> QED BY <1>3, <1>4 DEF TurnOf

LEMMA StartStep ==
  ASSUME TypeOK, TurnInv, NEW c \in Tasks, NEW t \in Tenants, NEW wanted \in ToolRequests,
         run_turn(c, t, wanted)
  PROVE  TurnInv'
<1>1. wanted \in Seq(STRING)
  BY ToolAssumption
<1>2. /\ pc' = [pc EXCEPT ![c] = IF t \in Readers THEN "search" ELSE "unauthorized"]
      /\ tenant' = [tenant EXCEPT ![c] = t]
      /\ stage' = [stage EXCEPT ![c] = AfterRetrieval(c)]
      /\ requests' = [requests EXCEPT ![c] = wanted]
      /\ ran' = [ran EXCEPT ![c] = <<>>]
      /\ results' = [results EXCEPT ![c] = <<>>]
      /\ prompt' = [prompt EXCEPT ![c] = <<>>]
  BY DEF run_turn, retrieve, Enter, Goto
<1>3. DOMAIN pc = Tasks /\ DOMAIN tenant = Tasks
  BY DEF TypeOK
<1>4. TurnShape
  BY DEF TurnInv
<1>5. /\ pc'[c] = IF t \in Readers THEN "search" ELSE "unauthorized"
      /\ stage'[c] = AfterRetrieval(c) /\ requests'[c] = wanted
      /\ ran'[c] = <<>> /\ results'[c] = <<>> /\ prompt'[c] = <<>>
  BY <1>2, <1>3, <1>4 DEF TurnShape
<1>6. stage'[c] = IF t \in Readers THEN "retrieval" ELSE "failed"
  BY <1>5 DEF AfterRetrieval
<1>7. TurnShape'
  <2>1. stage' \in [Tasks -> TurnEnded \cup Underway]
    BY <1>2, <1>4, <1>5, <1>6 DEF TurnShape, TurnEnded, Underway
  <2>2. IsASeq(<<>>) /\ <<>> \in Seq(Call)
    BY DEF IsASeq
  <2> QED BY <1>1, <1>2, <1>4, <2>1, <2>2 DEF TurnShape
<1>8. TurnOf(c)'
  BY <1>1, <1>5, <1>6, EmptyTurn
<1>9. OthersKept(c)
  BY <1>2, <1>3, <1>4 DEF TurnShape, OthersKept
<1> QED BY <1>7, <1>8, <1>9, OthersKeep

(* One step of the awaited retrieval.                                      *)
LEMMA RetrieveStep ==
  ASSUME TypeOK, TypeOK', TurnInv, NEW c \in Tasks, Retrieve(c)
  PROVE  TurnInv'
<1>1. /\ stage[c] = "retrieval" /\ Step(c) /\ UNCHANGED <<requests, ran, results, prompt>>
      /\ stage' = [stage EXCEPT ![c] = AfterRetrieval(c)]
  BY DEF Retrieve, Enter
<1>2. /\ tenant' = tenant /\ \A d \in Tasks \ {c} : pc'[d] = pc[d]
      /\ pc'[c] \in {"search", "traverse", "done", "failed"}
  BY <1>1 DEF Step, SearchSucceeds, SearchFails, TraverseMatch, TraversalFails, NoTraversal,
    PushItem, Goto, TypeOK
<1>3. TurnShape /\ TurnOf(c)
  BY DEF TurnInv
<1>4. /\ stage'[c] = AfterRetrieval(c) /\ ran[c] = <<>> /\ prompt[c] = <<>>
      /\ \A d \in Tasks \ {c} : stage'[d] = stage[d]
  BY <1>1, <1>3 DEF TurnShape, TurnOf, InStage
<1>5. /\ pc'[c] \in {"search", "traverse"} => stage'[c] = "retrieval"
      /\ pc'[c] = "done" => stage'[c] = "tools"
      /\ pc'[c] = "failed" => stage'[c] = "failed"
  BY <1>4 DEF AfterRetrieval
<1>6. TurnShape'
  BY <1>1, <1>2, <1>3, <1>4, <1>5 DEF TurnShape, TurnEnded, Underway
<1>7. OthersKept(c)
  BY <1>1, <1>2, <1>4 DEF OthersKept
<1>8. results[c] = <<>>
  <2>1. Len(results[c]) = 0 /\ results[c] \in Seq({results[c][i] : i \in DOMAIN results[c]})
    <3>1. Len(results[c]) = Len(Answered(<<>>)) /\ IsASeq(results[c])
      BY <1>3, <1>4 DEF TurnOf, CallsMade, TurnShape
    <3>2. Answered(<<>>) = <<>>
      BY AtEmpty DEF Answered
    <3> QED BY <3>1, <3>2 DEF IsASeq
  <2> QED BY <2>1
<1>9. TurnOf(c)'
  <2>1. /\ ran'[c] = <<>> /\ results'[c] = <<>> /\ prompt'[c] = <<>>
        /\ requests'[c] \in Seq(STRING)
    BY <1>1, <1>3, <1>4, <1>8 DEF TurnShape
  <2> QED BY <1>2, <1>5, <2>1, EmptyTurn
<1> QED BY <1>6, <1>7, <1>9, OthersKeep

(* A tool call, with its result if it answered.                            *)
LEMMA CallStep ==
  ASSUME TypeOK, TurnInv, NEW c \in Tasks, ToolAnswers(c) \/ ToolFails(c)
  PROVE  TurnInv'
<1>1. TurnShape /\ TurnOf(c) /\ tenant[c] \in Tenants
  BY DEF TurnInv, TypeOK
<1>2. PICK outcome \in {"ok", "not_found", "error"} :
        /\ ToolCall(c, outcome)
        /\ outcome = "ok" => \E r : r.name = NextRequest(c)
                                      /\ results' = [results EXCEPT ![c] = Append(results[c], r)]
        /\ outcome # "ok" => results' = results
  <2>1. CASE ToolAnswers(c)
    <3> DEFINE r == [name |-> NextRequest(c), tool |-> get(NextRequest(c))]
    <3>1. /\ ToolCall(c, "ok") /\ r.name = NextRequest(c)
          /\ results' = [results EXCEPT ![c] = Append(results[c], r)]
      BY <2>1 DEF ToolAnswers
    <3> HIDE DEF r
    <3> QED BY <3>1
  <2>2. CASE ToolFails(c)
    BY <2>2 DEF ToolFails
  <2> QED BY <2>1, <2>2
<1> DEFINE made == [name |-> NextRequest(c), tenant |-> tenant[c], outcome |-> outcome]
<1>3. /\ stage[c] = "tools" /\ Len(ran[c]) < Len(requests[c])
      /\ ran' = [ran EXCEPT ![c] = Append(ran[c], made)]
      /\ UNCHANGED <<stage, requests, prompt, pc, tenant>>
  BY <1>2 DEF ToolCall
<1>4. ran[c] \in Seq(Call) /\ requests[c] \in Seq(STRING)
  BY <1>1 DEF TurnShape
<1>5. NextRequest(c) = requests[c][Len(ran[c]) + 1] /\ NextRequest(c) \in STRING
  BY <1>3, <1>4 DEF NextRequest
<1>6. /\ made \in Call /\ made.name = requests[c][Len(ran[c]) + 1] /\ made.tenant = tenant[c]
      /\ made.outcome = outcome
  BY <1>1, <1>5 DEF Call
<1> HIDE DEF made
<1>7. /\ Append(ran[c], made) \in Seq(Call)
      /\ Len(Append(ran[c], made)) = Len(ran[c]) + 1
      /\ \A i \in 1..Len(ran[c]) : Append(ran[c], made)[i] = ran[c][i]
      /\ Append(ran[c], made)[Len(ran[c]) + 1] = made
  BY <1>4, <1>6, AppendFacts
<1>8. ran'[c] = Append(ran[c], made) /\ \A d \in Tasks \ {c} : ran'[d] = ran[d]
  BY <1>1, <1>3 DEF TurnShape
<1>9. pc[c] = "done" /\ prompt[c] = <<>>
  BY <1>1, <1>3 DEF TurnOf, InStage
<1>10. InStage(c)' /\ InPrompt(c)'
  BY <1>1, <1>3, <1>9 DEF TurnOf, InStage, InPrompt
<1>11. Answered(ran'[c]) = IF outcome = "ok" THEN Append(Answered(ran[c]), made)
                                             ELSE Answered(ran[c])
  <2> DEFINE P == {i \in 1..Len(ran[c]) : ran[c][i].outcome = "ok"}
             Q == {i \in 1..Len(ran'[c]) : ran'[c][i].outcome = "ok"}
  <2>1. Len(ran[c]) \in Nat /\ ran'[c] = Append(ran[c], made)
    BY <1>4, <1>8
  <2>2. \A i \in 1..Len(ran[c]) : i \in P <=> i \in Q
    BY <1>7, <2>1
  <2>3. Len(ran[c]) + 1 \in Q <=> outcome = "ok"
    BY <1>6, <1>7, <2>1
  <2>4. Answered(ran[c]) = At(ran[c], P) /\ Answered(ran'[c]) = At(ran'[c], Q)
    BY DEF Answered
  <2> HIDE DEF P, Q
  <2>5. /\ Len(ran[c]) + 1 \in Q => At(Append(ran[c], made), Q) = Append(At(ran[c], P), made)
        /\ Len(ran[c]) + 1 \notin Q => At(Append(ran[c], made), Q) = At(ran[c], P)
    <3>1. ran[c] \in Seq(Call) /\ made \in Call
      BY <1>4, <1>6
    <3> QED BY <3>1, <2>2, AtAppend
  <2>6. Answered(ran'[c]) = At(Append(ran[c], made), Q)
    BY <2>1, <2>4
  <2>7. CASE outcome = "ok"
    BY <2>3, <2>4, <2>5, <2>6, <2>7
  <2>8. CASE outcome # "ok"
    BY <2>3, <2>4, <2>5, <2>6, <2>8
  <2> QED BY <2>7, <2>8, Zenon
<1>12. Answered(ran[c]) \in Seq(Call)
  BY <1>4, AtIsSeq DEF Answered
<1>13. /\ IsASeq(results'[c]) /\ DOMAIN results' = Tasks
       /\ \A d \in Tasks \ {c} : results'[d] = results[d]
       /\ Len(results'[c]) <= Len(ran'[c])
       /\ Len(results'[c]) = Len(Answered(ran'[c]))
       /\ \A i \in 1..Len(results'[c]) : results'[c][i].name = Answered(ran'[c])[i].name
  <2>1. /\ IsASeq(results[c]) /\ DOMAIN results = Tasks
        /\ Len(results[c]) <= Len(ran[c])
        /\ Len(results[c]) = Len(Answered(ran[c]))
        /\ \A i \in 1..Len(results[c]) : results[c][i].name = Answered(ran[c])[i].name
        /\ Len(ran[c]) \in Nat /\ Len(Answered(ran[c])) \in Nat
    BY <1>1, <1>4, <1>12 DEF TurnShape, TurnOf, CallsMade
  <2>2. CASE outcome # "ok"
    BY <1>2, <1>7, <1>8, <1>11, <2>1, <2>2
  <2>3. CASE outcome = "ok"
    <3>1. PICK r : r.name = NextRequest(c)
                     /\ results' = [results EXCEPT ![c] = Append(results[c], r)]
      BY <1>2, <2>3
    <3> DEFINE a == Append(results[c], r)
               b == Append(Answered(ran[c]), made)
    <3>2. /\ IsASeq(a) /\ Len(a) = Len(results[c]) + 1
          /\ \A i \in 1..Len(results[c]) : a[i] = results[c][i]
          /\ a[Len(results[c]) + 1] = r
      BY <2>1, AppendToAny
    <3>3. /\ Len(b) = Len(Answered(ran[c])) + 1
          /\ \A i \in 1..Len(Answered(ran[c])) : b[i] = Answered(ran[c])[i]
          /\ b[Len(Answered(ran[c])) + 1] = made
      BY <1>6, <1>12, AppendFacts
    <3>4. /\ results'[c] = a /\ DOMAIN results' = Tasks
          /\ \A d \in Tasks \ {c} : results'[d] = results[d]
          /\ Answered(ran'[c]) = b
      BY <1>11, <2>1, <2>3, <3>1
    <3> HIDE DEF a, b
    <3>5. r.name = made.name
      BY <1>5, <1>6, <3>1
    <3>6. ASSUME NEW i \in 1..Len(a) PROVE a[i].name = b[i].name
      <4>1. i \in 1..Len(results[c]) \/ i = Len(results[c]) + 1
        BY <2>1, <3>2
      <4> QED BY <2>1, <3>2, <3>3, <3>5, <4>1
    <3> QED BY <1>7, <1>8, <2>1, <3>2, <3>3, <3>4, <3>6
  <2> QED BY <2>2, <2>3
<1>14. CallsMade(c)'
  <2>1. \A i \in 1..Len(ran'[c]) :
          ran'[c][i].name = requests[c][i] /\ ran'[c][i].tenant = tenant[c]
    <3>1. \A i \in 1..Len(ran[c]) : ran[c][i].name = requests[c][i] /\ ran[c][i].tenant = tenant[c]
      BY <1>1 DEF TurnOf, CallsMade
    <3>2. ASSUME NEW i \in 1..Len(ran'[c])
          PROVE  i \in 1..Len(ran[c]) \/ i = Len(ran[c]) + 1
      BY <1>4, <1>7, <1>8
    <3> QED BY <1>6, <1>7, <1>8, <3>1, <3>2
  <2>2. Len(ran'[c]) <= Len(requests[c])
    BY <1>3, <1>4, <1>7, <1>8
  <2>3. stage'[c] # "build" /\ prompt'[c] = <<>>
    BY <1>3, <1>9
  <2> QED BY <1>3, <1>13, <2>1, <2>2, <2>3 DEF CallsMade
<1>15. TurnShape'
  <2>1. ran' \in [Tasks -> Seq(Call)]
    BY <1>1, <1>3, <1>7 DEF TurnShape
  <2>2. \A d \in Tasks : IsASeq(results'[d])
    BY <1>1, <1>13 DEF TurnShape
  <2> QED BY <1>1, <1>3, <1>13, <2>1, <2>2 DEF TurnShape
<1>16. OthersKept(c)
  BY <1>3, <1>8, <1>13 DEF OthersKept
<1> QED BY <1>10, <1>14, <1>15, <1>16, OthersKeep DEF TurnOf

LEMMA ConcatFacts ==
  ASSUME NEW S, NEW a \in Seq(S), NEW b \in Seq(S)
  PROVE  /\ a \o b \in Seq(S) /\ Len(a \o b) = Len(a) + Len(b)
         /\ \A i \in 1..Len(a) : (a \o b)[i] = a[i]
         /\ \A j \in 1..Len(b) : (a \o b)[Len(a) + j] = b[j]
  OBVIOUS

(* The tool outputs of the messages are the results, in their order.       *)
LEMMA OutputsOfMessages ==
  ASSUME NEW c \in Tasks, IsASeq(results[c])
  PROVE  /\ IsASeq(Outputs(Messages(c)))
         /\ Len(Outputs(Messages(c))) = Len(results[c])
         /\ \A i \in 1..Len(results[c]) : Outputs(Messages(c))[i] = ToolOutput(results[c][i])
<1> DEFINE retrieved == IF items[c] = <<>> THEN <<>> ELSE <<Reference(items[c])>>
           front == <<Instructions, Question>> \o retrieved
           outs == [i \in DOMAIN results[c] |-> ToolOutput(results[c][i])]
           S == {Instructions, Question, Reference(items[c])}
                  \cup {ToolOutput(results[c][i]) : i \in DOMAIN results[c]}
           n == Len(front)
           M == front \o outs
           P == {i \in 1..Len(M) : M[i].about = "tool"}
<1>1. Messages(c) = M
  BY DEF Messages
<1>2. front \in Seq(S) /\ \A i \in 1..n : front[i].about # "tool"
  <2>1. retrieved \in Seq(S) /\ \A i \in 1..Len(retrieved) : retrieved[i].about # "tool"
    <3>1. CASE items[c] = <<>>
      BY <3>1
    <3>2. CASE items[c] # <<>>
      <4>1. retrieved = <<Reference(items[c])>> /\ Reference(items[c]) \in S
        BY <3>2
      <4>2. Reference(items[c]).about # "tool"
        BY DEF Reference
      <4> HIDE DEF retrieved, S
      <4> QED BY <4>1, <4>2
    <3> QED BY <3>1, <3>2
  <2>2. /\ <<Instructions, Question>> \in Seq(S) /\ Len(<<Instructions, Question>>) = 2
        /\ \A i \in 1..2 : <<Instructions, Question>>[i].about # "tool"
    BY DEF Instructions, Question
  <2> HIDE DEF retrieved, S
  <2> QED BY <2>1, <2>2
<1>3. /\ outs \in Seq(S) /\ Len(outs) = Len(results[c])
      /\ \A i \in 1..Len(outs) : outs[i] = ToolOutput(results[c][i]) /\ outs[i].about = "tool"
  <2>1. DOMAIN results[c] = 1..Len(results[c]) /\ Len(results[c]) \in Nat
    BY DEF IsASeq
  <2>2. \A i \in 1..Len(results[c]) : ToolOutput(results[c][i]) \in S
    BY <2>1
  <2> HIDE DEF S
  <2> QED BY <2>1, <2>2 DEF ToolOutput
<1> HIDE DEF front, outs, S
<1>4. n \in Nat /\ Len(outs) \in Nat
  BY <1>2, <1>3
<1>5. /\ M \in Seq(S) /\ Len(M) = n + Len(outs)
      /\ \A i \in 1..n : M[i] = front[i]
      /\ \A j \in 1..Len(outs) : M[n + j] = outs[j]
  <2>1. front \in Seq(S) /\ outs \in Seq(S)
    BY <1>2, <1>3
  <2> QED BY <2>1, ConcatFacts
<1> HIDE DEF M, n
<1>6. \A i \in 1..Len(M) : i \in P <=> n < i
  <2>1. \A i \in 1..n : M[i].about # "tool"
    BY <1>2, <1>5 DEF n
  <2>2. ASSUME NEW i \in 1..Len(M), n < i PROVE M[i].about = "tool"
    <3>1. i - n \in 1..Len(outs) /\ n + (i - n) = i
      BY <1>4, <1>5, <2>2
    <3>2. M[n + (i - n)] = outs[i - n]
      BY <1>5, <3>1
    <3> QED BY <1>3, <3>1, <3>2
  <2>3. ASSUME NEW i \in 1..Len(M), ~(n < i) PROVE i \in 1..n
    BY <1>4, <1>5, <2>3
  <2> QED BY <2>1, <2>2, <2>3
<1>7. Outputs(M) = At(M, P)
  BY DEF Outputs
<1> HIDE DEF P
<1>8. /\ Len(At(M, P)) = Len(M) - n
      /\ \A j \in 1..(Len(M) - n) : At(M, P)[j] = M[n + j]
  <2>1. n \in 0..Len(M)
    BY <1>4, <1>5
  <2>2. M \in Seq(S)
    BY <1>5
  <2> QED BY <1>6, <2>1, <2>2, AtTail, Zenon
<1>9. Len(M) - n = Len(outs)
  BY <1>4, <1>5
<1>10. At(M, P) \in Seq(S)
  BY <1>5, AtIsSeq
<1>11. IsASeq(At(M, P))
  <2>1. \A a \in Seq(S) : a \in Seq({a[i] : i \in DOMAIN a})
    OBVIOUS
  <2> QED BY <1>10, <2>1 DEF IsASeq
<1> QED
  BY <1>1, <1>3, <1>5, <1>7, <1>8, <1>9, <1>11

LEMMA BuildStep ==
  ASSUME TypeOK, TurnInv, NEW c \in Tasks, Build(c)
  PROVE  TurnInv'
<1>1. TurnShape /\ TurnOf(c)
  BY DEF TurnInv
<1>2. /\ stage[c] = "build" /\ stage' = [stage EXCEPT ![c] = "completion"]
      /\ prompt' = [prompt EXCEPT ![c] = Messages(c)]
      /\ UNCHANGED <<requests, ran, results, pc, tenant>>
  BY DEF Build, Enter
<1>3. stage'[c] = "completion" /\ prompt'[c] = Messages(c) /\ pc[c] = "done"
  BY <1>1, <1>2 DEF TurnShape, TurnOf, InStage
<1>4. TurnShape' /\ OthersKept(c)
  BY <1>1, <1>2 DEF TurnShape, TurnEnded, Underway, OthersKept
<1>5. InPrompt(c)'
  <2>1. Outputs(prompt[c])' = Outputs(Messages(c))
    BY <1>3 DEF Outputs
  <2>2. IsASeq(results[c])
    BY <1>1 DEF TurnShape
  <2>3. /\ IsASeq(Outputs(Messages(c)))
        /\ Len(Outputs(Messages(c))) = Len(results[c])
        /\ \A i \in 1..Len(results[c]) : Outputs(Messages(c))[i] = ToolOutput(results[c][i])
    BY <2>2, OutputsOfMessages
  <2> QED BY <1>2, <2>1, <2>3 DEF InPrompt
<1>6. InStage(c)' /\ CallsMade(c)'
  BY <1>1, <1>2, <1>3 DEF TurnOf, InStage, CallsMade
<1> QED BY <1>4, <1>5, <1>6, OthersKeep DEF TurnOf

(* The end of the tools, and the answer or the error of the model.         *)
LEMMA StageStep ==
  ASSUME TypeOK, TurnInv, NEW c \in Tasks, ToolsDone(c) \/ Answer(c) \/ CompletionFails(c)
  PROVE  TurnInv'
<1>1. TurnShape /\ TurnOf(c)
  BY DEF TurnInv
<1>2. PICK label \in {"build", "answered", "failed"} :
        /\ stage' = [stage EXCEPT ![c] = label]
        /\ label = "build" => stage[c] = "tools" /\ Len(ran[c]) = Len(requests[c])
        /\ label # "build" => stage[c] = "completion"
  BY DEF ToolsDone, Answer, CompletionFails, Enter
<1>3. UNCHANGED <<requests, ran, results, prompt, pc, tenant>>
  BY DEF ToolsDone, Answer, CompletionFails
<1>4. stage'[c] = label /\ pc[c] = "done"
  BY <1>1, <1>2 DEF TurnShape, TurnOf, InStage
<1>5. TurnShape' /\ OthersKept(c)
  BY <1>1, <1>2, <1>3 DEF TurnShape, TurnEnded, Underway, OthersKept
<1>6. InStage(c)'
  BY <1>1, <1>2, <1>3, <1>4 DEF TurnOf, InStage
<1>7. CallsMade(c)'
  BY <1>1, <1>2, <1>3, <1>4 DEF TurnOf, CallsMade
<1>8. InPrompt(c)'
  BY <1>1, <1>3 DEF TurnOf, InPrompt
<1> QED BY <1>5, <1>6, <1>7, <1>8, OthersKeep DEF TurnOf

LEMMA DropStep ==
  ASSUME TypeOK, TurnInv, NEW c \in Tasks, TurnDrop(c)
  PROVE  TurnInv'
<1>1. TurnShape /\ TurnOf(c)
  BY DEF TurnInv
<1>2. /\ stage' = [stage EXCEPT ![c] = "idle"] /\ ran' = [ran EXCEPT ![c] = <<>>]
      /\ results' = [results EXCEPT ![c] = <<>>] /\ prompt' = [prompt EXCEPT ![c] = <<>>]
      /\ UNCHANGED requests
  BY DEF TurnDrop, Enter
<1>3. /\ tenant' = tenant /\ pc'[c] \in {"idle", "done"}
      /\ \A d \in Tasks \ {c} : pc'[d] = pc[d]
  <2>1. CASE Drop(c)
    BY <2>1 DEF Drop, Goto, TypeOK
  <2>2. CASE stage[c] \in {"tools", "completion"} /\ UNCHANGED <<pc, tenant>>
    BY <1>1, <2>2 DEF TurnOf, InStage
  <2> QED BY <2>1, <2>2 DEF TurnDrop
<1>4. /\ stage'[c] = "idle" /\ ran'[c] = <<>> /\ results'[c] = <<>> /\ prompt'[c] = <<>>
      /\ requests'[c] \in Seq(STRING)
  BY <1>1, <1>2 DEF TurnShape
<1>5. TurnOf(c)'
  BY <1>3, <1>4, EmptyTurn
<1>6. TurnShape'
  <2>1. IsASeq(<<>>) /\ <<>> \in Seq(Call)
    BY DEF IsASeq
  <2> QED BY <1>1, <1>2, <2>1 DEF TurnShape, TurnEnded
<1>7. OthersKept(c)
  BY <1>1, <1>2, <1>3 DEF TurnShape, OthersKept
<1> QED BY <1>5, <1>6, <1>7, OthersKeep

LEMMA TurnStep ==
  ASSUME TypeOK, TypeOK', TurnInv, [TurnNext]_allVars
  PROVE  TurnInv'
<1>1. ASSUME UNCHANGED <<pc, tenant, stage, requests, ran, results, prompt>>
      PROVE  TurnInv'
  <2>1. TurnShape'
    BY <1>1 DEF TurnInv, TurnShape
  <2>2. ASSUME NEW c \in Tasks PROVE TurnOf(c)'
    BY <1>1, TurnKept DEF TurnInv
  <2> QED BY <2>1, <2>2 DEF TurnInv
<1>2. CASE UNCHANGED allVars \/ TurnWrite
  BY <1>1, <1>2 DEF allVars, TurnWrite, turnVars, Write, upsert, delete_document, add_edge,
    callVars
<1>3. CASE TurnNext
  BY <1>2, <1>3, StartStep, RetrieveStep, CallStep, StageStep, BuildStep, DropStep
    DEF TurnNext, Advance
<1> QED BY <1>2, <1>3

LEMMA TurnStart == TurnInit => TurnInv
<1> SUFFICES ASSUME TurnInit PROVE TurnInv
  OBVIOUS
<1>1. IsASeq(<<>>) /\ <<>> \in Seq(STRING) /\ <<>> \in Seq(Call) /\ Len(<<>>) = 0
  BY DEF IsASeq
<1>2. TurnShape
  BY <1>1 DEF TurnInit, TurnShape, TurnEnded
<1>3. Answered(<<>>) = <<>>
  BY AtEmpty DEF Answered
<1>4. ASSUME NEW c \in Tasks PROVE TurnOf(c)
  <2>1. /\ stage[c] = "idle" /\ pc[c] = "idle" /\ requests[c] = <<>> /\ ran[c] = <<>>
        /\ results[c] = <<>> /\ prompt[c] = <<>>
    BY DEF TurnInit, Init
  <2>2. InStage(c) /\ InPrompt(c)
    BY <2>1 DEF InStage, InPrompt
  <2>3. CallsMade(c)
    BY <1>1, <1>3, <2>1 DEF CallsMade
  <2> QED BY <2>2, <2>3 DEF TurnOf
<1> QED BY <1>2, <1>4 DEF TurnInv

LEMMA TurnAlways == TurnSpec => [](TypeOK /\ Permitted /\ TurnInv)
<1>1. TypeOK /\ TypeOK' /\ TurnInv /\ [TurnNext]_allVars => TurnInv'
  BY TurnStep
<1> QED
  BY <1>1, TurnStart, RetrievalOfTurns, PTL DEF TurnSpec

-----------------------------------------------------------------------------
(***************************************************************************)
(* The stages of a turn and of its retrieval agree, and no turn has more   *)
(* results than calls, or more calls than requests (genai_loop.rs:76-92).  *)
(***************************************************************************)
THEOREM TurnTypeCorrect == TurnSpec => []TurnTypeOK
<1>1. TurnInv => TurnTypeOK
  BY DEF TurnInv, TurnShape, TurnOf, InStage, CallsMade, TurnTypeOK
<1> QED BY <1>1, TurnAlways, PTL

(***************************************************************************)
(* Neither a tool nor the model is called before the whole retrieval has   *)
(* succeeded for a tenant that may read (genai_loop.rs:77-80).             *)
(***************************************************************************)
THEOREM ModelOnlyAfterRetrieval == TurnSpec => []RetrievalFirst
<1>1. TypeOK /\ Permitted /\ TurnInv => RetrievalFirst
  BY DEF TypeOK, Permitted, TurnInv, TurnOf, InStage, RetrievalFirst
<1> QED BY <1>1, TurnAlways, PTL

(***************************************************************************)
(* The model is given the output of exactly the tools that answered, in    *)
(* the order they were requested (genai_loop.rs:84-92, 129-136): a failed  *)
(* or unknown tool costs its own output only, however many are requested   *)
(* and whichever fail.                                                     *)
(***************************************************************************)
THEOREM ToolFailuresAreIsolated == TurnSpec => []FailedToolsCostNothingElse
<1>1. ASSUME TurnInv PROVE FailedToolsCostNothingElse
  <2> SUFFICES ASSUME NEW c \in Tasks, prompt[c] # <<>>
               PROVE  /\ Len(ran[c]) = Len(requests[c])
                      /\ \A i \in DOMAIN ran[c] : /\ ran[c][i].name = requests[c][i]
                                                  /\ ran[c][i].tenant = tenant[c]
                      /\ Len(Outputs(prompt[c])) = Len(Answered(ran[c]))
                      /\ \A i \in DOMAIN Outputs(prompt[c]) :
                           Outputs(prompt[c])[i].result.name = Answered(ran[c])[i].name
    BY DEF FailedToolsCostNothingElse
  <2>1. CallsMade(c) /\ InPrompt(c) /\ TurnShape
    BY <1>1 DEF TurnInv, TurnOf
  <2>2. DOMAIN ran[c] = 1..Len(ran[c])
    BY <2>1 DEF TurnShape
  <2>3. DOMAIN Outputs(prompt[c]) = 1..Len(results[c])
    BY <2>1 DEF InPrompt, IsASeq
  <2>4. \A i \in 1..Len(results[c]) : Outputs(prompt[c])[i].result = results[c][i]
    <3>1. \A i \in 1..Len(results[c]) : Outputs(prompt[c])[i] = ToolOutput(results[c][i])
      BY <2>1 DEF InPrompt
    <3>2. \A r : ToolOutput(r).result = r
      BY DEF ToolOutput
    <3> QED BY <3>1, <3>2
  <2> QED BY <2>1, <2>2, <2>3, <2>4 DEF CallsMade, InPrompt
<1> QED BY <1>1, TurnAlways, PTL

-----------------------------------------------------------------------------
(***************************************************************************)
(* The tools themselves, module Tools.  civil_from_days first: its integer *)
(* divisions are turned into inequalities, which the solver decides.       *)
(***************************************************************************)
(* The formula of the year, in inequalities: a, b and c are what it takes  *)
(* from the days for the leap days, the centuries and the era, f and h the *)
(* fourth and the hundredth of the year.                                   *)
InEra(doe, a, b, c, y, f, h) ==
  /\ 0 <= doe /\ doe <= 146096
  /\ 1460 * a <= doe /\ doe < 1460 * a + 1460
  /\ 36524 * b <= doe /\ doe < 36524 * b + 36524
  /\ 146096 * c <= doe /\ doe < 146096 * c + 146096
  /\ 365 * y <= doe - a + b - c /\ doe - a + b - c < 365 * y + 365
  /\ 4 * f <= y /\ y < 4 * f + 4
  /\ 100 * h <= y /\ y < 100 * h + 100

(* The day of a year that begins in March: only the last one may be        *)
(* missing, and it is there in a leap year only.                           *)
InYear(doe, y, f, h) ==
  LET doy == doe - (365 * y + f - h) IN
  /\ 0 <= y /\ y <= 399
  /\ 0 <= doy /\ doy <= 365
  /\ doy = 365 => y = 4 * f + 3 /\ (y = 100 * h + 99 => y = 399)

(* The year is taken out exactly.                                          *)
LEMMA EraArithmetic ==
  ASSUME NEW doe \in Int, NEW a \in Int, NEW b \in Int, NEW c \in Int,
         NEW y \in Int, NEW f \in Int, NEW h \in Int, InEra(doe, a, b, c, y, f, h)
  PROVE  InYear(doe, y, f, h)
<1>1. 0 <= y /\ y <= 399
  BY SMTT(30) DEF InEra
<1>2. 0 <= doe - (365 * y + f - h) /\ doe - (365 * y + f - h) <= 365
  BY SMTT(30) DEF InEra
<1>3. ASSUME doe - (365 * y + f - h) = 365
      PROVE  y = 4 * f + 3 /\ (y = 100 * h + 99 => y = 399)
  BY <1>3, SMTT(30) DEF InEra
<1> QED BY <1>1, <1>2, <1>3, SMT DEF InYear

(* The same, of the formula as it is written.                              *)
LEMMA YearOfEraFacts ==
  ASSUME NEW doe \in Int, 0 <= doe, doe <= 146096
  PROVE  LET y == YearOfEra(doe) IN
         /\ y \in Int /\ y \div 4 \in Int /\ y \div 100 \in Int
         /\ InYear(doe, y, y \div 4, y \div 100)
<1>1. PICK a \in Int : a = doe \div 1460 /\ 1460 * a <= doe /\ doe < 1460 * a + 1460
  BY SMT
<1>2. PICK b \in Int : b = doe \div 36524 /\ 36524 * b <= doe /\ doe < 36524 * b + 36524
  BY SMT
<1>3. PICK c \in Int : c = doe \div 146096 /\ 146096 * c <= doe /\ doe < 146096 * c + 146096
  BY SMT
<1>4. PICK y \in Int : /\ y = YearOfEra(doe)
                       /\ 365 * y <= doe - a + b - c /\ doe - a + b - c < 365 * y + 365
  <2> DEFINE r == doe - a + b - c
  <2>1. r \in Int
    BY SMT
  <2>2. YearOfEra(doe) = r \div 365
    BY <1>1, <1>2, <1>3, SMT DEF YearOfEra
  <2> HIDE DEF r
  <2>3. r \div 365 \in Int /\ 365 * (r \div 365) <= r /\ r < 365 * (r \div 365) + 365
    BY <2>1, SMT
  <2> QED BY <2>2, <2>3, SMT DEF r
<1>5. PICK f \in Int : f = y \div 4 /\ 4 * f <= y /\ y < 4 * f + 4
  BY SMT
<1>6. PICK h \in Int : h = y \div 100 /\ 100 * h <= y /\ y < 100 * h + 100
  BY SMT
<1>7. doe \in Int /\ InEra(doe, a, b, c, y, f, h)
  BY <1>1, <1>2, <1>3, <1>4, <1>5, <1>6, SMT DEF InEra
<1>8. InYear(doe, y, f, h)
  BY <1>7, EraArithmetic, SMTT(60)
<1> QED BY <1>4, <1>5, <1>6, <1>8, SMT

(* A year's leap day is in the count of the year after it.                 *)
LEMMA LeapsAdvance ==
  ASSUME NEW y \in Int
  PROVE  /\ LeapsBefore(y) \in Int
         /\ LeapsBefore(y + 1) = LeapsBefore(y) + (IF IsLeap(y) THEN 1 ELSE 0)
<1>1. y \div 4 = ((y - 1) \div 4) + (IF y % 4 = 0 THEN 1 ELSE 0)
  BY SMT
<1>2. y \div 100 = ((y - 1) \div 100) + (IF y % 100 = 0 THEN 1 ELSE 0)
  BY SMT
<1>3. y \div 400 = ((y - 1) \div 400) + (IF y % 400 = 0 THEN 1 ELSE 0)
  BY SMT
<1>4. (y % 400 = 0 => y % 100 = 0) /\ (y % 100 = 0 => y % 4 = 0)
  BY SMT
<1>5. (y + 1) - 1 = y
  OBVIOUS
<1> QED BY <1>1, <1>2, <1>3, <1>4, <1>5, SMT DEF LeapsBefore, IsLeap

(* The calendar repeats every 400 years.                                   *)
LEMMA LeapsOfEra ==
  ASSUME NEW e \in Int, NEW y \in Int, 0 <= y, y <= 399
  PROVE  /\ LeapsBefore(400 * e + y + 1) = 97 * e + (y \div 4) - (y \div 100)
         /\ IsLeap(400 * e + y + 1) <=> IsLeap(y + 1)
<1>1. (400 * e + y) \div 4 = 100 * e + (y \div 4)
  BY SMT
<1>2. (400 * e + y) \div 100 = 4 * e + (y \div 100)
  BY SMT
<1>3. (400 * e + y) \div 400 = e
  BY SMT
<1>4. (400 * e + y + 1) - 1 = 400 * e + y
  BY SMT
<1>5. LeapsBefore(400 * e + y + 1) = 97 * e + (y \div 4) - (y \div 100)
  BY <1>1, <1>2, <1>3, <1>4, SMT DEF LeapsBefore
<1>6. /\ (400 * e + y + 1) % 4 = (y + 1) % 4
      /\ (400 * e + y + 1) % 100 = (y + 1) % 100
      /\ (400 * e + y + 1) % 400 = (y + 1) % 400
  BY SMT
<1> QED BY <1>5, <1>6 DEF IsLeap

DaysOf(y) == [k \in 1..12 |-> DaysIn(y, k)]
LeapDay(y) == IF IsLeap(y) THEN 1 ELSE 0

(* A sum over 1..n, its last term taken out.                               *)
LEMMA SumOfFirst ==
  ASSUME NEW f, NEW n \in Nat \ {0}, \A k \in 1..n : f[k] \in Nat
  PROVE  SetSum(f, 1..n) = f[n] + SetSum(f, 1..(n - 1))
<1>1. IsFiniteSet(1..n)
  BY FS_Interval
<1>2. n \in 1..n /\ (1..n) \ {n} = 1..(n - 1)
  OBVIOUS
<1> QED BY <1>1, <1>2, SumRemove, SMTT(60)

(* The calendar's rule, month by month.                                    *)
LEMMA DaysOfMonths ==
  ASSUME NEW y \in Int
  PROVE  /\ LeapDay(y) \in {0, 1}
         /\ \A k \in 1..12 : DaysOf(y)[k] = DaysIn(y, k) /\ DaysIn(y, k) \in Nat
         /\ DaysIn(y, 2) = 28 + LeapDay(y)
         /\ \A k \in {1, 3, 5, 7, 8, 10, 12} : DaysIn(y, k) = 31
         /\ \A k \in {4, 6, 9, 11} : DaysIn(y, k) = 30
BY SMT DEF DaysOf, DaysIn, LeapDay

DaysUpTo(y, m) == SetSum(DaysOf(y), 1..(m - 1))

(* The days before each month.                                             *)
LEMMA DaysBeforeMonths ==
  ASSUME NEW y \in Int, NEW l, l = LeapDay(y)
  PROVE  /\ DaysUpTo(y, 1) = 0 /\ DaysUpTo(y, 2) = 31 /\ DaysUpTo(y, 3) = 59 + l
         /\ DaysUpTo(y, 4) = 90 + l /\ DaysUpTo(y, 5) = 120 + l /\ DaysUpTo(y, 6) = 151 + l
         /\ DaysUpTo(y, 7) = 181 + l /\ DaysUpTo(y, 8) = 212 + l /\ DaysUpTo(y, 9) = 243 + l
         /\ DaysUpTo(y, 10) = 273 + l /\ DaysUpTo(y, 11) = 304 + l /\ DaysUpTo(y, 12) = 334 + l
<1> DEFINE S == [n \in 0..11 |-> SetSum(DaysOf(y), 1..n)]
<1>1. S[0] = 0
  <2>1. 1..0 = {} /\ 0 \in 0..11
    BY SMT
  <2> QED BY <2>1, SumUnfolds, FS_EmptySet
<1>2. ASSUME NEW n \in 1..11 PROVE S[n] = DaysIn(y, n) + S[n - 1]
  <2>1. n \in Nat \ {0} /\ n \in 0..11 /\ n - 1 \in 0..11 /\ \A k \in 1..n : k \in 1..12
    BY SMT
  <2>2. \A k \in 1..n : DaysOf(y)[k] = DaysIn(y, k) /\ DaysIn(y, k) \in Nat
    BY <2>1, DaysOfMonths
  <2>3. \A k \in 1..n : DaysOf(y)[k] \in Nat
    BY <2>2
  <2>4. SetSum(DaysOf(y), 1..n) = DaysOf(y)[n] + SetSum(DaysOf(y), 1..(n - 1))
    BY <2>1, <2>3, SumOfFirst
  <2>5. n \in 1..n
    BY <2>1, SMT
  <2> QED BY <2>1, <2>2, <2>4, <2>5
<1>3. /\ S[1] = DaysIn(y, 1) + S[0] /\ S[2] = DaysIn(y, 2) + S[1]
      /\ S[3] = DaysIn(y, 3) + S[2] /\ S[4] = DaysIn(y, 4) + S[3]
      /\ S[5] = DaysIn(y, 5) + S[4] /\ S[6] = DaysIn(y, 6) + S[5]
      /\ S[7] = DaysIn(y, 7) + S[6] /\ S[8] = DaysIn(y, 8) + S[7]
      /\ S[9] = DaysIn(y, 9) + S[8] /\ S[10] = DaysIn(y, 10) + S[9]
      /\ S[11] = DaysIn(y, 11) + S[10]
  BY <1>2, SMT
<1>4. /\ DaysIn(y, 1) = 31 /\ DaysIn(y, 2) = 28 + l /\ DaysIn(y, 3) = 31
      /\ DaysIn(y, 4) = 30 /\ DaysIn(y, 5) = 31 /\ DaysIn(y, 6) = 30
      /\ DaysIn(y, 7) = 31 /\ DaysIn(y, 8) = 31 /\ DaysIn(y, 9) = 30
      /\ DaysIn(y, 10) = 31 /\ DaysIn(y, 11) = 30
  BY DaysOfMonths, SMT
<1>5. l \in {0, 1}
  BY DaysOfMonths
<1>6. ASSUME NEW m \in 1..12 PROVE DaysUpTo(y, m) = S[m - 1]
  <2>1. m - 1 \in 0..11
    BY SMT
  <2> QED BY <2>1 DEF DaysUpTo
<1> HIDE DEF S
<1>7. /\ DaysUpTo(y, 1) = S[0] /\ DaysUpTo(y, 2) = S[1] /\ DaysUpTo(y, 3) = S[2]
      /\ DaysUpTo(y, 4) = S[3] /\ DaysUpTo(y, 5) = S[4] /\ DaysUpTo(y, 6) = S[5]
      /\ DaysUpTo(y, 7) = S[6] /\ DaysUpTo(y, 8) = S[7] /\ DaysUpTo(y, 9) = S[8]
      /\ DaysUpTo(y, 10) = S[9] /\ DaysUpTo(y, 11) = S[10] /\ DaysUpTo(y, 12) = S[11]
  BY <1>6, SMT
<1> QED BY <1>1, <1>3, <1>4, <1>5, <1>7, SMT

(* Day doy of the year that begins in March lies in month mp, which begins *)
(* s days into that year.                                                  *)
InMonth(doy, mp, s) ==
  /\ 0 <= doy /\ doy <= 365
  /\ 153 * mp <= 5 * doy + 2 /\ 5 * doy + 2 < 153 * mp + 153
  /\ 5 * s <= 153 * mp + 2 /\ 153 * mp + 2 < 5 * s + 5

Dated(y, m, d) == m \in 1..12 /\ d \in 1..DaysIn(y, m)

(* March to December: the year has begun, with January and February.       *)
LEMMA MarchToDecember ==
  ASSUME NEW y \in Int, NEW doy \in Int, NEW mp \in Int, NEW s \in Int,
         InMonth(doy, mp, s), mp < 10
  PROVE  /\ Dated(y, mp + 3, doy - s + 1)
         /\ DaysUpTo(y, mp + 3) = 59 + LeapDay(y) + s
<1>1. PICK l \in {0, 1} : l = LeapDay(y)
  BY DaysOfMonths
<1>2. /\ DaysUpTo(y, 3) = 59 + l /\ DaysUpTo(y, 4) = 90 + l /\ DaysUpTo(y, 5) = 120 + l
      /\ DaysUpTo(y, 6) = 151 + l /\ DaysUpTo(y, 7) = 181 + l /\ DaysUpTo(y, 8) = 212 + l
      /\ DaysUpTo(y, 9) = 243 + l /\ DaysUpTo(y, 10) = 273 + l /\ DaysUpTo(y, 11) = 304 + l
      /\ DaysUpTo(y, 12) = 334 + l
  BY <1>1, DaysBeforeMonths, SMT
<1>3. mp \in 0..9
  BY SMT DEF InMonth
<1>4. mp + 3 \in 1..12
  BY <1>3, SMT
<1>5. \/ (mp = 0 /\ s = 0)   \/ (mp = 1 /\ s = 31)  \/ (mp = 2 /\ s = 61)
      \/ (mp = 3 /\ s = 92)  \/ (mp = 4 /\ s = 122) \/ (mp = 5 /\ s = 153)
      \/ (mp = 6 /\ s = 184) \/ (mp = 7 /\ s = 214) \/ (mp = 8 /\ s = 245)
      \/ (mp = 9 /\ s = 275)
  BY <1>3, SMT DEF InMonth
<1>6. DaysUpTo(y, mp + 3) = 59 + l + s
  BY <1>2, <1>5, SMT
<1>7. DaysIn(y, mp + 3) = IF mp \in {1, 3, 6, 8} THEN 30 ELSE 31
  <2>1. mp + 3 \in {4, 6, 9, 11} <=> mp \in {1, 3, 6, 8}
    BY <1>3, SMT
  <2>2. mp + 3 # 2
    BY <1>3, SMT
  <2> QED BY <2>1, <2>2, SMT DEF DaysIn
<1>8. 1 <= doy - s + 1 /\ doy - s + 1 <= DaysIn(y, mp + 3)
  BY <1>5, <1>7, SMT DEF InMonth
<1> QED BY <1>1, <1>4, <1>6, <1>7, <1>8, SMT DEF Dated

(* January and February are the next year's; the 29th of February is the   *)
(* last day of the year that begins in March.                              *)
LEMMA JanuaryAndFebruary ==
  ASSUME NEW y \in Int, NEW doy \in Int, NEW mp \in Int, NEW s \in Int,
         InMonth(doy, mp, s), mp >= 10, doy = 365 => IsLeap(y)
  PROVE  /\ Dated(y, mp - 9, doy - s + 1)
         /\ DaysUpTo(y, mp - 9) = s - 306
<1>1. PICK l \in {0, 1} : l = LeapDay(y)
  BY DaysOfMonths
<1>2. DaysUpTo(y, 1) = 0 /\ DaysUpTo(y, 2) = 31
  BY <1>1, DaysBeforeMonths, SMT
<1>3. mp = 10 \/ mp = 11
  BY SMT DEF InMonth
<1>4. mp - 9 \in 1..12
  BY <1>3, SMT
<1>5. (mp = 10 /\ s = 306) \/ (mp = 11 /\ s = 337)
  BY <1>3, SMT DEF InMonth
<1>6. DaysUpTo(y, mp - 9) = s - 306
  BY <1>2, <1>5, SMT
<1>7. DaysIn(y, mp - 9) = IF mp = 10 THEN 31 ELSE 28 + l
  BY <1>1, <1>3, SMT DEF DaysIn, LeapDay
<1>8. doy = 365 => l = 1
  BY <1>1 DEF LeapDay
<1>9. 1 <= doy - s + 1 /\ doy - s + 1 <= DaysIn(y, mp - 9)
  BY <1>1, <1>5, <1>7, <1>8, SMT DEF InMonth
<1> QED BY <1>1, <1>4, <1>6, <1>7, <1>9, SMT DEF Dated

(* civil_from_days is the inverse of the calendar's rule.                  *)
LEMMA CivilDate ==
  ASSUME NEW days \in Int, 0 <= days, NEW d, d = civil_from_days(days)
  PROVE  /\ Dated(d.year, d.month, d.day)
         /\ DaysBefore(d.year, d.month) + d.day - 1 = days
         /\ d.month \in 1..12 /\ d.day \in 1..31
<1>1. PICK z \in Int : z = days + 719468 /\ 0 <= z
  BY SMT
<1>2. PICK era \in Int : era = z \div 146097 /\ 146097 * era <= z /\ z < 146097 * era + 146097
  BY <1>1, SMT
<1>3. PICK doe \in Int : doe = z - era * 146097 /\ 0 <= doe /\ doe <= 146096
  BY <1>2, SMT
<1>4. PICK y, f, h \in Int : /\ y = YearOfEra(doe) /\ f = y \div 4 /\ h = y \div 100
                             /\ InYear(doe, y, f, h)
  BY <1>3, YearOfEraFacts, SMT
<1>5. PICK doy \in Int : /\ doy = doe - (365 * y + f - h) /\ 0 <= doy /\ doy <= 365
                         /\ doy = 365 => y = 4 * f + 3 /\ (y = 100 * h + 99 => y = 399)
  BY <1>4, SMT DEF InYear
<1>6. PICK mp \in Int : /\ mp = (5 * doy + 2) \div 153
                        /\ 153 * mp <= 5 * doy + 2 /\ 5 * doy + 2 < 153 * mp + 153
  BY SMT
<1>7. PICK s \in Int : /\ s = (153 * mp + 2) \div 5
                       /\ 5 * s <= 153 * mp + 2 /\ 153 * mp + 2 < 5 * s + 5
  BY SMT
<1>8. PICK g \in Int : g = 400 * era + y
  BY SMT
<1>9. /\ d.month = MonthOf(mp) /\ d.day = doy - s + 1
      /\ d.year = y + era * 400 + (IF MonthOf(mp) <= 2 THEN 1 ELSE 0)
  <2>1. /\ days + 719468 = z
        /\ (IF z >= 0 THEN z ELSE z - 146096) \div 146097 = era
        /\ z - era * 146097 = doe /\ YearOfEra(doe) = y
        /\ doe - (365 * y + y \div 4 - y \div 100) = doy
        /\ (5 * doy + 2) \div 153 = mp /\ (153 * mp + 2) \div 5 = s
    <3>1. days + 719468 = z /\ z >= 0 /\ z \div 146097 = era
      BY <1>1, <1>2, SMT
    <3>2. z - era * 146097 = doe /\ YearOfEra(doe) = y
      BY <1>3, <1>4, SMT
    <3>3. doe - (365 * y + y \div 4 - y \div 100) = doy
      BY <1>4, <1>5, SMT
    <3>4. (5 * doy + 2) \div 153 = mp /\ (153 * mp + 2) \div 5 = s
      BY <1>6, <1>7, SMT
    <3> QED BY <3>1, <3>2, <3>3, <3>4, SMT
  <2> QED BY <2>1, SMTT(60) DEF civil_from_days
<1>10. InMonth(doy, mp, s)
  BY <1>5, <1>6, <1>7, SMT DEF InMonth
<1>11. 0 <= y /\ y <= 399
  BY <1>4, SMT DEF InYear
<1>12. LeapsBefore(g + 1) = 97 * era + f - h
  BY <1>4, <1>8, <1>11, LeapsOfEra, SMT
<1>13. doy = 365 => IsLeap(g + 1)
  <2> SUFFICES ASSUME doy = 365 PROVE IsLeap(g + 1)
    OBVIOUS
  <2>0. IsLeap(g + 1) <=> IsLeap(y + 1)
    <3>1. IsLeap(400 * era + y + 1) <=> IsLeap(y + 1)
      BY <1>11, LeapsOfEra, SMTT(60)
    <3>2. g + 1 = 400 * era + y + 1
      BY <1>8
    <3> QED BY <3>1, <3>2, Zenon
  <2>1. y = 4 * f + 3 /\ (y = 100 * h + 99 => y = 399)
    BY <1>5
  <2>2. (y + 1) % 4 = 0
    BY <2>1, SMT
  <2>3. (y + 1) % 100 = 0 => y = 399
    BY <1>4, <1>11, <2>1, SMT
  <2>4. IsLeap(y + 1)
    BY <2>2, <2>3, SMT DEF IsLeap
  <2> QED BY <2>0, <2>4
<1>14. LeapsBefore(1970) = 477
  BY SMT DEF LeapsBefore
<1>15. \A year, m : DaysBefore(year, m) = 365 * (year - 1970) + LeapsBefore(year)
                                            - LeapsBefore(1970) + DaysUpTo(year, m)
  BY DEF DaysBefore, DaysUpTo, DaysOf, SetSum
<1>16. days = 146097 * era + 365 * y + f - h + doy - 719468
  BY <1>1, <1>3, <1>5, SMT
<1>17. Dated(d.year, d.month, d.day) /\ d.year \in Int => d.month \in 1..12 /\ d.day \in 1..31
  <2> SUFFICES ASSUME NEW year \in Int, NEW m \in 1..12, NEW k \in 1..DaysIn(year, m)
               PROVE  k \in 1..31
    BY DEF Dated
  <2> QED BY SMT DEF DaysIn
<1>18. CASE mp < 10
  <2>1. d.month = mp + 3 /\ d.year = g
    BY <1>8, <1>9, <1>10, <1>18, SMT DEF MonthOf, InMonth
  <2>2. /\ Dated(g, mp + 3, doy - s + 1)
        /\ DaysUpTo(g, mp + 3) = 59 + LeapDay(g) + s
    BY <1>10, <1>18, MarchToDecember
  <2>3. LeapsBefore(g) \in Int /\ LeapsBefore(g + 1) = LeapsBefore(g) + LeapDay(g)
    BY LeapsAdvance DEF LeapDay
  <2>4. LeapDay(g) \in Int
    BY SMT DEF LeapDay
  <2>5. DaysBefore(g, mp + 3) + (doy - s + 1) - 1 = days
    BY <1>8, <1>12, <1>14, <1>15, <1>16, <2>2, <2>3, <2>4, SMT
  <2> QED BY <1>9, <1>17, <2>1, <2>2, <2>5, SMT
<1>19. CASE mp >= 10
  <2>1. d.month = mp - 9 /\ d.year = g + 1
    BY <1>8, <1>9, <1>10, <1>19, SMT DEF MonthOf, InMonth
  <2>2. /\ Dated(g + 1, mp - 9, doy - s + 1)
        /\ DaysUpTo(g + 1, mp - 9) = s - 306
    <3>1. g + 1 \in Int
      OBVIOUS
    <3> QED BY <1>10, <1>13, <1>19, <3>1, JanuaryAndFebruary
  <2>3. DaysBefore(g + 1, mp - 9) + (doy - s + 1) - 1 = days
    BY <1>8, <1>12, <1>14, <1>15, <1>16, <2>2, SMT
  <2>4. g + 1 \in Int
    OBVIOUS
  <2> QED BY <1>9, <1>17, <2>1, <2>2, <2>3, <2>4, SMT
<1> QED BY <1>18, <1>19, SMT

-----------------------------------------------------------------------------
(* The time of day.                                                        *)
LEMMA TimeOfDay ==
  ASSUME NEW s \in Nat, s < 86400
  PROVE  /\ s \div 3600 \in 0..23 /\ (s % 3600) \div 60 \in 0..59 /\ s % 60 \in 0..59
         /\ 3600 * (s \div 3600) + 60 * ((s % 3600) \div 60) + (s % 60) = s
BY SMT

-----------------------------------------------------------------------------
(***************************************************************************)
(* The registry maps a name to the last tool registered under it, and an   *)
(* answer is what that tool says of the call's input: tools are registered *)
(* between calls only, so it is still the tool that the caller sees.       *)
(***************************************************************************)
LastAs(n, i) ==
  /\ registered[i].name = n
  /\ \A j \in 1..Len(registered) : registered[j].name = n => j <= i

RegistryOK ==
  /\ registered \in Seq(AllTools)
  /\ tools \in [DOMAIN tools -> AllTools]
  /\ DOMAIN tools = {registered[i].name : i \in 1..Len(registered)}
  /\ \A n \in DOMAIN tools :
       \E i \in 1..Len(registered) : LastAs(n, i) /\ tools[n] = registered[i]

AnswerOK ==
  \/ Idle
  \/ call.name \notin DOMAIN tools /\ answer.outcome = "NotFound"
  \/ /\ call.name \in DOMAIN tools /\ tools[call.name] # Native("current_time")
     /\ call.input \in Arguments /\ answer = Invoked(tools[call.name], call.input)
  \/ /\ call.name = "current_time" /\ "current_time" \in DOMAIN tools
     /\ tools["current_time"] = Native("current_time")
     /\ call.input \in Instants /\ answer = current_time(call.input)

ToolsInv == RegistryOK /\ AnswerOK

(* A tool is a native or a remote one, whatever it is called.              *)
LEMMA ToolKinds ==
  ASSUME NEW tool \in AllTools
  PROVE  /\ tool = Native(tool.name) \/ tool = Remote(tool.name)
         /\ tool = Native(tool.name) => tool.name \in {"echo", "current_time", "calculator"}
         /\ tool.name \in ToolNames
         /\ tool.kind = "remote" <=> tool = Remote(tool.name)
         /\ tool # Native("current_time") =>
              Invoked(tool, call.input) \in
                {Err("Unsupported"), echo(call.input), calculator(call.input)}
<1>1. tool \in NativeTools \/ \E n \in RemoteNames : tool = Remote(n)
  BY DEF AllTools
<1> QED BY <1>1 DEF NativeTools, Native, Remote, Invoked, ToolNames, AllTools

LEMMA ToolsInvInit == ToolsInit => ToolsInv
<1> SUFFICES ASSUME ToolsInit PROVE RegistryOK
  BY DEF ToolsInit, ToolsInv, AnswerOK, Idle, NoAnswer, Err
<1>1. CASE tools = [n \in {} |-> Native(n)] /\ registered = <<>>
  BY <1>1 DEF RegistryOK
<1>2. CASE /\ tools = NativeRegistry
           /\ registered = <<Native("echo"), Native("current_time"), Native("calculator")>>
  <2>1. /\ registered \in Seq(AllTools) /\ Len(registered) = 3
        /\ registered[1] = Native("echo") /\ registered[2] = Native("current_time")
        /\ registered[3] = Native("calculator")
    BY <1>2 DEF AllTools, NativeTools
  <2>2. \A n : Native(n).name = n
    BY DEF Native
  <2>3. 1..Len(registered) = {1, 2, 3}
    BY <2>1
  <2>4. {registered[i].name : i \in 1..Len(registered)} = {"echo", "current_time", "calculator"}
    BY <2>1, <2>2, <2>3
  <2>5. {t.name : t \in NativeTools} = {"echo", "current_time", "calculator"}
    BY <2>2 DEF NativeTools
  <2>6. tools = [n \in {"echo", "current_time", "calculator"} |-> Native(n)]
    BY <1>2, <2>5 DEF NativeRegistry
  <2>7. tools \in [DOMAIN tools -> AllTools]
    BY <2>6 DEF AllTools, NativeTools
  <2>8. ASSUME NEW n \in DOMAIN tools
        PROVE  \E i \in 1..Len(registered) : LastAs(n, i) /\ tools[n] = registered[i]
    <3>1. n \in {"echo", "current_time", "calculator"} /\ tools[n] = Native(n)
      BY <2>6
    <3>2. CASE n = "echo"
      <4>1. LastAs(n, 1) /\ tools[n] = registered[1]
        BY <2>1, <2>2, <2>3, <3>1, <3>2 DEF LastAs
      <4> QED BY <4>1, <2>3
    <3>3. CASE n = "current_time"
      <4>1. LastAs(n, 2) /\ tools[n] = registered[2]
        BY <2>1, <2>2, <2>3, <3>1, <3>3 DEF LastAs
      <4> QED BY <4>1, <2>3
    <3>4. CASE n = "calculator"
      <4>1. LastAs(n, 3) /\ tools[n] = registered[3]
        BY <2>1, <2>2, <2>3, <3>1, <3>4 DEF LastAs
      <4> QED BY <4>1, <2>3
    <3> QED BY <3>1, <3>2, <3>3, <3>4
  <2>9. DOMAIN tools = {registered[i].name : i \in 1..Len(registered)}
    BY <2>4, <2>6
  <2> QED BY <2>1, <2>7, <2>8, <2>9 DEF RegistryOK
<1> QED BY <1>1, <1>2 DEF ToolsInit

(* A registration replaces the tool of its name and no other.              *)
LEMMA Registering ==
  ASSUME ToolsInv, NEW tool \in AllTools, register(tool)
  PROVE  ToolsInv'
<1>1. AnswerOK'
  BY DEF register, Idle, AnswerOK
<1>2. PICK k \in Nat : k = Len(registered)
  BY DEF ToolsInv, RegistryOK
<1>3. /\ registered' \in Seq(AllTools) /\ Len(registered') = k + 1
      /\ registered'[k + 1] = tool
      /\ \A i \in 1..k : registered'[i] = registered[i]
  <2>1. registered \in Seq(AllTools)
    BY DEF ToolsInv, RegistryOK
  <2>2. ASSUME NEW s \in Seq(AllTools)
        PROVE  /\ Append(s, tool) \in Seq(AllTools) /\ Len(Append(s, tool)) = Len(s) + 1
               /\ Append(s, tool)[Len(s) + 1] = tool
               /\ \A i \in 1..Len(s) : Append(s, tool)[i] = s[i]
    OBVIOUS
  <2> QED BY <1>2, <2>1, <2>2 DEF register
<1>4. /\ tools' = [n \in DOMAIN tools \cup {tool.name} |->
                     IF n = tool.name THEN tool ELSE tools[n]]
      /\ tools \in [DOMAIN tools -> AllTools]
  BY DEF register, Inserted, ToolsInv, RegistryOK
<1>5. DOMAIN tools' = DOMAIN tools \cup {tool.name} /\ tools' \in [DOMAIN tools' -> AllTools]
  BY <1>4
<1>6. DOMAIN tools' = {registered'[i].name : i \in 1..Len(registered')}
  <2>1. DOMAIN tools = {registered[i].name : i \in 1..k}
    BY <1>2 DEF ToolsInv, RegistryOK
  <2>2. 1..(k + 1) = (1..k) \cup {k + 1}
    OBVIOUS
  <2> QED BY <1>3, <1>5, <2>1, <2>2
<1>7. ASSUME NEW n \in DOMAIN tools'
      PROVE  \E i \in 1..Len(registered') : LastAs(n, i)' /\ tools'[n] = registered'[i]
  <2>1. CASE n = tool.name
    <3>1. LastAs(n, k + 1)' /\ tools'[n] = registered'[k + 1]
      BY <1>3, <1>4, <2>1 DEF LastAs
    <3>2. k + 1 \in 1..Len(registered')
      BY <1>3
    <3> QED BY <3>1, <3>2
  <2>2. CASE n # tool.name
    <3>1. PICK i \in 1..k : LastAs(n, i) /\ tools[n] = registered[i]
      BY <1>2, <1>5, <2>2 DEF ToolsInv, RegistryOK
    <3>2. i \in 1..Len(registered') /\ registered'[i] = registered[i]
      BY <1>3
    <3>3. tools'[n] = registered'[i]
      BY <1>4, <1>5, <2>2, <3>1, <3>2
    <3>4. ASSUME NEW j \in 1..Len(registered'), registered'[j].name = n PROVE j <= i
      <4>1. j \in 1..k
        BY <1>3, <2>2, <3>4
      <4> QED BY <1>2, <1>3, <3>1, <3>4, <4>1 DEF LastAs
    <3>5. LastAs(n, i)'
      BY <3>1, <3>2, <3>4 DEF LastAs
    <3> QED BY <3>2, <3>3, <3>5
  <2> QED BY <2>1, <2>2
<1> QED BY <1>1, <1>3, <1>5, <1>6, <1>7 DEF ToolsInv, RegistryOK

LEMMA ToolsInvStep == ToolsInv /\ [ToolsNext]_toolsVars => ToolsInv'
<1> SUFFICES ASSUME ToolsInv, [ToolsNext]_toolsVars PROVE ToolsInv'
  OBVIOUS
<1>1. ASSUME NEW tool \in AllTools, register(tool) PROVE ToolsInv'
  BY <1>1, Registering
<1>2. ASSUME UNCHANGED <<tools, registered>>, AnswerOK' PROVE ToolsInv'
  BY <1>2 DEF ToolsInv, RegistryOK, LastAs
<1>3. ASSUME NEW name \in ToolNames, NEW args \in Arguments, invoke(name, args)
      PROVE  ToolsInv'
  <2>1. UNCHANGED <<tools, registered>> /\ call'.name = name /\ call'.input = args
    BY <1>3 DEF invoke, Returned
  <2>2. AnswerOK'
    BY <1>3, <2>1 DEF invoke, Returned, AnswerOK, Err
  <2> QED BY <1>2, <2>1, <2>2
<1>4. ASSUME NEW now \in Instants, invoke_current_time(now) PROVE ToolsInv'
  <2>1. UNCHANGED <<tools, registered>> /\ call'.name = "current_time" /\ call'.input = now
    BY <1>4 DEF invoke_current_time, Returned
  <2>2. AnswerOK'
    BY <1>4, <2>1 DEF invoke_current_time, Returned, AnswerOK
  <2> QED BY <1>2, <2>1, <2>2
<1>5. ASSUME Done PROVE ToolsInv'
  BY <1>2, <1>5 DEF Done, AnswerOK, Idle, NoAnswer, Err
<1>6. ASSUME UNCHANGED toolsVars PROVE ToolsInv'
  <2>1. AnswerOK'
    BY <1>6 DEF toolsVars, ToolsInv, AnswerOK, Idle
  <2> QED BY <1>2, <1>6, <2>1 DEF toolsVars
<1> QED BY <1>1, <1>3, <1>4, <1>5, <1>6 DEF ToolsNext

LEMMA ToolsInvHolds == ToolsSpec => []ToolsInv
BY ToolsInvInit, ToolsInvStep, PTL DEF ToolsSpec

-----------------------------------------------------------------------------
(* FiniteSetsExt's Max.                                                    *)
LEMMA MaxIs ==
  ASSUME NEW S, S \subseteq Nat, NEW i \in S, \A j \in S : j <= i
  PROVE  Max(S) = i
<1>1. \A y \in S : i >= y
  OBVIOUS
<1>2. ASSUME NEW x \in S, \A y \in S : x >= y PROVE x = i
  BY <1>2
<1> QED BY <1>1, <1>2 DEF Max

(* Of the registrations under the name called, the last one is the tool.   *)
LEMMA LatestIsTheTool ==
  ASSUME RegistryOK
  PROVE  /\ RegisteredAs = {} <=> call.name \notin DOMAIN tools
         /\ call.name \in DOMAIN tools =>
              /\ Latest = tools[call.name] /\ Latest.name = call.name /\ Latest \in AllTools
<1>1. RegisteredAs = {i \in 1..Len(registered) : registered[i].name = call.name}
  BY DEF RegistryOK, RegisteredAs
<1>2. RegisteredAs = {} <=> call.name \notin DOMAIN tools
  BY <1>1 DEF RegistryOK
<1>3. ASSUME call.name \in DOMAIN tools
      PROVE  Latest = tools[call.name] /\ Latest.name = call.name /\ Latest \in AllTools
  <2>1. PICK i \in 1..Len(registered) : LastAs(call.name, i) /\ tools[call.name] = registered[i]
    BY <1>3 DEF RegistryOK
  <2>2. RegisteredAs \subseteq Nat /\ i \in RegisteredAs /\ \A j \in RegisteredAs : j <= i
    BY <1>1, <2>1 DEF LastAs
  <2>3. Max(RegisteredAs) = i
    BY <2>2, MaxIs
  <2>4. registered[i] \in AllTools
    BY DEF RegistryOK
  <2> QED BY <2>1, <2>3, <2>4 DEF Latest, LastAs
<1> QED BY <1>2, <1>3

(* What an answer says of the tool that gave it.                           *)
LEMMA AnswerOfTool ==
  ASSUME ToolsInv, call.name \in DOMAIN tools, ~Idle, answer.outcome # "NotFound"
  PROVE  \/ answer.outcome = "Unsupported" /\ Latest.kind = "remote"
         \/ /\ Latest = Native(call.name) /\ call.name # "current_time"
            /\ call.name \in {"echo", "calculator"}
            /\ answer.outcome \in {"Ok", "InvalidInput"}
            /\ call.name = "calculator" =>
                 call.input \in Arguments /\ answer = calculator(call.input)
         \/ /\ Latest = Native(call.name) /\ call.name = "current_time"
            /\ call.input \in Instants /\ answer = current_time(call.input)
<1>1. Latest = tools[call.name] /\ Latest.name = call.name /\ Latest \in AllTools
  BY LatestIsTheTool DEF ToolsInv
<1>2. PICK tool \in AllTools : tool = Latest
  BY <1>1
<1>3. CASE /\ tools[call.name] # Native("current_time")
           /\ call.input \in Arguments /\ answer = Invoked(tools[call.name], call.input)
  <2>1. /\ tool = Native(call.name) \/ tool = Remote(call.name)
        /\ tool = Native(call.name) => call.name \in {"echo", "current_time", "calculator"}
        /\ tool # Native("current_time") /\ answer = Invoked(tool, call.input)
    BY <1>1, <1>2, <1>3, ToolKinds
  <2>2. CASE tool = Remote(call.name)
    <3>1. tool.kind = "remote"
      BY <2>2 DEF Remote
    <3>2. answer = Err("Unsupported")
      BY <2>1, <2>2, <3>1 DEF Invoked, Native, Remote
    <3> QED BY <1>2, <3>1, <3>2 DEF Err
  <2>3. CASE tool = Native(call.name)
    <3>1. call.name \in {"echo", "calculator"}
      BY <2>1, <2>3
    <3>2. tool.kind = "native"
      BY <2>3 DEF Native
    <3>3. answer = IF call.name = "echo" THEN echo(call.input) ELSE calculator(call.input)
      BY <2>1, <2>3, <3>1, <3>2 DEF Invoked, Native
    <3>4. answer.outcome \in {"Ok", "InvalidInput"}
      BY <3>3 DEF echo, calculator, Ok, Err
    <3> QED BY <1>2, <1>3, <2>3, <3>1, <3>3, <3>4
  <2> QED BY <2>1, <2>2, <2>3
<1>4. CASE /\ call.name = "current_time"
           /\ tools["current_time"] = Native("current_time")
           /\ call.input \in Instants /\ answer = current_time(call.input)
  BY <1>1, <1>4
<1> QED BY <1>3, <1>4 DEF ToolsInv, AnswerOK

(* The date and the time of an answered call of current_time.              *)
LEMMA TimeAnswered ==
  ASSUME ToolsInv, answer.outcome = "Ok", call.name = "current_time"
  PROVE  /\ call.input \in [day : Int, second : {x \in Nat : x < 86400}] /\ 0 <= call.input.day
         /\ answer.content.date = civil_from_days(call.input.day)
         /\ answer.content.time = <<call.input.second \div 3600,
                                    (call.input.second % 3600) \div 60, call.input.second % 60>>
<1>1. ~Idle /\ answer.outcome # "NotFound" /\ call.name \in DOMAIN tools
  BY DEF Idle, ToolsInv, AnswerOK
<1>2. call.input \in Instants /\ answer = current_time(call.input)
  BY <1>1, AnswerOfTool
<1>3. call.input \in [day : Int, second : {x \in Nat : x < 86400}]
  BY <1>2, InputAssumption
<1>4. 0 <= call.input.day /\ answer = Ok(format_rfc3339(call.input))
  BY <1>2, <1>3 DEF current_time, Err
<1> QED BY <1>3, <1>4 DEF Ok, format_rfc3339

(* DateIsExact of module Tools, for every second from the epoch on.        *)
THEOREM DatesAreExact == ToolsSpec => []DateIsExact
<1>1. ToolsInv => DateIsExact
  <2> SUFFICES ASSUME ToolsInv, answer.outcome = "Ok", call.name = "current_time"
               PROVE  LET d == answer.content.date
                          t == answer.content.time
                      IN /\ d.day \in 1..DaysIn(d.year, d.month)
                         /\ DaysBefore(d.year, d.month) + d.day - 1 = call.input.day
                         /\ 3600 * t[1] + 60 * t[2] + t[3] = call.input.second
    BY DEF DateIsExact
  <2>1. PICK days \in Int, second \in Nat :
          days = call.input.day /\ second = call.input.second /\ 0 <= days /\ second < 86400
    BY TimeAnswered
  <2>2. PICK date : date = civil_from_days(days)
    OBVIOUS
  <2>3. date = answer.content.date
    BY <2>1, <2>2, TimeAnswered
  <2>4. /\ Dated(date.year, date.month, date.day)
        /\ DaysBefore(date.year, date.month) + date.day - 1 = days
    BY <2>1, <2>2, CivilDate
  <2>5. /\ answer.content.time[1] = second \div 3600
        /\ answer.content.time[2] = (second % 3600) \div 60
        /\ answer.content.time[3] = second % 60
    BY <2>1, TimeAnswered
  <2>6. 3600 * (second \div 3600) + 60 * ((second % 3600) \div 60) + (second % 60) = second
    BY <2>1, TimeOfDay
  <2> QED BY <2>1, <2>3, <2>4, <2>5, <2>6, SMT DEF Dated
<1> QED BY <1>1, ToolsInvHolds, PTL

(* ToolsTypeOK of module Tools: every field of every answered date and     *)
(* time is in the range RFC 3339 gives it.                                 *)
THEOREM ToolsTypeCorrect == ToolsSpec => []ToolsTypeOK
<1>1. ToolsInv => ToolsTypeOK
  <2> SUFFICES ASSUME ToolsInv PROVE ToolsTypeOK
    OBVIOUS
  <2>1. tools \in [DOMAIN tools -> AllTools] /\ registered \in Seq(AllTools)
    BY DEF ToolsInv, RegistryOK
  <2>2. DOMAIN tools \subseteq ToolNames
    <3> SUFFICES ASSUME NEW n \in DOMAIN tools PROVE n \in ToolNames
      OBVIOUS
    <3>1. PICK i \in 1..Len(registered) : registered[i].name = n
      BY DEF ToolsInv, RegistryOK
    <3>2. registered[i] \in AllTools
      BY <2>1
    <3> QED BY <3>1, <3>2 DEF ToolNames
  <2>3. answer.outcome \in Outcomes
    <3>1. CASE ~Idle /\ answer.outcome # "NotFound"
      <4>1. call.name \in DOMAIN tools
        BY <3>1 DEF ToolsInv, AnswerOK
      <4> QED BY <3>1, <4>1, AnswerOfTool DEF current_time, Ok, Err, Outcomes
    <3> QED BY <3>1 DEF Idle, Outcomes
  <2>4. ASSUME answer.outcome = "Ok", call.name = "current_time"
        PROVE  LET d == answer.content.date
                   t == answer.content.time
               IN /\ d.month \in 1..12 /\ d.day \in 1..31
                  /\ t[1] \in 0..23 /\ t[2] \in 0..59 /\ t[3] \in 0..59
    <3>1. PICK days \in Int, second \in Nat :
            days = call.input.day /\ second = call.input.second /\ 0 <= days /\ second < 86400
      BY <2>4, TimeAnswered
    <3>2. PICK date : date = civil_from_days(days)
      OBVIOUS
    <3>3. date = answer.content.date
      BY <2>4, <3>1, <3>2, TimeAnswered
    <3>4. date.month \in 1..12 /\ date.day \in 1..31
      BY <3>1, <3>2, CivilDate
    <3>5. /\ answer.content.time[1] = second \div 3600
          /\ answer.content.time[2] = (second % 3600) \div 60
          /\ answer.content.time[3] = second % 60
      BY <2>4, <3>1, TimeAnswered
    <3>6. second \div 3600 \in 0..23 /\ (second % 3600) \div 60 \in 0..59 /\ second % 60 \in 0..59
      BY <3>1, TimeOfDay
    <3> QED BY <3>3, <3>4, <3>5, <3>6, SMT
  <2> QED BY <2>1, <2>2, <2>3, <2>4, Zenon DEF ToolsTypeOK
<1> QED BY <1>1, ToolsInvHolds, PTL

(* LatestToolAnswers of module Tools, for any tools, in whatever order     *)
(* they are registered and called: what answers a call is the tool that    *)
(* was registered last under its name (registry.rs:27-31, 52-66).          *)
THEOREM LatestToolsAnswer == ToolsSpec => []LatestToolAnswers
<1>1. ToolsInv => LatestToolAnswers
  <2> SUFFICES ASSUME ToolsInv PROVE LatestToolAnswers
    OBVIOUS
  <2>1. RegisteredAs = {} <=> call.name \notin DOMAIN tools
    BY LatestIsTheTool DEF ToolsInv
  <2>2. CASE Idle
    BY <2>2 DEF Idle, LatestToolAnswers
  <2>3. CASE call.name \notin DOMAIN tools /\ answer.outcome = "NotFound"
    BY <2>1, <2>3 DEF LatestToolAnswers
  <2>4. CASE ~Idle /\ call.name \in DOMAIN tools /\ answer.outcome # "NotFound"
    <3>1. answer.outcome = "Unsupported" => Latest.kind = "remote"
      BY <2>4, AnswerOfTool DEF current_time, Ok, Err, Native
    <3>2. answer.outcome \in {"Ok", "InvalidInput", "Other"} => Latest = Native(call.name)
      BY <2>4, AnswerOfTool
    <3> QED BY <2>1, <2>4, <3>1, <3>2 DEF LatestToolAnswers
  <2>5. ~Idle => \/ call.name \notin DOMAIN tools /\ answer.outcome = "NotFound"
                 \/ call.name \in DOMAIN tools /\ answer.outcome # "NotFound"
    <3>1. ASSUME call.name \in DOMAIN tools, answer.outcome = "NotFound" PROVE FALSE
      <4>1. \A tool \in AllTools : tool # Native("current_time") =>
              Invoked(tool, call.input).outcome # "NotFound"
        BY ToolKinds DEF echo, calculator, Ok, Err
      <4>2. tools[call.name] \in AllTools
        BY <3>1 DEF ToolsInv, RegistryOK
      <4> QED BY <3>1, <4>1, <4>2 DEF ToolsInv, AnswerOK, Idle, current_time, Ok, Err
    <3> QED BY <3>1 DEF ToolsInv, AnswerOK
  <2> QED BY <2>2, <2>3, <2>4, <2>5
<1> QED BY <1>1, ToolsInvHolds, PTL

-----------------------------------------------------------------------------
(* A turn ends.  What is left of it, counted in its own steps: one for     *)
(* each hit to walk from, one for each tool to call, the end of the tool   *)
(* stage, the prompt and the completion (genai_loop.rs:77-150).            *)
TurnStepsLeft(c) ==
  LET rest == Len(requests[c]) + 3
  IN CASE stage[c] = "retrieval" ->
            rest + (IF pc[c] = "search" THEN TopK + 1 ELSE Len(matches[c]) - Len(items[c]))
       [] stage[c] = "tools"      -> rest - Len(ran[c])
       [] stage[c] = "build"      -> 2
       [] stage[c] = "completion" -> 1
       [] OTHER                   -> 0

(* A turn has a number of steps left, and none when it has ended.          *)
TurnBounded ==
  \A c \in Tasks : /\ TurnStepsLeft(c) \in Nat
                   /\ TurnStepsLeft(c) = 0 <=> stage[c] \in TurnEnded

(* A turn that begins has at most TopK + Len(wanted) + 4 steps left, each  *)
(* of its steps brings it nearer to its end, and nothing takes it back.    *)
TurnAdvances ==
  \A c \in Tasks :
    /\ \A t \in Tenants, wanted \in ToolRequests :
         run_turn(c, t, wanted) => TurnStepsLeft(c)' <= TopK + Len(wanted) + 4
    /\ Advance(c) => TurnStepsLeft(c)' < TurnStepsLeft(c)
    /\ stage[c] \in Underway => TurnStepsLeft(c)' <= TurnStepsLeft(c)

LEMMA TurnLengths ==
  ASSUME TypeOK, TurnInv, NEW c \in Tasks
  PROVE  /\ Len(requests[c]) \in Nat /\ Len(ran[c]) \in Nat /\ Len(ran[c]) <= Len(requests[c])
         /\ Len(matches[c]) \in Nat /\ Len(items[c]) \in Nat /\ TopK \in Nat
         /\ stage[c] \in TurnEnded \cup Underway
         /\ stage[c] = "retrieval" <=> pc[c] \in {"search", "traverse"}
         /\ pc[c] = "traverse" => Len(items[c]) < Len(matches[c])
         /\ stage[c] = "retrieval" => ran[c] = <<>>
<1>1. /\ requests[c] \in Seq(STRING) /\ ran[c] \in Seq(Call) /\ matches[c] \in Seq(ChunkIds)
      /\ items[c] \in Seq(Item)
  BY DEF TurnInv, TurnShape, TypeOK
<1> QED BY <1>1, KnowledgeAssumption
        DEF TurnInv, TurnShape, TurnOf, InStage, CallsMade, TypeOK

LEMMA TurnBounds ==
  ASSUME TypeOK, TurnInv, NEW c \in Tasks
  PROVE  /\ TurnStepsLeft(c) \in Nat
         /\ TurnStepsLeft(c) = 0 <=> stage[c] \in TurnEnded
<1>1. PICK n \in Nat, r \in Nat, m \in Nat, i \in Nat :
        n = Len(requests[c]) /\ r = Len(ran[c]) /\ m = Len(matches[c]) /\ i = Len(items[c])
  BY TurnLengths
<1>2. /\ r <= n /\ TopK \in Nat
      /\ stage[c] \in TurnEnded \cup Underway
      /\ stage[c] = "retrieval" => pc[c] \in {"search", "traverse"}
      /\ pc[c] = "traverse" => i < m
  BY <1>1, TurnLengths
<1>3. CASE stage[c] = "retrieval" /\ pc[c] = "search"
  <2>1. TurnStepsLeft(c) = (n + 3) + (TopK + 1)
    BY <1>1, <1>3 DEF TurnStepsLeft
  <2>2. TurnStepsLeft(c) \in Nat /\ TurnStepsLeft(c) # 0
    BY <1>2, <2>1
  <2> QED BY <1>3, <2>2 DEF TurnEnded
<1>4. CASE stage[c] = "retrieval" /\ pc[c] = "traverse"
  <2>1. TurnStepsLeft(c) = (n + 3) + (m - i)
    BY <1>1, <1>4 DEF TurnStepsLeft
  <2>2. TurnStepsLeft(c) \in Nat /\ TurnStepsLeft(c) # 0
    BY <1>2, <1>4, <2>1
  <2> QED BY <1>4, <2>2 DEF TurnEnded
<1>5. CASE stage[c] = "tools"
  <2>1. TurnStepsLeft(c) = (n + 3) - r
    BY <1>1, <1>5 DEF TurnStepsLeft
  <2>2. TurnStepsLeft(c) \in Nat /\ TurnStepsLeft(c) # 0
    BY <1>2, <2>1
  <2> QED BY <1>5, <2>2 DEF TurnEnded
<1>6. CASE stage[c] = "build" \/ stage[c] = "completion"
  <2>1. TurnStepsLeft(c) = 2 \/ TurnStepsLeft(c) = 1
    BY <1>6 DEF TurnStepsLeft
  <2> QED BY <1>6, <2>1 DEF TurnEnded
<1>7. CASE stage[c] \in TurnEnded
  BY <1>7 DEF TurnStepsLeft, TurnEnded
<1> QED BY <1>2, <1>3, <1>4, <1>5, <1>6, <1>7 DEF Underway

(* A step of one turn leaves every other turn where it is.                 *)
LEMMA OtherTurnsStand ==
  ASSUME TypeOK, TurnInv, NEW d \in Tasks, NEW c \in Tasks \ {d},
         \/ \E t \in Tenants, wanted \in ToolRequests : run_turn(d, t, wanted)
         \/ Advance(d) \/ TurnDrop(d)
  PROVE  TurnStepsLeft(c)' = TurnStepsLeft(c)
<1>1. /\ DOMAIN pc = Tasks /\ DOMAIN matches = Tasks /\ DOMAIN items = Tasks
      /\ DOMAIN stage = Tasks /\ DOMAIN requests = Tasks /\ DOMAIN ran = Tasks
  BY DEF TypeOK, TurnInv, TurnShape
<1>2. /\ pc' = pc \/ \E label : pc' = [pc EXCEPT ![d] = label]
      /\ matches' = matches \/ \E hits : matches' = [matches EXCEPT ![d] = hits]
      /\ items' = items \/ \E found : items' = [items EXCEPT ![d] = found]
  <2>1. CASE \E t \in Tenants, wanted \in ToolRequests : run_turn(d, t, wanted)
    BY <2>1 DEF run_turn, retrieve, Goto
  <2>2. CASE Retrieve(d)
    <3>1. PICK a \in {1, 2, 3} : IF a = 1 THEN SearchSucceeds(d) ELSE IF a = 2 THEN SearchFails(d)
                                ELSE \E related, how : PushItem(d, related, how)
      BY <2>2 DEF Retrieve, Step, TraverseMatch, TraversalFails, NoTraversal
    <3>2. CASE a = 1
      BY <3>1, <3>2 DEF SearchSucceeds, Goto
    <3>3. CASE a = 2
      BY <3>1, <3>3 DEF SearchFails, Goto
    <3>4. CASE a = 3
      <4>1. PICK related, how : PushItem(d, related, how)
        BY <3>1, <3>4
      <4>2. matches' = matches /\ \E label : pc' = [pc EXCEPT ![d] = label]
        BY <4>1 DEF PushItem, Goto
      <4>3. items' = [items EXCEPT ![d] = Append(items[d],
              [chunk_id |-> NextMatch(d), related_edges |-> related, graph |-> how])]
        BY <4>1 DEF PushItem
      <4> QED BY <4>2, <4>3
    <3> QED BY <3>1, <3>2, <3>3, <3>4
  <2>3. CASE TurnDrop(d)
    BY <2>3 DEF TurnDrop, Drop, Goto
  <2>4. CASE \/ ToolAnswers(d) \/ ToolFails(d) \/ ToolsDone(d)
             \/ Build(d) \/ Answer(d) \/ CompletionFails(d)
    BY <2>4 DEF ToolAnswers, ToolFails, ToolCall, ToolsDone, Build, Answer, CompletionFails
  <2> QED BY <2>1, <2>2, <2>3, <2>4 DEF Advance
<1>3. /\ stage' = stage \/ \E label : stage' = [stage EXCEPT ![d] = label]
      /\ requests' = requests \/ \E wanted : requests' = [requests EXCEPT ![d] = wanted]
      /\ ran' = ran \/ \E calls : ran' = [ran EXCEPT ![d] = calls]
  <2>1. CASE \E t \in Tenants, wanted \in ToolRequests : run_turn(d, t, wanted)
    BY <2>1 DEF run_turn, Enter
  <2>2. CASE Retrieve(d)
    BY <2>2 DEF Retrieve, Enter
  <2>3. CASE TurnDrop(d)
    BY <2>3 DEF TurnDrop, Enter
  <2>4. CASE ToolAnswers(d) \/ ToolFails(d)
    <3>1. PICK outcome : ToolCall(d, outcome)
      BY <2>4 DEF ToolAnswers, ToolFails
    <3> QED BY <3>1 DEF ToolCall
  <2>5. CASE ToolsDone(d) \/ Build(d) \/ Answer(d) \/ CompletionFails(d)
    BY <2>5 DEF ToolsDone, Build, Answer, CompletionFails, Enter
  <2> QED BY <2>1, <2>2, <2>3, <2>4, <2>5 DEF Advance
<1>4. pc'[c] = pc[c] /\ matches'[c] = matches[c] /\ items'[c] = items[c]
  BY <1>1, <1>2
<1>5. stage'[c] = stage[c] /\ requests'[c] = requests[c] /\ ran'[c] = ran[c]
  BY <1>1, <1>3
<1> QED BY <1>4, <1>5 DEF TurnStepsLeft

(* An await of the retrieval: the search, or one hit's traversal.          *)
LEMMA RetrievalAdvances ==
  ASSUME TypeOK, TypeOK', TurnInv, NEW c \in Tasks, Retrieve(c)
  PROVE  TurnStepsLeft(c)' \in Int /\ TurnStepsLeft(c)' < TurnStepsLeft(c)
<1> DEFINE rest == Len(requests[c]) + 3
<1>1. /\ rest \in Nat /\ rest >= 3 /\ Len(ran[c]) = 0
      /\ Len(matches[c]) \in Nat /\ Len(items[c]) \in Nat /\ TopK \in Nat
      /\ stage[c] = "retrieval" /\ pc[c] \in {"search", "traverse"}
      /\ pc[c] = "traverse" => Len(items[c]) < Len(matches[c])
  BY TurnLengths DEF Retrieve
<1>2. /\ DOMAIN pc = Tasks /\ DOMAIN stage = Tasks
      /\ matches' \in [Tasks -> Seq(ChunkIds)] /\ items' \in [Tasks -> Seq(Item)']
      /\ matches \in [Tasks -> Seq(ChunkIds)] /\ items \in [Tasks -> Seq(Item)]
      /\ pc'[c] = "traverse" => Len(items'[c]) < Len(matches'[c])
  BY DEF TypeOK, TurnInv, TurnShape
<1>3. /\ stage'[c] = AfterRetrieval(c) /\ requests'[c] = requests[c] /\ ran'[c] = ran[c]
  BY <1>2 DEF Retrieve, Enter
<1>4. ASSUME pc'[c] \in {"done", "failed"} PROVE TurnStepsLeft(c)' \in 0..rest
  <2>1. CASE pc'[c] = "done"
    <3>1. stage'[c] = "tools"
      BY <1>3, <2>1 DEF AfterRetrieval
    <3>2. TurnStepsLeft(c)' = rest - 0
      BY <1>1, <1>3, <3>1 DEF TurnStepsLeft
    <3> QED BY <1>1, <3>2
  <2>2. CASE pc'[c] = "failed"
    <3>1. stage'[c] = "failed"
      BY <1>3, <2>2 DEF AfterRetrieval
    <3>2. TurnStepsLeft(c)' = 0
      BY <3>1 DEF TurnStepsLeft
    <3> QED BY <1>1, <3>2
  <2> QED BY <1>4, <2>1, <2>2
<1>5. ASSUME pc'[c] = "traverse"
      PROVE  TurnStepsLeft(c)' = rest + (Len(matches'[c]) - Len(items'[c]))
  <2>1. stage'[c] = "retrieval"
    BY <1>3, <1>5 DEF AfterRetrieval
  <2> QED BY <1>3, <1>5, <2>1 DEF TurnStepsLeft
<1>6. TurnStepsLeft(c) =
        rest + (IF pc[c] = "search" THEN TopK + 1 ELSE Len(matches[c]) - Len(items[c]))
  BY <1>1 DEF TurnStepsLeft
<1> HIDE DEF rest
<1>7. CASE SearchSucceeds(c)
  <2>1. PICK hits \in SeqOf(ChunksOf(tenant[c]), TopK) :
          /\ Vectors!IsRanking(tenant[c], "question", TopK, hits)
          /\ matches' = [matches EXCEPT ![c] = hits]
          /\ Goto(c, IF hits = <<>> THEN "done" ELSE "traverse")
    BY <1>7 DEF SearchSucceeds
  <2>2. Len(hits) <= TopK /\ pc[c] = "search" /\ items' = items
    BY <1>7, <2>1 DEF Vectors!IsRanking, SearchSucceeds
  <2>3. pc'[c] \in {"done", "traverse"} /\ matches'[c] = hits
    BY <1>2, <2>1 DEF Goto
  <2>4. Len(hits) \in Nat /\ items'[c] = items[c]
    <3>1. matches'[c] \in Seq(ChunkIds)
      BY <1>2
    <3> QED BY <2>2, <2>3, <3>1
  <2>5. PICK m \in Nat : m = Len(hits) /\ m <= TopK
    BY <2>2, <2>4
  <2>6. TurnStepsLeft(c) = rest + (TopK + 1)
    BY <1>6, <2>2
  <2>7. CASE pc'[c] = "done"
    BY <1>1, <1>4, <2>6, <2>7
  <2>8. CASE pc'[c] = "traverse"
    <3>1. PICK i \in Nat : i = Len(items[c])
      BY <1>1
    <3>2. TurnStepsLeft(c)' = rest + (m - i)
      BY <1>5, <2>3, <2>4, <2>5, <2>8, <3>1
    <3> QED BY <1>1, <2>5, <2>6, <3>2
  <2> QED BY <2>3, <2>7, <2>8
<1>8. CASE SearchFails(c)
  <2>1. pc'[c] = "failed" /\ pc[c] = "search"
    BY <1>2, <1>8 DEF SearchFails, Goto
  <2> QED BY <1>1, <1>4, <1>6, <2>1
<1>9. ASSUME NEW related, NEW how, pc[c] = "traverse", PushItem(c, related, how)
      PROVE  TurnStepsLeft(c)' \in Int /\ TurnStepsLeft(c)' < TurnStepsLeft(c)
  <2>1. PICK x : items' = [items EXCEPT ![c] = Append(@, x)]
    BY <1>9 DEF PushItem
  <2>2. pc'[c] \in {"done", "traverse"} /\ matches'[c] = matches[c]
    BY <1>2, <1>9 DEF PushItem, Goto
  <2>3. items'[c] = Append(items[c], x)
    BY <1>2, <2>1
  <2>4. Len(Append(items[c], x)) = Len(items[c]) + 1
    <3>1. IsASeq(items[c])
      <4>1. items[c] \in Seq(Item)
        BY <1>2
      <4> QED BY <4>1 DEF IsASeq
    <3> QED BY <3>1, AppendToAny
  <2>5. PICK m \in Nat, i \in Nat : m = Len(matches[c]) /\ i = Len(items[c]) /\ i < m
    BY <1>1, <1>9
  <2>6. TurnStepsLeft(c) = rest + (m - i)
    BY <1>6, <1>9, <2>5
  <2>7. CASE pc'[c] = "done"
    <3>1. TurnStepsLeft(c)' \in 0..rest
      BY <1>4, <2>7
    <3>2. rest \in Nat /\ i < m
      BY <1>1, <2>5
    <3>3. rest < rest + (m - i)
      BY <3>2
    <3> QED BY <2>6, <3>1, <3>2, <3>3
  <2>8. CASE pc'[c] = "traverse"
    <3>1. TurnStepsLeft(c)' = rest + (m - (i + 1))
      BY <1>5, <2>2, <2>3, <2>4, <2>5, <2>8
    <3>2. rest + (m - (i + 1)) \in Int /\ rest + (m - (i + 1)) < rest + (m - i)
      BY <1>1
    <3> QED BY <2>6, <3>1, <3>2
  <2> QED BY <2>2, <2>7, <2>8
<1> QED BY <1>7, <1>8, <1>9 DEF Retrieve, Step, TraverseMatch, TraversalFails, NoTraversal

LEMMA OwnStepAdvancesTurn ==
  ASSUME TypeOK, TypeOK', TurnInv, NEW c \in Tasks, Advance(c)
  PROVE  TurnStepsLeft(c)' \in Int /\ TurnStepsLeft(c)' < TurnStepsLeft(c)
<1>1. PICK n \in Nat, r \in Nat : n = Len(requests[c]) /\ r = Len(ran[c]) /\ r <= n
  BY TurnLengths
<1>2. DOMAIN stage = Tasks /\ DOMAIN ran = Tasks /\ ran[c] \in Seq(Call)
  BY DEF TurnInv, TurnShape
<1>3. CASE ToolAnswers(c) \/ ToolFails(c)
  <2>1. PICK outcome : ToolCall(c, outcome)
    BY <1>3 DEF ToolAnswers, ToolFails
  <2>2. PICK x : ran'[c] = Append(ran[c], x)
    BY <1>2, <2>1 DEF ToolCall
  <2>3. Len(ran'[c]) = Len(ran[c]) + 1
    <3>1. IsASeq(ran[c])
      BY <1>2 DEF IsASeq
    <3> QED BY <2>2, <3>1, AppendToAny
  <2>4. stage[c] = "tools" /\ stage'[c] = "tools" /\ requests'[c] = requests[c]
    BY <2>1 DEF ToolCall
  <2>5. TurnStepsLeft(c) = (n + 3) - r /\ TurnStepsLeft(c)' = (n + 3) - (r + 1)
    BY <1>1, <2>3, <2>4 DEF TurnStepsLeft
  <2>6. (n + 3) - r \in Int /\ (n + 3) - (r + 1) \in Int /\ (n + 3) - (r + 1) < (n + 3) - r
    OBVIOUS
  <2> QED BY <2>5, <2>6
<1>4. CASE ToolsDone(c)
  <2>1. stage[c] = "tools" /\ stage'[c] = "build"
    BY <1>2, <1>4 DEF ToolsDone, Enter
  <2>2. TurnStepsLeft(c) = (n + 3) - r /\ TurnStepsLeft(c)' = 2
    BY <1>1, <2>1 DEF TurnStepsLeft
  <2>3. 2 < (n + 3) - r
    <3>1. r <= n
      BY <1>1
    <3> QED BY <3>1
  <2> QED BY <2>2, <2>3
<1>5. CASE Build(c)
  <2>1. stage[c] = "build" /\ stage'[c] = "completion"
    BY <1>2, <1>5 DEF Build, Enter
  <2>2. TurnStepsLeft(c) = 2 /\ TurnStepsLeft(c)' = 1
    BY <2>1 DEF TurnStepsLeft
  <2> QED BY <2>2
<1>6. CASE Answer(c) \/ CompletionFails(c)
  <2>1. stage[c] = "completion" /\ stage'[c] \in {"answered", "failed"}
    BY <1>2, <1>6 DEF Answer, CompletionFails, Enter
  <2>2. TurnStepsLeft(c) = 1 /\ TurnStepsLeft(c)' = 0
    BY <2>1 DEF TurnStepsLeft
  <2> QED BY <2>2
<1>7. CASE Retrieve(c)
  BY <1>7, RetrievalAdvances
<1> QED BY <1>3, <1>4, <1>5, <1>6, <1>7 DEF Advance

LEMMA EveryTurnAdvances ==
  ASSUME TypeOK, TypeOK', TurnInv, [TurnNext]_allVars
  PROVE  TurnAdvances
<1>1. ASSUME NEW c \in Tasks, Advance(c) PROVE TurnStepsLeft(c)' < TurnStepsLeft(c)
  BY <1>1, OwnStepAdvancesTurn
<1>2. ASSUME NEW c \in Tasks, NEW t \in Tenants, NEW wanted \in ToolRequests,
             run_turn(c, t, wanted)
      PROVE  TurnStepsLeft(c)' <= TopK + Len(wanted) + 4
  <2>1. /\ DOMAIN pc = Tasks /\ DOMAIN stage = Tasks /\ DOMAIN requests = Tasks
    BY DEF TypeOK, TurnInv, TurnShape
  <2>2. PICK n \in Nat : n = Len(wanted)
    BY ToolAssumption
  <2>3. /\ pc'[c] = (IF t \in Readers THEN "search" ELSE "unauthorized")
        /\ stage'[c] = AfterRetrieval(c) /\ requests'[c] = wanted
    BY <1>2, <2>1 DEF run_turn, retrieve, Goto, Enter
  <2>4. TopK \in Nat
    BY KnowledgeAssumption
  <2>5. CASE t \in Readers
    <3>1. pc'[c] = "search" /\ stage'[c] = "retrieval"
      BY <2>3, <2>5 DEF AfterRetrieval
    <3>2. TurnStepsLeft(c)' = (n + 3) + (TopK + 1)
      BY <2>2, <2>3, <3>1 DEF TurnStepsLeft
    <3> QED BY <2>2, <2>4, <3>2
  <2>6. CASE t \notin Readers
    <3>1. stage'[c] = "failed"
      BY <2>3, <2>6 DEF AfterRetrieval
    <3>2. TurnStepsLeft(c)' = 0
      BY <3>1 DEF TurnStepsLeft
    <3> QED BY <2>2, <2>4, <3>2
  <2> QED BY <2>5, <2>6
<1>3. ASSUME NEW c \in Tasks, stage[c] \in Underway
      PROVE  TurnStepsLeft(c)' <= TurnStepsLeft(c)
  <2>1. TurnStepsLeft(c) \in Nat
    BY TurnBounds
  <2>2. ASSUME UNCHANGED <<stage, requests, ran, pc, matches, items>>
        PROVE  TurnStepsLeft(c)' <= TurnStepsLeft(c)
    <3>1. TurnStepsLeft(c)' = TurnStepsLeft(c)
      BY <2>2 DEF TurnStepsLeft
    <3> QED BY <2>1, <3>1
  <2>3. CASE UNCHANGED allVars \/ TurnWrite
    BY <2>2, <2>3 DEF allVars, TurnWrite, turnVars, Write, upsert, delete_document, add_edge,
      callVars
  <2>4. ASSUME NEW d \in Tasks,
               \/ \E t \in Tenants, wanted \in ToolRequests : run_turn(d, t, wanted)
               \/ Advance(d) \/ TurnDrop(d)
        PROVE  TurnStepsLeft(c)' <= TurnStepsLeft(c)
    <3>1. CASE c # d
      <4>1. c \in Tasks \ {d}
        BY <3>1
      <4>2. TurnStepsLeft(c)' = TurnStepsLeft(c)
        BY <2>4, <4>1, OtherTurnsStand
      <4> QED BY <2>1, <4>2
    <3>2. ASSUME c = d, NEW t \in Tenants, NEW wanted \in ToolRequests, run_turn(d, t, wanted)
          PROVE  FALSE
      BY <1>3, <3>2 DEF run_turn, TurnEnded, Underway
    <3>3. CASE c = d /\ Advance(d)
      BY <2>1, <3>3, OwnStepAdvancesTurn
    <3>4. CASE c = d /\ TurnDrop(d)
      <4>1. stage'[c] = "idle"
        BY <3>4 DEF TurnDrop, Enter, TurnInv, TurnShape
      <4>2. TurnStepsLeft(c)' = 0
        BY <4>1 DEF TurnStepsLeft
      <4> QED BY <2>1, <4>2
    <3> QED BY <2>4, <3>1, <3>2, <3>3, <3>4
  <2> QED BY <2>3, <2>4 DEF TurnNext
<1> QED BY <1>1, <1>2, <1>3 DEF TurnAdvances

(***************************************************************************)
(* A turn of n requested tools makes at most top_k + n + 4 steps of its    *)
(* own from its retrieval to its end, whichever calls fail, whatever is    *)
(* stored and purged meanwhile and whatever the other turns do             *)
(* (genai_loop.rs:77-150): no failure makes it start over.  That the steps *)
(* are taken is the runtime's fairness, which TLC adds in TurnsEnd.        *)
(***************************************************************************)
THEOREM TurnsAreBounded == TurnSpec => []TurnBounded /\ [][TurnAdvances]_allVars
<1>1. TypeOK /\ TurnInv => TurnBounded
  BY TurnBounds DEF TurnBounded
<1>2. TypeOK /\ TypeOK' /\ TurnInv /\ [TurnNext]_allVars => [TurnAdvances]_allVars
  BY EveryTurnAdvances
<1> QED BY <1>1, <1>2, TurnAlways, PTL DEF TurnSpec
=============================================================================
