---------------------------- MODULE IngestProofs ----------------------------
(***************************************************************************)
(* Proofs about MemoryVectorStore, for every set of tenants, chunk ids and *)
(* embeddings: the one map shared by all tenants implements the map per    *)
(* tenant of TenantStore; and about Ingest, for every number of jobs,      *)
(* sources and ids: what the map holds of a document is always a run of    *)
(* its chunks, and those of a web page carry the text that it shows.       *)
(***************************************************************************)
EXTENDS Ingest, OperatorLemmas, FiniteSetTheorems

(* What an operation may find: finitely many records, each under the       *)
(* tenant that generated its chunk id unless ids collide.                  *)
MapInv ==
  /\ TypeOK
  /\ IsFiniteSet(DOMAIN records)
  /\ ~Collisions => \A c \in DOMAIN records : records[c].tenant_id = OwnerOf[c]

-----------------------------------------------------------------------------
(* The enumerations of a finite set: sequences of its elements, each once  *)
(* and none left out.                                                      *)
LEMMA Enumeration ==
  ASSUME NEW S, IsFiniteSet(S), NEW s \in SetToSeqs(S)
  PROVE  /\ s \in Seq(S) /\ Len(s) = Cardinality(S) /\ Cardinality(S) \in Nat
         /\ \A i, j \in 1..Len(s) : i # j => s[i] # s[j]
         /\ \A x \in S : \E i \in 1..Len(s) : s[i] = x
<1> DEFINE n == Cardinality(S)
<1>1. n \in Nat
  BY FS_CardinalityType
<1>2. s \in [1..n -> S] /\ \A i, j \in 1..n : i # j => s[i] # s[j]
  BY DEF SetToSeqs
<1>3. s \in Seq(S) /\ Len(s) = n
  BY <1>1, <1>2
<1>4. s \in Injection(1..n, S)
  BY <1>2 DEF Injection, IsInjective
<1>5. IsFiniteSet(1..n) /\ Cardinality(1..n) = n
  BY <1>1, FS_Interval
<1>6. s \in Surjection(1..n, S)
  BY <1>4, <1>5, FS_Injection
<1>7. \A x \in S : \E i \in 1..n : s[i] = x
  BY <1>6 DEF Surjection
<1> QED
  BY <1>1, <1>2, <1>3, <1>7

(* s enumerates the tenant's records, best first, and hits are its first k. *)
BeginningOf(s, t, q, k, hits) ==
  /\ hits \in Seq(Scanned(t))
  /\ Len(hits) = IF k < Len(s) THEN k ELSE Len(s)
  /\ \A i \in 1..Len(hits) : hits[i] = s[i]
  /\ \A i, j \in 1..Len(s) : i # j => s[i] # s[j]
  /\ \A c \in Scanned(t) : \E i \in 1..Len(s) : s[i] = c
  /\ \A i, j \in 1..Len(s) : i < j => ScoreOf(q, s[i]) >= ScoreOf(q, s[j])
  /\ Len(s) = Cardinality(Scanned(t))

(* What a search that does not panic may answer: a beginning of an         *)
(* enumeration of the caller's records by descending score.                *)
LEMMA HitsOf ==
  ASSUME MapInv, NEW t \in Tenants, NEW q \in Queries, NEW k \in Nat,
         NEW hits \in Results(q, k, Scanned(t))
  PROVE  \E s \in Seq(Scanned(t)) : BeginningOf(s, t, q, k, hits)
<1> DEFINE S == Scanned(t)
<1>1. IsFiniteSet(S)
  <2>1. S \in SUBSET DOMAIN records
    BY DEF Scanned
  <2> QED
    BY <2>1, FS_Subset DEF MapInv
<1>2. PICK s \in Sorted(q, S) : hits = SubSeq(s, 1, IF k < Len(s) THEN k ELSE Len(s))
  BY DEF Results
<1>3. s \in SetToSeqs(S)
  BY DEF Sorted
<1>4. /\ s \in Seq(S) /\ Len(s) = Cardinality(S) /\ Cardinality(S) \in Nat
      /\ \A i, j \in 1..Len(s) : i # j => s[i] # s[j]
      /\ \A x \in S : \E i \in 1..Len(s) : s[i] = x
  BY <1>1, <1>3, Enumeration
<1>5. \A i, j \in 1..Len(s) : i < j => ScoreOf(q, s[i]) >= ScoreOf(q, s[j])
  <2>1. DOMAIN s = 1..Len(s)
    BY <1>4
  <2> QED
    BY <2>1 DEF Sorted
<1> DEFINE m == IF k < Len(s) THEN k ELSE Len(s)
<1>6. m \in 0..Len(s)
  BY <1>4
<1>7. /\ hits \in Seq(S) /\ Len(hits) = m
      /\ \A i \in 1..m : hits[i] = s[i]
  <2> HIDE DEF S
  <2>1. hits = SubSeq(s, 1, m)
    BY <1>2
  <2>2. hits = [i \in 1..m |-> s[i]]
    BY <1>4, <1>6, <2>1
  <2>3. \A i \in 1..m : s[i] \in S
    BY <1>4, <1>6
  <2> HIDE DEF m
  <2> QED
    BY <1>6, <2>2, <2>3, <1>4
<1> HIDE DEF S
<1>8. \E u \in Seq(S) :
           /\ hits \in Seq(S)
           /\ Len(hits) = IF k < Len(u) THEN k ELSE Len(u)
           /\ \A i \in 1..Len(hits) : hits[i] = u[i]
           /\ \A i, j \in 1..Len(u) : i # j => u[i] # u[j]
           /\ \A c \in S : \E i \in 1..Len(u) : u[i] = c
           /\ \A i, j \in 1..Len(u) : i < j => ScoreOf(q, u[i]) >= ScoreOf(q, u[j])
           /\ Len(u) = Cardinality(S)
  BY <1>4, <1>5, <1>7
<1> QED
  BY <1>8 DEF S, BeginningOf

(* What the abstract store would see of a record of the tenant.            *)
LEMMA ViewOf ==
  ASSUME NEW t \in Tenants
  PROVE  /\ DOMAIN View[t] = Scanned(t)
         /\ \A c \in Scanned(t) : /\ View[t][c].embedding = records[c].embedding
                                  /\ View[t][c].document_id = records[c].document_id
BY DEF View

(* A search that does not panic answers a ranking of the tenant's own map: *)
(* best first, at most k, and no better record of the tenant left out.     *)
LEMMA SearchRanks ==
  ASSUME MapInv, NEW t \in Tenants, NEW q \in Queries, NEW k \in Nat,
         ~SortPanics(q, Scanned(t)), NEW hits \in Results(q, k, Scanned(t))
  PROVE  Abstract!IsRanking(t, q, k, hits)
<1>0. \E s \in Seq(Scanned(t)) : BeginningOf(s, t, q, k, hits)
  BY HitsOf
<1> DEFINE S == Scanned(t)
           found == {hits[i] : i \in DOMAIN hits}
           score(c) == Score(q, View[t][c].embedding)
<1>1. PICK s \in Seq(S) :
           /\ hits \in Seq(S)
           /\ Len(hits) = IF k < Len(s) THEN k ELSE Len(s)
           /\ \A i \in 1..Len(hits) : hits[i] = s[i]
           /\ \A i, j \in 1..Len(s) : i # j => s[i] # s[j]
           /\ \A c \in S : \E i \in 1..Len(s) : s[i] = c
           /\ \A i, j \in 1..Len(s) : i < j => ScoreOf(q, s[i]) >= ScoreOf(q, s[j])
           /\ Len(s) = Cardinality(S)
  BY <1>0 DEF BeginningOf
<1>2. \A c \in S : score(c) = ScoreOf(q, c)
  BY ViewOf DEF ScoreOf
<1>3. Cardinality(S) > 1 => \A c \in S : ScoreOf(q, c) \in Int
  <2>1. \A c \in S : records[c].embedding \in Embeddings
    BY DEF MapInv, TypeOK, StoredVector, Scanned
  <2> QED
    BY <2>1, ScoreAssumption DEF SortPanics, ScoreOf
<1>4. DOMAIN View[t] = S
  BY ViewOf
<1> HIDE DEF S
<1>5. /\ DOMAIN hits = 1..Len(hits) /\ Len(hits) \in 0..Len(s) /\ Len(hits) <= k
      /\ Len(s) \in Nat
      /\ \A i \in 1..Len(hits) : i \in 1..Len(s) /\ hits[i] \in S
  BY <1>1
<1>6. found \subseteq S
  BY <1>5
<1>7. \A i, j \in DOMAIN hits : i < j => hits[i] # hits[j] /\ score(hits[i]) >= score(hits[j])
  <2> SUFFICES ASSUME NEW i \in 1..Len(hits), NEW j \in 1..Len(hits), i < j
               PROVE  hits[i] # hits[j] /\ score(hits[i]) >= score(hits[j])
    BY <1>5
  <2>1. i \in 1..Len(s) /\ j \in 1..Len(s) /\ hits[i] = s[i] /\ hits[j] = s[j] /\ i # j
    BY <1>1, <1>5
  <2>2. score(hits[i]) = ScoreOf(q, s[i]) /\ score(hits[j]) = ScoreOf(q, s[j])
    BY <2>1, <1>2, <1>5
  <2> HIDE DEF score
  <2> QED
    BY <2>1, <2>2, <1>1
<1>8. Len(hits) < k => found = S
  <2> SUFFICES ASSUME Len(hits) < k, NEW c \in S PROVE c \in found
    BY <1>6
  <2>1. Len(hits) = Len(s)
    BY <1>1, <1>5
  <2>2. PICK i \in 1..Len(s) : s[i] = c
    BY <1>1
  <2> QED
    BY <2>1, <2>2, <1>1, <1>5
<1>9. \A c \in S \ found, h \in found : score(c) <= score(h)
  <2> SUFFICES ASSUME NEW c \in S \ found, NEW h \in found PROVE score(c) <= score(h)
    OBVIOUS
  <2>1. PICK i \in 1..Len(hits) : h = hits[i]
    BY <1>5
  <2>2. PICK j \in 1..Len(s) : s[j] = c
    BY <1>1
  <2>3. i < j
    <3>1. CASE j \in 1..Len(hits)
      BY <3>1, <2>2, <1>1, <1>5
    <3>2. CASE j \notin 1..Len(hits)
      BY <3>2, <2>1, <2>2, <1>5
    <3> QED
      BY <3>1, <3>2
  <2>4. h = s[i] /\ i \in 1..Len(s) /\ h \in S /\ c \in S
    BY <2>1, <1>1, <1>5
  <2>5. ScoreOf(q, h) >= ScoreOf(q, c)
    BY <2>2, <2>3, <2>4, <1>1
  <2>6. ScoreOf(q, h) \in Int /\ ScoreOf(q, c) \in Int
    <3>1. Cardinality(S) > 1
      BY <2>3, <2>2, <2>1, <1>1, <1>5
    <3> QED
      BY <3>1, <2>4, <1>3
  <2>7. score(c) = ScoreOf(q, c) /\ score(h) = ScoreOf(q, h)
    BY <2>4, <1>2
  <2> HIDE DEF score
  <2> QED
    BY <2>5, <2>6, <2>7
<1> HIDE DEF found, score
<1>10. /\ found \subseteq DOMAIN View[t]
       /\ \A i, j \in DOMAIN hits : i < j => hits[i] # hits[j] /\ score(hits[i]) >= score(hits[j])
       /\ Len(hits) <= k
       /\ Len(hits) < k => found = DOMAIN View[t]
       /\ \A c \in DOMAIN View[t] \ found, h \in found : score(c) <= score(h)
  BY <1>4, <1>5, <1>6, <1>7, <1>8, <1>9
<1> QED
  BY <1>10 DEF Abstract!IsRanking, found, score

-----------------------------------------------------------------------------
(* The hits of a search are the caller's chunks, at most top_k of them.    *)
LEMMA HitsTyped ==
  ASSUME MapInv, NEW t \in Tenants, NEW q \in Queries, NEW k \in Nat,
         NEW hits \in Results(q, k, Scanned(t))
  PROVE  hits \in Seq(ChunkIds) /\ Len(hits) <= k
<1>1. PICK s \in Seq(Scanned(t)) : BeginningOf(s, t, q, k, hits)
  BY HitsOf
<1>2. Scanned(t) \subseteq ChunkIds
  BY DEF Scanned, MapInv, TypeOK
<1>3. Len(s) \in Nat
  OBVIOUS
<1> QED
  BY <1>1, <1>2, <1>3 DEF BeginningOf

(* MapInv is inductive.                                                    *)
LEMMA MapInvInit == Init => MapInv
<1> SUFFICES ASSUME Init PROVE MapInv
  OBVIOUS
<1>1. DOMAIN records = {}
  BY DEF Init
<1>2. IsFiniteSet(DOMAIN records)
  BY <1>1, FS_EmptySet
<1> QED
  BY <1>1, <1>2 DEF Init, MapInv, TypeOK

LEMMA MapInvStep == MapInv /\ [Next]_vars => MapInv'
<1> SUFFICES ASSUME MapInv, [Next]_vars PROVE MapInv'
  OBVIOUS
<1> USE DEF MapInv
<1>1. ASSUME NEW t \in Tenants, NEW c \in ChunkIds, NEW d \in DocumentIds,
             NEW e \in Embeddings, upsert(t, c, d, e)
      PROVE  MapInv'
  <2> DEFINE r == [tenant_id |-> t, document_id |-> d, embedding |-> e]
  <2>1. /\ DOMAIN records' = DOMAIN records \cup {c}
        /\ \A i \in DOMAIN records' : records'[i] = IF i = c THEN r ELSE records[i]
    BY <1>1 DEF upsert
  <2>2. r \in StoredVector
    BY DEF StoredVector
  <2>3. IsFiniteSet(DOMAIN records')
    BY <2>1, FS_AddElement
  <2>4. TypeOK'
    BY <1>1, <2>1, <2>2 DEF upsert, TypeOK
  <2>5. ~Collisions => \A i \in DOMAIN records' : records'[i].tenant_id = OwnerOf[i]
    BY <1>1, <2>1 DEF upsert
  <2> QED
    BY <2>3, <2>4, <2>5
<1>2. ASSUME NEW t \in Tenants, NEW q \in Queries, NEW k \in 0..MaxTopK, search(t, q, k)
      PROVE  MapInv'
  <2>1. PICK hits \in Results(q, k, Scanned(t)) :
          answer' = [kind |-> "found", tenant |-> t, query |-> q, top_k |-> k, hits |-> hits]
    BY <1>2 DEF search
  <2>2. hits \in Seq(ChunkIds) /\ Len(hits) <= k
    BY HitsTyped
  <2>3. TypeOK'
    BY <1>2, <2>1, <2>2 DEF search, TypeOK
  <2> QED
    BY <1>2, <2>3 DEF search
<1>3. ASSUME NEW t \in Tenants, NEW q \in Queries, search_panics(t, q)
      PROVE  MapInv'
  BY <1>3 DEF search_panics, Panics, TypeOK
<1>4. ASSUME NEW t \in Tenants, NEW d \in DocumentIds, delete_document(t, d)
      PROVE  MapInv'
  <2>1. /\ DOMAIN records' \subseteq DOMAIN records
        /\ \A i \in DOMAIN records' : records'[i] = records[i]
    BY <1>4 DEF delete_document
  <2>2. IsFiniteSet(DOMAIN records')
    BY <2>1, FS_Subset
  <2>3. TypeOK'
    BY <1>4, <2>1 DEF delete_document, TypeOK
  <2> QED
    BY <2>1, <2>2, <2>3
<1>5. ASSUME NEW t \in Tenants, lock_panics(t)
      PROVE  MapInv'
  BY <1>5 DEF lock_panics, Panics, TypeOK
<1>6. CASE UNCHANGED vars
  BY <1>6 DEF vars, TypeOK
<1> QED
  BY <1>1, <1>2, <1>3, <1>4, <1>5, <1>6 DEF Next

LEMMA MapInvAlways == Spec => []MapInv
BY MapInvInit, MapInvStep, PTL DEF Spec

(* The map is well typed at every moment, and a search answers at most     *)
(* top_k hits (memory.rs:61-83).                                           *)
THEOREM TypeCorrect == Spec => []TypeOK
<1>1. MapInv => TypeOK
  BY DEF MapInv
<1> QED
  BY <1>1, MapInvAlways, PTL

-----------------------------------------------------------------------------
(* The refinement: one lemma per operation of the abstract store.          *)

LEMMA InitRefines == Init => Abstract!Init
<1> SUFFICES ASSUME Init PROVE View = [t \in Tenants |-> <<>>] /\ answer = [kind |-> "none"]
  BY DEF Abstract!Init
<1>1. \A t \in Tenants : Scanned(t) = {}
  BY DEF Init, Scanned
<1>2. \A t \in Tenants :
        [c \in {} |-> [document_id |-> records[c].document_id,
                       embedding |-> records[c].embedding]] = <<>>
  OBVIOUS
<1> QED
  BY <1>1, <1>2 DEF View, Init

(* Two views are the same when each tenant has the same chunks with the    *)
(* same contents.                                                          *)
LEMMA UpsertRefines ==
  ASSUME MapInv, ~Collisions, NEW t \in Tenants, NEW c \in ChunkIds, NEW d \in DocumentIds,
         NEW e \in Embeddings, upsert(t, c, d, e)
  PROVE  Abstract!upsert(t)
<1> DEFINE r == [document_id |-> d, embedding |-> e]
           new == [i \in DOMAIN View[t] \cup {c} |-> IF i = c THEN r ELSE View[t][i]]
           seen(i) == [document_id |-> records[i].document_id, embedding |-> records[i].embedding]
<1>1. /\ DOMAIN records' = DOMAIN records \cup {c}
      /\ \A i \in DOMAIN records' :
           records'[i] = IF i = c THEN [tenant_id |-> t, document_id |-> d, embedding |-> e]
                         ELSE records[i]
  BY DEF upsert
<1>2. c \in DOMAIN records => records[c].tenant_id = t
  BY DEF upsert, MapInv
<1>3. Scanned(t)' = Scanned(t) \cup {c}
  BY <1>1 DEF Scanned
<1>4. \A u \in Tenants \ {t} : Scanned(u)' = Scanned(u)
  BY <1>1, <1>2 DEF Scanned
<1>5. r \in Abstract!Record
  BY DEF Abstract!Record
<1>6. \A u \in Tenants : DOMAIN View[u] = Scanned(u)
  BY DEF View
<1>7. View' = [View EXCEPT ![t] = new]
  <2>1. View = [u \in Tenants |-> [i \in Scanned(u) |-> seen(i)]]
    BY DEF View
  <2>2. View' = [u \in Tenants |-> [i \in Scanned(u)' |-> seen(i)']]
    BY DEF View
  <2>3. [i \in Scanned(t)' |-> seen(i)'] = new
    <3>1. \A i \in Scanned(t)' : seen(i)' = IF i = c THEN r ELSE View[t][i]
      <4> SUFFICES ASSUME NEW i \in Scanned(t)'
                   PROVE  seen(i)' = IF i = c THEN r ELSE View[t][i]
        OBVIOUS
      <4>1. CASE i = c
        BY <4>1, <1>1, <1>3
      <4>2. CASE i # c
        <5>1. i \in Scanned(t) /\ View[t][i] = seen(i)
          BY <4>2, <1>3, <2>1
        <5>2. i \in DOMAIN records' /\ records'[i] = records[i]
          BY <5>1, <4>2, <1>1 DEF Scanned
        <5> QED
          BY <5>1, <5>2, <4>2
      <4> QED
        BY <4>1, <4>2
    <3> HIDE DEF seen, r
    <3> QED
      BY <3>1, <1>3, <1>6
  <2>4. \A u \in Tenants \ {t} : [i \in Scanned(u)' |-> seen(i)'] = [i \in Scanned(u) |-> seen(i)]
    <3>1. \A u \in Tenants \ {t} : \A i \in Scanned(u) : seen(i)' = seen(i)
      <4> SUFFICES ASSUME NEW u \in Tenants \ {t}, NEW i \in Scanned(u)
                   PROVE  seen(i)' = seen(i)
        OBVIOUS
      <4>1. i \in DOMAIN records /\ i # c
        BY <1>2 DEF Scanned
      <4>2. records'[i] = records[i]
        BY <4>1, <1>1
      <4> QED
        BY <4>2
    <3> HIDE DEF seen
    <3> QED
      BY <3>1, <1>4
  <2> HIDE DEF seen, new
  <2> QED
    BY <2>1, <2>2, <2>3, <2>4
<1>8. answer' = [kind |-> "stored", tenant |-> t]
  BY DEF upsert
<1> HIDE DEF r
<1> QED
  BY <1>5, <1>7, <1>8 DEF Abstract!upsert

LEMMA DeleteRefines ==
  ASSUME NEW t \in Tenants, NEW d \in DocumentIds, delete_document(t, d)
  PROVE  Abstract!delete_document(t)
<1> DEFINE seen(i) == [document_id |-> records[i].document_id, embedding |-> records[i].embedding]
           left == {i \in DOMAIN View[t] : View[t][i].document_id # d}
<1>1. /\ DOMAIN records' = {i \in DOMAIN records : ~Purged(t, d, i)}
      /\ \A i \in DOMAIN records' : records'[i] = records[i]
  BY DEF delete_document
<1>2. \A u \in Tenants : DOMAIN View[u] = Scanned(u)
  BY DEF View
<1>3. \A i \in Scanned(t) : View[t][i] = seen(i)
  BY DEF View
<1>4. Scanned(t)' = left
  <2>1. \A i \in Scanned(t) : View[t][i].document_id = records[i].document_id
    BY ViewOf
  <2> QED
    BY <2>1, <1>1, <1>2 DEF Scanned, Purged
<1>5. \A u \in Tenants \ {t} : Scanned(u)' = Scanned(u)
  BY <1>1 DEF Scanned, Purged
<1>6. \A i \in DOMAIN records' : seen(i)' = seen(i)
  BY <1>1
<1>7. View' = [View EXCEPT ![t] = [i \in left |-> View[t][i]]]
  <2>1. View = [u \in Tenants |-> [i \in Scanned(u) |-> seen(i)]]
    BY DEF View
  <2>2. View' = [u \in Tenants |-> [i \in Scanned(u)' |-> seen(i)']]
    BY DEF View
  <2>3. \A u \in Tenants : Scanned(u)' \subseteq DOMAIN records'
    BY DEF Scanned
  <2>4. [i \in Scanned(t)' |-> seen(i)'] = [i \in left |-> View[t][i]]
    <3>1. \A i \in left : seen(i)' = View[t][i]
      BY <2>3, <1>2, <1>3, <1>4, <1>6
    <3> HIDE DEF seen, left
    <3> QED
      BY <3>1, <1>4
  <2>5. \A u \in Tenants \ {t} : [i \in Scanned(u)' |-> seen(i)'] = [i \in Scanned(u) |-> seen(i)]
    <3>1. \A u \in Tenants \ {t} : \A i \in Scanned(u) : seen(i)' = seen(i)
      BY <2>3, <1>5, <1>6
    <3> HIDE DEF seen
    <3> QED
      BY <3>1, <1>5
  <2> HIDE DEF seen, left
  <2> QED
    BY <2>1, <2>2, <2>4, <2>5
<1>8. answer' = [kind |-> "deleted", tenant |-> t]
  BY DEF delete_document
<1> QED
  BY <1>7, <1>8 DEF Abstract!delete_document

(* A step that leaves the map alone leaves every view alone.               *)
LEMMA SameView ==
  ASSUME UNCHANGED records
  PROVE  UNCHANGED View
BY DEF View, Scanned

LEMMA StepRefines ==
  ASSUME MapInv, ~Collisions, [Next]_vars
  PROVE  [Abstract!Next]_(Abstract!vars)
<1>1. ASSUME NEW t \in Tenants, NEW c \in ChunkIds, NEW d \in DocumentIds,
             NEW e \in Embeddings, upsert(t, c, d, e)
      PROVE  Abstract!Next
  BY <1>1, UpsertRefines DEF Abstract!Next
<1>2. ASSUME NEW t \in Tenants, NEW q \in Queries, NEW k \in 0..MaxTopK, search(t, q, k)
      PROVE  Abstract!Next
  <2>1. PICK hits \in Results(q, k, Scanned(t)) :
          answer' = [kind |-> "found", tenant |-> t, query |-> q, top_k |-> k, hits |-> hits]
    BY <1>2 DEF search
  <2>2. ~SortPanics(q, Scanned(t)) /\ k \in Nat
    BY <1>2 DEF search
  <2>3. Abstract!IsRanking(t, q, k, hits)
    BY <2>2, SearchRanks
  <2>4. UNCHANGED View
    BY <1>2, SameView DEF search
  <2>5. Abstract!search(t)
    BY <2>1, <2>3, <2>4 DEF Abstract!search
  <2> QED
    BY <2>5 DEF Abstract!Next
<1>3. ASSUME NEW t \in Tenants, NEW q \in Queries, search_panics(t, q)
      PROVE  Abstract!Next
  BY <1>3, SameView DEF search_panics, Panics, Abstract!Next, Abstract!fail, Abstract!Failed
<1>4. ASSUME NEW t \in Tenants, NEW d \in DocumentIds, delete_document(t, d)
      PROVE  Abstract!Next
  BY <1>4, DeleteRefines DEF Abstract!Next
<1>5. ASSUME NEW t \in Tenants, lock_panics(t)
      PROVE  Abstract!Next
  BY <1>5, SameView DEF lock_panics, Panics, Abstract!Next, Abstract!fail, Abstract!Failed
<1>6. CASE UNCHANGED vars
  BY <1>6, SameView DEF vars, Abstract!vars
<1> QED
  BY <1>1, <1>2, <1>3, <1>4, <1>5, <1>6 DEF Next

(* One map for all tenants, keyed by the chunk id alone, behaves as a map  *)
(* of its own for every tenant, as long as no tenant upserts a chunk id    *)
(* that another generated (memory.rs:26-94, traits.rs:33-58).              *)
THEOREM SharedMapIsPerTenant ==
  ASSUME ~Collisions
  PROVE  Spec => RefinesTenantStore
<1>1. Init => Abstract!Init
  BY InitRefines
<1>2. MapInv /\ [Next]_vars => [Abstract!Next]_(Abstract!vars)
  BY StepRefines
<1> QED
  BY <1>1, <1>2, MapInvAlways, PTL DEF Spec, RefinesTenantStore, Abstract!Spec

-----------------------------------------------------------------------------
(***************************************************************************)
(* Ingestion.  That the map holds a run of a document's chunks rests on    *)
(* what no document says of itself: that chunk ids are given once, that a  *)
(* document is ingested by one job, whose position is the number of chunks *)
(* stored, and that an id not given yet is not in the map.                 *)
(***************************************************************************)
IdOf(d, k) == ChunksOf(d)[k].id
Held(d) == (log[d].purged + 1)..log[d].stored

(* Numbered chunks, each with an id the tenant has been given.             *)
ChunksGiven(t, chunks) ==
  /\ Len(chunks) \in Nat /\ DOMAIN chunks = 1..Len(chunks)
  /\ \A k \in DOMAIN chunks :
       /\ chunks[k].sequence = k - 1
       /\ embed(chunks[k].text) \in Embeddings
       /\ \E i \in 1..chunk_ids[t] : chunks[k].id = NewChunk[t][i]

LogEntry(d) ==
  /\ DOMAIN log[d] = {"tenant", "source", "chunks", "stored", "purged"}
  /\ log[d].tenant \in Tenants
  /\ \E i \in 1..documents[log[d].tenant] : d = NewDocument[log[d].tenant][i]
  /\ ChunksGiven(log[d].tenant, ChunksOf(d))
  /\ log[d].stored \in 0..Len(ChunksOf(d)) /\ log[d].purged \in 0..log[d].stored

LogInv == \A d \in DOMAIN log : LogEntry(d)

DistinctInv ==
  \A d, e \in DOMAIN log : \A k \in DOMAIN ChunksOf(d), l \in DOMAIN ChunksOf(e) :
    IdOf(d, k) = IdOf(e, l) => d = e /\ k = l

HeldInv ==
  \A d \in DOMAIN log : \A k \in DOMAIN ChunksOf(d) :
    /\ IdOf(d, k) \in DOMAIN records <=> k \in Held(d)
    /\ IdOf(d, k) \in DOMAIN records => /\ records[IdOf(d, k)].tenant_id = log[d].tenant
                                        /\ records[IdOf(d, k)].document_id = d

FreshInv ==
  /\ DOMAIN documents = Tenants /\ DOMAIN chunk_ids = Tenants
  /\ \A t \in Tenants :
       /\ documents[t] \in 0..Len(NewDocument[t]) /\ chunk_ids[t] \in 0..Len(NewChunk[t])
       /\ \A i \in 1..Len(NewChunk[t]) :
            i > chunk_ids[t] => NewChunk[t][i] \notin DOMAIN records

JobInv(j) ==
  /\ job[j].stage = "fetching" => job[j].tenant \in Tenants /\ job[j].source \in Sources
  /\ job[j].stage = "storing" =>
       /\ DOMAIN job[j] = {"stage", "tenant", "document", "chunks", "next"}
       /\ job[j].document \in DOMAIN log
       /\ job[j].tenant = log[job[j].document].tenant
       /\ job[j].chunks = ChunksOf(job[j].document)
       /\ job[j].next = log[job[j].document].stored + 1
       /\ \A l \in Jobs : job[l].stage = "storing" /\ job[l].document = job[j].document => l = j

JobsInv == DOMAIN job = Jobs /\ \A j \in Jobs : JobInv(j)

IngestInv == LogInv /\ DistinctInv /\ HeldInv /\ FreshInv /\ JobsInv

-----------------------------------------------------------------------------
(* The ids.                                                                *)
LEMMA IdsOfTenant ==
  ASSUME NEW t \in Tenants
  PROVE  /\ NewChunk[t] \in Seq(ChunkIds) /\ NewDocument[t] \in Seq(DocumentIds)
         /\ Len(NewChunk[t]) \in Nat /\ DOMAIN NewChunk[t] = 1..Len(NewChunk[t])
         /\ Len(NewDocument[t]) \in Nat /\ DOMAIN NewDocument[t] = 1..Len(NewDocument[t])
         /\ \A i \in 1..Len(NewChunk[t]) :
              /\ NewChunk[t][i] \in ChunkIds /\ NewChunk[t][i] \notin DirectIds
              /\ OwnerOf[NewChunk[t][i]] = t
         /\ \A i \in 1..Len(NewDocument[t]) : NewDocument[t][i] \in DocumentIds
<1>1. NewChunk[t] \in Seq(ChunkIds) /\ NewDocument[t] \in Seq(DocumentIds)
  BY IdAssumption
<1>2. /\ Len(NewChunk[t]) \in Nat /\ DOMAIN NewChunk[t] = 1..Len(NewChunk[t])
      /\ Len(NewDocument[t]) \in Nat /\ DOMAIN NewDocument[t] = 1..Len(NewDocument[t])
      /\ \A i \in 1..Len(NewChunk[t]) : NewChunk[t][i] \in ChunkIds
      /\ \A i \in 1..Len(NewDocument[t]) : NewDocument[t][i] \in DocumentIds
  BY <1>1
<1> QED BY <1>1, <1>2, IdAssumption

LEMMA IdsGivenOnce ==
  ASSUME NEW t \in Tenants, NEW u \in Tenants
  PROVE  /\ \A i \in 1..Len(NewChunk[t]), k \in 1..Len(NewChunk[u]) :
              NewChunk[t][i] = NewChunk[u][k] => t = u /\ i = k
         /\ \A i \in 1..Len(NewDocument[t]), k \in 1..Len(NewDocument[u]) :
              NewDocument[t][i] = NewDocument[u][k] => t = u /\ i = k
<1>1. /\ DOMAIN NewChunk[t] = 1..Len(NewChunk[t]) /\ DOMAIN NewChunk[u] = 1..Len(NewChunk[u])
      /\ DOMAIN NewDocument[t] = 1..Len(NewDocument[t])
      /\ DOMAIN NewDocument[u] = 1..Len(NewDocument[u])
  BY IdsOfTenant
<1>2. /\ \A i \in DOMAIN NewChunk[t], k \in DOMAIN NewChunk[u] :
            NewChunk[t][i] = NewChunk[u][k] => t = u /\ i = k
      /\ \A i \in DOMAIN NewDocument[t], k \in DOMAIN NewDocument[u] :
            NewDocument[t][i] = NewDocument[u][k] => t = u /\ i = k
  BY IdAssumption, Zenon
<1> QED BY <1>1, <1>2

(* The chunks of a document in the log: their ids have been given.         *)
LEMMA LoggedIds ==
  ASSUME LogInv, FreshInv, NEW d \in DOMAIN log, NEW k \in DOMAIN ChunksOf(d)
  PROVE  LET t == log[d].tenant
         IN  /\ \E i \in 1..Len(NewChunk[t]) : i <= chunk_ids[t] /\ IdOf(d, k) = NewChunk[t][i]
             /\ IdOf(d, k) \in ChunkIds /\ IdOf(d, k) \notin DirectIds
             /\ OwnerOf[IdOf(d, k)] = t
             /\ t \in Tenants /\ d \in DocumentIds
<1> DEFINE t == log[d].tenant
<1>1. /\ t \in Tenants /\ \E i \in 1..chunk_ids[t] : IdOf(d, k) = NewChunk[t][i]
      /\ \E i \in 1..documents[t] : d = NewDocument[t][i]
  BY DEF LogInv, LogEntry, ChunksGiven, IdOf
<1> HIDE DEF t
<1>2. /\ Len(NewChunk[t]) \in Nat /\ Len(NewDocument[t]) \in Nat
      /\ chunk_ids[t] \in 0..Len(NewChunk[t]) /\ documents[t] \in 0..Len(NewDocument[t])
  BY <1>1, IdsOfTenant DEF FreshInv
<1>3. \E i \in 1..Len(NewChunk[t]) : i <= chunk_ids[t] /\ IdOf(d, k) = NewChunk[t][i]
  BY <1>1, <1>2
<1>4. \E i \in 1..Len(NewDocument[t]) : d = NewDocument[t][i]
  BY <1>1, <1>2
<1> QED BY <1>1, <1>3, <1>4, IdsOfTenant DEF t

(* The texts.                                                              *)
LEMMA LengthOf ==
  ASSUME NEW n \in Nat, NEW f, f = [k \in 1..n |-> f[k]]
  PROVE  Len(f) = n /\ DOMAIN f = 1..n
<1>1. f \in [1..n -> {f[k] : k \in 1..n}]
  OBVIOUS
<1>2. f \in Seq({f[k] : k \in 1..n})
  BY <1>1
<1> QED BY <1>1, <1>2

LEMMA PiecesShape ==
  ASSUME NEW text, Len(text) \in Nat
  PROVE  Len(Pieces(text)) \in Nat /\ DOMAIN Pieces(text) = 1..Len(Pieces(text))
<1>1. CASE text = <<>>
  BY <1>1 DEF Pieces
<1>2. CASE text # <<>>
  <2> DEFINE stride == MaxCharacters - Overlap
             count == IF Len(text) <= MaxCharacters THEN 1
                      ELSE 1 + ((Len(text) - MaxCharacters + stride - 1) \div stride)
  <2>1. stride \in Nat /\ stride >= 1 /\ MaxCharacters \in Nat
    BY SplitterAssumption
  <2>2. ASSUME NEW a \in Nat, NEW b \in Nat, b >= 1 PROVE a \div b \in Nat
    BY <2>2
  <2>3. count \in Nat
    <3> HIDE DEF stride
    <3>1. CASE Len(text) <= MaxCharacters
      BY <3>1
    <3>2. CASE ~(Len(text) <= MaxCharacters)
      <4>1. Len(text) - MaxCharacters + stride - 1 \in Nat
        BY <2>1, <3>2
      <4>2. (Len(text) - MaxCharacters + stride - 1) \div stride \in Nat
        BY <2>1, <2>2, <4>1
      <4> QED BY <3>2, <4>2
    <3> QED BY <3>1, <3>2
  <2>4. Pieces(text) = [k \in 1..count |-> Pieces(text)[k]]
    BY <1>2 DEF Pieces, Windows
  <2> HIDE DEF count
  <2> QED BY <2>3, <2>4, LengthOf
<1> QED BY <1>1, <1>2

LEMMA ChunkShape ==
  ASSUME NEW t \in Tenants, NEW text, Len(text) \in Nat
  PROVE  /\ Len(chunk(t, text)) = Len(Pieces(text)) /\ Len(Pieces(text)) \in Nat
         /\ DOMAIN chunk(t, text) = 1..Len(Pieces(text))
         /\ \A k \in 1..Len(Pieces(text)) :
              /\ chunk(t, text)[k].id = NewChunk[t][chunk_ids[t] + k]
              /\ chunk(t, text)[k].text = Pieces(text)[k]
              /\ chunk(t, text)[k].sequence = k - 1
<1> DEFINE n == Len(Pieces(text))
<1>1. n \in Nat /\ DOMAIN Pieces(text) = 1..n
  BY PiecesShape
<1> HIDE DEF n
<1>2. /\ chunk(t, text) = [k \in 1..n |-> chunk(t, text)[k]]
      /\ \A k \in 1..n : chunk(t, text)[k] = [id |-> NewChunk[t][chunk_ids[t] + k],
                                               text |-> Pieces(text)[k], sequence |-> k - 1]
  BY <1>1 DEF chunk
<1>3. Len(chunk(t, text)) = n /\ DOMAIN chunk(t, text) = 1..n
  BY <1>1, <1>2, LengthOf
<1> QED BY <1>1, <1>2, <1>3 DEF n

-----------------------------------------------------------------------------
(* IngestInv is inductive: one lemma per way a step can change the log,    *)
(* the map and the jobs.                                                   *)
LEMMA IngestInvInit == IngestInit => IngestInv
<1> SUFFICES ASSUME IngestInit PROVE IngestInv
  OBVIOUS
<1>1. DOMAIN log = {}
  BY DEF IngestInit, NoDocument
<1>2. LogInv /\ DistinctInv /\ HeldInv
  BY <1>1 DEF LogInv, DistinctInv, HeldInv
<1>3. DOMAIN records = {}
  BY DEF IngestInit, Init
<1>4. FreshInv
  <2>1. DOMAIN documents = Tenants /\ DOMAIN chunk_ids = Tenants
    BY DEF IngestInit
  <2>2. ASSUME NEW t \in Tenants
        PROVE  documents[t] \in 0..Len(NewDocument[t]) /\ chunk_ids[t] \in 0..Len(NewChunk[t])
    BY <2>2, IdsOfTenant DEF IngestInit
  <2> QED BY <1>3, <2>1, <2>2 DEF FreshInv
<1>5. JobsInv
  BY DEF IngestInit, JobsInv, JobInv, Idle
<1> QED BY <1>2, <1>4, <1>5 DEF IngestInv

(* No id given to an ingested chunk is stored or removed by the step.      *)
IdsUntouched ==
  \A t \in Tenants : \A i \in 1..Len(NewChunk[t]) :
    LET c == NewChunk[t][i]
    IN  /\ c \in DOMAIN records' <=> c \in DOMAIN records
        /\ c \in DOMAIN records => records'[c] = records[c]

LEMMA SameLog ==
  ASSUME IngestInv, IdsUntouched, UNCHANGED <<documents, chunk_ids, log>>
  PROVE  LogInv' /\ DistinctInv' /\ HeldInv' /\ FreshInv'
<1>1. LogInv' /\ DistinctInv'
  BY DEF IngestInv, LogInv, LogEntry, ChunksGiven, DistinctInv, IdOf, ChunksOf
<1>2. HeldInv'
  <2> SUFFICES ASSUME NEW d \in DOMAIN log, NEW k \in DOMAIN ChunksOf(d)
               PROVE  /\ IdOf(d, k) \in DOMAIN records' <=> k \in Held(d)
                      /\ IdOf(d, k) \in DOMAIN records' =>
                           /\ records'[IdOf(d, k)].tenant_id = log[d].tenant
                           /\ records'[IdOf(d, k)].document_id = d
    BY DEF HeldInv, IdOf, Held, ChunksOf
  <2>1. \E t \in Tenants : \E i \in 1..Len(NewChunk[t]) : IdOf(d, k) = NewChunk[t][i]
    BY LoggedIds DEF IngestInv
  <2>2. /\ IdOf(d, k) \in DOMAIN records' <=> IdOf(d, k) \in DOMAIN records
        /\ IdOf(d, k) \in DOMAIN records => records'[IdOf(d, k)] = records[IdOf(d, k)]
    BY <2>1 DEF IdsUntouched
  <2> QED BY <2>2 DEF IngestInv, HeldInv
<1>3. FreshInv'
  BY DEF IngestInv, FreshInv, IdsUntouched
<1> QED BY <1>1, <1>2, <1>3

LEMMA SameIds == ASSUME UNCHANGED records PROVE IdsUntouched
BY DEF IdsUntouched

(* A job that stores nothing: it starts, fails, panics or finishes.        *)
LEMMA JobTurns ==
  ASSUME IngestInv, NEW j \in Jobs, NEW v, job' = [job EXCEPT ![j] = v], v.stage # "storing",
         v.stage = "fetching" => v.tenant \in Tenants /\ v.source \in Sources,
         UNCHANGED <<records, documents, chunk_ids, log>>
  PROVE  IngestInv'
<1>1. JobsInv'
  <2>1. DOMAIN job' = Jobs /\ job'[j] = v /\ \A l \in Jobs \ {j} : job'[l] = job[l]
    BY DEF IngestInv, JobsInv
  <2>2. JobInv(j)'
    BY <2>1 DEF JobInv
  <2>3. ASSUME NEW l \in Jobs \ {j} PROVE JobInv(l)'
    <3>1. JobInv(l)
      BY DEF IngestInv, JobsInv
    <3>2. job'[l] = job[l] /\ \A i \in Jobs : job'[i].stage = "storing" => job'[i] = job[i]
      BY <2>1
    <3> QED BY <3>1, <3>2 DEF JobInv, ChunksOf
  <2> QED BY <2>1, <2>2, <2>3 DEF JobsInv
<1> QED BY <1>1, SameLog, SameIds DEF IngestInv

LEMMA JobEnds ==
  ASSUME IngestInv, NEW j \in Jobs, job' = [job EXCEPT ![j] = Idle],
         UNCHANGED <<records, documents, chunk_ids, log>>
  PROVE  IngestInv'
<1>1. PICK v : v = Idle
  OBVIOUS
<1>2. v.stage # "storing" /\ v.stage # "fetching"
  BY <1>1 DEF Idle
<1>3. job' = [job EXCEPT ![j] = v]
  BY <1>1
<1> QED BY <1>2, <1>3, JobTurns

(* A caller of the store who has none of the new ids.                      *)
LEMMA DirectTurns == ASSUME IngestInv, NEW t \in Tenants, Direct(t) PROVE IngestInv'
<1>1. UNCHANGED <<job, documents, chunk_ids, log>>
  BY DEF Direct, ingestVars
<1>2. IdsUntouched
  <2>1. ASSUME NEW c \in DirectIds, NEW d \in DocumentIds, NEW e \in DirectVectors,
               upsert(t, c, d, e)
        PROVE  IdsUntouched
    <3>1. /\ DOMAIN records' = DOMAIN records \cup {c}
          /\ \A i \in DOMAIN records : i # c => records'[i] = records[i]
      BY <2>1 DEF upsert
    <3>2. ASSUME NEW u \in Tenants, NEW i \in 1..Len(NewChunk[u]) PROVE NewChunk[u][i] # c
      BY <3>2, IdsOfTenant
    <3> QED BY <3>1, <3>2 DEF IdsUntouched
  <2>2. ASSUME UNCHANGED records PROVE IdsUntouched
    BY <2>2, SameIds
  <2> QED BY <2>1, <2>2 DEF Direct, search, search_panics, lock_panics
<1>3. JobsInv'
  <2>1. ASSUME NEW j \in Jobs PROVE JobInv(j)'
    <3>1. JobInv(j)
      BY DEF IngestInv, JobsInv
    <3> QED BY <1>1, <3>1 DEF JobInv, ChunksOf
  <2> QED BY <1>1, <2>1 DEF IngestInv, JobsInv
<1> QED BY <1>1, <1>2, <1>3, SameLog DEF IngestInv

-----------------------------------------------------------------------------
(* One chunk is stored.  The record of the step: the document, which of    *)
(* its chunks, and how log and map change.                                 *)
StoresChunk(j, d, n) ==
  /\ d \in DOMAIN log /\ n \in DOMAIN ChunksOf(d) /\ n = log[d].stored + 1
  /\ DOMAIN records' = DOMAIN records \cup {IdOf(d, n)}
  /\ \A c \in DOMAIN records : c # IdOf(d, n) => records'[c] = records[c]
  /\ records'[IdOf(d, n)].tenant_id = log[d].tenant /\ records'[IdOf(d, n)].document_id = d
  /\ DOMAIN log' = DOMAIN log
  /\ \A e \in DOMAIN log :
       /\ DOMAIN log'[e] = DOMAIN log[e]
       /\ log'[e].tenant = log[e].tenant /\ log'[e].chunks = log[e].chunks
       /\ log'[e].purged = log[e].purged
       /\ log'[e].stored = IF e = d THEN n ELSE log[e].stored
  /\ UNCHANGED <<documents, chunk_ids>>

LEMMA StoreStores ==
  ASSUME IngestInv, NEW j \in Jobs, Store(j)
  PROVE  StoresChunk(j, job[j].document, job[j].next)
<1> DEFINE d == job[j].document
           n == job[j].next
<1>1. /\ job[j].stage = "storing" /\ n <= Len(job[j].chunks)
      /\ upsert(job[j].tenant, job[j].chunks[n].id, d, embed(job[j].chunks[n].text))
      /\ log' = [log EXCEPT ![d].stored = @ + 1]
      /\ UNCHANGED <<documents, chunk_ids>>
  BY DEF Store
<1>2. JobInv(j)
  BY DEF IngestInv, JobsInv
<1>3. /\ d \in DOMAIN log /\ job[j].tenant = log[d].tenant /\ job[j].chunks = ChunksOf(d)
      /\ n = log[d].stored + 1
  BY <1>1, <1>2 DEF JobInv
<1>4. LogEntry(d)
  BY <1>3 DEF IngestInv, LogInv
<1> HIDE DEF d, n
<1>5. n \in DOMAIN ChunksOf(d)
  BY <1>1, <1>3, <1>4 DEF LogEntry, ChunksGiven
<1>6. /\ DOMAIN records' = DOMAIN records \cup {IdOf(d, n)}
      /\ \A c \in DOMAIN records : c # IdOf(d, n) => records'[c] = records[c]
      /\ records'[IdOf(d, n)].tenant_id = log[d].tenant /\ records'[IdOf(d, n)].document_id = d
  BY <1>1, <1>3 DEF upsert, IdOf
<1>7. DOMAIN log' = DOMAIN log
  BY <1>1
<1>8. ASSUME NEW e \in DOMAIN log
      PROVE  /\ DOMAIN log'[e] = DOMAIN log[e]
             /\ log'[e].tenant = log[e].tenant /\ log'[e].chunks = log[e].chunks
             /\ log'[e].purged = log[e].purged
             /\ log'[e].stored = IF e = d THEN n ELSE log[e].stored
  <2>1. CASE e = d
    <3>1. log'[d] = [log[d] EXCEPT !.stored = @ + 1]
      BY <1>1, <1>3
    <3> QED BY <2>1, <3>1, <1>3, <1>4 DEF LogEntry, ChunksGiven
  <2>2. CASE e # d
    BY <2>2, <1>1
  <2> QED BY <2>1, <2>2
<1> QED BY <1>1, <1>3, <1>5, <1>6, <1>7, <1>8 DEF StoresChunk, d, n

LEMMA StoreKeepsLog ==
  ASSUME IngestInv, NEW j, NEW d, NEW n, StoresChunk(j, d, n)
  PROVE  LogInv' /\ DistinctInv' /\ HeldInv' /\ FreshInv'
<1> USE DEF StoresChunk
<1>1. LogInv'
  <2> SUFFICES ASSUME NEW e \in DOMAIN log PROVE LogEntry(e)'
    BY DEF LogInv
  <2>1. LogEntry(e) /\ LogEntry(d)
    BY DEF IngestInv, LogInv
  <2>2. /\ ChunksOf(e)' = ChunksOf(e) /\ \A k : IdOf(e, k)' = IdOf(e, k)
        /\ log'[e].tenant = log[e].tenant /\ DOMAIN log'[e] = DOMAIN log[e]
        /\ documents' = documents /\ chunk_ids' = chunk_ids
    BY DEF ChunksOf, IdOf
  <2>3. log'[e].stored \in 0..Len(ChunksOf(e)) /\ log'[e].purged \in 0..log'[e].stored
    <3>1. CASE e = d
      BY <3>1, <2>1 DEF LogEntry, ChunksGiven
    <3>2. CASE e # d
      BY <3>2, <2>1 DEF LogEntry, ChunksGiven
    <3> QED BY <3>1, <3>2
  <2>4. ChunksGiven(log[e].tenant, ChunksOf(e))'
    BY <2>1, <2>2 DEF LogEntry, ChunksGiven
  <2> HIDE DEF StoresChunk
  <2>5. \E i \in 1..documents[log[e].tenant] : e = NewDocument[log[e].tenant][i]
    BY <2>1 DEF LogEntry
  <2> QED BY <2>1, <2>2, <2>3, <2>4, <2>5 DEF LogEntry
<1>0. /\ DOMAIN log' = DOMAIN log
      /\ \A e \in DOMAIN log : /\ log'[e].tenant = log[e].tenant /\ ChunksOf(e)' = ChunksOf(e)
                               /\ \A k : IdOf(e, k)' = IdOf(e, k)
  BY DEF ChunksOf, IdOf
<1>2. DistinctInv'
  BY <1>0 DEF IngestInv, DistinctInv
<1>3. HeldInv'
  <2> SUFFICES ASSUME NEW e \in DOMAIN log, NEW k \in DOMAIN ChunksOf(e)
               PROVE  /\ IdOf(e, k) \in DOMAIN records' <=> k \in Held(e)'
                      /\ IdOf(e, k) \in DOMAIN records' =>
                           /\ records'[IdOf(e, k)].tenant_id = log[e].tenant
                           /\ records'[IdOf(e, k)].document_id = e
    BY <1>0 DEF HeldInv
  <2>1. LogEntry(d) /\ LogEntry(e)
    BY DEF IngestInv, LogInv
  <2>2. Held(e)' = IF e = d THEN (log[d].purged + 1)..n ELSE Held(e)
    BY DEF Held
  <2>3. /\ IdOf(e, k) \in DOMAIN records <=> k \in Held(e)
        /\ IdOf(e, k) \in DOMAIN records => /\ records[IdOf(e, k)].tenant_id = log[e].tenant
                                            /\ records[IdOf(e, k)].document_id = e
    BY DEF IngestInv, HeldInv
  <2>4. CASE IdOf(e, k) = IdOf(d, n)
    <3>1. e = d /\ k = n
      BY <2>4 DEF IngestInv, DistinctInv
    <3>2. n \in (log[d].purged + 1)..n
      <4>1. /\ Len(ChunksOf(d)) \in Nat /\ log[d].stored \in 0..Len(ChunksOf(d))
            /\ log[d].purged \in 0..log[d].stored
        BY <2>1, Zenon DEF LogEntry, ChunksGiven
      <4>2. n = log[d].stored + 1
        OBVIOUS
      <4> HIDE DEF StoresChunk
      <4> QED BY <4>1, <4>2, SMT
    <3> QED BY <2>4, <3>1, <3>2, <2>2
  <2>5. CASE IdOf(e, k) # IdOf(d, n)
    <3>1. ~(e = d /\ k = n)
      BY <2>5
    <3>2. k \in Held(e)' <=> k \in Held(e)
      <4>1. CASE e = d
        <5>1. k # n /\ log[d].stored \in Int /\ log[d].purged \in Int /\ n = log[d].stored + 1
          BY <3>1, <4>1, <2>1 DEF LogEntry, ChunksGiven
        <5>2. k \in Int
          BY <2>1 DEF LogEntry, ChunksGiven
        <5> QED BY <4>1, <5>1, <5>2, <2>2 DEF Held
      <4>2. CASE e # d
        BY <4>2, <2>2
      <4> QED BY <4>1, <4>2
    <3> QED BY <2>5, <3>2, <2>3
  <2> QED BY <2>4, <2>5
<1>4. FreshInv'
  <2>1. PICK i \in 1..Len(NewChunk[log[d].tenant]) :
          i <= chunk_ids[log[d].tenant] /\ IdOf(d, n) = NewChunk[log[d].tenant][i]
    BY LoggedIds DEF IngestInv
  <2>2. log[d].tenant \in Tenants
    BY LoggedIds DEF IngestInv
  <2>3. ASSUME NEW u \in Tenants, NEW k \in 1..Len(NewChunk[u]), k > chunk_ids[u]
        PROVE  NewChunk[u][k] \notin DOMAIN records'
    <3>1. NewChunk[u][k] # IdOf(d, n)
      <4>1. SUFFICES ASSUME NewChunk[u][k] = NewChunk[log[d].tenant][i] PROVE FALSE
        BY <2>1
      <4>2. u = log[d].tenant /\ k = i
        BY <4>1, <2>2, IdsGivenOnce
      <4>3. chunk_ids[u] \in Int /\ k \in Int
        BY DEF IngestInv, FreshInv
      <4> QED BY <4>2, <4>3, <2>1, <2>3
    <3> QED BY <2>3, <3>1 DEF IngestInv, FreshInv
  <2> QED BY <2>3 DEF IngestInv, FreshInv
<1> QED BY <1>1, <1>2, <1>3, <1>4

LEMMA StoreTurns == ASSUME IngestInv, NEW j \in Jobs, Store(j) PROVE IngestInv'
<1>0. PICK d, n : d = job[j].document /\ n = job[j].next
  OBVIOUS
<1>1. StoresChunk(j, d, n)
  BY <1>0, StoreStores
<1>2. job[j].stage = "storing" /\ job' = [job EXCEPT ![j].next = @ + 1]
  BY DEF Store
<1>3. JobInv(j) /\ DOMAIN job = Jobs
  BY DEF IngestInv, JobsInv
<1>4. job'[j] = [job[j] EXCEPT !.next = @ + 1]
  BY <1>2, <1>3
<1>5. /\ DOMAIN job'[j] = DOMAIN job[j] /\ job'[j].stage = "storing"
      /\ job'[j].tenant = job[j].tenant /\ job'[j].document = d
      /\ job'[j].chunks = job[j].chunks /\ job'[j].next = n + 1
  BY <1>0, <1>2, <1>3, <1>4 DEF JobInv
<1>6. DOMAIN job' = Jobs /\ \A l \in Jobs \ {j} : job'[l] = job[l]
  BY <1>2, <1>3
<1>7. \A l \in Jobs : job'[l].stage = job[l].stage
                      /\ (job[l].stage = "storing" => job'[l].document = job[l].document)
  BY <1>2, <1>5, <1>6
<1>8. JobsInv'
  <2>1. JobInv(j)'
    <3>1. ChunksOf(d)' = ChunksOf(d) /\ log'[d].tenant = log[d].tenant /\ log'[d].stored = n
          /\ d \in DOMAIN log'
      BY <1>1 DEF StoresChunk, ChunksOf
    <3>2. /\ d \in DOMAIN log /\ job[j].tenant = log[d].tenant /\ job[j].chunks = ChunksOf(d)
          /\ DOMAIN job[j] = {"stage", "tenant", "document", "chunks", "next"}
          /\ \A l \in Jobs : job[l].stage = "storing" /\ job[l].document = d => l = j
      BY <1>0, <1>2, <1>3 DEF JobInv
    <3>3. \A l \in Jobs : job'[l].stage = "storing" /\ job'[l].document = d => l = j
      BY <3>2, <1>7
    <3> QED BY <1>5, <3>1, <3>2, <3>3 DEF JobInv
  <2>2. ASSUME NEW l \in Jobs \ {j} PROVE JobInv(l)'
    <3>1. JobInv(l)
      BY DEF IngestInv, JobsInv
    <3>2. job'[l] = job[l]
      BY <1>6
    <3>3. CASE job[l].stage = "storing"
      <4>0. PICK e : e = job[l].document
        OBVIOUS
      <4>1. e # d /\ e \in DOMAIN log
        BY <4>0, <3>1, <3>3, <1>0, <1>2, <1>3 DEF JobInv
      <4>2. /\ e \in DOMAIN log' /\ log'[e].tenant = log[e].tenant
            /\ ChunksOf(e)' = ChunksOf(e) /\ log'[e].stored = log[e].stored
        BY <1>1, <4>1 DEF StoresChunk, ChunksOf
      <4>3. \A i \in Jobs : job'[i].stage = "storing" /\ job'[i].document = e => i = l
        BY <4>0, <1>7, <3>1, <3>3 DEF JobInv
      <4> QED BY <4>0, <3>1, <3>2, <3>3, <4>2, <4>3 DEF JobInv
    <3>4. CASE job[l].stage # "storing"
      BY <3>1, <3>2, <3>4 DEF JobInv
    <3> QED BY <3>3, <3>4
  <2> QED BY <1>6, <2>1, <2>2 DEF JobsInv
<1>9. LogInv' /\ DistinctInv' /\ HeldInv' /\ FreshInv'
  BY <1>1, StoreKeepsLog
<1> QED BY <1>8, <1>9 DEF IngestInv

-----------------------------------------------------------------------------
(* A tenant's purge removes every chunk of its document, and only those.   *)
LEMMA PurgeTurns ==
  ASSUME IngestInv, NEW t \in Tenants, NEW d \in DocumentIds, Purge(t, d)
  PROVE  IngestInv'
<1>1. /\ \A c : c \in DOMAIN records' <=> c \in DOMAIN records /\ ~Purged(t, d, c)
      /\ \A c \in DOMAIN records' : records'[c] = records[c]
      /\ UNCHANGED <<job, documents, chunk_ids>>
  BY DEF Purge, delete_document
<1>2. /\ DOMAIN log' = DOMAIN log
      /\ \A e \in DOMAIN log :
           log'[e] = IF e = d /\ log[e].tenant = t THEN [log[e] EXCEPT !.purged = log[e].stored]
                     ELSE log[e]
  BY DEF Purge
<1>3. ASSUME NEW e \in DOMAIN log
      PROVE  /\ DOMAIN log'[e] = DOMAIN log[e]
             /\ log'[e].tenant = log[e].tenant /\ log'[e].chunks = log[e].chunks
             /\ log'[e].stored = log[e].stored
             /\ log'[e].purged = IF e = d /\ log[e].tenant = t THEN log[e].stored ELSE log[e].purged
  <2>1. LogEntry(e)
    BY DEF IngestInv, LogInv
  <2>2. CASE e = d /\ log[e].tenant = t
    BY <1>2, <2>1, <2>2 DEF LogEntry
  <2>3. CASE ~(e = d /\ log[e].tenant = t)
    BY <1>2, <2>3
  <2> QED BY <2>2, <2>3
<1>4. \A e \in DOMAIN log : ChunksOf(e)' = ChunksOf(e) /\ \A k : IdOf(e, k)' = IdOf(e, k)
  BY <1>3 DEF ChunksOf, IdOf
<1>5. LogInv'
  <2> SUFFICES ASSUME NEW e \in DOMAIN log PROVE LogEntry(e)'
    BY <1>2 DEF LogInv
  <2>1. LogEntry(e)
    BY DEF IngestInv, LogInv
  <2>2. ChunksGiven(log[e].tenant, ChunksOf(e))'
    <3>1. ChunksGiven(log[e].tenant, ChunksOf(e))
      BY <2>1, Zenon DEF LogEntry
    <3>2. ChunksOf(e)' = ChunksOf(e) /\ log'[e].tenant = log[e].tenant /\ chunk_ids' = chunk_ids
      BY <1>1, <1>3, <1>4, Zenon
    <3> QED BY <3>1, <3>2, Zenon DEF ChunksGiven
  <2>3. log'[e].stored \in 0..Len(ChunksOf(e)) /\ log'[e].purged \in 0..log'[e].stored
    BY <1>3, <2>1 DEF LogEntry
  <2> QED BY <1>1, <1>3, <1>4, <2>1, <2>2, <2>3 DEF LogEntry
<1>6. DistinctInv'
  BY <1>2, <1>4 DEF IngestInv, DistinctInv
<1>7. HeldInv'
  <2> SUFFICES ASSUME NEW e \in DOMAIN log, NEW k \in DOMAIN ChunksOf(e)
               PROVE  /\ IdOf(e, k) \in DOMAIN records' <=> k \in Held(e)'
                      /\ IdOf(e, k) \in DOMAIN records' =>
                           /\ records'[IdOf(e, k)].tenant_id = log[e].tenant
                           /\ records'[IdOf(e, k)].document_id = e
    BY <1>2, <1>3, <1>4 DEF HeldInv
  <2>1. /\ IdOf(e, k) \in DOMAIN records <=> k \in Held(e)
        /\ IdOf(e, k) \in DOMAIN records => /\ records[IdOf(e, k)].tenant_id = log[e].tenant
                                            /\ records[IdOf(e, k)].document_id = e
    BY DEF IngestInv, HeldInv
  <2>2. IdOf(e, k) \in DOMAIN records' <=>
          IdOf(e, k) \in DOMAIN records /\ ~(log[e].tenant = t /\ e = d)
    BY <1>1, <2>1 DEF Purged
  <2>3. CASE log[e].tenant = t /\ e = d
    <3>1. Held(e)' = (log[e].stored + 1)..log[e].stored
      BY <1>3, <2>3 DEF Held
    <3>2. log[e].stored \in Int
      BY DEF IngestInv, LogInv, LogEntry
    <3>3. Held(e)' = {}
      BY <3>1, <3>2
    <3> QED BY <2>2, <2>3, <3>3
  <2>4. CASE ~(log[e].tenant = t /\ e = d)
    <3>1. Held(e)' = Held(e)
      BY <1>3, <2>4 DEF Held
    <3> QED BY <1>1, <2>1, <2>2, <2>4, <3>1
  <2> QED BY <2>3, <2>4
<1>8. FreshInv'
  BY <1>1 DEF IngestInv, FreshInv
<1>9. JobsInv'
  <2>1. ASSUME NEW j \in Jobs PROVE JobInv(j)'
    <3>1. JobInv(j)
      BY DEF IngestInv, JobsInv
    <3> QED BY <1>1, <1>2, <1>3, <1>4, <3>1 DEF JobInv
  <2> QED BY <1>1, <2>1 DEF IngestInv, JobsInv
<1> QED BY <1>5, <1>6, <1>7, <1>8, <1>9 DEF IngestInv

(* A document is read: neither it nor its chunks have been seen before.    *)
LEMMA FetchedTurns == ASSUME IngestInv, NEW j \in Jobs, Fetched(j) PROVE IngestInv'
<1>0. PICK t, text, d, n, cs, source :
        /\ t = job[j].tenant /\ source = job[j].source /\ text = TextOf(source)
        /\ d = NewDocument[t][documents[t] + 1] /\ n = Len(Pieces(text))
        /\ cs = chunk(t, text)
  OBVIOUS
<1>1. /\ job[j].stage = "fetching" /\ documents[t] < Len(NewDocument[t])
      /\ chunk_ids[t] + n <= Len(NewChunk[t])
      /\ documents' = [documents EXCEPT ![t] = @ + 1]
      /\ chunk_ids' = [chunk_ids EXCEPT ![t] = @ + n]
      /\ job' = [job EXCEPT ![j] = [stage |-> "storing", tenant |-> t, document |-> d,
                                    chunks |-> cs, next |-> 1]]
      /\ log' = [x \in DOMAIN log \cup {d} |->
                   IF x = d THEN [tenant |-> t, source |-> source, chunks |-> cs,
                                  stored |-> 0, purged |-> 0]
                   ELSE log[x]]
      /\ records' = records
  BY <1>0 DEF Fetched, vars
<1>2. t \in Tenants /\ source \in Sources
  BY <1>0, <1>1 DEF IngestInv, JobsInv, JobInv
<1>3. Len(text) \in Nat /\ \A k \in 1..n : embed(Pieces(text)[k]) \in Embeddings
  <2>1. Len(text) \in Nat /\ \A k \in DOMAIN Pieces(text) : embed(Pieces(text)[k]) \in Embeddings
    BY <1>0, <1>2, TextAssumption
  <2>2. DOMAIN Pieces(text) = 1..n
    BY <1>0, <2>1, PiecesShape
  <2> QED BY <2>1, <2>2
<1>4. /\ Len(cs) = n /\ n \in Nat /\ DOMAIN cs = 1..n
      /\ \A k \in 1..n : /\ cs[k].id = NewChunk[t][chunk_ids[t] + k]
                         /\ cs[k].text = Pieces(text)[k] /\ cs[k].sequence = k - 1
  BY <1>0, <1>2, <1>3, ChunkShape
<1>5. /\ DOMAIN documents = Tenants /\ DOMAIN chunk_ids = Tenants
      /\ documents[t] \in 0..Len(NewDocument[t]) /\ chunk_ids[t] \in 0..Len(NewChunk[t])
      /\ Len(NewDocument[t]) \in Nat /\ Len(NewChunk[t]) \in Nat
  BY <1>2, IdsOfTenant DEF IngestInv, FreshInv
<1>6. /\ documents'[t] = documents[t] + 1 /\ chunk_ids'[t] = chunk_ids[t] + n
      /\ \A u \in Tenants \ {t} : documents'[u] = documents[u] /\ chunk_ids'[u] = chunk_ids[u]
      /\ DOMAIN documents' = Tenants /\ DOMAIN chunk_ids' = Tenants
  BY <1>1, <1>2, <1>5
<1>7. d \notin DOMAIN log
  <2>1. SUFFICES ASSUME d \in DOMAIN log PROVE FALSE
    OBVIOUS
  <2>2. PICK u \in Tenants : \E i \in 1..documents[u] : d = NewDocument[u][i]
    BY <2>1 DEF IngestInv, LogInv, LogEntry
  <2>3. PICK i \in 1..documents[u] : d = NewDocument[u][i]
    BY <2>2
  <2>4. i \in 1..Len(NewDocument[u]) /\ documents[u] \in Nat
    BY <2>3, IdsOfTenant DEF IngestInv, FreshInv
  <2>5. documents[t] + 1 \in 1..Len(NewDocument[t])
    BY <1>1, <1>5
  <2>6. PICK m \in 1..Len(NewDocument[t]) : m = documents[t] + 1
    BY <2>5
  <2>7. NewDocument[u][i] = NewDocument[t][m]
    BY <1>0, <2>3, <2>6
  <2>8. \A a \in 1..Len(NewDocument[u]), b \in 1..Len(NewDocument[t]) :
          NewDocument[u][a] = NewDocument[t][b] => u = t /\ a = b
    BY <1>2, IdsGivenOnce
  <2>9. u = t /\ i = m
    BY <2>4, <2>6, <2>7, <2>8
  <2> QED BY <2>6, <2>9, <1>5
<1>8. \A k \in 1..n : /\ chunk_ids[t] + k \in 1..Len(NewChunk[t]) /\ chunk_ids[t] + k > chunk_ids[t]
                      /\ chunk_ids[t] + k \in 1..(chunk_ids[t] + n)
  <2>1. PICK given, all : given = chunk_ids[t] /\ all = Len(NewChunk[t])
    OBVIOUS
  <2>2. given \in Nat /\ all \in Nat /\ n \in Nat /\ given + n <= all
    BY <2>1, <1>1, <1>4, <1>5
  <2>3. \A k \in 1..n : given + k \in 1..all /\ given + k > given /\ given + k \in 1..(given + n)
    BY <2>2
  <2> QED BY <2>1, <2>3
<1>9. /\ DOMAIN log' = DOMAIN log \cup {d}
      /\ log'[d] = [tenant |-> t, source |-> source, chunks |-> cs, stored |-> 0, purged |-> 0]
      /\ \A e \in DOMAIN log : log'[e] = log[e] /\ e # d
  BY <1>1, <1>7
<1>10. /\ ChunksOf(d)' = cs /\ \A k : IdOf(d, k)' = cs[k].id
       /\ \A e \in DOMAIN log : ChunksOf(e)' = ChunksOf(e) /\ \A k : IdOf(e, k)' = IdOf(e, k)
  BY <1>9 DEF ChunksOf, IdOf
<1>11. LogInv'
  <2>1. LogEntry(d)'
    <3>1. ChunksGiven(t, cs)'
      <4>1. ASSUME NEW k \in 1..n
            PROVE  /\ cs[k].sequence = k - 1 /\ embed(cs[k].text) \in Embeddings
                   /\ \E i \in 1..chunk_ids'[t] : cs[k].id = NewChunk[t][i]
        BY <4>1, <1>3, <1>4, <1>6, <1>8
      <4> QED BY <1>4, <4>1 DEF ChunksGiven
    <3>2. documents[t] + 1 \in 1..documents'[t]
      BY <1>5, <1>6
    <3>3. \E i \in 1..documents'[t] : d = NewDocument[t][i]
      BY <1>0, <3>2
    <3>4. ChunksGiven(log[d].tenant, ChunksOf(d))'
      BY <3>1, <1>9, <1>10 DEF ChunksGiven
    <3>5. Len(cs) \in Nat
      BY <1>4
    <3> QED BY <1>2, <1>9, <1>10, <3>3, <3>4, <3>5 DEF LogEntry
  <2>2. ASSUME NEW e \in DOMAIN log PROVE LogEntry(e)'
    <3>1. LogEntry(e)
      BY DEF IngestInv, LogInv
    <3>2. /\ 1..documents[log[e].tenant] \subseteq 1..documents'[log[e].tenant]
          /\ 1..chunk_ids[log[e].tenant] \subseteq 1..chunk_ids'[log[e].tenant]
      <4>1. CASE log[e].tenant = t
        BY <4>1, <1>4, <1>5, <1>6
      <4>2. CASE log[e].tenant # t
        BY <4>2, <3>1, <1>6 DEF LogEntry
      <4> QED BY <4>1, <4>2
    <3>3. ChunksGiven(log[e].tenant, ChunksOf(e))'
      BY <1>9, <1>10, <3>1, <3>2 DEF LogEntry, ChunksGiven
    <3> QED BY <1>9, <1>10, <3>1, <3>2, <3>3 DEF LogEntry
  <2> QED BY <1>9, <2>1, <2>2 DEF LogInv
<1>12. ASSUME NEW e \in DOMAIN log, NEW k \in DOMAIN ChunksOf(e), NEW l \in 1..n
       PROVE  IdOf(e, k) # cs[l].id
  <2>0. PICK u \in Tenants :
          \E i \in 1..Len(NewChunk[u]) : i <= chunk_ids[u] /\ IdOf(e, k) = NewChunk[u][i]
    BY LoggedIds DEF IngestInv
  <2>1. PICK i \in 1..Len(NewChunk[u]) : i <= chunk_ids[u] /\ IdOf(e, k) = NewChunk[u][i]
    BY <2>0
  <2>2. SUFFICES ASSUME NewChunk[u][i] = NewChunk[t][chunk_ids[t] + l] PROVE FALSE
    BY <2>1, <1>4
  <2>3. u = t /\ i = chunk_ids[t] + l
    BY <2>2, <1>2, <1>8, IdsGivenOnce
  <2> QED BY <2>1, <2>3, <1>5
<1>13. DistinctInv'
  <2>1. ASSUME NEW k \in 1..n, NEW l \in 1..n, cs[k].id = cs[l].id PROVE k = l
    <3>1. PICK a, b \in 1..Len(NewChunk[t]) : a = chunk_ids[t] + k /\ b = chunk_ids[t] + l
      BY <1>8
    <3>2. NewChunk[t][a] = NewChunk[t][b]
      BY <2>1, <1>4, <3>1
    <3>3. a = b
      BY <1>2, <3>2, IdsGivenOnce
    <3> QED BY <3>1, <3>3, <1>5
  <2>2. \A e, f \in DOMAIN log : \A k \in DOMAIN ChunksOf(e), l \in DOMAIN ChunksOf(f) :
          IdOf(e, k) = IdOf(f, l) => e = f /\ k = l
    BY DEF IngestInv, DistinctInv
  <2>3. SUFFICES ASSUME NEW e \in DOMAIN log', NEW f \in DOMAIN log',
                        NEW k \in DOMAIN ChunksOf(e)', NEW l \in DOMAIN ChunksOf(f)',
                        IdOf(e, k)' = IdOf(f, l)'
                 PROVE  e = f /\ k = l
    BY DEF DistinctInv
  <2>4. CASE e \in DOMAIN log /\ f \in DOMAIN log
    BY <2>2, <2>3, <2>4, <1>10
  <2>5. CASE e = d /\ f = d
    <3>1. k \in 1..n /\ l \in 1..n /\ cs[k].id = cs[l].id
      BY <2>3, <2>5, <1>4, <1>10
    <3> QED BY <2>5, <3>1, <2>1
  <2>6. CASE e \in DOMAIN log /\ f = d
    BY <2>3, <2>6, <1>4, <1>10, <1>12
  <2>7. CASE e = d /\ f \in DOMAIN log
    BY <2>3, <2>7, <1>4, <1>10, <1>12
  <2> QED BY <1>9, <2>4, <2>5, <2>6, <2>7
<1>14. HeldInv'
  <2>1. ASSUME NEW k \in 1..n PROVE cs[k].id \notin DOMAIN records
    BY <2>1, <1>2, <1>4, <1>8 DEF IngestInv, FreshInv
  <2>2. Held(d)' = {}
    BY <1>9 DEF Held
  <2>3. \A e \in DOMAIN log : Held(e)' = Held(e)
    BY <1>9 DEF Held
  <2>4. SUFFICES ASSUME NEW e \in DOMAIN log', NEW k \in DOMAIN ChunksOf(e)'
                 PROVE  (/\ IdOf(e, k) \in DOMAIN records <=> k \in Held(e)
                         /\ IdOf(e, k) \in DOMAIN records =>
                              /\ records[IdOf(e, k)].tenant_id = log[e].tenant
                              /\ records[IdOf(e, k)].document_id = e)'
    BY Zenon DEF HeldInv
  <2>5. CASE e = d
    <3>1. ChunksOf(e)' = cs /\ IdOf(e, k)' = cs[k].id /\ Held(e)' = {}
      BY <1>10, <2>2, <2>5
    <3>2. k \in 1..n
      BY <1>4, <2>4, <3>1
    <3>3. cs[k].id \notin DOMAIN records' /\ k \notin Held(e)'
      BY <1>1, <2>1, <3>1, <3>2
    <3> QED BY <3>1, <3>3
  <2>6. CASE e \in DOMAIN log
    <3>1. /\ ChunksOf(e)' = ChunksOf(e) /\ IdOf(e, k)' = IdOf(e, k) /\ Held(e)' = Held(e)
          /\ log'[e].tenant = log[e].tenant
      BY <1>9, <1>10, <2>3, <2>6
    <3>2. k \in DOMAIN ChunksOf(e)
      BY <2>4, <3>1
    <3>3. /\ IdOf(e, k) \in DOMAIN records <=> k \in Held(e)
          /\ IdOf(e, k) \in DOMAIN records => /\ records[IdOf(e, k)].tenant_id = log[e].tenant
                                              /\ records[IdOf(e, k)].document_id = e
      BY <2>6, <3>2 DEF IngestInv, HeldInv
    <3> QED BY <1>1, <3>1, <3>3
  <2> QED BY <1>9, <2>5, <2>6
<1>15. FreshInv'
  <2>1. ASSUME NEW u \in Tenants
        PROVE  /\ documents'[u] \in 0..Len(NewDocument[u]) /\ chunk_ids'[u] \in 0..Len(NewChunk[u])
               /\ \A i \in 1..Len(NewChunk[u]) :
                    i > chunk_ids'[u] => NewChunk[u][i] \notin DOMAIN records
    <3>1. /\ documents[u] \in 0..Len(NewDocument[u]) /\ chunk_ids[u] \in 0..Len(NewChunk[u])
          /\ \A i \in 1..Len(NewChunk[u]) :
               i > chunk_ids[u] => NewChunk[u][i] \notin DOMAIN records
      BY DEF IngestInv, FreshInv
    <3>2. CASE u = t
      <4>1. documents'[u] \in 0..Len(NewDocument[u]) /\ chunk_ids'[u] \in 0..Len(NewChunk[u])
        BY <3>2, <1>1, <1>4, <1>5, <1>6
      <4>2. \A i \in 1..Len(NewChunk[u]) : i > chunk_ids'[u] => i > chunk_ids[u]
        BY <3>2, <1>4, <1>5, <1>6
      <4> QED BY <3>1, <4>1, <4>2
    <3>3. CASE u # t
      BY <3>1, <3>3, <1>6
    <3> QED BY <3>2, <3>3
  <2> QED BY <1>1, <1>6, <2>1 DEF FreshInv
<1>16. JobsInv'
  <2>1. /\ DOMAIN job' = Jobs /\ \A l \in Jobs \ {j} : job'[l] = job[l]
        /\ job'[j] = [stage |-> "storing", tenant |-> t, document |-> d, chunks |-> cs, next |-> 1]
    BY <1>1 DEF IngestInv, JobsInv
  <2>2. \A l \in Jobs : job[l].stage = "storing" => job[l].document \in DOMAIN log
    BY DEF IngestInv, JobsInv, JobInv
  <2>3. JobInv(j)'
    <3>1. \A l \in Jobs : job'[l].stage = "storing" /\ job'[l].document = d => l = j
      BY <2>1, <2>2, <1>7
    <3> QED BY <2>1, <3>1, <1>9, <1>10 DEF JobInv
  <2>4. ASSUME NEW l \in Jobs \ {j} PROVE JobInv(l)'
    <3>1. JobInv(l)
      BY DEF IngestInv, JobsInv
    <3>2. job'[l] = job[l]
      BY <2>1
    <3>3. CASE job[l].stage = "storing"
      <4>1. PICK e : e = job[l].document
        OBVIOUS
      <4>2. e \in DOMAIN log /\ e # d
        BY <4>1, <3>1, <3>3, <1>7 DEF JobInv
      <4>3. \A i \in Jobs : job'[i].stage = "storing" /\ job'[i].document = e => i = l
        BY <4>1, <4>2, <2>1, <3>1, <3>3 DEF JobInv
      <4> QED BY <3>1, <3>2, <3>3, <4>1, <4>2, <4>3, <1>9, <1>10 DEF JobInv
    <3>4. CASE job[l].stage # "storing"
      BY <3>1, <3>2, <3>4 DEF JobInv
    <3> QED BY <3>3, <3>4
  <2> QED BY <2>1, <2>3, <2>4 DEF JobsInv
<1> QED BY <1>11, <1>13, <1>14, <1>15, <1>16 DEF IngestInv

LEMMA IngestInvStep == IngestInv /\ [IngestNext]_allVars => IngestInv'
<1> SUFFICES ASSUME IngestInv, [IngestNext]_allVars PROVE IngestInv'
  OBVIOUS
<1>1. ASSUME NEW j \in Jobs, NEW t \in Tenants, NEW source \in Sources, fetch(j, t, source)
      PROVE  IngestInv'
  <2>1. PICK v : v = [stage |-> "fetching", tenant |-> t, source |-> source]
    OBVIOUS
  <2>2. v.stage # "storing" /\ v.tenant \in Tenants /\ v.source \in Sources
    BY <2>1
  <2>3. job' = [job EXCEPT ![j] = v] /\ UNCHANGED <<records, documents, chunk_ids, log>>
    BY <1>1, <2>1 DEF fetch, vars
  <2> QED BY <2>2, <2>3, JobTurns
<1>2. ASSUME NEW j \in Jobs, Fetched(j) PROVE IngestInv'
  BY <1>2, FetchedTurns
<1>3. ASSUME NEW j \in Jobs, FetchFails(j) PROVE IngestInv'
  BY <1>3, JobEnds DEF FetchFails, vars
<1>4. ASSUME NEW j \in Jobs, Store(j) PROVE IngestInv'
  BY <1>4, StoreTurns
<1>5. ASSUME NEW j \in Jobs, StorePanics(j) PROVE IngestInv'
  BY <1>5, JobEnds DEF StorePanics, lock_panics
<1>6. ASSUME NEW j \in Jobs, Finish(j) PROVE IngestInv'
  BY <1>6, JobEnds DEF Finish, vars
<1>7. ASSUME NEW t \in Tenants, Direct(t) PROVE IngestInv'
  BY <1>7, DirectTurns
<1>8. ASSUME NEW t \in Tenants, NEW d \in DocumentIds, Purge(t, d) PROVE IngestInv'
  BY <1>8, PurgeTurns
<1>9. CASE UNCHANGED allVars
  <2>1. UNCHANGED <<records, documents, chunk_ids, log, job>>
    BY <1>9 DEF allVars
  <2>2. JobsInv'
    BY <2>1 DEF IngestInv, JobsInv, JobInv, ChunksOf
  <2> QED BY <2>1, <2>2, SameLog, SameIds DEF IngestInv
<1> QED
  BY <1>1, <1>2, <1>3, <1>4, <1>5, <1>6, <1>7, <1>8, <1>9 DEF IngestNext

LEMMA IngestInvAlways == IngestSpec => []IngestInv
BY IngestInvInit, IngestInvStep, PTL DEF IngestSpec

(* What the store holds of an ingested document is always the run of its   *)
(* chunks that were stored since its own tenant last purged it, under that *)
(* tenant (memory.rs:43-59, 85-93; chunker.rs:73-88).                      *)
THEOREM ChunksStayInOrder == IngestSpec => []IngestedInOrder
<1>1. ASSUME IngestInv PROVE IngestedInOrder
  <2> USE <1>1 DEF IngestInv
  <2> SUFFICES ASSUME NEW d \in DOMAIN log
               PROVE  LET held == {k \in DOMAIN ChunksOf(d) : IdOf(d, k) \in DOMAIN records}
                      IN  /\ held = Held(d)
                          /\ \A k \in held : /\ ChunksOf(d)[k].sequence = k - 1
                                             /\ records[IdOf(d, k)].tenant_id = log[d].tenant
                                             /\ records[IdOf(d, k)].document_id = d
    BY DEF IngestedInOrder, IdOf, Held
  <2>1. LogEntry(d)
    BY DEF LogInv
  <2>2. Held(d) \subseteq DOMAIN ChunksOf(d)
    BY <2>1 DEF LogEntry, ChunksGiven, Held
  <2>3. \A k \in DOMAIN ChunksOf(d) :
          /\ IdOf(d, k) \in DOMAIN records <=> k \in Held(d)
          /\ IdOf(d, k) \in DOMAIN records => /\ records[IdOf(d, k)].tenant_id = log[d].tenant
                                              /\ records[IdOf(d, k)].document_id = d
    BY DEF HeldInv
  <2> QED BY <2>1, <2>2, <2>3 DEF LogEntry, ChunksGiven
<1> QED BY <1>1, IngestInvAlways, PTL

-----------------------------------------------------------------------------
(* A step of the pipeline is an operation of the store, or none.           *)
LEMMA StoreUpserts ==
  ASSUME IngestInv, NEW j \in Jobs, Store(j)
  PROVE  \E t \in Tenants, c \in ChunkIds, d \in DocumentIds, e \in Embeddings : upsert(t, c, d, e)
<1>0. PICK d, n : d = job[j].document /\ n = job[j].next
  OBVIOUS
<1>1. d \in DOMAIN log /\ job[j].tenant = log[d].tenant /\ job[j].chunks = ChunksOf(d)
  BY <1>0 DEF IngestInv, JobsInv, JobInv, Store
<1>2. n \in DOMAIN ChunksOf(d)
  BY <1>0, StoreStores DEF StoresChunk
<1>3. log[d].tenant \in Tenants /\ d \in DocumentIds /\ IdOf(d, n) \in ChunkIds
  BY <1>1, <1>2, LoggedIds DEF IngestInv
<1>4. embed(ChunksOf(d)[n].text) \in Embeddings
  BY <1>1, <1>2 DEF IngestInv, LogInv, LogEntry, ChunksGiven
<1>5. upsert(log[d].tenant, IdOf(d, n), d, embed(ChunksOf(d)[n].text))
  BY <1>0, <1>1 DEF Store, IdOf
<1> QED BY <1>3, <1>4, <1>5

LEMMA IngestStepStores == IngestInv /\ [IngestNext]_allVars => [Next]_vars
<1> SUFFICES ASSUME IngestInv, [IngestNext]_allVars PROVE [Next]_vars
  OBVIOUS
<1>1. ASSUME NEW j \in Jobs, NEW t \in Tenants, NEW source \in Sources, fetch(j, t, source)
      PROVE  [Next]_vars
  BY <1>1 DEF fetch
<1>2. ASSUME NEW j \in Jobs, Fetched(j) \/ FetchFails(j) \/ Finish(j) PROVE [Next]_vars
  BY <1>2 DEF Fetched, FetchFails, Finish
<1>3. ASSUME NEW j \in Jobs, Store(j) PROVE [Next]_vars
  <2>1. \E t \in Tenants, c \in ChunkIds, d \in DocumentIds, e \in Embeddings : upsert(t, c, d, e)
    BY <1>3, StoreUpserts
  <2> QED BY <2>1 DEF Next
<1>4. ASSUME NEW j \in Jobs, StorePanics(j) PROVE [Next]_vars
  <2>1. job[j].tenant \in Tenants
    <3>1. JobInv(j) /\ job[j].stage = "storing"
      BY <1>4 DEF IngestInv, JobsInv, StorePanics
    <3> QED BY <3>1 DEF JobInv, IngestInv, LogInv, LogEntry
  <2>2. lock_panics(job[j].tenant)
    BY <1>4 DEF StorePanics
  <2> QED BY <2>1, <2>2 DEF Next
<1>5. ASSUME NEW t \in Tenants, Direct(t) PROVE [Next]_vars
  <2>1. DirectIds \subseteq ChunkIds /\ DirectVectors \subseteq Embeddings
    BY IdAssumption
  <2> QED BY <1>5, <2>1 DEF Direct, Next
<1>6. ASSUME NEW t \in Tenants, NEW d \in DocumentIds, Purge(t, d) PROVE [Next]_vars
  BY <1>6 DEF Purge, Next
<1>7. CASE UNCHANGED allVars
  BY <1>7 DEF allVars, vars
<1> QED
  BY <1>1, <1>2, <1>3, <1>4, <1>5, <1>6, <1>7 DEF IngestNext

(* The pipeline uses the store as any caller may, so what is proved of the *)
(* store holds of it (embedder.rs:17-19, memory.rs:43-59).                 *)
THEOREM IngestUsesTheStore == IngestSpec => Spec
<1>1. IngestInit => Init
  BY DEF IngestInit
<1> QED BY <1>1, IngestStepStores, IngestInvAlways, PTL DEF IngestSpec, Spec

-----------------------------------------------------------------------------
(***************************************************************************)
(* The text of a web page.  What a node is inside of and whether it is     *)
(* shown are tables over the nodes in document order: each entry comes     *)
(* from its parent's, which is an earlier one.                             *)
(***************************************************************************)
(* The table of what each node is inside of exists for any parents p that  *)
(* come earlier.                                                           *)
LEMMA NodesAbove ==
  ASSUME NEW N \in Nat, NEW p, \A n \in 1..N : p[n] \in 0..(n - 1)
  PROVE  \E g : g = [n \in 0..N |-> IF n = 0 THEN {} ELSE {p[n]} \cup g[p[n]]]
<1> DEFINE Table(g, m) == g = [n \in 0..m |-> IF n = 0 THEN {} ELSE {p[n]} \cup g[p[n]]]
           T == {m \in Nat : m <= N => \E g : Table(g, m)}
<1>1. 0 \in T
  <2> DEFINE g == [n \in 0..0 |-> {}]
  <2>1. g = [n \in 0..0 |-> IF n = 0 THEN {} ELSE {p[n]} \cup g[p[n]]]
    OBVIOUS
  <2> HIDE DEF g
  <2> QED BY <2>1
<1>2. ASSUME NEW m \in Nat, m \in T PROVE m + 1 \in T
  <2> SUFFICES ASSUME m + 1 <= N PROVE \E g : Table(g, m + 1)
    OBVIOUS
  <2>1. PICK g : Table(g, m)
    BY <1>2
  <2>2. \A n \in 0..m : g[n] = IF n = 0 THEN {} ELSE {p[n]} \cup g[p[n]]
    BY <2>1
  <2> DEFINE h == [n \in 0..(m + 1) |-> IF n = m + 1 THEN {p[n]} \cup g[p[n]] ELSE g[n]]
  <2>3. ASSUME NEW n \in 0..(m + 1)
        PROVE  h[n] = IF n = 0 THEN {} ELSE {p[n]} \cup h[p[n]]
    <3>1. CASE n = 0
      <4>1. n # m + 1 /\ 0 \in 0..m
        BY <3>1
      <4>2. h[n] = g[n] /\ g[0] = {}
        BY <4>1, <2>2
      <4> HIDE DEF h
      <4> QED BY <3>1, <4>2
    <3>2. CASE n # 0
      <4>1. n \in 1..N /\ p[n] \in 0..(n - 1)
        BY <3>2
      <4>2. p[n] \in 0..(m + 1) /\ p[n] # m + 1
        BY <4>1
      <4>3. h[p[n]] = g[p[n]]
        BY <4>2
      <4>4. CASE n = m + 1
        BY <4>3, <4>4, <3>2
      <4>5. CASE n # m + 1
        <5>1. n \in 0..m /\ h[n] = g[n]
          BY <4>5
        <5> QED BY <5>1, <4>3, <2>2, <3>2
      <4> QED BY <4>4, <4>5
    <3> QED BY <3>1, <3>2
  <2>4. h = [n \in 0..(m + 1) |-> h[n]]
    OBVIOUS
  <2> HIDE DEF h
  <2>5. Table(h, m + 1)
    BY <2>3, <2>4
  <2> QED BY <2>5
<1> HIDE DEF T
<1>3. N \in T
  BY <1>1, <1>2, SetInduction
<1> QED BY <1>3 DEF T

(* The root element first, and every other node after its parent.          *)
IsTree(page) ==
  /\ Len(page) \in Nat \ {0} /\ DOMAIN page = 1..Len(page)
  /\ page[1].parent = 0 /\ \A n \in 2..Len(page) : page[n].parent \in 1..(n - 1)

(* The recursion of Ancestors, as equations.                               *)
LEMMA AncestorsUnfold ==
  ASSUME NEW page, IsTree(page)
  PROVE  /\ Ancestors(page)[0] = {}
         /\ \A n \in 1..Len(page) :
              /\ page[n].parent \in 0..(n - 1)
              /\ Ancestors(page)[n] = {page[n].parent} \cup Ancestors(page)[page[n].parent]
<1> DEFINE N == Len(page)
           p == [n \in 1..N |-> page[n].parent]
<1>1. N \in Nat /\ \A n \in 1..N : p[n] = page[n].parent /\ p[n] \in 0..(n - 1)
  <2>1. ASSUME NEW n \in 1..N PROVE page[n].parent \in 0..(n - 1)
    <3>1. CASE n = 1
      BY <3>1 DEF IsTree
    <3>2. CASE n # 1
      <4>1. n \in 2..Len(page)
        BY <3>2 DEF IsTree
      <4> QED BY <4>1 DEF IsTree
    <3> QED BY <3>1, <3>2
  <2> QED BY <2>1 DEF IsTree
<1>2. \E g : g = [n \in 0..N |-> IF n = 0 THEN {} ELSE {p[n]} \cup g[p[n]]]
  <2> HIDE DEF N, p
  <2> QED BY <1>1, NodesAbove
<1>3. PICK g : g = [n \in 0..N |-> IF n = 0 THEN {} ELSE {p[n]} \cup g[p[n]]]
  BY <1>2
<1>4. \A n \in 0..N : n # 0 => p[n] = page[n].parent
  BY <1>1
<1>5. g = [n \in 0..N |-> IF n = 0 THEN {} ELSE {page[n].parent} \cup g[page[n].parent]]
  <2> HIDE DEF p
  <2> QED BY <1>3, <1>4
<1>6. \E f : f = [n \in 0..Len(page) |->
                    IF n = 0 THEN {} ELSE {page[n].parent} \cup f[page[n].parent]]
  BY <1>5
<1>7. Ancestors(page) = CHOOSE f : f = [n \in 0..Len(page) |->
                    IF n = 0 THEN {} ELSE {page[n].parent} \cup f[page[n].parent]]
  BY DEF Ancestors
<1>8. Ancestors(page) = [n \in 0..Len(page) |->
          IF n = 0 THEN {} ELSE {page[n].parent} \cup Ancestors(page)[page[n].parent]]
  BY <1>6, <1>7
<1>9. PICK above : above = Ancestors(page)
  OBVIOUS
<1>10. above = [n \in 0..Len(page) |->
                  IF n = 0 THEN {} ELSE {page[n].parent} \cup above[page[n].parent]]
  BY <1>8, <1>9
<1>11. \A n \in 0..Len(page) :
         above[n] = IF n = 0 THEN {} ELSE {page[n].parent} \cup above[page[n].parent]
  BY <1>10
<1>12. 0 \in 0..Len(page) /\ \A n \in 1..Len(page) : n \in 0..Len(page) /\ n # 0
  BY <1>1
<1> QED BY <1>1, <1>9, <1>11, <1>12

(* Every node is inside of the root element.                               *)
LEMMA RootAboveAll ==
  ASSUME NEW page, IsTree(page)
  PROVE  /\ \A n \in 1..Len(page) : n # 1 => 1 \in Ancestors(page)[n]
         /\ \A n \in 0..Len(page) : Ancestors(page)[n] \subseteq 0..Len(page)
<1>0. PICK above : above = Ancestors(page)
  OBVIOUS
<1>1. PICK N \in Nat : N = Len(page)
  BY DEF IsTree
<1>2. /\ above[0] = {}
      /\ \A n \in 1..N : /\ page[n].parent \in 0..(n - 1)
                         /\ above[n] = {page[n].parent} \cup above[page[n].parent]
      /\ \A n \in 1..N : n # 1 => page[n].parent # 0
  BY <1>0, <1>1, AncestorsUnfold DEF IsTree
<1> DEFINE Good(n) == (n > 1 => 1 \in above[n]) /\ above[n] \subseteq 0..N
           T == {m \in Nat : \A n \in 0..N : n <= m => Good(n)}
<1>3. 0 \in T
  BY <1>2
<1>4. ASSUME NEW m \in Nat, m \in T PROVE m + 1 \in T
  <2> SUFFICES ASSUME m + 1 \in 1..N PROVE Good(m + 1)
    BY <1>4
  <2>1. PICK q : q = page[m + 1].parent
    OBVIOUS
  <2>2. q \in 0..m /\ q \in 0..N /\ above[m + 1] = {q} \cup above[q] /\ (m + 1 # 1 => q # 0)
    BY <1>2, <2>1
  <2>3. Good(q)
    BY <1>4, <2>2
  <2> QED BY <2>2, <2>3
<1> HIDE DEF T
<1>5. N \in T
  BY <1>3, <1>4, SetInduction
<1>6. \A n \in 0..N : Good(n)
  BY <1>5 DEF T
<1> QED BY <1>0, <1>1, <1>6

(* A node is shown if neither it nor a node it is inside of is hidden.     *)
LEMMA ShownFromAbove ==
  ASSUME NEW page, IsTree(page), NEW n \in 1..Len(page)
  PROVE  Shown(page)[n] <=>
           \A m \in 1..Len(page) : m = n \/ m \in Ancestors(page)[n] =>
             page[m].kind \notin Noise /\ (page[m].kind = "head" => ~HasBody(page))
<1>0. PICK above : above = Ancestors(page)
  OBVIOUS
<1>1. PICK N \in Nat : N = Len(page)
  BY DEF IsTree
<1>2. /\ above[0] = {}
      /\ \A k \in 1..N : /\ page[k].parent \in 0..(k - 1)
                         /\ above[k] = {page[k].parent} \cup above[page[k].parent]
  BY <1>0, <1>1, AncestorsUnfold
<1> DEFINE Plain(m) == page[m].kind \notin Noise /\ (page[m].kind = "head" => ~HasBody(page))
           Clear(k) == \A m \in 1..N : m = k \/ m \in above[k] => Plain(m)
           Eq(s) == s = [k \in 0..Len(page) |->
                           \/ k = 0
                           \/ /\ page[k].kind \notin Noise
                              /\ page[k].kind = "head" => ~HasBody(page)
                              /\ s[page[k].parent]]
<1>3. ASSUME NEW k \in 1..N
      PROVE  Clear(k) <=> Plain(k) /\ (page[k].parent = 0 \/ Clear(page[k].parent))
  <2>1. PICK q : q = page[k].parent
    OBVIOUS
  <2>2. q \in 0..(k - 1) /\ above[k] = {q} \cup above[q]
    BY <1>2, <2>1
  <2>3. q = 0 => above[q] = {}
    BY <1>2
  <2>4. Clear(k) <=> Plain(k) /\ (q = 0 \/ Clear(q))
    <3> HIDE DEF Plain
    <3>1. CASE q = 0
      <4>1. above[k] = {0} /\ ~(0 \in 1..N)
        BY <2>2, <2>3, <3>1
      <4> QED BY <4>1, <3>1
    <3>2. CASE q # 0
      <4>1. q \in 1..N
        BY <2>2, <3>2
      <4> QED BY <4>1, <3>2, <2>2
    <3> QED BY <3>1, <3>2
  <2> QED BY <2>1, <2>4
<1> HIDE DEF Clear, Plain
<1>4. \E s : Eq(s)
  <2> DEFINE s == [k \in 0..N |-> k = 0 \/ Clear(k)]
  <2>1. ASSUME NEW k \in 0..N PROVE s[k] <=> k = 0 \/ (Plain(k) /\ s[page[k].parent])
    <3>1. CASE k = 0
      BY <3>1
    <3>2. CASE k # 0
      <4>1. k \in 1..N /\ page[k].parent \in 0..N
        BY <1>2, <3>2
      <4>2. s[page[k].parent] <=> page[k].parent = 0 \/ Clear(page[k].parent)
        BY <4>1
      <4> QED BY <4>1, <4>2, <1>3, <3>2
    <3> QED BY <3>1, <3>2
  <2>2. s = [k \in 0..N |-> s[k]] /\ \A k \in 0..N : s[k] \in BOOLEAN
    OBVIOUS
  <2> HIDE DEF s
  <2>3. Eq(s)
    <3> DEFINE r(k) == \/ k = 0
                       \/ /\ page[k].kind \notin Noise
                          /\ page[k].kind = "head" => ~HasBody(page)
                          /\ s[page[k].parent]
    <3>1. \A k \in 0..Len(page) : s[k] <=> r(k)
      BY <1>1, <2>1 DEF Plain
    <3>2. \A k \in 0..Len(page) : s[k] = r(k)
      <4>1. \A k : r(k) \in BOOLEAN
        OBVIOUS
      <4> HIDE DEF r
      <4> QED BY <1>1, <2>2, <3>1, <4>1
    <3>3. s = [k \in 0..Len(page) |-> s[k]]
      BY <1>1, <2>2
    <3> HIDE DEF r
    <3>4. s = [k \in 0..Len(page) |-> r(k)]
      BY <3>2, <3>3
    <3> QED BY <3>4 DEF r
  <2> QED BY <2>3
<1>5. Shown(page) = CHOOSE s : Eq(s)
  BY DEF Shown
<1>6. PICK s : s = Shown(page) /\ Eq(s)
  BY <1>4, <1>5
<1>7. \A k \in 0..N : s[k] <=> k = 0 \/ (Plain(k) /\ s[page[k].parent])
  BY <1>1, <1>6 DEF Plain
<1> DEFINE T == {m \in Nat : \A k \in 0..N : k <= m => (s[k] <=> k = 0 \/ Clear(k))}
<1>8. 0 \in T
  BY <1>7
<1>9. ASSUME NEW m \in Nat, m \in T PROVE m + 1 \in T
  <2> SUFFICES ASSUME m + 1 \in 1..N PROVE s[m + 1] <=> Clear(m + 1)
    BY <1>9
  <2>1. PICK q : q = page[m + 1].parent
    OBVIOUS
  <2>2. q \in 0..m /\ q \in 0..N
    BY <1>2, <2>1
  <2>3. s[q] <=> q = 0 \/ Clear(q)
    BY <1>9, <2>2
  <2>4. s[m + 1] <=> Plain(m + 1) /\ s[q]
    BY <1>7, <2>1
  <2> QED BY <2>1, <2>3, <2>4, <1>3
<1> HIDE DEF T
<1>10. N \in T
  BY <1>8, <1>9, SetInduction
<1>11. s[n] <=> Clear(n)
  <2>1. n \in 1..N /\ n \in 0..N /\ n <= N /\ n # 0
    BY <1>1
  <2> QED BY <2>1, <1>10 DEF T
<1> QED BY <1>11, <1>6, <1>0, <1>1 DEF Clear, Plain

LEMMA RangeOfConcat ==
  ASSUME NEW S, NEW a \in Seq(S), NEW b \in Seq(S)
  PROVE  a \o b \in Seq(S) /\ Range(a \o b) = Range(a) \cup Range(b)
<1>1. a \o b \in Seq(S) /\ Len(a \o b) = Len(a) + Len(b)
  OBVIOUS
<1>2. \A i \in 1..(Len(a) + Len(b)) :
        (a \o b)[i] = IF i <= Len(a) THEN a[i] ELSE b[i - Len(a)]
  OBVIOUS
<1>3. PICK c : c = a \o b
  OBVIOUS
<1>4. /\ DOMAIN a = 1..Len(a) /\ DOMAIN b = 1..Len(b) /\ DOMAIN c = 1..(Len(a) + Len(b))
      /\ Len(a) \in Nat /\ Len(b) \in Nat
  BY <1>1, <1>3
<1>5. \A i \in DOMAIN a : i \in DOMAIN c /\ c[i] = a[i]
  BY <1>2, <1>3, <1>4
<1>6. \A i \in DOMAIN b : i + Len(a) \in DOMAIN c /\ c[i + Len(a)] = b[i]
  <2> SUFFICES ASSUME NEW i \in DOMAIN b
               PROVE  i + Len(a) \in DOMAIN c /\ c[i + Len(a)] = b[i]
    OBVIOUS
  <2>1. i \in 1..Len(b) /\ i + Len(a) \in 1..(Len(a) + Len(b)) /\ ~(i + Len(a) <= Len(a))
        /\ (i + Len(a)) - Len(a) = i
    BY <1>4
  <2> QED BY <2>1, <1>2, <1>3, <1>4
<1>7. \A i \in DOMAIN c : c[i] \in Range(a) \cup Range(b)
  <2> SUFFICES ASSUME NEW i \in DOMAIN c PROVE c[i] \in Range(a) \cup Range(b)
    OBVIOUS
  <2>1. CASE i <= Len(a)
    BY <2>1, <1>2, <1>3, <1>4 DEF Range
  <2>2. CASE ~(i <= Len(a))
    <3>1. i - Len(a) \in 1..Len(b) /\ c[i] = b[i - Len(a)]
      BY <2>2, <1>2, <1>3, <1>4
    <3> QED BY <3>1, <1>4 DEF Range
  <2> QED BY <2>1, <2>2
<1>8. Range(c) = Range(a) \cup Range(b)
  BY <1>5, <1>6, <1>7 DEF Range
<1> QED BY <1>1, <1>3, <1>8

(* A concatenation of texts holds the words of each, and no others.        *)
LEMMA FlattenHolds ==
  ASSUME NEW S, NEW N \in Nat, NEW seqs, Len(seqs) = N, N = 0 => seqs = <<>>,
         \A i \in 1..N : seqs[i] \in Seq(S)
  PROVE  FlattenSeq(seqs) \in Seq(S)
         /\ Range(FlattenSeq(seqs)) = UNION {Range(seqs[i]) : i \in 1..N}
<1> DEFINE Table(g, m) == g = [i \in 1..m |-> IF i = 1 THEN seqs[i] ELSE g[i - 1] \o seqs[i]]
           Upto(m) == UNION {Range(seqs[i]) : i \in 1..m}
           T == {m \in Nat : m <= N => \E g : Table(g, m)}
<1>1. 0 \in T
  <2> DEFINE g == [i \in 1..0 |-> {}]
  <2>1. g = [i \in 1..0 |-> IF i = 1 THEN seqs[i] ELSE g[i - 1] \o seqs[i]]
    OBVIOUS
  <2> HIDE DEF g
  <2> QED BY <2>1
<1>2. ASSUME NEW m \in Nat, m \in T PROVE m + 1 \in T
  <2> HIDE DEF Table
  <2> SUFFICES ASSUME m + 1 <= N PROVE \E g : Table(g, m + 1)
    OBVIOUS
  <2>1. PICK g : Table(g, m)
    BY <1>2
  <2> USE DEF Table
  <2>2. \A i \in 1..m : g[i] = IF i = 1 THEN seqs[i] ELSE g[i - 1] \o seqs[i]
    BY <2>1
  <2> DEFINE h == [i \in 1..(m + 1) |->
                     IF i = m + 1 THEN (IF i = 1 THEN seqs[i] ELSE g[i - 1] \o seqs[i])
                     ELSE g[i]]
  <2>3. ASSUME NEW i \in 1..(m + 1)
        PROVE  h[i] = IF i = 1 THEN seqs[i] ELSE h[i - 1] \o seqs[i]
    <3>1. i # 1 => i - 1 \in 1..(m + 1) /\ i - 1 # m + 1
      OBVIOUS
    <3>2. i # 1 => h[i - 1] = g[i - 1]
      BY <3>1
    <3>3. CASE i = m + 1
      <4>1. h[i] = IF i = 1 THEN seqs[i] ELSE g[i - 1] \o seqs[i]
        BY <3>3
      <4> HIDE DEF h
      <4> QED BY <4>1, <3>2
    <3>4. CASE i # m + 1
      <4>1. h[i] = g[i] /\ i \in 1..m
        BY <3>4
      <4> HIDE DEF h
      <4> QED BY <4>1, <3>2, <2>2
    <3> QED BY <3>3, <3>4
  <2>4. h = [i \in 1..(m + 1) |-> h[i]]
    OBVIOUS
  <2> HIDE DEF h
  <2>5. Table(h, m + 1)
    BY <2>3, <2>4
  <2> QED BY <2>5
<1> HIDE DEF T
<1>3. N \in T
  BY <1>1, <1>2, SetInduction
<1>4. CASE N = 0
  <2>1. FlattenSeq(seqs) = <<>>
    BY <1>4 DEF FlattenSeq
  <2>2. \A s : s = <<>> => s \in Seq(S) /\ Range(s) = {}
    BY DEF Range
  <2> QED BY <1>4, <2>1, <2>2
<1>5. CASE N # 0
  <2>1. \E g : Table(g, Len(seqs))
    <3> HIDE DEF Table
    <3> QED BY <1>3 DEF T
  <2>2. FlattenSeq(seqs) = (CHOOSE g : Table(g, Len(seqs)))[Len(seqs)]
    BY <1>5 DEF FlattenSeq
  <2>3. PICK g : Table(g, N) /\ FlattenSeq(seqs) = g[N]
    BY <2>1, <2>2
  <2>4. \A i \in 1..N : g[i] = IF i = 1 THEN seqs[i] ELSE g[i - 1] \o seqs[i]
    BY <2>3
  <2> DEFINE U == {m \in Nat : m \in 1..N => g[m] \in Seq(S) /\ Range(g[m]) = Upto(m)}
  <2>5. 0 \in U
    OBVIOUS
  <2>6. ASSUME NEW m \in Nat, m \in U PROVE m + 1 \in U
    <3> SUFFICES ASSUME m + 1 \in 1..N
                 PROVE  g[m + 1] \in Seq(S) /\ Range(g[m + 1]) = Upto(m + 1)
      OBVIOUS
    <3>1. Upto(m + 1) = Upto(m) \cup Range(seqs[m + 1])
      <4>1. \A i : i \in 1..(m + 1) <=> i \in 1..m \/ i = m + 1
        OBVIOUS
      <4> QED BY <4>1
    <3>2. CASE m = 0
      <4>1. Upto(m) = {}
        BY <3>2
      <4> QED BY <4>1, <3>1, <3>2, <2>4
    <3>3. CASE m # 0
      <4>1. g[m] \in Seq(S) /\ Range(g[m]) = Upto(m) /\ seqs[m + 1] \in Seq(S)
        BY <3>3, <2>6
      <4>2. g[m + 1] = g[m] \o seqs[m + 1]
        <5>1. m + 1 # 1 /\ (m + 1) - 1 = m
          BY <3>3
        <5> QED BY <5>1, <2>4
      <4> HIDE DEF Upto
      <4>3. /\ g[m] \o seqs[m + 1] \in Seq(S)
            /\ Range(g[m] \o seqs[m + 1]) = Range(g[m]) \cup Range(seqs[m + 1])
        BY <4>1, RangeOfConcat
      <4> QED BY <4>1, <4>2, <4>3, <3>1
    <3> QED BY <3>2, <3>3
  <2> HIDE DEF U
  <2>7. N \in U
    BY <2>5, <2>6, SetInduction
  <2>8. N \in 1..N
    BY <1>5
  <2> QED BY <2>3, <2>7, <2>8 DEF U
<1> QED BY <1>4, <1>5

(* The words that extract_text keeps of a page are those that are shown:   *)
(* what it walks is the body, and what it skips is noise at any depth.     *)
LEMMA ExtractShown ==
  ASSUME NEW page \in Pages
  PROVE  LET words == UNION {Range(page[n].words) : n \in DOMAIN page}
             shown == {m \in DOMAIN page : page[m].kind = "text" /\ Shown(page)[m]}
         IN  /\ extract_text(page) \in Seq(words)
             /\ Range(extract_text(page)) = UNION {Range(page[n].words) : n \in shown}
<1> DEFINE words == UNION {Range(page[n].words) : n \in DOMAIN page}
           shown == {m \in DOMAIN page : page[m].kind = "text" /\ Shown(page)[m]}
<1>1. IsTree(page)
  BY PageAssumption DEF IsTree
<1>2. PICK N \in Nat : N = Len(page) /\ DOMAIN page = 1..N /\ N >= 1
  <2>1. Len(page) \in Nat /\ DOMAIN page = 1..Len(page) /\ Len(page) >= 1
    BY <1>1 DEF IsTree
  <2> QED BY <2>1
<1>3. PICK above : above = Ancestors(page)
  OBVIOUS
<1>4. \A n \in 1..N : (n # 1 => 1 \in above[n]) /\ above[n] \subseteq 0..N
  BY <1>1, <1>2, <1>3, RootAboveAll
<1>5. PICK root : root = TextRoot(page)
  OBVIOUS
<1> DEFINE Kept(n) == /\ n \in Descendants(page, root) \cup {root}
                      /\ n \notin NoiseNodes(page)
                      /\ page[n].kind = "text"
           seqs == [n \in DOMAIN page |-> IF Kept(n) THEN page[n].words ELSE <<>>]
<1>6. \A n \in 1..N : n \in Descendants(page, root) <=> root \in above[n]
  BY <1>2, <1>3 DEF Descendants
<1>7. \A n \in 1..N : n \in NoiseNodes(page) <=>
        \E m \in 1..N : page[m].kind \in Noise /\ (m = n \/ m \in above[n])
  BY <1>2, <1>3 DEF NoiseNodes, Descendants
<1>8. \A n \in 1..N : Shown(page)[n] <=>
        \A m \in 1..N : m = n \/ m \in above[n] =>
           page[m].kind \notin Noise /\ (page[m].kind = "head" => ~HasBody(page))
  BY <1>1, <1>2, <1>3, ShownFromAbove
<1>9. ASSUME NEW n \in 1..N, page[n].kind = "text", page[n].words # <<>>
      PROVE  Kept(n) <=> Shown(page)[n]
  <2>1. CASE HasBody(page)
    <3>1. n \in Descendants(page, root)
            <=> \A h \in 1..N : page[h].kind = "head" => h \notin above[n]
      <4>1. n \in Descendants(page, TextRoot(page))
              <=> \A h \in DOMAIN page : page[h].kind = "head" => n \notin Descendants(page, h)
        BY <1>2, <1>9, <2>1, PageAssumption
      <4>2. \A h : n \in Descendants(page, h) <=> h \in above[n]
        BY <1>2, <1>3 DEF Descendants
      <4> QED BY <4>1, <4>2, <1>2, <1>5
    <3>2. n # root
      <4>1. root = Min({m \in DOMAIN page : page[m].kind = "body"})
        BY <2>1, <1>5 DEF TextRoot
      <4> DEFINE bodies == {m \in DOMAIN page : page[m].kind = "body"}
      <4>2. bodies \subseteq Nat /\ bodies # {}
        BY <1>2, <2>1 DEF HasBody
      <4>3. \E m \in bodies : \A k \in bodies : m <= k
        <5> HIDE DEF bodies
        <5> QED BY <4>2, LeastNumber
      <4>4. root \in bodies
        BY <4>1, <4>3 DEF Min
      <4> QED BY <4>4, <1>9
    <3> QED BY <3>1, <3>2, <1>7, <1>8, <1>9, <2>1
  <2>2. CASE ~HasBody(page)
    <3>1. root = 1
      BY <2>2, <1>5 DEF TextRoot
    <3>2. n \in Descendants(page, root) \cup {root}
      BY <3>1, <1>4, <1>6
    <3> QED BY <3>2, <1>7, <1>8, <1>9, <2>2
  <2> QED BY <2>1, <2>2
<1> HIDE DEF Kept
<1>10. extract_text(page) = FlattenSeq(seqs)
  BY <1>5 DEF extract_text, Kept
<1>11. /\ seqs = [n \in 1..N |-> seqs[n]]
       /\ \A n \in 1..N : seqs[n] = IF Kept(n) THEN page[n].words ELSE <<>>
  BY <1>2
<1>12. \A n \in 1..N : /\ Range(page[n].words) \subseteq words
                        /\ page[n].words \in Seq(Range(page[n].words))
  BY <1>2, PageAssumption
<1> HIDE DEF seqs, words
<1>13. \A n \in 1..N : /\ seqs[n] \in Seq(words)
                        /\ Range(seqs[n]) = IF Kept(n) THEN Range(page[n].words) ELSE {}
  <2> SUFFICES ASSUME NEW n \in 1..N
               PROVE  seqs[n] \in Seq(words)
                      /\ Range(seqs[n]) = IF Kept(n) THEN Range(page[n].words) ELSE {}
    OBVIOUS
  <2>1. CASE Kept(n)
    <3>1. PICK w : w = page[n].words /\ w = seqs[n]
      BY <2>1, <1>11
    <3>2. w \in Seq(Range(w)) /\ Range(w) \subseteq words
      BY <1>12, <3>1
    <3>3. w \in Seq(words)
      <4> PICK R : R = Range(w)
        OBVIOUS
      <4> QED BY <3>2
    <3> QED BY <2>1, <3>1, <3>3
  <2>2. CASE ~Kept(n)
    <3>1. seqs[n] = <<>>
      BY <2>2, <1>11
    <3>2. \A s : s = <<>> => s \in Seq(words) /\ Range(s) = {}
      BY DEF Range
    <3> QED BY <2>2, <3>1, <3>2
  <2> QED BY <2>1, <2>2
<1>14. Len(seqs) = N /\ (N = 0 => seqs = <<>>)
  BY <1>2, <1>11, LengthOf
<1>15. FlattenSeq(seqs) \in Seq(words)
       /\ Range(FlattenSeq(seqs)) = UNION {Range(seqs[n]) : n \in 1..N}
  <2>1. \A n \in 1..N : seqs[n] \in Seq(words)
    BY <1>13
  <2> PICK S, f : S = words /\ f = seqs
    OBVIOUS
  <2>2. FlattenSeq(f) \in Seq(S) /\ Range(FlattenSeq(f)) = UNION {Range(f[n]) : n \in 1..N}
    BY <2>1, <1>14, FlattenHolds
  <2> QED BY <2>2
<1>16. UNION {Range(seqs[n]) : n \in 1..N} = UNION {Range(page[n].words) : n \in shown}
  <2>1. ASSUME NEW n \in 1..N, NEW x \in Range(seqs[n])
        PROVE  n \in shown /\ x \in Range(page[n].words)
    <3>1. Kept(n) /\ x \in Range(page[n].words)
      BY <1>13, <2>1
    <3>2. page[n].words # <<>>
      <4>1. \A s : s = <<>> => Range(s) = {}
        BY DEF Range
      <4> QED BY <4>1, <3>1
    <3> QED BY <3>1, <3>2, <1>9, <1>2 DEF Kept
  <2>2. ASSUME NEW n \in shown, NEW x \in Range(page[n].words)
        PROVE  n \in 1..N /\ x \in Range(seqs[n])
    <3>1. page[n].words # <<>>
      <4>1. \A s : s = <<>> => Range(s) = {}
        BY DEF Range
      <4> QED BY <4>1, <2>2
    <3>2. n \in 1..N /\ page[n].kind = "text" /\ Shown(page)[n]
      BY <1>2
    <3> QED BY <3>1, <3>2, <1>9, <1>13
  <2> HIDE DEF shown
  <2>3. \A x : (\E n \in 1..N : x \in Range(seqs[n]))
                 <=> (\E n \in shown : x \in Range(page[n].words))
    BY <2>1, <2>2
  <2> QED BY <2>3
<1> QED BY <1>10, <1>15, <1>16 DEF words

-----------------------------------------------------------------------------
(* The chunker's windows, by the words they start and end at.              *)
(* The quotient, by the multiples it lies between.                         *)
LEMMA Quotient ==
  ASSUME NEW a \in Nat, NEW b \in Nat, b >= 1
  PROVE  \E q \in Nat : q = a \div b /\ b * q <= a /\ a < b * q + b
<1>1. a \div b \in Nat /\ a = b * (a \div b) + (a % b) /\ a % b \in 0..(b - 1)
  BY SMTT(30)
<1>2. PICK q : q = a \div b
  OBVIOUS
<1>3. PICK p \in Nat : p = b * q
  BY <1>1, <1>2
<1> QED BY <1>1, <1>2, <1>3

(* A larger factor gives no smaller product.                               *)
LEMMA TimesMonotone ==
  ASSUME NEW a \in Nat, NEW b \in Nat, NEW s \in Nat, a <= b
  PROVE  s * a \in Nat /\ s * b \in Nat /\ s * a <= s * b
<1>1. PICK c \in Nat : b = a + c
  <2>1. b - a \in Nat /\ b = a + (b - a)
    OBVIOUS
  <2> QED BY <2>1
<1>2. s * b = s * a + s * c /\ s * a \in Nat /\ s * c \in Nat
  BY <1>1
<1>3. PICK x, y, z \in Nat : x = s * a /\ y = s * c /\ z = s * b
  BY <1>2
<1> QED BY <1>2, <1>3

(* The windows leave no word out and add none: the one whose stride a word *)
(* is in holds it, and the last one reaches the end of the text.           *)
LEMMA WindowsCover ==
  ASSUME NEW S, NEW text \in Seq(S)
  PROVE  UNION {Range(Pieces(text)[k]) : k \in DOMAIN Pieces(text)} = Range(text)
<1>1. CASE text = <<>>
  <2>1. DOMAIN Pieces(text) = {} /\ Range(text) = {}
    BY <1>1 DEF Pieces, Range
  <2> QED BY <2>1
<1>2. CASE text # <<>>
  <2> DEFINE stride == MaxCharacters - Overlap
             count == IF Len(text) <= MaxCharacters THEN 1
                      ELSE 1 + ((Len(text) - MaxCharacters + stride - 1) \div stride)
             end(k) == (k - 1) * stride + MaxCharacters
             last(k) == IF end(k) < Len(text) THEN end(k) ELSE Len(text)
  <2>1. PICK s \in Nat, M \in Nat, L \in Nat :
          s = stride /\ M = MaxCharacters /\ L = Len(text) /\ s >= 1 /\ s <= M /\ L >= 1
    <3>1. stride \in Nat /\ MaxCharacters \in Nat /\ Len(text) \in Nat
          /\ stride >= 1 /\ stride <= MaxCharacters /\ Len(text) >= 1
      BY <1>2, SplitterAssumption
    <3> QED BY <3>1
  <2>2. \E c \in Nat : c = count /\ c >= 1 /\ L <= s * (c - 1) + M
    <3>1. CASE L <= M
      <4>1. count = 1 /\ s * (1 - 1) = 0
        BY <3>1, <2>1
      <4> QED BY <4>1, <3>1
    <3>2. CASE ~(L <= M)
      <4>1. PICK a \in Nat : a = L - M + s - 1
        BY <2>1, <3>2
      <4>2. PICK q \in Nat : q = a \div s /\ s * q <= a /\ a < s * q + s
        BY <2>1, Quotient
      <4>3. count = 1 + q
        <5>1. count = 1 + ((L - M + s - 1) \div s)
          BY <2>1, <3>2
        <5> QED BY <5>1, <4>1, <4>2
      <4>4. PICK p \in Int : p = s * q
        BY <2>1
      <4>5. (1 + q) - 1 = q
        OBVIOUS
      <4>6. L <= p + M
        BY <4>1, <4>2, <4>4
      <4> QED BY <4>3, <4>4, <4>5, <4>6
    <3> QED BY <3>1, <3>2
  <2>3. PICK c \in Nat : c = count /\ c >= 1 /\ L <= s * (c - 1) + M
    BY <2>2
  <2>4. Pieces(text) = [k \in 1..count |-> SubSeq(text, (k - 1) * stride + 1, last(k))]
    BY <1>2 DEF Pieces, Windows
  <2>5. PICK pieces : pieces = Pieces(text)
    OBVIOUS
  <2>6. DOMAIN pieces = 1..c /\ \A k \in 1..c : pieces[k] = SubSeq(text, (k - 1) * s + 1, last(k))
    <3> HIDE DEF count, stride, last
    <3> QED BY <2>1, <2>3, <2>4, <2>5
  <2>7. ASSUME NEW k \in 1..c
        PROVE  \E z \in Nat : z = s * (k - 1) /\ last(k) = IF z + M < L THEN z + M ELSE L
    <3>1. PICK z \in Nat : z = s * (k - 1)
      BY <2>1
    <3>2. (k - 1) * stride = z
      <4>1. PICK j \in Nat : j = k - 1
        OBVIOUS
      <4>2. j * s = s * j
        BY <2>1
      <4> QED BY <4>1, <4>2, <3>1, <2>1
    <3> HIDE DEF stride
    <3> QED BY <3>1, <3>2, <2>1
  <2> HIDE DEF count, stride, last, end
  <2>8. ASSUME NEW k \in 1..c, NEW z \in Nat, z = s * (k - 1),
               last(k) = IF z + M < L THEN z + M ELSE L
        PROVE  /\ Range(pieces[k]) \subseteq Range(text)
               /\ \A i \in 1..L : z + 1 <= i /\ i <= z + M => text[i] \in Range(pieces[k])
    <3>1. PICK e \in Nat : e = last(k) /\ e <= L /\ (e = z + M \/ e = L)
      BY <2>1, <2>8
    <3>2. (k - 1) * s = z
      BY <2>8, <2>1
    <3>3. pieces[k] = SubSeq(text, z + 1, e)
      BY <2>6, <3>1, <3>2
    <3>4. pieces[k] = [i \in 1..(e - z) |-> text[i + z]]
      <4>1. SubSeq(text, z + 1, e) = [i \in 1..(1 + e - (z + 1)) |-> text[i + (z + 1) - 1]]
        OBVIOUS
      <4>2. 1 + e - (z + 1) = e - z
        OBVIOUS
      <4>3. \A i \in 1..(e - z) : i + (z + 1) - 1 = i + z
        OBVIOUS
      <4> QED BY <3>3, <4>1, <4>2, <4>3
    <3>5. \A i \in 1..(e - z) : i + z \in 1..L
      BY <3>1, <2>1
    <3>6. DOMAIN text = 1..L
      BY <2>1
    <3>7. Range(pieces[k]) \subseteq Range(text)
      BY <3>4, <3>5, <3>6 DEF Range
    <3>8. ASSUME NEW i \in 1..L, z + 1 <= i, i <= z + M PROVE text[i] \in Range(pieces[k])
      <4>1. PICK n \in 1..(e - z) : n + z = i
        <5>1. i - z \in 1..(e - z) /\ (i - z) + z = i
          BY <3>1, <3>8, <2>1
        <5> QED BY <5>1
      <4> QED BY <4>1, <3>4 DEF Range
    <3> QED BY <3>7, <3>8
  <2>9. ASSUME NEW i \in 1..L
        PROVE  \E k \in 1..c : \E z \in Nat : /\ z = s * (k - 1) /\ z + 1 <= i /\ i <= z + M
                                              /\ last(k) = IF z + M < L THEN z + M ELSE L
    <3>1. PICK b \in Nat : b = i - 1
      BY <2>1
    <3>2. PICK q \in Nat : s * q <= b /\ b < s * q + s
      BY <2>1, <3>1, Quotient
    <3>3. CASE q + 1 <= c
      <4>1. q + 1 \in 1..c /\ (q + 1) - 1 = q
        BY <3>3, <2>3
      <4>2. PICK z \in Nat : z = s * ((q + 1) - 1) /\ last(q + 1) = IF z + M < L THEN z + M ELSE L
        BY <4>1, <2>7
      <4>3. z = s * q
        BY <4>1, <4>2
      <4>4. z + 1 <= i /\ i <= z + M
        BY <4>3, <3>1, <3>2, <2>1
      <4> QED BY <4>1, <4>2, <4>4
    <3>4. CASE ~(q + 1 <= c)
      <4>1. c \in 1..c
        BY <2>3
      <4>2. PICK z \in Nat : z = s * (c - 1) /\ last(c) = IF z + M < L THEN z + M ELSE L
        BY <4>1, <2>7
      <4>3. c - 1 \in Nat /\ c - 1 <= q
        BY <3>4, <2>3
      <4>4. s * (c - 1) <= s * q /\ s * q \in Nat
        BY <4>3, <2>1, TimesMonotone
      <4>5. L <= z + M
        BY <4>2, <2>3
      <4>6. z <= b
        <5>1. PICK w \in Nat : w = s * q
          BY <4>4
        <5> QED BY <5>1, <4>2, <4>4, <3>2
      <4>7. z + 1 <= i /\ i <= z + M
        BY <4>5, <4>6, <3>1, <2>1
      <4> QED BY <4>1, <4>2, <4>7
    <3> QED BY <3>3, <3>4
  <2>10. ASSUME NEW k \in 1..c PROVE Range(pieces[k]) \subseteq Range(text)
    <3>1. PICK z \in Nat : z = s * (k - 1) /\ last(k) = IF z + M < L THEN z + M ELSE L
      BY <2>7
    <3> QED BY <3>1, <2>8
  <2>11. ASSUME NEW i \in 1..L PROVE \E k \in 1..c : text[i] \in Range(pieces[k])
    <3>1. PICK k \in 1..c : \E z \in Nat :
             /\ z = s * (k - 1) /\ z + 1 <= i /\ i <= z + M
             /\ last(k) = IF z + M < L THEN z + M ELSE L
      BY <2>9
    <3>2. PICK z \in Nat : /\ z = s * (k - 1) /\ z + 1 <= i /\ i <= z + M
                           /\ last(k) = IF z + M < L THEN z + M ELSE L
      BY <3>1
    <3> QED BY <3>2, <2>8
  <2>12. DOMAIN text = 1..L
    BY <2>1
  <2>13. \A x : (\E k \in 1..c : x \in Range(pieces[k])) <=> x \in Range(text)
    <3>1. \A x \in Range(text) : \E i \in 1..L : x = text[i]
      BY <2>12 DEF Range
    <3> QED BY <3>1, <2>10, <2>11
  <2>14. UNION {Range(pieces[k]) : k \in 1..c} = Range(text)
    BY <2>13
  <2> QED BY <2>5, <2>6, <2>14
<1> QED BY <1>1, <1>2

-----------------------------------------------------------------------------
(* The chunks of every document are the pieces of its source's text.       *)
CutFrom(source, chunks) ==
  /\ source \in Sources
  /\ DOMAIN chunks = DOMAIN Pieces(TextOf(source))
  /\ \A k \in DOMAIN chunks : chunks[k].text = Pieces(TextOf(source))[k]

TextInv == \A d \in DOMAIN log : CutFrom(log[d].source, ChunksOf(d))

(* A step that adds no document and changes no source.                     *)
LEMMA SameTexts ==
  ASSUME TextInv, DOMAIN log' = DOMAIN log,
         \A d \in DOMAIN log : log'[d].source = log[d].source /\ log'[d].chunks = log[d].chunks
  PROVE  TextInv'
<1> SUFFICES ASSUME NEW d \in DOMAIN log PROVE CutFrom(log'[d].source, log'[d].chunks)
  BY DEF TextInv, CutFrom, ChunksOf
<1> QED BY DEF TextInv, ChunksOf

LEMMA TextInvStep == IngestInv /\ TextInv /\ [IngestNext]_allVars => TextInv'
<1> SUFFICES ASSUME IngestInv, TextInv, [IngestNext]_allVars PROVE TextInv'
  OBVIOUS
<1>1. ASSUME UNCHANGED log PROVE TextInv'
  BY <1>1, SameTexts
<1>2. ASSUME NEW j \in Jobs, Fetched(j) PROVE TextInv'
  <2>1. PICK t, d, cs, source :
          /\ t = job[j].tenant /\ source = job[j].source
          /\ d = NewDocument[t][documents[t] + 1] /\ cs = chunk(t, TextOf(source))
    OBVIOUS
  <2>2. /\ DOMAIN log' = DOMAIN log \cup {d}
        /\ log'[d].source = source /\ log'[d].chunks = cs
        /\ \A x \in DOMAIN log : x # d => log'[x] = log[x]
    BY <1>2, <2>1 DEF Fetched
  <2>3. t \in Tenants /\ source \in Sources
    BY <1>2, <2>1 DEF Fetched, IngestInv, JobsInv, JobInv
  <2>4. CutFrom(source, cs)
    <3>1. PICK text : text = TextOf(source) /\ Len(text) \in Nat
      BY <2>3, TextAssumption
    <3>2. /\ DOMAIN cs = 1..Len(Pieces(text))
          /\ \A k \in 1..Len(Pieces(text)) : cs[k].text = Pieces(text)[k]
      BY <2>1, <2>3, <3>1, ChunkShape
    <3>3. DOMAIN Pieces(text) = 1..Len(Pieces(text))
      BY <3>1, PiecesShape
    <3> QED BY <2>3, <3>1, <3>2, <3>3 DEF CutFrom
  <2>5. ASSUME NEW x \in DOMAIN log' PROVE CutFrom(log'[x].source, log'[x].chunks)
    BY <2>2, <2>4, <2>5 DEF TextInv, ChunksOf
  <2> QED BY <2>5 DEF TextInv, CutFrom, ChunksOf
<1>3. ASSUME NEW j \in Jobs, Store(j) PROVE TextInv'
  <2>1. PICK x : x = job[j].document
    OBVIOUS
  <2>2. log' = [log EXCEPT ![x].stored = @ + 1]
    BY <1>3, <2>1 DEF Store
  <2>3. ASSUME NEW e \in DOMAIN log
        PROVE  log'[e].source = log[e].source /\ log'[e].chunks = log[e].chunks
    <3>1. DOMAIN log[e] = {"tenant", "source", "chunks", "stored", "purged"}
      BY DEF IngestInv, LogInv, LogEntry
    <3> QED BY <2>2, <3>1
  <2>4. DOMAIN log' = DOMAIN log
    BY <2>2
  <2> QED BY <2>3, <2>4, SameTexts
<1>4. ASSUME NEW t \in Tenants, NEW d \in DocumentIds, Purge(t, d) PROVE TextInv'
  <2>1. /\ DOMAIN log' = DOMAIN log
        /\ \A e \in DOMAIN log :
             log'[e] = IF e = d /\ log[e].tenant = t THEN [log[e] EXCEPT !.purged = log[e].stored]
                       ELSE log[e]
    BY <1>4 DEF Purge
  <2>2. ASSUME NEW e \in DOMAIN log
        PROVE  log'[e].source = log[e].source /\ log'[e].chunks = log[e].chunks
    <3>1. DOMAIN log[e] = {"tenant", "source", "chunks", "stored", "purged"}
      BY DEF IngestInv, LogInv, LogEntry
    <3>2. CASE e = d /\ log[e].tenant = t
      BY <2>1, <3>1, <3>2
    <3>3. CASE ~(e = d /\ log[e].tenant = t)
      BY <2>1, <3>3
    <3> QED BY <3>2, <3>3
  <2> QED BY <2>1, <2>2, SameTexts
<1>5. ASSUME NEW j \in Jobs, FetchFails(j) \/ StorePanics(j) \/ Finish(j) PROVE UNCHANGED log
  BY <1>5 DEF FetchFails, StorePanics, Finish
<1>6. ASSUME NEW j \in Jobs, NEW t \in Tenants, NEW source \in Sources, fetch(j, t, source)
      PROVE  UNCHANGED log
  BY <1>6 DEF fetch
<1>7. ASSUME NEW t \in Tenants, Direct(t) PROVE UNCHANGED log
  BY <1>7 DEF Direct, ingestVars
<1>8. CASE UNCHANGED allVars
  BY <1>1, <1>8 DEF allVars
<1> QED
  BY <1>1, <1>2, <1>3, <1>4, <1>5, <1>6, <1>7, <1>8 DEF IngestNext

LEMMA TextInvAlways == IngestSpec => []TextInv
<1>1. IngestInit => TextInv
  BY DEF IngestInit, NoDocument, TextInv
<1> QED BY <1>1, TextInvStep, IngestInvAlways, PTL DEF IngestSpec

(* The chunks of an ingested web page carry, together, every word that the *)
(* page shows and no word of a script, a style sheet or a <noscript>,      *)
(* however deep they are nested (web.rs:7-10, chunker.rs:73-88).           *)
THEOREM OnlyVisibleText == IngestSpec => []VisibleTextOnly
<1>1. ASSUME TextInv PROVE VisibleTextOnly
  <2> DEFINE Words(page) == UNION {Range(page[n].words) :
                                     n \in {m \in DOMAIN page :
                                              page[m].kind = "text" /\ Shown(page)[m]}}
             Carried(chunks) == UNION {Range(chunks[k].text) : k \in DOMAIN chunks}
  <2> SUFFICES ASSUME NEW d \in DOMAIN log, log[d].source.kind = "Web"
               PROVE  Carried(ChunksOf(d)) = Words(log[d].source.page)
    BY DEF VisibleTextOnly
  <2>1. PICK source, cs : source = log[d].source /\ cs = ChunksOf(d)
    OBVIOUS
  <2>2. CutFrom(source, cs) /\ source.kind = "Web"
    BY <1>1, <2>1 DEF TextInv
  <2>3. source.page \in Pages
    BY <2>2 DEF CutFrom, Sources
  <2>4. PICK page \in Pages : page = source.page
    BY <2>3
  <2>5. PICK text : text = extract_text(page) /\ text = TextOf(source)
    BY <2>2, <2>4 DEF TextOf
  <2>6. /\ \E S : text \in Seq(S)
        /\ Range(text) = Words(page)
    BY <2>5, ExtractShown
  <2>7. UNION {Range(Pieces(text)[k]) : k \in DOMAIN Pieces(text)} = Range(text)
    BY <2>6, WindowsCover
  <2>8. Carried(cs) = UNION {Range(Pieces(text)[k]) : k \in DOMAIN Pieces(text)}
    BY <2>2, <2>5 DEF CutFrom
  <2> HIDE DEF Words, Carried
  <2> QED BY <2>1, <2>4, <2>6, <2>7, <2>8
<1> QED BY <1>1, TextInvAlways, PTL
=============================================================================
