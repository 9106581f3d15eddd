------------------------- MODULE MemoryVectorStore -------------------------
(***************************************************************************)
(* InMemoryVectorStore of crates/milona-storage/src/memory.rs: one map     *)
(* from chunk id to record, shared by all tenants, behind one Mutex.       *)
(* Every operation runs under the lock from its first line to its last,    *)
(* so each one is a single action.                                         *)
(*                                                                         *)
(* A panic while the lock is held poisons the Mutex: lock().unwrap() then  *)
(* panics in every later operation, whoever calls it.                      *)
(***************************************************************************)
EXTENDS Integers, FiniteSets, Sequences, SequencesExt

CONSTANTS
  Tenants, ChunkIds, DocumentIds, Embeddings, Queries,
  Score(_, _),  \* cosine_similarity: an integer (scaled), or NaN
  NaN,
  OwnerOf,      \* the tenant that generated a chunk id (ChunkId::new, UUIDv4)
  Collisions,   \* TRUE: tenants may also upsert ids generated by others
  MaxTopK       \* bound on the top_k asked for

ASSUME OwnerAssumption == OwnerOf \in [ChunkIds -> Tenants] /\ Collisions \in BOOLEAN

ASSUME ScoreAssumption ==
  \A q \in Queries, e \in Embeddings : Score(q, e) \in Int \cup {NaN}

VARIABLES
  records,      \* InMemoryVectorStore.records: a partial map from ChunkIds
  poisoned,     \* the Mutex's poison flag
  answer        \* the outcome of the last operation

vars == <<records, poisoned, answer>>

StoredVector == [tenant_id : Tenants, document_id : DocumentIds, embedding : Embeddings]

Panics(t) == answer' = [kind |-> "panic", tenant |-> t]

-----------------------------------------------------------------------------
(* The scan's filter (memory.rs:72-74).                                    *)
Scanned(t) == {c \in DOMAIN records : records[c].tenant_id = t}

ScoreOf(q, c) == Score(q, records[c].embedding)

(* sort_by unwraps partial_cmp, which is None against a NaN; a sort of two *)
(* or more elements compares each of them.                                 *)
SortPanics(q, S) == Cardinality(S) > 1 /\ \E c \in S : ScoreOf(q, c) = NaN

(* The map is scanned in an arbitrary order and sorted by descending       *)
(* score: every order of the records that agrees with their scores.        *)
Sorted(q, S) ==
  {s \in SetToSeqs(S) : \A i, j \in DOMAIN s :
                           i < j => ScoreOf(q, s[i]) >= ScoreOf(q, s[j])}

\* Mutant: the truncation forgotten.
Results_All(q, k, S) == Sorted(q, S)

Results(q, k, S) == {SubSeq(s, 1, IF k < Len(s) THEN k ELSE Len(s)) : s \in Sorted(q, S)}

-----------------------------------------------------------------------------
Init ==
  /\ records = <<>>
  /\ poisoned = FALSE
  /\ answer = [kind |-> "none"]

(* The chunk's id alone is the key: whatever record has it is replaced.    *)
upsert(t, c, d, e) ==
  /\ OwnerOf[c] = t \/ Collisions
  /\ ~poisoned
  /\ records' = [i \in DOMAIN records \cup {c} |->
                   IF i = c THEN [tenant_id |-> t, document_id |-> d, embedding |-> e]
                   ELSE records[i]]
  /\ answer' = [kind |-> "stored", tenant |-> t]
  /\ UNCHANGED poisoned

search(t, q, k) ==
  /\ ~poisoned
  /\ ~SortPanics(q, Scanned(t))
  /\ \E hits \in Results(q, k, Scanned(t)) :
       answer' = [kind |-> "found", tenant |-> t, query |-> q, top_k |-> k, hits |-> hits]
  /\ UNCHANGED <<records, poisoned>>

search_panics(t, q) ==
  /\ ~poisoned
  /\ SortPanics(q, Scanned(t))
  /\ poisoned' = TRUE
  /\ Panics(t)
  /\ UNCHANGED records

\* Mutant: a purge by document id alone.
Purged_AnyTenant(t, d, c) == records[c].document_id = d

Purged(t, d, c) == records[c].tenant_id = t /\ records[c].document_id = d

delete_document(t, d) ==
  /\ ~poisoned
  /\ records' = [c \in {i \in DOMAIN records : ~Purged(t, d, i)} |-> records[c]]
  /\ answer' = [kind |-> "deleted", tenant |-> t]
  /\ UNCHANGED poisoned

lock_panics(t) ==
  /\ poisoned
  /\ Panics(t)
  /\ UNCHANGED <<records, poisoned>>

Next ==
  \E t \in Tenants :
    \/ \E c \in ChunkIds, d \in DocumentIds, e \in Embeddings : upsert(t, c, d, e)
    \/ \E q \in Queries, k \in 0..MaxTopK : search(t, q, k)
    \/ \E q \in Queries : search_panics(t, q)
    \/ \E d \in DocumentIds : delete_document(t, d)
    \/ lock_panics(t)

Spec == Init /\ [][Next]_vars

-----------------------------------------------------------------------------
(* Every variable has its type, and a search answers at most top_k hits.   *)
TypeOK ==
  /\ DOMAIN records \subseteq ChunkIds
  /\ \A c \in DOMAIN records : records[c] \in StoredVector
  /\ poisoned \in BOOLEAN
  /\ answer.kind = "found" =>
       /\ answer.hits \in Seq(ChunkIds)
       /\ Len(answer.hits) <= answer.top_k

(* The records of each tenant, the state of the abstract store.            *)
View ==
  [t \in Tenants |->
     [c \in Scanned(t) |->
        [document_id |-> records[c].document_id, embedding |-> records[c].embedding]]]

Abstract == INSTANCE TenantStore WITH chunks <- View, Exact <- TRUE

(* The one shared map behaves as a map per tenant with exhaustive searches *)
(* (traits.rs:33-36), as long as chunk ids are generated, never reused     *)
(* across tenants.                                                         *)
RefinesTenantStore == Abstract!Spec

(* No operation of one tenant changes the records of another: "an upsert   *)
(* must never let one tenant overwrite a chunk id that happens to collide  *)
(* with another's" (mongo/vector.rs:105-109), the discipline memory.rs:4-8 *)
(* claims for this store as well.                                          *)
OtherTenantsUntouched ==
  [][\A t \in Tenants : View[t]' # View[t] => answer'.tenant = t]_vars
=============================================================================
