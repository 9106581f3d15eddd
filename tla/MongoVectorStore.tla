-------------------------- MODULE MongoVectorStore --------------------------
(***************************************************************************)
(* crates/milona-storage/src/mongo/vector.rs: the vector store over one    *)
(* collection that all tenants share, keyed by _id = chunk id.             *)
(*                                                                         *)
(* The server is external.  It is taken for what its manual promises: an   *)
(* operation on one document is atomic; an upsert looks for a match first  *)
(* and inserts afterwards, when a unique key may be taken; delete_many     *)
(* visits its documents one by one, and may meet or miss a document that   *)
(* is written while it runs; an aggregation sees one moment.  A reply can  *)
(* be lost after the operation was done.                                   *)
(***************************************************************************)
EXTENDS Integers, FiniteSets, Sequences, SequencesExt

CONSTANTS
  Tasks,                  \* the calls that can be in progress together
  Tenants, ChunkIds, DocumentIds,
  ChunksOf,               \* the chunk ids each tenant uses
  DocumentOf,             \* the document of a chunk: fixed when it is made
  Embeddings, Similarity, \* Similarity[e]: of an embedding and the question
  Exact,                  \* whether numCandidates covers the collection
  TopKs,
  SupportsVectorSearch,   \* MongoBackend::supports_vector_search
  RepliesLost             \* whether the connection can fail

ASSUME MongoAssumption ==
  /\ ChunksOf \in [Tenants -> SUBSET ChunkIds]
  /\ DocumentOf \in [ChunkIds -> DocumentIds]
  /\ Similarity \in [Embeddings -> Int]
  /\ TopKs \subseteq Nat
  /\ Exact \in BOOLEAN /\ SupportsVectorSearch \in BOOLEAN /\ RepliesLost \in BOOLEAN

VARIABLES
  collection,  \* the stored VectorDocuments by _id
  call,        \* the arguments of each task's call
  pc,          \* where each task is in it
  scan,        \* the documents a delete_many has to visit
  matches,     \* the hits of a search, with the tenant_id they had
  mine,        \* history: a search's number of candidates of its own tenant;
               \* a purge's documents that nobody has written since it began
  standing     \* history: upserts of which, since they were called, nobody
               \* else has written the chunk and nobody purged the document

vars == <<collection, call, pc, scan, matches, mine, standing>>

VectorDocument == [tenant_id : Tenants, document_id : DocumentIds, embedding : Embeddings]

Ended == {"idle", "ok", "duplicate_key", "error", "unsupported"}
Working == {"match", "replace", "insert", "delete", "aggregate", "cursor"}

Call == [op : {"none"}]
   \cup [op : {"upsert"}, tenant_id : Tenants, chunk_id : ChunkIds, embedding : Embeddings]
   \cup [op : {"search"}, tenant_id : Tenants, top_k : TopKs]
   \cup [op : {"delete_document"}, tenant_id : Tenants, document_id : DocumentIds]

Goto(c, label) == pc' = [pc EXCEPT ![c] = label]

\* Mutant: the filter on _id alone.
UpsertFilter_IdOnly(t, id) == id \in DOMAIN collection

UpsertFilter(t, id) == id \in DOMAIN collection /\ collection[id].tenant_id = t

DeleteFilter(t, d) ==
  {id \in DOMAIN collection : collection[id].tenant_id = t /\ collection[id].document_id = d}

Purging(t, d) ==
  \E c \in Tasks : /\ pc[c] = "delete"
                   /\ call[c].tenant_id = t /\ call[c].document_id = d

-----------------------------------------------------------------------------
Init ==
  /\ collection = <<>>
  /\ call = [c \in Tasks |-> [op |-> "none"]]
  /\ pc = [c \in Tasks |-> "idle"]
  /\ scan = [c \in Tasks |-> {}]
  /\ matches = [c \in Tasks |-> <<>>]
  /\ mine = [c \in Tasks |-> {}]
  /\ standing = [c \in Tasks |-> FALSE]

Begin(c, args, label) ==
  /\ pc[c] \in Ended
  /\ call' = [call EXCEPT ![c] = args]
  /\ matches' = [matches EXCEPT ![c] = <<>>]
  /\ Goto(c, label)
  /\ UNCHANGED collection

(* The bookkeeping of a document write: purges no longer answer for the    *)
(* document, and the other upserts of it no longer stand.                  *)
Written(c, id) ==
  /\ mine' = [x \in Tasks |-> IF call[x].op = "search" THEN mine[x] ELSE mine[x] \ {id}]
  /\ standing' = [x \in Tasks |->
       standing[x] /\ (x = c \/ call[x].chunk_id # id)]

upsert(c, t, id, e) ==
  /\ Begin(c, [op |-> "upsert", tenant_id |-> t, chunk_id |-> id, embedding |-> e], "match")
  /\ mine' = [mine EXCEPT ![c] = {}]
  /\ standing' = [standing EXCEPT ![c] = ~Purging(t, DocumentOf[id])]
  /\ UNCHANGED scan

(* replace_one with upsert(true), the server's first step.                 *)
Match(c) ==
  /\ pc[c] = "match"
  /\ Goto(c, IF UpsertFilter(call[c].tenant_id, call[c].chunk_id) THEN "replace" ELSE "insert")
  /\ UNCHANGED <<collection, call, scan, matches, mine, standing>>

Document(c) == [tenant_id |-> call[c].tenant_id,
                document_id |-> DocumentOf[call[c].chunk_id],
                embedding |-> call[c].embedding]

Store(c) ==
  LET id == call[c].chunk_id
  IN  /\ collection' = [i \in DOMAIN collection \cup {id} |->
                          IF i = id THEN Document(c) ELSE collection[i]]
      /\ \E outcome \in {"ok"} \cup (IF RepliesLost THEN {"error"} ELSE {}) : Goto(c, outcome)
      /\ Written(c, id)
      /\ UNCHANGED <<call, scan, matches>>

Replace(c) ==
  /\ pc[c] = "replace"
  /\ UpsertFilter(call[c].tenant_id, call[c].chunk_id)
  /\ Store(c)

(* The matched document was purged meanwhile: the server matches again.    *)
MatchGone(c) ==
  /\ pc[c] = "replace"
  /\ ~UpsertFilter(call[c].tenant_id, call[c].chunk_id)
  /\ Goto(c, "match")
  /\ UNCHANGED <<collection, call, scan, matches, mine, standing>>

Insert(c) ==
  /\ pc[c] = "insert" /\ call[c].chunk_id \notin DOMAIN collection
  /\ Store(c)

\* Mutant: a duplicate key is taken for "already there".
DuplicateKey_Ok(c) ==
  /\ pc[c] = "insert" /\ call[c].chunk_id \in DOMAIN collection
  /\ Goto(c, "ok")
  /\ UNCHANGED <<collection, call, scan, matches, mine, standing>>

(* The _id is taken: by another tenant, or by an upsert of the same chunk  *)
(* that ran at the same time.                                              *)
DuplicateKey(c) ==
  /\ pc[c] = "insert" /\ call[c].chunk_id \in DOMAIN collection
  /\ Goto(c, "duplicate_key")
  /\ UNCHANGED <<collection, call, scan, matches, mine, standing>>

-----------------------------------------------------------------------------
delete_document(c, t, d) ==
  /\ Begin(c, [op |-> "delete_document", tenant_id |-> t, document_id |-> d], "delete")
  /\ scan' = [scan EXCEPT ![c] = DeleteFilter(t, d)]
  /\ mine' = [mine EXCEPT ![c] = {id \in DOMAIN collection :
                 collection[id].tenant_id = t /\ collection[id].document_id = d}]
  /\ standing' = [x \in Tasks |->
       /\ x # c /\ standing[x]
       /\ ~(call[x].tenant_id = t /\ DocumentOf[call[x].chunk_id] = d)]

(* delete_many comes to a document: one of those it set out for, or one    *)
(* that matches since.                                                     *)
Visit(c, id) ==
  /\ pc[c] = "delete"
  /\ LET matching == DeleteFilter(call[c].tenant_id, call[c].document_id)
     IN  /\ id \in scan[c] \cup matching
         /\ collection' = [i \in DOMAIN collection \ ({id} \cap matching) |-> collection[i]]
  /\ scan' = [scan EXCEPT ![c] = @ \ {id}]
  /\ UNCHANGED <<call, pc, matches, mine, standing>>

\* Mutant: delete_one for delete_many.
Deleted_AfterOne(c) ==
  /\ pc[c] = "delete" /\ Cardinality(scan[c]) <= 1
  /\ Goto(c, "ok")
  /\ UNCHANGED <<collection, call, scan, matches, mine, standing>>

Deleted(c) ==
  /\ pc[c] = "delete" /\ scan[c] = {}
  /\ Goto(c, "ok")
  /\ UNCHANGED <<collection, call, scan, matches, mine, standing>>

-----------------------------------------------------------------------------
SimilarityTo(question, e) == Similarity[e]

Vectors == INSTANCE TenantStore WITH
  chunks <- [t \in Tenants |->
    [id \in {i \in DOMAIN collection : collection[i].tenant_id = t} |->
       [document_id |-> collection[id].document_id, embedding |-> collection[id].embedding]]],
  answer <- [kind |-> "none"], Queries <- {"question"}, Score <- SimilarityTo

Candidates(t) == {id \in DOMAIN collection : collection[id].tenant_id = t}

(* DocumentDB has no $vectorSearch: the call ends before it is sent.       *)
search(c, t, k) ==
  /\ Begin(c, [op |-> "search", tenant_id |-> t, top_k |-> k],
           IF SupportsVectorSearch THEN "aggregate" ELSE "unsupported")
  /\ mine' = [mine EXCEPT ![c] = {}]
  /\ standing' = [standing EXCEPT ![c] = FALSE]
  /\ UNCHANGED scan

Limit(k) == IF k > 1 THEN k ELSE 1

Hit(id) == [chunk_id |-> id, tenant_id |-> collection[id].tenant_id]

\* Mutants: no tenant_id filter; the tenant's hits picked after the limit.
Hits_AnyTenant(t, k) ==
  {h \in SeqOf({Hit(id) : id \in DOMAIN collection}, k) :
     Len(h) = (IF k < Cardinality(DOMAIN collection) THEN k ELSE Cardinality(DOMAIN collection))}
Hits_PostFilter(t, k) ==
  {SelectSeq(h, LAMBDA x : x.tenant_id = t) : h \in Hits_AnyTenant(t, k)}

(* The $vectorSearch stage: the filter is part of the search, and the      *)
(* limit counts what passed it.                                            *)
Hits(t, k) ==
  {[i \in DOMAIN ids |-> Hit(ids[i])] :
     ids \in {s \in SeqOf(Candidates(t), k) : Vectors!IsRanking(t, "question", k, s)}}

Aggregate(c) ==
  /\ pc[c] = "aggregate"
  /\ \E hits \in Hits(call[c].tenant_id, Limit(call[c].top_k)) :
       matches' = [matches EXCEPT ![c] = hits]
  /\ mine' = [mine EXCEPT ![c] = Candidates(call[c].tenant_id)]
  /\ Goto(c, "cursor")
  /\ UNCHANGED <<collection, call, scan, standing>>

CursorDone(c) ==
  /\ pc[c] = "cursor"
  /\ Goto(c, "ok")
  /\ UNCHANGED <<collection, call, scan, matches, mine, standing>>

\* Mutant: a cursor error returns what was read so far.
Disconnect_KeepsHits(c) ==
  /\ RepliesLost /\ pc[c] \in Working
  /\ Goto(c, "error")
  /\ scan' = [scan EXCEPT ![c] = {}]
  /\ UNCHANGED <<collection, call, matches, mine, standing>>

(* The connection fails: before a write was done, in the middle of a       *)
(* delete_many or of a cursor, whose hits so far are thrown away.          *)
Disconnect(c) ==
  /\ RepliesLost /\ pc[c] \in Working
  /\ Goto(c, "error")
  /\ scan' = [scan EXCEPT ![c] = {}]
  /\ matches' = [matches EXCEPT ![c] = <<>>]
  /\ UNCHANGED <<collection, call, mine, standing>>

Step(c) ==
  \/ Match(c) \/ Replace(c) \/ MatchGone(c) \/ Insert(c) \/ DuplicateKey(c)
  \/ (\E id \in ChunkIds : Visit(c, id)) \/ Deleted(c)
  \/ Aggregate(c) \/ CursorDone(c)

Next ==
  \E c \in Tasks :
    \/ \E t \in Tenants, e \in Embeddings : \E id \in ChunksOf[t] : upsert(c, t, id, e)
    \/ \E t \in Tenants, d \in DocumentIds : delete_document(c, t, d)
    \/ \E t \in Tenants, k \in TopKs : search(c, t, k)
    \/ Step(c)
    \/ Disconnect(c)

Spec == Init /\ [][Next]_vars

-----------------------------------------------------------------------------
(* Correctness.                                                            *)

(* Every variable has its type; a task waits where its call can be, and    *)
(* only a search that was answered has hits to return.                     *)
TypeOK ==
  /\ DOMAIN collection \subseteq ChunkIds
  /\ \A id \in DOMAIN collection : collection[id] \in VectorDocument
  /\ call \in [Tasks -> Call]
  /\ pc \in [Tasks -> Ended \cup Working]
  /\ scan \in [Tasks -> SUBSET ChunkIds]
  /\ mine \in [Tasks -> SUBSET ChunkIds]
  /\ standing \in [Tasks -> BOOLEAN]
  /\ \A c \in Tasks :
       /\ matches[c] \in Seq([chunk_id : ChunkIds, tenant_id : Tenants])
       /\ matches[c] # <<>> => pc[c] \in {"cursor", "ok"} /\ call[c].op = "search"
       /\ scan[c] # {} => pc[c] = "delete"
       /\ pc[c] \in {"match", "replace", "insert", "duplicate_key"} => call[c].op = "upsert"
       /\ standing[c] => call[c].op = "upsert"

(* No call takes a document of another tenant: a stored document keeps its *)
(* tenant, even when two tenants use one chunk id, and disappears only     *)
(* while its own tenant purges its document (vector.rs:105-113, 196-201).  *)
DocumentsKeepTheirTenant ==
  [][\A id \in DOMAIN collection :
       IF id \in DOMAIN collection'
       THEN collection'[id].tenant_id = collection[id].tenant_id
       ELSE Purging(collection[id].tenant_id, collection[id].document_id)]_vars

(* An upsert that returned Ok is in the collection as it was given, as     *)
(* long as nobody else writes the chunk or purges its document: a          *)
(* duplicate key must surface as an error (vector.rs:115-121).             *)
AcknowledgedIsStored ==
  \A c \in Tasks :
    pc[c] = "ok" /\ standing[c] =>
      call[c].chunk_id \in DOMAIN collection /\ collection[call[c].chunk_id] = Document(c)

(* When delete_document returns Ok, none of the document's chunks that     *)
(* were stored when it was called is left, unless it has been written      *)
(* again since (vector.rs:203-208).                                        *)
PurgeIsComplete ==
  \A c \in Tasks :
    pc[c] = "ok" /\ call[c].op = "delete_document" => mine[c] \cap DOMAIN collection = {}

(* A search returns documents of its caller's tenant only, and the filter  *)
(* is not a post-filter (vector.rs:142-145): other tenants' closer         *)
(* documents never take the place of the caller's.                         *)
FilteredBeforeLimit ==
  \A c \in Tasks :
    pc[c] \in {"cursor", "ok"} /\ call[c].op = "search" =>
      /\ \A i \in DOMAIN matches[c] : matches[c][i].tenant_id = call[c].tenant_id
      /\ Exact => Len(matches[c]) =
                    IF Cardinality(mine[c]) <= call[c].top_k THEN Cardinality(mine[c])
                    ELSE IF call[c].top_k = 0 THEN 1 ELSE call[c].top_k
=============================================================================
