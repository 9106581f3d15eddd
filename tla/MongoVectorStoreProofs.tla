----------------------- MODULE MongoVectorStoreProofs -----------------------
(***************************************************************************)
(* Proofs about MongoVectorStore, for every set of calls in progress,      *)
(* tenants, chunks and documents, whatever the replies that are lost.      *)
(***************************************************************************)
EXTENDS MongoVectorStore, TLAPS, FiniteSetTheorems

Shape ==
  /\ DOMAIN call = Tasks /\ DOMAIN pc = Tasks /\ DOMAIN scan = Tasks
  /\ DOMAIN mine = Tasks /\ DOMAIN standing = Tasks /\ DOMAIN matches = Tasks

(* A task waits where its call can be, and an upsert that stands is of a   *)
(* document that nobody is purging.                                        *)
InItsCall(c) ==
  /\ pc[c] \in {"match", "replace", "insert"} => call[c].op = "upsert"
  /\ pc[c] = "delete" => call[c].op = "delete_document"
  /\ pc[c] \in {"aggregate", "cursor"} => call[c].op = "search"
  /\ standing[c] => /\ call[c].op = "upsert"
                    /\ ~Purging(call[c].tenant_id, DocumentOf[call[c].chunk_id])

IsStored(c) ==
  call[c].chunk_id \in DOMAIN collection /\ collection[call[c].chunk_id] = Document(c)

(* What delete_many answers for is what it has still to visit, or gone.    *)
Pending(c) ==
  \A id \in mine[c] \cap DOMAIN collection :
    id \in scan[c] /\ id \in DeleteFilter(call[c].tenant_id, call[c].document_id)

CallInv(c) ==
  /\ InItsCall(c)
  /\ pc[c] = "ok" /\ standing[c] => IsStored(c)
  /\ pc[c] = "delete" => Pending(c)
  /\ pc[c] = "ok" /\ call[c].op = "delete_document" => mine[c] \cap DOMAIN collection = {}

StoreInv == Shape /\ \A c \in Tasks : CallInv(c)

(* Of task x a step changes nothing but what is said of it in the          *)
(* bookkeeping.                                                            *)
Untouched(x) == pc'[x] = pc[x] /\ call'[x] = call[x] /\ scan'[x] = scan[x]

-----------------------------------------------------------------------------
(* Steps that leave the collection alone.                                  *)

LEMMA OthersKeep ==
  ASSUME NEW x \in Tasks, CallInv(x), Untouched(x), mine'[x] = mine[x],
         UNCHANGED collection, standing'[x] => standing[x],
         standing'[x] => ~Purging(call[x].tenant_id, DocumentOf[call[x].chunk_id])'
  PROVE  CallInv(x)'
<1>1. InItsCall(x)'
  BY DEF CallInv, InItsCall, Untouched
<1>2. IsStored(x)' <=> IsStored(x)
  BY DEF IsStored, Document, Untouched
<1>3. Pending(x)' <=> Pending(x)
  BY DEF Pending, DeleteFilter, Untouched
<1> QED
  BY <1>1, <1>2, <1>3 DEF CallInv, Untouched

(* A step of task c in the middle of its call that writes nothing.         *)
LEMMA QuietStep ==
  ASSUME StoreInv, NEW c \in Tasks, UNCHANGED <<collection, call, standing>>,
         NEW label, pc' = [pc EXCEPT ![c] = label], label # "delete",
         Shape', \A x \in Tasks \ {c} : mine'[x] = mine[x] /\ scan'[x] = scan[x],
         standing[c] /\ label = "ok" => IsStored(c),
         label \in {"match", "replace", "insert"} => call[c].op = "upsert",
         label \in {"aggregate", "cursor"} => call[c].op = "search",
         label = "ok" /\ call[c].op = "delete_document" => mine'[c] \cap DOMAIN collection = {}
  PROVE  StoreInv'
<1>1. pc'[c] = label /\ \A x \in Tasks \ {c} : pc'[x] = pc[x]
  BY DEF StoreInv, Shape
<1>2. ASSUME NEW x \in Tasks, standing[x]
      PROVE  ~Purging(call[x].tenant_id, DocumentOf[call[x].chunk_id])'
  <2>1. ~Purging(call[x].tenant_id, DocumentOf[call[x].chunk_id])
    BY <1>2 DEF StoreInv, CallInv, InItsCall
  <2> QED
    BY <1>1, <2>1 DEF Purging
<1>3. ASSUME NEW x \in Tasks \ {c} PROVE CallInv(x)'
  <2>1. Untouched(x) /\ mine'[x] = mine[x] /\ (standing'[x] => standing[x])
    BY <1>1 DEF Untouched
  <2> QED
    BY <1>2, <2>1, OthersKeep DEF StoreInv
<1>4. CallInv(c)'
  <2>1. InItsCall(c)'
    BY <1>1, <1>2 DEF StoreInv, CallInv, InItsCall
  <2>2. pc'[c] = "ok" /\ standing'[c] => IsStored(c)'
    BY <1>1 DEF IsStored, Document
  <2> QED
    BY <1>1, <2>1, <2>2 DEF CallInv
<1> QED
  BY <1>3, <1>4 DEF StoreInv

(* The first step of a call.                                               *)
LEMMA BeginStep ==
  ASSUME StoreInv, NEW c \in Tasks,
         (\E t \in Tenants, id \in ChunkIds, e \in Embeddings : upsert(c, t, id, e))
           \/ (\E t \in Tenants, d \in DocumentIds : delete_document(c, t, d))
           \/ (\E t \in Tenants, k \in TopKs : search(c, t, k))
  PROVE  StoreInv'
<1>1. ASSUME NEW t \in Tenants, NEW id \in ChunkIds, NEW e \in Embeddings, upsert(c, t, id, e)
      PROVE  StoreInv'
  <2>1. Shape'
    BY <1>1 DEF StoreInv, Shape, upsert, Begin, Goto
  <2>2. /\ UNCHANGED collection /\ pc'[c] = "match"
        /\ call'[c] = [op |-> "upsert", tenant_id |-> t, chunk_id |-> id, embedding |-> e]
        /\ standing' = [standing EXCEPT ![c] = ~Purging(t, DocumentOf[id])]
    BY <1>1 DEF StoreInv, Shape, upsert, Begin, Goto
  <2>3. \A x \in Tasks \ {c} : /\ Untouched(x) /\ mine'[x] = mine[x]
                               /\ standing'[x] = standing[x]
    BY <1>1 DEF StoreInv, Shape, upsert, Begin, Goto, Untouched
  <2>4. ASSUME NEW s, NEW d, ~Purging(s, d)
        PROVE  ~(\E x \in Tasks : /\ pc'[x] = "delete" /\ call'[x].tenant_id = s
                                  /\ call'[x].document_id = d)
    BY <2>2, <2>3, <2>4 DEF Purging, Untouched
  <2>5. ASSUME NEW x \in Tasks \ {c} PROVE CallInv(x)'
    <3>1. standing[x] => ~Purging(call[x].tenant_id, DocumentOf[call[x].chunk_id])
      BY DEF StoreInv, CallInv, InItsCall
    <3>2. standing[x] => ~Purging(call[x].tenant_id, DocumentOf[call[x].chunk_id])'
      BY <2>3, <2>4, <3>1 DEF Purging, Untouched
    <3> QED
      BY <2>2, <2>3, <3>2, OthersKeep DEF StoreInv
  <2>6. CallInv(c)'
    <3>1. standing'[c] <=> ~Purging(t, DocumentOf[id])
      BY <2>2, Zenon DEF StoreInv, Shape
    <3>2. standing'[c] => ~Purging(call[c].tenant_id, DocumentOf[call[c].chunk_id])'
      BY <2>2, <2>4, <3>1 DEF Purging
    <3> QED
      BY <2>2, <3>2 DEF CallInv, InItsCall
  <2> QED
    BY <2>1, <2>5, <2>6 DEF StoreInv
<1>2. ASSUME NEW t \in Tenants, NEW d \in DocumentIds, delete_document(c, t, d)
      PROVE  StoreInv'
  <2>1. Shape'
    BY <1>2 DEF StoreInv, Shape, delete_document, Begin, Goto
  <2>2. /\ UNCHANGED collection /\ pc'[c] = "delete" /\ ~standing'[c]
        /\ call'[c] = [op |-> "delete_document", tenant_id |-> t, document_id |-> d]
        /\ scan'[c] = DeleteFilter(t, d) /\ mine'[c] = DeleteFilter(t, d)
    BY <1>2 DEF StoreInv, Shape, delete_document, Begin, Goto, DeleteFilter
  <2>3. \A x \in Tasks \ {c} : /\ Untouched(x) /\ mine'[x] = mine[x]
    BY <1>2 DEF StoreInv, Shape, delete_document, Begin, Goto, Untouched
  <2>4. \A x \in Tasks \ {c} :
          standing'[x] => /\ standing[x]
                          /\ ~(call[x].tenant_id = t /\ DocumentOf[call[x].chunk_id] = d)
    BY <1>2 DEF delete_document
  <2>5. ASSUME NEW x \in Tasks \ {c} PROVE CallInv(x)'
    <3>1. standing[x] => ~Purging(call[x].tenant_id, DocumentOf[call[x].chunk_id])
      BY DEF StoreInv, CallInv, InItsCall
    <3>2. standing'[x] => ~Purging(call[x].tenant_id, DocumentOf[call[x].chunk_id])'
      BY <2>2, <2>3, <2>4, <3>1 DEF Purging, Untouched
    <3> QED
      BY <2>2, <2>3, <2>4, <3>2, OthersKeep DEF StoreInv
  <2>6. Pending(c)'
    BY <2>2 DEF Pending, DeleteFilter
  <2>7. CallInv(c)'
    BY <2>2, <2>6 DEF CallInv, InItsCall
  <2> QED
    BY <2>1, <2>5, <2>7 DEF StoreInv
<1>3. ASSUME NEW t \in Tenants, NEW k \in TopKs, search(c, t, k)
      PROVE  StoreInv'
  <2>1. Shape'
    BY <1>3 DEF StoreInv, Shape, search, Begin, Goto
  <2>2. /\ UNCHANGED collection /\ pc'[c] \in {"aggregate", "unsupported"} /\ ~standing'[c]
        /\ call'[c] = [op |-> "search", tenant_id |-> t, top_k |-> k]
    BY <1>3 DEF StoreInv, Shape, search, Begin, Goto
  <2>3. \A x \in Tasks \ {c} : /\ Untouched(x) /\ mine'[x] = mine[x]
                               /\ standing'[x] = standing[x]
    BY <1>3 DEF StoreInv, Shape, search, Begin, Goto, Untouched
  <2>4. ASSUME NEW x \in Tasks \ {c} PROVE CallInv(x)'
    <3>1. standing[x] => ~Purging(call[x].tenant_id, DocumentOf[call[x].chunk_id])
      BY DEF StoreInv, CallInv, InItsCall
    <3>2. standing[x] => ~Purging(call[x].tenant_id, DocumentOf[call[x].chunk_id])'
      BY <2>2, <2>3, <3>1 DEF Purging, Untouched
    <3> QED
      BY <2>2, <2>3, <3>2, OthersKeep DEF StoreInv
  <2>5. CallInv(c)'
    BY <2>2 DEF CallInv, InItsCall
  <2> QED
    BY <2>1, <2>4, <2>5 DEF StoreInv
<1> QED
  BY <1>1, <1>2, <1>3
-----------------------------------------------------------------------------
(* Steps that write the collection.                                        *)

(* A document is written: whoever wrote its chunk before, or was to answer *)
(* for its purge, no longer does.                                          *)
LEMMA StoreStep ==
  ASSUME StoreInv, NEW c \in Tasks, pc[c] \in {"replace", "insert"}, Store(c)
  PROVE  StoreInv'
<1> DEFINE w == call[c].chunk_id
<1>1. UNCHANGED <<call, scan>> /\ Shape'
  BY DEF StoreInv, Shape, Store, Written, Goto
<1>2. /\ pc'[c] \in {"ok", "error"} /\ call[c].op = "upsert"
      /\ \A x \in Tasks \ {c} : pc'[x] = pc[x]
  BY DEF StoreInv, Shape, CallInv, InItsCall, Store, Goto
<1>3. /\ w \in DOMAIN collection' /\ collection'[w] = Document(c)
      /\ \A i \in DOMAIN collection' : i # w => /\ i \in DOMAIN collection
                                                /\ collection'[i] = collection[i]
      /\ \A i \in DOMAIN collection : i # w => /\ i \in DOMAIN collection'
                                               /\ collection'[i] = collection[i]
  BY DEF Store
<1>4. \A x \in Tasks : /\ standing'[x] => standing[x] /\ (x = c \/ call[x].chunk_id # w)
                       /\ call[x].op # "search" => mine'[x] = mine[x] \ {w}
  BY DEF Store, Written
<1> HIDE DEF w
<1>5. ASSUME NEW x \in Tasks, standing[x]
      PROVE  ~Purging(call[x].tenant_id, DocumentOf[call[x].chunk_id])'
  <2>1. ~Purging(call[x].tenant_id, DocumentOf[call[x].chunk_id])
    BY <1>5 DEF StoreInv, CallInv, InItsCall
  <2> QED
    BY <1>1, <1>2, <2>1 DEF Purging
<1>6. ASSUME NEW x \in Tasks PROVE InItsCall(x)'
  <2>1. InItsCall(x)
    BY DEF StoreInv, CallInv
  <2>2. CASE x = c
    BY <1>1, <1>2, <1>4, <1>5, <2>1, <2>2 DEF InItsCall
  <2>3. CASE x # c
    BY <1>1, <1>2, <1>4, <1>5, <2>1, <2>3 DEF InItsCall
  <2> QED
    BY <2>2, <2>3
<1>7. ASSUME NEW x \in Tasks, pc'[x] = "ok", standing'[x] PROVE IsStored(x)'
  <2>1. CASE x = c
    <3>1. Document(c)' = Document(c)
      BY <1>1 DEF Document
    <3> QED
      BY <1>1, <1>3, <2>1, <3>1 DEF IsStored, w
  <2>2. CASE x # c
    <3>1. IsStored(x) /\ call[x].chunk_id # w
      BY <1>2, <1>4, <1>7, <2>2 DEF StoreInv, CallInv
    <3>2. Document(x)' = Document(x)
      BY <1>1 DEF Document
    <3> QED
      BY <1>1, <1>3, <3>1, <3>2 DEF IsStored
  <2> QED
    BY <2>1, <2>2
<1>8. ASSUME NEW x \in Tasks, pc'[x] = "delete" PROVE Pending(x)'
  <2>1. pc[x] = "delete" /\ Pending(x) /\ call[x].op = "delete_document"
    BY <1>2, <1>8 DEF StoreInv, CallInv, InItsCall
  <2>2. mine'[x] = mine[x] \ {w}
    BY <1>4, <2>1
  <2> QED
    BY <1>1, <1>3, <2>1, <2>2 DEF Pending, DeleteFilter
<1>9. ASSUME NEW x \in Tasks, pc'[x] = "ok", call'[x].op = "delete_document"
      PROVE  mine'[x] \cap DOMAIN collection' = {}
  <2>1. x # c
    BY <1>1, <1>2, <1>9
  <2>2. mine[x] \cap DOMAIN collection = {}
    BY <1>1, <1>2, <1>9, <2>1 DEF StoreInv, CallInv
  <2>3. mine'[x] = mine[x] \ {w}
    BY <1>1, <1>4, <1>9
  <2> QED
    BY <1>3, <2>2, <2>3
<1> QED
  BY <1>1, <1>6, <1>7, <1>8, <1>9 DEF StoreInv, CallInv

(* delete_many comes to a document: it takes none that an upsert still     *)
(* stands for.                                                             *)
LEMMA VisitStep ==
  ASSUME StoreInv, NEW c \in Tasks, NEW id \in ChunkIds, Visit(c, id)
  PROVE  StoreInv'
<1> DEFINE gone == {id} \cap DeleteFilter(call[c].tenant_id, call[c].document_id)
<1>1. UNCHANGED <<call, pc, mine, standing>> /\ Shape' /\ pc[c] = "delete"
  BY DEF StoreInv, Shape, Visit
<1>2. /\ DOMAIN collection' = DOMAIN collection \ gone
      /\ \A i \in DOMAIN collection' : collection'[i] = collection[i]
  BY DEF Visit
<1>3. /\ scan'[c] = scan[c] \ {id}
      /\ \A x \in Tasks \ {c} : scan'[x] = scan[x]
  BY DEF StoreInv, Shape, Visit
<1>4. \A i \in gone : /\ i = id /\ collection[i].tenant_id = call[c].tenant_id
                      /\ collection[i].document_id = call[c].document_id
  BY DEF DeleteFilter
<1>5. \A i : i \in DeleteFilter(call[c].tenant_id, call[c].document_id) /\ i = id => i \in gone
  OBVIOUS
<1> HIDE DEF gone
<1>6. ASSUME NEW x \in Tasks PROVE InItsCall(x)'
  BY <1>1 DEF StoreInv, CallInv, InItsCall, Purging
<1>7. ASSUME NEW x \in Tasks, pc'[x] = "ok", standing'[x] PROVE IsStored(x)'
  <2>1. /\ IsStored(x)
        /\ ~Purging(call[x].tenant_id, DocumentOf[call[x].chunk_id])
    BY <1>1, <1>7 DEF StoreInv, CallInv, InItsCall
  <2>2. call[x].chunk_id \notin gone
    BY <1>1, <1>4, <2>1 DEF IsStored, Document, Purging
  <2>3. Document(x)' = Document(x)
    BY <1>1 DEF Document
  <2> QED
    BY <1>1, <1>2, <2>1, <2>2, <2>3 DEF IsStored
<1>8. ASSUME NEW x \in Tasks, pc'[x] = "delete" PROVE Pending(x)'
  <2>1. Pending(x)
    BY <1>1, <1>8 DEF StoreInv, CallInv
  <2>2. ASSUME NEW i \in mine[x], i \in DOMAIN collection'
        PROVE  /\ i \in scan'[x] /\ i \in DOMAIN collection
               /\ i \in DeleteFilter(call[x].tenant_id, call[x].document_id)
    <3>1. /\ i \in scan[x] /\ i \in DOMAIN collection /\ i \notin gone
          /\ i \in DeleteFilter(call[x].tenant_id, call[x].document_id)
      BY <1>2, <2>1, <2>2 DEF Pending
    <3>2. x = c => i # id
      BY <1>5, <3>1
    <3> QED
      BY <1>3, <3>1, <3>2
  <2> QED
    BY <1>1, <1>2, <2>2 DEF Pending, DeleteFilter
<1>9. ASSUME NEW x \in Tasks, pc'[x] = "ok", call'[x].op = "delete_document"
      PROVE  mine'[x] \cap DOMAIN collection' = {}
  BY <1>1, <1>2, <1>9 DEF StoreInv, CallInv
<1> QED
  BY <1>1, <1>6, <1>7, <1>8, <1>9 DEF StoreInv, CallInv
-----------------------------------------------------------------------------
(* StoreInv is inductive.                                                  *)

LEMMA StepKeeps ==
  ASSUME StoreInv, NEW c \in Tasks, Step(c) \/ Disconnect(c)
  PROVE  StoreInv'
<1> USE DEF Goto
<1>1. InItsCall(c) /\ Shape
  BY DEF StoreInv, CallInv
<1>2. CASE Match(c)
  <2>1. pc' = [pc EXCEPT ![c] = IF UpsertFilter(call[c].tenant_id, call[c].chunk_id)
                                THEN "replace" ELSE "insert"]
    BY <1>2 DEF Match
  <2>2. UNCHANGED <<collection, call, scan, matches, mine, standing>> /\ call[c].op = "upsert"
    BY <1>1, <1>2 DEF Match, InItsCall
  <2>3. Shape'
    BY <1>1, <2>1, <2>2 DEF Shape
  <2> QED
    BY <2>1, <2>2, <2>3, QuietStep
<1>3. CASE Replace(c)
  BY <1>3, StoreStep DEF Replace
<1>4. CASE Insert(c)
  BY <1>4, StoreStep DEF Insert
<1>5. CASE MatchGone(c)
  <2>1. pc' = [pc EXCEPT ![c] = "match"] /\ call[c].op = "upsert"
    BY <1>1, <1>5 DEF MatchGone, InItsCall
  <2>2. UNCHANGED <<collection, call, scan, matches, mine, standing>>
    BY <1>5 DEF MatchGone
  <2>3. Shape'
    BY <1>1, <2>1, <2>2 DEF Shape
  <2> QED
    BY <2>1, <2>2, <2>3, QuietStep
<1>6. CASE DuplicateKey(c)
  <2>1. pc' = [pc EXCEPT ![c] = "duplicate_key"]
    BY <1>6 DEF DuplicateKey
  <2>2. UNCHANGED <<collection, call, scan, matches, mine, standing>>
    BY <1>6 DEF DuplicateKey
  <2>3. Shape'
    BY <1>1, <2>1, <2>2 DEF Shape
  <2> QED
    BY <2>1, <2>2, <2>3, QuietStep
<1>7. CASE \E id \in ChunkIds : Visit(c, id)
  BY <1>7, VisitStep
<1>8. CASE Deleted(c)
  <2>1. pc' = [pc EXCEPT ![c] = "ok"] /\ call[c].op = "delete_document" /\ ~standing[c]
    BY <1>1, <1>8 DEF Deleted, InItsCall
  <2>2. UNCHANGED <<collection, call, scan, matches, mine, standing>>
    BY <1>8 DEF Deleted
  <2>3. Shape'
    BY <1>1, <2>1, <2>2 DEF Shape
  <2>4. mine'[c] \cap DOMAIN collection = {}
    <3>1. Pending(c) /\ scan[c] = {}
      BY <1>8 DEF Deleted, StoreInv, CallInv
    <3> QED
      BY <2>2, <3>1 DEF Pending
  <2> QED
    BY <2>1, <2>2, <2>3, <2>4, QuietStep
<1>9. CASE Aggregate(c)
  <2>1. pc' = [pc EXCEPT ![c] = "cursor"] /\ call[c].op = "search"
    BY <1>1, <1>9 DEF Aggregate, InItsCall
  <2>2. UNCHANGED <<collection, call, scan, standing>>
    BY <1>9 DEF Aggregate
  <2>3. Shape' /\ \A x \in Tasks \ {c} : mine'[x] = mine[x]
    BY <1>1, <1>9, <2>1, <2>2 DEF Shape, Aggregate
  <2> QED
    BY <2>1, <2>2, <2>3, QuietStep
<1>10. CASE CursorDone(c)
  <2>1. pc' = [pc EXCEPT ![c] = "ok"] /\ call[c].op = "search" /\ ~standing[c]
    BY <1>1, <1>10 DEF CursorDone, InItsCall
  <2>2. UNCHANGED <<collection, call, scan, matches, mine, standing>>
    BY <1>10 DEF CursorDone
  <2>3. Shape'
    BY <1>1, <2>1, <2>2 DEF Shape
  <2> QED
    BY <2>1, <2>2, <2>3, QuietStep
<1>11. CASE Disconnect(c)
  <2>1. pc' = [pc EXCEPT ![c] = "error"] /\ UNCHANGED <<collection, call, mine, standing>>
    BY <1>11 DEF Disconnect
  <2>2. Shape' /\ \A x \in Tasks \ {c} : scan'[x] = scan[x]
    BY <1>1, <1>11, <2>1 DEF Shape, Disconnect
  <2> QED
    BY <2>1, <2>2, QuietStep
<1> QED
  BY <1>2, <1>3, <1>4, <1>5, <1>6, <1>7, <1>8, <1>9, <1>10, <1>11 DEF Step

LEMMA StoreInvAlways == Spec => []StoreInv
<1>1. Init => StoreInv
  BY DEF Init, StoreInv, Shape, CallInv, InItsCall
<1>2. StoreInv /\ [Next]_vars => StoreInv'
  <2> SUFFICES ASSUME StoreInv, [Next]_vars PROVE StoreInv'
    OBVIOUS
  <2>1. ASSUME NEW c \in Tasks, NEW t \in Tenants, NEW e \in Embeddings,
               NEW id \in ChunksOf[t], upsert(c, t, id, e)
        PROVE  StoreInv'
    <3>1. id \in ChunkIds
      BY MongoAssumption
    <3> QED
      BY <2>1, <3>1, BeginStep
  <2>2. ASSUME NEW c \in Tasks, Step(c) \/ Disconnect(c) PROVE StoreInv'
    BY <2>2, StepKeeps
  <2>3. CASE UNCHANGED vars
    BY <2>3 DEF vars, StoreInv, Shape, CallInv, InItsCall, Pending, IsStored, Document,
                DeleteFilter, Purging
  <2> QED
    BY <2>1, <2>2, <2>3, BeginStep DEF Next
<1> QED
  BY <1>1, <1>2, PTL DEF Spec

-----------------------------------------------------------------------------
(* An upsert that returned Ok is in the collection as it was given, as     *)
(* long as nobody else writes the chunk or purges its document             *)
(* (vector.rs:115-121).                                                    *)
THEOREM UpsertsAreStored == Spec => []AcknowledgedIsStored
<1>1. StoreInv => AcknowledgedIsStored
  BY DEF StoreInv, CallInv, IsStored, AcknowledgedIsStored
<1> QED
  BY <1>1, StoreInvAlways, PTL

(* A delete_document that returned Ok left no chunk of the document that   *)
(* was there when it was called and has not been written since             *)
(* (vector.rs:203-208).                                                    *)
THEOREM PurgesAreComplete == Spec => []PurgeIsComplete
<1>1. StoreInv => PurgeIsComplete
  BY DEF StoreInv, CallInv, PurgeIsComplete
<1> QED
  BY <1>1, StoreInvAlways, PTL

(* No step moves a document to another tenant, and none removes one that   *)
(* its own tenant is not purging (vector.rs:105-113, 196-201).             *)
THEOREM TenantsAreIsolated == Spec => DocumentsKeepTheirTenant
<1> DEFINE Kept ==
      \A id \in DOMAIN collection :
        IF id \in DOMAIN collection'
        THEN collection'[id].tenant_id = collection[id].tenant_id
        ELSE Purging(collection[id].tenant_id, collection[id].document_id)
<1>1. ASSUME [Next]_vars PROVE Kept
  <2>1. CASE UNCHANGED collection
    BY <2>1
  <2>2. ASSUME NEW c \in Tasks, Replace(c) \/ Insert(c) PROVE Kept
    <3>1. /\ \A i \in DOMAIN collection : i \in DOMAIN collection'
          /\ \A i \in DOMAIN collection : i # call[c].chunk_id => collection'[i] = collection[i]
          /\ collection'[call[c].chunk_id].tenant_id = call[c].tenant_id
      BY <2>2 DEF Replace, Insert, Store, Document
    <3>2. call[c].chunk_id \in DOMAIN collection
            => collection[call[c].chunk_id].tenant_id = call[c].tenant_id
      BY <2>2 DEF Replace, Insert, UpsertFilter
    <3> QED
      BY <3>1, <3>2
  <2>3. ASSUME NEW c \in Tasks, NEW id \in ChunkIds, Visit(c, id) PROVE Kept
    <3>1. /\ \A i \in DOMAIN collection' : collection'[i] = collection[i]
          /\ \A i \in DOMAIN collection \ DOMAIN collection' :
                i \in DeleteFilter(call[c].tenant_id, call[c].document_id)
      BY <2>3 DEF Visit
    <3>2. pc[c] = "delete"
      BY <2>3 DEF Visit
    <3> QED
      BY <3>1, <3>2 DEF DeleteFilter, Purging
  <2> QED
    BY <1>1, <2>1, <2>2, <2>3 DEF Next, vars, Step, upsert, delete_document, search, Begin,
       Match, MatchGone, DuplicateKey, Deleted, Aggregate, CursorDone, Disconnect
<1> QED
  <2>1. [Next]_vars => [Kept]_vars
    BY <1>1
  <2> QED
    BY <2>1, PTL DEF Spec, DocumentsKeepTheirTenant
-----------------------------------------------------------------------------
(* What a search answers.                                                  *)

Wanted(S, k) == IF Cardinality(S) <= k THEN Cardinality(S) ELSE IF k = 0 THEN 1 ELSE k

Found(c) ==
  /\ \A i \in DOMAIN matches[c] : matches[c][i].tenant_id = call[c].tenant_id
  /\ Exact => Len(matches[c]) = Wanted(mine[c], call[c].top_k)

Asked(c) == call[c].tenant_id \in Tenants /\ call[c].top_k \in Nat

SearchInv ==
  /\ IsFiniteSet(DOMAIN collection)
  /\ \A c \in Tasks :
       /\ pc[c] = "aggregate" => Asked(c)
       /\ pc[c] \in {"cursor", "ok"} /\ call[c].op = "search" => Found(c)

(* A sequence without repetition has as many members as it is long.        *)
LEMMA DistinctMembers ==
  ASSUME NEW n \in Nat, NEW s, DOMAIN s = 1..n,
         \A i, j \in 1..n : i < j => s[i] # s[j]
  PROVE  Cardinality({s[i] : i \in DOMAIN s}) = n
<1> DEFINE found == {s[i] : i \in DOMAIN s}
           f == [i \in 1..n |-> s[i]]
<1>1. \A i, j \in 1..n : s[i] = s[j] => i = j
  OBVIOUS
<1>2. f \in Bijection(1..n, found)
  BY <1>1 DEF Bijection, Injection, Surjection, IsInjective
<1>3. ExistsBijection(1..n, found)
  BY <1>2 DEF ExistsBijection
<1> HIDE DEF found
<1>4. Cardinality(found) = n
  BY <1>3, FS_CountingElements
<1> QED
  BY <1>4 DEF found

(* The hits of one aggregation: the limit counts the caller's documents.   *)
LEMMA HitsFacts ==
  ASSUME IsFiniteSet(DOMAIN collection), NEW t \in Tenants, NEW k \in Nat,
         NEW hits \in Hits(t, Limit(k))
  PROVE  /\ \A i \in DOMAIN hits : hits[i].tenant_id = t
         /\ Exact => Len(hits) = Wanted(Candidates(t), k)
<1>1. Limit(k) \in Nat /\ Limit(k) = IF k > 1 THEN k ELSE 1
  BY DEF Limit
<1>2. PICK ids \in SeqOf(Candidates(t), Limit(k)) :
        /\ Vectors!IsRanking(t, "question", Limit(k), ids)
        /\ hits = [i \in DOMAIN ids |-> Hit(ids[i])]
  BY DEF Hits
<1>3. PICK m \in 0..Limit(k) : ids \in [1..m -> Candidates(t)]
  BY <1>2 DEF SeqOf
<1>4. m \in Nat /\ DOMAIN ids = 1..m /\ Len(ids) = m
  BY <1>1, <1>3
<1>5. DOMAIN hits = 1..m /\ Len(hits) = m
  BY <1>2, <1>4
<1>6. \A i \in DOMAIN hits : hits[i].tenant_id = t
  BY <1>2, <1>3, <1>4, <1>5 DEF Hit, Candidates
<1> DEFINE found == {ids[i] : i \in DOMAIN ids}
<1>7. /\ found \subseteq Candidates(t)
      /\ \A i, j \in 1..m : i < j => ids[i] # ids[j]
      /\ Exact /\ m < Limit(k) => found = Candidates(t)
  BY <1>2, <1>4 DEF Vectors!IsRanking, Candidates
<1>8. Cardinality(found) = m
  BY <1>4, <1>7, DistinctMembers
<1>9. IsFiniteSet(Candidates(t)) /\ Cardinality(Candidates(t)) \in Nat
  BY FS_Subset, FS_CardinalityType DEF Candidates
<1> HIDE DEF found
<1>10. m <= Cardinality(Candidates(t)) /\ (Exact /\ m < Limit(k) => m = Cardinality(Candidates(t)))
  BY <1>7, <1>8, <1>9, FS_Subset
<1>11. Exact => m = Wanted(Candidates(t), k)
  BY <1>1, <1>3, <1>4, <1>9, <1>10 DEF Wanted
<1> QED
  BY <1>5, <1>6, <1>11

LEMMA SearchInvStep ==
  ASSUME StoreInv, SearchInv, Next
  PROVE  SearchInv'
<1> DEFINE Kept(x) ==
      pc'[x] \in {"cursor", "ok"} /\ call'[x].op = "search" =>
        /\ pc[x] \in {"cursor", "ok"} /\ call'[x] = call[x]
        /\ matches'[x] = matches[x] /\ mine'[x] = mine[x]
    Ready(x) == pc'[x] = "aggregate" => Asked(x)' \/ (pc[x] = "aggregate" /\ call'[x] = call[x])
<1> USE DEF StoreInv, Shape, Goto
<1>1. IsFiniteSet(DOMAIN collection')
  <2>1. CASE UNCHANGED collection
    BY <2>1 DEF SearchInv
  <2>2. ASSUME NEW c \in Tasks, Store(c) PROVE IsFiniteSet(DOMAIN collection')
    <3>1. DOMAIN collection' = DOMAIN collection \cup {call[c].chunk_id}
      BY <2>2 DEF Store
    <3> QED
      BY <3>1, FS_AddElement DEF SearchInv
  <2>3. ASSUME NEW c \in Tasks, NEW id \in ChunkIds, Visit(c, id)
        PROVE  IsFiniteSet(DOMAIN collection')
    <3>1. DOMAIN collection' \subseteq DOMAIN collection
      BY <2>3 DEF Visit
    <3> QED
      BY <3>1, FS_Subset DEF SearchInv
  <2> QED
    BY <2>1, <2>2, <2>3 DEF Next, Step, upsert, delete_document, search, Begin, Replace, Insert,
       Match, MatchGone, DuplicateKey, Deleted, Aggregate, CursorDone, Disconnect
<1>2. ASSUME NEW c \in Tasks, NEW t \in Tenants, NEW id \in ChunkIds, NEW e \in Embeddings,
             upsert(c, t, id, e), NEW x \in Tasks
      PROVE  Kept(x) /\ Ready(x)
  BY <1>2 DEF upsert, Begin
<1>3. ASSUME NEW c \in Tasks, NEW t \in Tenants, NEW d \in DocumentIds,
             delete_document(c, t, d), NEW x \in Tasks
      PROVE  Kept(x) /\ Ready(x)
  BY <1>3 DEF delete_document, Begin
<1>4. ASSUME NEW c \in Tasks, NEW t \in Tenants, NEW k \in TopKs, search(c, t, k), NEW x \in Tasks
      PROVE  Kept(x) /\ Ready(x)
  <2>1. k \in Nat
    BY MongoAssumption
  <2> QED
    BY <1>4, <2>1 DEF search, Begin, Asked
<1>5. ASSUME NEW c \in Tasks, Replace(c) \/ Insert(c), NEW x \in Tasks
      PROVE  Kept(x) /\ Ready(x)
  <2>1. call[c].op = "upsert"
    BY <1>5 DEF CallInv, InItsCall, Replace, Insert
  <2>2. /\ UNCHANGED <<call, matches>> /\ pc'[c] \in {"ok", "error"}
        /\ \A y \in Tasks \ {c} : pc'[y] = pc[y]
    BY <1>5 DEF Replace, Insert, Store
  <2>3. \A y \in Tasks : call[y].op = "search" => mine'[y] = mine[y]
    BY <1>5 DEF Replace, Insert, Store, Written
  <2> QED
    BY <2>1, <2>2, <2>3
<1>6. ASSUME NEW c \in Tasks, NEW x \in Tasks,
             Match(c) \/ MatchGone(c) \/ DuplicateKey(c) \/ CursorDone(c) \/ Disconnect(c)
      PROVE  Kept(x) /\ Ready(x)
  BY <1>6 DEF Match, MatchGone, DuplicateKey, CursorDone, Disconnect
<1>7. ASSUME NEW c \in Tasks, NEW id \in ChunkIds, Visit(c, id), NEW x \in Tasks
      PROVE  Kept(x) /\ Ready(x)
  BY <1>7 DEF Visit
<1>8. ASSUME NEW c \in Tasks, Deleted(c), NEW x \in Tasks
      PROVE  Kept(x) /\ Ready(x)
  BY <1>8 DEF Deleted, CallInv, InItsCall
<1>9. ASSUME NEW c \in Tasks, Aggregate(c), NEW x \in Tasks
      PROVE  (Kept(x) \/ Found(x)') /\ Ready(x)
  <2>1. CASE x # c
    BY <1>9, <2>1 DEF Aggregate
  <2>2. CASE x = c
    <3>1. Asked(c) /\ pc'[c] = "cursor" /\ call'[c] = call[c]
      BY <1>9 DEF Aggregate, SearchInv
    <3>2. /\ matches'[c] \in Hits(call[c].tenant_id, Limit(call[c].top_k))
          /\ mine'[c] = Candidates(call[c].tenant_id)
      BY <1>9 DEF Aggregate
    <3>3. Found(c)'
      BY <3>1, <3>2, HitsFacts DEF Found, Asked, SearchInv
    <3> QED
      BY <2>2, <3>1, <3>3
  <2> QED
    BY <2>1, <2>2
<1>10. ASSUME NEW x \in Tasks PROVE (Kept(x) \/ Found(x)') /\ Ready(x)
  <2>1. \A t \in Tenants : ChunksOf[t] \subseteq ChunkIds
    BY MongoAssumption
  <2> HIDE DEF Kept, Ready
  <2> QED
    BY <1>2, <1>3, <1>4, <1>5, <1>6, <1>7, <1>8, <1>9, <2>1 DEF Next, Step
<1> QED
  BY <1>1, <1>10 DEF SearchInv, Found, Asked

(* A search that was answered has documents of its caller only, and as     *)
(* many as it asked for or there are, whatever other tenants have stored   *)
(* (vector.rs:142-145).                                                    *)
THEOREM SearchesAreFilteredFirst == Spec => []FilteredBeforeLimit
<1>1. Init => SearchInv
  <2>1. ASSUME Init PROVE DOMAIN collection = {}
    BY <2>1 DEF Init
  <2> QED
    BY <2>1, FS_EmptySet DEF Init, SearchInv
<1>2. StoreInv /\ SearchInv /\ [Next]_vars => SearchInv'
  <2>1. SearchInv /\ UNCHANGED vars => SearchInv'
    BY DEF SearchInv, Found, Asked, vars
  <2> QED
    BY <2>1, SearchInvStep
<1>3. SearchInv => FilteredBeforeLimit
  BY DEF SearchInv, Found, Wanted, FilteredBeforeLimit
<1> QED
  BY <1>1, <1>2, <1>3, StoreInvAlways, PTL DEF Spec

-----------------------------------------------------------------------------
(* Type correctness.                                                       *)
TaskTyped(c) ==
  /\ matches[c] \in Seq([chunk_id : ChunkIds, tenant_id : Tenants])
  /\ matches[c] # <<>> => pc[c] \in {"cursor", "ok"} /\ call[c].op = "search"
  /\ scan[c] # {} => pc[c] = "delete"
  /\ pc[c] \in {"match", "replace", "insert", "duplicate_key"} => call[c].op = "upsert"
  /\ standing[c] => call[c].op = "upsert"

CollectionTyped ==
  DOMAIN collection \subseteq ChunkIds /\ \A id \in DOMAIN collection : collection[id] \in VectorDocument

LEMMA TypedParts == TypeOK => CollectionTyped /\ \A c \in Tasks : TaskTyped(c)
BY DEF TypeOK, CollectionTyped, TaskTyped

(* A step of task c leaves the others where they are, and stores only      *)
(* documents.                                                              *)
LEMMA TypedStep ==
  ASSUME TypeOK, NEW c \in Tasks, CollectionTyped', NEW args \in Call,
         NEW label \in Ended \cup Working, NEW visits \in SUBSET ChunkIds,
         UNCHANGED call \/ call' = [call EXCEPT ![c] = args],
         UNCHANGED pc \/ pc' = [pc EXCEPT ![c] = label],
         UNCHANGED scan \/ scan' = [scan EXCEPT ![c] = visits],
         \A x \in Tasks \ {c} : matches'[x] = matches[x] /\ (standing'[x] => standing[x]),
         mine' \in [Tasks -> SUBSET ChunkIds], standing' \in [Tasks -> BOOLEAN],
         TaskTyped(c)'
  PROVE  TypeOK'
<1>1. call' \in [Tasks -> Call] /\ \A x \in Tasks \ {c} : call'[x] = call[x]
  BY DEF TypeOK
<1>2. pc' \in [Tasks -> Ended \cup Working] /\ \A x \in Tasks \ {c} : pc'[x] = pc[x]
  BY DEF TypeOK
<1>3. scan' \in [Tasks -> SUBSET ChunkIds] /\ \A x \in Tasks \ {c} : scan'[x] = scan[x]
  BY DEF TypeOK
<1>4. ASSUME NEW x \in Tasks \ {c} PROVE TaskTyped(x)'
  <2>1. TaskTyped(x)
    BY TypedParts
  <2>2. call'[x] = call[x] /\ pc'[x] = pc[x] /\ scan'[x] = scan[x]
    BY <1>1, <1>2, <1>3
  <2> QED BY <2>1, <2>2 DEF TaskTyped
<1>5. \A x \in Tasks : TaskTyped(x)'
  BY <1>4
<1> QED BY <1>1, <1>2, <1>3, <1>5 DEF TypeOK, CollectionTyped, TaskTyped

(* What a call is begun with is what it may be begun with.                 *)
LEMMA TypedBegin ==
  ASSUME TypeOK, Shape, NEW c \in Tasks, NEW args \in Call, NEW label \in Ended \cup Working,
         Begin(c, args, label), NEW visits \in SUBSET ChunkIds,
         UNCHANGED scan \/ scan' = [scan EXCEPT ![c] = visits],
         scan'[c] # {} => label = "delete",
         \A x \in Tasks \ {c} : standing'[x] => standing[x],
         mine' \in [Tasks -> SUBSET ChunkIds], standing' \in [Tasks -> BOOLEAN],
         label \in {"match", "replace", "insert", "duplicate_key"} => args.op = "upsert",
         standing'[c] => args.op = "upsert"
  PROVE  TypeOK'
<1>1. /\ call' = [call EXCEPT ![c] = args] /\ pc' = [pc EXCEPT ![c] = label]
      /\ matches' = [matches EXCEPT ![c] = <<>>] /\ UNCHANGED collection
  BY DEF Begin, Goto
<1>2. /\ call'[c] = args /\ pc'[c] = label /\ matches'[c] = <<>>
      /\ \A x \in Tasks \ {c} : matches'[x] = matches[x]
  BY <1>1 DEF Shape
<1>3. TaskTyped(c)'
  BY <1>2 DEF TaskTyped
<1>4. CollectionTyped'
  BY <1>1, TypedParts DEF CollectionTyped
<1> QED BY <1>1, <1>2, <1>3, <1>4, TypedStep

LEMMA TypedCalls ==
  ASSUME NEW t \in Tenants
  PROVE  /\ \A e \in Embeddings : \A id \in ChunksOf[t] :
              /\ [op |-> "upsert", tenant_id |-> t, chunk_id |-> id, embedding |-> e] \in Call
              /\ id \in ChunkIds
         /\ \A k \in TopKs : [op |-> "search", tenant_id |-> t, top_k |-> k] \in Call
         /\ \A d \in DocumentIds :
              [op |-> "delete_document", tenant_id |-> t, document_id |-> d] \in Call
<1>1. \A id \in ChunksOf[t] : id \in ChunkIds
  BY MongoAssumption
<1> QED BY <1>1 DEF Call

(* A write of a document stores the one its caller gave.                   *)
LEMMA TypedStore ==
  ASSUME TypeOK, Shape, NEW c \in Tasks, pc[c] \in {"replace", "insert"}, Store(c)
  PROVE  TypeOK'
<1>1. TaskTyped(c) /\ CollectionTyped
  BY TypedParts
<1>2. call[c] \in Call /\ call[c].op = "upsert"
  BY <1>1 DEF TaskTyped, TypeOK
<1>3. call[c].tenant_id \in Tenants /\ call[c].chunk_id \in ChunkIds /\ call[c].embedding \in Embeddings
  BY <1>2 DEF Call
<1>4. DocumentOf[call[c].chunk_id] \in DocumentIds
  BY <1>3, MongoAssumption
<1>5. Document(c) \in VectorDocument
  BY <1>3, <1>4 DEF Document, VectorDocument
<1>6. CollectionTyped'
  BY <1>1, <1>3, <1>5 DEF Store, CollectionTyped
<1>7. PICK label \in {"ok", "error"} : pc' = [pc EXCEPT ![c] = label]
  BY DEF Store, Goto
<1>8. UNCHANGED <<call, scan, matches>>
  BY DEF Store
<1>9. mine' \in [Tasks -> SUBSET ChunkIds]
  <2>1. \A x \in Tasks : mine[x] \in SUBSET ChunkIds
    BY DEF TypeOK
  <2> QED BY <2>1 DEF Store, Written
<1>10. standing' \in [Tasks -> BOOLEAN] /\ \A x \in Tasks : standing'[x] => standing[x]
  <2>1. standing' = [x \in Tasks |-> standing[x] /\ (x = c \/ call[x].chunk_id # call[c].chunk_id)]
    BY DEF Store, Written
  <2>2. \A x \in Tasks : standing[x] \in BOOLEAN
    BY DEF TypeOK
  <2> QED BY <2>1, <2>2
<1>11. pc'[c] = label /\ label \in Ended /\ scan[c] = {} /\ matches[c] = <<>>
  BY <1>1, <1>7 DEF Shape, TaskTyped, Ended
<1>12. TaskTyped(c)'
  BY <1>1, <1>2, <1>8, <1>11, <1>7 DEF TaskTyped
<1> QED BY <1>2, <1>6, <1>7, <1>8, <1>9, <1>10, <1>11, <1>12, TypedStep

(* A step of the server or of the driver that begins no call and stores    *)
(* nothing.                                                                *)
LEMMA TypedQuiet ==
  ASSUME TypeOK, Shape, NEW c \in Tasks, UNCHANGED <<collection, call, standing>>,
         NEW label \in Ended \cup Working, pc' = [pc EXCEPT ![c] = label],
         UNCHANGED scan \/ scan' = [scan EXCEPT ![c] = {}],
         scan'[c] = {},
         \A x \in Tasks \ {c} : matches'[x] = matches[x],
         matches'[c] \in Seq([chunk_id : ChunkIds, tenant_id : Tenants]),
         matches'[c] # <<>> => label \in {"cursor", "ok"} /\ call[c].op = "search",
         label \in {"match", "replace", "insert", "duplicate_key"} => call[c].op = "upsert",
         mine' \in [Tasks -> SUBSET ChunkIds]
  PROVE  TypeOK'
<1>1. TaskTyped(c) /\ CollectionTyped /\ call[c] \in Call
  BY TypedParts DEF TypeOK
<1>2. pc'[c] = label
  BY DEF Shape
<1>3. TaskTyped(c)'
  BY <1>1, <1>2 DEF TaskTyped
<1>4. CollectionTyped'
  BY <1>1 DEF CollectionTyped
<1>5. standing' \in [Tasks -> BOOLEAN] /\ \A x \in Tasks \ {c} : standing'[x] => standing[x]
  BY DEF TypeOK
<1> QED BY <1>1, <1>3, <1>4, <1>5, TypedStep

(* The hits of an aggregation are stored documents.                        *)
LEMMA HitsTyped ==
  ASSUME CollectionTyped, NEW t, NEW k \in Nat, NEW hits \in Hits(t, k)
  PROVE  hits \in Seq([chunk_id : ChunkIds, tenant_id : Tenants])
<1>1. PICK ids \in SeqOf(Candidates(t), k) : hits = [i \in DOMAIN ids |-> Hit(ids[i])]
  BY DEF Hits
<1>2. PICK m \in 0..k : ids \in [1..m -> Candidates(t)]
  BY <1>1 DEF SeqOf
<1>3. \A id \in Candidates(t) : Hit(id) \in [chunk_id : ChunkIds, tenant_id : Tenants]
  <2>1. \A id \in Candidates(t) : id \in ChunkIds /\ collection[id].tenant_id \in Tenants
    BY DEF Candidates, CollectionTyped, VectorDocument
  <2> SUFFICES ASSUME NEW id \in Candidates(t)
               PROVE  Hit(id) \in [chunk_id : ChunkIds, tenant_id : Tenants]
    OBVIOUS
  <2>2. PICK u \in Tenants : u = collection[id].tenant_id
    BY <2>1
  <2>3. Hit(id) = [chunk_id |-> id, tenant_id |-> u]
    BY <2>2 DEF Hit
  <2> QED BY <2>1, <2>3
<1>4. hits \in [1..m -> [chunk_id : ChunkIds, tenant_id : Tenants]]
  BY <1>1, <1>2, <1>3
<1>5. ASSUME NEW S, NEW n \in Nat, NEW f \in [1..n -> S] PROVE f \in Seq(S)
  BY <1>5
<1>6. m \in Nat
  OBVIOUS
<1> QED BY <1>4, <1>5, <1>6

LEMMA TypedNext == ASSUME TypeOK, StoreInv, Next PROVE TypeOK'
<1> DEFINE Labels == Ended \cup Working
<1>1. Shape /\ \A x \in Tasks : TaskTyped(x) /\ InItsCall(x)
  BY TypedParts DEF StoreInv, CallInv
<1>2. \A x \in Tasks : pc[x] # "delete" => scan[x] = {}
  BY <1>1 DEF TaskTyped
<1>3. \A x \in Tasks : mine[x] \in SUBSET ChunkIds /\ standing[x] \in BOOLEAN
  BY DEF TypeOK
<1>4. mine \in [Tasks -> SUBSET ChunkIds] /\ standing \in [Tasks -> BOOLEAN]
  BY DEF TypeOK
<1>5. ASSUME NEW c \in Tasks, NEW t \in Tenants, NEW e \in Embeddings, NEW id \in ChunksOf[t],
             upsert(c, t, id, e)
      PROVE  TypeOK'
  <2>1. PICK args \in Call :
          args = [op |-> "upsert", tenant_id |-> t, chunk_id |-> id, embedding |-> e]
    BY TypedCalls
  <2>2. Begin(c, args, "match") /\ UNCHANGED scan /\ pc[c] \in Ended
    BY <1>5, <2>1 DEF upsert, Begin
  <2>3. mine' \in [Tasks -> SUBSET ChunkIds]
    BY <1>4, <1>5 DEF upsert
  <2>4. standing' \in [Tasks -> BOOLEAN] /\ \A x \in Tasks \ {c} : standing'[x] => standing[x]
    <3>1. standing' = [standing EXCEPT ![c] = ~Purging(t, DocumentOf[id])]
      BY <1>5 DEF upsert
    <3> QED BY <1>4, <3>1
  <2>5. scan'[c] = {} /\ "match" \in Labels /\ args.op = "upsert"
    BY <1>2, <2>1, <2>2 DEF Ended, Working
  <2> HIDE DEF Labels
  <2> QED BY <1>1, <2>2, <2>3, <2>4, <2>5, TypedBegin DEF Labels
<1>6. ASSUME NEW c \in Tasks, NEW t \in Tenants, NEW d \in DocumentIds, delete_document(c, t, d)
      PROVE  TypeOK'
  <2>1. PICK args \in Call :
          args = [op |-> "delete_document", tenant_id |-> t, document_id |-> d]
    BY TypedCalls
  <2>2. PICK visits \in SUBSET ChunkIds : visits = DeleteFilter(t, d)
    BY TypedParts DEF DeleteFilter, CollectionTyped
  <2>3. Begin(c, args, "delete") /\ scan' = [scan EXCEPT ![c] = visits]
    BY <1>6, <2>1, <2>2 DEF delete_document
  <2>4. mine' = [mine EXCEPT ![c] = visits]
    BY <1>6, <2>2 DEF delete_document, DeleteFilter
  <2>5. mine' \in [Tasks -> SUBSET ChunkIds]
    BY <1>4, <2>4
  <2>6. /\ standing' \in [Tasks -> BOOLEAN] /\ ~standing'[c]
        /\ \A x \in Tasks \ {c} : standing'[x] => standing[x]
    <3>1. standing' = [x \in Tasks |-> /\ x # c /\ standing[x]
                                       /\ ~(call[x].tenant_id = t /\ DocumentOf[call[x].chunk_id] = d)]
      BY <1>6 DEF delete_document
    <3> QED BY <1>3, <3>1
  <2>7. "delete" \in Labels
    BY DEF Working
  <2> QED BY <1>1, <2>3, <2>5, <2>6, <2>7, TypedBegin
<1>7. ASSUME NEW c \in Tasks, NEW t \in Tenants, NEW k \in TopKs, search(c, t, k)
      PROVE  TypeOK'
  <2>1. PICK args \in Call : args = [op |-> "search", tenant_id |-> t, top_k |-> k]
    BY TypedCalls
  <2>2. PICK label \in {"aggregate", "unsupported"} :
          label = IF SupportsVectorSearch THEN "aggregate" ELSE "unsupported"
    OBVIOUS
  <2>3. Begin(c, args, label) /\ UNCHANGED scan /\ pc[c] \in Ended
    BY <1>7, <2>1, <2>2 DEF search, Begin
  <2>4. /\ mine' = [mine EXCEPT ![c] = {}] /\ standing' = [standing EXCEPT ![c] = FALSE]
    BY <1>7 DEF search
  <2>5. mine' \in [Tasks -> SUBSET ChunkIds]
    BY <1>4, <2>4
  <2>6. /\ standing' \in [Tasks -> BOOLEAN] /\ ~standing'[c]
        /\ \A x \in Tasks \ {c} : standing'[x] => standing[x]
    BY <1>4, <2>4
  <2>7. scan'[c] = {} /\ label \in Labels
    BY <1>2, <2>3 DEF Ended, Working
  <2> QED BY <1>1, <2>2, <2>3, <2>5, <2>6, <2>7, TypedBegin
<1>8. ASSUME NEW c \in Tasks, Replace(c) \/ Insert(c) PROVE TypeOK'
  BY <1>1, <1>8, TypedStore DEF Replace, Insert
<1>9. ASSUME NEW c \in Tasks, Match(c) \/ MatchGone(c) \/ DuplicateKey(c) PROVE TypeOK'
  <2>1. PICK label \in {"match", "replace", "insert", "duplicate_key"} :
          pc' = [pc EXCEPT ![c] = label]
    BY <1>9 DEF Match, MatchGone, DuplicateKey, Goto
  <2>2. /\ pc[c] \in {"match", "replace", "insert"}
        /\ UNCHANGED <<collection, call, scan, matches, mine, standing>>
    BY <1>9 DEF Match, MatchGone, DuplicateKey
  <2>3. /\ scan[c] = {} /\ matches[c] = <<>> /\ call[c].op = "upsert"
        /\ matches[c] \in Seq([chunk_id : ChunkIds, tenant_id : Tenants])
    BY <1>1, <2>2 DEF TaskTyped
  <2>4. label \in Labels
    BY DEF Ended, Working
  <2> QED BY <1>1, <1>4, <2>1, <2>2, <2>3, <2>4, TypedQuiet
<1>10. ASSUME NEW c \in Tasks, Deleted(c) \/ CursorDone(c) PROVE TypeOK'
  <2>1. /\ pc' = [pc EXCEPT ![c] = "ok"] /\ pc[c] \in {"delete", "cursor"}
        /\ UNCHANGED <<collection, call, scan, matches, mine, standing>>
    BY <1>10 DEF Deleted, CursorDone, Goto
  <2>2. scan[c] = {}
    BY <1>2, <1>10 DEF Deleted, CursorDone
  <2>3. /\ matches[c] \in Seq([chunk_id : ChunkIds, tenant_id : Tenants])
        /\ matches[c] # <<>> => call[c].op = "search"
    BY <1>1 DEF TaskTyped
  <2>4. "ok" \in Labels
    BY DEF Ended
  <2> QED BY <1>1, <1>4, <2>1, <2>2, <2>3, <2>4, TypedQuiet
<1>11. ASSUME NEW c \in Tasks, Aggregate(c) PROVE TypeOK'
  <2>1. /\ pc[c] = "aggregate" /\ pc' = [pc EXCEPT ![c] = "cursor"]
        /\ mine' = [mine EXCEPT ![c] = Candidates(call[c].tenant_id)]
        /\ UNCHANGED <<collection, call, scan, standing>>
    BY <1>11 DEF Aggregate, Goto
  <2>2. call[c].op = "search" /\ call[c].top_k \in Nat /\ scan[c] = {}
    <3>1. call[c].op = "search" /\ call[c] \in Call /\ scan[c] = {}
      BY <1>1, <1>2, <2>1 DEF InItsCall, TypeOK
    <3>2. call[c].top_k \in TopKs
      BY <3>1 DEF Call
    <3> QED BY <3>1, <3>2, MongoAssumption
  <2>3. Limit(call[c].top_k) \in Nat
    BY <2>2 DEF Limit
  <2>4. PICK hits \in Hits(call[c].tenant_id, Limit(call[c].top_k)) :
          matches' = [matches EXCEPT ![c] = hits]
    BY <1>11 DEF Aggregate
  <2>5. hits \in Seq([chunk_id : ChunkIds, tenant_id : Tenants])
    BY <2>3, TypedParts, HitsTyped
  <2>6. matches'[c] = hits /\ \A x \in Tasks \ {c} : matches'[x] = matches[x]
    BY <1>1, <2>4 DEF Shape
  <2>7. mine' \in [Tasks -> SUBSET ChunkIds]
    <3>1. Candidates(call[c].tenant_id) \in SUBSET ChunkIds
      BY TypedParts DEF Candidates, CollectionTyped
    <3> QED BY <1>4, <2>1, <3>1
  <2>8. "cursor" \in Labels
    BY DEF Working
  <2> QED BY <1>1, <2>1, <2>2, <2>5, <2>6, <2>7, <2>8, TypedQuiet
<1>12. ASSUME NEW c \in Tasks, Disconnect(c) PROVE TypeOK'
  <2>1. /\ pc' = [pc EXCEPT ![c] = "error"] /\ scan' = [scan EXCEPT ![c] = {}]
        /\ matches' = [matches EXCEPT ![c] = <<>>]
        /\ UNCHANGED <<collection, call, mine, standing>>
    BY <1>12 DEF Disconnect, Goto
  <2>2. /\ matches'[c] = <<>> /\ scan'[c] = {}
        /\ \A x \in Tasks \ {c} : matches'[x] = matches[x]
    BY <1>1, <2>1 DEF Shape
  <2>3. "error" \in Labels /\ <<>> \in Seq([chunk_id : ChunkIds, tenant_id : Tenants])
    BY DEF Ended
  <2> QED BY <1>1, <1>4, <2>1, <2>2, <2>3, TypedQuiet
<1>13. ASSUME NEW c \in Tasks, NEW id \in ChunkIds, Visit(c, id) PROVE TypeOK'
  <2>1. PICK visits \in SUBSET ChunkIds : visits = scan[c] \ {id}
    BY DEF TypeOK
  <2>2. /\ scan' = [scan EXCEPT ![c] = visits] /\ pc[c] = "delete"
        /\ UNCHANGED <<call, pc, matches, mine, standing>>
    BY <1>13, <2>1 DEF Visit
  <2>3. CollectionTyped'
    <3>1. /\ DOMAIN collection' \subseteq DOMAIN collection
          /\ \A i \in DOMAIN collection' : collection'[i] = collection[i]
      BY <1>13 DEF Visit
    <3> QED BY <3>1, TypedParts DEF CollectionTyped
  <2>4. TaskTyped(c)'
    BY <1>1, <2>2 DEF TaskTyped
  <2>5. call[c] \in Call /\ pc[c] \in Labels
    BY DEF TypeOK
  <2> QED BY <1>4, <2>1, <2>2, <2>3, <2>4, <2>5, TypedStep
<1> QED
  BY <1>5, <1>6, <1>7, <1>8, <1>9, <1>10, <1>11, <1>12, <1>13 DEF Next, Step

(* Every variable has its type, a task waits where its call can be, and    *)
(* only a search that was answered has hits to return (vector.rs:86-209).  *)
THEOREM TypeCorrect == Spec => []TypeOK
<1>1. ASSUME Init PROVE TypeOK
  <2>1. DOMAIN collection = {}
    BY <1>1 DEF Init
  <2> QED BY <1>1, <2>1 DEF Init, TypeOK, Call, Ended
<1>2. StoreInv /\ TypeOK /\ [Next]_vars => TypeOK'
  <2>1. TypeOK /\ UNCHANGED vars => TypeOK'
    BY DEF TypeOK, vars
  <2> QED BY <2>1, TypedNext
<1> QED BY <1>1, <1>2, StoreInvAlways, PTL DEF Spec
=============================================================================
