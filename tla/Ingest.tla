------------------------------- MODULE Ingest -------------------------------
(***************************************************************************)
(* Ingestion of documents into the in-memory store: the three sources, the *)
(* chunker and the embedder of crates/milona-ingest, in the order its docs *)
(* give (chunking, embedding, storage; embedder.rs:17-19), by jobs that    *)
(* run beside each other and beside direct callers of the store.  Nothing  *)
(* in the workspace drives the pipeline yet: that a job upserts the chunks *)
(* of its document one after the other is external.                        *)
(*                                                                         *)
(* A text is a sequence of words.  A page is a tree: its nodes in document *)
(* order, each with its parent's index (0 for the root element), its       *)
(* element's name or "text", and the words of a text node, none when it is *)
(* blank.                                                                  *)
(***************************************************************************)
EXTENDS MemoryVectorStore, Functions

CONSTANTS
  Jobs,            \* ingestions that can be in progress together
  Texts, Pages,    \* what files and web pages contain
  MaxCharacters, Overlap,   \* the chunker's ChunkConfig, in words
  Fingerprint(_),  \* the vector a bag of tokens hashes to
  NewDocument,     \* the ids the documents of each tenant are given, in order
  NewChunk,        \* and those of its chunks
  DirectIds,       \* chunk ids that direct callers of the store upsert
  DirectVectors    \* and the embeddings they give

ASSUME SplitterAssumption == Overlap \in Nat /\ MaxCharacters \in Nat /\ Overlap < MaxCharacters

(* Ids are UUIDs: none is given twice, and no direct caller has a new one. *)
ASSUME IdAssumption ==
  /\ NewDocument \in [Tenants -> Seq(DocumentIds)] /\ NewChunk \in [Tenants -> Seq(ChunkIds)]
  /\ \A t, u \in Tenants :
       /\ \A i \in DOMAIN NewDocument[t], k \in DOMAIN NewDocument[u] :
            NewDocument[t][i] = NewDocument[u][k] => t = u /\ i = k
       /\ \A i \in DOMAIN NewChunk[t], k \in DOMAIN NewChunk[u] :
            NewChunk[t][i] = NewChunk[u][k] => t = u /\ i = k
  /\ \A t \in Tenants : \A i \in DOMAIN NewChunk[t] :
       OwnerOf[NewChunk[t][i]] = t /\ NewChunk[t][i] \notin DirectIds
  /\ DirectIds \subseteq ChunkIds /\ DirectVectors \subseteq Embeddings

VARIABLES
  job,       \* where each job is, with its tenant, document and chunks
  documents, \* DocumentId::new: how many each tenant has been given
  chunk_ids, \* ChunkId::new: the same for chunks
  log        \* history: what was ingested, by document id

ingestVars == <<job, documents, chunk_ids, log>>
allVars == <<records, poisoned, answer, job, documents, chunk_ids, log>>

-----------------------------------------------------------------------------
(* WebSource::extract_text.                                                *)

(* The nodes a node is inside of.                                          *)
Ancestors(page) ==
  LET above[n \in 0..Len(page)] ==
        IF n = 0 THEN {} ELSE {page[n].parent} \cup above[page[n].parent]
  IN above

Descendants(page, n) == {k \in DOMAIN page : n \in Ancestors(page)[k]}

Noise == {"script", "style", "noscript"}

\* Mutant: the elements themselves only.
NoiseNodes_Shallow(page) == {n \in DOMAIN page : page[n].kind \in Noise}

NoiseNodes(page) ==
  UNION {Descendants(page, n) \cup {n} : n \in {k \in DOMAIN page : page[k].kind \in Noise}}

HasBody(page) == \E n \in DOMAIN page : page[n].kind = "body"

(* The first body, or else the root element.                               *)
TextRoot(page) ==
  IF HasBody(page) THEN Min({n \in DOMAIN page : page[n].kind = "body"}) ELSE 1

extract_text(page) ==
  FlattenSeq([n \in DOMAIN page |->
                IF /\ n \in Descendants(page, TextRoot(page)) \cup {TextRoot(page)}
                   /\ n \notin NoiseNodes(page)
                   /\ page[n].kind = "text"
                THEN page[n].words ELSE <<>>])

-----------------------------------------------------------------------------
(* RecursiveChunker: the windows are the text-splitter crate's.            *)

Windows(text) ==
  LET stride == MaxCharacters - Overlap
      count == IF Len(text) <= MaxCharacters THEN 1
               ELSE 1 + ((Len(text) - MaxCharacters + stride - 1) \div stride)
      end(k) == (k - 1) * stride + MaxCharacters
  IN [k \in 1..count |-> SubSeq(text, (k - 1) * stride + 1,
                                IF end(k) < Len(text) THEN end(k) ELSE Len(text))]

(* A blank text has no chunks.                                             *)
Pieces(text) == IF text = <<>> THEN <<>> ELSE Windows(text)

chunk(t, text) ==
  [k \in DOMAIN Pieces(text) |->
     [id |-> NewChunk[t][chunk_ids[t] + k], text |-> Pieces(text)[k], sequence |-> k - 1]]

(* MockEmbedder::embed: what the tokens add up to, whatever their order.   *)
embed(text) ==
  Fingerprint([w \in Range(text) |-> Cardinality({i \in DOMAIN text : text[i] = w})])

(* What a source can answer: its text, of files or of the page.            *)
TextOf(source) == IF source.kind = "Web" THEN extract_text(source.page) ELSE source.text

Sources ==
  [kind : {"File"}, text : Texts] \cup [kind : {"Web"}, page : Pages]

(* A text is finite, and what its pieces hash to is an embedding.          *)
ASSUME TextAssumption ==
  \A source \in Sources :
    /\ Len(TextOf(source)) \in Nat
    /\ \A k \in DOMAIN Pieces(TextOf(source)) :
         embed(Pieces(TextOf(source))[k]) \in Embeddings

(* What the HTML parser makes of any page: the root element comes first, a *)
(* node after its parent, and, unless the page has no body, each word is   *)
(* in the head or in the (only) body, never in both.                       *)
ASSUME PageAssumption ==
  \A page \in Pages :
    /\ Len(page) \in Nat \ {0} /\ DOMAIN page = 1..Len(page)
    /\ page[1].parent = 0 /\ \A n \in 2..Len(page) : page[n].parent \in 1..(n - 1)
    /\ \A n \in DOMAIN page : page[n].words \in Seq(Range(page[n].words))
    /\ \A n \in DOMAIN page :
         HasBody(page) /\ page[n].kind = "text" /\ page[n].words # <<>> =>
           (n \in Descendants(page, TextRoot(page))
              <=> \A h \in DOMAIN page : page[h].kind = "head" => n \notin Descendants(page, h))

-----------------------------------------------------------------------------
Idle == [stage |-> "idle"]
NoDocument == [d \in {} |-> Idle]

IngestInit ==
  /\ Init
  /\ job = [j \in Jobs |-> Idle]
  /\ documents = [t \in Tenants |-> 0]
  /\ chunk_ids = [t \in Tenants |-> 0]
  /\ log = NoDocument

(* DocumentSource::fetch, up to its await.                                 *)
fetch(j, t, source) ==
  /\ job[j].stage = "idle"
  /\ documents[t] < Len(NewDocument[t])
  /\ job' = [job EXCEPT ![j] = [stage |-> "fetching", tenant |-> t, source |-> source]]
  /\ UNCHANGED <<vars, documents, chunk_ids, log>>

(* The document has been read: it and its chunks are given new ids.        *)
Fetched(j) ==
  LET t == job[j].tenant
      text == TextOf(job[j].source)
      d == NewDocument[t][documents[t] + 1]
  IN
  /\ job[j].stage = "fetching"
  /\ documents[t] < Len(NewDocument[t])
  /\ chunk_ids[t] + Len(Pieces(text)) <= Len(NewChunk[t])
  /\ documents' = [documents EXCEPT ![t] = @ + 1]
  /\ chunk_ids' = [chunk_ids EXCEPT ![t] = @ + Len(Pieces(text))]
  /\ job' = [job EXCEPT ![j] = [stage |-> "storing", tenant |-> t, document |-> d,
                                chunks |-> chunk(t, text), next |-> 1]]
  /\ log' = [x \in DOMAIN log \cup {d} |->
               IF x = d THEN [tenant |-> t, source |-> job[j].source, chunks |-> chunk(t, text),
                              stored |-> 0, purged |-> 0]
               ELSE log[x]]
  /\ UNCHANGED vars

(* The source fails, whatever its IngestError, or the job is dropped while *)
(* it awaits the source: nothing is kept of it.                            *)
FetchFails(j) ==
  /\ job[j].stage = "fetching"
  /\ job' = [job EXCEPT ![j] = Idle]
  /\ UNCHANGED <<vars, documents, chunk_ids, log>>

Store(j) ==
  /\ job[j].stage = "storing" /\ job[j].next <= Len(job[j].chunks)
  /\ LET c == job[j].chunks[job[j].next]
     IN upsert(job[j].tenant, c.id, job[j].document, embed(c.text))
  /\ job' = [job EXCEPT ![j].next = @ + 1]
  /\ log' = [log EXCEPT ![job[j].document].stored = @ + 1]
  /\ UNCHANGED <<documents, chunk_ids>>

(* The store is poisoned: the job ends, with the chunks before it stored.  *)
StorePanics(j) ==
  /\ job[j].stage = "storing" /\ job[j].next <= Len(job[j].chunks)
  /\ lock_panics(job[j].tenant)
  /\ job' = [job EXCEPT ![j] = Idle]
  /\ UNCHANGED <<documents, chunk_ids, log>>

Finish(j) ==
  /\ job[j].stage = "storing" /\ job[j].next > Len(job[j].chunks)
  /\ job' = [job EXCEPT ![j] = Idle]
  /\ UNCHANGED <<vars, documents, chunk_ids, log>>

(* A tenant purges a document, its own or another's.                       *)
Purge(t, d) ==
  /\ delete_document(t, d)
  /\ log' = [x \in DOMAIN log |-> IF x = d /\ log[x].tenant = t
                                  THEN [log[x] EXCEPT !.purged = log[x].stored] ELSE log[x]]
  /\ UNCHANGED <<job, documents, chunk_ids>>

(* The other callers of the store.                                         *)
Direct(t) ==
  /\ \/ \E c \in DirectIds, d \in DocumentIds, e \in DirectVectors : upsert(t, c, d, e)
     \/ \E q \in Queries, k \in 0..MaxTopK : search(t, q, k)
     \/ \E q \in Queries : search_panics(t, q)
     \/ lock_panics(t)
  /\ UNCHANGED ingestVars

IngestNext ==
  \/ \E j \in Jobs, t \in Tenants, source \in Sources : fetch(j, t, source)
  \/ \E j \in Jobs :
       Fetched(j) \/ FetchFails(j) \/ Store(j) \/ StorePanics(j) \/ Finish(j)
  \/ \E t \in Tenants : Direct(t) \/ \E d \in DocumentIds : Purge(t, d)

IngestSpec == IngestInit /\ [][IngestNext]_allVars

-----------------------------------------------------------------------------
(* Correctness.                                                            *)

ChunksOf(d) == log[d].chunks

(* What the store holds of an ingested document is, at every moment and    *)
(* whoever purges what: the chunks its job has stored since the document's *)
(* own tenant last purged it, in the order of the text, under that tenant. *)
(* A failure leaves the first chunks, a purge during the ingestion the     *)
(* last ones, never others (memory.rs:43-59, 85-93; chunker.rs:73-88).     *)
IngestedInOrder ==
  \A d \in DOMAIN log :
    LET held == {k \in DOMAIN ChunksOf(d) : ChunksOf(d)[k].id \in DOMAIN records}
    IN /\ held = (log[d].purged + 1)..log[d].stored
       /\ \A k \in held : /\ ChunksOf(d)[k].sequence = k - 1
                          /\ records[ChunksOf(d)[k].id].tenant_id = log[d].tenant
                          /\ records[ChunksOf(d)[k].id].document_id = d

(* Whether a node of a page is shown, from the root downwards: the head is *)
(* not, unless the page (of frames) has no body.                           *)
Shown(page) ==
  LET shown[n \in 0..Len(page)] ==
        \/ n = 0
        \/ /\ page[n].kind \notin Noise
           /\ page[n].kind = "head" => ~HasBody(page)
           /\ shown[page[n].parent]
  IN shown

(* A web page's chunks carry, together, every word that the page shows and *)
(* no word of a script, a style sheet or a <noscript> (web.rs:7-10).       *)
VisibleTextOnly ==
  \A d \in DOMAIN log :
    log[d].source.kind = "Web" =>
      LET page == log[d].source.page
      IN UNION {Range(ChunksOf(d)[k].text) : k \in DOMAIN ChunksOf(d)}
           = UNION {Range(page[n].words) : n \in {m \in DOMAIN page :
                                                    page[m].kind = "text" /\ Shown(page)[m]}}
=============================================================================
