---------------------------- MODULE TenantStore ----------------------------
(***************************************************************************)
(* What the VectorStore trait (crates/milona-core/src/traits.rs:33-58)     *)
(* promises its callers: each tenant has a map of its own from chunk ids   *)
(* to records, every operation touches the caller's map only, and a search *)
(* ranks the caller's records.  The in-memory and the Mongo store are      *)
(* checked against this module.                                            *)
(***************************************************************************)
EXTENDS Integers, FiniteSets, Sequences

CONSTANTS
  Tenants, ChunkIds, DocumentIds, Embeddings, Queries,
  Score(_, _),  \* the similarity of a query and an embedding, an integer
  Exact         \* TRUE when the search is exhaustive, FALSE for an ANN index

VARIABLES
  chunks,       \* chunks[t]: the records of tenant t, by chunk id
  answer        \* the outcome of the last operation

vars == <<chunks, answer>>

Record == [document_id : DocumentIds, embedding : Embeddings]

(* A failed operation: which errors there are is the store's business.     *)
Failed == {"error", "panic"}

Init ==
  /\ chunks = [t \in Tenants |-> <<>>]
  /\ answer = [kind |-> "none"]

upsert(t) ==
  \E c \in ChunkIds, r \in Record :
    /\ chunks' = [chunks EXCEPT ![t] =
                    [i \in DOMAIN chunks[t] \cup {c} |-> IF i = c THEN r ELSE chunks[t][i]]]
    /\ answer' = [kind |-> "stored", tenant |-> t]

(* hits are records of t, each at most once, best first, at most k; an     *)
(* exhaustive search leaves no better one out.                             *)
IsRanking(t, q, k, hits) ==
  LET mine == DOMAIN chunks[t]
      found == {hits[i] : i \in DOMAIN hits}
      score(c) == Score(q, chunks[t][c].embedding)
  IN  /\ found \subseteq mine
      /\ \A i, j \in DOMAIN hits : i < j => /\ hits[i] # hits[j]
                                            /\ score(hits[i]) >= score(hits[j])
      /\ Len(hits) <= k
      /\ Exact => /\ Len(hits) < k => found = mine
                  /\ \A c \in mine \ found, h \in found : score(c) <= score(h)

search(t) ==
  /\ answer'.kind = "found" /\ answer'.tenant = t
  /\ answer'.query \in Queries
  /\ IsRanking(t, answer'.query, answer'.top_k, answer'.hits)
  /\ UNCHANGED chunks

delete_document(t) ==
  \E d \in DocumentIds :
    /\ chunks' = [chunks EXCEPT ![t] =
                    [c \in {i \in DOMAIN @ : @[i].document_id # d} |-> @[c]]]
    /\ answer' = [kind |-> "deleted", tenant |-> t]

(* An operation may fail; it then has no effect.                           *)
fail(t) ==
  /\ answer'.kind \in Failed /\ answer'.tenant = t
  /\ UNCHANGED chunks

Next == \E t \in Tenants : upsert(t) \/ search(t) \/ delete_document(t) \/ fail(t)

Spec == Init /\ [][Next]_vars
=============================================================================
