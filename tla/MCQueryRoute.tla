---------------------------- MODULE MCQueryRoute ----------------------------
(* A small instance of QueryRoute for TLC.                                 *)
EXTENDS QueryRoute, TLC

CONSTANTS c1, c2

MC_Entry(k, t, s) == [key |-> k, tenant |-> t, role |-> "member", subject |-> s]
MC_TooFewParts == [key |-> "k2", tenant |-> "t1"]

(* Two keys of one tenant and subject, behind a malformed entry, with a    *)
(* storage name that is misspelt; the keys of two callers; a key that is   *)
(* set again, an empty key and a tenant that is no UUID; no keys, on       *)
(* DocumentDB; blank keys; malformed entries only; Mongo without a         *)
(* database; the query command.                                            *)
MC_Environments ==
  { [command |-> "serve", storage_backend |-> "mongodb",
     api_keys |-> <<MC_TooFewParts, MC_Entry("k1", "t1", "alice"), MC_Entry("k2", "t1", "alice")>>],
    [command |-> "serve",
     api_keys |-> <<MC_Entry("k1", "t1", "alice"), MC_Entry("k2", "t2", "alice")>>],
    [command |-> "serve",
     api_keys |-> <<MC_Entry("k1", "t2", "alice"), MC_Entry("k2", "oops", "alice"),
                    MC_Entry("", "t2", "alice"), MC_Entry("k1", "t1", "alice")>>],
    [command |-> "serve", storage_backend |-> "mongo", mongo_uri |-> "valid", mongo_db |-> "milona",
     mongo_backend |-> "document_db"],
    [command |-> "serve", api_keys |-> <<>>, storage_backend |-> "mongo", mongo_uri |-> "valid",
     mongo_db |-> "milona"],
    [command |-> "serve", api_keys |-> <<MC_TooFewParts, MC_Entry("k1", "oops", "alice")>>],
    [command |-> "serve", storage_backend |-> "mongo", mongo_uri |-> "valid"],
    [command |-> "query"] }

(* What the keys of these environments stand for.                          *)
MC_Identities == {<<"dev-tenant", "dev">>, <<"t1", "alice">>, <<"t2", "alice">>}
MC_Tenants == [i \in MC_Identities |-> i[1]]
MC_Subjects == [i \in MC_Identities |-> i[2]]

(* A question may name a tenant of the client's choice.                    *)
MC_Bodies == {[kind |-> "malformed"], [kind |-> "blank"], [kind |-> "question", tenant_id |-> "t2"]}
Symmetric == Permutations({c1, c2})
=============================================================================
