------------------------------ MODULE Startup ------------------------------
(***************************************************************************)
(* How a milona process starts: main.rs, cli.rs and the builders of        *)
(* AppState in state.rs.  `milona serve` reads the API keys and the        *)
(* storage from the environment; `milona query` builds the default wiring  *)
(* for one question.  A process that cannot start ends with an error and   *)
(* is started again.                                                       *)
(*                                                                         *)
(* An environment is a record of the variables that are set and of the     *)
(* command.  The text of MILONA_API_KEYS is the sequence of its entries,   *)
(* empty when it is blank; an entry is the record of its parts, of which   *)
(* there may be too few, and its tenant is in Tenants when it parses as a  *)
(* UUID.  Upper and lower case are one, as the code's comparisons have it. *)
(***************************************************************************)
EXTENDS Integers, Sequences

CONSTANTS
  Environments,      \* what the process may be started with
  Tenants,
  DevKey, DevTenant  \* what is generated when no keys are set

VARIABLES
  stage,        \* how far the process has come
  environment,  \* what it was started with
  next,         \* the entry parse_api_keys looks at next
  directory,    \* ApiKeyDirectory.keys
  storage       \* the stores behind AppState.knowledge

vars == <<stage, environment, next, directory, storage>>

BootStages == {"down", "parsing", "built", "serving", "one_shot"}

Set(v) == v \in DOMAIN environment
Entries == IF Set("api_keys") THEN environment.api_keys ELSE <<>>

-----------------------------------------------------------------------------
(* parse_api_keys, one entry at a time.                                    *)

RoleOf == [admin |-> "Admin", member |-> "Member", readonly |-> "ReadOnly",
           read_only |-> "ReadOnly", service |-> "Service"]

\* Mutant: the uuid is not looked at.
WellFormed_AnyTenant(e) ==
  DOMAIN e = {"key", "tenant", "role", "subject"} /\ e.role \in DOMAIN RoleOf

(* Four parts, a tenant that is a UUID, a role that is one.                *)
WellFormed(e) ==
  /\ DOMAIN e = {"key", "tenant", "role", "subject"}
  /\ e.tenant \in Tenants
  /\ e.role \in DOMAIN RoleOf

ApiKeyRecord(e) == [tenant_id |-> e.tenant, role |-> RoleOf[e.role], subject |-> e.subject]

\* Mutant: `entry(key).or_insert(..)`, the first entry of a key wins.
Inserted_First(keys, e) ==
  [k \in DOMAIN keys \cup {e.key} |-> IF k \in DOMAIN keys THEN keys[k] ELSE ApiKeyRecord(e)]

(* `keys.insert`: a later entry of the same key replaces an earlier one.   *)
Inserted(keys, e) ==
  [k \in DOMAIN keys \cup {e.key} |-> IF k = e.key THEN ApiKeyRecord(e) ELSE keys[k]]

NoKeys == [k \in {} |-> "none"]
DevDirectory ==
  [k \in {DevKey} |-> [tenant_id |-> DevTenant, role |-> "Admin", subject |-> "dev"]]

-----------------------------------------------------------------------------
(* knowledge_from_env, build_mongo_knowledge.                              *)

MongoAsked == Set("storage_backend") /\ environment.storage_backend = "mongo"
MongoConfigured == Set("mongo_uri") /\ environment.mongo_uri = "valid" /\ Set("mongo_db")
MongoBackend ==
  IF Set("mongo_backend") /\ environment.mongo_backend = "document_db"
  THEN "document_db" ELSE "atlas"

(* MongoBackend::supports_vector_search; the in-memory stores always do.   *)
SupportsSearch == storage # "document_db"

-----------------------------------------------------------------------------
Init ==
  /\ stage = "down"
  /\ environment \in Environments
  /\ next = 1
  /\ directory = NoKeys
  /\ storage = "none"

(* main, and the choice at the head of build_serve_state: a generated key  *)
(* when MILONA_API_KEYS is unset or blank.                                 *)
main(env) ==
  /\ stage = "down"
  /\ environment' = env
  /\ next' = 1
  /\ storage' = IF env.command = "query" THEN "in_memory" ELSE "none"
  /\ directory' = IF env.command = "serve" /\ Entries' = <<>> THEN DevDirectory ELSE NoKeys
  /\ stage' = IF env.command = "query" THEN "one_shot" ELSE "parsing"

(* parse_api_keys: one turn of its loop.                                   *)
ParseEntry ==
  /\ stage = "parsing" /\ next <= Len(Entries)
  /\ directory' = IF WellFormed(Entries[next])
                  THEN Inserted(directory, Entries[next]) ELSE directory
  /\ next' = next + 1
  /\ UNCHANGED <<stage, environment, storage>>

new_from_env ==
  /\ stage = "parsing" /\ next > Len(Entries)
  /\ \/ /\ ~MongoAsked
        /\ storage' = "in_memory" /\ stage' = "built"
     \/ /\ MongoAsked /\ MongoConfigured
        /\ storage' = MongoBackend /\ stage' = "built"
     \/ /\ MongoAsked /\ ~MongoConfigured
        /\ stage' = "down" /\ UNCHANGED storage
  /\ UNCHANGED <<environment, next, directory>>

(* TcpListener::bind, which may fail.                                      *)
bind ==
  /\ stage = "built"
  /\ stage' \in {"serving", "down"}
  /\ UNCHANGED <<environment, next, directory, storage>>

(* run_query_command: one turn over the default wiring, and the end.       *)
run_query_command ==
  /\ stage = "one_shot"
  /\ stage' = "down"
  /\ UNCHANGED <<environment, next, directory, storage>>

Next ==
  \/ \E env \in Environments : main(env)
  \/ ParseEntry \/ new_from_env \/ bind \/ run_query_command

Spec == Init /\ [][Next]_vars

-----------------------------------------------------------------------------
(* Correctness.                                                            *)

(* Every variable has its type; the loop of parse_api_keys stays inside    *)
(* the entries.                                                            *)
TypeOK ==
  /\ stage \in BootStages
  /\ environment \in Environments
  /\ next \in 1..(Len(Entries) + 1)
  /\ storage \in {"none", "in_memory", "atlas", "document_db"}
  /\ \A k \in DOMAIN directory : directory[k].tenant_id \in Tenants \cup {DevTenant}

(* Entry i is the last of the first n that is well formed and names key k. *)
LastNaming(k, i, n) ==
  /\ i \in 1..n /\ WellFormed(Entries[i]) /\ Entries[i].key = k
  /\ \A j \in (i + 1)..n : ~(WellFormed(Entries[j]) /\ Entries[j].key = k)

(* A key of the directory is the generated one, and only when no keys were *)
(* set, or it has the record of the last well-formed entry read that names *)
(* it; and every well-formed entry read has its key there (cli.rs:57-62,   *)
(* 90-130): a malformed entry costs its own key only.                      *)
DirectoryIsConfigured ==
  /\ \A k \in DOMAIN directory :
       \/ Entries = <<>> /\ k = DevKey /\ directory[k].tenant_id = DevTenant
       \/ \E i \in 1..(next - 1) :
            LastNaming(k, i, next - 1) /\ directory[k] = ApiKeyRecord(Entries[i])
  /\ \A i \in 1..(next - 1) : WellFormed(Entries[i]) => Entries[i].key \in DOMAIN directory
=============================================================================
