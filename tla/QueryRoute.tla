----------------------------- MODULE QueryRoute -----------------------------
(***************************************************************************)
(* The HTTP surface of crates/milona-presenter: app.rs's router and its    *)
(* layers, auth.rs, rate_limit.rs and handlers.rs, for requests served at  *)
(* the same time.  The directory of keys and the storage are what module   *)
(* Startup builds, the limiter is module RateLimiter; the turn is what     *)
(* answers or fails with a CoreError (module GenAiTurn says how).          *)
(***************************************************************************)
EXTENDS RateLimiter, Functions

CONSTANTS
  Tasks,        \* the requests that can be in progress together
  Environments, Tenants, DevKey, DevTenant,  \* Startup
  Headers,      \* x-api-key headers, "none" for a request without one
  Bodies,       \* the request bodies: malformed, blank or a question, which
                \* may name a tenant
  TurnErrors    \* the CoreErrors a turn can end with

ASSUME EnvironmentAssumption ==
  \A env \in Environments :
    "api_keys" \in DOMAIN env => /\ Len(env.api_keys) \in Nat
                                 /\ DOMAIN env.api_keys = 1..Len(env.api_keys)

VARIABLES
  stage, environment, next, directory, storage,  \* Startup
  pc,       \* where each request is
  request,  \* what the client sent
  context,  \* the TenantContext in the request's extensions
  status,   \* the response's status, 0 before there is one
  charged,  \* history: checks that admitted the request
  ran_as    \* history: the tenant its turn ran as

Boot == INSTANCE Startup

(* The tenants and subjects that keys may stand for.                       *)
Identities ==
  {<<DevTenant, "dev">>} \cup
  UNION {{<<e.tenant, e.subject>> : e \in {x \in Range(env.api_keys) : Boot!WellFormed(x)}} :
           env \in {x \in Environments : "api_keys" \in DOMAIN x}}

(* The limiter does not see the keys, only what they stand for.            *)
ASSUME IdentityAssumption ==
  /\ ApiKeys = Identities
  /\ TenantOf = [i \in Identities |-> i[1]]
  /\ SubjectOf = [i \in Identities |-> i[2]]

bootVars == <<stage, environment, next, directory, storage>>
routeVars == <<pc, request, context, status, charged, ran_as>>
allVars == <<stage, environment, next, directory, storage, now, tat, mark, count, admissions,
             pc, request, context, status, charged, ran_as>>

None == "none"
NoContext == [tenant_id |-> None, role |-> None, subject |-> None]
Request == [route : {"healthz"}] \cup [route : {"query"}, key : Headers, body : Bodies]
Stages == {"auth", "limit", "handler", "turn"}
Identity(c) == <<context[c].tenant_id, context[c].subject>>

-----------------------------------------------------------------------------
RouteInit ==
  /\ Boot!Init
  /\ Init
  /\ pc = [c \in Tasks |-> "idle"]
  /\ request = [c \in Tasks |-> [route |-> "healthz"]]
  /\ context = [c \in Tasks |-> NoContext]
  /\ status = [c \in Tasks |-> 0]
  /\ charged = [c \in Tasks |-> 0]
  /\ ran_as = [c \in Tasks |-> None]

Goto(c, label) == pc' = [pc EXCEPT ![c] = label]

Respond(c, code) ==
  /\ Goto(c, "answered")
  /\ status' = [status EXCEPT ![c] = code]

\* Mutant: the two `.layer` calls the other way round.
Inside_Swapped(layer) ==
  CASE layer = "route" -> "limit" [] layer = "limit" -> "auth" [] OTHER -> "handler"

(* build_router: a layer wraps what was added before it, so the last one   *)
(* added, auth, runs first.                                                *)
Inside(layer) ==
  CASE layer = "route" -> "auth" [] layer = "auth" -> "limit" [] OTHER -> "handler"

route(c, r) ==
  /\ pc[c] \in {"idle", "answered"}
  /\ request' = [request EXCEPT ![c] = r]
  /\ context' = [context EXCEPT ![c] = NoContext]
  /\ charged' = [charged EXCEPT ![c] = 0]
  /\ ran_as' = [ran_as EXCEPT ![c] = None]
  /\ IF r.route = "healthz"
     THEN Respond(c, 200)
     ELSE Goto(c, Inside("route")) /\ status' = [status EXCEPT ![c] = 0]
  /\ UNCHANGED vars

(* ApiKeyDirectory::validate; an empty key is refused before it is asked.  *)
require_api_key(c) ==
  /\ pc[c] = "auth"
  /\ LET key == request[c].key
     IN  IF key \notin {None, ""} /\ key \in DOMAIN directory
         THEN /\ context' = [context EXCEPT ![c] = directory[key]]
              /\ Goto(c, Inside("auth"))
              /\ UNCHANGED status
         ELSE Respond(c, 401) /\ UNCHANGED context
  /\ UNCHANGED <<request, charged, ran_as>> /\ UNCHANGED vars

(* Without a context the limiter is not asked and the request is refused.  *)
Refused(c) ==
  /\ pc[c] = "limit"
  /\ IF context[c] = NoContext THEN UNCHANGED vars ELSE reject(Identity(c))
  /\ Respond(c, 429)
  /\ UNCHANGED <<request, context, charged, ran_as>>

\* Mutant: requests of one key that arrive together share a check.
Admitted_Once(c) ==
  /\ pc[c] = "limit" /\ context[c] # NoContext
  /\ IF \E d \in Tasks \ {c} : pc[d] = "handler" /\ context[d] = context[c]
     THEN UNCHANGED vars /\ UNCHANGED charged
     ELSE /\ admit(Identity(c))
          /\ charged' = [charged EXCEPT ![c] = @ + 1]
  /\ Goto(c, Inside("limit"))
  /\ UNCHANGED <<request, context, status, ran_as>>

Admitted(c) ==
  /\ pc[c] = "limit" /\ context[c] # NoContext
  /\ admit(Identity(c))
  /\ charged' = [charged EXCEPT ![c] = @ + 1]
  /\ Goto(c, Inside("limit"))
  /\ UNCHANGED <<request, context, status, ran_as>>

(* The extractors and the first lines of `query`; the Json extractor       *)
(* answers a malformed body itself.                                        *)
RejectBody(c) ==
  /\ pc[c] = "handler"
  /\ \/ request[c].body.kind = "malformed" /\ \E code \in {400, 415, 422} : Respond(c, code)
     \/ request[c].body.kind = "blank" /\ Respond(c, 400)
  /\ UNCHANGED <<request, context, charged, ran_as>> /\ UNCHANGED vars

TurnTenant(c) == context[c].tenant_id

StartTurn(c) ==
  /\ pc[c] = "handler" /\ request[c].body.kind = "question"
  /\ ran_as' = [ran_as EXCEPT ![c] = TurnTenant(c)]
  /\ Goto(c, "turn")
  /\ UNCHANGED <<request, context, status, charged>> /\ UNCHANGED vars

StatusOf(error) ==
  CASE error = "Unauthorized" -> 403
    [] error = "InvalidInput" -> 400
    [] error = "NotFound"     -> 404
    [] OTHER                  -> 500

(* A turn on stores that cannot search fails with Unsupported.             *)
TurnAnswers(c) ==
  /\ pc[c] = "turn" /\ Boot!SupportsSearch
  /\ Respond(c, 200)
  /\ UNCHANGED <<request, context, charged, ran_as>> /\ UNCHANGED vars

TurnFails(c) ==
  /\ pc[c] = "turn"
  /\ \E error \in TurnErrors : Respond(c, StatusOf(error))
  /\ UNCHANGED <<request, context, charged, ran_as>> /\ UNCHANGED vars

(* The client disconnects while its turn is awaited: no refund.            *)
Drop(c) ==
  /\ pc[c] = "turn"
  /\ Goto(c, "idle")
  /\ UNCHANGED <<request, context, status, charged, ran_as>> /\ UNCHANGED vars

Serve(c) ==
  \/ require_api_key(c) \/ Refused(c) \/ Admitted(c)
  \/ RejectBody(c) \/ StartTurn(c) \/ TurnAnswers(c) \/ TurnFails(c)

RouteNext ==
  \/ stage # "serving" /\ Boot!Next /\ UNCHANGED <<vars, routeVars>>
  \/ /\ stage = "serving"
     /\ \/ \E c \in Tasks, r \in Request : route(c, r)
        \/ \E c \in Tasks : Serve(c) \/ Drop(c)
        \/ Tick /\ UNCHANGED routeVars
     /\ UNCHANGED bootVars

RouteSpec == RouteInit /\ [][RouteNext]_allVars

-----------------------------------------------------------------------------
(* Correctness.                                                            *)

(* Every variable has its type, what Startup built included; a request has *)
(* a status when it is answered and a context when it has passed the layer *)
(* that makes one.                                                         *)
RouteTypeOK ==
  /\ Boot!TypeOK
  /\ request \in [Tasks -> Request]
  /\ pc \in [Tasks -> {"idle", "answered"} \cup Stages]
  /\ context \in [Tasks -> Range(directory) \cup {NoContext}]
  /\ \A c \in Tasks :
       /\ status[c] \in {0, 200, 400, 401, 403, 404, 415, 422, 429, 500}
       /\ charged[c] \in Nat
       /\ pc[c] = "answered" => status[c] # 0
       /\ pc[c] \in {"limit", "handler", "turn"} => context[c] # NoContext

(* Every request that reaches the handler has paid exactly one cell, and   *)
(* no other has paid any: one that is not authenticated costs nothing and  *)
(* starts nothing (rate_limit.rs:8-9, app.rs:17-22).                       *)
CellsArePaidOnce ==
  \A c \in Tasks :
    /\ pc[c] \in {"handler", "turn"} \/ ran_as[c] # None => charged[c] = 1
    /\ pc[c] = "answered" /\ status[c] \in {401, 429} => charged[c] = 0 /\ ran_as[c] = None
    /\ pc[c] = "answered" /\ status[c] = 200 /\ request[c].route = "query" => charged[c] = 1

(* A turn runs as the tenant the environment gives its key (handlers.rs:   *)
(* 26-29, cli.rs:57-62): the one in the last well-formed entry that names  *)
(* the key, or the generated one, and then no keys were set at all.        *)
RunsAsConfigured ==
  \A c \in Tasks :
    ran_as[c] # None =>
      \/ Boot!Entries = <<>> /\ request[c].key = DevKey /\ ran_as[c] = DevTenant
      \/ \E i \in 1..Len(Boot!Entries) :
           /\ Boot!LastNaming(request[c].key, i, Len(Boot!Entries))
           /\ ran_as[c] = Boot!Entries[i].tenant

EachTurnPaidOnce == CellsArePaidOnce /\ RunsAsConfigured

(* A client with a valid key is told 429 only when its tenant and subject  *)
(* were admitted a whole quota in the last minute (rate_limit.rs:88-93),   *)
(* whoever else asks, whichever keys share them, and whatever the order in *)
(* which concurrent requests reach the limiter.                            *)
ThrottledOnlyWhenSpent ==
  [][\A c \in Tasks :
       status'[c] = 429 /\ status[c] # 429 =>
         /\ request[c].key \in DOMAIN directory
         /\ LET k == directory[request[c].key]
            IN Spent(<<k.tenant_id, k.subject>>)]_allVars
=============================================================================
