# A TLA+ model of Milona

Milona is a Rust workspace for a multi-tenant question-answering service. An
HTTP or command-line presenter takes a question, retrieves the tenant's chunks
from a vector store, enriches them from a knowledge graph, runs the requested
tools and asks a language model. This directory holds TLA+ modules for its
core, the configurations that model-check them with TLC, and theorems about
them that TLAPS checks.

Paths below are relative to `src/crates`.

## 1. The system

| Part | Source | State | Operations |
|---|---|---|---|
| LLM adapter | `milona-adapter/src/{budget,retry,mock}.rs` | usage per tenant behind a Mutex, budgets, an atomic call counter; per call: attempt, backoff | `complete_for_tenant`, `complete` |
| Vector stores | `milona-storage/src/memory.rs`, `mongo/vector.rs`; contract `milona-core/src/traits.rs` | chunk id -> (tenant, document, embedding): a map, its Mutex and the poison flag, or a Mongo collection and its index | `upsert`, `search`, `delete_document` |
| Graph stores | `milona-storage/src/memory.rs`, `mongo/graph.rs` | a list of (tenant, edge) | `add_edge`, `traverse`, `supports_traversal` |
| Knowledge facade | `milona-knowledge/src/lib.rs`, `milona-core/src/authz.rs` | none of its own: two stores, a policy, a depth | `retrieve` |
| Application turn | `milona-knowledge/src/{genai_loop,registry}.rs` | per turn: items, tool results, messages | `run_turn` |
| HTTP surface | `milona-presenter/src/{app,auth,rate_limit,handlers,state}.rs` | key directory, keyed limiter, shared `AppState` | `/healthz`, `POST /v1/query` |
| Startup, CLI | `milona-presenter/src/{cli,state,main}.rs`, `milona-storage/src/backend.rs` | the environment, the key directory being built, the storage chosen | `serve`, `query` |
| Tools | `milona-tools/src` | the registry's map by name | `register`, `invoke`; calculator, current_time, echo; MCP client |
| Ingestion | `milona-ingest/src` | none of its own; ids are generated once, chunks end up in a vector store | `fetch` of files, PDFs and web pages, `chunk`, `embed` |

How they meet. The process reads its keys and its storage from the environment
(`Startup`) and then serves. A request passes the authentication layer, the limiter layer and
the `query` handler (`QueryRoute`, over `Startup` and `RateLimiter`), which awaits one turn.
The turn (`GenAiTurn`) awaits the facade's `retrieve` (`Knowledge`), then the
tools one after the other, then one completion of the adapter (`LlmAdapter`).
`retrieve` awaits one search of the vector store (`TenantStore`, implemented by
`MemoryVectorStore` and `MongoVectorStore`) and one traversal per hit of the
graph store (`TenantGraph`, implemented by `GraphTraverse` and
`MongoGraphStore`). The chunks a search finds were put into the vector store by
ingestion (`Ingest`, over `MemoryVectorStore`). Everything is shared between requests through `Arc`s; there
is no message passing. The in-memory stores and the budget run under a Mutex
that is never held across an await; the Mongo stores are as atomic as the
server makes them; the facade and the turn hold nothing and can be interleaved
with anything, and dropped, at every await.

What is hard about it, and what is therefore checked: the budget is checked
and charged in two critical sections with a retried network call in between;
concurrent requests share one call counter and one limiter; the facade uses the
hits of a search after several awaits; the server's compound operations
interleave with each other and their replies can be lost; every store serves
all tenants out of one collection; a panic under a lock outlives the request
that caused it; an ingestion is overtaken by a purge of its own document or ends
half-way; keys and tools that are set twice replace each other; loops have boundary cases (no attempts, depth 0, `top_k` 0,
cycles in the graph); every call can fail in the middle of a turn. The list, line by line,
is `hazards` in `PROJECT.json`.

## 2. The modules

| Module | Models | State and actions against the code |
|---|---|---|
| `LlmAdapter` | `BudgetedLlmProvider<RetryingLlmProvider<MockLlmProvider>>` | One task per request. `CheckBudget` and `Charge` are the two locked sections of `complete_for_tenant`; `AttemptSucceeds`, `AttemptFails`, `NoAttempt` and `Wake` are the retry loop around one provider call, `BackoffOverflows` the panic of `Duration::from_secs_f64` when it multiplies the backoff; a multiplier, an `f64`, is the function on Durations that it is; `Drop` is a future dropped in the backoff sleep, the only place where this stack suspends. `config` is what the stack was built with: every run chooses one in its initial state and no step changes it. |
| `TenantStore` | the `VectorStore` trait | The abstract store: one map per tenant; a search answers a ranking of the caller's own records. |
| `MemoryVectorStore` | `InMemoryVectorStore` | One map for all tenants; every operation holds the lock from its first line to its last and is one action. `search_panics` is the `unwrap` of `partial_cmp` on NaN, which poisons the Mutex; `lock_panics` is what every later operation meets. |
| `TenantGraph` | the `GraphStore` trait | What a traversal answers, as operators over a sequence of edges. |
| `GraphTraverse` | `InMemoryGraphStore` | The breadth-first walk, one action per turn of its innermost loop, with its frontier, its visited set and both exits. |
| `MongoVectorStore` | `MongoVectorStore` and the server | `Match` and then `Replace` or `Insert` (or `DuplicateKey`, `MatchGone`) are the server's steps of `replace_one` with `upsert`; `Visit` and `Deleted` are `delete_many`; `Aggregate` and `CursorDone` a search; `Disconnect` the `map_err` of every driver call. |
| `MongoGraphStore` | `MongoGraphStore` and the server | `Hop` and `LastHop` are the queries of one `$graphLookup`, one per depth, with insertions between them. |
| `Knowledge` | `Knowledge::retrieve` | `retrieve` is the policy; `SearchSucceeds`/`SearchFails` the first await; `TraverseMatch`, `TraversalFails`, `NoTraversal` the loop body, one await per hit. The writers of both stores run in between. |
| `GenAiTurn` | `run_turn` and the tool registry | EXTENDS `Knowledge`, whose actions are its retrieval; its own specification has the names `Turn...`. `ToolAnswers`/`ToolFails`, `Build`, `Answer`/`CompletionFails` are the later stages. |
| `RateLimiter` | `rate_limit.rs` over the governor crate | `admit` and `reject` are the two answers of `check_key`, atomic per key; `admissions` is a history of the times a key was let in; `Tick` is the clock; `Observe` is not code: an observer opens a window at any moment. |
| `Startup` | `main.rs`, `cli.rs`, the builders of `state.rs` | `main` is a start in some environment, `ParseEntry` one turn of the loop of `parse_api_keys`, `new_from_env` the choice of the storage with its failures, `bind` the listener, `run_query_command` the one-shot command. |
| `QueryRoute` | the router, its layers and the handlers | INSTANCEs `Startup` for the process it runs in and EXTENDS `RateLimiter`; its own specification has the names `Route...`. One action per layer or handler answer; `Drop` is a client that disconnects. |
| `Tools` | both tool registries, the native tools, `McpClientTool`, `McpServer` | `register` and `invoke` on the map by name; `calculator` in binary floating point, a value being a number of smallest steps: `Rounded` is the rounding of every operation (to nearest, ties to even, to infinity past the largest float), `format_result` the saturating cast of whole results to i64; `civil_from_days` with the code's own integers and constants. Its specification has the names `Tools...`. |
| `Ingest` | `milona-ingest` over `InMemoryVectorStore` | EXTENDS `MemoryVectorStore`. A job is a `fetch`, the chunking of what it read and one `Store` per chunk; `extract_text` walks a page's nodes; `FetchFails` and `StorePanics` end a job; `Purge` and `Direct` are the other callers of the store. |

`MC*` modules give the constants their values. `*Proofs` modules hold the
theorems: `LlmAdapterProofs`, `GraphTraverseProofs`, `MongoVectorStoreProofs` and
`MongoGraphStoreProofs` about the module they are named after, `IngestProofs` also about
`MemoryVectorStore`, `GenAiTurnProofs` also about `Knowledge` and
`Tools`, `QueryRouteProofs` also about `RateLimiter` and `Startup`, which these components
use. `OperatorLemmas` has the lemmas that several of them need: induction over numbers and
finite sets, sums over a set (`SetSum`), and the layers of a graph that a traversal meets
(`Within`). `map` in `PROJECT.json` names the lines every definition stands for.

A definition whose name ends in `_Something` next to the one without it is a
plausible bug in the same code (the comment above says which); each property is
known to fail when one of them takes the original's place.

External code, modelled from how it is used: the governor crate's GCRA (a
timestamp per key, read and replaced in one step), the text-splitter crate
(windows of at most `MaxCharacters` words that overlap by `Overlap`), the parsed
tree of the scraper crate, what a file or PDF reader returns, the driver that upserts
the chunks of a document one after the other (nothing in the workspace drives
the pipeline yet; `embedder.rs:17-19` gives the order), and the Mongo server (single
documents are atomic; an upsert matches and then inserts; `delete_many` visits
documents one by one; `$graphLookup` reads once per depth; a reply may be lost
after the write was done; an operation whose connection ends does no more writes).
`MongoVectorStore` does not implement
`TenantStore` step by step, because a purge is not atomic; what its callers may
rely on is stated as properties of its own.

## 3. The runs

| Run | What it shows | Bounds, and why they are enough |
|---|---|---|
| `adapter` | `OvershootBound`: the check/charge race takes a tenant at most one answer per concurrent request past its budget. `ConsumptionAccounted`: nothing produced is lost or charged twice. `RejectedOnlyWhenSpent`, `DoorStaysShut`: a tenant is refused for its own consumption only, and stays out once it has spent its budget. `AttemptLedger`, `OutageRiddenOut`, `BackoffSchedule`; `CallsTerminate` under fairness. | 2 tasks, 2 tenants with budgets 3 and 2, answers of cost 1 or 2, eight configurations: metered calls in an outage of 2 failures with 2 attempts, in a hard outage with a multiplier of 1/2 and an initial backoff above the cap, in one with a multiplier that is negative or NaN, and with a multiplier of 5/2 whose product no Duration can hold; then, through both methods, an outage ridden out without a sleep and one with sleeps, a hard outage that reaches the cap, `max_attempts` = 0. Two requests can both be admitted on the last unit of a budget, which is the race; the theorem covers more of them. |
| `adapter_app_turns` (violation) | The application calls `complete`, which reads and charges no budget, so a tenant that spent its budget is let through. | as `adapter`, one configuration, `complete` only |
| `ingest` | `RefinesTenantStore`: the one map shared by all tenants is a map per tenant. Neither is broken by a search that panics on a NaN and poisons the Mutex, after which every operation of every tenant panics. `IngestedInOrder`: the store holds of a document what its job stored since the last purge, in the order of the text, whatever fails. `VisibleTextOnly`: a page's chunks carry what the page shows and nothing else. | 2 interchangeable jobs (symmetry) of one tenant with 2 documents and 3 chunk ids; a blank file and one that makes two overlapping chunks; a page with nested noise and a page of frames, which has no body; both tenants search, purge either document and upsert a chunk of their own whose similarity is NaN, so that the Mutex is poisoned in the middle of a job. `top_k` is at most 2, less than the records a tenant may have. |
| `memory_store_collision` (violation) | An upsert of another tenant's chunk id replaces that tenant's record. | ids may collide |
| `graph_traverse` | `TraversalExact` against `TenantGraph`; `WalkSound`: each edge once, all of them reachable, nothing lost by the early exit, rounds bounded by the nodes met. | every multigraph of up to 3 edges of 2 tenants over 3 nodes, depths 0, 1, 2, 4: self loops, 2- and 3-cycles, duplicates, a depth beyond the longest path. |
| `mongo_store` | `DocumentsKeepTheirTenant`, `AcknowledgedIsStored`, `PurgeIsComplete`, `FilteredBeforeLimit`. | 2 overlapping calls of 2 tenants that share a chunk id, 2 chunks of one document, `top_k` 0 and 2, replies that get lost. Two calls make every race there is between a pair of steps; that more of them change nothing is proved (section 4). |
| `mongo_graph` | `TraversalBracketed`: the answer lies between what was reachable when the call began and what is reachable now. | one traversal of depth 0, 1 or 3, up to 3 edges of 2 tenants over 3 nodes, added at any moment. One is enough: traversals do not write. |
| `retrieve_while_writing` | `EveryHitIsReturned`, `EdgesBracketed`, `OwnDataOnly`. | one retrieval, 4 chunks of 2 tenants in 2 documents, of which one tenant has 3, so that `top_k` 2 cuts the answer, up to 2 edges, depth 2, failing searches and traversals, stores with and without traversal. Retrievals share nothing but the stores, which they do not write. |
| `genai_turn` | `RetrievalFirst`, `FailedToolsCostNothingElse`, and `TurnsEnd` under fairness. | one turn at a time, repeated, of a tenant that may read or one that may not; no tools, or a known (registered twice), an unknown and another known one; everything may fail. |
| `rate_limit` | `WindowBound`: in any window at most a burst more than the cells replenished. | 2 keys of 2 tenants, quota 2 a minute of 4 ticks, 5 ticks: past a minute's boundary and an idle time. |
| `query_route` | `EachTurnPaidOnce`: a turn runs as the tenant that the environment gives its key and has paid one cell; what is refused paid and ran nothing. `ThrottledOnlyWhenSpent`. | a process started in one of 8 environments (keys that share a tenant and subject, the keys of two callers, a key set twice, malformed entries, an empty key, none set, Mongo complete and incomplete, the query command), then 2 requests at a time (symmetry) with good, empty, unknown and missing keys and every kind of body, quota 2 a minute of 2 ticks, 2 ticks: up to the minute's end, every error a turn can end with. |
| `tools` | `DateIsExact`: the date arithmetic against a calendar counted by the leap rule. `LatestToolAnswers`: a call is answered by the tool registered last under its name. | the last and first day of every month of 7 years, chosen on both sides of every leap rule and at the turn of the 400-year era; operands whose results are exact, are rounded, pass i64's (scaled) end and pass the largest float; floats of 3 bits in quarters, up to 28, and integers up to 15, which like i64::MAX is not a float; an empty and the native registry, a remote tool that takes a native one's name, up to 4 registrations. |

Every module has one type invariant, `TypeOK` (`TurnTypeOK`, `RouteTypeOK` and `ToolsTypeOK`
where another module it is checked or proved with has its own), checked by its run.

The bounds that are not the code's: `CallCap` (the mock's counter is not
distinguished beyond the last call that matters), `ConsumedCap` (what unmetered
callers consume), `MaxEdges`, `MaxTime`, `MaxTopK`, `MaxRegistrations`, the lengths of
`NewDocument` and `NewChunk` (ids a tenant can be given), and `IntMax`, `Precision`,
`UnitExponent`, `TopExponent` in place of the ranges of i64 and f64 (2^63 - 1, 53, 1074 and 2045), and
`LongestSleep` in place of Duration::MAX. Symmetry is used only in runs without liveness. Deadlock is checked in every run.

Fairness. `FairSpec` of `LlmAdapter` and of `GenAiTurn` assumes weak fairness
of each task's own steps: tokio polls a woken task and fires its timers, and
no step of a task waits for another task's. Nothing is assumed of clients, of
writers, or of the outcome of a call: a provider may fail for ever.

## 4. What is proved

For every number of tasks, tenants, nodes and edges, every configuration and
every bound (`tlapm` checks each of the proofs to its last leaf):

| Theorem | Statement | Inductive invariant |
|---|---|---|
| `LlmAdapterProofs!TypeCorrect`, `AttemptsAreLedgered` | `TypeOK`, `AttemptLedger` | `TypeOK` needs the ledger (an attempt increments `calls`, bounded only because `calls` = `attempt` - 1 before it), so `TypeOK /\ LedgerInv` is proved together. |
| `OutageIsRiddenOut` | `OutageRiddenOut` | `OutageInv`: the failures a request has met are among those the shared counter has counted, or the outage is over; every backoff is the initial one or at most the cap, so that if one gets out of range, the product of one of these two does. |
| `OvershootIsBounded` | `OvershootBound` | `UsageInv`: the usage plus the worst case of every admitted request; the usage alone is not inductive, since those requests raise it whatever the limit says. |
| `ConsumptionIsAccounted`, `RejectionsAreEarned`, `SpentTenantsStayOut` | `ConsumptionAccounted`, `RejectedOnlyWhenSpent`, `DoorStaysShut` | `AccountInv`: what the provider produced for a tenant is its usage plus what admitted requests hold and have not charged, a sum over the tasks; equal unless somebody uses the unmetered method. That the usage never shrinks is what keeps the door shut. |
| `BackoffIsScheduled` | `BackoffSchedule` | `BackoffInv`: where the retry loop stands, its backoff is the one `Scheduled` for the failure it has met. The schedule is `min(initial * multiplier^k, cap)` unless the multiplier shrinks the cap: then the products go on from the first one that the cap has cut down. It needs of the multiplication only that it keeps the order of Durations, and zero. |
| `CallsAreBounded` | a call takes at most 2 * `max_attempts` + 3 steps of its own from its check to its end, each of them brings it nearer, and no other task's step takes it back | `LedgerInv`: a retry that sleeps has an attempt left, so that waking leaves fewer steps than sleeping did. |
| `GraphTraverseProofs!TypeCorrect`, `TraversalIsIsolated`, `BreakLosesNothing`, `EdgesAreReturnedOnce`, `RoundsAreBounded`, together `WalkIsSound` | `TypeOK`, `ResultReachable`, `BreakIsComplete`, `EachEdgeOnce`, `RoundsBounded`, together `WalkSound` | `IInv`: which nodes are fully scanned, in progress or queued; that the frontiers are disjoint, duplicate-free and visited; that each returned edge leaves a node scanned so far. |
| `TraversalIsExact` | `TraversalExact` | its part `LayerInv`: round r starts with every node within r - 1 steps visited, queues exactly those r steps away and takes edges out of no others. |
| `IngestProofs!TypeCorrect`, `SharedMapIsPerTenant` | `TypeOK`, and, when ids do not collide, the refinement `RefinesTenantStore` | `MapInv`: the map is finite, typed, and holds every chunk under the tenant that generated its id. The search needs what a sorted enumeration of a finite set is (`Enumeration`, `HitsOf`): its first `top_k` elements are a ranking. |
| `IngestUsesTheStore` | the refinement `IngestSpec => Spec`: each step of the pipeline is an operation of the store or none, so the two theorems above hold under ingestion | `IngestInv`, below, which says that what a job stores is a chunk with an id of its tenant. |
| `ChunksStayInOrder` | `IngestedInOrder` | `IngestInv`: ids are given once (`DistinctInv`), those not given yet are not in the map (`FreshInv`), one job ingests a document and stands one chunk past those it stored (`JobsInv`), and of a document the map holds the run between purge and position (`HeldInv`). The statement alone is not inductive: a second job or a reused id would break the run. |
| `OnlyVisibleText` | `VisibleTextOnly` | `TextInv`: the chunks in the history of a document are the pieces of its source's text. The rest is about the operators: a node is shown exactly if nothing it is inside of is hidden (`ShownFromAbove`), so `extract_text` keeps the words of the shown nodes (`ExtractShown`), and the windows cover a text up to its last word (`WindowsCover`). |
| `MongoVectorStoreProofs!UpsertsAreStored`, `PurgesAreComplete`, `TenantsAreIsolated` | `AcknowledgedIsStored`, `PurgeIsComplete`, `DocumentsKeepTheirTenant` | `StoreInv`: an upsert that still stands is of a document nobody is purging, so that no `delete_many` takes it; what a purge answers for is what it has yet to visit, still the tenant's and of its document, or gone. |
| `SearchesAreFilteredFirst` | `FilteredBeforeLimit` | `SearchInv`: the collection is finite; a ranking without repetition that leaves nothing better out has the size it should. |
| `MongoVectorStoreProofs!TypeCorrect` | `TypeOK` | `TypeOK /\ StoreInv`: that only a search can have hits needs to know which call is at the aggregation. |
| `MongoGraphStoreProofs!TypeCorrect`, `TraversalsAreBracketed` | `TypeOK`, `TraversalBracketed` | `LookupsInv`: hop by hop, what a lookup has met lies between what is that many steps away in the graph as it was asked and in the graph as it is, and it has every edge out of the nodes it queried; a graph that only grows keeps both sides. |
| `GenAiTurnProofs!TypeCorrect`, `RetrievalIsIsolated` | `TypeOK`, `OwnDataOnly` | `OwnInv`: every match is a chunk of the caller that the search saw, the items follow the matches in their order, and the edges an item holds keep their tenant because edges are only ever appended. |
| `AnswersAreRankings` | `EveryHitIsReturned` | `SizeInv`: the store is finite, and an exhaustive search has left as many matches as it should, which no later write changes. |
| `EdgesAreBracketed` | `EdgesBracketed` | `BracketInv`: each item's edges lie between the traversals of the graph when the search ran and now. |
| `TurnsRetrieve`, `TurnTypeCorrect` | the refinement `TurnSpec => Spec` (a turn's steps are steps of `Knowledge` or leave it alone), `TurnTypeOK` | `TurnInv` |
| `ModelOnlyAfterRetrieval`, `ToolFailuresAreIsolated` | `RetrievalFirst`, `FailedToolsCostNothingElse` | `TurnInv`: the turn and the retrieval it awaits agree on where they are, a finished retrieval has an item for each hit, a dropped turn leaves nothing behind, and the outputs so far are those of the tools that answered; `Permitted`: a retrieval under way has a tenant that may read. |
| `TurnsAreBounded` | a turn of n requested tools takes at most `TopK` + n + 4 steps of its own, each of them brings it nearer its end, and nothing takes it back | `TurnInv` and the retrieval's `TypeOK`: a hit is left while the walk goes on, and the calls never outnumber the requests. |
| `ToolsTypeCorrect`, `LatestToolsAnswer` | `ToolsTypeOK`, `LatestToolAnswers` | `ToolsInv`: the registry maps a name to the tool last registered under it, and an answer is what that tool says of its input. |
| `DatesAreExact` | `DateIsExact`, for every day since 1970 | No invariant: `CivilDate` shows, for the days before 1970 as well, that `civil_from_days` returns year, month and day whose days since 1970, counted by the leap rule, are the input. Each division becomes a pair of inequalities; an era is 400 years of 146097 days (`YearOfEraFacts`, `LeapsOfEra`), and a year that begins in March has its leap day last (`MarchToDecember`, `JanuaryAndFebruary`). |
| `QueryRouteProofs!TurnsArePaidAndConfigured` | `EachTurnPaidOnce` | `RouteInv`: `BootInv`, that each key of the directory has the record of the last well-formed entry read that names it (or is the generated one), and `RequestInv`, what a request has paid, holds as its context and has run at each place of its way. |
| `RouteTypeCorrect`, `RoutesAreLimited` | `RouteTypeOK`, the refinement `RouteSpec => Spec` (each step checks the limiter once, for a known tenant and subject, or not at all) | `KnownInv`, `RequestTyped`: what the directory and a request's context name are identities the environment can give. |
| `StartupIsConfigured` | `Startup!Spec => [](TypeOK /\ DirectoryIsConfigured)`: the startup by itself, for any environments and restarts | `BootInv`, `KnownInv` |
| `QueryRouteProofs!TypeCorrect`, `QuotaHolds` | `TypeOK`, `WindowBound` | `CreditInv`: what a window has admitted is covered by the time the key's timestamp has advanced since the window began. |
| `RefusalsAreEarned` | `ThrottledOnlyWhenSpent` | `PaceInv`: from each admission on, the key's timestamp has advanced at most an interval for every later one, so that a timestamp too far ahead means a whole quota in the last minute. |

They rest on the named assumptions of the modules: finite sets of tasks, natural numbers,
scores that are integers or NaN, keys that come as a finite sequence, a minute at least as
long as the burst has cells, requested tools that come as a sequence of names
(`ToolAssumption`), tenants and subjects that are what an environment can write
(`IdentityAssumption`), document and chunk ids that are never given twice and that no direct
caller uses (`IdAssumption`: they are UUIDs of the job that made them), texts of finite
length (`TextAssumption`), pages as an HTML parser builds them (`PageAssumption`: a tree in
document order, whose words are in the head or else in the body), tool inputs that are
finite floats and a clock within the day (`InputAssumption`), and multipliers of the backoff that keep the
order of Durations, and zero (`ScaleAssumption`). Every `f64` does: rounding is monotone, `max(0.0)` makes
a negative multiplier or NaN the constant zero, and an infinite one times zero is NaN. `SharedMapIsPerTenant` has `~Collisions` in its statement, and
`memory_store_collision` shows what happens without it. `IngestInv`, `TextInv`, `LookupsInv` and `ToolsInv` were also checked
with TLC on the instances of their runs.

Where a statement holds a recursive function (the layers of a graph, a sum over a finite set,
what a node of a page is inside of, a concatenation of texts), a lemma proves that a function
with the defining equation exists and how it unfolds.
The library's induction theorems take an operator as a parameter, which the provers cannot
instantiate, so the lemmas use the least number (`LeastNumber`, `SetInduction`) and the least
subset (`SubsetInduction`) outside a set of cases instead, from the well-foundedness of `<` on
Nat and of strict inclusion.

Only model-checked: liveness (`CallsTerminate`, `TurnsEnd`), which needs ENABLED. Half of it
is proved: `CallsAreBounded` and `TurnsAreBounded` bound the steps to the end and show that
none is undone. What TLC adds is that a call or turn in progress can always take its next
step, and that fairness makes it. Every invariant, action property and refinement that a
passing run checks is proved as well. What
`OnlyVisibleText` cannot show is left to its assumption: that the parser of the scraper crate
puts each word where `PageAssumption` says is external to this repository.

## 5. Where the code and its documentation differ

Two runs end in a violation, and `findings` in `PROJECT.json` quotes the lines:
`adapter_app_turns` (the turns go round the budget that `genai_loop.rs:60-62`
says is enforced) and `memory_store_collision` (chunk ids collide across
tenants in the in-memory store, against `memory.rs:4-5`).

Met while modelling, and not made runs:
- `budget.rs:65-67` says calls are rejected once the usage "would exceed" the
  budget; the check compares what is already used, so one task alone can pass it.
- `RetrievedItem::related_edges` is documented as the edges that start at the
  chunk (`milona-knowledge/src/lib.rs:33-35`); it holds every edge of a traversal to
  the configured depth, 2 by default.
- `rate_limit.rs:5-6` says the limiter is keyed per API key; it is keyed by
  tenant and subject, which two keys may share.
- `max_depth` = 0 returns nothing from the in-memory graph store and the edges
  of the start node from the Mongo one (`saturating_sub(1)`).
- `cli.rs:41-43` says `milona query` has the "same wiring `serve` uses", and
  `state.rs:191-193` that both leave the in-memory stores when a deployment opts
  in to Mongo; `run_query_command` always builds the in-memory stores.
- `retry.rs:50` says the backoff increases between attempts; a multiplier below 1 makes
  it shrink, a negative one or NaN makes every later sleep zero, and the first sleep is not capped.
- The cap of the backoff, `max_backoff`, does not protect from a large multiplier:
  `Duration::from_secs_f64` panics on a product it cannot hold before `.min` is applied (`retry.rs:83-86`).
- `calculator.rs:54` says it performs basic arithmetic; a whole result beyond i64 is
  shown as the end of i64's range (`calculator.rs:41`), and integers beyond 2^53 and most fractions are rounded.
- `web.rs:10` says whitespace is collapsed; white space inside a text node is kept.
- `README.md:65` says DocumentDB disables graph traversal; search is
  unsupported there as well, so every query fails.

## 6. What is not modelled, and what could follow

Not modelled: telemetry, CI and container files, and the `core` data
definitions beyond what the constants stand for. Left out inside the modules:
message texts, the layout of responses, embeddings as vectors (a similarity is a
member of a small ordered set; `memory.rs` cuts vectors of different lengths to
the shorter one, which is one more such value; `naive_embed` is an embedding like
any other), the cost estimate from message lengths (a member of `Spends`),
titles, metadata and token counts of documents, which Duration the product of a backoff and an
`f64` is rounded to (a function that keeps the order), logging and tracing spans.

What no property covers, and why: nothing in the repository deletes an edge, so a
purged document's chunks stay nodes of the graph and there is no cascade to
state; a deployment on DocumentDB answers no question at all, by its own
`Unsupported`; a NaN similarity poisons the in-memory store for all tenants, and nothing in the
repository promises that it serves them afterwards; what the calculator answers is modelled, but the
cast that saturates makes "the number shown is the result" false by the code itself, and no line
of the repository states more precisely what it should be. Ingesting a source again makes a second document, as its new id
says; nothing claims otherwise.

What could be added next:

1. `GenAiTurn` over `LlmAdapter` instead of a completion that answers or fails.
   The turn calls the unmetered method, so the two share no budget today.
2. `Ingest` over `MongoVectorStore`, with two jobs racing on the server's steps.
