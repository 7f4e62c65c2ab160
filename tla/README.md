# Formal models of the Saxon context engine

The context engine (`src/app`) pulls documents from external sources into a
Neo4j knowledge graph, keeps them current in the background, reconciles
entities across knowledge bases, and answers questions from the graph with a
language model. It is a FastAPI process on one asyncio event loop plus the
thread pool FastAPI runs plain `def` routes on. Up to three replicas of it run
at once and share nothing but Neo4j; a command-line script ingests next to them.

These modules model the parts where several of those actors touch the same
state, and the way of a question through what they leave in the graph: TLC
checks small instances, TLAPS proves the central invariants for all values of
the constants.

## Inventory

| Component | State | Operations | Hard behaviour | What makes it correct |
|---|---|---|---|---|
| Sync pipeline: `ingestion/connector_sync.py`, `graph/connectors.py`, `api/connectors.py` | the connector row (tenant, status, content hash, picked files), episodes tagged with the connector's id | create, sync, file picking, purge, reassign, delete, record result | a job works on a row read long before; purge runs on a thread, statement by statement; replicas; records fail one by one | a recorded hash stands for ingested content; content is not ingested twice; "queued" is answered; syncs converge to the source |
| Scheduler and lease lock: `graph/connector_scheduler.py`, `graph/scheduler_lock.py` | one lock node (holder, expires_at); each replica's interval job | tick, acquire or renew, pass, (release), stop, start | lease expiry against late ticks and slow passes; a restarted replica is a new holder | a live lease is exclusive; passes go on |
| Ingestion queue: `graph/ingestion_queue.py` | asyncio queue, worker tasks, semaphore | enqueue, dispatch, run, stop | cancellation of waiting and running workers, a permit handed over | permits add up; order; nothing outlives `stop()` |
| Response cache: `context/response_cache.py`, `context/query_service.py` | entries with their time, eviction order | get, set, invalidate_group | the fill awaits between get and set; threads and event loop share the cache | no outdated answer after an invalidation; bounded; TTL as safety net |
| Spend limiter: `graph/spend_limiter.py`, `graph/graphiti_adapter.py` | totals per bucket in memory and in a JSON file | ensure_room, record, spent, load | check and count are apart; several processes on one file; death in mid-write | overshoot is bounded; a query's cost; totals survive restarts; the budget binds all processes together |
| Reconciliation: `graph/reconciliation.py` | SAME_AS edges, ProposedMerge nodes | reconcile_tenant, approve, reject, expand_same_as | concurrent runs on stale snapshots; entities deleted under a proposal | a pair is decided once; expansion finds the whole class |
| Push: `ingestion/graph_subscriptions.py`, `api/webhooks.py` | subscription fields of the row, subscription at Microsoft Graph | create, record, renew, clear, notify, delete | awaits between remote and local step; duplicate and late notifications | a live subscription is in its row, in a request's hands, or was lost at a known point; one that ends is renewed or cleared |
| Knowledge graph under purge: `graph/connectors.py:495`, Graphiti's `add_episode` | entities, RELATES_TO facts with their episodes, episodes and their tags | read, save, tag, the three statements of a purge | the edges a save writes back were read before its calls to the model; statements interleave; two connectors share a fact | a purge takes what its own episodes alone stand for |
| Orchestrator and repository: `context/orchestrator.py`, `graph/graph_repository.py` | none of their own | retrieval, paths, causal chains, supersession, authority tie-breaks, answer lines | the graph changes between the stages of a question | what comes back is in scope and visible; nothing retrieved is missing from the answer |
| Authorization: `graph/authorization.py`, `security.py` | users, reporting lines, assignments | visibility queries | filters applied after a choice; paths through hidden nodes | visible iff assigned to somebody at or below the asker |
| Entity resolution: `graph/entity_resolution.py` | none | tiers of name matching | precedence of tiers, several candidates in a question | a stricter tier wins |
| Decision audit trail: `graph/decisions.py` | Decision nodes, INVOLVES edges | record | recorded after calls to the model; the anchor may be gone | rests on a visible causal chain, stays linked to its anchor |
| Tenants and client pool: `graph/tenants.py`, `graph/tenant_graphiti_pool.py`, `api/admin.py` | tenants in Neo4j and in `tenants.json`, cached clients | create, delete, get_or_create, reassign a connector | what outlives its tenant: client, connectors, document sets, jobs | everything under a tenant_id is its tenant's |
| Document sets: `graph/document_sets.py` | sets of knowledge bases | create, replace, delete, resolve | scope checked when saved, used later | a set names its tenant's knowledge bases only |
| OAuth: `ingestion/*_oauth.py` | sealed state in a browser, encrypted refresh tokens, grants at Google | start, finish, exchange, revoke | the remote side acts and its answer is lost; states come back late | no grant is forgotten; a state only serves who asked for it |
| Batch ingestion: `scripts/ingest_samples.py`, `ingestion/ingest_log.py` | JSON log | mark, save | saved once, at the end | what was ingested is not ingested again |

Source connectors, live retrievers, ontology packs, models, the HTTP, MCP and
OData surfaces and the front end keep no state of their own that several steps
work on; `PROJECT.json` lists each with the reason it is left out or how far it
appears in another module.

How they interact: routes and webhooks read a connector row, mark it `queued`
and put a closure on the ingestion queue; the scheduler calls the same
`run_connector_sync` without the queue; a successful sync writes the row,
invalidates the response cache and then reconciles the tenant; queries read the graph in
stages, fill the cache and spend money through the wrapped provider clients; ingestion spends
from a budget of its own. The hazards that follow from this are in
`PROJECT.json` under `hazards`, each at its line, with the properties that
watch it.

## Modules

| Module | What it is |
|---|---|
| `ConnectorSync`, `Corpus` | one connector with its queued jobs, scheduler passes, purge, operators and source; what it promises of the graph |
| `SchedulerLock`, `Mutex` | the replicas' ticks and the lease lock; the mutex it implements |
| `IngestionQueue`, `JobService` | the queue; the service it promises |
| `ResponseCache` | the cache, the queries that fill it, the writers that invalidate it |
| `Reconciliation`, `IdentityRegister` | overlapping reconciliation runs, the people who decide, purges; the register of identities they keep |
| `SpendLimiter` | processes, tasks and provider calls on totals and the state file |
| `KnowledgeGraph` | facts, entities and episodes under ingestion and purges |
| `Retrieval` | who may see what, which entities a question names, which facts it finds |
| `Answering` | from retrieved facts to the lines of an answer |
| `ContextQuery` | a question from its scope to its answer and its decision, on top of the three before |
| `Lifecycle`, `Custody` | tenants, clients, connectors, document sets, push subscriptions, OAuth grants and states; in whose custody what is set up elsewhere is |
| `MCService` | ContextQuery and Lifecycle in one instance with six parts |
| `MCPush` | a mailbox, its subscription and the scheduler's ticks |
| other `MC...` | constants of the instances TLC checks |
| `..._proofs` | theorems and proofs about the module of that name |

The modules meet at named steps. A job of `IngestionQueue` is a job of
`ConnectorSync` (`RequestSync` to `RecordSynced`); `Abandon` there is what
`Stop` does to it here. A running pass of `SchedulerLock` is `SchedulerSync`
and its job steps in `ConnectorSync`, where `Ticks` with two members would be
two passes that overlap past a lease. `Write`, `WriteFails` and `Invalidate` of
`ResponseCache` are what a `ConnectorSync` job or a purge does to the cache.
`Extract` of `Reconciliation` is what `IngestRecord` does to entities; the rest
of its run follows `RecordSynced`. In more detail they are `ReadEdges`,
`SaveEpisode` and `TagEpisode` of `KnowledgeGraph`, where `PurgeFacts`,
`PurgeEntities` and `PurgeEpisodes` spell out what `PurgeEpisodes` of
`ConnectorSync` sums up. The steps of `ContextQuery` from `Resolve` to `Deliver`
are what `Retrieve` of `ResponseCache` stands for. `Notify` of `Lifecycle` is a
`RequestSync` there, `TickRenews` follows a pass.

### ConnectorSync

Each Cypher statement is one step; everything between two statements
interleaves. A job keeps the row it read (`tenant`, `seenHash`, `seenFiles`)
because the code keeps it in a closure or a list. The content hash of a fetch
is the fetched set of records. Episodes are counted per record, tagged with the
connector's id or not. `kind` separates what the sync path distinguishes:
`source` (an ordinary source), `oauth` (the one-click Drive connector, pending
until its files are picked), `live` (a retriever whose "sync" is a
connectivity check). `Disturb` is the budget of environment events; the history
variables `raced` and `overlapped` say that a purge overlapped an ingestion, or
that two jobs were in flight at once, and no action reads them.

`Promise == INSTANCE Corpus WITH ...` is the connector as its readers see it:
`present` is the set of records with an episode, `vouched` the recorded hash. A
purge withdraws the word in the step that deletes the episodes (`purge =
"reset"` from then on), although the row says so one statement later; `raced`
voids it for good, because of what `sync_purge` shows.

### SchedulerLock

Time is kept as what is left of it, on the database's clock: `left` of the
lease, `due` of each interval job, `mine` of the lease a process believes in.
`max_instances=1` is `TickDropped`. A replica that stops and starts is a new
holder (`life`). `Release` models `release_lock`, which the code offers and only
its tests call.

### IngestionQueue

A step is what the event loop runs between two awaits. `line` is asyncio's own
order of waiters on the semaphore. `Stop` is the cancellation, `LineUnwinds`
and `JobUnwinds` are the cancelled workers, `StopReturns` the end of `gather`.
`Service == INSTANCE JobService WITH ...` maps what waits to `line \o queue`
and what runs to `holding`.

### ResponseCache

`get`, `set` and `invalidate_group` hold the cache's lock and are one step each;
a query retrieves between them. A knowledge base's content is a version number.
An answer is the versions it was computed from. `told` remembers what a tenant's
last invalidation announced, `crossed` that an invalidation of the answer's
scope ran after it was retrieved; neither is read by the cache. A tenant may
share a knowledge base with another one; keys may span several. `Without` is
`_drop` on `_order`, written in closed form: each key that stays moves to the
place that counts the keys staying up to it.

### SpendLimiter

Totals are per process; the file is the last writer's totals, all buckets at
once. A call is checked (`Send`) and counted (`Answer`) in separate steps.
`CallFails` is an exception or an answer without usage. `End` may leave calls
under way, as the `gather` of a query that hits the limit does. Costs are whole
numbers up to `MaxCost`; a cost of nothing changes nothing. `paid`, `behind` and
`lost` are history: what all processes counted since the file was last reset,
which of them have not read what another one wrote, and whether one of these
wrote the file. A process that dies in `write_text` leaves a file that is no
JSON (`DiesWriting`), and the totals are gone with it. None starts from then on
until someone resets the file (`ResetByHand`), so the loss is noticed;
`BudgetBindsAll` would fail if the broken file were taken for no file.

### Reconciliation

A run is a sync: it brings entities in (`Extract`), reads the entities, the
links and the proposals in three statements (`ReadRows`, `ReadLinks`,
`ReadProposals`), and writes one statement per link and proposal it found
missing, the exact tier before the fuzzy one. Uuids are numbers in the order of
their text, because the canonical entity of a name is the one with the smallest
uuid; a uuid is never used twice. Names are constants of an entity. Which names
are similar is a constant too; `AlikeOneWay` is for pairs whose similarity
depends on the order of `SequenceMatcher`'s arguments, which the unordered rows
of the query decide. `amiss` and `repairs` are history: a run or an entity was
lost, and this run began after the last such loss.

`Register == INSTANCE IdentityRegister WITH ...` forgets runs, snapshots and the
direction and number of edges: a pair is joined when there is an edge between
its two entities, and the status of its proposal is the verdict on it. A write
of what is there already is a step of the code and none of the register.

### KnowledgeGraph

A fact names the episodes that stated it. `add_episode` is external: it reads
the edges it may resolve against (`ReadEdges`), calls the model, and writes
whole edges back (`SaveEpisode`), so that what another actor did to them in
between is overwritten; the tag a purge goes by follows in a statement of its
own (`TagEpisode`, which may give up). `crossed` is history: the episodes of
which another actor read or wrote the bookkeeping in between. An entity is a
uuid; one that was deleted does not come back.

### Retrieval and Answering

Pure operators over the graph's variables. Where Cypher or Graphiti's search
leave a choice (`LIMIT`, `shortestPath`, a ranking, the first of a dict), an
operator gives the set of all results there can be, and the model takes any of
them. Names are model values; that one contains another, or what it normalises
to, is a constant. An answer line is a record of what it says and how.

### ContextQuery

One question at a time, as a record `ask` that moves from stage to stage where
the code awaits; syncs and purges move in between. `mode` tells a question, a
causal question and the graph routes (`browse`) apart; `seen` is what the asker
may see, all entities in scope for a caller without a role. The theorems hold
for any constants; a second question at the same time would share nothing with
the first but the graph and the set of decisions.

### Lifecycle

A row keeps the fields that tie a connector to the outside: tenant, knowledge
base, subscription, grant. A request (`calls`) moves from one call to a remote
service, or statement of Neo4j, to the next and may break off at each
(`BreaksOff`); what the remote side did stands. `subs` and `grants` are the
remote side's own record. `Notify` may come late and often. `former`, `moved`,
`halted` and `adrift` are history: a tenant_id that has had two owners, a
connector that was moved, one whose deletion was cut off, and what was lost at
one of the points the code has for it. Nothing is renewed (`TickEnds`), because
in the code nothing is.

`Trust == INSTANCE Custody WITH ...` forgets tenants, knowledge bases, clients,
states and which of the two services is at the other end. Its things are the
subscriptions and the grants, its keepers the connectors. A thing is `carried`
by a request between the call that made it and the statement that records it;
it is `kept` by the connector whose row names it, and `lost` when it is live and
`adrift`. A connector is `unborn` until its id is drawn, `closing` while a
deletion of it is under way or once one was cut off, and `gone` without a row.
Only subscriptions end by themselves (`Perishable`). Steps that touch no thing
and no connector's stage are stutters.

## Runs

| Run | Shows | Bounds, and why they are enough |
|---|---|---|
| `sync` | `HashMeansIngested`, `ImplementsCorpus`, `NothingToIngest`, `CopiesArePaidFor`, `TypeOK`; `Converges`, `QueuedIsAnswered` under fairness | two tenants, one queued job, one pass, two records, all kinds, two disturbances of any sort. Two jobs are the smallest overlap; two records the smallest partial ingestion; two disturbances give every pair of a purge, a move, a failure, a changed source and a crash, for the liveness properties too. |
| `sync_double` | violation of `NoDoubleIngestion` | two queued jobs, one record, no disturbance |
| `sync_pending` | violation of `PendingIsResumable` | one pending Drive connector and one scheduler pass, no queued job |
| `sync_purge` | violation of `PurgeHidesNothing` | one job, one purge |
| `lock` | `LeaseIsHonoured`, `PassesOverlapOnlyPastLease`, `LeaseIsMutex`, `PassesGoOn`, `TypeOK` | three replicas (the deployment's maximum), an interval of three ticks, one tick of lateness, one crash or stop. Three units give every order of expiry and firing, the equal moment included. |
| `queue` | `PermitsAddUp`, `NothingOutlivesStop`, `ImplementsService`, `EveryJobIsServed`, `StopEnds`, `TypeOK` | four jobs on two permits: two run, two wait |
| `cache` | `OutdatedOnlyIfCrossed`, `OrderMatchesEntries`, `StaleAnswersDie`, `TypeOK` | two queries at once, one writer, three keys for two entries, a key that spans two knowledge bases, one shared by two tenants; one change each |
| `cache_stale` | violation of `NoOutdatedAnswer` | the same |
| `spend` | `OvershootIsBounded`, `CostIsOwn`, `BudgetBindsAll`, `TotalsSurviveRestarts`, `TypeOK` | server and script, two queries of which one makes two calls at once, budgets of two and one, calls that cost one; totals are bounded by the budgets, so no further bound is needed |
| `reconcile` | `OneLinkPerPair`, `OnlyPeopleLinkSimilarNames`, `NothingMissed`, `ImplementsRegister`, `TypeOK` | two syncs at once, three namesakes in three knowledge bases (the smallest star, with any of them canonical for a while), one entity with a similar name that may be proposed with two of them; any entity may be purged, any run may fail. Runs repeat without bound; uuids are used up. |
| `service` | `GraphMatchesEpisodes`, `AnswersStayVisible`, `NothingVanishes`, `DecisionsAreGrounded`; `RemoteStateIsAccounted`, `TenantBoundary`, `ImplementsCustody`; `TypeOK` of both | A behaviour is of one part. *graph*: two connectors on shared facts, two episodes, any overlap of syncs and purges, the first purge before anything is tagged included; between their steps a graph route may list the knowledge base. *query*: four records with six facts in two knowledge bases, a path and a chain through a hidden node next to a path around it, a superseded fact with and without its replacement, namesakes linked across knowledge bases; every route, role and scope, four questions, `MaxStirs` = 2 re-ingestions or purges under way at any stage. *tenant*, *push*, *drive*, *consent*: two tenants of which one is in `tenants.json`, two requests at once (creation against deletion), one connector of the part's kind, `MaxUpsets` = 3 steps of the operator or restarts. |
| `push` | violation of `PushIsRenewed` under fairness | one mailbox, one subscription, no operator, no restart |

Bounds that are constants of the modules: `MaxDisturbances` and `MaxCopies`
(`ConnectorSync`), `MaxLate` and `MaxStops` (`SchedulerLock`), `MaxVersion`
(`ResponseCache`), `MaxCost` (`SpendLimiter`), `MaxEpisodes`
(`KnowledgeGraph`), `MaxDecisions` (`ContextQuery`), and of `MCService`
`MaxMade`, `MaxStirs` and `MaxUpsets`. `MaxCopies` saturates the count
of copies; it is above what `CopiesArePaidFor` allows in its run. Deadlock is
checked except where the system may really stop: a deleted connector with
nothing in flight, a queue that was stopped or served every job, a mailbox that
never got its subscription. `reconcile` uses symmetry of the runs; runs with
liveness properties use none, and `sync` begins with a connector of the first
of two tenants that no action tells apart (`CreatedForT1`).

`PROJECT.json` names for every property of a passing run a mutant: a plausible
slip in the code (a comment `slip` marks it in the module) that breaks it.

## Fairness

* `ConnectorSync`: each job's next step (awaits return: fetches
  over HTTP have a timeout, the others read local files, a Cypher call returns
  or raises), the purge's next statement
  (one function body), and the scheduler's pass (an interval job that fires for
  ever). Requests, disturbances and operators are not fair.
* `SchedulerLock`: time, a due tick, the end of a pass over finitely many
  connectors. A stopped replica need not start again.
* `IngestionQueue`: the event loop runs what is ready; jobs end. Nobody has to
  enqueue or stop.
* `ResponseCache`: a query under way goes on or fails, and time passes.
* `Lifecycle`, in `push`: the interval job ticks and its passes end, requests
  under way go on. Graph need not end a subscription, nobody has to ask.

## What the violation runs show

1. **The content hash does not prevent double ingestion** (`sync_double`). The
   hash is compared with the row read when the sync was queued or listed. Two
   clicks on "Sync now", or a click during a pass, both see the old hash and
   both ingest. Comments in `ingestion_queue.py:19` and
   `connector_scheduler.py:13` rely on the opposite. `CopiesArePaidFor` says
   what does hold: without overlap, only disturbances cost copies.
2. **A scheduler pass strands a pending Drive connection** (`sync_pending`). A
   pass takes every connector that has a factory; one whose files are not
   picked fails with "No files were selected" and becomes `error`: the run's
   trace is `SchedulerSync`, `FetchFails`, `RecordError`. Resuming and
   finishing the picker both require `authorized_needs_files`. A "Sync now"
   does the same, by way of `queued`.
3. **A purge during a sync leaves the hash of removed content** (`sync_purge`).
   The sync records its hash after the purge reset it; from then on every sync
   is "unchanged" and the connector stays empty, which is what the comment at
   `connectors.py:546` sets out to prevent. `HashMeansIngested` holds in every
   other interleaving.
4. **An invalidation misses the answers under way** (`cache_stale`). A query
   that retrieved before the invalidation stores after it. `OutdatedOnlyIfCrossed`
   and its proof say that this is the only way through, `StaleAnswersDie` that
   the TTL ends it.
5. **Push subscriptions are never renewed** (`push`).
   `set_push_subscription` stores the expiry as text
   (`graph/connectors.py:652`), `_to_native` leaves text alone, and the renewal
   pass subtracts the current time from it (`connector_scheduler.py:96`): a
   TypeError at the first connector that has a subscription, whether it is due
   or not, on every tick, after the tick's syncs. The subscription ends after
   its sixty hours, and the row shows `push_enabled` from then on. The tests of
   the pass use rows whose expiry is a datetime.

Two more, seen on the way and stated as what holds instead of as runs: "only
whichever replica wins it for this tick actually runs"
(`connector_scheduler.py:17`) and "a slow tick shouldn't overlap with the next
one" (`:145`) hold within a replica and within a lease, but a pass that is
slower than its lease overlaps with another replica's
(`PassesOverlapOnlyPastLease`); and "the running total survives process
restarts" (`spend_limiter.py:28`) holds for a process that wrote the file
last (`TotalsSurviveRestarts`), and for all of them together until one writes
over totals it never read (`BudgetBindsAll`).

Reconciliation keeps what its comments promise about concurrency
(`reconciliation.py:64-70`, `:176-184`, `:194-206`, `:290-302`), and the runs and proofs
show it. Two other comments promise more than the code: "one hop is enough"
(`:243`) does not hold for an approved pair whose end is a leaf of its star, nor
after the canonical entity was purged; and "the next sync ... will just try
again" (`connector_sync.py:153`) holds only for a sync that ingests something,
because one with unchanged content returns before it reconciles.
`NothingMissed` states the condition under which the links are complete. A
decision is kept per pair of uuids, so "never proposed again"
(`api/reconciliation.py:6`) ends when a record is purged and ingested anew.

Divergences seen while modelling that no run is spent on, because a property
that holds says where the limit is, or because only one reading of a comment is
refuted:

* Graph and purge. A purge keeps an entity that has a recorded decision's
  INVOLVES edge, and deletes entities without facts that another connector
  mentions too. It does not bring back facts its own sync had invalidated. An
  episode tagged between two of its statements, or an `add_episode` that read
  its edges before, leaves a fact naming an episode there is no more: the
  `crossed` episodes `GraphMatchesEpisodes` excepts.
* Answers. Two facts of one pair of nodes always have one knowledge base, so the
  authority tie-break promised in `README.md:439` never finds sources to
  rank (`NothingVanishes` holds without it ever taking a line). A transition may
  pair a superseded fact with an unrelated one of the same source and time. A
  hidden first match, or a limit that is spent before the visibility filter,
  makes an answer say less than the asker may see; it never says more
  (`AnswersStayVisible`). OData lists recorded recommendations as entities,
  other routes hide them.
* Decisions. One whose anchor is purged during the calls to the model is
  recorded without a link (`DecisionsAreGrounded` says when).
* Lifecycle. A tenant_id may be in `tenants.json` and in Neo4j at once, with two
  keys; one that is deleted and created again inherits connectors, document
  sets and the cached client (`former` excepts both). The knowledge base in an
  OAuth state, and those of a document set, are not checked again when they are
  used. A connector moved during its deletion keeps a revoked grant. A grant or
  subscription whose recording statement fails is forgotten (`adrift`).
  Microsoft's grants are not revoked when their connector is deleted.

## Proofs

TLAPS proves, for all values of the constants allowed by the named assumptions
(`SyncAssumption`, `LockAssumption`, `NobodyHolds`, `QueueAssumption`,
`CacheAssumption`, `SpendAssumption`, `ReconcileAssumption`, `PartitionAssumption`,
`QueryAssumption`, `LifeAssumption` and those of the modules they extend; TLC
evaluates them in every run of their modules):

* **ConnectorSync**: `TypeOK`, `HashMeansIngested`, `IngestionsOnCourse`,
  `NothingToIngest`, `CopiesArePaidFor` and the refinement of `Corpus`. The
  hash invariant alone is not inductive: that `RecordSynced` may write its hash
  needs that the job has put into the graph all it counts as done
  (`IngestionsOnCourse`), and that a busy job has a tenant, so that its result
  never matches a deleted row (`RowsAndJobs`). The key lemma, `EpisodesStay`,
  says that nothing but a purge removes an episode. The refinement adds, action
  by action, that whoever overwrites the hash writes one that holds.
  `NothingToIngest` needs that no job on such a connector has come past its
  fetch, that the old rows which jobs work on have no files either
  (`BarrenInv`), and that picked files are never taken back (`BarrenWas`).
  `CopiesArePaidFor` is an account (`PaidInv`): at rest, before a job's fetch and
  in the middle of its ingestion the copies of a record are bounded by the
  disturbances nothing has been charged to, one of which a purge under way
  reserves until it resets the hash (`Free`).
* **SchedulerLock**: `TypeOK`, `LeaseIsHonoured`, `PassesOverlapOnlyPastLease`,
  and the refinement of `Mutex`. The strengthening relates holders to process
  lives.
* **IngestionQueue**: `TypeOK`, `PermitsAddUp`, `NothingOutlivesStop`, and the
  refinement of `JobService`. That permits add up needs that no job is in two
  places (`NoJobTwice`); that `stop()` is final needs what it cancelled
  (`StopMeans`).
* **ResponseCache**: `TypeOK`, `OutdatedOnlyIfCrossed`, `OrderMatchesEntries`.
  The invariant follows an answer
  from its retrieval: it knows all that was announced by then, and a later
  invalidation either marks it, while its query is under way, or drops it. For
  the eviction order the invariant is that each cached key has one place
  (`OrderInv`); that a removal keeps it is proved by counting places
  (`PlacesCloseUp`, `WithoutKeepsTheRest`), without induction over sequences.
* **SpendLimiter**: `TypeOK`, `OvershootIsBounded`, `CostIsOwn`,
  `BudgetBindsAll`, `TotalsSurviveRestarts`. The bound is strengthened by the
  calls still to be counted, each at its highest price (`RoomForCalls`). That it
  binds all processes together needs that what they counted is known to every
  one that has read the file's last state, and to the file (`PaidIsKnown`).
* **Reconciliation**: `TypeOK`, `OneLinkPerPair`, `OnlyPeopleLinkSimilarNames`,
  `DecisionsStand`, `ApprovalLinks`, `NothingMissed` and the refinement of
  `IdentityRegister`. A pair stays linked once
  because the exact tier only links upwards (`LinksGoUp`), whatever snapshot a
  run has, and because proposals concern different names
  (`ProposalsAreSimilar`), so an approval never meets an exact link.
  `NothingMissed` follows from `Coverage`: unless some sync is still bringing
  entities in, the last run that read them read all of them, and every pair is
  in the graph or among what that run has still to write. The refinement needs
  one more invariant, that what a run has still to write joins two knowledge
  bases (`RunsReachAcross`), and of every statement that it changes nothing or
  makes one step of the register, on whatever snapshot it rests.
* **ContextQuery** with the three modules under it: `QueryTypeOK`,
  `GraphMatchesEpisodes`, `AnswersStayVisible`, `NothingVanishes`,
  `DecisionsAreGrounded`. That a purge takes no more than it should needs what
  each draft and each purge under way has read, and that whoever writes over it
  crosses the episodes concerned. An answer's visibility follows from lemmas
  about what each retrieval operator returns, whatever the choice it leaves,
  and from an invariant on the request at each stage: its scope and what its
  asker may see are fixed when it begins. Answers are complete because two facts
  that rival each other would have to be of two knowledge bases and of one pair
  of nodes, and every entity has one home. A decision's link holds because a
  purge never takes an entity with a decision on it.
* **Lifecycle**: `LifeTypeOK`, `TenantBoundary`, `RemoteStateIsAccounted`,
  `InOneCustody` and the refinement of `Custody`. The
  boundary needs the requests under way and the states in browsers to be as
  bounded as the rows they become (`BoundaryInv`). That nothing remote is
  forgotten needs that a subscription is in the hands of one request and is of
  one connector (`PushInv`), that a grant is in one row at most, and that a
  deletion which has come as far as the grant knows all the row had when it
  began (`GrantInv`). The refinement adds what a step needs to know of the things it
  does not touch (`CustodyInv`): what is adrift or in a row was once set up,
  what a request carries has not slipped away, a row keeps a thing of its own
  connector only, and what a deletion has still to end is what its row names.
  Then every step moves one thing from one custody to the next, opens or closes
  one connector, drops what the requests of a process that ends were carrying,
  or changes nothing that `Custody` sees. The same invariants say that a live thing is
  in one custody and not in two (`InOneCustody`). `LifeAssumption` takes
  subscriptions and grants for different things, which they are: ids that two
  services give out.

Every safety property the passing runs check is stated by a theorem; the
`TypeOK` of `service` is the conjunction of two, `QueryTypes` and `LifeTypes`.
Four properties are stated by a theorem only: `IngestionsOnCourse` is part of the
invariant behind `ImplementsCorpus`, `InOneCustody` follows from the one behind
`ImplementsCustody`, and `DecisionsStand` and `ApprovalLinks` are proved of
every behaviour of `Reconciliation` (`DecisionsAreFinal`, `ApprovalsTakeEffect`).

Only model-checked: every liveness property (`Converges`, `QueuedIsAnswered`,
`PassesGoOn`, `EveryJobIsServed`, `StopEnds`, `StaleAnswersDie`) and
`PushIsRenewed`'s violation, which rest on fairness and ENABLED.

## What is not modelled

* Uploaded files, which lie on the disk of the replica that received them, and
  the fallback to bundled data where they are not; `ConnectorSync` sees them as
  a source that changes. The batch script's ingest log.
* Sources that skip items they cannot read, apart from Drive; parsing,
  extraction and the language model itself: a record is ingested or it is not,
  and an answer is its lines, not the prose written from them.
* What Graphiti decides: which facts a text yields and what contradicts what are
  constants. Embeddings: a search returns any of the facts it may.
* Sub-statement behaviour of Neo4j: a Cypher statement is atomic, as the
  single-statement arguments in the code assume. The several reads within one
  stage of a question, between which nothing awaits, are one step.
* Renaming: an entity keeps its name, its knowledge base and its uuid. Changes
  to the org chart, to assignments and to `tenants.json` while the service runs.
* Microsoft's grants, access tokens, rotation of the encryption key; a
  notification whose client_state is wrong, which changes nothing.
* Clock skew: lease times are all computed by the database.
* Amounts of money beyond whole units, rounding, and price tables.
* Ontology packs and their validation, models, the front end: static data,
  formats and user interface.

## Plan

1. `Uploads`: uploaded files per replica and the fallback to demo data, and the
   ingest log of the batch script, which both decide what a later sync sees.
2. A composition of queue, lock and sync, in which `Ticks` is what the lock
   lets through.
