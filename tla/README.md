# vidra-search, specified and checked

vidra-search is the search, suggestion and recommendation service of the vidra
video platform: one Go program (HTTP API and background worker) over a Postgres
schema and a Redis cache, fed with events by the platform core, vidra-core. This
directory holds TLA+ specifications of it, the TLC configurations that check them on
small instances, and TLAPS proofs of their main invariants.

`PROJECT.json` lists, machine readably, the components, the runs and their
properties, the source lines every definition stands for, the hazards and the
theorems. This file explains them.

## 1. Inventory

### State

| where | what | who writes it |
|---|---|---|
| `catalog_scopes`, `catalog_epochs` | observation authority: current epoch, highest seen and completed generation, completed manifest; permanent epoch history | epoch compare-and-swap, catalog events |
| `catalog_snapshots`, `catalog_snapshot_pages` | evidence of one pending observation | catalog events, expiry job |
| `documents` | the searchable videos, with a static visibility gate (`eligible`, `suppressed_reason`) | catalog activation; before initialisation the legacy event stream |
| `events_inbox` | receipts of applied events, kept seven days | every ingest, retention job |
| `query_log`, `behavior_events` | searches and viewer behaviour | behavioural events, history deletion, retention |
| `query_aggregates`, `worker_cursors` | counters per normalized query, `suggestible`, `banned`; how far each rollup got | rollups, re-evaluation, moderation |
| `query_video_engagement`, `user_watch_projection`, `item_neighbors` | derived from the ledgers above | worker jobs |
| `user_search_history` | per-account history | behavioural events, history endpoints |
| `models`, `experiments`, `service_config` | ranking models, arms, runtime settings | operator, `config.updated` |
| Redis | suggestion cache (60 s, keyed by fence), recent session lists, trending counters and guards | handlers, post-commit flush, sweeper |
| process | active model pointer, experiment registry, readiness cache, drain flag | jobs and signal handler |

### Components and how they interact

* **Catalog receiver** (`internal/store/catalog_*.go`, `internal/catalog`). vidra-core
  sends whole observations of its catalog as `catalog.snapshot_page` and
  `catalog.snapshot_end` events under an operator-installed epoch and an increasing
  generation. Pages and manifests are staged in any order; the event that brings the
  last piece verifies the observation and, in its own savepoint, replaces the local
  documents and publishes the fence (epoch, generation).
* **Catalog transactions** (`internal/event/catalog_*.go`). Catalog batches, legacy
  batches, epoch changes and the cleanup job serialise on one transaction-scoped
  advisory lock.
* **Fenced reads** (`internal/api/catalog_read.go`, `internal/suggest`,
  `internal/search`, `internal/recommendation`). A caller names the fence it believes
  in; the handler compares it with the authority before and after its queries, which
  run without a lock or a common snapshot, and may use the suggestion cache.
* **Legacy event ingest** (`internal/event/service.go`). Batches of events, delivered at
  least once and in any order, one savepoint each, deduplicated by the inbox. Its
  catalog part is refused for good once a catalog epoch exists.
* **Worker** (`internal/worker`). One goroutine per job, each running its job at a
  fixed interval, concurrently with the others: aggregates (1 m), engagement,
  sessionizer, co-visitation (15 m), retention, reconcile guard, re-evaluation (daily),
  trending sweep, model loader, experiment refresh, shadow evaluation, catalog cleanup
  (hourly).
* **Moderation** (`internal/moderation`): bans and unbans of suggestions, in between.
* **History and privacy** (`internal/history`): reads and deletes an account's rows in
  Postgres and its session lists in Redis.
* **Trending** (`internal/cache`, `internal/trending`): decayed scores in Redis behind a
  distinct-user gate, bumped by ingest and by the engagement rollup.
* **Suggestions, search, recommendations** (`internal/suggest`, `internal/search`,
  `internal/recommendation`): each gathers candidates by several queries (documents,
  aggregates, history, neighbours, trending list), ranks them and composes one answer.
* **Ranking, models, experiments** (`internal/ranking`, `internal/model`,
  `internal/experiment`): scorers, a model pointer that the loader hot-swaps, a cached
  experiment registry that routes a subject to a model version, a shadow evaluation that
  writes metrics onto the rows of candidate models.
* **Schema migrations** (`internal/dbmigrate`, `cmd/api/migrate.go`): a one-shot process
  per deploy; the services of a release start when it exits with 0.
* **Server, authentication, configuration, telemetry**: the process around it
  (`internal/api/server.go`, `health.go`, `auth.go`, `internal/config`).

The components meet in three places: in Postgres transactions at READ COMMITTED (each
statement sees what is committed when it starts), in the advisory lock all catalog
writers take, and in Redis, which is written after the commit and read without any
transaction.

### What is hard here, and what makes each part correct

| part | what can go wrong | what must hold |
|---|---|---|
| receiver | reordered, repeated, late, contradictory or foreign evidence; an expired observation revived; two operators | a published fence names exactly one whole observation and is never reused |
| transactions | a batch cut short; authority read before the lock; a lock left behind | committed state moves by whole steps of the receiver; every transaction ends |
| reads | queries of one answer straddling an activation; a cached answer outliving its documents | every query of an answered read saw the documents of the fence it named |
| legacy ingest | redelivery, partial failure, a swept receipt, hiding for several reasons at once | documents are explained by the events applied; answers are durable; a relist revives nothing else |
| aggregates | plans written over newer rows; ids that commit out of order; rotated sessions | nobody is exposed by a suggestion fewer than the floor searched for; the counters end up at the log |
| engagement rollup | rows that leave the ledger without a new event; a pass cut short between its statements, or between its commit and its bumps | the counters end as a recount of the rows left; each weight comes from one committed, consented row; no bump without a row |
| sessionizer | a cursor over ids whose settling is judged by the producer's clock | every search the cursor has passed was judged |
| co-visitation | one person in many sessions; evidence that is deleted after publication | an association has its floor behind one source, and leaves with its evidence |
| history | a deletion running statement by statement beside batches and their post-commit flush; a redelivery after it | what survives is on the account's page; what is deleted stays deleted and is not offered |
| trending | a guard spent without its bump; bumps racing each other and the sweep | one subject counts once per guard; a listed item had its distinct subjects |
| model loader, experiments | an arm naming a model that is not the active one; missing or foreign artifacts | an answer is stamped with what scored it; the registry is served as it is left |
| paging | a recall window that grows with the offset, cut at a ceiling | `has_more` is exact at every page |
| suggestions | variants of one text merging in any order; two slots reserved one after the other | a title keeps the video its authorization is checked by; each class keeps its slot |
| recommendations | candidates older than the catalog, some without channel; a slot filled after the filters | a feed is eligible, spread and without what it hides |
| migrations | a dirty ledger, or one ahead of the program; two migrators; a crash between the marks | a clean ledger is true; a service runs on a schema that holds all it was built for |
| server | a cached readiness answer during a drain or an outage; handlers that outlive their watcher | no routed request meets a closed listener; answers are fresh; the process exits |

`PROJECT.json` lists 39 hazards at their lines, with the properties that would catch
each, or why none does.

## 2. Modules

| module | models | builds on |
|---|---|---|
| `CatalogAuthority` | what the receiver promises: whole observations, each under a fresh fence | |
| `CatalogReceiver` | the receiver: one action per event (with the completion check of its savepoint), epoch change, expiry, pruning, legacy write | implements `CatalogAuthority` |
| `CatalogTransactions` | the same operations on the rows of a lock holder: begin, lock, legacy check, events statement by statement in their savepoints, commit, rollback, giving up | extends and instantiates `CatalogReceiver` |
| `CatalogRead` | handlers and the suggestion cache beside the receiver | extends `CatalogReceiver` |
| `EventIngest` | what the two event paths share: bounds of a batch, what the sweep of receipts may take | |
| `LegacyIngest` | the legacy event path, inbox and its sweep | extends `EventIngest` |
| `QueryAggregates` | the query log and the two passes over it, moderation, deletion, expiry | |
| `HistoryDeletion` | recording of viewer behaviour, history deletion by endpoint and by event, the session lists | extends `EventIngest` |
| `BehaviorLedger` | `behavior_events`: ids at insertion, visibility at commit, deletion, retention | |
| `Listings` | the lists that sorts and filters of the code return, defined by what is in them and in which order, so that a proof can say so; used by `EngagementRollup`, `Sessionizer`, `Suggestions` and `Recommendation` | |
| `EngagementRollup` | derivation of meaningful watches, recount, projection weights, bumps after the commit | extends `BehaviorLedger` |
| `Covisitation` | the rebuild of the neighbour index with its floor | extends `BehaviorLedger` |
| `Sessionizer` | settled watermark, cursor, reformulated and abandoned searches | extends `BehaviorLedger` |
| `Trending` | bumps, guards, counters, sweep, gate and list in Redis | |
| `ModelRegistry` | registry rows, artifacts, loader, experiment arms, requests, shadow evaluation | |
| `SearchPaging` | simple and advanced search page by page | |
| `Suggestions` | one suggestion request from its streams to its list, and the shared list | |
| `Recommendation` | home and related feeds, simple and advanced, read by read | |
| `SchemaLedger` | migrators, ledger, library lock, repair, services | |
| `ServerLifecycle` | readiness, drain, shutdown, handlers and the database pool under a clock | |
| `CatalogReceiverProofs`, `LegacyIngestProofs`, `QueryAggregatesProofs`, `HistoryDeletionProofs` | theorems | the module each is named for |
| `CatalogBoundaryProofs` | theorems about `CatalogRead` and `CatalogTransactions` | both, and `CatalogReceiverProofs` |
| `WorkerProofs` | theorems about the worker jobs | `Trending`, `Covisitation`, `EngagementRollup`, `Sessionizer` |
| `ServingProofs` | theorems about a serving process | `SchemaLedger`, `ServerLifecycle`, `ModelRegistry`, `SearchPaging`, `Suggestions`, `Recommendation` |
| `FoldLemmas` | what folds, sums and listings do, for lists and sets of any length | `Listings`; used by the four other proof modules that speak of lists or sums |
| `MCCatalogBoundary`* | `CatalogRead` and `CatalogTransactions` on one instance | |
| `MCEventIngest`* | `LegacyIngest` and `HistoryDeletion`: a batch goes one path or the other | |
| `MCWorkerJobs`* | the four worker jobs over one ledger's worth of constants | |
| `MCServing`* | the six concerns of a serving process | |
| other `MC*` | constants for TLC | |

The four starred modules put several components under one specification. Their
components share no variable (`side`, `path`, `job` and `part` choose, once and for all, which of
them a behaviour is about), because interleaving what cannot interact multiplies states
and shows nothing.

Definitions written as `\* Mutation: ...` are plausible bugs of the definition they
stand beside. None of them is used by a specification; each is substituted, one at a
time, to confirm that the property named for it notices.

### CatalogReceiver

State: `history` is `catalog_epochs`; `epoch`, `highest`, `completed` and `manifest` are
the columns of the local row of `catalog_scopes`; `pending` is the row of
`catalog_snapshots` with its pages; `documents` the row of every video. One event is one
action because every writer holds the advisory lock from its first read to its commit.
A refused event rolls its savepoint back: it is an action that is not enabled.
`StageCatalogPage` and `StageCatalogEnd` admit the generation (`Admissible`,
`AdmittedSnapshot`), stage the evidence and settle it (`Settle`): an observation with all
its pages and its manifest is verified and activated in the same step, or the event is
refused. Digests are modelled as what they identify (the membership hash is the set of
ids, a page hash its content), so the model says nothing about collisions. Page, document
and byte quotas are constants. Legacy writes stand for every write of the legacy stream;
`LegacyIngest` models them in detail.

### CatalogTransactions

The `w...` variables are the rows as the lock holder sees them. A session begins, takes
the lock when it is free, runs its preamble (a legacy batch reads the authority *after*
it holds the lock), its events, and commits all of it or nothing. A catalog event is a
savepoint, `sub`: `StageEvidence`, and when that completes the observation
`ProjectDocuments`, `SweepOrphans`, `PublishScope` and `ClearSnapshot`, one statement of
`CompleteCatalogSnapshot` each, then `ReleaseSavepoint`, which hands its rows to the batch.
`RefusedEvent` ends the savepoint after any of them, and the batch goes on; `Rollback` ends
the batch at every step: an error, a deadline, a lost connection, a crash. So the
atomicity `CatalogReceiver` gives an event is shown here and not assumed: a half-written
activation never reaches the rows that commit.

### CatalogRead

A reader is a handler: `BeginRead` (fence check), any number of `QueryDocuments` (each
its own snapshot), or `HitCache`, then `FinishQueries`, which may fill the cache before
the answer is known to be good, and `FinishRead`, the second check. `published` is a
history variable: the documents as they were when each fence was published. An entry
leaves the cache at any time.

### LegacyIngest

`outbox` is what vidra-core emits, chosen freely; a batch is any short sequence of its
ids, so that loss, duplication, reordering and late redelivery are all present. `Open`
takes the lock and reads whether the scope is initialised; `Start` is the savepoint with
the inbox row; `RunStatement` runs one SQL statement of the event (a reconcile page has
one per video); `Release` and `Fail` end the savepoint; `CommitBatch` and `AbortBatch` the batch.
`SweepOldReceipts` removes some of the receipts and does not take the lock. `applied` is
a history variable. `video.stats` and `config.updated` are left out: no property tells
their values apart. All payload reasons of `video.suppress` are one value.

### QueryAggregates

A `query_log` row has the id it was given when inserted and becomes visible when its
transaction commits, in any order. Both passes are split where the database splits them:
a statement computes its rows from what is committed (`RollupCompute`, `ReevalCompute`)
and writes them later over what is there then (`RollupCommit`, `ReevalWrite`). The
rollup reads `banned` when it computes and writes it back; the re-evaluation leaves
`banned` out of its SET list. The floor is a constant; `decayed_freq`, `display_query`
and the dates, which are further functions of the same rows, are left out. One rollup
and one re-evaluation run at a time, as the worker runs them in one process. A visitor
without an account or a subject has `NoVisitor` there. `MaxAborts` bounds how often a pass
is cut short; `MaxBatches` is `reevalMaxBatches`, the cap that ends a pass whose batches
stay full because rows move behind it. With one query the cap never keeps a row waiting
that a later pass would reach: that rows of *other* queries wait for the next pass is
outside these runs.

### HistoryDeletion

`queryLog` and `behavior` are the ids of the events with a row in `query_log` and
`behavior_events`; `personal` counts, per account and item, the upserts of
`user_search_history` and `user_watch_projection`; `recent` holds the lists `sess:q:` and
`sess:v:`. Each process runs one request: `tx[p].todo` are the statements it has left, a
job per savepoint (an endpoint has one job, a batch one per event), written out in
`ClearAll`, `PurgeUser`, `DeleteEntry` and `EventStatements` in the order of the code.
One action runs one statement and sees what is committed at that moment; its rows and
deletes stay in the transaction until `Commit`. A statement waits for the inbox key, the
personal row or the ledger rows another open transaction has written. `FailEvent` rolls
one savepoint back, `Abort` everything: an error, a deadline, a crash, or a deadlock that
Postgres resolves. Redis calls are made one by one after the commit and may each be
lost. `swept` and the field `found` (what a request named when it began) are history
variables. `hidden` is never set by this program; the rows the workers derive into
`behavior_events` or the projection, and the retention of the ledgers after months, are
left out.

### BehaviorLedger, EngagementRollup, Covisitation, Sessionizer

`ledger` is `behavior_events`; a row's id is its position, its status says whether its
transaction is open, committed or rolled back, and whether it was deleted or has expired.
A statement of a job sees the committed rows and those of its own transaction. What the
core sends is of none of the `DerivedTypes`, the types only a worker writes
(`event/types.go:67-71`): this is part of `BehaviorLedger`'s assumption, and without it nobody
could tell a derived row from a claim to be one.

`EngagementRollup`: `pass` is the transaction of one pass, a statement per action;
`position` the cursor, `table` the counters, `watch` the projection with the rows behind
each weight. `DeriveMeaningfulWatch` inserts one row per owner, video and day and may
attribute it to any of the latest queries of its session when several tie.
`EngagementCommit` shows everything at once; `TrendBumpFlush` runs after it, bump by bump.
`EngagementFails` can strike before the commit, a stop of the process after it. A deletion
waits for the projection rows an open pass has written. The thresholds of a meaningful
watch are one attribute of an event (`long`), and decay is left out of weights.

`Covisitation`: pairs, subjects and the floor per source are those of the SQL; the
score, a product of shrinkage and normalisation, is not: of the pairs that clear the
floor, any `TopM` per video may be kept. Drop and rebuild are one step because one
statement reads the ledger and nobody sees the drop before the commit.

`Sessionizer`: `SessionizerRead`, `SessionizerList` and `SessionizerCommit` are the reads
and the transaction of one pass; `Sessionize` is the pure function of the code, on the
batch sorted by session, time and id. A search that commits when the cursor, or the pass
about to commit, has already passed its id is marked `late`, and
`PassedSearchesWereJudged` does not speak of it, since no step of the code could still judge
it. That the mark passes searches too early, because ids and producer times do not rise
together, is what `WatermarkIsClean` says cannot be and a run shows (section 5). `None`
stands for a row without a session, which the list leaves out.

### Trending

A bump is `BumpCounters` (the pipeline), `TakeGuard` (`SETNX`) and `BumpScore` (the
script), by any number of bumpers, each of which may stop between two. `score` keeps the
increments of each subject instead of the decayed sum, so the sweep keeps any subset and
takes any `TopK` of it. The gate is `EvaluateGate`, with the Wilson bound solved for the
two counts (its square root leaves an integer inequality). `lapses` is a history variable.
One domain is modelled; the other has the same keys under another prefix.

### ModelRegistry

`models` and `files` belong to operators, `definitions` to `search.experiments`; `served`
is the loader's atomic pointer, `arms` the cached registry, `shadow` the pass under way. A
digest is the content it identifies. `Refresh` is its read of the active row and then one of
clear, skip, load and keep; a request asks for an arm, takes the pointer, and stamps. A
process may start beside a registry in use. A row without a digest skips the checksum
(`Verified`), but no row here lacks one: the trainer, the only writer of rows outside the
tests, always names it. A path receives an artifact once, as the training scripts name them; that the loader reads
a file twice, for its digest and for its content, is therefore one step.

### SearchPaging, Suggestions, Recommendation

`SearchPaging`: documents are their ranks; in advanced mode every recall window has a
ranking of its own (`rank`, any permutation, since a larger pool may reorder everything),
and the client walks with any mix of limits, negative and excessive ones included. The
corpus does not change during a walk.

`Suggestions`: `Gather` takes any subset of the streams' rows under the conditions of the
code; `Blend`, `Merge` and `ReserveSlots` are the functions of `ranking/suggest.go` over
integer scores, which stand in the order the default weights give.

`Recommendation`: one action per query (the recently watched videos are read twice, the
trending list and the gravity query behind it are two reads), each on the catalog of its own
moment, then
`ReadFeatures` (which filters), `Explore` and the composer. The neighbour index, the
trending list and the orders by popularity and recency are constants; the scores and the
diversity selection are any order. `sinceStart` is a history variable: what was eligible
at some moment of the request.

### SchemaLedger

A migration is three steps (dirty mark, SQL, clean mark); `MigrationFails` may leave half
of it, `MigratorDies` may strike anywhere and frees the session's lock. `MigrateUp` reads the
ledger without the lock, as `Up` does. `RepairSchema` and `ForceVersion` are the documented
procedure. `services` are the releases with a running service. Migrations are additive:
a schema holds every step up to its version.

### ServerLifecycle

A probe arrives, is handled (draining wins), waits for the mutex with the time it took
before, shares the snapshot or pings, stores. A watcher that gives up leaves its handler behind:
one that was waiting for the mutex joins `orphans`, pings with a cancelled context once the
mutex is free, and caches "down" for a database that is up; `cutAt` remembers it. One that
gives up in the middle of the Postgres ping does so at once, and during the Redis ping after it
what Postgres answered stands. A timer that is due holds the clock, which makes deadlines
exact. The balancer un-routes after `FailThreshold` failed checks in a row, counted in
`failed`, and a 200 starts the count again (`server.go:71-72` speaks of that threshold; the
balancer is no code of this repository). `LifecycleAssumption` states the deployment the drain
is for: a delay longer than `FailThreshold` probe intervals plus the probe's timeout. Nothing
in the code checks it.

## 3. Runs

| run | shows | instance and size |
|---|---|---|
| `catalog_receiver` | nine properties of the receiver, among them that it implements `CatalogAuthority` | 2 epochs, 3 generations, 2 videos, 2 metadata, 5 page contents (overlapping, contradicting, malformed), 6 manifests (two lie about their membership, one of them empty), 2 pages; 19 thousand states |
| `catalog_boundary` | answered reads saw one observation; committed state implements `CatalogAuthority`; every transaction that asks for the lock ends | reads: one handler, 2 epochs, 2 generations, local and foreign rows; transactions: 2 sessions, batches of up to 2 events, each statement by statement; 488 thousand states |
| `event_ingest` | legacy path: documents are explained by the applied events; a second application needs a swept receipt; unlisting only masks; answers are durable. Viewer path: a surviving search is on the page; a row needs a fresh receipt; a deletion takes what it found; the lists hold nothing that was rolled back | legacy: 3 events of 7 kinds; viewer: 2 processes, a search, a watch and a deletion event, purge and entry deletion, Redis failing; batches of 2, one swept receipt; 936 thousand states (symmetric processes; an outbox stands for its permutations) |
| `query_aggregates` | the floor; the counters end up at the log; a pass of the re-evaluation ends | one query, two searches, an account and a machine with two sessions, floor 2, a full batch is one row, at most 2 batches, one aborted pass; 293 thousand states |
| `worker_jobs` | the four jobs: what each derives, counts or publishes matches its evidence and its floor, and the recounted tables settle | 2 rows of a click and 2 progress events for the engagement job; 4 of 7 events of an account in 2 sessions and of a pseudonym for co-visitation, floor 2; 3 different searches in 2 sessions and a clock of 3 for the sessionizer; 2 subjects, 2 bumpers, 2 days, one item for trending; 657 thousand states |
| `serving_process` | the six concerns of a serving process: schema, lifecycle, ranker, paging, suggestions, feeds | 3 releases, 2 migrators, 4 runs; 2 watchers, one request, 2 failed checks to be un-routed, a clock of 12, one outage; 2 model versions and an arm for each, 2 paths with 2 contents, one or both placed at the start, a registry that is empty or in use, 2 operator changes; corpora up to 5 over 2 recall blocks of 2; 8 stream rows, limits 1 to 3; 4 videos, 3 of one channel, 2 catalog changes; 870 thousand states |
| `legacy_outrun`, `aggregates_ban`, `aggregates_cursor`, `history_event`, `sessionizer_watermark`, `suggest_slots` | disagreements between a documented claim and the code (section 5) | |

Why the bounds are enough. *Receiver*: two epochs are needed to replace one, three
generations to have a completed, a highest and a newer one; the page contents include a
repeated id inside a page, the same id in two pages and the same id with different
metadata, which are the ways pages can disagree; quotas are small enough to be hit.
*Reads*: handlers do not influence each other except through the cache, which one
handler over several requests exercises (the proof covers any number); two generations
and two epochs let a fence be advanced, reset and, were it possible, come back.
*Transactions*: the hazards are between two transactions and inside a batch.
*Legacy*: three events suffice for every pairwise order plus a redelivery or a
third reason to hide. *Aggregates*: the rows of different queries interact only
through the cursor and the batch size (batch size 1 makes one query a full batch), so
one query is enough for the floor, the counters and the end of a pass, and `aggregates_cursor` uses two.
*History*: the hazards are between two transactions on rows of one account, since rows of
different accounts never meet in a statement; one consented search, one watch and one
deletion event give every pair of batch against batch, batch against endpoint and
endpoint against endpoint (the proofs cover any number of each). The run's watch carries no
session, so that only the list of searches fills, and a batch that repeats an id is left
to the legacy path, whose inbox statement is the same. *Worker jobs*: two rows
that qualify for the same key, a row that lands behind the cursor, an account with two
sessions at a floor of two, two bumpers on one subject; `TrendWindowDays` is 1 and there are
2 days, so that a count leaves the window while its guard stands. *Serving*: three releases
let a ledger be ahead of one migrator and behind another; the clock covers a signal, the whole drain, the
shutdown timeout and the request timeout, with two checks to fail in between; two changes
beside a registry in use register and activate a second version, or the first again, under
requests and passes; corpora end below, at and above every recall block
and the ceiling; the stream rows merge a text of two streams and leave each
reserved class outside the top; three videos of one channel exceed its cap.

`CHECK_DEADLOCK FALSE` is set where the bounded environment may run out: the last
generation completed, every search submitted, the process exited. The program itself then waits.

### Fairness

* `BoundaryFairness` (transactions): strong fairness of `Lock`, since Postgres queues lock requests
  and grants them in order; weak fairness of the legacy check and of ending a
  transaction, since the request context bounds every statement and each caller defers a
  rollback. Nothing is assumed of the events themselves.
* `FairAggregatesSpec`: weak fairness of a step of each pass, starts included: the tickers
  start both again and again, and a pass that is not cut short goes on. At most `MaxAborts`
  passes are cut short by a timeout or a crash, so that the end of a pass
  (`ReevaluationEnds`) does not come from the job timeout. No fairness is assumed of searches,
  deletions, expiry or moderation, and bans and rollups may go on for ever.
* `WorkerSpec`: weak fairness of the engagement pass and of the co-visitation rebuild, whose
  loops run again after every interval; failures are bounded, and nothing is assumed of
  ingest or deletions.
* `ServingFairness`: weak fairness of the loader's and the shadow pass's steps (their loops),
  and, of the lifecycle, of the clock, of the steps of the shutdown, of the balancer's next
  probe, of a watcher giving up, of a request's deadline and of a handler left behind getting
  the mutex. All of these are timers or the scheduler; that the signal comes, that the database
  answers or that a handler finishes by itself is not assumed.

## 4. Proofs

All of these hold for every value of the constants that satisfies the named assumptions.

* `CatalogReceiverProofs`: type correctness; pending evidence is of the current epoch and
  highest generation; the live catalog is the published manifest; the epochs form one
  chain; authority moves forward only; the documents move only with the fence; expired
  evidence is never revived; pending evidence only accumulates
  (`EvidenceIsWrittenOnce`) and never waits once complete (`CompleteEvidenceIsSettled`);
  foreign rows are left alone (`ForeignRowsAreLeftAlone`); the ledger of pending evidence is exact
  (`LedgerIsExact`: its bytes are the sum over the pages held, quotas are kept, and the pages
  held neither share a video nor contradict the manifest); and
  `ReceiverImplementsAuthority`, the refinement. The invariant is the conjunction of the
  type invariant, the pending and epoch invariants and `ProjectionMatchesManifest`; verification is what makes an activated projection
  equal its manifest, and the epoch chain is what makes a fence fresh. `InOrderSoFar` is
  the invariant of the ledger: one more page adds its own count and length to sums that the
  other pages leave as they were (`SumOfOneMore`), and what is stored agrees with the manifest
  whichever of the two came first.
* `CatalogBoundaryProofs`: `ReadsSeeOneObservation`, `TransactionsImplementAuthority`. For the
  reads, the inductive invariant `ReadInv` says
  of each handler and each cache entry that its fence was reached, and that *while that
  fence is the current one* everything it holds is what the fence published. A lemma
  shows that a fence once left never returns: what a slow handler read or cached under
  it can no longer be served. For the transactions, the receiver's lemmas are taken for the
  rows of the lock's holder (`Held`, an instance of `CatalogReceiverProofs`). Sessions work
  only with the lock (`SessionsHoldTheLock`), and what the holder has done so far is at most
  one step of the authority ahead of the committed rows (`AheadByOne`: nothing yet,
  published, opened or curated), so a commit is that step and a rollback is none. What an open
  savepoint holds is known statement by statement (`SavepointInOrder`), so that releasing it is
  one event of the receiver on the holder's rows (`ReleaseIsAnEvent`). A legacy
  batch that was let through holds the lock, so the scope stays uninitialised under it.
* `LegacyIngestProofs`: type correctness, `AppliedOnceUnlessSwept`, `AnswersAreDurable`,
  `DocumentsAreReplayed`, `OwnersOnlyMask`.
  The invariant relates the batch in progress to the committed inbox: its receipts are
  those of the events it applied, but for the one whose savepoint is open, and a sweep
  never takes that one. For the documents, `ReplayInv` adds that an open batch holds the replay of
  the events it has applied, and inside a savepoint that replay advanced by the statements
  run so far (`BatchIsExplained`), so a rolled back savepoint and a finished one both return to
  a replay. That unlisting an owner only masks is a fact about the replay itself: `Masking`
  relates the documents of the applied events to those of the same events without the
  owners', and every statement keeps the relation.
* `QueryAggregatesProofs`: type correctness and `FloorHolds`. Whoever searched once stays
  among those who ever did, so a row or a stale plan that respected the floor when it was
  computed still does when it is written, whatever was deleted, banned or aborted in
  between.

* `HistoryDeletionProofs`: type correctness, `PageShowsSurvivors`, `RowsNeedReceipts`. The
  survivors are an invariant of the committed rows only because of what holds of every
  *open* transaction: one that has deleted a personal row, and not written it again, has
  deleted the ledger rows behind it or has the statement that will (`PageFollows`, over
  the jobs of `Planned`), and until it commits nobody else can have an upsert of that row
  (`LocksHold`). Swapping the order of the deletes breaks the first, which is what the
  mutation of `DeleteEntry` shows in TLC. `RolledBackLeavesNoTrace`: a list item was flushed
  by a commit that wrote its receipt, and a receipt is kept or swept, never undone.
  `DeletionIsThorough`: a row found at the start keeps its receipt until a sweep, so nobody
  can record it again, and it is either deleted already or its statement is still to come.

* `WorkerProofs`: `SubjectsCountOnce`, `ListKeepsTheFloor`, `PublishedPairsHadTheFloor`,
  `WatchesStayExact`, `SearchesAreJudged`. What is
  scored, plus the bumps on their way to the score, never exceeds the guards that stand or have lapsed
  (`GuardsAreSpent`): `SETNX` admits one bumper per guard. The subjects seen only grow, so a
  count the sweep took is still a lower bound when it gates and writes (`SweepSawThem`).
  A ledger row once committed keeps its event, so the distinct people behind a pair, counted over the rows ever committed, only grow: a pair that
  cleared the floor when the rebuild read it has it when it is served (`CovisInv`, which
  speaks of the edges served and of those the open transaction is about to serve).
  `EngagementInv` says that the rows nobody sees yet are exactly those the open pass derived
  (`PassOwnsItsRows`), that a weight is a list of *different* rows that were once committed,
  of its key and consented (`WeightsAreRows`), and that a row with consent that is live is weighed unless its
  owner was purged (`RowsAreWeighed`); the derived rows and their weights become visible in
  one commit, which is what keeps the two sides together across failures.
  `SessionInv`: what a pass listed is still all there is to judge when it commits
  (`BatchIsComplete`; rows that land behind it are `late`), and the commit writes a verdict
  for every search of the list that has no engagement, since sorting the list loses no row
  (`InOrderLists`).
* `ServingProofs`, one section per concern.
  *Schema*: `LedgerStaysTrue`, `ServicesAlwaysFindTheirSchema`. Only the holder of
  the lock works (`HolderWorks`), its phase fixes how far ledger and schema are apart
  (`PhasesTrue`, `DirtyIsClose`), and between a repair and its force the dirty mark keeps
  everybody else out (`RepairTrue`).
  *Lifecycle*: `DrainLosesNothing`, `AnswersStayFresh`. A probe that passed the
  draining check before the signal ends, each later one is turned down, and `FailThreshold`
  of them fit in before the drain is over: the end of the drain is always far enough off for
  the checks that still have to fail, one interval each (`BalancerOnTime`, `DrainIsNoticed`,
  `InTime`, `RoundsAdd`); a finding is never dated later than what it found
  (`FindingsAreDated`), since a handler takes the time before it waits for the mutex.
  *Ranker*: `AnswersNameTheirScorer`. A request takes its ranker and its stamp from one read of
  the pointer, and no reload touches either afterwards (`RequestIsStamped`).
  *Paging*: `WalksEndWhereResultsDo`, for any corpus, any limits and any ranking of every
  recall window. The offset is the number of results shown and never passes what can be
  reached (`PagingTypeOK`), every window is ranked whole (`WindowsAreRanked`), and within one block
  all windows are the same, so what was shown is the head of the next window (`ShownIsHead`).
  *Suggestions*: `TitlesAlwaysKeepTheirVideo`. After each candidate the merge holds
  one row per text seen so far (`Bests`), which names a video if any row of that text did
  (`Keeps`); ranking orders those rows, and a reserved slot shows one of them.
  *Feeds*: `FeedsAreFit`. Composing from any list keeps a feed fit (`ComposedIsFit`: no repeat,
  nothing hidden, the channel cap), and once documents were read the candidates are eligible
  and carry their channel (`CandidatesAreRead`), so the slots filled after the filters
  respect what the filters did.
* `FoldLemmas`: the library's induction theorems take an operator as a parameter, which
  the provers cannot instantiate. These lemmas do their induction on *sets* instead: a
  property is given as the set of numbers that have it, and a number that lacks it gives a
  least counterexample. The step of a fold is given as a function on pairs, so that a fold
  over a list is a run of that function (`LeftFoldRun`) and one over a set of numbers is the sum
  every order of adding returns (`SumExists`, `SumIsUnique`). They show what `InOrder`, `Within`,
  `FoldLeft`, `FoldSet` and sums return for every input, and the theorems above rest on them.

Assumptions on constants are the `ASSUME`s of the modules: epochs differ from the null
values, generations are positive, page contents are nonempty finite sets of documents,
the core's events are of no derived type, quotas
are naturals, durations are positive, the drain outlasts a probe and the intervals to the
checks that must fail, and so on. TLC evaluates them on every run. The type invariants of the modules with proofs are
theorems and are not repeated in the runs.

### Model-checked only

Every safety invariant and every action property of the passing runs is a theorem;
`ForeignRowsAreLeftAlone` is a theorem only, since nothing in the receiver changes who owns a
row. What TLC alone shows is:

* Liveness: `TransactionsEnd`, `CountsFollowTheLog`, `ReevaluationEnds`,
  `EngagementCountsSettle`, `NeighborsSettle`, `RegistryComesToRest`, `DrainComesToEnd`. Temporal properties under
  fairness speak of `ENABLED`, which is out of the prover's reach.
* The six disagreements of section 5, which are counterexamples.

The theorems are about each component's own specification. The starred modules, which let TLC
check several components in one run, choose a component once and then take its steps.

## 5. Findings

Each is a run in which TLC finds the documented claim violated.

1. `aggregates_ban`: a ban that commits between the rollup statement's snapshot and its
   write is overwritten, although `docs/operations.md` says a ban survives every rollup
   pass and the query's comment calls it race-free.
2. `aggregates_cursor`: the rollup's cursor is the largest committed id; a row with a
   smaller id that commits later is never folded in, and its query may have no aggregate.
3. `legacy_outrun`: a suppress applied before an older, retried upsert does not hide the
   video, although `documents.sql` says it does.
4. `history_event`: `user.history_deleted` deletes the account's rows but not the Redis
   session lists, although `docs/privacy.md` says both paths drop them.
5. `sessionizer_watermark`: `rollups.sql` calls the sessionizer's mark clean "because id and
   submitted_at rise together". The time is the producer's and the id is handed out on
   arrival: an older search that arrives after a younger one lifts the mark above both, and
   the younger is judged, and may be reported abandoned, while its window is still open.
6. `suggest_slots`: when the top of a suggestion list is made of queries only, the history
   entry promoted into its reserved slot takes the last place, and the promotion of a
   document that follows evicts it again, although `ranking/suggest.go` reserves a slot for
   each.

Smaller ones, seen while modelling and without a run:

* `ClearAll` lists the sessions before it deletes; a search that commits in between is
  deleted while its session's list stays. One that commits between the two ledger deletes
  keeps one of its rows; `SurvivorsAreOnThePage` says that it is then still on the page.
* A ban that commits while the re-evaluation holds a computed `want` leaves the row banned
  and suggestible until the next pass, but readers ask for both flags.
* An upsert of a video whose owner is unlisted makes it eligible; whether one is sent is
  decided by the producer.
* The engagement job weighs a derived watch by `allow_history` (`worker.go:413`), while
  `history_rule.go:26-30` speaks of `allow_personalization`. A purge that commits between a
  derivation and its commit leaves the derived rows, which name the user; so it is with the
  verdicts of the sessionizer.
* Cursors over ids skip rows that commit late, with smaller ids: a watch behind the engagement
  cursor is not derived, a search behind the sessionizer's is not judged. The properties of the two jobs
  leave these rows out. The sessionizer also compares consecutive searches only within one
  batch.
* The readiness answer is taken with the context of whoever asked first: a caller that
  gives up, or a handler left behind waiting for the mutex, caches "down" for a database
  that is up, for as long as the snapshot lives. `AnswersAreFresh` allows exactly that.
* `total_is_lower_bound` is set whenever a window is cut, not only at the ceiling
  (`search/service.go:120`).
* `migrations/0018` says that a failed step is retried by running it again, but a failed
  migration leaves a dirty ledger, which refuses until it is forced. A migrator of an old
  release that races a newer one reads the ledger before the lock, and fails.
* The key of the suggestion cache leaves out the limit (`suggest/service.go:181`): a cached
  list may be longer or shorter than the limit of the request it answers.
* An artifact registered without a digest is served unverified (`model/leaves.go:34`); only rows
  written by hand can be.
* A shadow pass may write its metrics onto a row that was registered again meanwhile; the
  next pass repairs them (`RegistryComesToRest`).

## 6. Not modelled, and why

* Scores, decay and metrics are floating point, text search, normalisation, hashing and
  parsing are strings: what they order or identify is given to the models as an order, a
  relation or an identity, and where the code may produce any order the model takes any.
  MMR, tree evaluation and the feature vectors are therefore not checked.
* The view and like counters of `video.stats`, `config.updated`, projection pruning, the
  reconcile gauge, and a second worker process or the one-shot `RunOnce` beside a running one.
* The HTTP handlers' decoding and error mapping, HMAC authentication, configuration and
  telemetry keep no state a property could be about. The offline training is Python that
  writes an artifact.
* A database restored from a backup under a live Redis is an operator procedure.

## 7. Plan

1. Proofs of what the invariants leave between the lines: that the ranges of a job's cursor
   only advance over what was settled, and the halves of the liveness properties that are
   safety (that a recount, where nothing else moves, leaves the table at its evidence).
2. `CatalogDelivery`, composed with `CatalogReceiver`: the producer in vidra-core retrying an
   observation over a network that loses, repeats and reorders; liveness of a publication
   under fair delivery.
3. A search walk over a corpus that changes between pages, and the diversity selection
   against a declarative definition.
