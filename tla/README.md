# TLA+ models of vectorial-DUA

`vectorial-DUA` is a tutoring router: a student's doubt is embedded, the nearest
pedagogical node is returned, and when nothing is near enough a *live station* is
generated for that doubt and polled for. Interactive nodes carry buttons and trees of
subtopics, a knowledge graph orders the concepts, and a web page shows it all. This
directory holds TLA+ modules that model the parts of it where the order of events, or an
algorithm, is easy to get wrong, TLC configurations that check them on small instances, and
theorems checked by TLAPS.

Lines are those of the repository's files, paths relative to its root.

## 1. Inventory

| component | state | operations | talks to | modules |
|---|---|---|---|---|
| **Station ledger** `pkg/vector/station_ledger.go` | records by tracking ULID (owner, status, `Retrying`, age) | `RegisterInProgress`, `MarkReady`, `MarkFailed`, `TryBeginRetry`, `Get`; all purge first | called by router, promoter | `StationLedger` |
| **Router** `pkg/vector/router.go` | a goroutine and a channel per miss | `QueryNearestWithOptions`, `LookupStation` | index, ledger, generator, event bus | `LiveStation` |
| **Generator** `pkg/livestation` | none | `GenerateLive`: retrieve, synthesise (or fall back), register the live node | RAG, LLM client, index | `LiveStation`, `Requests` |
| **Vector index** `pkg/vector/index.go` | nodes, ULID ring; live nodes expire | `Upsert`, `Nearest`, `Register*`, `Get`, `Nodes` | router, generator, promoter, registry loading | `VectorIndex`, `Catalog` |
| **Threshold** `pkg/vector/threshold_config.go` | a file and the value in force | calibrate, read at start | router | `Catalog` |
| **Promotion** `pkg/dua/live_station_promoter.go` | seed files | `Promote` | ledger, index, registry | `Catalog` |
| **Interactive registry** `pkg/dua/registry.go`, `mutate.go` | nodes and their buttons | `Put` with its validation, `AppendButton`, `LoadDir`, `Mutate` | promoter, handlers, RAG | `Catalog`, `TeachingNode` |
| **Profile store**, **visit store** `pkg/dua/profile_file.go`, `pkg/knowledge/visits_file.go` | map in memory, dirty flag, timer flag, closed, one file | `Apply`/`RecordVisit`, `Flush`, `Close`, load | handlers, shutdown | `SnapshotStore`, `Tutor` |
| **Subtopic trees, button grids** `pkg/dua` | opened subtopics per student and node | validation, conversion for the page, `Record`, `ProgressForTree` | profile store | `TeachingNode`, `Tutor` |
| **Knowledge graph** `pkg/knowledge` | immutable graph | loading, traversals, `Path`, cycle check | advisor, binder | `Curriculum` |
| **Advisor, binder** `pkg/knowledge` | none | `Advise`, `Route`, bindings of nodes to concepts | graph, visits, handlers | `Tutor` |
| **Neo4j reader** `pkg/knowledge/neo4jgraph` | breaker, TTL cache | `guarded` reads, `ReadThrough` fallback | advisor | `GuardedGraph` |
| **graph-sync** `cmd/graph-sync` | the Neo4j database | schema, merge per kind, prune, one transaction each | Neo4j | `GraphSync` |
| **RAG** `pkg/rag` | chunk store | ingest at start, retrieve | generator, mutate | `Requests` |
| **HTTP clients** (embedder, LLM, speech) | none | posts with bounded retries | external services | `Requests` |
| **Sessions, gateway, handlers** `pkg/session`, `pkg/webgateway`, `internal/routerserver` | signed tokens | `Issue`, `Verify`, identity rules | all | `Requests` |
| **Process** `cmd/router` | everything above | start, graceful stop, close the stores | | `Requests`, `Catalog`, `Tutor`, `SnapshotStore` |
| **Web interface** `cmd/master-web/web/js` | stage, rail, current node, poll timer, request generation, session | search, poll, load a node, open parts, ask for a button | gateway | `Page`, `Requests`, `TeachingNode`, `Tutor` |
| event bus, prompts, harness, command-line client, generated protobuf | | | | none |

What makes it hard:

* **Interleaving.** A query's goroutine and any number of polls may all generate the same
  station; `Mutate` retrieves with no lock held; an orientation reads visits one by one; the
  page has several functions at their awaits. Between the critical sections of one call
  anything may happen.
* **Time.** Ledger records, live nodes, sessions and cache entries expire, and a generation
  may outlive all of them; deadlines race with results.
* **Overlapping writers.** A flush holds no lock while it snapshots and writes; two runs of
  graph-sync share one database.
* **Failure.** Generation, posts and disk writes fail, processes restart, and multi-step
  operations (promotion, graph-sync, directory loading) stop half way.
* **Algorithms** whose result nobody compares with a definition: cycle search, traversal with
  depth and limit, study paths, counting a tree.

What makes each component correct: one generation per station at a time, one node per station
ever, no flag that outlives its generation, answers only to the owner (ledger and router); a
bounded wait (router); curated before live within the margin, ring consistent with the nodes
(index); promotion that is durable and answered `created` once, no button lost, registry and
index in agreement (registry, promotion); no answered update forgotten, the file not behind
memory (stores); bounded load on a failing database and fresh answers in the end (Neo4j reader);
readers see old or new, and a good run brings over its file (graph-sync); traversal equals reachability,
advice that leads somewhere (graph, advisor); every act covered by a session (sessions, gateway,
handlers); no older search back on the stage, a settled page of one search (web interface). The
hazards, each at its line, are in `PROJECT.json`.

## 2. Plan

The modules, in the order in which they were written:

1. `StationLedger`, `LiveStation`, `StationPromise`: the ledger, the router and the generator.
2. `SnapshotStore`: the debounced stores.
3. `GuardedGraph`: breaker and cache with concurrent reads and the fallback.
4. `VectorIndex` and `Catalog`, which composes it with the ledger: registry, seed directory,
   promotion, live buttons, threshold and restart.
5. `Curriculum`, `TeachingNode` and `Tutor`, which extends both: graph, nodes with their grids and
   trees, and the handlers that record and tell.
6. `GraphSync`, over the loader of `Curriculum`.
7. `Page`: the web page's functions.
8. `Requests`: sessions, gateway, identity in the router, HTTP clients, restarts.

Still worth doing: the calibration of the threshold from the evaluation's cases, which is any choice
in `Catalog`; the voice recorder of the page.

## 3. The modules

Composition: `LiveStation` and `Catalog` both extend `StationLedger`; `Catalog` also extends
`VectorIndex`; `Tutor` and `GraphSync` extend `Curriculum`, and `Tutor` extends `TeachingNode`.
Between modules that are not composed, one assumes of the other what is checked there:
`LiveStation` and `Page` treat what a query matches as any choice (it is `Catalog`'s), `LiveStation`'s `GeneratorReturns` is
`Requests`' `EverythingEnds`, `Tutor` takes the students as identified by `Requests` and its
stores as kept by `SnapshotStore`.

### StationLedger and LiveStation

`StationLedger` holds `ledger` (the map `byID`) and the clock `now`, and one operator
per method; each method is one critical section, so each call is one atomic step.
`Purged` is what `purgeLocked` leaves, and every operator starts from it. Requests,
results and failure causes are not stored: a record has a result exactly when its
status is `ready`.

`LiveStation` extends it with the callers.

| TLA+ | code |
|---|---|
| `query[s]` | the `QueryNearest` call that may mint ULID `s`; `pc` is where it stands between two critical sections |
| `job[w]` | one call of `GenerateLive` and what its caller does next; a query's goroutine is the worker `s`, a poll is the worker `p` |
| `poll[p]` | the student of a `GetLiveStation` call and its last answer |
| `liveNodes` | the live nodes of the index; `serial` tells two nodes of one station apart |
| `made` | history: how many nodes were ever registered for a station |
| `QueryMisses`, `QueryRegisters`, `QueryAcquires` | the three steps of the miss path, `router.go:153-202` |
| `QueryReceives`, `QueryStopsWaiting` | the `select` on channel, timer and context; Go picks any ready case, so a result on the channel does not disable the timeout |
| `QueryRepliesPending` | `pendingOutcome`, a separate read of the ledger |
| `QueryMatchesLive`, `QueryHydrates` | a match of a live node, then `hydrateLiveMatch` |
| `GenerateSucceeds`, `GenerateFails` | `Generate`: registering the node is its last step that can fail |
| `StoreReady`, `StoreFailed` | `MarkReady`/`MarkFailed` by the goroutine or the poll |
| `PollReads`, `PollAcquires`, `PollRereads` | the three accesses of `LookupStation` to the ledger |

Abstracted: vectors (which node a query matches is any), texts, curated nodes (all in `Catalog`), and
the failure of the ULID source. A poll's student is never empty: `ResolveStudentID`
refuses that (`session/context.go:74`). The code reads the clock just before it locks;
the model reads it inside, which differs by the time spent waiting for a mutex.

`StationPromise` is the abstract specification: a station is being generated by at
most one worker, and never again once its node was published. It knows no ledger, no
records and no time. `LiveStationProps` holds the properties, the refinement mapping
(`Generating`, `Published`) and the inductive invariant.

### SnapshotStore

One store with its file; `profile_file.go` and `visits_file.go` are the same code
line by line, and the map names lines of either. The content is the *set of updates* made:
the inner store's mutex orders them, so a snapshot is the set of the updates before it.

| TLA+ | code |
|---|---|
| `update[u]` | one call of `Apply`: changes the inner store, then `scheduleFlush`, under two different mutexes |
| `dirty`, `flushScheduled`, `close` | the fields of the same name; `closed` is `close # "open"` |
| `flush[f]` | one call of `flush`: `starting`, `claimed` (flag cleared), `snapped`, `failed`, `rescheduling` |
| `TimerFires`, `FlushIsCalled`, `CloseBegins` | the three who call `flush`; Close forces it |
| `Renames`, `WriteFails` | the end of `writeSnapshot`, by the atomic rename or by an error anywhere before it |
| `RollsBack`, `Reschedules` | the two critical sections after an error |
| `Restart` | the process ends at any point and a new one loads the file |
| `saved`, `promised`, `overtaken` | history: what was ever in the file; what Close promised; whether an older snapshot was being written when Close was called |

Left out: `Relocate` (tests only), files that `load` rejects, and students (all
updates go to one map).

### GuardedGraph

The Neo4j client and the fallback to the file around it.

| TLA+ | code |
|---|---|
| `failures`, `openFor`, `loggedFor` | the fields of `breaker`; an instant is the time left until it, 0 when it has passed or is Go's zero time, so that time needs no bound |
| `cache[k]` | the entry of a key and how much longer it is served (`TTL + 1` ticks: `get` still serves at the instant `until`) |
| `call[c]` | one call of `guarded`: `missed`, `allowed`, `fetched` or `erred`, `decoded`, `failed`, `answered`; every step is one critical section of cache or breaker, or the query |
| `CacheAnswers`, `CacheMisses`, `IsCancelled` | the start of `guarded`; `Health` has no cache key |
| `AsksBreaker`, `Reads`, `ReadFails` | `allow`, then `run`; any driver error, a cancelled request among them |
| `RecordsFailure`, `RecordsSuccess`, `Stores` | `failure`, `success` and decoding, `cache.set` |
| `FallsBack` | `ReadThrough` asks the file; an absent concept or path is an answer, not a failure |
| `Edits` | graph-sync changes the database |
| `streak`, `quiet`, `logs`, `blamed` | history, noted by an observer of the events and never read by the code's actions |

`failures` is counted up to `Limit`, the only value it is compared with. What a key
holds is a model value; keys of relations treat the empty list as contents, as the
code does.

### VectorIndex and Catalog

`VectorIndex` holds `nodes` and `ring`, one operator per method; every method is one critical
section and purges first. A point stands for an embedding and a table for `CosineSimilarity`.
`Catalog` adds what keeps nodes elsewhere and the operations that move a station between them.

| TLA+ | code |
|---|---|
| `station[s]` | how far a station is: asked for, live in the index, ready in the ledger |
| `registry[n]`, `files[n]` | the embedding and the live buttons of a registered node; the seed directory |
| `Loadable`, `Indexable`, `Restart` | `LoadDir` reads files in the order of their names up to the first bad one; the index then takes what its ring admits; all else is lost |
| `QueryMatches`, `QueryMisses` | `Nearest` and the threshold of request, environment, file or default |
| `PromoteFindsSeed` ... `PromoteRegisters` | `Promote` under its mutex: an existing seed or a new one, then write, index, register |
| `PromoteFailsToWrite`, `PromoteFailsToInstall` | a step is refused and `Promote` answers an error: what was done stays |
| `MutateFinds`, `MutateAppends` | the two looks at the registry, retrieval in between |
| `promoted`, `created`, `again` | history |

A seed's text and its embedding are two fields: promotion keeps the live node's embedding, and
loading recomputes it from the descriptor (`registry.go:114`). A registered node has the embedding it
was put with, and `RegistryIsSearchable` says that the index holds that very node under that very
embedding. After a start that met a bad file (`complete` is false) it does not: `main.go` registers the
files before it, indexes none, and goes on with a line in the log; `PromotionIsDurable` says what can
be said then, that promoting again brings a station back. And of the hand-written seeds with one ULID,
of which the repository has a pair, all but the first are registered and found by no query.

### Curriculum, TeachingNode and Tutor

`Curriculum` translates the graph's algorithms (colours and the reconstructed cycle, traversal by
layers, path search with parents) as recursive functions over a set of edges, and states by
relations what they should compute. Ids are numbers because the code orders them. Since a file is
finite, so are its edges and concepts (`TutorConstants`, `TutorCases`). The vectors of buttons are any
sequences of numbers: no check of the code asks for their length.

`TeachingNode` has no state: it says of one interactive node, as its seed file has it, when the
registry takes it, what the page is sent and offers of it, what a touch teaches, and how far a student
is through its tree. Labels, addresses and texts are there or not; ids and deltas are values. The
places of a tree are numbered from the top down, as any tree of subtopics within subtopics can be
(`IsTree`); `TutorCases` says that a file holds no other.

| TLA+ | code |
|---|---|
| `IsValidSchema`, `IsValidTree`, `ButtonsAreValid`, `IsValid` | the `Validate` methods of `botonera.go`, `hierarchy.go`, `interactive_node.go` |
| `NeedsAlternative`, `IsGap`, `HasGaps`, `MayBePut` | `accessibility.go`: what media lack, and the switch that makes it an error |
| `HasVariant`, `BotoneraDelta` | `preference_lookup.go` |
| `ToProto`, `Offers` | `convert.go` and `rail.js`: buttons, tabs and matrix, and what each sends when touched |
| `Progress`, `Reflected` | `ProgressForTree` in the router; `markSubtopicOpened` in the page |

`Tutor` starts from a file and holds what the router knows of its students.

| TLA+ | code |
|---|---|
| `LoadsNodes`, `LoadsGraph` | `main.go`: registry and index, then `LoadFile` with its refusals, bindings and strict mode; a refusal stops the process |
| `RecordBotonera`, `RecordSubtopic`, `QueryMatches` | the handlers that record a variant, a subtopic, a visit; the delta applied to the profile, clamped, and refused if of another length |
| `OrientationBegins`, `AdviseFocuses`, `AdviseChecks`, `OrientationIsTold` | `AdviseForConcepts`: each read of the visit store is a step |
| `RouteIsAsked` | `Advisor.Route` over `Path` |

### GraphSync

| TLA+ | code |
|---|---|
| `RunLoads`, `RunTakesTime` | the file is loaded and refused or planned; `synced_at` is what the clock of the run's machine says, any of `Times` |
| `MergesConcepts`, `MergesEdges`, `EdgesAreMerged`, `Prunes` | the transactions; an edge whose ends are missing is not merged |
| `RunFails`, and `MergesEdges` again | a transaction fails, or the driver repeats one that was committed |
| `EditsByHand`, `DeletesByHand`, `FileIsEdited` | Neo4j Browser and the editor |
| `alone`, `had`, `hadConcepts` | history: nobody else wrote since the run read its file; what it found then |

Two runs that overlap may lose an edge both files have, and an additive sync, or a reader between
merge and prune, may see the edges of two files at once, which may close a cycle of `requires` that
neither file has. `ReadersSeeOldOrNew` and `RunReconciles` are about runs that are alone, and claim
nothing of the database while two overlap; what failed and overlapping runs had left before, with
whatever times, is any state the model reaches.

Every run takes the time of its own machine (`main.go:81`), so times need not grow from one run to the
next. The prune compares them (`cypher.go:63`): it leaves an edge that an earlier run wrote with a time
not before its own. `RunReconciles` says that the run has brought over its whole file all the same, and
that a prune leaves nothing else but such edges, between concepts of the file (`IsAhead`).

### Page

A `call` is one asynchronous function of the page at its await; between awaits it runs alone.
`gen` is the token of the `RequestGeneration` class (`session.js`); a function whose token is old only ends (`IsStale`).
What is shown is named by the search it answers. `Submit`, `Query...`, `Node...`, `Progress...`,
`Orientation...`, `Tick...`, `Button...` are the pieces of `app.js`, `interactions.js`, `rail.js` and
`orientation.js` between two awaits. A node that cannot be had ends in one of three ways:
`MatchedNodeFails` leaves the page as it was (`app.js:241`), `UpgradeFails`, the usual end of a live
station, keeps its content and the rail without buttons (`app.js:151`), `BareStationFails` shows the
station's message (`app.js:156`).

Three cases are part of the model because the code has them, and are noted by history variables so
that the properties can name them. `strayed`: a button asked for from the page of the earlier search,
after a new one began, carries the new token (`app.js:265`). `outcome`, which starts anew with each
search: "no answer", the search failed or its matched node could not be had, and the page keeps what
the search before had got to; "node" with "no node", one poll of the station had its node and another,
which overlapped it, had not (`NodeIsInDoubt`).

### Requests

| TLA+ | code |
|---|---|
| `auth[p]`, `PageLoads`, `Sends`, `SessionArrives` | `session.js`: the page asks for a session once and sends its token along |
| `SessionIsIssued`, `Verified` | `session.Issue`, `Verify`, under the gateway's secret |
| `GatewayIdentity`, `GatewayRefusal`, `GatewayForwards` | the gateway's rules for each handler and the metadata it sets |
| `RouterIdentity`, `RouterRefusal`, `RouterActs` | `IdentityFromContext`, `ResolveStudentID` and the handler |
| `QueryIsEmbedded`, `EmbeddingFails`, `TranscriptionEnds`, `Retrieves`, `Synthesizes` | posts with their retries; the extractive fallback when the model gives up |
| `GatewayRestarts`, `RouterStops`, `RouterStarts` | either process comes back with other settings and loses what was under way |

One request at a time and its background generation is the bound of the run, not of the module.

## 4. What the runs check

All bounds are constants of the configurations. `Page` and `Requests` are run as they are; the
others through a module `MC...` that gives functions and symmetry.

| run | instance | shows |
|---|---|---|
| `TwoPolls` | 1 station, 2 polls, 2 students, both TTLs 1, clock to 4 | `SingleFlight`, `RetryFlagTracksGeneration`, `OneNodePerStation`, `OwnerOnlyWhilePending`, `ReadyIsFinal`; with `FairSpec`, `RetryFlagIsReleased`, `PollIsAnswered` |
| `TwoQueries` | 2 stations that may match each other's nodes, 1 poll, TTLs 0, clock to 1 | `ImplementsPromise`; `QueryIsAnswered` though `GenerateLive` may never return (`SlowSpec`) |
| `StrangerReadsLateStation` | as `TwoPolls`, 1 poll | violates `OwnerOnly` |
| `OverlappingFlushes` | 2 updates, 2 timers or `Flush` calls and Close, 2 failures, 1 restart | `IInv`, `NothingForgotten`, `DirtyIsScheduled`, `CloseSaves`; with `FairSpec`, `EveryUpdateIsSaved` |
| `SlowWriterWins` | no failure, no restart | violates `QuietStoreIsSaved` |
| `LateFailures` | 2 readers, 1 key and `Health`, limit 3, cooldown 2, 2 contents besides absent and malformed, 2 edits | `IInv`, `WindowIsEarned`, `OneFailurePerCaller`, `OpenWindowEnds`, `AnswersBecomeFresh` |
| `PromoteAndRestart` | 2 seeds of one ULID, 1 demo node, 1 station, 2 calls of `Mutate`, TTLs 0, clock to 1, 1 restart; 165,038 states | `IInv`, `PromotionIsDurable`, `CreatedOnce`, `ButtonsAreKept`, `RegistryIsSearchable`, `RepeatedDoubtIsMatched` |
| `ManyFiles` | 236 files: every subset of 7 edges over 4 concepts (with nodes that have no subtopics), a chain of 6, 4 files that must be refused, every tree of 3 subtopics up to names and a chain of 4, 71 nodes with grids, buttons and media of every kind; 2 nodes, 1 student, 1 asker; 35,489 states | `TypeOK`, `RoutesAreStudyPaths`, `AdviceLeadsSomewhere`, `AdviceIsBracketed`, `ProgressIsExact`, `OffersAreTaken`, `TraversalsReach` |
| `OverlappingRuns` | 2 runs, 3 files (one with a cycle), 1 edit by hand, 2 times, symmetric runs; 955,050 states | `ReadersSeeOldOrNew`, `RunReconciles` |
| `Searches` | 3 searches, 2 functions under way; 54,927 states | `SettledPageAgrees`, `NeverBackToAnOlderSearch`; with `FairSpec`, `StationIsShown` |
| `WaitingIsPolled` | 1 search, 2 functions under way | violates `WaitingIsPolled` |
| `BetweenProcesses` | 2 students, 1 page, 2 secrets or none, session TTL 1, clock to 2, 1 retry, 2 restarts, 1 request with its generation; 148,735 states | `ActsAreCovered`; with `FairSpec`, `MaterialBecomesStation`, `EverythingEnds` |

Why the bounds are enough:

* *Stations.* Three workers (the query's goroutine and two polls) can compete for a station, so
  one can hold the flag while two race; with TTL 1 and a clock to 4 a record can expire, come back
  and expire again within one behaviour. The number of retries of a station is not bounded.
* *Stores.* Three writers (two timers and Close) allow every order of two stale snapshots and a new
  one; two failures allow a retry that fails.
* *Breaker.* Two readers at a limit of three (the code's) leave one straggler behind in a window,
  which may fail or succeed late; time is unbounded there. Two edits let a slow read store a value
  that was replaced twice.
* *Catalog.* A promotion may stop before each of its steps and be followed by a restart, or by a
  second promotion of the same station; the two seeds of one ULID, which the repository's data has,
  make the ring refuse one of them; the promoted file sorts between the two, so a bad file may come
  before it or after it. Two points at distance 3 with a margin of 2 put a node on either side of it.
* *Tutor.* The pool of edges has a chain of four with short cuts beside it and closes a cycle within
  one kind and across kinds; the chain of six concepts is one step longer than a route may be. Trees
  of three places have every shape and every repetition of names; the chain of four exceeds the depth
  allowed. Grids of each kind have too few options, repeated ids, cells off the axes or left out, and a
  live button under the id of an option; a button's vector is as long as a profile or longer; media come with and without what their format requires.
* *graph-sync.* Two runs, since a third is only another who writes; a file that shares an edge with
  another strength, one that drops a concept, and one that is refused. Two times let a run be before, at
  and after another.
* *Page.* Three searches, so that an answer may be two searches late; two functions at once are what
  the properties need to be told apart, since a third would only repeat a tick.
* *Requests.* With two restarts each process may come back with other settings around one request.

Deadlock is not checked where the clock or the supply of calls runs out: there the
instance stops, not the system. The theorems of section 6 do not depend on the bounds.

### Where the code and its documents disagree

Checked, with the steps in the run's counterexample:

1. **`OwnerOnly`.** A generation outlives its record; `MarkReady` re-creates the record
   without its student (`station_ledger.go:116`), and the check in `LookupStation` passes
   for every student when the record has none. `README.md:97`: a wrong `student_id` is
   answered `NotFound`. A pending or failed station is told to nobody but its owner
   (`OwnerOnlyWhilePending`, proved); of ready ones nothing is claimed.
2. **`QuietStoreIsSaved`.** Of two overlapping flushes the older may rename last; nothing
   is dirty or scheduled then, and the file stays behind until the next update
   (`README.md:344`). It takes a write slower than the debounce of one second.
3. **`WaitingIsPolled`.** One failed poll stops the interval and renders the waiting view again
   (`app.js:190`), whose text says that the page goes on asking (`ui.js:156`).

Stated in the modules and false of the code, but not given a run of their own; each is a
disagreement of wording and can be checked by naming the definition in a configuration:

4. **`PendingIsNotReady`** (`LiveStationProps`). The deadline passes, the generation ends, and only
   then `pendingOutcome` reads the ledger: the pending answer says `ready`
   (`proto/router_api.proto:50` lists `in_progress` and `failed`).
5. **`CloseIsFinal`** (`SnapshotStore`). A flush under way is not waited for by `Close`
   (`profile_file.go:91`: "prevents further writes").
6. **`OneLogPerWindow`** (`GuardedGraph`). `breaker.failure` takes a moved `openUntil` for a new
   window, and the failure of every read that was let through earlier moves it (`breaker.go:67`: "not
   per request while open").
7. **`RepeatedDoubtLandsOnItsStation`** (`Catalog`). A curated node below the threshold wins over a
   live one above it if the margin is small, and the repeated doubt asks for a new station;
   `RepeatedDoubtIsMatched` is what does hold.
8. **`PruneLeavesOnlyTheFile`** (`GraphSync`). An edge that an earlier run wrote with a time that is
   not before the pruning run's own stays, and with it what another file had (`docs/neo4j-gcp.md:181`:
   `-prune` deletes what is not in the file). It takes machines whose clocks differ, or two runs
   at one instant; `RunReconciles` is what does hold.
9. **`ContentNeverTeaches`** (`Tutor`). The vector of a content button that is as long as a profile is
   applied to the profile when the page sends it (`preference_lookup.go:11`: such vectors "MUST NEVER be
   applied to V_e"; ADR-002). `rail.js:28` sends it as a preference, nothing checks a button's vector when a
   file is loaded, and with no embedder `Mutate` keeps whatever length its caller sent
   (`mutate.go:83`). Content embeddings have 64 dimensions by default, the profile 5.
   `OffersAreTaken` is what does hold.

Seen while modelling, and not stated: the path query of the Neo4j reader passes `$depth` as the bound
of a variable-length pattern, which Cypher does not accept, so that the query fails and routes come
from the file (its text also ignores the direction of the edges); an embedding server that is down is
reported as `InvalidArgument`; the embedder is asked again after every refusal, also those another
attempt cannot change; an empty knowledge base makes every generation fail, an ingestion error turns
generation off.

## 5. Fairness

* `HandlersRun` (`LiveStation`): the steps of a handler or goroutine that has started are weakly
  fair: the Go scheduler runs them and each is a short critical section. A new request, the
  clock and the generation itself are not fair.
* `GeneratorReturns` (only in `FairSpec` of `LiveStation`): `GenerateLive` ends. Its HTTP
  clients have timeouts and bounded retries (`synthesizer_http.go:82`, `:139`); `Requests` shows it
  from them (`EverythingEnds`).
* `FairSpec` of `SnapshotStore`: a timer that is set fires, and a flush goes on. Writes fail
  at most `MaxFailures` times, that is, the disk works in the end. Nobody calls `Flush`,
  `Close` or `Apply` by fairness.
* `FairSpec` of `GuardedGraph`: time passes and an answer that is there is returned. Nothing is
  asked of the database: a query may hang.
* `FairSpec` of `Page`: the interval fires, a request ends, by an answer or a failure, and the
  browser runs what waits for it; a generation ends. Neither the student nor a particular answer is fair.
* `FairSpec` of `Requests`: a goroutine that can go on does, and a post ends by an answer or by the
  timeout of its client. Restarts, time and new requests are not fair: a router that is down need not
  come back.

`Catalog`, `Tutor` and `GraphSync` have safety properties only: what must happen there is one
handler's work, or a person's.

## 6. What is proved

Checked by TLAPS for every value of the constants, under the `ASSUME`s of the modules (TTLs
and bounds are natural numbers, each station has an owner, names do not clash, files are finite).

**`LiveStationProofs`** begins with lemmas about the ledger's operators: what each leaves of a
record. `SingleFlight` is not inductive: that the flag excludes a second
generation must be related to who is generating. `IInv` adds

* `UnregisteredIsFresh`: nobody knows a ULID before its query registered it, so
  `RegisterInProgress` never overwrites a flag that is set;
* `FlagWhileInFlight`, `FlagOnlyInFlight`: flag and generation imply each other, *if* the
  record still exists. An expired record is the hard case: nobody can start then, since
  `TryBeginRetry` needs a record and only the running generation can bring it back;
* `NodeProgress`: a station without a node has no ready record, and one with a node is not
  being generated; its record turns ready before the flag is released;
* `SerialsAreMade`, `SerialsAreUnique`, `GoroutineOwnsStation`: bookkeeping that links nodes to `made`.

From `IInv` follow `SingleFlight`, `OneNodePerStation`, `RetryFlagTracksGeneration`,
`ReadyIsFinal` and the refinement `PromiseKept`: `PollAcquires` and `QueryAcquires` map to
`Start`, `GenerateSucceeds` to `Publish`, `GenerateFails` to `GiveUp`, all else stutters.
`OwnerOnlyWhilePending` has an invariant of its own, `OwnerInv`.

**`SnapshotStoreProofs`.** `IInv` is the conjunction of the three safety properties and what
they rest on (`SnapshotsAreOld`, `CloseCovers`, `CloserIsClose`); one lemma per action.

**`GuardedGraphProofs`.** `WindowIsEarned` says what the breaker is to its observer; it needs
that the count is the observer's streak (`CountIsStreak`). `OneFailurePerCaller` needs that no
caller who failed in the open window is on its way to the database (`BlamedCallersWait`), which
holds because somebody is blamed only while it is open (`BlameNeedsWindow`), and an open breaker
lets nobody through. `LogMarkIsWindow` shows why the log guard never holds a line back unless the
window's end stood still.

**`CatalogProofs`.** The four properties are proved together, since a promotion's steps rest on
all of them: `PromoIsInOrder` says what a promotion under way may count on before each step (a
seed is written only over nothing, `created` is answered only if nothing was registered);
`RegisteredFromSeed` that whatever is registered has a file, so that a restart brings it back;
`StationsAreNew` that a generated node never meets one of its name; `RingIsNodes` that the ring is
exactly the ULIDs of the nodes, without which a purge could make a registered node unfindable. That
registry and index have one embedding of a node rests on promotion and start writing the same to
both, with `HalfInstalled` for the moment between the two.
`RepeatedDoubtIsMatched` follows from the types alone, but not at a glance: that `Nearest` answers at
all needs a best node of each class, which exists since no similarity exceeds that of an embedding and
itself (`MaxSim`; `GreatestExists` takes the least distance from it), and that the curated node which
no live one beats passes the threshold is what the margin is for.

**`GraphSyncProofs`.** What a run that is alone has done so far (`IsOnItsWay`) needs that its edges
carry its own time, whatever the others carry (`IsMerged`), so that the prune, which compares with that
time, spares them; that no edge lacks an end (`EndsAreThere`), so that a merge of edges after the
concepts misses none; and that a plan is a file that loaded (`PlansLoad`), so that one edge of a key
cannot overwrite another's strength. Nothing is assumed of the times. `RunReconciles` and
`ReadersSeeOldOrNew` follow.

**`PageProofs`.** `NeverBackToAnOlderSearch` is an action property, and a stage alone cannot keep
it: a part opened from the rail shows the rail's search. `PInv` adds that the rail is of no earlier
search than the stage (`RailIsNotBehind`), also while a static answer has shown its rail and not yet
its stage, and that nothing on the page or under way is ahead of the token (`NothingIsAhead`). Every
function that resumes is of the last search (`Step`); a button of the page before it is the exception
that `strayed` names (`ButtonShown`).

`SettledPageAgrees` holds only when nothing is under way, so its invariant `SInv` must say what each
function under way has left to write. As long as the answer of the last search is being read
(`Unread`) the page may be of any search. After that `Settles` says, part by part, that the page is
of the last search or which function will see to it: a tree's progress may be missing while the node
or its progress is awaited, the content of an older search may stand on the stage while a static
answer waits for its orientation (`StaticIsDue`). And it needs that only one function carries an answer of the
last search unless it is a station's, whose polls overlap (`OneAnswer`). One lemma per piece of code
between two awaits shows it kept (`StaticInOrder`, ..., `SameInOrder`). It says nothing of a search that
was not answered or whose matched node could not be had, of one whose node is in doubt, and of one in
which a strayed button arrived; it speaks again of the next search. Polls that found no node are an
ordinary end and are within it.

**`TutorProofs`.** `AdviceIsBracketed` is about an answer put together by many reads while visits are
recorded. `Gathered` relates an orientation under way to the visits of now and of its start: what it
found or has yet to look at was missing at the start or is met by now, and covers what is missing now;
visits only grow and the graph stays as it is once requests are served (`NothingAskedYet`). What the
prerequisites of a concept are stays any function of the graph. The statement brackets what is told
between the gaps at the end and those at the start. It does not say that they were the gaps of one
moment: two prerequisites that are met in the other order than they are read may be told as gap and no
gap although they never were. `OffersAreTaken` needs that whatever
is registered passed `Put` (`RegisteredIsValid`): only then is a schema that is sent as flat really
without options of another kind, and has every cell the format it is found by. What a touch teaches is
then a preference of an option, or the vector of a content button if that is as long as a profile. Only
this length keeps the two spaces apart, and no check in the code enforces it. Two seeds
have such a vector (`automovil-hierarchy.json`, `variables-scope.json`), on the button that opens the
ask box, whose vector the page does not send.

The other theorems are about what recursive functions compute, for every input. The library's induction
theorems cannot be used (they take an operator), but a set will do for a predicate: `UpTo` says that a
set of numbers with 0 and each successor holds all of `0..n`, and `Descent` the same from the greatest
number down. From these follow, once, that a function defined by recursion equals its definition
(`RecursionExists`, `DescentExists`; a TLA+ function is chosen, so that this is no matter of course),
and that a fold over a list is its steps one by one (`IterationExists`, `EnterFolds`, `TakeFolds`,
`LookFolds`, `DiveFolds`, `AddFolds`, `FlattenSteps`). `OrderedLists` shows that the model's sort lists
each element once and in order. On these rest:

* `RoutesArePaths`. `Searched` is what `Path` knows after `k` layers: what it visited is what at most
  `k` steps lead to, what it has in hand are walks of exactly `k` steps to what fewer do not reach, and
  what it found are such walks. A layer more keeps it (`SearchedSteps`), whatever the order of edges,
  so that the first walk found to a concept is a shortest one.
* `TraversalsAreExact`, an action property, with any depth, kinds, strength and limit. A limit may stop
  a traversal anywhere in a layer, so `IsWalked` keeps apart what holds always, that every answer is at
  its distance, once per peer, with nothing nearer left out (`IsSound`), and what holds unless it is
  full: that it has seen all within `d` steps and is at what no fewer lead to.
* `CycleCheckIsExact`. That the colours find every cycle is seen from the other end: what is black is
  *grounded* (`IsGrounded`: closed under the edges, and each nonempty part of it has an element that
  leads to none of the part). `Good` says of a search, asked with up to `k` concepts that are white, that
  it grounds the concept it is asked for and leaves the grey ones as they were, unless it meets a cycle;
  the recursion is over `k`. That what is answered is a cycle rests on the grey concepts being one chain
  of parents from the end of which the search looks on (`Follows`, `Honest`): then following the parents
  from there comes back to any grey concept, in no more steps than there are concepts (`UnwoundIsCycle`),
  and the code's way out of its loop at an empty parent (`graph.go:396`) is never taken. With it,
  `LoadsExactly` says which files are taken without mentioning the search.
* `AdviceIsGrounded`. A graph that loaded is grounded as a whole, so the prerequisites that are missing
  have one that misses nothing (`ReachSaturates`: it is within as many steps as there are concepts).
* `ProgressExact`. Along a tree, from the leaves up: no id occurs twice below a place (`BelowOnce`), so that
  the sets which the subtrees count are disjoint (`OnceInTurn`) and their sum is the size of the
  union (`ProgressCounts`). Without unique ids, which `Validate` sees to, the totals would exceed what
  can be opened. `StateOf` and `TreeIsExact` turn counts into what is shown, also on the page.

**`RequestsProofs`.** `ActsAreCovered` needs to know, of a request on its way, that its metadata are
those of a token verified under the secret in force when it was let in (`MetadataAreVerified`), and
that a router that wanted an identity got one (`ActsAreIdentified`).

**Only model-checked:** all liveness (`RetryFlagIsReleased`, `PollIsAnswered`, `QueryIsAnswered`,
`EveryUpdateIsSaved`, `OpenWindowEnds`, `AnswersBecomeFresh`, `StationIsShown`,
`MaterialBecomesStation`, `EverythingEnds`): fairness and `ENABLED` are out of the provers' reach. Every
safety property that a passing run checks is proved.

## 7. Not modelled

* *Data.* Cosine similarity, text chunks, prompts, wording, markup, titles and rationales. Where a
  decision depends on them (what a query matches, whether retrieval finds anything), the models choose.
* *Node-not-found bus, prompt and tone, command-line client and harness, generated code*: see
  `PROJECT.json`.
* *Labels of a query* (`resolve.go`): a function without state, whose result is data.
* *The page's voice input* (`voice.js`): its recorder and time limit are the browser's media
  interface, of which the repository states nothing. Read by hand: two taps while the microphone's
  permission is pending start two recorders, of which the first is not stopped by the limit, and a
  late transcript lands in a box that is hidden by then.
* *The page's status line*, which late functions may still write, and its estimate of the profile.
* *Stores*: `Relocate` (tests only) and files that `load` rejects.
* *Sessions*: the page never renews a session that is refused, except by a new load; two answers to
  one page are kept in their order of arrival.
* *Neo4j's rows*: what a query returns is any content; the file's graph is `Curriculum`'s.
