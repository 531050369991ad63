# SourceOG in TLA+

SourceOG is a React meta-framework: a compiler writes a build, a production
server serves it, renders what is not prerendered in a pool of worker threads,
caches data and pages, and regenerates pages in the background. This directory
holds TLA+ models of the parts of it whose correctness depends on the order of
steps or on several parts agreeing, the TLC configurations that check them, and
proofs about them. Every path below is relative to `packages/`.

Running it: `tlc -config WorkerPool_safety.cfg WorkerPool.tla`, and
`tlapm WorkerPool_proofs.tla`. `PROJECT.json` lists each run, the source lines
each definition stands for, the hazards of the code and the properties about
them, and for each property a mutation of the model that breaks it. The mutated
operators stand beside the originals, marked *mutated* or *Mutant*.

## Inventory

| part | state it keeps | operations | what is hard | module |
|---|---|---|---|---|
| Request queue `sourceog-renderer/src/orchestrator/{request,priority}-queue.ts` | five doubly linked lists that share nodes, counters | push, shift, remove, drain | removals in the middle, a node that does not know its list | LinkedQueue, PriorityQueue, RenderQueue |
| Worker pool `.../{worker-pool,scheduler,admission-control}.ts` | workers, queue, two timers per request | render, dispatch, answers, failures, recycling, shutdown | late answers, crashes, awaited recycling, failing spawns, shutdown | WorkerPool |
| Pool registry `.../pool-registry.ts` | pools by manifest, last use | get, sweep, shutdown by a signal | a sweep of a pool in use | PoolRegistry |
| Worker process `.../workers/*.ts` | lifecycle, render mutex, globals | boot, render, ping, shutdown | messages during a render | WorkerProcess |
| Transpiler `.../transpiler/transpiler-core.ts` | the strategy, files shared by threads | detect, import | detection in flight, a file read while it is written | Transpiler |
| Page rendering `sourceog-renderer/src/render.ts`, `client-island.tsx` | none | load, nest, render, document, snapshot | several constructions of one thing that must agree | RenderPage |
| Data cache `sourceog-runtime/src/data-cache.ts` | LRU map, tag index, tag generations, a backend | get, set, delete, revalidateTag | awaits on the backend between look and write | DataCache |
| Runtime cache `sourceog-runtime/src/cache.ts` | three caches, a memo, a manifest of links | cached function, cached fetch, invalidate | values computed before an invalidation and stored after it | RuntimeCache, CacheStore |
| Filesystem stores `.../filesystem-cache-store.ts` | files, `tags.json` | get, set, purge, rebuild | an index beside the files | FsStore |
| Request memo `.../fetch.ts`, `sourceog/src/cache.ts` | promises per request, tags | fetch, tag, clear | a promise replaced by a response | RequestMemo |
| Server actions `server.ts`, `.../revalidate.ts`, `.../actions.ts` | a stack of trackers; a queue in the browser | run, track, revalidate, report; enqueue, drain | asynchronous overlap | ServerActions, ActionQueue |
| ISR coordinator `.../isr-coordinator.ts` | locks, three files per page | acquireLock, releaseLock, atomicSwap | timeouts, failing file operations, crashes | IsrCoordinator |
| ISR in the server `sourceog-server/src/server.ts` | manifest in memory and on disk, `revalidatingPathnames` | serve a stale page, regenerate, revalidate | background work, torn file, restart | PrerenderIsr |
| Requests `server.ts` | a response or none | endpoints, middleware, handler, page, hooks, errors | errors after an answer, two chains | ServerRequest |
| Middleware engine `.../middleware-engine.ts` | position in a chain | compile, match, run | priorities, patterns | MiddlewareEngine |
| Rate limiter `sourceog-platform/src/rate-limiter.ts` | timestamps per key | check, recordSuccess | shared window, whose timestamp is taken back | RateLimiter |
| Router `sourceog-router/src/*.ts` | a ranked table | scan, match | precedence (pure) | Routing |
| Start of the server `server.ts` | a port | probe, bind, close | two starts | ServerListening |
| Flight `server.ts` | a stream being pumped | href, match, pump | slow and leaving browsers, two endpoints | FlightEndpoint |
| Delivery `adapter-*`, `request.ts` | cookies, a body | set, delete, send | three writers of one response | ResponseDelivery |
| Navigation `sourceog/src/navigation.ts`, the page's script in `sourceog-dev/src/hmr.ts` | history, context, page | visit, refresh, bootstrap | overlapping visits, fallbacks | ClientNavigation |
| Development server `hmr.ts`, `server.ts` | module graph, the server's variables | change, refresh, reload, tell | handlers that overlap, state carried over | DevReload, FastRefresh |
| Genbook `genbook/src/{graph,optimistic,policy}` | graph, patch log, hints | link, invalidate; apply, roll back; decide, replay | rollback of one of several, cycles | ConsistencyGraph, OptimisticEngine, PolicyMesh |
| Compiler, boundaries and manifests `sourceog-compiler/src/{boundary,client,manifests}.ts` | the analysed modules | analyse, derive | a dozen manifests that must agree | RouteArtifacts |
| Compiler, build to release `.../{build,verify,doctor,release,evidence}.ts` | an output directory | build, verify, doctor, release | builds cut short, others in the directory | ReleaseVerification, ReleaseEvidence |
| Compiler, inspection `.../inspect.ts` | none | inspect, diff | a directory rewritten under the reader | ArtifactInspection |
| Planning, resilience, observability, auth, validation, security, testing | | | | not modelled, see below |

How they interact. A request reaches the server, passes endpoints and
middleware, and is matched; `maybeServePrerenderedPage` answers from a
prerendered file and may start a regeneration; the rest is rendered, which
calls the shared worker pool of its manifest. The pool owns a priority queue
and a scheduler, and asks admission control, which reads the queue's depth.
While rendering, application code reads the memo, the data cache and the
runtime cache; actions and the revalidation endpoint invalidate all of them and
the server's manifest. The page in the browser fetches flight for its next
visit. There is one JavaScript thread per process, so two pieces of code
interleave only where one awaits or returns to the event loop. Worker threads
and the file system act in between. The compiler's commands share one output
directory with each other and with a server that runs on it.

What makes each part correct: the queue serves in order, once, and never what
has given up; the pool answers every render, once and with its own result, and
keeps its size; a cache never returns what was invalidated before the read; a
page's lock excludes, and a page is visible only whole and never replaced by an
older one; one regeneration per page, and no lost invalidation; a request is
answered once and whole, by the page that covers its path; what a browser shows
is what its address and its context say; what verifies is one build, and what
is released has been verified.

## Modules

```
LinkedQueue <- PriorityQueue <- RenderQueue   -- refines --> RequestQueueSpec
                             <- WorkerPool
DataCache   PrerenderIsr   IsrCoordinator     each on its own
FsStore  -- refines --> CacheStore
Serving : FsStore RuntimeCache RequestMemo ServerActions ActionQueue Routing
          ServerRequest MiddlewareEngine RateLimiter ServerListening
          WorkerProcess FlightEndpoint (uses Routing) ResponseDelivery
Pages   : RenderPage PoolRegistry Transpiler ClientNavigation FastRefresh
          DevReload ConsistencyGraph OptimisticEngine PolicyMesh
Build   : RouteArtifacts ReleaseVerification ReleaseEvidence
          ArtifactInspection

proofs  : WorkerPool_proofs (with RenderQueue)
          DataCache_proofs   PrerenderIsr_proofs   IsrCoordinator_proofs
          Routing_proofs <- Serving_proofs   Pages_proofs   Build_proofs
```

`Serving`, `Pages` and `Build` each hold several components in one
specification. Their initial states pick one component (`which`) and their
variables `v1`, `v2`, ... stand for its variables, so a run explores the
disjoint union of the components' state spaces: nothing of one component is
hidden from, or lent to, another. A property of such a run is the conjunction
of the parts below, each guarded by its component; the components remain modules
of their own with their own `Spec` and properties. The constants of the
components are constants of these modules, with the assumptions the proofs use.
Constants that are sequences, records or functions get their values from
definitions at the end of the module (`OwnFiles`, `OneUntagged`, `SomeEntries`,
...), which a configuration names.

**LinkedQueue, PriorityQueue** (`request-queue.ts`, `priority-queue.ts`) are
operators on a heap. A request is pushed once, so it stands for its node;
`prev`, `next`, `head`, `tail` and `size` are the fields, `linked` the back
reference `value.node`. All bands share one set of nodes because nothing in a
node says which list it is in, and `Remove` offers it to every band in turn
just as the code does.

**RenderQueue** drives the queue as the pool does (enqueue, dispatch, queue
timeout, shutdown) with a worker always free, so that queue behaviour can be
checked deeply, with any priorities. `strayed` says whether a `remove` has gone
through a band that does not hold its request; until then the queue is sound in
every band, afterwards nothing is said of its pointers. **RequestQueueSpec** is
what the pool wants of it: a line per priority. The refinement maps each line to
the walk from a band's head.

**WorkerPool** composes the same queue with workers, timers, admission,
recycling, the registry's background `initialize` and shutdown. One step is one
event-loop task with its microtasks. The dispatch loop is the exception: it is
split in steps during which `dispatching` holds everything else off, which is
what running to completion means. A worker thread is modelled from outside: it
may answer the oldest job it has, well or with an error, stop with an `error`
event, with an `exit` event, or with exit code 0, which the pool ignores
(worker-pool.ts:264), or hang. `after` records who awaits `terminate()`: the
failure handler dispatches only then, the message handler uses `setImmediate`.
`findIdleWorker` picks the first idle worker of an array; the model picks any.

**PoolRegistry** has the cache of manifest paths with its LRU order, the map of
pools, the sweep and the handler of a signal; a pool is a number, and its
shutdown ends when the renders in it do; the last use of a pool is when a render
in it begins, so a render longer than the time to live may have its pool swept.
**WorkerProcess** is the thread from inside: each message's handler interleaves
where it awaits, the renders chain on `renderMutex`, and `globals` is the stack
of what a render saved. The components of a route are resolved before the
render and outside its timeout (worker-router.ts:229), so an import that hangs
keeps the mutex. **Transpiler**: one detection shared by its callers, and threads
that bundle a module into one shared file, which is truncated before it is
filled. A server process transpiles inline only outside production, a worker
always.

**DataCache**: each call runs to its first await in one step, the backend acts
in a second, and what follows the await touches the cache in a third. Values
are version numbers, so that a value tells when it was written; `born` records
the tag generations of that moment, and `done` the invalidations that have
returned. `order` is the insertion order of the JavaScript `Map`. With a JSON
backend a `Map` snapshot comes back as `{}` (`garbled`).

**RuntimeCache, RequestMemo** use versions in the same way; `alone`, `cleared`
and `raced` say which calls overlapped another, because a read that overlaps an
invalidation may store what it computed before. **CacheStore** is the abstract
store: `asked` holds what each caller has asked for, which takes effect once,
at once and completely. **FsStore** performs the same operations one file-system
call at a time; the refinement lets one take effect when an entry is renamed
into place, or when a removal has chosen its files. `LoseIndex` is a `tags.json`
that disappears or does not parse.

**ServerActions** is `handleServerActionRequest` with the stack of trackers;
**ActionQueue** the hook in the browser. An action may throw, revalidate
directly, and wait. A resource is handed to the server's handler and neither
resolved, tracked nor reported; a path or a tag is. What the manifest links to
an action is invalidated after the body, outside its request context, where the
functions that reach the persistent store skip it: `owed` is kept per cache.

**PrerenderIsr**: the manifest is the set of the pages it marks invalidated.
`fs.writeFile` truncates before it fills, hence two steps, and a file that is
`torn` in between, or afterwards if another write overlapped. A rejection
without a handler ends the process, as Node.js does by default, and the server
does not start from a manifest that does not parse. That `fs.writeFile` itself
fails is not a case of its own: it ends where a failed regeneration ends, but for
a manifest left torn, which an overlapping write or a crash leaves as well.

**IsrCoordinator**: the lock map, and `atomicSwap` one file operation at a
time over `final`, `.tmp` and `.prev`. Callers acquire, swap and release in a
`finally`, as `tests/isr-coordinator.test.ts` does; nothing in the packages
calls the coordinator otherwise. A crash clears the locks and keeps the files.

**ServerRequest** walks one request through the endpoints in their order, the
root and the route's middleware (`composeMiddleware` is a recursion, `stack`
its activations), the answer, the hooks and the errors of each. A request that
cannot be read (`malformed`) fails in the handler and again in the handler of
its error.
**MiddlewareEngine** is the other engine, of compiled definitions. **Routing**
scans an application (a set of pages, each a sequence of directories), rejects
conflicts and matches a path. Its two sorts are stable, so each is written as
an order: `Scanned` of `scanRoutes`, and `Before` of the candidates, which falls
back on it; `Primary` is the page that is before all others. **FlightEndpoint**
uses the router for the document and for the flight request its page leads to,
with locales and interception; the pump hears a browser leave only from where it
starts to listen, after an await.
**ServerListening** lets two starts and other programs take ports between the
probe and the bind. **ResponseDelivery** takes a handler's cookies through the
three writers into a browser's jar, and pipes a body that may fail.

**ClientNavigation** has one asynchronous visit per process with the fallbacks
of each fetch; **FastRefresh** the walk up the import graph and the state of a
boundary's instances; **DevReload** the handlers that the watcher starts
without waiting. **ConsistencyGraph, OptimisticEngine, PolicyMesh** are
genbook's graph, patches and decisions, a walk of the graph being a step per
node; a rollback is the action's own or puts a snapshot back, and with it undoes
what was applied later, agreed to or not. **RenderPage** builds the elements with
their slots, the payload, the document and the snapshot of a page from sequences
of tokens; where no manifest of client references is given, the snapshot names a
default.

**RouteArtifacts** is the compiler's analysis, one module taken from its queue
per step, then the walks that decide about boundaries and the edge, and, at the
end of the analysis, everything derived from it, as operators. The edge check
has imports and builtins of its own (`edgeImports`, `listed`), because it reads
the sources with other patterns than the analysis.
**ReleaseVerification** writes the output directory file by file, so that a
build can be cut short between any two of them, signs it and verifies it in the
two ways the code has. A server that was started on a build keeps its prerender
manifest in memory and writes it back at any time, also while the next build is
under way; `touched` says that it did (one server, one build at a time, at most
`MaxRewrites` such writes). **ReleaseEvidence** has the commands that judge a
project, each killed at any point, with an edited workspace, a server that
rewrites the prerender manifest, another build of the same directory at any
point of a command, and an output directory that need not be the doctor's fixed
`.sourceog` (`elsewhere`). **ArtifactInspection** loads what a diff compares in
three reads, between which builds may go on: a directory without a deployment
manifest is built, and built again by the doctor; one that is not at `.sourceog`
(`Hidden`) is built too unless the doctor's report is in it; the signatures
follow the deployment manifest. Releases follow the diffs, since they share
nothing but the directories.

## Runs

| run | what it shows |
|---|---|
| `RenderQueue_line` | four requests over three bands, until a `remove` strays: `QueueIsSound` (pointers, counters and the depth agree with a walk, what waits can be reached) and the queue is the lines of RequestQueueSpec; and, strayed or not, nothing is served twice. |
| `RenderQueue_revived` | **violated**: with two bands a request that timed out is served. `remove` (request-queue.ts:105) takes every node with a neighbour for its own; PriorityQueue asks Critical first. |
| `WorkerPool_safety` | three requests of two priorities on a pool of one, with failures of threads and spawns, recycling, timeouts and a shutdown. |
| `WorkerPool_liveness` | every render settles. |
| `WorkerPool_oversized` | **violated**: `initialize` tests `initialized` before its await; the registry's call and the first render's both spawn. |
| `DataCache_safety` | two callers, three keys over no, an in-memory and a JSON backend: LRU bookkeeping (`L1IsSound`) and fresh L1 hits. |
| `DataCache_stale` | **violated**: an L2 entry is returned without looking at the generations, so a value invalidated in the meantime comes back. |
| `PrerenderIsr_safety` | two pages, two regenerations, one revalidation: single flight, html never goes back, no page stuck in revalidation, an invalidation that ran alone holds. |
| `IsrCoordinator_safety` | three callers, two route keys with files of their own: exclusion, whole pages, the newest page, and one copy that survives. |
| `Serving` | 384,627 states: thirteen components between a request and its response. |
| `Pages` | 778,618 states: nine components of a page, in workers, browsers and development. |
| `Build` | 653,197 states: four components of the compiler. |

The parts of the properties of the last three runs, each with the mutation that
breaks it alone (*of* becomes *as*, both in the component's module; the ones
listed in `PROJECT.json` are among them). What a part says in full stands above
it in its module.

| property | part | module | mutation |
|---|---|---|---|
| `FilesKeepTheStore` | At rest tags.json covers every tagged entry (one caller at a time). (`IndexCovers`) | FsStore | `Scan` becomes `ScanNothing` |
|  | The files implement the abstract store. (`ImplementsStore`) | FsStore | `Matches` becomes `MatchesUntilEmpty` |
| `InvalidationsHold` | An invalidation that no read overlapped is final. (`LoneInvalidationHolds`) | RuntimeCache | `DropMaps` becomes `DropFunctions` |
|  | A memo that was cleared does not answer with what it held. (`ClearedStaysCleared`) | RequestMemo | `ClearByTags` becomes `ClearByAllTags` |
|  | Every tag of a fetch reaches its memo. (`TagsReachTheMemo`) | RequestMemo | `MergedTags` becomes `OwnTags` |
|  | Its reply finds nothing it wrote cached as it was, the persistent store excepted. (`AloneLeavesNothingStale`) | ServerActions | `Pending` becomes `PendingUnlessTracked` |
| `OneFetchAtATime` | One request asks the origin at most once at a time. (`OneFetchPerRequest`) | RuntimeCache | `Memoise` becomes `MemoiseSettled` |
|  | A render asks the network once for a url. (`OneFetchPerUrl`) | RequestMemo | `Stored` becomes `StoredLater` |
| `ActionsAreReported` | One tracker for each body that runs. (`OneTrackerPerBody`) | ServerActions | `BodyThrows` becomes `BodyThrowsUnpopped` |
|  | An action that overlapped no other reports what it revalidated by path or tag. (`AloneReportsItsOwn`) | ServerActions | `Report` becomes `TrackedOnly` |
|  | A drain of a queue that was not empty waits for all of it. (`DrainSettlesAll`) | ActionQueue | `More` becomes `MoreUnlessFailed` |
|  | Actions run one at a time, in order. (`RunsInOrder`) | ActionQueue | `Take` becomes `TakeLast` |
|  | What the hook reports is what happens. (`StatusIsTrue`) | ActionQueue | `Over` becomes `StillPending` |
| `MatchesAgree` | A match covers the path it answers. (`AnswerCovers`) | Routing | `CatchAllTakes` becomes `MayTakeNothing` |
|  | The order in which pages were found does not decide. (`OrderDoesNotMatter`) | Routing | `Compare` becomes `CompareScores` |
|  | A page of exactly that path wins. (`ExactPageWins`) | Routing | `Score` becomes `GreedyScore` |
|  | A slot conflicts with no page. (`SlotsAreTheirOwn`) | Routing | `NoConflicts` becomes `NoPageConflicts` |
|  | The adapters' matcher agrees where it knows the segments. (`AdapterAgrees`) | Routing | `OneSegment` becomes `PrefixSegment` |
|  | The flight of a page is the flight of that page. (`FlightFindsThePage`) | FlightEndpoint | `HrefOf` becomes `StrippedHref` |
| `AnsweredOnce` | Each request is answered once, but one that cannot be read is not. (`AnsweredOnce`) | ServerRequest | `Caught` becomes `CaughtAnew` |
|  | No middleware runs twice for a request. (`NothingRunsTwice`) | ServerRequest | `RouteChain` becomes `WholeRouteChain` |
|  | What a middleware answers is final. (`AnswerStopsTheChain`) | ServerRequest | `AnswerReturns` becomes `Rest` |
|  | A higher priority runs first, equal ones in their order. (`HigherFirst`) | MiddlewareEngine | `Ahead` becomes `Rising` |
|  | A matcher takes the paths its notation says, `:path+` those the code gives it. (`TakesWhatItSays`) | MiddlewareEngine | `Takes` becomes `TakesMany` |
| `LimitIsExact` | No window holds more than Limit requests of a key that did not succeed, and one more for each success that took another's timestamp. (`WindowHolds`) | RateLimiter | `Live` becomes `LiveEarly` |
|  | A request is refused only by requests in its window. (`RefusalIsNeeded`) | RateLimiter | `Refused` becomes `CountFirst` |
| `StartsListen` | A start that overlaps no other finds its port. (`LoneStartListens`) | ServerListening | `NextPort` becomes `SamePort` |
|  | Of two starts that overlap one listens. (`SomeStartListens`) | ServerListening | `ClosedFirst` becomes `ClosedTooLate` |
| `WorkerTellsTheTruth` | A worker that says it is free is. (`FreeMeansFree`) | WorkerProcess | `AfterRender` becomes `AlwaysReady` |
|  | One render at a time has the globals. (`OneRenderAtATime`) | WorkerProcess | `Restored` becomes `RestoredOnSuccess` |
| `ResponsesAreWhole` | A response that ends is whole. (`EndedIsWhole`) | FlightEndpoint | `Destroyed` becomes `EndsAnyway` |
|  | A send that succeeded brought the whole stream. (`SettledIsWhole`) | ResponseDelivery | `Rejected` becomes `EndsAnyway` |
|  | The browser has the cookies the handler saw. (`JarFollowsTheStore`) | ResponseDelivery | `Deletes` becomes `DeletesHere` |
|  | A cookie arrives whatever writes it, where its header line is not spoilt. (`CookiesArrive`) | ResponseDelivery | `WebLines` becomes `WebLinesSet` |
| `EverythingSettles` | Each render message that was taken is answered. (`EveryRenderIsAnswered`) | WorkerProcess | `Released` becomes `StuckAfter` |
|  | A render that streams is let go. (`EveryRenderIsLetGo`) | FlightEndpoint | `Cancels` becomes `KeepsReading` |
|  | While the browser stays, every send settles. (`EverySendSettles`) | ResponseDelivery | `Rejected` becomes `Unheard` |
| `PageIsConsistent` | The nesting of the markup is that of the route's files. (`TreeIsTheElements`) | RenderPage | `Wrapped` becomes `WrappedForward` |
|  | The content is in the root, the scripts are outside it. (`RootHoldsTheContent`) | RenderPage | `WithScripts` becomes `ScriptsInside` |
|  | What a snapshot names is preloaded, but for a manifest nobody gave. (`SnapshotIsPreloaded`) | RenderPage | `ModulePreloads` becomes `WithoutBoundaries` |
|  | The payload is the innermost part of the markup. (`PayloadIsTheInnermost`) | RenderPage | `Wrapped` becomes `WrappedForward` |
|  | The payload is no older than the markup. (`PayloadIsNoOlder`) | RenderPage | `PayloadVersion` becomes `ReadBefore` |
|  | An island gets the entry of its own file. (`IslandIsItsOwn`) | RenderPage | `ExportMatches` becomes `AnyExport` |
| `PoolsAndModulesAreShared` | A registered pool has not been shut down. (`RegisteredIsAlive`) | PoolRegistry | `Swept` becomes `KeptWhileStopping` |
|  | A sweep fails no render but one that runs longer than the time to live. (`SweepSparesTheRecent`) | PoolRegistry | `Used` becomes `FoundUnused` |
|  | One signal waits for every pool that ran. (`OneSignalDrains`) | PoolRegistry | `Registered` becomes `ReadAfterClear` |
|  | Callers share one detection. (`OneDetection`) | Transpiler | `StartsDetection` becomes `NeverShared` |
|  | Whoever has a module had a bundler, and in production a native strategy or tsx as well. (`LoadingTakesBoth`) | Transpiler | `Considered` becomes `AnyFallback` |
|  | A module is imported whole. (`WholeUnlessShared`) | Transpiler | `AfterTruncate` becomes `ImportAtOnce` |
| `BrowserIsUpToDate` | After a visit that overlapped none the page, its context and its url agree. (`LoneVisitAgrees`) | ClientNavigation | `ContextOf` becomes `KeptOnReplace` |
|  | A change refreshes the nearest boundary. (`NearestBoundary`) | FastRefresh | `Enqueued` becomes `DeepFirst` |
|  | State that nothing touched survives a refresh. (`UntouchedStateSurvives`) | FastRefresh | `Preserved` becomes `AsRendered` |
|  | A reload that overlapped none is served. (`LoneReloadIsServed`) | DevReload | `Assigned` becomes `ConfigKept` |
|  | Its clients are told what it found. (`LoneReloadIsTold`) | DevReload | `createDevDiagnostics` becomes `OldIssues` |
| `PatchesAndPoliciesHold` | An invalidation reaches what depends on the data. (`InvalidationIsWhole`) | ConsistencyGraph | `Spread` becomes `OneDeep` |
|  | The two ends of each edge agree. (`EndsAgree`) | ConsistencyGraph | `BothEnds` becomes `OneEnd` |
|  | A rollback takes back its own patch, or with a snapshot those applied after it. (`RollbacksTakeTheLater`) | OptimisticEngine | `RolledBack` becomes `Before` |
|  | What was rolled back is not pending. (`RolledBackIsNotPending`) | OptimisticEngine | `Marked` becomes `OldestPending` |
|  | A failing route is contained, whatever else is asked. (`FailingRoutesAreContained`) | PolicyMesh | `RuntimeHint` becomes `ErrorsFirst` |
|  | A replay that overlapped none restores what it loaded. (`LoneReplayRestores`) | PolicyMesh | `Loaded` becomes `Merged` |
| `BoundariesAreFound` | The owners of a module are the routes that reach it. (`OwnersAreThoseWhoNeed`) | RouteArtifacts | `Enqueued` becomes `GainingUnparsed` |
|  | The two walks of a route see the same client files. (`WalksAgree`) | RouteArtifacts | `Onward` becomes `Behind` |
|  | The edge check misses only what its own reading of the sources does not see. (`EdgeCheckMissesTheUnseen`) | RouteArtifacts | `EdgeOnward` becomes `BlamedEnds` |
| `ManifestsAgree` | Milestone 2 and check M3-001 depend on the compiler alone. (`MilestonesAskTheCompiler`) | RouteArtifacts | `IslandWritten` becomes `IslandsUnwritten` |
|  | No manifest names an asset that is not written. (`PreloadsAreWritten`) | RouteArtifacts | `BrowserEntry` becomes `EntryForBoundaries` |
|  | The scripts of a page hydrate what its boundaries declare. (`HydrationIsDeclared`) | RouteArtifacts | `IslandWritten` becomes `IslandsUnwritten` |
|  | A client file has a chunk on every page that needs it. (`ReferencesHaveChunks`) | RouteArtifacts | `Chunks` becomes `BoundariesOnly` |
|  | Pages and modules agree on the edge. (`EdgeSupportAgrees`) | RouteArtifacts | `UnsupportedReasons` becomes `BuiltinsOnly` |
|  | Cache entries and actions name each other. (`LinksAreMutual`) | RouteArtifacts | `TargetCacheKeys` becomes `FirstRoute` |
| `VerifiedIsWhole` | What verifies are the files of one build. (`VerifiedIsOneBuild`) | ReleaseVerification | `Matches` becomes `IsThere` |
|  | A directory that one build wrote to the end verifies. (`WholeBuildVerifies`) | ReleaseVerification | `Order` becomes `RefsLast` |
|  | The prerender manifest lists pages of its own build. (`ListedPagesAreNew`) | ReleaseVerification | `Rendered` becomes `RenderMissing` |
|  | What was deployed is whole and within its budgets. (`DeployedIsWhole`) | ReleaseVerification | `Over` becomes `OnceSigned` |
|  | The two verifiers agree on a build no one touched. (`TwoVerifiersAgree`) | ReleaseVerification | `SignaturesMatch` becomes `ArtifactsOnly` |
|  | A verification that passed leaves its reports and evidence. (`PassedIsWhole`) | ReleaseVerification | `EvidenceArtifacts` becomes `AuditOnly` |
| `EvidenceIsOfTheBuild` | The evidence index names nothing that is not there. (`EvidenceIsThere`) | ReleaseEvidence | `DoctorWrites` becomes `IndexFirst` |
|  | A release whose directory no one else touched bundles the artifacts of one build. (`BundleIsWhole`) | ReleaseEvidence | `DoctorIndex` becomes `OwnIndex` |
|  | A release passed its gates. (`BundleIsHealthy`) | ReleaseEvidence | `PassesGates` becomes `NoGates` |
|  | A full examination finds what any narrower one finds. (`FullExaminationSpeaksForAll`) | ReleaseEvidence | `InWorkspace` becomes `NarrowAudit` |
|  | A diff no build ran into compares the two builds. (`ReportIsOfTwoBuilds`) | ArtifactInspection | `LoadPlan` becomes `SummaryOfCurrent` |
|  | The diff of the reverse direction is the mirror image. (`DiffIsMirrored`) | ArtifactInspection | `BothReplay` becomes `CurrentReplays` |
|  | Each page that changed is in the diff. (`EveryChangedPageIsShown`) | ArtifactInspection | `RouteChanged` becomes `DecisionsOnly` |
|  | The inspection of a route names each action that invalidates it. (`InspectionFindsEveryInvalidation`) | ArtifactInspection | `RouteLinks` becomes `LinksById` |
|  | A release's diff tells the changes since its baseline. (`ReleaseDiffIsOfTheBaseline`) | ArtifactInspection | `BundledMatrix` becomes `UnmovedPaths` |

`RenderQueue_line` uses the bands Critical, High and Normal, so that head, middle
and tail nodes are removed from bands that `remove` asks first and from such that
it does not. A removal strays when its node has a neighbour and a band that is
asked before its own takes it: `RenderQueue_revived` shows what that leads to in
the two bands the pool uses (worker-pool.ts:158), where a request that timed out
is rendered. What holds up to that step is `QueueIsSound` and `ImplementsLines`,
what holds after it `ServedOnce`. `WorkerPool_safety` has two priorities in use
and shows which guarantees of the pool survive this bug.

Some properties state an exception that the code makes, rather than leave it out
of the state space: the persistent store after a linked invalidation, a success
of the limiter that takes back another's timestamp (`lost`), a render longer than
the time to live, a snapshot put back, an import the edge check does not see, a
server that wrote into a build (`touched`). What lies outside the exception has to
hold, and what lies inside it is listed under Findings.

Properties that name what was *alone*, *quiet* or *settled* say what the code
gives when nothing overlapped, and are false without that: nothing in the code
orders two visits, two reloads or two actions, and the components' comments say
which overlap leaves what. They are worth checking because the failures and
fallbacks inside one such call are many, and because what overlaps is tracked
from the start to the end of the call, not assumed away: the overlapping
behaviours are in the state space and must not spoil a later lone call.

Bounds. Four requests are the fewest with a removal in the middle of a list
that has other removals at both ends. One worker and two slots give a worker
and its successor, and with the background `initialize` two workers at once;
three requests fill the worker and the queue and have one more to refuse;
recycling after two requests lets a worker both be reused and retired. In the
data cache, capacity two with three keys evicts, two keys share a tag and one
has none, three versions allow a value, its successor and an evictor, and one
invalidation is what there is to miss (a second one adds nothing to a
comparison for equality with one snapshot). In PrerenderIsr one change of the
data separates the old render from the new. In IsrCoordinator three callers
give a holder, a waiter and one that comes after a timeout, and four versions
let a retry follow an interrupted swap on both pages.

In `Serving`, the file store does four operations over two keys and two tags:
enough to write, overwrite with other tags, lose and rebuild the index, and
remove. Three callers are two in one request and one in another; two versions
of the origin are a value and its successor, and the memo of a request, where
one key is enough, has one more. Two actions overlap; three
queued ones leave one behind the one that runs. Applications of three pages out
of eleven have every pair of kinds of segment at one position, with one page
beside it. The limiter takes two requests of four in windows of two ticks out
of four. Two servers and one move of another program are what a probe and a
bind can be separated by; three ports with two attempts run out. Three renders
are one that runs, one that waits and one that is refused. Two chunks have a
middle. In `Pages`, two layouts and a template are every relation of nested
files; two routes share a manifest or not, with a cache of one path that evicts
and a clock that outlives one pool; two visits, reloads, threads or replays
overlap, and three disk versions leave a change unseen; the import graphs of
four files have the changed file, two ways up and cycles; three links make a
cycle of three, and of three actions two bring their own rollback. In `Build`,
the applications have two pages that share a layout and a handler, with import
cycles, directives on each side of a boundary and builtins before and behind
it, and each way in which the edge check reads them otherwise; two builds run
over one directory, one of them cut short or both whole, with one write of a
server anywhere between their steps; two commands follow each other with one
edit of the workspace, or another build; and of the two directories of a diff
one is not at `.sourceog`.

The bounds are the CONSTANTS named as such in each module. Deadlock is checked
except in `PrerenderIsr_safety`, where a process that went down beside a torn
manifest stays down, and in the three runs of several components, whose
requests, renders and commands come to an end.

Symmetry is declared in `DataCache_safety`, `IsrCoordinator_safety`,
`WorkerPool_safety` and `WorkerPool_oversized`, over slots, callers, requests
of one priority and tagged keys, which the actions treat alike, and in no
liveness run.

Fairness. `WorkerPool!Fairness`: Node.js fires armed timers and resolves
`terminate()`; the dispatch loop runs to its end. Timers get strong fairness
because the loop disables them, again and again, while it runs. The set-up that
`initialize` awaits is assumed to end, well or badly. Nothing is assumed of
worker threads, which may hang for ever: that is what the timers are for, and
why `EveryRenderSettles` is worth checking. In `Serving` (`FairSpec`): a
chained render starts once the one before it is over and ends, well or with an
error (`WorkerProcess`, the pool's timeout being on the other side); the pump
goes on reading, a browser that stays drains what it was sent, and a "close"
is delivered (`FlightEndpoint`); a send begins and its stream ends, well or
not (`ResponseDelivery`). Nothing is assumed of a browser, which may leave.

## Proofs

The theorems are proved for every value of the constants that the named ASSUMEs of
the modules allow: every number of requests, workers, slots, routes, keys, tags,
callers, servers, files and chunks. Each states a property that a run also checks;
`PROJECT.json` lists them. A property is seldom inductive as
it stands. The strengthening is called `Inv` (or `IInv`, `HandInv`, `QueueInv`,
`PromiseInv`, `Shown`); for the components of `Serving`, `Pages` and `Build` it
stands at the end of the component's module, with a comment that says why the
properties hold.

Some theorems have a hypothesis beyond the assumptions. Each is a restriction
of use without which the code does break the property, and the run of that
property makes it too. (Exceptions that depend on what has happened, not on how
the code is used, are in the properties themselves.)

| hypothesis | theorems | without it |
|---|---|---|
| `OneShutdown` | NothingIsHeldBack | the second of two overlapping shutdowns empties the array of a pool that is up again |
| `FilesDiffer` | SwapIsAtomic, NeverAnOlderPage, OneCopySurvives | two route keys that `resolveOutputPath` takes to one file have two locks and one `.tmp` |
| `FS!OneCaller` | FilesAreTheStore | two callers lose each other's tags in the read-modify-write of tags.json |
| `EmptyDrains = FALSE` | ActionsReportTruly | a drain of an empty queue leaves a settled promise behind |

**The queue** (`WorkerPool_proofs`). Its lemmas show that each operation returns
a queue whatever the pointers are, and how far a head can move. From the first,
`TypeCorrect` of RenderQueue and of WorkerPool: the bug of `remove` damages
lists, never types. From the second, `NothingIsServedTwice`, with any
priorities: date the pushes; a `next` pointer always leads to a later push of
the same band, so heads only advance and never return to a request that was
served (`ServedArePassed`). Until a `remove` strays the pointers are right as
well. `QueueInv` says that the walks from the heads are lines without a common
member, together of exactly the waiting requests (`Lined`, `Everyone`); each step
takes one line to its tail, to itself with one more at the end, or to itself
without one of its members, and leaves the nodes of the others alone, which is
at once `QueueStaysSound` and, step for step, the refinement
`QueueImplementsLines`. A walk along pointers is a recursive function; that it
follows a given line is shown for a least number of steps at which it would
not.

**The pool.** `NoPromiseForgotten`: a keeper would be lost if a worker with a
current request were given another one, or its slot went to a fresh thread.
`Books` excludes both: a worker is busy exactly while it has a current request,
and a slot without a thread has none and is not in the array. Nothing is asked
of the pointers, which `remove` may have damaged: a shutdown rejects every
request whose timer it clears. `PoolNeverShrinks`: a worker leaves only in the
step that puts its successor in. `OneWorkerPerRequest`: what was handed out was
pushed before every head (`PushedInOrder`, the argument of the queue), so a
request is handed out once, and `Hands` follows it from worker to answer.
`NothingIsHeldBack`: what could be dispatched has a dispatch scheduled, and a
pool that is down has nothing queued (`QueueEmptied`).

**The data cache.** `L1StaysSound`: the order is injective and lists the keys
that have an entry. `HitsAreFresh`: an entry's snapshot is that of the moment
it was computed and never ahead of the generations (`Genuine`), also for an
entry under way, so a hit whose snapshot is current was computed since.

**Regeneration.** `OneRegenerationPerPage` and `NoPageIsStuck` need each other:
a page that is not in `revalidatingPathnames` has no regeneration because every
regeneration's page is there, and the end of one takes out its page and nobody
else's because the page has only one. `NoInvalidationIsLost`: `Promises` says
that the promise of a lone invalidation is kept by the manifest in memory, by
the one on disk, and by every copy that a regeneration or a handler carries and
will write back. `PagesOnlyGetNewer` follows from single flight.

**The coordinator.** `LockExcludes`, from `HolderHasLock`: whoever is past
`acquireLock` is the one the map names; `releaseLock` looks at no holder and is
safe because only holders call it. `SwapIsAtomic` and `NeverAnOlderPage`:
`SwapIsOwn` says that a caller finds in `.tmp` what it wrote, newer than what is
published; two callers in a swap hold different locks and touch different files.
`OneCopySurvives`: at every point of a swap, of one that was interrupted and of
the one after it, one of the three files is whole.

**Between a request and its response** (`Serving_proofs`). The components share no state, so the proof about one
looks at its own steps; its invariant is guarded by `which`.

* `WorkersTellTheTruth`: a render is taken only by a ready worker, which is busy
  from then on, so one render at most is behind the mutex.
* `OneFetchForAll`, `InvalidationsStay`: what a memo holds is the fetch of that
  url that is under way or its result; after an invalidation that no call
  overlapped, every cache that is still to be dropped is one of `Remaining` and
  the others hold nothing older. What is linked to an action stays owed to the
  persistent store only.
* `ActionsReportTruly`: each running body has the tracker on the stack that is
  its own and records what was revalidated by path or tag; actions are posted in the order of their numbers, and a drain that
  waits has what it waits for in flight or queued.
* `RequestsAreAnsweredOnce`: an answer is sent at the end or by the handler of
  errors before one was, and never to a request that cannot be read; one activation of the chain at a time goes down,
  what ran lies before the top of the stack in the two chains, and the layers
  below the top await `next()`. For the compiled engine: what ran is what
  matches among the entries passed so far, in their order; the entries are the
  definitions at their places in the order of priorities, and a matcher is a way
  of cutting the path into what each segment of the pattern takes.
* `ServersListen`: the ports a start that nobody disturbs has gone past are
  taken and the one it found free still is; of those that race for one port, one
  has not lost it.
* `WholeResponses`: only a stream that reached its end ends a response, and the
  jar is what it was until the head arrives, and then what the written lines
  make of it, for each writer that keeps every line; at default paths that is
  what the handler's store says.
* `FilesAreTheStore`: at each step of a set, a purge or a rebuild the index
  names every tagged entry, except the one that was just renamed into place.
  With it, each file operation is an operation of CacheStore or none.
* `LimitsAreExact`: the timestamps of a key are in order, and from any live time
  on they are no more than its requests since that did not succeed, and as many
  but for those that a success of another took (`StampsCount`, `lost`).
* `MatchesAlwaysAgree` rests on `Routing_proofs`, whose facts `Serving_proofs`
  takes twice, for the router and for the one that flight asks. What
  `matchSegments` takes is a cut of the path and there is one such cut at most
  (`AnswerCovers`). `compareCandidates` orders different pages strictly, by their
  ids in the end, so the sort before it never decides: among the candidates of the
  first test that has any one page is ahead of all others, and it depends on the
  set of the candidates only (`MatchIs`, `BestIsOne`, hence
  `OrderDoesNotMatter`). Scores are bounded along the segments: a page of static
  segments has 98 for each of them and 2 for each directory, and each segment
  that is not static costs 80 (`ExactScore`, `LooseScore`). Two pages with one
  canonical page, one interception and one slot are a conflict, so the slots of
  an answer differ. Asked again as it was answered, a page is still the first: the
  scores of all candidates that intercept once move by one amount (`ScoreShift`,
  `StaysBest`), so the flight finds the page of its document unless some page is
  intercepted twice.

**A page** (`Pages_proofs`), in workers, browsers and development.

* `SharedIsSafe`: the pools that run are the registered ones, an entry was used
  no earlier than the renders of its pool began, so that one whose pool was swept
  is older than the time to live, and a signal waits for every pool that ran. Callers of the transpiler wait only while a detection is under
  way, and a worker that is to import finds the file whole, or another worker is
  at it.
* `BrowserAgrees`: a visit that is alone made the context it applies and boots
  from the page that is shown; a handler of the watcher that is alone has read
  the files as they are. The walk up the imports holds the files of one distance
  and then of the next (`Ordered`), so the boundary it meets first is a nearest
  one; `GraphAssumption` makes a module graph finite and closed, cycles and all.
* `PagesAgree`: what has been made of a page at each step of its render, and
  from which of its parts (`Inv` of RenderPage). Wrapping a page in its layouts
  from the last to the first is having what is left of them in front
  (`WrappedInReverse`), and leaving files out of a whole tree is leaving them out
  of each of its parts, so the two constructions list the same files. The
  payload is the page alone, and the markup has what is left of the layouts and
  the template around it. A document is followed through its three replacements, each an insertion whose places are
  known: the assets before the body, the root behind its tag, the end of the root
  and the scripts before its end (`Placed`, `Rooted`, `Scripted`). An island gets
  an entry that could be taken for it, so its own where there is only one.
  `PagesAssumption` keeps the file of a page apart from its layouts and its
  template; `MarkupAssumption` says that a fragment ends no body and that a
  document has one body at most, with the content in it and the head before it;
  `RegistryAssumption` that paths and ids are sequences of names.
* `PatchesHold`: the walk of the consistency graph holds what depends on the node
  and on what it visited, and nothing that another closed set lacks; the two
  lists agree because each writer writes both, also in what is exported; an
  answered patch was applied; a patch in a snapshot was applied before its action,
  and one that is not was refused, applied later or lost already; hints come from metrics, and a replay that is alone
  finds the file and the mesh as it made them.

**A build** (`Build_proofs`), from the analysis to a release. `NoneAssumption`
keeps the value for "no file" apart from files; `ApplicationsAssumption` says
what an application is (the routes are listed, none has a file twice, imports
are files); `BuildsAssumption` that the id of a page is made of its pathname, in
every build alike.

* `OwnersAreThoseWhoNeed`: a module that is not queued has handed its routes on
  to what it imports, so at the end the modules of a route are closed under
  imports; and none has a route that does not need it, where `Needed` is the
  least closed set, defined without a walk. Each later walk of a route ends with
  a closed set too, and the analysis and the walks agree because both are the
  least one. The walk of the edge check is the least set closed under the imports
  it sees; on the way to a module it misses there is a last one that it visited.
  Cycles need no argument of their own.
* `ManifestsAreOfOneBuild` is about the operators: they hold of any analysed
  application, whatever its owners are, which is what one analysis under a dozen
  manifests is meant to give.
* `DirectoryIsOneBuild`: of the files behind the build's step each is what this
  build wrote (`Wrote`), but for what a server may have written since (`Left`);
  a signature on disk holds contents of one run, whichever it was, apart from the
  prerender manifest, so files that match it are of one run; what a verification
  has checked stays until a build or a server touches the directory.
* `EvidenceIsWhole`: what each command has written by its present step is there
  (`FilesInv`), and of the build it looks at unless the directory was rewritten
  under it (`OwnInv`), what it has found is what was wrong with the workspace
  (`FoundInv`), and while no build runs the contexts that a diff has loaded are of
  what their directories still hold (`QuietInv`), apart from the routes of one that
  the diff had to build.

Where a proof needs an induction, over the places of a sequence or the steps of
a walk, it takes a least counterexample, whose predecessor is none. Flattening a
sequence of sequences is a recursive function; that there is one that satisfies
its equation is shown in the same way.

Only model-checked: liveness (`EveryRenderSettles`, `EverythingSettles`), which is
out of the prover's reach. The properties that the three runs with a violation
check are false.

The type invariants of RenderQueue and DataCache are parts of `QueueIsSound` and
`L1IsSound`; those of PrerenderIsr, IsrCoordinator and the components of
`Serving`, `Pages` and `Build` are proved and not checked again.

## Findings

Three runs show the code to break what a comment of it says, each quoted under
`findings` in `PROJECT.json`: a request that timed out is served
(request-queue.ts:105), a pool spawns twice its size (worker-pool.ts:125), and
an invalidated value comes back from the second level (data-cache.ts:193).

Seen on the way, not part of a run:

* Some files do not parse at this commit, and are read as they were clearly
  meant: worker-pool.ts:207 has a left-over `queue.add` before `queued`,
  worker-health.ts:41 and server.ts:1046 a stray `*/`, server.ts:25-26
  truncated imports, server.ts:399 and 415 a doubled `onError`, server.ts:578
  lacks the header of a function, verify.ts:1203 has a stray `}`, render.ts:333
  a stray path.
* Routing. The scores of a match (match.ts:159) let forty groups, worth 2 each,
  outweigh the 80 by which a static segment is above a dynamic one. Where a path
  has only intercepting pages, the document is matched without `intercept` and its
  flight with it: `(.)shop/(..)x` scores 190 and then 275, `(.)shop/x` 200 and then
  250, so the flight is of another page. An empty `[[...slug]]` scores above the
  page of exactly that path.
* Middleware patterns. `:path+` is documented as one or more segments
  (middleware-engine.ts:174) and takes one, with a "+" behind it (199, 211).
* Caches. data-cache.ts:230: `Map.set` leaves a key that is present where it
  is, so a `set` does not make its key the youngest. An L2 fill overwrites a
  newer `set` of the same key (data-cache.ts:193), and `get` throws on an entry
  whose snapshot went through JSON (data-cache.ts:120). The read-modify-write
  of tags.json (filesystem-cache-store.ts:258) is not atomic across callers, a
  `set` leaves the key under the tags of the entry it replaced, and a process
  that dies between the entry and the index leaves an entry no tag finds.
  `cacheLife("1w")` is 0. What the manifest links to an action
  is invalidated after its request context has ended (server.ts:722-727), where
  `invalidateDataCacheByKey`, `ByRoute` and `ByTag` skip the persistent store
  (cache.ts:213, 226, 235): its entries stay. A resource that an action
  invalidates goes to the handler of server.ts:76-84 and is neither resolved to
  what it is linked to nor reported (revalidate.ts:147-150).
* ISR. Two overlapping manifest writes can leave a file that ends the process
  at the next reload, and from which the server does not start. Two interrupted
  swaps in a row can leave no copy of a page: the second one removes `.prev`
  while `final` is already gone; hence the `interrupted <= 1` in
  `AVersionSurvives`. Route keys that share a file (isr-coordinator.ts:84) have
  two locks.
* Server. Middleware runs neither before flight (server.ts:108) nor before
  prerendered pages (160-187), though docs/sourceog-prompt-guide.md says it
  runs on every matched request. The page's flight href drops the query string,
  the canonical endpoint's default pathname matches no page id, and with i18n
  `/fr/x` may be rendered in another language. The pump waits for "drain" for
  ever when the browser leaves. Two servers that start together can fail with
  EADDRINUSE in spite of the fallback, and a port past 65535 throws. A
  request whose URL or cookies cannot be decoded fails in `createNodeRequest`
  (request.ts:79) and again in the handler of that error (server.ts:225), so it
  is never answered. The flight's "close" listener comes after an await
  (server.ts:842 after 834): a browser gone before then is not heard, and its
  render is let go only when it ends. A regeneration without a manifest file
  writes one of build "dev" without a page (server.ts:1443).
* Pool and workers. The components of a route are resolved outside the render's
  timeout (worker-router.ts:229): an import that hangs keeps the mutex of its
  worker until the pool gives it up. A pool's last use is when a render begins
  (pool-registry.ts:102): with a time to live below the timeouts, which the
  environment allows, a sweep shuts down a pool that renders. Workers transpile
  inline in production too (worker-entry.ts:20).
* Rate limiter. A success takes back the youngest timestamp of its key, which may
  be another request's (rate-limiter.ts:98): the window then lets one more in.
* Delivery. The node adapters overwrite a hand-written Set-Cookie where the web
  ones append; `delete` of a cookie names no Path; `sendNodeResponse` keeps
  only the last Set-Cookie; a stream that fails after its first chunk leaves
  the response open. The adapters' matcher takes `[...slug]` for one segment,
  `[[...slug]]` for none, and does not escape dots.
* Rendering. A prerendered page is given no URL of the manifest of client
  references (build.ts:952-957), so its snapshot names the default (render.ts:417)
  and its head preloads none (469). The worker's payload has no layouts, template or slots;
  `createDocumentHtml` inserts it by `String.replace`, so `$$` becomes `$`;
  `ClientIsland` takes `IconButton` for `Button` when it is listed first;
  cache-policy.ts gives forced-dynamic requests "public" where its doc says
  private.
* `drain` of an empty ActionQueue returns a settled promise for ever after
  (`sourceog/src/actions.ts:177`): hence `EmptyDrains = FALSE`.
* Genbook. A rollback without one of its own puts back the snapshot of its action
  (optimistic-engine.ts:58) and undoes every later patch, those the server has
  agreed to as well.
* The edge check (boundary.ts:640) does not follow `export ... from`, which the
  analysis does (364-368), blames the modules of a list (597-604) where the
  analysis counts each `node:` specifier (316), and tries fewer endings (741-744),
  though its comments say "All Node.js built-in modules" and "full import graph"
  (594, 629): a page may be called fit for the edge that is not.
* A server on the output directory. It writes the prerender manifest it has in
  memory (server.ts:1536, 1558) whatever build is under way: before the hashing
  (build.ts:1319) the signatures cover another build's manifest, after it what is
  deployed (1381) does not verify. A release does not notice this, nor another
  build of the directory.
* The doctor reads `.sourceog` whatever `distDir` is (doctor.ts:144): a release of
  a project with another one fails, or bundles an older build that is there.
  `inspect` builds a directory without a build, and the doctor it then calls
  (inspect.ts:770) builds again, so the routes it shows are of the first and the
  rest of the second; a project with another `distDir` is built by being inspected
  as long as it has no doctor's report.
* Compiler. `writeJsonAtomically` (build.ts:571-577) removes the target before
  the rename. `sanitizeChunkName` (client.ts:727) takes `/a/b` and `/a_b` to
  one chunk, and a descriptor's key loses the ending of its file (829), so two
  files of one base name share it; in the model names are distinct. The doctor rebuilds, so the index loses the scoreboard; it passes
  a project whose build fails its budgets; a release goes on whatever its
  doctor found. `inspect` shows the report of another build or area as the
  verdict. A diff maps routes by pathname, so only the last of a shared one is
  compared, counts unsigned manifests always as unchanged, and a release diff
  of the same build id compares the release with itself. Milestone 3 cannot
  complete at this commit. `sourceog doctor runtime` takes "runtime" as the
  path.

## Plan

Done: the queue, the pool, its registry, workers and transpiler, all caches,
both ISR implementations, requests from listening to delivery, the page in the
renderer, the browser and development, genbook, and the compiler from the
analysis to a release; and the proofs of the safety properties of all runs.
Next, in this order:

1. A composition: WorkerProcess as the threads of WorkerPool, in place of the
   thread modelled from outside.
2. Overlapping callers of FsStore as a run of its own, which the code fails.

## Not modelled, and why

Render planning (`planning/`): referenced by nothing, and its `plan` throws.
Genbook's resilience and observability: counters and reports that decide
nothing elsewhere. Platform checks (auth, validation, security headers,
automation, configuration): functions of one request, or read once. The
testing harness. Of the compiler: bundling, source maps, budgets in bytes, the
texts of reports; of the command line: parsing of arguments and printing; of
the adapters: the deployment files, which copy manifests. HTTP, React's own
rendering, esbuild and swc are external. Time to live of cache entries is left
out: an expired entry is a miss like any other. Logging and formatting are left
out of every module; chunks of a stream change nothing the pool decides on.
