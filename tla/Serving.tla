------------------------------- MODULE Serving -------------------------------
(***************************************************************************)
(* From a request to its response: listening, middleware, routing, caches, *)
(* actions, the worker process and the delivery.  The initial states pick  *)
(* one of the thirteen components, and the shared variables v1, v2, ...    *)
(* hold the state of the picked one (FsStore keeps variables of its own).  *)
(* The constants are those of the components, under names of their own.    *)
(***************************************************************************)
EXTENDS Integers, Sequences, FiniteSets, TLC

CONSTANTS
  None,
  StoreCallers, StoreKeys, StoreTags, StoreRoutes, StoreEntries, StoreOps,   \* FsStore
  CacheCallers, CacheRequests, CacheRequestOf, FnLinks, CacheVersions,       \* RuntimeCache
  MemoCallers, MemoUrls, MemoTags, MemoVersions,                             \* RequestMemo
  Actions, Targets, Linked, Tracks, Closure,                                 \* ServerActions
  Drainers, QueuedActions, EmptyDrains,                                      \* ActionQueue
  Pool, PoolPages, PoolPaths,                                                \* Routing
  Kinds, RootFiles, RouteFiles, Prerendered,                                 \* ServerRequest
  Definitions, EnginePaths, Asks,                                            \* MiddlewareEngine
  LimiterKeys, Limit, Window, LimiterTime, LimiterRequests,                  \* RateLimiter
  Servers, Settings, MaxPort, MaxAttempts, MaxMoves,                         \* ServerListening
  WorkerRequests, MaxPings,                                                  \* WorkerProcess
  FlightPool, FlightPages, FlightPaths, Locales, Default, Accepted, FlightChunks,  \* FlightEndpoint
  Writers, CookieNames, Gone, CookieOps, BodyChunks                          \* ResponseDelivery

VARIABLES
  which, v1, v2, v3, v4, v5, v6, v7, v8, v9, v10, v11, v12, v13,
  kind, file, tmp, index, itmp, op, ops

shared == <<v1, v2, v3, v4, v5, v6, v7, v8, v9, v10, v11, v12, v13>>
own == <<kind, file, tmp, index, itmp, op, ops>>
all == <<which, shared, own>>

\* The variables that a component does not use.
from5 == <<v5, v6, v7, v8, v9, v10, v11, v12, v13>>
from6 == <<v6, v7, v8, v9, v10, v11, v12, v13>>
from8 == <<v8, v9, v10, v11, v12, v13>>
from9 == <<v9, v10, v11, v12, v13>>
from10 == <<v10, v11, v12, v13>>
from12 == <<v12, v13>>
\* And what they hold.
Unused12 == v12 = 0 /\ v13 = 0
Unused10 == v10 = 0 /\ v11 = 0 /\ Unused12
Unused9 == v9 = 0 /\ Unused10
Unused8 == v8 = 0 /\ Unused9
Unused6 == v6 = 0 /\ v7 = 0 /\ Unused8
Unused5 == v5 = 0 /\ Unused6
Unused1 == v1 = 0 /\ v2 = 0 /\ v3 = 0 /\ v4 = 0 /\ Unused5
\* FsStore rests while another component is picked.
AtRest == kind = "route"

FS == INSTANCE FsStore WITH
  Procs <- StoreCallers, Keys <- StoreKeys, Tags <- StoreTags, Routes <- StoreRoutes,
  Entries <- StoreEntries, MaxOps <- StoreOps
RC == INSTANCE RuntimeCache WITH
  origin <- v1, fn <- v2, data <- v3, store <- v4, memo <- v5, call <- v6,
  alone <- v7, cleared <- v8, floor <- v9, Callers <- CacheCallers,
  Requests <- CacheRequests, RequestOf <- CacheRequestOf, MaxVersion <- CacheVersions
RM == INSTANCE RequestMemo WITH
  origin <- v1, hints <- v2, memo <- v3, tagMap <- v4, call <- v5, raced <- v6,
  floor <- v7, Callers <- MemoCallers, Urls <- MemoUrls, Tags <- MemoTags,
  MaxVersion <- MemoVersions
SA == INSTANCE ServerActions WITH
  pc <- v1, stack <- v2, tracked <- v3, busy <- v4, summary <- v5, did <- v6,
  owed <- v7, alone <- v8
AQ == INSTANCE ActionQueue WITH
  queue <- v1, inFlight <- v2, current <- v3, posted <- v4, status <- v5, log <- v6,
  drain <- v7, returned <- v8, MaxActions <- QueuedActions
RT == INSTANCE Routing WITH
  pages <- v1, path <- v2, intercept <- v3, answer <- v4, MaxPages <- PoolPages,
  Paths <- PoolPaths
SR == INSTANCE ServerRequest WITH
  kind <- v1, file <- v2, layer <- v3, stack <- v4, value <- v5, at <- v6, ran <- v7,
  handled <- v8, sent <- v9
ME == INSTANCE MiddlewareEngine WITH
  path <- v1, asks <- v2, at <- v3, ran <- v4, outcome <- v5, Paths <- EnginePaths
RL == INSTANCE RateLimiter WITH
  now <- v1, store <- v2, state <- v3, lost <- v4, Keys <- LimiterKeys,
  MaxTime <- LimiterTime, MaxRequests <- LimiterRequests
SL == INSTANCE ServerListening WITH
  setting <- v1, phase <- v2, port <- v3, tries <- v4, held <- v5, quiet <- v6,
  moves <- v7
WP == INSTANCE WorkerProcess WITH
  state <- v1, drain <- v2, handler <- v3, mutex <- v4, globals <- v5, replies <- v6,
  pings <- v7, Requests <- WorkerRequests
FE == INSTANCE FlightEndpoint WITH
  pages <- v1, path <- v2, intercept <- v3, accept <- v4, doc <- v5, step <- v6,
  flight <- v7, source <- v8, wire <- v9, written <- v10, full <- v11,
  Pool <- FlightPool, MaxPages <- FlightPages, Paths <- FlightPaths, MaxChunks <- FlightChunks
RD == INSTANCE ResponseDelivery WITH
  writer <- v1, client <- v2, before <- v3, jar <- v4, store <- v5, pending <- v6,
  lines <- v7, ops <- v8, body <- v9, source <- v10, sent <- v11, phase <- v12,
  wire <- v13, Names <- CookieNames, MaxOps <- CookieOps, MaxChunks <- BodyChunks

\* The routes are sequences of directories and the paths of segments.
ASSUME RoutesAssumption ==
  /\ RT!WellFormed /\ \A t \in PoolPaths : t \in Seq(RT!Range(t))
  /\ FE!Router!WellFormed
\* None is no number, no caller and nothing that a memo keeps.
ASSUME NoneAssumption ==
  /\ None \notin Nat /\ None \notin CacheCallers \cup MemoCallers
  /\ None \notin RC!Promises /\ None \notin RM!Memos
\* Each caller runs in one request.
ASSUME RequestAssumption == CacheRequestOf \in [CacheCallers -> CacheRequests]
\* The invocations of actions are finitely many; the manifest links targets to them, and a
\* target is resolved to targets.
ASSUME ActionAssumption ==
  /\ IsFiniteSet(Actions)
  /\ Linked \in [Actions -> SUBSET Targets] /\ Closure \in [Targets -> SUBSET Targets]

\* None is no entry, no index and no request of the store.
ASSUME StoreAssumption ==
  /\ None \notin StoreEntries \cup FS!Indexes \cup FS!Store!Requests /\ StoreOps \in Nat
  /\ \A e \in StoreEntries : e.tags \subseteq StoreTags
\* Servers are started, with ports that are numbers, and each may try a port at least.
ASSUME ListeningAssumption ==
  /\ Servers # {} /\ MaxPort \in Nat \ {0} /\ MaxAttempts \in Nat \ {0} /\ MaxMoves \in Nat
  /\ \A c \in Settings :
       {c.option, c.env, c.devPort, c.startPort, c.appPort, c.runtimePort} \subseteq Nat \cup {None}
\* The writers are those of the framework, and a cookie that is gone has no value.
ASSUME DeliveryAssumption ==
  /\ Writers \subseteq {"node", "web", "server"} /\ Gone \notin RD!Values
  /\ CookieOps \in Nat /\ BodyChunks \in Nat

\* The limit and the window of a rule are numbers.
ASSUME LimiterAssumption ==
  /\ LimiterKeys # {} /\ Limit \in Nat /\ Window \in Nat
  /\ LimiterTime \in Nat /\ LimiterRequests \in Nat
\* The middleware files of the root are different files, and so are those of a route.
ASSUME ChainAssumption ==
  /\ RootFiles \in Seq(SR!Files) /\ RouteFiles \in Seq(SR!Files)
  /\ SR!IsInjective(RootFiles) /\ SR!IsInjective(RouteFiles)
\* Matchers are written in the notations of patternToRegex.
ASSUME EngineAssumption ==
  /\ Definitions \in Seq(ME!Range(Definitions))
  /\ \A d \in DOMAIN Definitions : Definitions[d].priority \in Int
  /\ \A d \in DOMAIN Definitions : \A pattern \in Definitions[d].matcher :
       /\ pattern \in Seq(ME!Range(pattern))
       /\ \A i \in DOMAIN pattern : pattern[i].is \in {"literal"} \cup ME!Notations
  /\ \A p \in EnginePaths : p \in Seq(ME!Range(p))
  /\ Asks \subseteq {"next", "redirect", "rewrite", "nothing", "throw"}

Init ==
  /\ FS!Init
  /\ \/ which = "files" /\ Unused1
     \/ which = "runtime" /\ RC!Init /\ Unused10 /\ AtRest
     \/ which = "memo" /\ RM!Init /\ Unused8 /\ AtRest
     \/ which = "actions" /\ SA!Init /\ Unused9 /\ AtRest
     \/ which = "queue" /\ AQ!Init /\ Unused9 /\ AtRest
     \/ which = "routing" /\ RT!Init /\ Unused5 /\ AtRest
     \/ which = "request" /\ SR!Init /\ Unused10 /\ AtRest
     \/ which = "engine" /\ ME!Init /\ Unused6 /\ AtRest
     \/ which = "limiter" /\ RL!Init /\ Unused5 /\ AtRest
     \/ which = "listening" /\ SL!Init /\ Unused8 /\ AtRest
     \/ which = "worker" /\ WP!Init /\ Unused8 /\ AtRest
     \/ which = "flight" /\ FE!Init /\ Unused12 /\ AtRest
     \/ which = "delivery" /\ RD!Init /\ AtRest

Next ==
  \/ which = "files" /\ FS!Next /\ UNCHANGED <<which, shared>>
  \/ which = "runtime" /\ RC!Next /\ UNCHANGED <<which, from10, own>>
  \/ which = "memo" /\ RM!Next /\ UNCHANGED <<which, from8, own>>
  \/ which = "actions" /\ SA!Next /\ UNCHANGED <<which, from9, own>>
  \/ which = "queue" /\ AQ!Next /\ UNCHANGED <<which, from9, own>>
  \/ which = "routing" /\ RT!Next /\ UNCHANGED <<which, from5, own>>
  \/ which = "request" /\ SR!Next /\ UNCHANGED <<which, from10, own>>
  \/ which = "engine" /\ ME!Next /\ UNCHANGED <<which, from6, own>>
  \/ which = "limiter" /\ RL!Next /\ UNCHANGED <<which, from5, own>>
  \/ which = "listening" /\ SL!Next /\ UNCHANGED <<which, from8, own>>
  \/ which = "worker" /\ WP!Next /\ UNCHANGED <<which, from8, own>>
  \/ which = "flight" /\ FE!Next /\ UNCHANGED <<which, from12, own>>
  \/ which = "delivery" /\ RD!Next /\ UNCHANGED <<which, own>>

Spec == Init /\ [][Next]_all

\* The fairness of each component, as in its module.
Fairness ==
  /\ \A r \in WorkerRequests : WF_all(which = "worker" /\ WP!StartRender(r) /\ UNCHANGED <<which, from8, own>>)
  /\ \A r \in WorkerRequests : WF_all(which = "worker" /\ WP!Ends(r) /\ UNCHANGED <<which, from8, own>>)
  /\ WF_all(which = "flight" /\ FE!Pump /\ UNCHANGED <<which, from12, own>>)
  /\ WF_all(which = "flight" /\ FE!PumpEnds /\ UNCHANGED <<which, from12, own>>)
  /\ WF_all(which = "flight" /\ FE!Drain /\ UNCHANGED <<which, from12, own>>)
  /\ WF_all(which = "flight" /\ FE!Closed /\ UNCHANGED <<which, from12, own>>)
  /\ WF_all(which = "delivery" /\ RD!Send /\ UNCHANGED <<which, own>>)
  /\ WF_all(which = "delivery" /\ RD!SourceEnds /\ UNCHANGED <<which, own>>)
FairSpec == Spec /\ Fairness

\* At rest tags.json covers every tagged entry (one caller at a time).
FS_IndexCovers == FS!IndexCovers
\* The files implement the abstract store.
FS_ImplementsStore == FS!ImplementsStore
\* An invalidation that no read overlapped is final.
RC_LoneInvalidationHolds == which = "runtime" => RC!LoneInvalidationHolds
\* One request asks the origin at most once at a time.
RC_OneFetchPerRequest == which = "runtime" => RC!OneFetchPerRequest
\* A memo that was cleared does not answer with what it held.
RM_ClearedStaysCleared == which = "memo" => RM!ClearedStaysCleared
\* A render asks the network once for a url.
RM_OneFetchPerUrl == which = "memo" => RM!OneFetchPerUrl
\* Every tag of a fetch reaches its memo.
RM_TagsReachTheMemo == which = "memo" => RM!TagsReachTheMemo
\* One tracker for each body that runs.
SA_OneTrackerPerBody == which = "actions" => SA!OneTrackerPerBody
\* An action that overlapped no other reports what it revalidated by path or tag.
SA_AloneReportsItsOwn == which = "actions" => SA!AloneReportsItsOwn
\* Its reply finds nothing it wrote cached as it was, the persistent store excepted.
SA_AloneLeavesNothingStale == which = "actions" => SA!AloneLeavesNothingStale
\* A drain of a queue that was not empty waits for all of it.
AQ_DrainSettlesAll == which = "queue" => AQ!DrainSettlesAll
\* Actions run one at a time, in order.
AQ_RunsInOrder == which = "queue" => AQ!RunsInOrder
\* What the hook reports is what happens.
AQ_StatusIsTrue == which = "queue" => AQ!StatusIsTrue
\* A match covers the path it answers.
RT_AnswerCovers == which = "routing" => RT!AnswerCovers
\* The order in which pages were found does not decide.
RT_OrderDoesNotMatter == which = "routing" => RT!OrderDoesNotMatter
\* A page of exactly that path wins.
RT_ExactPageWins == which = "routing" => RT!ExactPageWins
\* A slot conflicts with no page.
RT_SlotsAreTheirOwn == which = "routing" => RT!SlotsAreTheirOwn
\* The adapters' matcher agrees where it knows the segments.
RT_AdapterAgrees == which = "routing" => RT!AdapterAgrees
\* Each request is answered once.
SR_AnsweredOnce == which = "request" => SR!AnsweredOnce
\* No middleware runs twice for a request.
SR_NothingRunsTwice == which = "request" => SR!NothingRunsTwice
\* What a middleware answers is final.
SR_AnswerStopsTheChain == which = "request" => SR!AnswerStopsTheChain
\* A higher priority runs first, equal ones in their order.
ME_HigherFirst == which = "engine" => ME!HigherFirst
\* A matcher takes the paths its pattern says.
ME_TakesWhatItSays == which = "engine" => ME!TakesWhatItSays
\* No window holds more than Limit requests of a key.
RL_WindowHolds == which = "limiter" => RL!WindowHolds
\* A request is refused only by requests in its window.
RL_RefusalIsNeeded == [][which = "limiter" => RL!RefusalIsNeeded]_all
\* A start that overlaps no other finds its port.
SL_LoneStartListens == which = "listening" => SL!LoneStartListens
\* Of two starts that overlap one listens.
SL_SomeStartListens == which = "listening" => SL!SomeStartListens
\* A worker that says it is free is.
WP_FreeMeansFree == which = "worker" => WP!FreeMeansFree
\* One render at a time has the globals.
WP_OneRenderAtATime == which = "worker" => WP!OneRenderAtATime
\* Each render message that was taken comes to its turn, and is answered once its components
\* have been resolved.
WP_EveryRenderIsAnswered ==
  \A r \in WorkerRequests :
    /\ (which = "worker" /\ WP!Waiting(r)) ~> (which = "worker" /\ ~WP!Waiting(r))
    /\ (which = "worker" /\ WP!Rendering(r)) ~> (which = "worker" /\ WP!Answered(r))
\* The flight of a page is the flight of that page.
FE_FlightFindsThePage == which = "flight" => FE!FlightFindsThePage
\* A response that ends is whole.
FE_EndedIsWhole == which = "flight" => FE!EndedIsWhole
\* A render that streams is let go.
FE_EveryRenderIsLetGo ==
  (which = "flight" /\ FE!Streaming) ~> (which = "flight" /\ FE!LetGo)
\* The browser has the cookies the handler saw.
RD_JarFollowsTheStore == which = "delivery" => RD!JarFollowsTheStore
\* A cookie arrives whatever writes it, but where its header line is spoilt.
RD_CookiesArrive == which = "delivery" => RD!CookiesArrive
\* A send that succeeded brought the whole stream.
RD_SettledIsWhole == which = "delivery" => RD!SettledIsWhole
\* While the browser stays, every send settles.
RD_EverySendSettles ==
  [](which = "delivery" /\ RD!Stays) => <>(which = "delivery" /\ RD!Over)
-----------------------------------------------------------------------------
\* The cache on disk behaves as the store of CacheStore, and its tag index never forgets a
\* tagged entry (one caller at a time).
FilesKeepTheStore ==
  /\ []FS_IndexCovers
  /\ FS_ImplementsStore

\* What an invalidation dropped does not come back: from a read it did not overlap, from a
\* memo, or to the reply of the action that asked for it, except out of the persistent store,
\* which an invalidation outside a request context does not reach; and every tag of a fetch
\* reaches what is memoized of it.
InvalidationsHold ==
  /\ RC_LoneInvalidationHolds
  /\ RM_ClearedStaysCleared
  /\ RM_TagsReachTheMemo
  /\ SA_AloneLeavesNothingStale

\* Callers that ask for one thing at one time share one fetch of it.
OneFetchAtATime ==
  /\ RC_OneFetchPerRequest
  /\ RM_OneFetchPerUrl

\* What an action revalidated by path or tag is reported by it and by no other, and what the action queue
\* says of its actions is what happened to them, in the order they were enqueued.
ActionsAreReported ==
  /\ SA_OneTrackerPerBody
  /\ SA_AloneReportsItsOwn
  /\ AQ_DrainSettlesAll
  /\ AQ_RunsInOrder
  /\ AQ_StatusIsTrue

\* Those who match a path to a page agree: the matcher with the pattern of the page it
\* answers, with itself on any order of the pages, the adapters' matcher with the router's,
\* the two flight endpoints with the page, and slots with the pages beside them.
MatchesAgree ==
  /\ RT_AnswerCovers
  /\ RT_OrderDoesNotMatter
  /\ RT_ExactPageWins
  /\ RT_SlotsAreTheirOwn
  /\ RT_AdapterAgrees
  /\ FE_FlightFindsThePage

\* A request is answered once, and its middleware runs once each, in order of priority, on
\* the paths it asks for, up to the one that answers.
AnsweredOnce ==
  /\ SR_AnsweredOnce
  /\ SR_NothingRunsTwice
  /\ SR_AnswerStopsTheChain
  /\ ME_HigherFirst
  /\ ME_TakesWhatItSays

\* The limiter lets no more than its limit into a window, and refuses none that it need
\* not.
LimitIsExact ==
  /\ []RL_WindowHolds
  /\ RL_RefusalIsNeeded

\* A server that starts alone listens, and of two that start together one does.
StartsListen ==
  /\ SL_LoneStartListens
  /\ SL_SomeStartListens

\* A worker process is free when it says so, and renders one request at a time.
WorkerTellsTheTruth ==
  /\ WP_FreeMeansFree
  /\ WP_OneRenderAtATime

\* A response that ends, or is said to have been sent, is the whole one, with the cookies of
\* the default path that the handler sees in its store, and each cookie it set or wrote, but
\* for two header lines and a line beside cookies.
ResponsesAreWhole ==
  /\ FE_EndedIsWhole
  /\ RD_SettledIsWhole
  /\ RD_JarFollowsTheStore
  /\ RD_CookiesArrive

\* Every render message is answered once its components have been resolved, a render whose
\* stream is pumped is let go unless the browser was gone before, and while the browser stays
\* every send settles.
EverythingSettles ==
  /\ WP_EveryRenderIsAnswered
  /\ FE_EveryRenderIsLetGo
  /\ RD_EverySendSettles
-----------------------------------------------------------------------------
(* For TLC: the values that Serving.cfg gives the constants.               *)
\* Pages over every kind of segment, some of which match the same path.
SomePages ==
  <<<<[kind |-> "static", sem |-> "static", name |-> "shop", marker |-> "-"]>>,
    <<[kind |-> "dynamic", sem |-> "dynamic", name |-> "id", marker |-> "-"]>>,
    <<[kind |-> "dynamic", sem |-> "dynamic", name |-> "slug", marker |-> "-"]>>,
    <<[kind |-> "catchall", sem |-> "catchall", name |-> "c", marker |-> "-"]>>,
    <<[kind |-> "static", sem |-> "static", name |-> "shop", marker |-> "-"],
      [kind |-> "optional", sem |-> "optional", name |-> "o", marker |-> "-"]>>,
    <<[kind |-> "static", sem |-> "group", name |-> "g", marker |-> "-"],
      [kind |-> "static", sem |-> "static", name |-> "shop", marker |-> "-"]>>,
    <<[kind |-> "static", sem |-> "parallel", name |-> "m", marker |-> "-"],
      [kind |-> "static", sem |-> "static", name |-> "shop", marker |-> "-"]>>,
    <<[kind |-> "static", sem |-> "static", name |-> "shop", marker |-> "-"],
      [kind |-> "static", sem |-> "parallel", name |-> "m", marker |-> "-"]>>,
    <<[kind |-> "static", sem |-> "parallel", name |-> "m", marker |-> "-"],
      [kind |-> "dynamic", sem |-> "dynamic", name |-> "id", marker |-> "-"]>>,
    <<[kind |-> "static", sem |-> "intercepting", name |-> "shop", marker |-> "(.)"]>>,
    <<[kind |-> "static", sem |-> "static", name |-> "shop", marker |-> "-"],
      [kind |-> "dynamic", sem |-> "dynamic", name |-> "id", marker |-> "-"]>>>>
SomePaths == {<<>>, <<"shop">>, <<"shop", "x">>, <<"x">>}

\* Pages of two locales, an intercepting page and a slot.
LocalePages ==
  <<<<[kind |-> "static", sem |-> "static", name |-> "shop", marker |-> "-"]>>,
    <<[kind |-> "dynamic", sem |-> "dynamic", name |-> "id", marker |-> "-"]>>,
    <<[kind |-> "static", sem |-> "static", name |-> "fr", marker |-> "-"],
      [kind |-> "static", sem |-> "static", name |-> "shop", marker |-> "-"]>>,
    <<[kind |-> "static", sem |-> "intercepting", name |-> "shop", marker |-> "(.)"]>>,
    <<[kind |-> "static", sem |-> "static", name |-> "shop", marker |-> "-"],
      [kind |-> "static", sem |-> "parallel", name |-> "m", marker |-> "-"]>>>>
LocalePaths == {<<"shop">>, <<"fr", "shop">>, <<"fr", "fr", "shop">>}
\* No header, and one whose language, not whose tag, is a locale.
SomeLanguages == {<<>>, <<[tag |-> "de", lang |-> "de"], [tag |-> "fr-CA", lang |-> "fr"]>>}

\* Two definitions of one priority, one below and one above, and matchers with each parameter.
SomeDefinitions ==
  <<[priority |-> 1, matcher |-> {<<[is |-> "literal", segment |-> [name |-> "blog", plussed |-> FALSE]]>>,
                                 <<[is |-> "literal", segment |-> [name |-> "blog", plussed |-> FALSE]],
                                   [is |-> "[slug]"]>>}],
    [priority |-> 2, matcher |-> {<<[is |-> ":path*"]>>}],
    [priority |-> 1, matcher |-> {<<[is |-> "literal", segment |-> [name |-> "blog", plussed |-> FALSE]],
                                   [is |-> "[...slug]"]>>}],
    [priority |-> 3, matcher |-> {<<[is |-> "literal", segment |-> [name |-> "blog", plussed |-> FALSE]],
                                   [is |-> ":path+"]>>,
                                 <<[is |-> "[slug]"],
                                   [is |-> "literal", segment |-> [name |-> "x", plussed |-> FALSE]]>>}]>>
RequestPaths ==
  {<<>>, <<[name |-> "blog", plussed |-> FALSE]>>, <<[name |-> "x", plussed |-> FALSE]>>,
   <<[name |-> "blog", plussed |-> FALSE], [name |-> "x", plussed |-> FALSE]>>,
   <<[name |-> "blog", plussed |-> FALSE], [name |-> "x", plussed |-> TRUE]>>,
   <<[name |-> "blog", plussed |-> FALSE], [name |-> "x", plussed |-> FALSE],
     [name |-> "blog", plussed |-> FALSE]>>}

\* Ports given in the different places a start looks at, with and without a fallback.
SomeSettings ==
  {[mode |-> "development", option |-> None, env |-> None, devPort |-> None, startPort |-> 3,
    appPort |-> None, runtimePort |-> 1, fallback |-> TRUE],
   [mode |-> "production", option |-> None, env |-> None, devPort |-> 2, startPort |-> None,
    appPort |-> None, runtimePort |-> None, fallback |-> FALSE],
   [mode |-> "production", option |-> None, env |-> 0, devPort |-> None, startPort |-> 2,
    appPort |-> None, runtimePort |-> None, fallback |-> TRUE],
   [mode |-> "production", option |-> 2, env |-> 0, devPort |-> None, startPort |-> 1,
    appPort |-> None, runtimePort |-> None, fallback |-> TRUE]}
\* Middleware files at the root, and of a route below an area.
AtTheRoot == <<"root">>
OfTheRoute == <<"root", "area", "leaf">>
AllKinds ==
  {"debug", "asset", "action", "flight", "handler", "page", "none", "malformed"}
AllAsks == {"next", "redirect", "rewrite", "nothing", "throw"}
\* Two callers of one request, and one of another.
RequestOfThree == [c \in {"c1", "c2", "c3"} |-> IF c = "c3" THEN "r2" ELSE "r1"]
\* An entry with a tag, one with two and a route, and one that only a route finds.
SomeEntries == {[tags |-> {"t1"}, routes |-> {}], [tags |-> {"t1", "t2"}, routes |-> {"r1"}],
                [tags |-> {}, routes |-> {"r1"}]}
\* The manifest links a target of its own to each action; the first drags the second along.
LinkedToOne == [x \in {"a1", "a2"} |-> IF x = "a1" THEN {"t1"} ELSE {"t2"}]
Drags == [t \in {"t1", "t2"} |-> IF t = "t1" THEN {"t1", "t2"} ELSE {"t2"}]
=============================================================================
