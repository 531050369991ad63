SPECIFICATION FairSpec
CONSTANTS
  None = None
  StoreCallers = {"p"}
  StoreKeys = {"ka", "kb"}
  StoreTags = {"t1", "t2"}
  StoreRoutes = {"r1"}
  StoreEntries <- SomeEntries
  StoreOps = 4
  CacheCallers = {"c1", "c2", "c3"}
  CacheRequests = {"r1", "r2"}
  CacheRequestOf <- RequestOfThree
  FnLinks = {"tag"}
  CacheVersions = 2
  MemoCallers = {"c1", "c2"}
  MemoUrls = {"u1"}
  MemoTags = {"t1", "t2"}
  MemoVersions = 3
  Actions = {"a1", "a2"}
  Targets = {"t1", "t2"}
  Linked <- LinkedToOne
  Tracks = {"a1"}
  Closure <- Drags
  Drainers = {"d1", "d2"}
  QueuedActions = 3
  EmptyDrains = FALSE
  Pool <- SomePages
  PoolPages = 3
  PoolPaths <- SomePaths
  Kinds <- AllKinds
  RootFiles <- AtTheRoot
  RouteFiles <- OfTheRoute
  Prerendered = {TRUE, FALSE}
  Definitions <- SomeDefinitions
  EnginePaths <- RequestPaths
  Asks <- AllAsks
  LimiterKeys = {"k1", "k2"}
  Limit = 2
  Window = 2
  LimiterTime = 3
  LimiterRequests = 4
  Servers = {"s1", "s2"}
  Settings <- SomeSettings
  MaxPort = 3
  MaxAttempts = 2
  MaxMoves = 1
  WorkerRequests = {"r1", "r2", "r3"}
  MaxPings = 1
  FlightPool <- LocalePages
  FlightPages = 2
  FlightPaths <- LocalePaths
  Locales = {"fr", "en"}
  Default = "en"
  Accepted <- SomeLanguages
  FlightChunks = 2
  Writers = {"node", "web", "server"}
  CookieNames = {"session", "theme"}
  Gone = "gone"
  CookieOps = 2
  BodyChunks = 1
INVARIANTS
  InvalidationsHold
  OneFetchAtATime
  ActionsAreReported
  MatchesAgree
  AnsweredOnce
  StartsListen
  WorkerTellsTheTruth
  ResponsesAreWhole
PROPERTIES
  FilesKeepTheStore
  LimitIsExact
  EverythingSettles
CHECK_DEADLOCK FALSE
