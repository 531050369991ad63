SPECIFICATION Spec
CONSTANTS
  None = None
  PageForms <- SomePages
  Markups <- SomeMarkups
  Assets <- SomeAssets
  Islands <- SomeIslands
  Registry <- SomeRegistry
  PageVersions = 2
  PoolRoutes = {"r1", "r2"}
  Dirs <- SomeDirs
  DefaultKey = "default"
  CacheMax = 1
  Ttl = 1
  PoolTime = 2
  MaxPools = 2
  Callers = {"c1", "c2"}
  Workers = {"w1", "w2"}
  Visits = {"x1", "x2"}
  Urls = {"a", "b"}
  MaxEntries = 2
  Graphs <- SomeGraphs
  Changed = "f1"
  Instances = {"i1"}
  States = {"s1", "s2"}
  Reloads = {"x1", "x2"}
  MaxDisk = 3
  Clients = {"c1"}
  Data = {"i1"}
  Components = {"k1", "k2"}
  Routes = {"x1"}
  MaxLinks = 3
  Actions = {"x1", "x2", "x3"}
  OwnRollback = {"x1", "x2"}
  MaxApplies = 3
  Replays = {"x1", "x2"}
  Metrics <- SomeMetrics
  Objectives = {"latency", "cost"}
  MeshTime = 1
  MaxMade = 1
INVARIANTS
  PageIsConsistent
  PoolsAndModulesAreShared
  BrowserIsUpToDate
  PatchesAndPoliciesHold
CHECK_DEADLOCK FALSE
