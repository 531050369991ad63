SPECIFICATION FairSpec
CONSTANTS
  NONE = NONE
  Request = {r1, r2}
  Slot = {s1, s2}
  Closers = {c1}
  Band = {0, 1, 2, 3, 4}
  Streaming = {}
  WorkerCount = 1
  MaxQueueDepth = 1
  MaxRequestsPerWorker = 1
  Shared = FALSE
  SpawnMayFail = TRUE
PROPERTY EveryRenderSettles
