SPECIFICATION Spec
CONSTANTS
  NONE = NONE
  Request = {r1}
  Slot = {s1, s2}
  Closers = {}
  Band = {0, 1, 2, 3, 4}
  Streaming = {}
  WorkerCount = 1
  MaxQueueDepth = 1
  MaxRequestsPerWorker = 1
  Shared = TRUE
  SpawnMayFail = FALSE
SYMMETRY Symmetry
INVARIANTS PoolIsNeverOversized
