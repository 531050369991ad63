SPECIFICATION Spec
CONSTANTS
  NONE = NONE
  Request = {r1, r2, r3}
  Slot = {s1, s2}
  Closers = {c1}
  Band = {0, 1, 2, 3, 4}
  Streaming = {r1}
  WorkerCount = 1
  MaxQueueDepth = 2
  MaxRequestsPerWorker = 2
  Shared = TRUE
  SpawnMayFail = TRUE
SYMMETRY Symmetry
INVARIANTS TypeOK RenderedByOne EveryPromiseHasAKeeper PoolKeepsItsSize WorkIsNotHeldBack
