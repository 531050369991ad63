SPECIFICATION QueueSpec
CONSTANTS
  Request = {r1, r2, r3}
  NONE = NONE
  Band = {0, 1, 2, 3, 4}
  UsedBand = {1, 2}
INVARIANTS TimedOutIsNeverServed
