SPECIFICATION QueueSpec
CONSTANTS
  Request = {r1, r2, r3, r4}
  NONE = NONE
  Band = {0, 1, 2, 3, 4}
  UsedBand = {0, 1, 2}
INVARIANTS QueueIsSound
PROPERTIES ServedOnce ImplementsLines
