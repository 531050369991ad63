SPECIFICATION Spec
CONSTANTS
  Key = {k1, k2, k3}
  Tag = {t1}
  TagsOf <- OneUntagged
  Client = {c1, c2}
  Capacity = 2
  Backends = {"none", "memory", "json"}
  Mortal = {1}
  MaxVersion = 3
  MaxGeneration = 1
SYMMETRY Alike
INVARIANTS L1IsSound L1HitIsFresh
