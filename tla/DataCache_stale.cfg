SPECIFICATION Spec
CONSTANTS
  Key = {k1}
  Tag = {t1}
  TagsOf <- OneUntagged
  Client = {c1, c2}
  Capacity = 1
  Backends = {"memory"}
  Mortal = {1}
  MaxVersion = 1
  MaxGeneration = 1
INVARIANTS NoStaleRead
