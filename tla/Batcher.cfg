SPECIFICATION Spec
CONSTANTS
  Names = {m1, m2}
  TagLists <- SomeTagLists
  Hosts = {h1}
  NoHost = nohost
  MaxMetrics = 3
INVARIANT GroupedUnlessCollision
