SPECIFICATION FairSpec
CONSTANTS
  Tools = {t1}
  Lookups = {l1}
  Writers = {w1}
  MaxChanges = 1
  Servers = {dead, live}
  Dead = {dead}
  BatchSize = 2
  MaxCrashes = 1
  Members = {ann, ben}
  Petitions = {p1, p2}
  NumPairs = 3
  Refusing = {1, 3}
  PairBatch = 2
  Jobs = {j1, j2}
  MaxDeaths = 1
  Counters = {c1, c2}
  PerCounter = 2
  Flushes = {f1, f2}
  Signals = {SIGINT, SIGTERM}
  Stems = {"view", "edit"}
  Declared = {"view", "edit"}
  ReadOnly = {"view"}
  Mapped = {"edit"}
  DirectToo = TRUE
  Calls = {call1}
  MaxCreds = 2
INVARIANTS WorkspaceIInv ServicesAreCurrent OwnerRemains DatedIsOffered CountedOnce OnlyExcusedAreLost RunsOnce LeaseIsFresh ReadOnlyRunsReviewed
PROPERTIES CachesCatchUp LiveIsVerified FirstAreVerified
CHECK_DEADLOCK FALSE
