SPECIFICATION FairSpec
CONSTANTS
  Tools = {t1}
  Lookups = {}
  Writers = {w1}
  MaxChanges = 1
  Servers = {live}
  Dead = {}
  BatchSize = 2
  MaxCrashes = 0
  Members = {ann}
  Petitions = {}
  NumPairs = 0
  Refusing = {}
  PairBatch = 1
  Jobs = {}
  MaxDeaths = 0
  Counters = {}
  PerCounter = 0
  Flushes = {}
  Signals = {}
  Stems = {}
  Declared = {}
  ReadOnly = {}
  Mapped = {}
  DirectToo = TRUE
  Calls = {}
  MaxCreds = 0
PROPERTIES SwitchedOffIsUnlisted
CHECK_DEADLOCK FALSE
