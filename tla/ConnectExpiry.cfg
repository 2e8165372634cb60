\* The expiry sweep against re-authorization and refresh, under fairness; no symmetry, which
\* liveness checking does not allow.
SPECIFICATION FairSpec
CONSTANTS
  Users = {u1}
  Sessions = {s1}
  Txns = {t1, t2}
  Callbacks = {c1}
  Attempts = {a1}
  None = None
  MaxRows = 2
  MaxCreds = 2
  MaxTries = 2
  MaxFaults = 1
  ShortLived = TRUE
  MaxChanges = 0
  MaxToggles = 0
CHECK_DEADLOCK FALSE
PROPERTIES
  OverdueIsResolved
  NoSpuriousExpiry
  KeepsContract
