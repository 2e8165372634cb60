\* A worker dies in the middle of a refresh, with the five attempts of the code.
SPECIFICATION Spec
CONSTANTS
  Users = {u1}
  Sessions = {s1}
  Txns = {t1}
  Callbacks = {c1}
  Attempts = {a1}
  None = None
  MaxRows = 1
  MaxCreds = 2
  MaxTries = 5
  MaxFaults = 1
  ShortLived = FALSE
  MaxChanges = 0
  MaxToggles = 0
CHECK_DEADLOCK FALSE
INVARIANT
  RefreshIsCovered
