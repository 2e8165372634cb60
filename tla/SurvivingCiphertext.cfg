\* A refresh in flight while a policy change expires the connection.
SPECIFICATION Spec
CONSTANTS
  Users = {u1}
  Sessions = {s1}
  Txns = {t1}
  Callbacks = {c1}
  Attempts = {a1}
  None = None
  MaxRows = 1
  MaxCreds = 2
  MaxTries = 2
  MaxFaults = 0
  ShortLived = FALSE
  MaxChanges = 1
  MaxToggles = 0
CHECK_DEADLOCK FALSE
INVARIANT
  ExpiredHasNoCiphertext
