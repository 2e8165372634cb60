\* A redirect minted under the full policy comes back after the change to read_only.
SPECIFICATION Spec
CONSTANTS
  Users = {u1}
  Sessions = {s1}
  Txns = {t1}
  Callbacks = {c1}
  Attempts = {}
  None = None
  MaxRows = 1
  MaxCreds = 2
  MaxTries = 2
  MaxFaults = 0
  ShortLived = FALSE
  MaxChanges = 2
  MaxToggles = 0
CHECK_DEADLOCK FALSE
INVARIANT
  NoStaleGrant
