\* One user and one worker, while the tenant changes the tool policy.
SPECIFICATION Spec
CONSTANTS
  Users = {u1}
  Sessions = {s1}
  Txns = {t1, t2}
  Callbacks = {c1}
  Attempts = {a1}
  None = None
  MaxRows = 1
  MaxCreds = 3
  MaxTries = 1
  MaxFaults = 0
  ShortLived = FALSE
  MaxChanges = 1
  MaxToggles = 0
SYMMETRY Symmetry
CHECK_DEADLOCK FALSE
INVARIANTS
  IInv
