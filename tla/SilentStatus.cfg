\* A policy change that expires a connection, or a code exchange that fails: no event is written.
SPECIFICATION Spec
CONSTANTS
  Users = {u1}
  Sessions = {s1}
  Txns = {t1, t2}
  Callbacks = {c1}
  Attempts = {}
  None = None
  MaxRows = 1
  MaxCreds = 2
  MaxTries = 2
  MaxFaults = 0
  ShortLived = FALSE
  MaxChanges = 1
  MaxToggles = 0
CHECK_DEADLOCK FALSE
PROPERTY
  StatusChangesPublished
