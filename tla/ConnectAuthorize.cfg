\* Re-authorization and disconnect of one user, two browser flows at a time, under a tenant
\* that changes the policy; no worker.
SPECIFICATION Spec
CONSTANTS
  Users = {u1}
  Sessions = {s1, s2}
  Txns = {t1, t2}
  Callbacks = {c1, c2}
  Attempts = {}
  None = None
  MaxRows = 2
  MaxCreds = 2
  MaxTries = 2
  MaxFaults = 0
  ShortLived = TRUE
  MaxChanges = 1
  MaxToggles = 1
SYMMETRY Symmetry
CHECK_DEADLOCK FALSE
INVARIANTS
  StateSingleUse
  CredentialLineage
  DisconnectedIsLast
  VerifierIsKept
PROPERTIES
  KeepsContract
