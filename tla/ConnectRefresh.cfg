\* One user's connection under two workers and the expiry sweep, with re-authorization and
\* disconnect going on and a worker that may die.
SPECIFICATION Spec
CONSTANTS
  Users = {u1}
  Sessions = {s1}
  Txns = {t1, t2}
  Callbacks = {c1}
  Attempts = {a1, a2}
  None = None
  MaxRows = 2
  MaxCreds = 3
  MaxTries = 1
  MaxFaults = 1
  ShortLived = TRUE
  MaxChanges = 0
  MaxToggles = 0
SYMMETRY Symmetry
CHECK_DEADLOCK FALSE
INVARIANTS
  TypeOK
  RefreshMutex
  CredentialLineage
  VersionCountsEvents
  NoOrphanedSecret
  RecordIInv
  TaleIInv
PROPERTIES
  NoLostCredential
  SpentStaysSpent
