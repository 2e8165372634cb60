\* One event, two workers that may be slow, one crash, and a tenant at the settings.
SPECIFICATION FairSpec
CONSTANTS
  Requests = {r1, r2}
  MaxSecrets = 2
  MaxUpdates = 2
  Events = {e1}
  Workers = {w1, w2}
  None = None
  MaxAttempts = 2
  BatchSize = 1
  MaxSpan = 1
  MaxCrashes = 1
CHECK_DEADLOCK FALSE
INVARIANTS
  OutboxIInv
  ClaimExcludes
  WebhookCanSign
PROPERTIES
  AtLeastOnce
  EventuallySettled
