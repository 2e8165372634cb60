SPECIFICATION Spec
CONSTANTS
  Tools = {t1}
  Users = {u1}
  Runs = {d1}
  Requests = {a1, a2}
  MaxIds = 2
  MaxRuns = 2
  MaxRequests = 2
INVARIANTS
  McpIInv
  SecretFitsClient
  NoForgottenSecret
  ConnectionFitsClient
PROPERTY
  TenantDecides
CHECK_DEADLOCK FALSE
