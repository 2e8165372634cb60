--------------------------- MODULE ServicePolicy ---------------------------
(***************************************************************************)
(* PUT /organization/services/:serviceId (apps/api/src/routes/             *)
(* dashboard.ts), which sets enabled and toolAccessPolicy, and             *)
(* expireConnectionsForService (apps/api/src/lib/connection-               *)
(* invalidation.ts), which it calls on a policy change to make every user  *)
(* authorize again.  The request is one transaction: a first step reads    *)
(* the affected connections, a second updates them and commits.            *)
(***************************************************************************)
EXTENDS ConnectionStore

CONSTANTS
  MaxChanges,   \* bound: policy changes
  MaxToggles    \* bound: times the service is switched off or on

ASSUME PolicyAssumption == MaxChanges \in Nat /\ MaxToggles \in Nat

Admin == [pc: {"idle", "selected"}, policy: Policies, found: BOOLEAN, creds: SUBSET CredIds]

IdleAdmin == [pc |-> "idle", policy |-> "read_only", found |-> FALSE, creds |-> {}]

PolicyInit ==
  /\ adm = IdleAdmin
  /\ changes = 0
  /\ toggles = 0

PolicyTypeOK ==
  /\ adm \in Admin
  /\ changes \in 0..MaxChanges
  /\ toggles \in 0..MaxToggles

\* The body has no toolAccessPolicy: no connection is touched.
SetEnabled ==
  /\ adm.pc = "idle"
  /\ toggles < MaxToggles
  /\ toggles' = toggles + 1
  /\ service' = [service EXCEPT !.enabled = ~@]
  /\ UNCHANGED <<adm, changes, conn, rowLock, stored, grant, issued, created, outbox, job,
                 authVars, refreshVars>>

\* The settings row is written, not yet committed, and the connections are selected.
PolicySelect(p) ==
  /\ adm.pc = "idle"
  /\ changes < MaxChanges
  /\ p # service.policy
  /\ changes' = changes + 1
  /\ adm' = [pc |-> "selected", policy |-> p, found |-> \E u \in Users: conn[u].id # 0,
             creds |-> {conn[u].cred : u \in Users} \ {0}]
  /\ UNCHANGED <<toggles, storeVars, authVars, refreshVars>>

\* Mutant: the rows keep their credential_secret_id.
ExpiredKeepingCredential(row) == IF row.id = 0 THEN row ELSE [row EXCEPT !.status = "expired"]

\* UPDATE connections SET status = 'expired', credential_secret_id = NULL: every row of the
\* service by now, its version and refresh lock left alone.
ExpiredRow(row) ==
  IF row.id = 0 THEN row ELSE [row EXCEPT !.status = "expired", !.cred = 0]

\* Nothing selected is an early return.  The secrets deleted are the ones selected.
PolicyCommit ==
  /\ adm.pc = "selected"
  /\ adm.found => \A u \in Users: rowLock[u] = None
  /\ conn' = IF adm.found THEN [u \in Users |-> ExpiredRow(conn[u])] ELSE conn
  /\ stored' = stored \ adm.creds
  /\ service' = [service EXCEPT !.policy = adm.policy]
  /\ adm' = IdleAdmin
  /\ UNCHANGED <<changes, toggles, rowLock, grant, issued, created, outbox, job, authVars,
                 refreshVars>>

\* A statement fails or the process dies: the request's transaction rolls back.
PolicyAbort ==
  /\ adm.pc = "selected"
  /\ adm' = IdleAdmin
  /\ UNCHANGED <<changes, toggles, storeVars, authVars, refreshVars>>

PolicyNext ==
  \/ SetEnabled
  \/ \E p \in Policies: PolicySelect(p)
  \/ PolicyCommit
  \/ PolicyAbort
=============================================================================
