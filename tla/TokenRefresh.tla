---------------------------- MODULE TokenRefresh ----------------------------
(***************************************************************************)
(* The background worker: the refresh of one connection under a database   *)
(* lease (packages/database/src/jobs/token-refresh.ts), the BullMQ job     *)
(* around it (apps/api/src/jobs/setup.ts) and the sweep that marks expired *)
(* connections (apps/api/src/jobs/outbox.ts).  The worker runs outside any *)
(* transaction, so every statement commits on its own and other requests   *)
(* run between any two of them.                                            *)
(***************************************************************************)
EXTENDS ConnectionStore

CONSTANTS
  MaxFaults,    \* bound: worker processes that die in the middle of a job, and database
                \* statements that throw at the end of one
  ShortLived    \* whether a token may live five minutes or less, so that its job is due at once

ASSUME RefreshAssumption == MaxFaults \in Nat /\ ShortLived \in BOOLEAN

Attempt == [pc: {"idle", "acquired", "read", "put", "dropped", "committed", "deleted"},
            job: CredIds, user: Users \cup {None}, row: RowIds, ver: Nat, cred: CredIds,
            new: CredIds, expires: BOOLEAN]

IdleAttempt == [pc |-> "idle", job |-> 0, user |-> None, row |-> 0, ver |-> 0,
                cred |-> 0, new |-> 0, expires |-> FALSE]

Seen == [id: RowIds, ver: Nat]

NotSeen == [id |-> 0, ver |-> 0]

RefreshInit ==
  /\ att = [a \in Attempts |-> IdleAttempt]
  /\ late = {}
  /\ seen = [u \in Users |-> NotSeen]
  /\ faults = 0

RefreshTypeOK ==
  /\ att \in [Attempts -> Attempt]
  /\ late \in SUBSET (Attempts \cup {None})
  /\ seen \in [Users -> Seen]
  /\ faults \in 0..MaxFaults

(***************************************************************************)
(* refreshToken                                                            *)
(***************************************************************************)

\* Mutant: the lease of another run is not looked at.
RefreshableAlways(u, r) == IsRow(u, r) /\ conn[u].status = "connected"

\* WHERE id = ... AND status = 'connected' AND (lock expiry IS NULL OR lock expiry < now)
Refreshable(u, r) == IsRow(u, r) /\ conn[u].status = "connected" /\ ~conn[u].held

\* The job runs five minutes before the expiry: after the callback that enqueued it has
\* committed, unless the token is that short-lived.
Due(k) == job[k].st = "waiting" /\ (ShortLived \/ rowLock[grant[k].user] = None)

\* UPDATE ... SET refresh_lock_token RETURNING *.  The token is fresh: no row carries it.
RefreshAcquire(a, k) ==
  LET u == grant[k].user
      r == grant[k].row
  IN /\ att[a].pc = "idle"
     /\ \A v \in Users: conn[v].lock # a
     /\ Due(k)
     /\ rowLock[u] = None
     /\ Refreshable(u, r)
     /\ conn' = [conn EXCEPT ![u].lock = a, ![u].held = TRUE]
     /\ job' = [job EXCEPT ![k].st = "active"]
     /\ att' = [att EXCEPT ![a] = [IdleAttempt EXCEPT !.pc = "acquired", !.job = k,
                                     !.user = u, !.row = r, !.ver = conn[u].ver,
                                     !.cred = conn[u].cred]]
     /\ late' = late \ {a}
     /\ UNCHANGED <<seen, faults, rowLock, stored, grant, issued, created, outbox,
                    service, authVars, policyVars>>

\* No row matched, as last committed: success, and the job is finished without another one
\* being scheduled.
RefreshSkip(k) ==
  /\ Due(k)
  /\ ~Refreshable(grant[k].user, grant[k].row)
  /\ job' = [job EXCEPT ![k].st = "done"]
  /\ UNCHANGED <<refreshVars, conn, rowLock, stored, grant, issued, created, outbox,
                 service, authVars, policyVars>>

\* WHERE id = connection.id AND refresh_lock_token = lockToken
HoldsLock(a) == IsRow(att[a].user, att[a].row) /\ conn[att[a].user].lock = a

\* An UPDATE of the row waits for a callback that has updated it and not committed yet.
MayWrite(a) == HoldsLock(a) => rowLock[att[a].user] = None

\* The finally block: the lock is given up if it is still this run's.
ReleaseLock(a) ==
  /\ MayWrite(a)
  /\ conn' = IF HoldsLock(a)
               THEN [conn EXCEPT ![att[a].user].lock = None, ![att[a].user].held = FALSE]
               ELSE conn

\* Mutant: a job is retried however often it has failed.
RetryJobForever(k) ==
  job' = [job EXCEPT ![k] = [st |-> "waiting", tries |-> @.tries + 1]]

\* An answer that is retryable: BullMQ runs the job again until its attempts are used up.
RetryJob(k) ==
  job' = [job EXCEPT ![k] = [st |-> IF @.tries + 1 < MaxTries THEN "waiting" ELSE "done",
                             tries |-> @.tries + 1]]

\* Mutant: the event is written without asking whether the UPDATE found its row.
RefreshFailAlwaysTold(a) ==
  LET u == att[a].user
  IN /\ att[a].pc \in {"acquired", "read"}
     /\ MayWrite(a)
     /\ conn' = IF HoldsLock(a)
                  THEN [conn EXCEPT ![u].status = "error", ![u].lock = None,
                                    ![u].held = FALSE, ![u].ver = @ + 1]
                  ELSE conn
     /\ Publish(att[a].row, "error")
     /\ job' = [job EXCEPT ![att[a].job].st = "done"]
     /\ att' = [att EXCEPT ![a] = IdleAttempt]
     /\ UNCHANGED <<late, seen, faults, rowLock, stored, grant, issued, created, service,
                    authVars, policyVars>>

\* No credential, service switched off, no refresh token, provider rejection: the row goes to
\* "error" under the lock token, with its event, and the job is not retried.
RefreshFail(a) ==
  LET u == att[a].user
  IN /\ att[a].pc \in {"acquired", "read"}
     /\ MayWrite(a)
     /\ IF HoldsLock(a)
          THEN /\ conn' = [conn EXCEPT ![u].status = "error", ![u].lock = None,
                                       ![u].held = FALSE, ![u].ver = @ + 1]
               /\ Publish(att[a].row, "error")
          ELSE UNCHANGED <<conn, outbox>>
     /\ job' = [job EXCEPT ![att[a].job].st = "done"]
     /\ att' = [att EXCEPT ![a] = IdleAttempt]
     /\ UNCHANGED <<late, seen, faults, rowLock, stored, grant, issued, created, service,
                    authVars, policyVars>>

\* Settings are in order and the credential can be read; the provider is called next.
RefreshRead(a) ==
  /\ att[a].pc = "acquired"
  /\ service.enabled
  /\ att[a].cred # 0 /\ att[a].cred \in stored
  /\ att' = [att EXCEPT ![a].pc = "read"]
  /\ UNCHANGED <<late, seen, faults, storeVars, authVars, policyVars>>

\* A statement throws, the secret cannot be read (it may be gone by now), the provider is
\* unavailable, or the new credential was not taken: the lease is released, and the job retried.
RefreshRetry(a) ==
  /\ att[a].pc \in {"acquired", "read", "dropped"}
  /\ ReleaseLock(a)
  /\ RetryJob(att[a].job)
  /\ att' = [att EXCEPT ![a] = IdleAttempt]
  /\ UNCHANGED <<late, seen, faults, rowLock, stored, grant, issued, created, outbox,
                 service, authVars, policyVars>>

\* The provider answered with tokens, and the new credential is in the store.
RefreshPut(a, expires) ==
  LET new == issued + 1
  IN /\ att[a].pc = "read"
     /\ new <= MaxCreds
     /\ issued' = new
     /\ stored' = stored \cup {new}
     /\ grant' = [grant EXCEPT ![new] = [user |-> att[a].user, row |-> att[a].row,
                                         base |-> att[a].cred,
                                         policy |-> grant[att[a].cred].policy,
                                         expires |-> expires]]
     /\ att' = [att EXCEPT ![a].pc = "put", ![a].new = new, ![a].expires = expires]
     /\ UNCHANGED <<late, seen, faults, conn, rowLock, created, outbox, job, service,
                    authVars, policyVars>>

\* Mutant: the lock token alone decides.
HoldsLockStill(a) == HoldsLock(a)

\* WHERE version = connection.version AND refresh_lock_token = lockToken
StillMine(a) == HoldsLock(a) /\ conn[att[a].user].ver = att[a].ver

\* The row takes the new credential; without expires_in it keeps its expiry.
RefreshCommit(a) ==
  LET u == att[a].user
  IN /\ att[a].pc = "put"
     /\ rowLock[u] = None
     /\ StillMine(a)
     /\ conn' = [conn EXCEPT ![u].cred = att[a].new, ![u].lock = None, ![u].held = FALSE,
                             ![u].exp = IF att[a].expires THEN "ahead" ELSE @,
                             ![u].ver = @ + 1]
     /\ Publish(att[a].row, "refreshed")
     /\ att' = [att EXCEPT ![a].pc = "committed"]
     /\ UNCHANGED <<late, seen, faults, rowLock, stored, grant, issued, created, job,
                    service, authVars, policyVars>>

\* "Refresh lease was lost": the new secret is deleted.
RefreshLost(a) ==
  /\ att[a].pc = "put"
  /\ ~StillMine(a)
  /\ stored' = stored \ {att[a].new}
  /\ att' = [att EXCEPT ![a].pc = "dropped"]
  /\ UNCHANGED <<late, seen, faults, conn, rowLock, grant, issued, created, outbox, job,
                 service, authVars, policyVars>>

\* The transaction throws whosever the lease is, or the deletion of the new secret does, or both.
RefreshCommitFails(a) ==
  /\ att[a].pc = "put"
  /\ faults < MaxFaults
  /\ faults' = faults + 1
  /\ stored' \in {stored, stored \ {att[a].new}}
  /\ att' = [att EXCEPT ![a].pc = "dropped"]
  /\ UNCHANGED <<late, seen, conn, rowLock, grant, issued, created, outbox, job, service,
                 authVars, policyVars>>

\* Mutant: the replaced credential is left in the store.
RefreshKeepOld(a) ==
  /\ att[a].pc = "committed"
  /\ att' = [att EXCEPT ![a].pc = "deleted"]
  /\ UNCHANGED <<late, seen, faults, storeVars, authVars, policyVars>>

\* Deletes the credential it replaced.
RefreshDeleteOld(a) ==
  /\ att[a].pc = "committed"
  /\ stored' = stored \ {att[a].cred}
  /\ att' = [att EXCEPT ![a].pc = "deleted"]
  /\ UNCHANGED <<late, seen, faults, conn, rowLock, grant, issued, created, outbox, job,
                 service, authVars, policyVars>>

\* The job handler schedules the next refresh and completes.
RefreshDone(a) ==
  /\ att[a].pc = "deleted"
  /\ job' = Enqueue([job EXCEPT ![att[a].job].st = "done"], att[a].new, att[a].expires)
  /\ att' = [att EXCEPT ![a] = IdleAttempt]
  /\ UNCHANGED <<late, seen, faults, conn, rowLock, stored, grant, issued, created,
                 outbox, service, authVars, policyVars>>

\* The deletion of the replaced credential throws, or the UPDATE that should release the lease
\* does: the job is retried as if nothing had been refreshed, and a lease that is held stays.
RefreshThrows(a) ==
  /\ att[a].pc \notin {"idle", "put"}
  /\ faults < MaxFaults
  /\ faults' = faults + 1
  /\ RetryJob(att[a].job)
  /\ att' = [att EXCEPT ![a] = IdleAttempt]
  /\ UNCHANGED <<late, seen, conn, rowLock, stored, grant, issued, created, outbox, service,
                 authVars, policyVars>>

\* The worker dies.  Its row lock stays until it runs out; BullMQ runs the stalled job again.
RefreshCrash(a) ==
  /\ att[a].pc # "idle"
  /\ faults < MaxFaults
  /\ faults' = faults + 1
  /\ job' = [job EXCEPT ![att[a].job].st = "waiting"]
  /\ att' = [att EXCEPT ![a] = IdleAttempt]
  /\ UNCHANGED <<late, seen, conn, rowLock, stored, grant, issued, created, outbox,
                 service, authVars, policyVars>>

\* refresh_lock_expires_at passes, two minutes after the lock was taken.
LeaseLapses(u) ==
  /\ conn[u].held
  /\ conn' = [conn EXCEPT ![u].held = FALSE]
  /\ late' = late \cup {conn[u].lock}
  /\ UNCHANGED <<att, seen, faults, rowLock, stored, grant, issued, created, outbox, job,
                 service, authVars, policyVars>>

(***************************************************************************)
(* markExpiredConnections                                                  *)
(***************************************************************************)
Overdue(u) == conn[u].status = "connected" /\ conn[u].exp = "past"

\* Mutant: rows that carry a refresh lock are left to the worker.
SweepSelectUnlocked ==
  /\ seen' = [u \in Users |-> IF Overdue(u) /\ conn[u].lock = None
                                THEN [id |-> conn[u].id, ver |-> conn[u].ver] ELSE NotSeen]
  /\ UNCHANGED <<att, late, faults, storeVars, authVars, policyVars>>

\* SELECT the connected rows whose expiry has passed.
SweepSelect ==
  /\ seen' = [u \in Users |-> IF Overdue(u) THEN [id |-> conn[u].id, ver |-> conn[u].ver]
                                            ELSE NotSeen]
  /\ UNCHANGED <<att, late, faults, storeVars, authVars, policyVars>>

\* Mutant: the UPDATE compares the status, not the version.
IsStillConnected(u) == IsRow(u, seen[u].id) /\ conn[u].status = "connected"

\* WHERE id = row.id AND status = 'connected' AND version = row.version
IsAsSeen(u) ==
  IsRow(u, seen[u].id) /\ conn[u].status = "connected" /\ conn[u].ver = seen[u].ver

\* One selected row: marked only if it is still connected at the version selected.
SweepMark(u) ==
  /\ seen[u].id # 0
  /\ IF IsAsSeen(u)
       THEN /\ rowLock[u] = None
            /\ conn' = [conn EXCEPT ![u].status = "expired", ![u].ver = seen[u].ver + 1]
            /\ Publish(seen[u].id, "expired")
       ELSE UNCHANGED <<conn, outbox>>
  /\ seen' = [seen EXCEPT ![u] = NotSeen]
  /\ UNCHANGED <<att, late, faults, rowLock, stored, grant, issued, created, job,
                 service, authVars, policyVars>>

RefreshStep(a) ==
  \/ RefreshFail(a)
  \/ RefreshRead(a)
  \/ RefreshRetry(a)
  \/ \E expires \in BOOLEAN: RefreshPut(a, expires)
  \/ RefreshCommit(a)
  \/ RefreshLost(a)
  \/ RefreshCommitFails(a)
  \/ RefreshDeleteOld(a)
  \/ RefreshDone(a)
  \/ RefreshCrash(a)
  \/ RefreshThrows(a)

RefreshNext ==
  \/ \E a \in Attempts, k \in 1..MaxCreds: RefreshAcquire(a, k)
  \/ \E k \in 1..MaxCreds: RefreshSkip(k)
  \/ \E a \in Attempts: RefreshStep(a)
  \/ \E u \in Users: LeaseLapses(u) \/ SweepMark(u)
  \/ SweepSelect
=============================================================================
