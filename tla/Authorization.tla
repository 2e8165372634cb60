--------------------------- MODULE Authorization ---------------------------
(***************************************************************************)
(* The hosted connect flow: connect sessions, the authorize redirect, the  *)
(* provider callback and disconnect (apps/api/src/routes/oauth.ts).        *)
(*                                                                         *)
(* Each handler is cut where another request can get in between: after its *)
(* session or state lookup (a transaction of its own, already committed)   *)
(* and around the token exchange with the provider.                        *)
(***************************************************************************)
EXTENDS ConnectionStore

CONSTANTS
  Sessions,     \* connect sessions
  Txns          \* authorize requests, and the oauth_transactions rows they insert

ASSUME AuthorizationAssumption == None \notin Sessions \cup Txns

Session == [st: {"free", "usable", "ended"}, user: Users \cup {None}, stepUp: BOOLEAN]

Txn == [st: {"free", "loaded", "pending", "lapsed", "consumed", "deleted"},
        user: Users \cup {None}, row: RowIds, policy: Policies]

Callback == [pc: {"idle", "consumed", "exchanging", "locked"}, t: Txns \cup {None},
             user: Users \cup {None}, row: RowIds, ver: Nat, cred: CredIds,
             status: Statuses, new: CredIds, expires: BOOLEAN]

IdleCallback == [pc |-> "idle", t |-> None, user |-> None, row |-> 0, ver |-> 0,
                 cred |-> 0, status |-> "disconnected", new |-> 0, expires |-> FALSE]

AuthInit ==
  /\ session = [s \in Sessions |-> [st |-> "free", user |-> None, stepUp |-> FALSE]]
  /\ txn = [t \in Txns |-> [st |-> "free", user |-> None, row |-> 0, policy |-> "read_only"]]
  /\ cb = [c \in Callbacks |-> IdleCallback]
  /\ leaving = {}
  /\ verifiers = {}

AuthTypeOK ==
  /\ session \in [Sessions -> Session]
  /\ txn \in [Txns -> Txn]
  /\ cb \in [Callbacks -> Callback]
  /\ leaving \in SUBSET Sessions
  /\ verifiers \in SUBSET Txns

(***************************************************************************)
(* Connect sessions.                                                       *)
(***************************************************************************)

\* POST /connect-sessions; stepUp is a recent reauthenticatedAt in the body.
CreateSession(s, u, stepUp) ==
  /\ session[s].st = "free"
  /\ service.enabled
  /\ session' = [session EXCEPT ![s] = [st |-> "usable", user |-> u, stepUp |-> stepUp]]
  /\ UNCHANGED <<txn, cb, leaving, verifiers, storeVars, refreshVars, policyVars>>

\* expires_at passes.
SessionEnds(s) ==
  /\ session[s].st = "usable"
  /\ session' = [session EXCEPT ![s].st = "ended"]
  /\ UNCHANGED <<txn, cb, leaving, verifiers, storeVars, refreshVars, policyVars>>

\* destructive_action_expires_at passes, at most five minutes after the step-up.
StepUpEnds(s) ==
  /\ session[s].st = "usable" /\ session[s].stepUp
  /\ session' = [session EXCEPT ![s].stepUp = FALSE]
  /\ UNCHANGED <<txn, cb, leaving, verifiers, storeVars, refreshVars, policyVars>>

(***************************************************************************)
(* POST /connect/:serviceId/authorize                                      *)
(***************************************************************************)

\* loadConnectSession, then the settings that decide the scopes.
AuthorizeLoad(t, s) ==
  /\ txn[t].st = "free"
  /\ session[s].st = "usable"
  /\ service.enabled
  /\ txn' = [txn EXCEPT ![t] = [st |-> "loaded", user |-> session[s].user,
                                row |-> 0, policy |-> service.policy]]
  /\ UNCHANGED <<session, cb, leaving, verifiers, storeVars, refreshVars, policyVars>>

\* issueAuthorizationRedirect: store the verifier, insert the connection unless the user
\* has one (the upsert then touches no column modelled here), insert the transaction.
AuthorizeMint(t) ==
  LET u == txn[t].user
      row == IF conn[u].id = 0 THEN created + 1 ELSE conn[u].id
  IN /\ txn[t].st = "loaded"
     /\ rowLock[u] = None
     /\ row <= MaxRows
     /\ conn' = IF conn[u].id = 0
                  THEN [conn EXCEPT ![u] = [NoRow EXCEPT !.id = row, !.status = "pending",
                                                         !.ver = 1]]
                  ELSE conn
     /\ created' = IF conn[u].id = 0 THEN row ELSE created
     /\ txn' = [txn EXCEPT ![t].st = "pending", ![t].row = row]
     /\ verifiers' = verifiers \cup {t}
     /\ UNCHANGED <<session, cb, leaving, rowLock, stored, grant, issued, outbox, job,
                    service, refreshVars, policyVars>>

\* The state's expires_at passes before the provider redirects back.
StateLapses(t) ==
  /\ txn[t].st = "pending"
  /\ txn' = [txn EXCEPT ![t].st = "lapsed"]
  /\ UNCHANGED <<session, cb, leaving, verifiers, storeVars, refreshVars, policyVars>>

(***************************************************************************)
(* GET /oauth/:serviceId/callback                                          *)
(***************************************************************************)

\* Mutant: the UPDATE does not ask for consumed_at IS NULL.
CallbackConsumeAgain(c, t) ==
  /\ cb[c].pc = "idle"
  /\ txn[t].st \in {"pending", "consumed"}
  /\ txn' = [txn EXCEPT ![t].st = "consumed"]
  /\ cb' = [cb EXCEPT ![c] = [IdleCallback EXCEPT !.pc = "consumed", !.t = t,
                                !.user = txn[t].user, !.row = txn[t].row]]
  /\ UNCHANGED <<session, leaving, verifiers, storeVars, refreshVars, policyVars>>

\* UPDATE oauth_transactions SET consumed_at ... WHERE consumed_at IS NULL RETURNING *:
\* one statement, committed before the rest of the handler.
CallbackConsume(c, t) ==
  /\ cb[c].pc = "idle"
  /\ txn[t].st = "pending"
  /\ txn' = [txn EXCEPT ![t].st = "consumed"]
  /\ cb' = [cb EXCEPT ![c] = [IdleCallback EXCEPT !.pc = "consumed", !.t = t,
                                !.user = txn[t].user, !.row = txn[t].row]]
  /\ UNCHANGED <<session, leaving, verifiers, storeVars, refreshVars, policyVars>>

\* 409: the connection is gone or the service was switched off.  The verifier stays.
CallbackRefused(c) ==
  /\ cb[c].pc = "consumed"
  /\ ~IsRow(cb[c].user, cb[c].row) \/ ~service.enabled
  /\ cb' = [cb EXCEPT ![c] = IdleCallback]
  /\ UNCHANGED <<session, txn, leaving, verifiers, storeVars, refreshVars, policyVars>>

\* Reads the connection and the verifier, then calls the token endpoint.
CallbackBegin(c) ==
  LET row == conn[cb[c].user]
  IN /\ cb[c].pc = "consumed"
     /\ IsRow(cb[c].user, cb[c].row)
     /\ service.enabled
     /\ cb' = [cb EXCEPT ![c].pc = "exchanging", ![c].ver = row.ver,
                         ![c].cred = row.cred, ![c].status = row.status]
     /\ UNCHANGED <<session, txn, leaving, verifiers, storeVars, refreshVars, policyVars>>

\* Deleting the verifier's secret record deletes the transaction with it (ON DELETE CASCADE).
DropVerifier(t) ==
  /\ verifiers' = verifiers \ {t}
  /\ txn' = [txn EXCEPT ![t].st = "deleted"]

\* Mutant: the failed exchange writes its whole snapshot back, the credential included.
CallbackFailRestores(c) ==
  LET u == cb[c].user
  IN /\ cb[c].pc = "exchanging"
     /\ rowLock[u] = None
     /\ conn' = IF IsRow(u, cb[c].row)
                  THEN [conn EXCEPT ![u].status = IF cb[c].status = "connected"
                                                    THEN "connected" ELSE "error",
                                    ![u].cred = cb[c].cred]
                  ELSE conn
     /\ DropVerifier(cb[c].t)
     /\ cb' = [cb EXCEPT ![c] = IdleCallback]
     /\ UNCHANGED <<session, leaving, rowLock, stored, grant, issued, created, outbox,
                    job, service, refreshVars, policyVars>>

\* Mutant: the failed exchange is told to the tenant, like a failed refresh.
CallbackFailTold(c) ==
  LET u == cb[c].user
  IN /\ cb[c].pc = "exchanging"
     /\ rowLock[u] = None
     /\ IF IsRow(u, cb[c].row)
          THEN /\ conn' = [conn EXCEPT ![u].status = "error", ![u].ver = @ + 1]
               /\ Publish(cb[c].row, "error")
          ELSE UNCHANGED <<conn, outbox>>
     /\ DropVerifier(cb[c].t)
     /\ cb' = [cb EXCEPT ![c] = IdleCallback]
     /\ UNCHANGED <<session, leaving, rowLock, stored, grant, issued, created, job, service,
                    refreshVars, policyVars>>

\* The exchange fails, or returns invalid routing metadata: the status is written from the
\* snapshot, whatever the row says by now, and no event is.
CallbackFail(c) ==
  LET u == cb[c].user
  IN /\ cb[c].pc = "exchanging"
     /\ rowLock[u] = None
     /\ conn' = IF IsRow(u, cb[c].row)
                  THEN [conn EXCEPT ![u].status = IF cb[c].status = "connected"
                                                    THEN "connected" ELSE "error"]
                  ELSE conn
     /\ DropVerifier(cb[c].t)
     /\ cb' = [cb EXCEPT ![c] = IdleCallback]
     /\ UNCHANGED <<session, leaving, rowLock, stored, grant, issued, created, outbox,
                    job, service, refreshVars, policyVars>>

\* The provider answers without an access token: 400, and the connection is left alone.
CallbackNoToken(c) ==
  /\ cb[c].pc = "exchanging"
  /\ DropVerifier(cb[c].t)
  /\ cb' = [cb EXCEPT ![c] = IdleCallback]
  /\ UNCHANGED <<session, leaving, storeVars, refreshVars, policyVars>>

\* Mutant: the final UPDATE of the connection does not compare versions.
IsStillThere(c) == IsRow(cb[c].user, cb[c].row)

\* WHERE connections.id = connection.id AND version = connection.version
IsAsRead(c) == IsRow(cb[c].user, cb[c].row) /\ conn[cb[c].user].ver = cb[c].ver

\* "Connection changed while OAuth was in progress": the whole transaction rolls back, the
\* verifier it had deleted included.
CallbackConflict(c) ==
  /\ cb[c].pc = "exchanging"
  /\ ~IsAsRead(c)
  /\ cb' = [cb EXCEPT ![c] = IdleCallback]
  /\ UNCHANGED <<session, txn, leaving, verifiers, storeVars, refreshVars, policyVars>>

\* The version still matches: the row is updated and its lock held, the event inserted and
\* the old secret deleted, none of it visible yet; the refresh job is enqueued already.
CallbackStore(c, expires) ==
  LET u == cb[c].user
      new == issued + 1
  IN /\ cb[c].pc = "exchanging"
     /\ rowLock[u] = None
     /\ IsAsRead(c)
     /\ new <= MaxCreds
     /\ issued' = new
     /\ grant' = [grant EXCEPT ![new] = [user |-> u, row |-> cb[c].row, base |-> cb[c].cred,
                                         policy |-> txn[cb[c].t].policy, expires |-> expires]]
     /\ rowLock' = [rowLock EXCEPT ![u] = c]
     /\ job' = Enqueue(job, new, expires)
     /\ cb' = [cb EXCEPT ![c].pc = "locked", ![c].new = new, ![c].expires = expires]
     /\ UNCHANGED <<session, txn, leaving, verifiers, conn, stored, created, outbox,
                    service, refreshVars, policyVars>>

\* COMMIT.
CallbackCommit(c) ==
  LET u == cb[c].user
  IN /\ cb[c].pc = "locked"
     /\ conn' = [conn EXCEPT ![u].status = "connected", ![u].cred = cb[c].new,
                             ![u].exp = IF cb[c].expires THEN "ahead" ELSE "none",
                             ![u].ver = @ + 1]
     /\ rowLock' = [rowLock EXCEPT ![u] = None]
     /\ stored' = (stored \ {cb[c].cred}) \cup {cb[c].new}
     /\ Publish(cb[c].row, "connected")
     /\ DropVerifier(cb[c].t)
     /\ cb' = [cb EXCEPT ![c] = IdleCallback]
     /\ UNCHANGED <<session, leaving, grant, issued, created, job, service, refreshVars,
                    policyVars>>

\* The process dies, the queue is down, or a statement fails: the transaction rolls back.
CallbackAbort(c) ==
  /\ cb[c].pc # "idle"
  /\ rowLock' = IF cb[c].pc = "locked" THEN [rowLock EXCEPT ![cb[c].user] = None] ELSE rowLock
  /\ cb' = [cb EXCEPT ![c] = IdleCallback]
  /\ UNCHANGED <<session, txn, leaving, verifiers, conn, stored, grant, issued, created,
                 outbox, job, service, refreshVars, policyVars>>

(***************************************************************************)
(* DELETE /connect/:serviceId                                              *)
(***************************************************************************)

\* loadConnectSession and canPerformDestructiveAction.
DisconnectLoad(s) ==
  /\ s \notin leaving
  /\ session[s].st = "usable" /\ session[s].stepUp
  /\ leaving' = leaving \cup {s}
  /\ UNCHANGED <<session, txn, cb, verifiers, storeVars, refreshVars, policyVars>>

\* A callback past its verifier has deleted its oauth_transactions row in a transaction that
\* is still open, and the cascade of DELETE FROM connections waits for that row.
Pinned(r) == \E c \in Callbacks: cb[c].pc \in {"exchanging", "locked"} /\ cb[c].row = r

\* Deletes the row (and by cascade its transactions) and its secret, publishes, and revokes
\* the session whether there was a row or not.
Disconnect(s) ==
  LET u == session[s].user
      row == conn[u]
  IN /\ s \in leaving
     /\ row.id # 0 => ~Pinned(row.id)
     /\ leaving' = leaving \ {s}
     /\ session' = [session EXCEPT ![s].st = "ended"]
     /\ conn' = [conn EXCEPT ![u] = NoRow]
     /\ stored' = stored \ {row.cred}
     /\ outbox' = IF row.id # 0
                    THEN [outbox EXCEPT ![row.id] = Append(@, "disconnected")] ELSE outbox
     /\ txn' = [t \in Txns |-> IF row.id # 0 /\ txn[t].row = row.id
                                 THEN [txn[t] EXCEPT !.st = "deleted"] ELSE txn[t]]
     /\ UNCHANGED <<cb, verifiers, rowLock, grant, issued, created, job, service,
                    refreshVars, policyVars>>

\* Waiting for each other's rows, the callback and the disconnect deadlock and PostgreSQL
\* aborts one of them (for the callback, CallbackAbort): here the disconnect, with a 500.
DisconnectAbort(s) ==
  /\ s \in leaving
  /\ Pinned(conn[session[s].user].id)
  /\ leaving' = leaving \ {s}
  /\ UNCHANGED <<session, txn, cb, verifiers, storeVars, refreshVars, policyVars>>

CallbackStep(c) ==
  \/ CallbackRefused(c)
  \/ CallbackBegin(c)
  \/ CallbackFail(c)
  \/ CallbackNoToken(c)
  \/ CallbackConflict(c)
  \/ \E expires \in BOOLEAN: CallbackStore(c, expires)
  \/ CallbackCommit(c)
  \/ CallbackAbort(c)

AuthNext ==
  \/ \E s \in Sessions, u \in Users, stepUp \in BOOLEAN: CreateSession(s, u, stepUp)
  \/ \E s \in Sessions: SessionEnds(s) \/ StepUpEnds(s)
  \/ \E s \in Sessions: DisconnectLoad(s) \/ Disconnect(s) \/ DisconnectAbort(s)
  \/ \E t \in Txns, s \in Sessions: AuthorizeLoad(t, s)
  \/ \E t \in Txns: AuthorizeMint(t) \/ StateLapses(t)
  \/ \E c \in Callbacks, t \in Txns: CallbackConsume(c, t)
  \/ \E c \in Callbacks: CallbackStep(c)
=============================================================================
