-------------------------- MODULE ConnectionStore --------------------------
(***************************************************************************)
(* The database rows that every part of the connection lifecycle shares,   *)
(* for ONE organization and ONE OAuth service: the connections table, the  *)
(* secret records that hold connection credentials, the outbox, the        *)
(* service's settings row, and the token-refresh queue in Redis.           *)
(*                                                                         *)
(* A statement, or a transaction whose effects become visible at once, is  *)
(* one step.  PostgreSQL runs READ COMMITTED: a transaction that has       *)
(* updated a connection row holds that row's lock until it ends, which is  *)
(* what rowLock models; every other writer of the row waits.               *)
(*                                                                         *)
(* Identifiers that the program draws fresh (row ids, secret ids) are      *)
(* counted: created and issued say how many have been drawn, 0 is "none".  *)
(*                                                                         *)
(* The requests and jobs that work on the rows keep their own state; its   *)
(* variables are declared here too, so that an action can say which of it  *)
(* it leaves alone, and typed and initialized in the module they are for.  *)
(***************************************************************************)
EXTENDS Naturals, Sequences

CONSTANTS
  Users,        \* external users of the organization
  Callbacks,    \* OAuth callback requests that may be in flight
  Attempts,     \* runs of a refresh job that may be in flight
  None,         \* "null": no user, no lock holder, no transaction
  MaxRows,      \* bound: connection rows ever inserted
  MaxCreds,     \* bound: credential secrets ever stored
  MaxTries      \* attempts BullMQ makes of one job (5 in the code)

ASSUME StoreAssumption ==
  /\ None \notin Users \cup Callbacks \cup Attempts
  /\ MaxRows \in Nat /\ MaxCreds \in Nat
  /\ MaxTries \in Nat \ {0}

VARIABLES
  conn,         \* conn[u]: the row of user u, NoRow when there is none
  rowLock,      \* rowLock[u]: the callback whose open transaction updated the row
  stored,       \* the connection_credentials secrets that exist
  grant,        \* history: what secret k was issued for
  issued,       \* secrets drawn so far
  created,      \* rows drawn so far
  outbox,       \* outbox[r]: the events written about row r, oldest first
  job,          \* job[k]: the refresh job enqueued for credential k
  service       \* the organization's settings of the service

VARIABLES
  \* Authorization
  session,      \* connect_sessions
  txn,          \* authorize requests and their oauth_transactions rows
  cb,           \* callback requests: where each one is, and what it has read
  leaving,      \* sessions with a DELETE /connect request past its session check
  verifiers,    \* transactions whose PKCE verifier is in the secret store
  \* TokenRefresh
  att,          \* att[a]: one run of a job; a is also its lock token
  late,         \* history: runs whose lease ran out while they were at work
  seen,         \* seen[u]: the row id and version the sweep has selected
  faults,       \* worker processes that died, and statements of theirs that threw
  \* ServicePolicy
  adm,          \* the request: the new policy and what its SELECT returned
  changes,
  toggles

storeVars == <<conn, rowLock, stored, grant, issued, created, outbox, job, service>>
authVars == <<session, txn, cb, leaving, verifiers>>
refreshVars == <<att, late, seen, faults>>
policyVars == <<adm, changes, toggles>>

RowIds == 0..MaxRows
CredIds == 0..MaxCreds
Statuses == {"disconnected", "pending", "connected", "expired", "error"}
Events == {"connected", "refreshed", "expired", "error", "disconnected"}
Policies == {"read_only", "full"}

\* exp: "none" is a null expires_at, "ahead" and "past" relate it to the clock.
\* lock, held: refresh_lock_token, and whether refresh_lock_expires_at is ahead.
Row == [id: RowIds, status: Statuses, cred: CredIds, ver: Nat,
        exp: {"none", "ahead", "past"}, lock: Attempts \cup {None}, held: BOOLEAN]

NoRow == [id |-> 0, status |-> "disconnected", cred |-> 0, ver |-> 0,
          exp |-> "none", lock |-> None, held |-> FALSE]

\* base: the credential the writer had read in the row before it asked for this one.
Grant == [user: Users \cup {None}, row: RowIds, base: CredIds,
          policy: Policies, expires: BOOLEAN]

Job == [st: {"none", "waiting", "active", "done"}, tries: 0..MaxTries]

Service == [enabled: BOOLEAN, policy: Policies]

StoreInit ==
  /\ conn = [u \in Users |-> NoRow]
  /\ rowLock = [u \in Users |-> None]
  /\ stored = {}
  /\ grant = [k \in CredIds |-> [user |-> None, row |-> 0, base |-> 0,
                                 policy |-> "read_only", expires |-> FALSE]]
  /\ issued = 0
  /\ created = 0
  /\ outbox = [r \in RowIds |-> <<>>]
  /\ job = [k \in CredIds |-> [st |-> "none", tries |-> 0]]
  /\ service = [enabled |-> TRUE, policy |-> "read_only"]

StoreTypeOK ==
  /\ conn \in [Users -> Row]
  /\ rowLock \in [Users -> Callbacks \cup {None}]
  /\ stored \in SUBSET CredIds
  /\ grant \in [CredIds -> Grant]
  /\ issued \in CredIds
  /\ created \in RowIds
  /\ outbox \in [RowIds -> Seq(Events)]
  /\ job \in [CredIds -> Job]
  /\ service \in Service

\* Mutant: the row is looked up by the user's (service, external user) key, not by its id.
IsUsersRow(u, r) == r # 0 /\ conn[u].id # 0

\* WHERE connections.id = r, for the user the row belongs to.
IsRow(u, r) == r # 0 /\ conn[u].id = r

\* An INSERT INTO outbox_events in the transaction that changes row r.
Publish(r, event) == outbox' = [outbox EXCEPT ![r] = Append(@, event)]

\* scheduleTokenRefresh: nothing without an expiry, else one job per connection and expiry.
Enqueue(jobs, k, expires) ==
  IF expires THEN [jobs EXCEPT ![k] = [st |-> "waiting", tries |-> 0]] ELSE jobs

(***************************************************************************)
(* Time: an expiry passes, a refresh lease runs out.                       *)
(***************************************************************************)
TokenExpires(u) ==
  /\ conn[u].exp = "ahead"
  /\ conn' = [conn EXCEPT ![u].exp = "past"]
  /\ UNCHANGED <<rowLock, stored, grant, issued, created, outbox, job, service, authVars,
                 refreshVars, policyVars>>
=============================================================================
