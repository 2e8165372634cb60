------------------------ MODULE ConnectionLifecycle ------------------------
(***************************************************************************)
(* The life of the connections of one service: users authorize, re-        *)
(* authorize and disconnect (Authorization), the worker refreshes and      *)
(* expires (TokenRefresh), the tenant changes the tool policy              *)
(* (ServicePolicy), all on the same rows (ConnectionStore).                *)
(***************************************************************************)
EXTENDS Authorization, TokenRefresh, ServicePolicy

vars == <<storeVars, authVars, refreshVars, policyVars>>

Init == StoreInit /\ AuthInit /\ RefreshInit /\ PolicyInit

Next ==
  \/ AuthNext
  \/ RefreshNext
  \/ PolicyNext
  \/ \E u \in Users: TokenExpires(u)

Spec == Init /\ [][Next]_vars

\* Every handler ends: its provider call times out after ten seconds.  The sweep runs on a
\* repeating schedule.  Nothing else is owed.
Fairness ==
  /\ \A c \in Callbacks: WF_vars(CallbackStep(c))
  /\ WF_vars(SweepSelect)
  /\ \A u \in Users: WF_vars(SweepMark(u))

FairSpec == Spec /\ Fairness

TypeOK == StoreTypeOK /\ AuthTypeOK /\ RefreshTypeOK /\ PolicyTypeOK

-----------------------------------------------------------------------------
(***************************************************************************)
(* Safety                                                                  *)
(***************************************************************************)

\* An authorization state is good for one exchange: no two callbacks ever work for the same
\* transaction, however often the browser repeats the redirect.
StateSingleUse ==
  \A c, d \in Callbacks:
    cb[c].pc # "idle" /\ cb[d].pc # "idle" /\ cb[c].t = cb[d].t => c = d

\* What a row points at is a secret that exists and that was issued for this very row.  So an
\* authorization or a refresh begun before a disconnect never serves the user's next
\* connection, and the foreign key's ON DELETE SET NULL never has anything to do.
CredentialLineage ==
  \A u \in Users:
    conn[u].cred # 0 =>
      /\ conn[u].cred \in stored
      /\ grant[conn[u].cred].user = u
      /\ grant[conn[u].cred].row = conn[u].id

\* The refresh lease excludes: two runs that have both read a row and may both spend its
\* refresh token exist only when the lease of one of them ran out.
AtProvider(a) == att[a].pc \in {"acquired", "read", "put"}
RefreshMutex ==
  \A a, b \in Attempts:
    a # b /\ AtProvider(a) /\ AtProvider(b) /\ att[a].row = att[b].row
      => a \in late \/ b \in late

\* The transactional outbox: a row's version counts the events written about it, one for
\* each bump and in the same transaction, whoever bumps it.
VersionCountsEvents ==
  \A u \in Users: conn[u].id # 0 => Len(outbox[conn[u].id]) + 1 = conn[u].ver

\* "disconnected" is the last event about a row: no handler or job that was under way when
\* the row went says anything about it afterwards.
DisconnectedIsLast ==
  \A r \in 1..MaxRows: \A i \in 1..Len(outbox[r]):
    outbox[r][i] = "disconnected" => i = Len(outbox[r])

\* Every stored credential has an owner: a row points at it, or a run that is going to delete
\* it.  It is stated of behaviours in which no worker died, none of the statements that clean up
\* after it threw, and no policy change began.
Owned(k) ==
  \/ \E u \in Users: conn[u].cred = k
  \/ \E a \in Attempts: att[a].pc = "put" /\ att[a].new = k
  \/ \E a \in Attempts: att[a].pc = "committed" /\ att[a].cred = k
NoOrphanedSecret ==
  faults = 0 /\ changes = 0 => \A k \in stored: Owned(k)

\* Whatever state a browser still comes back with can be exchanged: while it is pending, its
\* verifier is in the secret store and its row is there, and a callback that has consumed it
\* finds the verifier as long as the row is there.  The read of the verifier never fails.
VerifierIsKept ==
  /\ \A t \in Txns: txn[t].st = "pending" =>
       t \in verifiers /\ IsRow(txn[t].user, txn[t].row)
  /\ \A c \in Callbacks: cb[c].pc # "idle" /\ IsRow(cb[c].user, cb[c].row)
       => cb[c].t \in verifiers

-----------------------------------------------------------------------------
(***************************************************************************)
(* The inductive invariant behind TypeOK, StateSingleUse and               *)
(* CredentialLineage: what a request or a job remembers is still true when *)
(* it acts on it.                                                          *)
(***************************************************************************)
Working(c) == cb[c].pc # "idle"
Busy(a) == att[a].pc # "idle"
Told(c) == cb[c].pc \in {"exchanging", "locked"}
Minted(a) == att[a].pc \in {"put", "committed", "deleted"}

\* Whoever is at work works for a user; a transaction has no row before it is minted, and the
\* one a callback works for is no longer pending, so that nobody else consumes it.
Attributed ==
  /\ \A s \in Sessions: session[s].st # "free" => session[s].user \in Users
  /\ \A s \in leaving: session[s].st # "free"
  /\ \A t \in Txns: txn[t].st # "free" => txn[t].user \in Users
  /\ \A t \in Txns: txn[t].st \in {"free", "loaded"} => txn[t].row = 0
  /\ \A c \in Callbacks: Working(c) =>
       cb[c].user \in Users /\ cb[c].t \in Txns /\ txn[cb[c].t].st \in {"consumed", "deleted"}
  /\ \A a \in Attempts: Busy(a) => att[a].user \in Users

\* A job is run by one attempt at a time, and within its number of attempts.
JobsOK ==
  /\ \A k \in CredIds: job[k].st \in {"waiting", "active"} => job[k].tries < MaxTries
  /\ \A k \in CredIds: job[k].st # "none" => k \in 1..issued /\ grant[k].user \in Users
  /\ \A a \in Attempts: Busy(a) => job[att[a].job].st = "active"
  /\ \A a, b \in Attempts: Busy(a) /\ Busy(b) /\ att[a].job = att[b].job => a = b
  /\ \A a \in Attempts: Minted(a) =>
       att[a].new \in 1..issued /\ grant[att[a].new].user \in Users /\ job[att[a].new].st = "none"
  /\ \A a, b \in Attempts: Minted(a) /\ Minted(b) /\ att[a].new = att[b].new => a = b

\* A row lock belongs to the callback that is about to commit that row, and keeps it there.
LocksOK ==
  /\ \A u \in Users: rowLock[u] # None =>
       cb[rowLock[u]].pc = "locked" /\ cb[rowLock[u]].user = u
  /\ \A c \in Callbacks: cb[c].pc = "locked" =>
       rowLock[cb[c].user] = c /\ IsRow(cb[c].user, cb[c].row)

\* A credential that is on its way into a row: drawn, granted for that row, and held by
\* nobody else.
Incoming(k) ==
  \/ \E c \in Callbacks: cb[c].pc = "locked" /\ cb[c].new = k
  \/ \E a \in Attempts: att[a].pc = "put" /\ att[a].new = k
IncomingOK ==
  /\ \A c \in Callbacks: cb[c].pc = "locked" =>
       /\ cb[c].new \in 1..issued
       /\ grant[cb[c].new].user = cb[c].user /\ grant[cb[c].new].row = cb[c].row
  /\ \A a \in Attempts: att[a].pc = "put" =>
       /\ att[a].new \in stored
       /\ grant[att[a].new].user = att[a].user /\ grant[att[a].new].row = att[a].row
  /\ \A c, d \in Callbacks:
       cb[c].pc = "locked" /\ cb[d].pc = "locked" /\ cb[c].new = cb[d].new => c = d
  /\ \A c \in Callbacks, a \in Attempts:
       cb[c].pc = "locked" /\ Minted(a) => cb[c].new # att[a].new

\* A credential that is or was in a row, as far as anybody remembers: never one that is on
\* its way in, and remembered for the right user.
Seated(k) ==
  \/ \E u \in Users: conn[u].cred = k
  \/ \E a \in Attempts: Busy(a) /\ att[a].cred = k
  \/ \E c \in Callbacks: Told(c) /\ cb[c].cred = k
  \/ k \in adm.creds
SeatedOK ==
  /\ \A k \in 1..MaxCreds: Seated(k) => k <= issued /\ ~Incoming(k)
  /\ \A a \in Attempts: Busy(a) /\ att[a].cred # 0 => grant[att[a].cred].user = att[a].user
  /\ \A c \in Callbacks: Told(c) /\ cb[c].cred # 0 => grant[cb[c].cred].user = cb[c].user
  /\ \A u \in Users: conn[u].id = 0 => conn[u].cred = 0
  /\ adm.pc = "idle" \/ ~adm.found => adm.creds = {}
  /\ \A a \in Attempts: att[a].pc = "committed" /\ att[a].cred # 0
       => conn[att[a].user].cred # att[a].cred

IInv ==
  /\ TypeOK
  /\ Attributed
  /\ StateSingleUse
  /\ JobsOK
  /\ LocksOK
  /\ IncomingOK
  /\ SeatedOK
  /\ CredentialLineage

-----------------------------------------------------------------------------
(***************************************************************************)
(* The strengthening behind the other properties: an id names one row for  *)
(* good, a version says what is in it, and a lease who works on it.        *)
(***************************************************************************)

\* Ids are drawn once: two users have different rows, and nothing was written about a row that
\* was not inserted.  A row that is there has not been disconnected.
RowsOK ==
  /\ \A u \in Users: conn[u].id <= created
  /\ \A u, v \in Users: conn[u].id # 0 /\ conn[u].id = conn[v].id => u = v
  /\ \A r \in RowIds: r > created => outbox[r] = <<>>
  /\ \A u \in Users: conn[u].id # 0 =>
       \A i \in 1..Len(outbox[conn[u].id]): outbox[conn[u].id][i] # "disconnected"

\* Nobody remembers a row that was not inserted.
RecallOK ==
  /\ \A t \in Txns: txn[t].row <= created
  /\ \A c \in Callbacks: cb[c].row <= created
  /\ \A a \in Attempts: att[a].row <= created
  /\ \A k \in CredIds: grant[k].row <= created
  /\ \A u \in Users: seen[u].id <= created

\* Who has read version ver of a row, and in it cred, finds no other credential in that version,
\* unless a policy change has taken it away.
Read(u, r, ver, cred) ==
  IsRow(u, r) =>
    ver <= conn[u].ver /\ (ver = conn[u].ver => conn[u].cred \in {cred, 0})
VersionsOK ==
  /\ \A c \in Callbacks: Told(c) => Read(cb[c].user, cb[c].row, cb[c].ver, cb[c].cred)
  /\ \A a \in Attempts: AtProvider(a) => Read(att[a].user, att[a].row, att[a].ver, att[a].cred)
  /\ \A c \in Callbacks: cb[c].pc = "locked" =>
       conn[cb[c].user].ver = cb[c].ver /\ grant[cb[c].new].base = cb[c].cred
  /\ \A a \in Attempts: att[a].pc = "put" => grant[att[a].new].base = att[a].cred
  /\ \A u \in Users: IsRow(u, seen[u].id) =>
       seen[u].ver <= conn[u].ver /\ (seen[u].ver = conn[u].ver => conn[u].exp = "past")

\* A run works on its user's row; at the provider, it holds the row's lease, or the lease ran out.
\* A lease that is held is that of a run at work on the row: without a fault, it is free for the
\* next attempt.
HasLease(a, u) ==
  att[a].pc \in {"acquired", "read", "put", "dropped"} /\ att[a].user = u /\ HoldsLock(a)
LeaseOK ==
  /\ \A a \in Attempts, u \in Users: Busy(a) /\ IsRow(u, att[a].row) => u = att[a].user
  /\ \A a \in Attempts:
       AtProvider(a) /\ a \notin late /\ IsRow(att[a].user, att[a].row)
         => conn[att[a].user].lock = a /\ conn[att[a].user].held
  /\ faults = 0 => \A u \in Users: conn[u].held => \E a \in Attempts: HasLease(a, u)

\* The id 0 names no secret, and a policy request that has selected was counted.
OwnersOK ==
  /\ 0 \notin stored
  /\ adm.pc = "selected" => changes > 0

RecordIInv ==
  /\ RowsOK
  /\ VersionCountsEvents
  /\ DisconnectedIsLast
  /\ RecallOK
  /\ VersionsOK
  /\ LeaseOK
  /\ RefreshMutex
  /\ OwnersOK
  /\ NoOrphanedSecret

-----------------------------------------------------------------------------
(***************************************************************************)
(* What is told of a row, and the contract that the lifecycle implements.  *)
(***************************************************************************)

\* The events about a row begin with "connected", unless its removal is all there is to tell.
AuthorizedFirst ==
  \A r \in RowIds: outbox[r] # <<>> => outbox[r][1] \in {"connected", "disconnected"}

\* Who takes a row for connected has seen a version after its first, the one of its insertion.
ConnectedOK ==
  /\ \A u \in Users: conn[u].id # 0 /\ conn[u].status = "connected" => conn[u].ver > 1
  /\ \A c \in Callbacks: Told(c) => cb[c].row # 0 /\ (cb[c].status = "connected" => cb[c].ver > 1)
  /\ \A a \in Attempts: Busy(a) => att[a].row # 0
  /\ \A a \in Attempts: AtProvider(a) => att[a].ver > 1
  /\ \A u \in Users: seen[u].id # 0 => seen[u].ver > 1

TaleIInv == AuthorizedFirst /\ ConnectedOK /\ VerifierIsKept

\* The credentials that callbacks and runs are about to put into a row.
Offers ==
  {[key |-> cb[c].new, user |-> cb[c].user, row |-> cb[c].row, base |-> cb[c].cred] :
     c \in {c \in Callbacks: cb[c].pc = "locked"}}
  \cup
  {[key |-> att[a].new, user |-> att[a].user, row |-> att[a].row, base |-> att[a].cred] :
     a \in {a \in Attempts: att[a].pc = "put"}}

\* The handlers and jobs together implement the connections' contract: whatever overlaps, each
\* step is one of an object whose credential is compared and swapped with its event.
Contract == INSTANCE ConnectionContract WITH
  row <- [u \in Users |-> conn[u].id], rows <- created,
  key <- [u \in Users |-> conn[u].cred], keys <- issued,
  offers <- Offers, tale <- outbox
KeepsContract == Contract!ContractSpec

-----------------------------------------------------------------------------
(***************************************************************************)
(* Action properties                                                       *)
(***************************************************************************)

\* Optimistic concurrency: a credential is replaced only by a writer that had read it, so no
\* callback or refresh overwrites one it does not know of.
ReplacesOnlyWhatItRead ==
  \A u \in Users:
    conn[u].cred # 0 /\ conn'[u].cred # 0 /\ conn'[u].cred # conn[u].cred
      => grant'[conn'[u].cred].base = conn[u].cred
NoLostCredential == [][ReplacesOnlyWhatItRead]_vars

\* A row keeps its credential and becomes "expired" only when that credential's own expiry
\* has passed: the sweep never takes down a row refreshed or re-authorized behind its back.
ExpiresOnlyOverdue ==
  \A u \in Users:
    conn'[u].status = "expired" /\ conn[u].status # "expired" /\ conn'[u].cred # 0
      => Overdue(u)
NoSpuriousExpiry == [][ExpiresOnlyOverdue]_vars

\* A credential that was drawn and is neither in a row nor on its way into one never gets
\* there: replaced, revoked or dropped, it is spent, however late its owner or reader.
Spent(k) == k <= issued /\ ~Incoming(k) /\ \A u \in Users: conn[u].cred # k
SpentOnesStay == \A k \in 1..MaxCreds: Spent(k) => Spent(k)'
SpentStaysSpent == [][SpentOnesStay]_vars

-----------------------------------------------------------------------------
(***************************************************************************)
(* Liveness                                                                *)
(***************************************************************************)

\* A connection whose expiry has passed does not stay "connected": it is refreshed, marked,
\* replaced or removed.
OverdueIsResolved == \A u \in Users: Overdue(u) ~> ~Overdue(u)

-----------------------------------------------------------------------------
(***************************************************************************)
(* What the documentation says and the code does not do                    *)
(***************************************************************************)

\* A policy change makes every user authorize again: whoever is connected while the policy is
\* read_only was asked for no more than the read-only scopes.
NoStaleGrant ==
  \A u \in Users:
    conn[u].status = "connected" /\ conn[u].cred # 0
      => ~(service.policy = "read_only" /\ grant[conn[u].cred].policy = "full")

\* No connection that a policy change expired is left with credential material: an expired
\* row either has none, or was marked by the sweep and said so with its last event.
LastEvent(r) == IF outbox[r] = <<>> THEN "none" ELSE outbox[r][Len(outbox[r])]
ExpiredHasNoCiphertext ==
  \A u \in Users:
    conn[u].status = "expired" /\ conn[u].cred # 0 => LastEvent(conn[u].id) = "expired"

\* Connection changes are delivered through the outbox: the status of an existing row does
\* not change unless an event is written with it.
ChangesArePublished ==
  \A u \in Users:
    conn[u].id # 0 /\ conn'[u].id = conn[u].id /\ conn'[u].status # conn[u].status
      => outbox'[conn[u].id] # outbox[conn[u].id]
StatusChangesPublished == [][ChangesArePublished]_vars

\* Refresh continues in the background: a connected credential that expires and may be
\* refreshed has a job waiting for it or at work on it.
RefreshIsCovered ==
  \A u \in Users:
    conn[u].status = "connected" /\ conn[u].cred # 0 /\ grant[conn[u].cred].expires
      => \E k \in 1..MaxCreds:
           grant[k].row = conn[u].id /\ job[k].st \in {"waiting", "active"}
=============================================================================
