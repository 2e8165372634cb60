----------------------- MODULE ConnectionSafetyProofs -----------------------
(***************************************************************************)
(* StateSingleUse and CredentialLineage of ConnectionLifecycle, for every  *)
(* value of its constants: any number of users, requests and workers, and  *)
(* any bound on rows, secrets, retries, faults and policy changes.        *)
(*                                                                         *)
(* CredentialLineage is a statement about rows and secrets, but nearly     *)
(* every step that touches either acts on what it remembers from an        *)
(* earlier one.  Safe adds that what is remembered is still true: who      *)
(* holds a row lock (LocksOK), which secrets are on their way into a row   *)
(* (IncomingOK), and that a secret somebody is going to delete is not one  *)
(* of them (SeatedOK).  Most steps leave all of this alone; they are       *)
(* Quiet, and share one proof.                                             *)
(***************************************************************************)
EXTENDS ConnectionTypeProofs

Safe == LocksOK /\ IncomingOK /\ SeatedOK /\ CredentialLineage

\* No row loses its identity or changes its credential; a new row has none.
RowsKept ==
  \A u \in Users:
    conn'[u].cred = conn[u].cred /\ (conn[u].id # 0 => conn'[u].id = conn[u].id)

\* Nothing is stored, granted, locked or deleted, and whoever remembers a credential afterwards
\* remembered it before or has just read it in its row.
Quiet ==
  /\ RowsKept
  /\ UNCHANGED <<rowLock, stored, grant, issued>>
  /\ \A c \in Callbacks:
       \/ cb'[c] = cb[c]
       \/ cb[c].pc # "locked" /\ cb'[c].pc \in {"idle", "consumed"}
       \/ /\ cb[c].pc = "consumed" /\ cb'[c].pc = "exchanging"
          /\ cb'[c].user = cb[c].user /\ cb'[c].cred = conn[cb[c].user].cred
  /\ \A a \in Attempts:
       \/ att'[a] = att[a]
       \/ att'[a].pc = "idle"
       \/ /\ att[a].pc = "acquired" /\ att'[a].pc = "read"
          /\ att'[a].user = att[a].user /\ att'[a].cred = att[a].cred
       \/ /\ att'[a].pc = "acquired"
          /\ att'[a].user \in Users /\ att'[a].cred = conn[att'[a].user].cred
  /\ \/ adm' = adm
     \/ adm' = IdleAdmin
     \/ /\ adm'.pc = "selected" /\ adm'.creds = {conn[u].cred : u \in Users} \ {0}
        /\ ~adm'.found => \A u \in Users: conn[u].id = 0

\* What ConnectionTypeProofs needs of the state is part of the inductive invariant.
LEMMA IInvTypes == IInv => TypeInv
  BY DEF IInv, TypeInv

\* The ranges of the identifiers that index the rows, grants and locks.
LEMMA Ranges ==
  ASSUME IInv
  PROVE  /\ issued \in Nat /\ MaxCreds \in Nat /\ issued <= MaxCreds
         /\ None \notin Callbacks
         /\ rowLock \in [Users -> Callbacks \cup {None}]
         /\ \A u \in Users: conn[u].cred \in CredIds
         /\ \A c \in Callbacks: cb[c].cred \in CredIds /\ cb[c].new \in CredIds
         /\ \A a \in Attempts: att[a].cred \in CredIds /\ att[a].new \in CredIds
         /\ \A c \in Callbacks: Working(c) => cb[c].user \in Users
         /\ \A a \in Attempts: Busy(a) => att[a].user \in Users
         /\ CredIds = 0..MaxCreds
<1>1. TypeInv
  BY IInvTypes
<1> QED BY <1>1, Types, StoreAssumption DEF Row, Callback, Attempt, TypeInv, Attributed, CredIds

\* A quiet step cannot break what the rows, the secrets and those at work know of each other.
LEMMA QuietSafe == ASSUME IInv, Quiet PROVE Safe'
<1>1. LocksOK'
  BY Ranges DEF IInv, Quiet, RowsKept, LocksOK, IsRow, Working
<1>2. IncomingOK'
  BY DEF IInv, Quiet, IncomingOK, Minted
<1>3. \A k \in 1..MaxCreds: (Incoming(k)' => Incoming(k)) /\ (Seated(k)' => Seated(k))
  <2>1. ASSUME NEW k \in 1..MaxCreds, Incoming(k)' PROVE Incoming(k)
    BY <2>1 DEF Quiet, Incoming
  <2>2. ASSUME NEW k \in 1..MaxCreds, Seated(k)' PROVE Seated(k)
    BY <2>2, Ranges DEF Quiet, RowsKept, Seated, Told, Busy, Working, IdleAdmin
  <2> QED BY <2>1, <2>2
<1>4. SeatedOK'
  <2>1. \A k \in 1..MaxCreds: Seated(k)' => k <= issued' /\ ~Incoming(k)'
    BY <1>3 DEF IInv, SeatedOK, Quiet
  <2>2. \A a \in Attempts:
          Busy(a)' /\ att'[a].cred # 0 => grant'[att'[a].cred].user = att'[a].user
    BY DEF IInv, SeatedOK, Quiet, Busy, CredentialLineage
  <2>3. \A c \in Callbacks:
          Told(c)' /\ cb'[c].cred # 0 => grant'[cb'[c].cred].user = cb'[c].user
    BY Ranges DEF IInv, SeatedOK, Quiet, Told, Working, CredentialLineage
  <2>4. \A u \in Users: conn'[u].id = 0 => conn'[u].cred = 0
    BY DEF IInv, SeatedOK, Quiet, RowsKept
  <2>5. adm'.pc = "idle" \/ ~adm'.found => adm'.creds = {}
    BY DEF IInv, SeatedOK, Quiet, IdleAdmin
  <2>6. \A a \in Attempts: att'[a].pc = "committed" /\ att'[a].cred # 0
          => conn'[att'[a].user].cred # att'[a].cred
    BY Ranges DEF IInv, SeatedOK, Quiet, RowsKept, Busy
  <2> QED BY <2>1, <2>2, <2>3, <2>4, <2>5, <2>6 DEF SeatedOK
<1>5. CredentialLineage'
  BY DEF IInv, CredentialLineage, Quiet, RowsKept, SeatedOK
<1> QED BY <1>1, <1>2, <1>4, <1>5 DEF Safe

-----------------------------------------------------------------------------
(***************************************************************************)
(* Authorization                                                           *)
(***************************************************************************)

\* issueAuthorizationRedirect inserts a row without a credential, and only where none was.
LEMMA MintQuiet == ASSUME IInv, NEW t \in Txns, AuthorizeMint(t) PROVE Quiet
<1> DEFINE u == txn[t].user
<1>1. conn \in [Users -> Row] /\ u \in Users
  BY IInvTypes, Types DEF IInv, Attributed, AuthorizeMint
<1>2. RowsKept
  <2>1. CASE conn[u].id # 0
    BY <2>1 DEF AuthorizeMint, RowsKept
  <2>2. CASE conn[u].id = 0
    <3>1. conn' = [conn EXCEPT ![u] = [NoRow EXCEPT !.id = created + 1, !.status = "pending",
                                                    !.ver = 1]]
      BY <2>2 DEF AuthorizeMint
    <3>2. conn'[u].cred = 0 /\ \A v \in Users \ {u}: conn'[v] = conn[v]
      BY <1>1, <3>1 DEF NoRow
    <3>3. conn[u].cred = 0
      BY <1>1, <2>2 DEF IInv, SeatedOK
    <3> QED BY <1>1, <2>2, <3>2, <3>3 DEF RowsKept
  <2> QED BY <2>1, <2>2
<1> QED BY <1>2 DEF AuthorizeMint, Quiet, refreshVars, policyVars

\* The callback's new secret is fresh, and granted for the row whose lock it takes.
LEMMA StoreSafe ==
  ASSUME IInv, NEW c \in Callbacks, NEW expires \in BOOLEAN, CallbackStore(c, expires)
  PROVE  Safe'
<1> DEFINE new == issued + 1
           u == cb[c].user
<1>0. /\ cb \in [Callbacks -> Callback] /\ rowLock \in [Users -> Callbacks \cup {None}]
      /\ grant \in [CredIds -> Grant]
  BY IInvTypes, Types
<1>1. cb[c].pc = "exchanging" /\ u \in Users /\ rowLock[u] = None /\ IsRow(u, cb[c].row)
  BY Ranges DEF CallbackStore, IsAsRead, Working
<1>2. new \in CredIds /\ new \notin 1..issued /\ new \in 1..new /\ 1..issued \subseteq 1..new
  BY Ranges DEF CallbackStore
<1>3. /\ cb'[c].pc = "locked" /\ cb'[c].new = new /\ cb'[c].user = u /\ cb'[c].row = cb[c].row
      /\ cb'[c].cred = cb[c].cred
      /\ \A d \in Callbacks \ {c}: cb'[d] = cb[d]
  BY <1>0 DEF CallbackStore, Callback
<1>4. rowLock'[u] = c /\ \A v \in Users \ {u}: rowLock'[v] = rowLock[v]
  BY <1>0, <1>1 DEF CallbackStore
<1>5. /\ grant'[new].user = u /\ grant'[new].row = cb[c].row
      /\ \A k \in CredIds \ {new}: grant'[k] = grant[k]
  BY <1>0, <1>2 DEF CallbackStore
<1>6. issued' = new /\ UNCHANGED <<conn, stored, att, adm>>
  BY DEF CallbackStore, refreshVars, policyVars
<1> HIDE DEF u, new
<1>7. LocksOK'
  BY <1>1, <1>3, <1>4, <1>6, Ranges DEF IInv, LocksOK, IsRow, Working
<1>8. /\ \A d \in Callbacks: cb[d].pc = "locked" => cb[d].new # new
      /\ \A a \in Attempts: Minted(a) => att[a].new # new
  BY <1>2 DEF IInv, IncomingOK, JobsOK
<1>9. IncomingOK'
  BY SMTT(30), <1>1, <1>2, <1>3, <1>5, <1>6, <1>8, Ranges DEF IInv, IncomingOK, Minted
<1>10. \A k \in 1..MaxCreds: (Incoming(k)' => Incoming(k) \/ k = new) /\ (Seated(k)' => Seated(k))
  BY <1>1, <1>3, <1>6 DEF Incoming, Seated, Told, Busy
<1>11. \A k \in 1..MaxCreds: Seated(k) => k <= issued /\ k # new /\ k \in CredIds
  BY <1>2, Ranges DEF IInv, SeatedOK
<1>12. SeatedOK'
  <2>1. \A k \in 1..MaxCreds: Seated(k)' => k <= issued' /\ ~Incoming(k)'
    BY <1>2, <1>6, <1>10, <1>11, Ranges DEF IInv, SeatedOK, new
  <2>2. \A a \in Attempts: Busy(a)' /\ att'[a].cred # 0 => grant'[att'[a].cred].user = att'[a].user
    BY <1>5, <1>6, <1>11, Ranges DEF IInv, SeatedOK, Busy, Seated
  <2>3. \A d \in Callbacks: Told(d)' /\ cb'[d].cred # 0 => grant'[cb'[d].cred].user = cb'[d].user
    BY <1>1, <1>3, <1>5, <1>11, Ranges DEF IInv, SeatedOK, Told, Seated, u
  <2> QED BY <1>6, <2>1, <2>2, <2>3 DEF IInv, SeatedOK
<1>13. CredentialLineage'
  BY <1>5, <1>6, <1>11, Ranges DEF IInv, CredentialLineage, Seated
<1> QED BY <1>7, <1>9, <1>12, <1>13 DEF Safe

\* The callback commits: the row points at the secret granted for it, and the one it deletes
\* is in no other row.
LEMMA CommitSafe == ASSUME IInv, NEW c \in Callbacks, CallbackCommit(c) PROVE Safe'
<1> DEFINE u == cb[c].user
           new == cb[c].new
           old == cb[c].cred
<1>0. /\ cb \in [Callbacks -> Callback] /\ rowLock \in [Users -> Callbacks \cup {None}]
      /\ conn \in [Users -> Row]
  BY IInvTypes, Types
<1>1. /\ cb[c].pc = "locked" /\ u \in Users /\ rowLock[u] = c /\ IsRow(u, cb[c].row)
      /\ new \in 1..issued /\ grant[new].user = u /\ grant[new].row = conn[u].id
      /\ old # 0 => grant[old].user = u
  <2>1. cb[c].pc = "locked" /\ u \in Users
    BY Ranges DEF CallbackCommit, Working
  <2>2. rowLock[u] = c /\ IsRow(u, cb[c].row)
    BY <2>1 DEF IInv, LocksOK
  <2>3. new \in 1..issued /\ grant[new].user = u /\ grant[new].row = cb[c].row
    BY <2>1 DEF IInv, IncomingOK
  <2>4. old # 0 => grant[old].user = u
    BY <2>1 DEF IInv, SeatedOK, Told
  <2> QED BY <2>1, <2>2, <2>3, <2>4 DEF IsRow
<1>2. /\ conn'[u].cred = new /\ conn'[u].id = conn[u].id
      /\ \A v \in Users \ {u}: conn'[v] = conn[v]
  BY IInvTypes, CommitWrites DEF OthersKept
<1>3. /\ rowLock'[u] = None /\ \A v \in Users \ {u}: rowLock'[v] = rowLock[v]
      /\ stored' = (stored \ {old}) \cup {new}
      /\ cb'[c].pc = "idle" /\ \A d \in Callbacks \ {c}: cb'[d] = cb[d]
      /\ UNCHANGED <<grant, issued, att, adm>>
  BY <1>0, <1>1 DEF CallbackCommit, IdleCallback, refreshVars, policyVars
<1> HIDE DEF u, new, old
<1>4. \A d \in Callbacks \ {c}: cb[d].pc = "locked" => cb[d].user # u /\ cb[d].new # new
  BY <1>1 DEF IInv, LocksOK, IncomingOK, u, new
<1>5. \A a \in Attempts: Minted(a) => att[a].new # new
  BY <1>1 DEF IInv, IncomingOK, new
<1>6. new \in 1..MaxCreds /\ new <= issued /\ ~Seated(new)
  BY <1>1, Ranges DEF IInv, SeatedOK, Incoming, new
<1>7. \A k \in 1..MaxCreds: Seated(k) => ~Incoming(k)
  BY DEF IInv, SeatedOK
<1>8. LocksOK'
  BY <1>1, <1>2, <1>3, <1>4, Ranges DEF IInv, LocksOK, IsRow, Working, u
<1>9. \A a \in Attempts: att[a].pc = "put" => att[a].new # old \/ old = 0
  BY <1>1, <1>7, Ranges DEF Seated, Told, Incoming, old
<1>10. IncomingOK'
  <2>1. \A a \in Attempts: att'[a].pc = "put" => att'[a].new \in stored'
    BY <1>3, <1>5, <1>9, Ranges DEF IInv, IncomingOK, Minted, JobsOK
  <2> QED BY <1>3, <2>1 DEF IInv, IncomingOK, Minted
<1>11. \A k \in 1..MaxCreds: Incoming(k)' => Incoming(k) /\ k # new
  BY <1>3, <1>4, <1>5 DEF Incoming, Minted
<1>12. \A k \in 1..MaxCreds: Seated(k)' => Seated(k) \/ k = new
  BY <1>2, <1>3 DEF Seated, Told, Busy
<1>13. SeatedOK'
  <2>1. \A k \in 1..MaxCreds: Seated(k)' => k <= issued' /\ ~Incoming(k)'
    BY <1>3, <1>6, <1>11, <1>12 DEF IInv, SeatedOK
  <2>2. \A d \in Callbacks: Told(d)' /\ cb'[d].cred # 0 => grant'[cb'[d].cred].user = cb'[d].user
    BY <1>3 DEF IInv, SeatedOK, Told
  <2>3. \A v \in Users: conn'[v].id = 0 => conn'[v].cred = 0
    BY <1>1, <1>2 DEF IInv, SeatedOK, IsRow
  <2>4. \A a \in Attempts: att'[a].pc = "committed" /\ att'[a].cred # 0
          => conn'[att'[a].user].cred # att'[a].cred
    <3>1. \A a \in Attempts: Busy(a) /\ att[a].cred # 0 => att[a].cred # new
      BY <1>6 DEF Seated
    <3> QED BY <1>2, <1>3, <3>1, Ranges DEF IInv, SeatedOK, Busy
  <2> QED BY <1>3, <2>1, <2>2, <2>3, <2>4 DEF IInv, SeatedOK, Busy
<1>14. CredentialLineage'
  <2>1. \A v \in Users \ {u}: conn[v].cred # 0 => conn[v].cred # old
    BY <1>1 DEF IInv, CredentialLineage
  <2>2. conn'[u].cred \in stored' /\ grant'[conn'[u].cred].user = u
        /\ grant'[conn'[u].cred].row = conn'[u].id
    BY <1>1, <1>2, <1>3
  <2> QED BY <1>2, <1>3, <2>1, <2>2 DEF IInv, CredentialLineage
<1> QED BY <1>8, <1>10, <1>13, <1>14 DEF Safe

\* A callback whose transaction rolls back gives up its row lock and changes nothing else.
LEMMA AbortSafe == ASSUME IInv, NEW c \in Callbacks, CallbackAbort(c) PROVE Safe'
<1>0. cb \in [Callbacks -> Callback]
  BY IInvTypes, Types
<1>1. /\ cb[c].pc # "idle"
      /\ cb'[c].pc = "idle" /\ \A d \in Callbacks \ {c}: cb'[d] = cb[d]
      /\ UNCHANGED <<conn, stored, grant, issued, att, adm>>
  BY <1>0 DEF CallbackAbort, IdleCallback, refreshVars, policyVars
<1>2. /\ cb[c].pc = "locked" => rowLock'[cb[c].user] = None
      /\ \A u \in Users: rowLock'[u] = rowLock[u] \/ rowLock'[u] = None
      /\ \A u \in Users: u # cb[c].user \/ cb[c].pc # "locked" => rowLock'[u] = rowLock[u]
  BY <1>1, Ranges DEF CallbackAbort, Working
<1>3. LocksOK'
  BY <1>1, <1>2, Ranges DEF IInv, LocksOK, IsRow, Working
<1>4. IncomingOK'
  BY <1>1 DEF IInv, IncomingOK, Minted
<1>5. \A k \in 1..MaxCreds: (Incoming(k)' => Incoming(k)) /\ (Seated(k)' => Seated(k))
  BY <1>1 DEF Incoming, Seated, Told, Busy
<1>6. SeatedOK'
  BY <1>1, <1>5 DEF IInv, SeatedOK, Busy, Told
<1>7. CredentialLineage'
  BY <1>1 DEF IInv, CredentialLineage
<1> QED BY <1>3, <1>4, <1>6, <1>7 DEF Safe

\* A disconnect takes the row with the one secret it points at: no callback holds the row's
\* lock (Pinned), and nobody is bringing that secret in.
LEMMA DisconnectSafe == ASSUME IInv, NEW s \in Sessions, Disconnect(s) PROVE Safe'
<1> DEFINE u == session[s].user
<1>0. conn \in [Users -> Row] /\ u \in Users
  BY IInvTypes, Types DEF IInv, Attributed, Disconnect
<1>1. /\ conn'[u].cred = 0 /\ conn'[u].id = 0 /\ \A v \in Users \ {u}: conn'[v] = conn[v]
      /\ stored' = stored \ {conn[u].cred}
      /\ UNCHANGED <<cb, rowLock, grant, issued, att, adm>>
  BY <1>0 DEF Disconnect, NoRow, refreshVars, policyVars
<1>2. \A c \in Callbacks: cb[c].pc = "locked" => cb[c].user # u
  BY DEF Disconnect, Pinned, IInv, LocksOK, IsRow
<1> HIDE DEF u
<1>3. LocksOK'
  BY <1>0, <1>1, <1>2, Ranges DEF IInv, LocksOK, IsRow, Working
<1>4. \A a \in Attempts: att[a].pc = "put" => att[a].new # conn[u].cred
  BY <1>0, Ranges DEF IInv, SeatedOK, Seated, Incoming, JobsOK, Minted
<1>5. IncomingOK'
  BY <1>1, <1>4 DEF IInv, IncomingOK, Minted
<1>6. \A k \in 1..MaxCreds: (Incoming(k)' => Incoming(k)) /\ (Seated(k)' => Seated(k))
  BY <1>1 DEF Incoming, Seated, Told, Busy
<1>7. SeatedOK'
  <2>1. \A k \in 1..MaxCreds: Seated(k)' => k <= issued' /\ ~Incoming(k)'
    BY <1>1, <1>6 DEF IInv, SeatedOK
  <2>2. \A v \in Users: conn'[v].id = 0 => conn'[v].cred = 0
    BY <1>0, <1>1 DEF IInv, SeatedOK
  <2>3. \A a \in Attempts: att'[a].pc = "committed" /\ att'[a].cred # 0
          => conn'[att'[a].user].cred # att'[a].cred
    BY <1>0, <1>1, Ranges DEF IInv, SeatedOK, Busy
  <2> QED BY <1>1, <2>1, <2>2, <2>3 DEF IInv, SeatedOK, Busy, Told
<1>8. CredentialLineage'
  BY <1>0, <1>1 DEF IInv, CredentialLineage
<1> QED BY <1>3, <1>5, <1>7, <1>8 DEF Safe

\* No step of the connect flow breaks Safe.
LEMMA AuthSafe == ASSUME IInv, AuthNext PROVE Safe'
<1>conn. conn \in [Users -> Row]
  BY IInvTypes, Types
<1>cb. cb \in [Callbacks -> Callback]
  BY IInvTypes, Types
<1>1. ASSUME NEW s \in Sessions, NEW u \in Users, NEW stepUp \in BOOLEAN, CreateSession(s, u,
     stepUp) PROVE Quiet
  BY <1>1 DEF CreateSession, Quiet, RowsKept, storeVars, refreshVars, policyVars
<1>2. ASSUME NEW s \in Sessions, SessionEnds(s) PROVE Quiet
  BY <1>2 DEF SessionEnds, Quiet, RowsKept, storeVars, refreshVars, policyVars
<1>3. ASSUME NEW s \in Sessions, StepUpEnds(s) PROVE Quiet
  BY <1>3 DEF StepUpEnds, Quiet, RowsKept, storeVars, refreshVars, policyVars
<1>4. ASSUME NEW s \in Sessions, DisconnectLoad(s) PROVE Quiet
  BY <1>4 DEF DisconnectLoad, Quiet, RowsKept, storeVars, refreshVars, policyVars
<1>5. ASSUME NEW s \in Sessions, Disconnect(s) PROVE Safe'
  BY <1>5, DisconnectSafe
<1>6. ASSUME NEW s \in Sessions, DisconnectAbort(s) PROVE Quiet
  BY <1>6 DEF DisconnectAbort, Quiet, RowsKept, storeVars, refreshVars, policyVars
<1>7. ASSUME NEW t \in Txns, NEW s \in Sessions, AuthorizeLoad(t, s) PROVE Quiet
  BY <1>7 DEF AuthorizeLoad, Quiet, RowsKept, storeVars, refreshVars, policyVars
<1>8. ASSUME NEW t \in Txns, AuthorizeMint(t) PROVE Quiet
  BY <1>8, MintQuiet
<1>9. ASSUME NEW t \in Txns, StateLapses(t) PROVE Quiet
  BY <1>9 DEF StateLapses, Quiet, RowsKept, storeVars, refreshVars, policyVars
<1>10. ASSUME NEW c \in Callbacks, NEW t \in Txns, CallbackConsume(c, t) PROVE Quiet
  BY <1>10, <1>cb DEF CallbackConsume, IdleCallback, Quiet, RowsKept, Callback, storeVars,
                      refreshVars, policyVars
<1>11. ASSUME NEW c \in Callbacks, CallbackRefused(c) PROVE Quiet
  BY <1>11, <1>cb DEF CallbackRefused, IdleCallback, Quiet, RowsKept, Callback, storeVars,
                      refreshVars, policyVars
<1>12. ASSUME NEW c \in Callbacks, CallbackBegin(c) PROVE Quiet
  BY SMTT(30), <1>12, <1>cb DEF CallbackBegin, Quiet, RowsKept, Callback, storeVars, refreshVars,
                      policyVars
<1>13. ASSUME NEW c \in Callbacks, CallbackFail(c) PROVE Quiet
  BY <1>13, <1>conn, <1>cb DEF CallbackFail, IdleCallback, Quiet, RowsKept, Row, Callback,
                               refreshVars, policyVars
<1>14. ASSUME NEW c \in Callbacks, CallbackNoToken(c) PROVE Quiet
  BY <1>14, <1>cb DEF CallbackNoToken, IdleCallback, Quiet, RowsKept, Callback, storeVars,
                      refreshVars, policyVars
<1>15. ASSUME NEW c \in Callbacks, CallbackConflict(c) PROVE Quiet
  BY <1>15, <1>cb DEF CallbackConflict, IdleCallback, Quiet, RowsKept, Callback, storeVars,
                      refreshVars, policyVars
<1>16. ASSUME NEW c \in Callbacks, NEW expires \in BOOLEAN, CallbackStore(c, expires) PROVE
     Safe'
  BY <1>16, StoreSafe
<1>17. ASSUME NEW c \in Callbacks, CallbackCommit(c) PROVE Safe'
  BY <1>17, CommitSafe
<1>18. ASSUME NEW c \in Callbacks, CallbackAbort(c) PROVE Safe'
  BY <1>18, AbortSafe
<1> QED BY QuietSafe, <1>1, <1>2, <1>3, <1>4, <1>5, <1>6, <1>7, <1>8, <1>9, <1>10, <1>11,
           <1>12, <1>13, <1>14, <1>15, <1>16, <1>17, <1>18
           DEF AuthNext, CallbackStep

-----------------------------------------------------------------------------
(***************************************************************************)
(* TokenRefresh                                                            *)
(***************************************************************************)

\* The refresh lease is taken on the row as it is, and what the run remembers is true of it.
LEMMA AcquireQuiet ==
  ASSUME IInv, NEW a \in Attempts, NEW k \in 1..MaxCreds, RefreshAcquire(a, k) PROVE Quiet
<1> DEFINE u == grant[k].user
<1>1. conn \in [Users -> Row] /\ att \in [Attempts -> Attempt]
  BY IInvTypes, Types
<1>2. u \in Users
  BY DEF IInv, JobsOK, RefreshAcquire, Due, CredIds
<1>3. RowsKept
  <2>1. conn' = [conn EXCEPT ![u].lock = a, ![u].held = TRUE]
    BY DEF RefreshAcquire
  <2> HIDE DEF u
  <2> QED BY <1>1, <1>2, <2>1 DEF RowsKept, Row
<1>4. /\ att'[a].pc = "acquired" /\ att'[a].user = u /\ att'[a].cred = conn[u].cred
      /\ \A b \in Attempts \ {a}: att'[b] = att[b]
  BY <1>1 DEF RefreshAcquire, IdleAttempt
<1>5. UNCHANGED <<rowLock, stored, grant, issued, cb, adm>>
  BY DEF RefreshAcquire, authVars, policyVars
<1> QED BY <1>2, <1>3, <1>4, <1>5 DEF Quiet

\* The worker's new secret is fresh, and granted for the row the run was started for.
LEMMA PutSafe ==
  ASSUME IInv, NEW a \in Attempts, NEW expires \in BOOLEAN, RefreshPut(a, expires)
  PROVE  Safe'
<1> DEFINE new == issued + 1
           u == att[a].user
<1>0. att \in [Attempts -> Attempt] /\ grant \in [CredIds -> Grant]
  BY IInvTypes, Types
<1>1. att[a].pc = "read" /\ u \in Users
  BY Ranges DEF RefreshPut, Busy
<1>2. new \in CredIds /\ new \notin 1..issued /\ new \in 1..new /\ 1..issued \subseteq 1..new
  BY Ranges DEF RefreshPut
<1>3. /\ att'[a].pc = "put" /\ att'[a].new = new /\ att'[a].user = u /\ att'[a].row = att[a].row
      /\ att'[a].cred = att[a].cred
      /\ \A b \in Attempts \ {a}: att'[b] = att[b]
  BY <1>0, <1>1 DEF RefreshPut, Attempt
<1>4. stored' = stored \cup {new}
  BY DEF RefreshPut
<1>5. /\ grant'[new].user = u /\ grant'[new].row = att[a].row
      /\ \A k \in CredIds \ {new}: grant'[k] = grant[k]
  BY <1>0, <1>2 DEF RefreshPut
<1>6. issued' = new /\ UNCHANGED <<conn, rowLock, cb, adm>>
  BY DEF RefreshPut, authVars, policyVars
<1> HIDE DEF u, new
<1>7. LocksOK'
  BY <1>6 DEF IInv, LocksOK, IsRow
<1>8. /\ \A d \in Callbacks: cb[d].pc = "locked" => cb[d].new # new /\ cb[d].new \in CredIds
      /\ \A b \in Attempts: Minted(b) => att[b].new # new /\ att[b].new \in CredIds
  BY <1>2, Ranges DEF IInv, IncomingOK, JobsOK
<1>9. IncomingOK'
  BY <1>1, <1>2, <1>3, <1>4, <1>5, <1>6, <1>8 DEF IInv, IncomingOK, Minted
<1>10. \A k \in 1..MaxCreds: (Incoming(k)' => Incoming(k) \/ k = new) /\ (Seated(k)' => Seated(k))
  BY <1>1, <1>3, <1>6 DEF Incoming, Seated, Told, Busy
<1>11. \A k \in 1..MaxCreds: Seated(k) => k <= issued /\ k # new /\ k \in CredIds
  BY <1>2, Ranges DEF IInv, SeatedOK
<1>12. SeatedOK'
  <2>1. \A k \in 1..MaxCreds: Seated(k)' => k <= issued' /\ ~Incoming(k)'
    BY <1>2, <1>6, <1>10, <1>11, Ranges DEF IInv, SeatedOK, new
  <2>2. \A b \in Attempts: Busy(b)' /\ att'[b].cred # 0 => grant'[att'[b].cred].user = att'[b].user
    BY <1>1, <1>3, <1>5, <1>11, Ranges DEF IInv, SeatedOK, Busy, Seated, u
  <2>3. \A d \in Callbacks: Told(d)' /\ cb'[d].cred # 0 => grant'[cb'[d].cred].user = cb'[d].user
    BY <1>5, <1>6, <1>11, Ranges DEF IInv, SeatedOK, Told, Seated
  <2>4. \A b \in Attempts: att'[b].pc = "committed" /\ att'[b].cred # 0
          => conn'[att'[b].user].cred # att'[b].cred
    BY <1>3, <1>6 DEF IInv, SeatedOK
  <2> QED BY <1>6, <2>1, <2>2, <2>3, <2>4 DEF IInv, SeatedOK
<1>13. CredentialLineage'
  BY <1>4, <1>5, <1>6, <1>11, Ranges DEF IInv, CredentialLineage, Seated
<1> QED BY <1>7, <1>9, <1>12, <1>13 DEF Safe

\* The worker commits: the row it rotates is the one the new secret was granted for, and the
\* secret it will delete is no longer in it.
LEMMA RotateSafe == ASSUME IInv, NEW a \in Attempts, RefreshCommit(a) PROVE Safe'
<1> DEFINE u == att[a].user
           new == att[a].new
<1>0. conn \in [Users -> Row] /\ att \in [Attempts -> Attempt]
  BY IInvTypes, Types
<1>1. /\ att[a].pc = "put" /\ u \in Users /\ rowLock[u] = None /\ conn[u].id = att[a].row
      /\ conn[u].id # 0 /\ new \in 1..issued /\ new \in stored
      /\ grant[new].user = u /\ grant[new].row = conn[u].id
      /\ att[a].cred # 0 => grant[att[a].cred].user = u
  BY Ranges DEF IInv, IncomingOK, JobsOK, Minted, SeatedOK, Busy, RefreshCommit, StillMine,
                HoldsLock, IsRow
<1>2. /\ conn'[u].cred = new /\ conn'[u].id = conn[u].id
      /\ \A v \in Users \ {u}: conn'[v] = conn[v]
  <2> DEFINE row == [conn[u] EXCEPT !.cred = new, !.lock = None, !.held = FALSE,
                       !.exp = IF att[a].expires THEN "ahead" ELSE @, !.ver = @ + 1]
  <2>1. conn' = [conn EXCEPT ![u] = row]
    BY <1>0, <1>1 DEF RefreshCommit
  <2>2. row.cred = new /\ row.id = conn[u].id
    BY <1>0, <1>1 DEF Row
  <2> HIDE DEF row, u, new
  <2> QED BY <1>0, <1>1, <2>1, <2>2
<1>3. /\ att'[a].pc = "committed" /\ att'[a].new = new /\ att'[a].user = u
      /\ att'[a].cred = att[a].cred /\ att'[a].row = att[a].row
      /\ \A b \in Attempts \ {a}: att'[b] = att[b]
  BY <1>0 DEF RefreshCommit, Attempt
<1>4. UNCHANGED <<rowLock, stored, grant, issued, cb, adm>>
  BY DEF RefreshCommit, authVars, policyVars
<1> HIDE DEF u, new
<1>5. /\ \A d \in Callbacks: cb[d].pc = "locked" => cb[d].new # new /\ cb[d].user # u
      /\ \A b \in Attempts \ {a}: att[b].pc = "put" => att[b].new # new
  BY <1>1, Ranges DEF IInv, IncomingOK, JobsOK, LocksOK, Minted, new
<1>6. new \in 1..MaxCreds /\ new <= issued /\ ~Seated(new)
  BY <1>1, Ranges DEF IInv, SeatedOK, Incoming, new
<1>7. LocksOK'
  BY <1>2, <1>4, <1>5, Ranges DEF IInv, LocksOK, IsRow, Working
<1>8. IncomingOK'
  BY <1>1, <1>3, <1>4 DEF IInv, IncomingOK, Minted, new
<1>9. \A k \in 1..MaxCreds: (Incoming(k)' => Incoming(k) /\ k # new)
                            /\ (Seated(k)' => Seated(k) \/ k = new)
  BY <1>1, <1>2, <1>3, <1>4, <1>5 DEF Incoming, Seated, Told, Busy
<1>10. SeatedOK'
  <2>1. \A k \in 1..MaxCreds: Seated(k)' => k <= issued' /\ ~Incoming(k)'
    BY <1>4, <1>6, <1>9 DEF IInv, SeatedOK
  <2>2. \A b \in Attempts: Busy(b)' /\ att'[b].cred # 0 => grant'[att'[b].cred].user = att'[b].user
    BY <1>1, <1>3, <1>4 DEF IInv, SeatedOK, Busy
  <2>3. \A v \in Users: conn'[v].id = 0 => conn'[v].cred = 0
    BY <1>1, <1>2 DEF IInv, SeatedOK
  <2>4. \A b \in Attempts: att'[b].pc = "committed" /\ att'[b].cred # 0
          => conn'[att'[b].user].cred # att'[b].cred
    <3>1. \A b \in Attempts: Busy(b) /\ att[b].cred # 0 => att[b].cred # new
      BY <1>6 DEF Seated
    <3> QED BY <1>1, <1>2, <1>3, <3>1, Ranges DEF IInv, SeatedOK, Busy
  <2> QED BY <1>4, <2>1, <2>2, <2>3, <2>4 DEF IInv, SeatedOK, Told
<1>11. CredentialLineage'
  BY <1>1, <1>2, <1>4 DEF IInv, CredentialLineage
<1> QED BY <1>7, <1>8, <1>10, <1>11 DEF Safe

\* A run whose credential was not taken deletes at most that secret, which never was in a row.
LEMMA DropSafe ==
  ASSUME IInv, NEW a \in Attempts, RefreshLost(a) \/ RefreshCommitFails(a)
  PROVE  Safe'
<1>0. att \in [Attempts -> Attempt]
  BY IInvTypes, Types
<1>1. att[a].pc = "put" /\ att[a].user \in Users /\ att[a].new \in 1..MaxCreds
  BY DropWrites, Ranges DEF IInv, JobsOK, Minted, Busy
<1>2. /\ att'[a].pc = "dropped" /\ att'[a].user = att[a].user /\ att'[a].cred = att[a].cred
      /\ \A b \in Attempts \ {a}: att'[b] = att[b]
  BY <1>0, DropWrites DEF Attempt
<1>3. /\ stored' \in {stored, stored \ {att[a].new}}
      /\ UNCHANGED <<conn, rowLock, grant, issued, cb, adm>>
  BY DropWrites DEF authVars, policyVars
<1>4. LocksOK'
  BY <1>3 DEF IInv, LocksOK, IsRow
<1>5. \A b \in Attempts \ {a}: att[b].pc = "put" => att[b].new # att[a].new
  BY <1>1 DEF IInv, JobsOK, Minted
<1>6. IncomingOK'
  BY <1>2, <1>3, <1>5 DEF IInv, IncomingOK, Minted
<1>7. \A k \in 1..MaxCreds: (Incoming(k)' => Incoming(k)) /\ (Seated(k)' => Seated(k))
  BY <1>1, <1>2, <1>3 DEF Incoming, Seated, Told, Busy
<1>8. SeatedOK'
  <2>1. \A k \in 1..MaxCreds: Seated(k)' => k <= issued' /\ ~Incoming(k)'
    BY <1>3, <1>7 DEF IInv, SeatedOK
  <2>2. \A b \in Attempts: Busy(b)' /\ att'[b].cred # 0 => grant'[att'[b].cred].user = att'[b].user
    BY <1>1, <1>2, <1>3 DEF IInv, SeatedOK, Busy
  <2>3. \A b \in Attempts: att'[b].pc = "committed" /\ att'[b].cred # 0
          => conn'[att'[b].user].cred # att'[b].cred
    BY <1>2, <1>3 DEF IInv, SeatedOK
  <2> QED BY <1>3, <2>1, <2>2, <2>3 DEF IInv, SeatedOK, Told
<1>9. CredentialLineage'
  <2>1. \A v \in Users: conn[v].cred # att[a].new
    BY <1>1 DEF IInv, SeatedOK, Seated, Incoming
  <2> QED BY <1>3, <2>1 DEF IInv, CredentialLineage
<1> QED BY <1>4, <1>6, <1>8, <1>9 DEF Safe

\* The replaced secret that the worker deletes is in no row: not in its own, which it left, nor
\* in another user's, for whom it was not granted.
LEMMA DeleteSafe == ASSUME IInv, NEW a \in Attempts, RefreshDeleteOld(a) PROVE Safe'
<1>0. att \in [Attempts -> Attempt]
  BY IInvTypes, Types
<1>1. att[a].pc = "committed" /\ att[a].user \in Users /\ att[a].cred \in CredIds
  BY Ranges DEF Busy, RefreshDeleteOld
<1>2. /\ att'[a].pc = "deleted" /\ att'[a].user = att[a].user /\ att'[a].cred = att[a].cred
      /\ att'[a].new = att[a].new
      /\ \A b \in Attempts \ {a}: att'[b] = att[b]
      /\ stored' = stored \ {att[a].cred}
      /\ UNCHANGED <<conn, rowLock, grant, issued, cb, adm>>
  BY <1>0 DEF RefreshDeleteOld, Attempt, authVars, policyVars
<1>3. LocksOK'
  BY <1>2 DEF IInv, LocksOK, IsRow
<1>4. \A b \in Attempts: att[b].pc = "put" => att[b].new # att[a].cred
  BY <1>1, Ranges DEF IInv, SeatedOK, Seated, Incoming, Busy, JobsOK, Minted
<1>5. IncomingOK'
  BY <1>1, <1>2, <1>4 DEF IInv, IncomingOK, Minted
<1>6. \A k \in 1..MaxCreds: (Incoming(k)' => Incoming(k)) /\ (Seated(k)' => Seated(k))
  BY <1>1, <1>2 DEF Incoming, Seated, Told, Busy
<1>7. SeatedOK'
  <2>1. \A b \in Attempts: Busy(b)' /\ att'[b].cred # 0 => grant'[att'[b].cred].user = att'[b].user
    BY <1>1, <1>2 DEF IInv, SeatedOK, Busy
  <2>2. \A k \in 1..MaxCreds: Seated(k)' => k <= issued' /\ ~Incoming(k)'
    BY <1>2, <1>6 DEF IInv, SeatedOK
  <2>3. \A b \in Attempts: att'[b].pc = "committed" /\ att'[b].cred # 0
          => conn'[att'[b].user].cred # att'[b].cred
    BY <1>2 DEF IInv, SeatedOK
  <2> QED BY <1>2, <2>1, <2>2, <2>3 DEF IInv, SeatedOK, Told
<1>8. CredentialLineage'
  <2>1. \A v \in Users: conn[v].cred # 0 => conn[v].cred # att[a].cred
    BY <1>1 DEF IInv, CredentialLineage, SeatedOK, Busy
  <2> QED BY <1>2, <2>1 DEF IInv, CredentialLineage
<1> QED BY <1>3, <1>5, <1>7, <1>8 DEF Safe

\* No step of the worker breaks Safe.
LEMMA RefreshSafe == ASSUME IInv, RefreshNext PROVE Safe'
<1>conn. conn \in [Users -> Row]
  BY IInvTypes, Types
<1>att. att \in [Attempts -> Attempt]
  BY IInvTypes, Types
<1>1. ASSUME NEW a \in Attempts, NEW k \in 1..MaxCreds, RefreshAcquire(a, k) PROVE Quiet
  BY <1>1, AcquireQuiet
<1>2. ASSUME NEW k \in 1..MaxCreds, RefreshSkip(k) PROVE Quiet
  BY <1>2 DEF RefreshSkip, Quiet, RowsKept, authVars, refreshVars, policyVars
<1>3. ASSUME NEW a \in Attempts, RefreshFail(a) PROVE Quiet
  BY <1>3, <1>conn, <1>att DEF RefreshFail, IdleAttempt, Quiet, RowsKept, Row, Attempt,
                               authVars, policyVars
<1>4. ASSUME NEW a \in Attempts, RefreshRead(a) PROVE Quiet
  BY <1>4, <1>att DEF RefreshRead, Quiet, RowsKept, Attempt, storeVars, authVars, policyVars
<1>5. ASSUME NEW a \in Attempts, RefreshRetry(a) PROVE Quiet
  BY <1>5, <1>conn, <1>att DEF RefreshRetry, ReleaseLock, IdleAttempt, Quiet, RowsKept, Row,
                               Attempt, authVars, policyVars
<1>6. ASSUME NEW a \in Attempts, NEW expires \in BOOLEAN, RefreshPut(a, expires) PROVE Safe'
  BY <1>6, PutSafe
<1>7. ASSUME NEW a \in Attempts, RefreshCommit(a) PROVE Safe'
  BY <1>7, RotateSafe
<1>8. ASSUME NEW a \in Attempts, RefreshLost(a) \/ RefreshCommitFails(a) PROVE Safe'
  BY <1>8, DropSafe
<1>9. ASSUME NEW a \in Attempts, RefreshDeleteOld(a) PROVE Safe'
  BY <1>9, DeleteSafe
<1>10. ASSUME NEW a \in Attempts, RefreshDone(a) PROVE Quiet
  BY <1>10, <1>att DEF RefreshDone, IdleAttempt, Quiet, RowsKept, Attempt, authVars, policyVars
<1>11. ASSUME NEW a \in Attempts, RefreshCrash(a) \/ RefreshThrows(a) PROVE Quiet
  BY <1>11, <1>att DEF RefreshCrash, RefreshThrows, IdleAttempt, Quiet, RowsKept, Attempt, authVars, policyVars
<1>12. ASSUME NEW u \in Users, LeaseLapses(u) PROVE Quiet
  BY <1>12, <1>conn DEF LeaseLapses, Quiet, RowsKept, Row, authVars, policyVars
<1>13. ASSUME NEW u \in Users, SweepMark(u) PROVE Quiet
  BY <1>13, <1>conn DEF SweepMark, Quiet, RowsKept, Row, authVars, policyVars
<1>14. ASSUME SweepSelect PROVE Quiet
  BY <1>14 DEF SweepSelect, Quiet, RowsKept, storeVars, authVars, policyVars
<1> QED BY QuietSafe, <1>1, <1>2, <1>3, <1>4, <1>5, <1>6, <1>7, <1>8, <1>9, <1>10, <1>11,
           <1>12, <1>13, <1>14
           DEF RefreshNext, RefreshStep

-----------------------------------------------------------------------------
(***************************************************************************)
(* ServicePolicy, and time                                                 *)
(***************************************************************************)

\* A policy change deletes the secrets it selected only together with every pointer to one.
LEMMA PolicySafe == ASSUME IInv, PolicyCommit PROVE Safe'
<1>0. conn \in [Users -> Row]
  BY IInvTypes, Types
<1>1. /\ stored' = stored \ adm.creds /\ adm'.pc = "idle" /\ adm'.creds = {}
      /\ UNCHANGED <<rowLock, grant, issued, cb, att>>
  BY DEF PolicyCommit, IdleAdmin, authVars, refreshVars
<1>2. \A u \in Users:
        /\ conn'[u].id = conn[u].id
        /\ conn'[u].cred = conn[u].cred \/ conn'[u].cred = 0
        /\ adm.found => conn'[u].cred = 0
  BY IInvTypes, PolicyWrites DEF IInv, SeatedOK
<1>3. ~adm.found => adm.creds = {}
  BY DEF IInv, SeatedOK
<1>4. LocksOK'
  BY <1>1, <1>2, Ranges DEF IInv, LocksOK, IsRow, Working
<1>5. \A a \in Attempts: att[a].pc = "put" => att[a].new \notin adm.creds
  BY Ranges DEF IInv, SeatedOK, Seated, Incoming, JobsOK, Minted
<1>6. IncomingOK'
  BY <1>1, <1>5 DEF IInv, IncomingOK, Minted
<1>7. \A k \in 1..MaxCreds: (Incoming(k)' => Incoming(k)) /\ (Seated(k)' => Seated(k))
  BY <1>1, <1>2 DEF Incoming, Seated, Told, Busy
<1>8. SeatedOK'
  <2>1. \A k \in 1..MaxCreds: Seated(k)' => k <= issued' /\ ~Incoming(k)'
    BY <1>1, <1>7 DEF IInv, SeatedOK
  <2>2. \A v \in Users: conn'[v].id = 0 => conn'[v].cred = 0
    BY <1>2 DEF IInv, SeatedOK
  <2>3. \A b \in Attempts: att'[b].pc = "committed" /\ att'[b].cred # 0
          => conn'[att'[b].user].cred # att'[b].cred
    BY <1>1, <1>2, Ranges DEF IInv, SeatedOK, Busy
  <2> QED BY <1>1, <2>1, <2>2, <2>3 DEF IInv, SeatedOK, Busy, Told
<1>9. CredentialLineage'
  BY <1>1, <1>2, <1>3 DEF IInv, CredentialLineage
<1> QED BY <1>4, <1>6, <1>8, <1>9 DEF Safe

\* No step of the tenant breaks Safe.
LEMMA PolicyStepsSafe == ASSUME IInv, PolicyNext PROVE Safe'
<1>1. ASSUME SetEnabled PROVE Quiet
  BY <1>1 DEF SetEnabled, Quiet, RowsKept, authVars, refreshVars
<1>2. ASSUME NEW p \in Policies, PolicySelect(p) PROVE Quiet
  BY <1>2 DEF PolicySelect, Quiet, RowsKept, storeVars, authVars, refreshVars
<1>3. ASSUME PolicyCommit PROVE Safe'
  BY <1>3, PolicySafe
<1>4. ASSUME PolicyAbort PROVE Quiet
  BY <1>4 DEF PolicyAbort, Quiet, RowsKept, storeVars, authVars, refreshVars
<1> QED BY QuietSafe, <1>1, <1>2, <1>3, <1>4
           DEF PolicyNext

\* The clock only changes the expiry of a row.
LEMMA TimeSafe == ASSUME IInv, NEW u \in Users, TokenExpires(u) PROVE Safe'
<1>conn. conn \in [Users -> Row]
  BY IInvTypes, Types
<1>1. Quiet
  BY <1>conn DEF TokenExpires, Quiet, RowsKept, Row, authVars, refreshVars, policyVars
<1> QED BY <1>1, QuietSafe

-----------------------------------------------------------------------------
(***************************************************************************)
(* The invariant and the theorems                                          *)
(***************************************************************************)

\* The UPDATE that consumes a state finds it only while nobody works for it; every other step
\* of a callback keeps its transaction or ends.
LEMMA SingleUseStep == ASSUME IInv, AuthNext PROVE StateSingleUse'
<1> DEFINE Carried == \A c \in Callbacks:
                        cb'[c].pc # "idle" => cb[c].pc # "idle" /\ cb'[c].t = cb[c].t
<1>cb. cb \in [Callbacks -> Callback]
  BY IInvTypes, Types
<1>1. ASSUME Carried PROVE StateSingleUse'
  BY <1>1 DEF IInv, StateSingleUse
<1>2. ASSUME NEW c \in Callbacks, NEW t \in Txns, CallbackConsume(c, t) PROVE StateSingleUse'
  <2>1. \A d \in Callbacks: cb[d].pc # "idle" => cb[d].t # t
    BY <1>2 DEF CallbackConsume, IInv, Attributed, Working
  <2>2. cb'[c].t = t /\ \A d \in Callbacks \ {c}: cb'[d] = cb[d]
    BY <1>2, <1>cb DEF CallbackConsume, IdleCallback
  <2> QED BY <2>1, <2>2 DEF IInv, StateSingleUse
<1>3. ASSUME NEW c \in Callbacks, CallbackStep(c) PROVE Carried
  <2>1. CASE CallbackBegin(c)
    BY <2>1, <1>cb DEF CallbackBegin, Callback
  <2>2. CASE \E expires \in BOOLEAN: CallbackStore(c, expires)
    BY <2>2, <1>cb DEF CallbackStore, Callback
  <2>3. ASSUME cb' = [cb EXCEPT ![c] = IdleCallback] PROVE Carried
    BY <2>3, <1>cb DEF IdleCallback
  <2> QED BY <1>3, <2>1, <2>2, <2>3
          DEF CallbackStep, CallbackRefused, CallbackFail, CallbackNoToken, CallbackConflict,
              CallbackCommit, CallbackAbort
<1>4. ASSUME UNCHANGED cb PROVE Carried
  BY <1>4
<1> HIDE DEF Carried
<1>5. ASSUME NEW s \in Sessions,
             DisconnectLoad(s) \/ Disconnect(s) \/ DisconnectAbort(s) \/ SessionEnds(s)
               \/ StepUpEnds(s) \/ \E u \in Users, stepUp \in BOOLEAN: CreateSession(s, u, stepUp)
      PROVE  UNCHANGED cb
  BY <1>5 DEF DisconnectLoad, Disconnect, DisconnectAbort, SessionEnds, StepUpEnds, CreateSession
<1>6. ASSUME NEW t \in Txns,
             AuthorizeMint(t) \/ StateLapses(t) \/ \E s \in Sessions: AuthorizeLoad(t, s)
      PROVE  UNCHANGED cb
  BY <1>6 DEF AuthorizeMint, StateLapses, AuthorizeLoad
<1> QED BY <1>1, <1>2, <1>3, <1>4, <1>5, <1>6 DEF AuthNext

\* Nothing exists at first.
LEMMA SafeInit == Init => IInv
<1> SUFFICES ASSUME Init PROVE IInv
  OBVIOUS
<1>1. TypeInv
  BY TypeInit
<1>2. /\ \A c \in Callbacks: cb[c].pc = "idle"
      /\ \A a \in Attempts: att[a].pc = "idle"
      /\ \A u \in Users: conn[u].id = 0 /\ conn[u].cred = 0 /\ rowLock[u] = None
      /\ adm.creds = {}
  BY DEF Init, StoreInit, AuthInit, RefreshInit, PolicyInit, NoRow, IdleCallback, IdleAttempt,
         IdleAdmin
<1>3. StateSingleUse /\ LocksOK /\ CredentialLineage
  BY <1>2 DEF StateSingleUse, LocksOK, CredentialLineage
<1>4. IncomingOK
  BY <1>2 DEF IncomingOK, Minted
<1>5. \A k \in 1..MaxCreds: ~Seated(k)
  BY <1>2 DEF Seated, Busy, Told
<1>6. SeatedOK
  BY <1>2, <1>5 DEF SeatedOK, Busy, Told
<1> QED BY <1>1, <1>3, <1>4, <1>6 DEF IInv, TypeInv

\* Every step preserves the inductive invariant.
LEMMA SafeStep == IInv /\ [Next]_vars => IInv'
<1> SUFFICES ASSUME IInv, [Next]_vars PROVE IInv'
  OBVIOUS
<1>1. TypeInv'
  BY IInvTypes, TypeStep
<1>2. Safe' /\ StateSingleUse'
  <2>1. CASE AuthNext
    BY <2>1, AuthSafe, SingleUseStep
  <2>2. CASE RefreshNext
    <3>1. UNCHANGED cb
      BY <2>2, RefreshFrame
    <3> QED BY <2>2, <3>1, RefreshSafe DEF IInv, StateSingleUse
  <2>3. CASE PolicyNext
    <3>1. UNCHANGED cb
      BY <2>3 DEF PolicyNext, SetEnabled, PolicySelect, PolicyCommit, PolicyAbort, authVars
    <3> QED BY <2>3, <3>1, PolicyStepsSafe DEF IInv, StateSingleUse
  <2>4. CASE \E u \in Users: TokenExpires(u)
    <3>1. UNCHANGED cb
      BY <2>4 DEF TokenExpires, authVars
    <3> QED BY <2>4, <3>1, TimeSafe DEF IInv, StateSingleUse
  <2>5. CASE UNCHANGED vars
    <3>1. Quiet /\ UNCHANGED cb
      BY <2>5 DEF Quiet, RowsKept, vars, storeVars, authVars, refreshVars, policyVars
    <3> QED BY <3>1, QuietSafe DEF IInv, StateSingleUse
  <2> QED BY <2>1, <2>2, <2>3, <2>4, <2>5 DEF Next
<1> QED BY <1>1, <1>2 DEF IInv, TypeInv, Safe

\* In every reachable state, what a request or a job remembers of the rows, the secrets and the
\* row locks is still true when it acts on it.
THEOREM InductiveInvariance == Spec => []IInv
<1> QED BY SafeInit, SafeStep, PTL DEF Spec

\* No authorization state is exchanged twice, however many callbacks the browser sends for it
\* (the UPDATE ... WHERE consumed_at IS NULL of routes/oauth.ts).
THEOREM StateSingleUseHolds == Spec => []StateSingleUse
<1>1. IInv => StateSingleUse
  BY DEF IInv
<1> QED BY <1>1, InductiveInvariance, PTL

\* A connection's credential always exists and was always issued for that connection, whatever
\* authorizations, refreshes, disconnects and policy changes overlap.
THEOREM CredentialLineageHolds == Spec => []CredentialLineage
<1>1. IInv => CredentialLineage
  BY DEF IInv
<1> QED BY <1>1, InductiveInvariance, PTL
=============================================================================
