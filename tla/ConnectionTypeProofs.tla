------------------------ MODULE ConnectionTypeProofs ------------------------
(***************************************************************************)
(* Type correctness of ConnectionLifecycle, for every value of its         *)
(* constants.  TypeOK is not inductive on its own: a request or a job      *)
(* indexes the rows by the user it works for, which is a user only         *)
(* because of Attributed, and a retried job stays within its attempts only *)
(* because of JobsOK.  The three together are TypeInv.                     *)
(***************************************************************************)
EXTENDS ConnectionLifecycle, TLAPS

TypeInv == TypeOK /\ Attributed /\ JobsOK

-----------------------------------------------------------------------------
(***************************************************************************)
(* The operators of the store                                              *)
(***************************************************************************)

\* Publishing an event leaves the outbox a log of events per row.
LEMMA PublishType ==
  ASSUME outbox \in [RowIds -> Seq(Events)],
         NEW r \in RowIds, NEW event \in Events, Publish(r, event)
  PROVE  outbox' \in [RowIds -> Seq(Events)]
  BY DEF Publish

\* scheduleTokenRefresh leaves the queue a job per credential.
LEMMA EnqueueType ==
  ASSUME NEW jobs \in [CredIds -> Job], NEW k \in CredIds, NEW expires \in BOOLEAN
  PROVE  Enqueue(jobs, k, expires) \in [CredIds -> Job]
<1>1. [st |-> "waiting", tries |-> 0] \in Job
  BY StoreAssumption DEF Job
<1> QED BY <1>1 DEF Enqueue

\* The absent row, and a row that a policy change has expired, are rows.
LEMMA RowTypes ==
  /\ NoRow \in Row
  /\ \A row \in Row: ExpiredRow(row) \in Row
<1>1. NoRow \in Row
  BY StoreAssumption DEF NoRow, Row, RowIds, CredIds, Statuses
<1>2. ASSUME NEW row \in Row PROVE ExpiredRow(row) \in Row
  <2>1. CASE row.id = 0
    BY <2>1 DEF ExpiredRow
  <2>2. CASE row.id # 0
    <3>1. 0 \in CredIds /\ "expired" \in Statuses
      BY StoreAssumption DEF CredIds, Statuses
    <3>2. ExpiredRow(row) = [row EXCEPT !.status = "expired", !.cred = 0]
      BY <2>2 DEF ExpiredRow
    <3> QED BY <3>1, <3>2 DEF Row
  <2> QED BY <2>1, <2>2
<1> QED BY <1>1, <1>2

\* So is one that a callback or a refresh has put a credential into.
LEMMA RowTakes ==
  ASSUME NEW row \in Row, NEW k \in CredIds, NEW exp \in {"none", "ahead", "past"}
  PROVE  /\ [row EXCEPT !.status = "connected", !.cred = k, !.exp = exp, !.ver = @ + 1] \in Row
         /\ [row EXCEPT !.cred = k, !.lock = None, !.held = FALSE, !.exp = exp, !.ver = @ + 1] \in Row
<1>1. row.ver + 1 \in Nat /\ "connected" \in Statuses
  BY DEF Row, Statuses
<1>2. [row EXCEPT !.status = "connected", !.cred = k, !.exp = exp, !.ver = @ + 1] \in Row
  BY <1>1 DEF Row
<1>3. [row EXCEPT !.cred = k, !.lock = None, !.held = FALSE, !.exp = exp, !.ver = @ + 1] \in Row
  BY <1>1 DEF Row
<1> QED BY <1>2, <1>3

\* What a request or a job is before it has begun.
LEMMA IdleTypes ==
  /\ IdleCallback \in Callback
  /\ IdleAttempt \in Attempt
  /\ NotSeen \in Seen
  /\ IdleAdmin \in Admin
<1>1. 0 \in RowIds /\ 0 \in CredIds
  BY StoreAssumption DEF RowIds, CredIds
<1>2. IdleCallback \in Callback
  BY <1>1 DEF IdleCallback, Callback, Statuses
<1>3. IdleAttempt \in Attempt
  BY <1>1 DEF IdleAttempt, Attempt
<1>4. NotSeen \in Seen
  BY <1>1 DEF NotSeen, Seen
<1>5. IdleAdmin \in Admin
  BY DEF IdleAdmin, Admin, Policies
<1> QED BY <1>2, <1>3, <1>4, <1>5

\* TypeOK, opened.
LEMMA Types ==
  ASSUME TypeInv
  PROVE  /\ conn \in [Users -> Row] /\ rowLock \in [Users -> Callbacks \cup {None}]
         /\ stored \in SUBSET CredIds /\ grant \in [CredIds -> Grant]
         /\ issued \in CredIds /\ created \in RowIds
         /\ outbox \in [RowIds -> Seq(Events)] /\ job \in [CredIds -> Job]
         /\ service \in Service
         /\ session \in [Sessions -> Session] /\ txn \in [Txns -> Txn]
         /\ cb \in [Callbacks -> Callback]
         /\ leaving \in SUBSET Sessions /\ verifiers \in SUBSET Txns
         /\ att \in [Attempts -> Attempt] /\ late \in SUBSET (Attempts \cup {None})
         /\ seen \in [Users -> Seen] /\ faults \in 0..MaxFaults
         /\ adm \in Admin /\ changes \in 0..MaxChanges /\ toggles \in 0..MaxToggles
  BY DEF TypeInv, TypeOK, StoreTypeOK, AuthTypeOK, RefreshTypeOK, PolicyTypeOK

-----------------------------------------------------------------------------
(***************************************************************************)
(* Who writes what: the variables a component leaves alone, and the        *)
(* actions behind a change of one that it writes.                          *)
(***************************************************************************)

\* The connect flow writes neither runs, nor the sweep's selection, nor the policy.
LEMMA AuthFrame ==
  ASSUME AuthNext
  PROVE  UNCHANGED <<att, late, seen, faults, adm, changes, toggles, service>>
<1> DEFINE K == UNCHANGED <<refreshVars, policyVars, service>>
<1>1. ASSUME NEW c \in Callbacks, CallbackStep(c) PROVE K
  <2>1. ASSUME CallbackRefused(c) \/ CallbackBegin(c) \/ CallbackNoToken(c) \/ CallbackConflict(c)
        PROVE  K
    BY Zenon, <2>1 DEF CallbackRefused, CallbackBegin, CallbackNoToken, CallbackConflict, storeVars
  <2>2. ASSUME CallbackFail(c) \/ CallbackCommit(c) \/ CallbackAbort(c)
               \/ \E expires \in BOOLEAN: CallbackStore(c, expires)
        PROVE  K
    BY Zenon, <2>2 DEF CallbackFail, CallbackCommit, CallbackAbort, CallbackStore
  <2> QED BY <1>1, <2>1, <2>2 DEF CallbackStep
<1>2. ASSUME NEW t \in Txns, AuthorizeMint(t) \/ StateLapses(t)
             \/ (\E s \in Sessions: AuthorizeLoad(t, s))
             \/ (\E c \in Callbacks: CallbackConsume(c, t))
      PROVE  K
  BY <1>2 DEF AuthorizeMint, StateLapses, AuthorizeLoad, CallbackConsume, storeVars
<1>3. ASSUME NEW s \in Sessions, SessionEnds(s) \/ StepUpEnds(s) \/ DisconnectLoad(s)
             \/ Disconnect(s) \/ DisconnectAbort(s)
             \/ (\E u \in Users, stepUp \in BOOLEAN: CreateSession(s, u, stepUp))
      PROVE  K
  BY Zenon, <1>3 DEF SessionEnds, StepUpEnds, DisconnectLoad, Disconnect, DisconnectAbort,
              CreateSession, storeVars
<1>4. K
  <2> HIDE DEF K
  <2> QED BY <1>1, <1>2, <1>3 DEF AuthNext
<1> QED BY <1>4 DEF refreshVars, policyVars

\* A run whose credential was not taken deletes it, or fails to, and touches nothing else.
LEMMA DropWrites ==
  ASSUME NEW a \in Attempts, RefreshLost(a) \/ RefreshCommitFails(a)
  PROVE  /\ att[a].pc = "put" /\ att' = [att EXCEPT ![a].pc = "dropped"]
         /\ stored' \in {stored, stored \ {att[a].new}}
         /\ faults' = faults \/ (faults < MaxFaults /\ faults' = faults + 1)
         /\ UNCHANGED <<late, seen, conn, rowLock, grant, issued, created, outbox, job, service>>
         /\ UNCHANGED <<authVars, policyVars>>
<1>1. CASE RefreshLost(a)
  BY <1>1 DEF RefreshLost
<1>2. CASE RefreshCommitFails(a)
  BY <1>2 DEF RefreshCommitFails
<1> QED BY <1>1, <1>2

\* The worker writes nothing of the connect flow or of the policy, and inserts no row.
LEMMA RefreshFrame ==
  ASSUME RefreshNext
  PROVE  /\ UNCHANGED <<session, txn, cb, leaving, verifiers, adm, changes, toggles>>
         /\ UNCHANGED <<rowLock, created, service>>
<1> DEFINE K == UNCHANGED <<authVars, policyVars, rowLock, created, service>>
<1>1. ASSUME NEW a \in Attempts, RefreshStep(a) PROVE K
  <2>1. ASSUME RefreshFail(a) \/ RefreshRead(a) \/ RefreshRetry(a) \/ RefreshCommit(a)
        PROVE  K
    BY Zenon, <2>1 DEF RefreshFail, RefreshRead, RefreshRetry, RefreshCommit, storeVars
  <2>2. ASSUME RefreshLost(a) \/ RefreshCommitFails(a) \/ RefreshDeleteOld(a) \/ RefreshDone(a)
               \/ \E expires \in BOOLEAN: RefreshPut(a, expires)
        PROVE  K
    BY <2>2 DEF RefreshLost, RefreshCommitFails, RefreshDeleteOld, RefreshDone, RefreshPut
  <2>3. ASSUME RefreshCrash(a) \/ RefreshThrows(a) PROVE K
    BY <2>3 DEF RefreshCrash, RefreshThrows
  <2> QED BY Zenon, <1>1, <2>1, <2>2, <2>3 DEF RefreshStep
<1>2. ASSUME NEW k \in 1..MaxCreds, RefreshSkip(k) \/ \E a \in Attempts: RefreshAcquire(a, k)
      PROVE  K
  BY <1>2 DEF RefreshSkip, RefreshAcquire
<1>3. ASSUME SweepSelect \/ \E u \in Users: LeaseLapses(u) \/ SweepMark(u) PROVE K
  BY <1>3 DEF SweepSelect, LeaseLapses, SweepMark, storeVars
<1>4. K
  <2> HIDE DEF K
  <2> QED BY <1>1, <1>2, <1>3 DEF RefreshNext
<1> QED BY <1>4 DEF authVars, policyVars

\* A policy request, time and stuttering write no request and no run, and draw and publish nothing.
LEMMA PolicyFrame ==
  ASSUME PolicyNext \/ (\E u \in Users: TokenExpires(u)) \/ UNCHANGED vars
  PROVE  /\ UNCHANGED <<session, txn, cb, leaving, verifiers, att, late, seen, faults>>
         /\ UNCHANGED <<rowLock, grant, issued, created, outbox, job>>
  BY DEF PolicyNext, SetEnabled, PolicySelect, PolicyCommit, PolicyAbort, TokenExpires, vars,
         storeVars, authVars, refreshVars

\* Who writes the rows, the secrets and their grants in the connect flow.
LEMMA AuthWriters ==
  ASSUME AuthNext
  PROVE  /\ \/ UNCHANGED <<conn, created>>
            \/ \E t \in Txns: AuthorizeMint(t)
            \/ \E s \in Sessions: Disconnect(s)
            \/ \E c \in Callbacks: CallbackFail(c) \/ CallbackCommit(c)
         /\ \/ UNCHANGED <<stored, outbox>>
            \/ \E s \in Sessions: Disconnect(s)
            \/ \E c \in Callbacks: CallbackCommit(c)
         /\ \/ UNCHANGED <<grant, issued, job>>
            \/ \E c \in Callbacks, expires \in BOOLEAN: CallbackStore(c, expires)
<1> DEFINE K == \/ UNCHANGED <<conn, created, stored, outbox, grant, issued, job>>
                \/ \E t \in Txns: AuthorizeMint(t) /\ UNCHANGED <<stored, outbox, grant, issued, job>>
                \/ \E s \in Sessions: Disconnect(s) /\ UNCHANGED <<grant, issued, job>>
                \/ \E c \in Callbacks: \/ CallbackFail(c) /\ UNCHANGED <<stored, outbox, grant, issued, job>>
                                       \/ CallbackCommit(c) /\ UNCHANGED <<grant, issued, job>>
                \/ \E c \in Callbacks, expires \in BOOLEAN:
                     CallbackStore(c, expires) /\ UNCHANGED <<conn, created, stored, outbox>>
<1>1. ASSUME NEW c \in Callbacks, CallbackStep(c) PROVE K
  <2>1. ASSUME CallbackRefused(c) \/ CallbackBegin(c) \/ CallbackNoToken(c) \/ CallbackConflict(c)
               \/ CallbackAbort(c)
        PROVE  UNCHANGED <<conn, created, stored, outbox, grant, issued, job>>
    BY <2>1 DEF CallbackRefused, CallbackBegin, CallbackNoToken, CallbackConflict,
                CallbackAbort, storeVars
  <2>2. ASSUME CallbackFail(c) PROVE UNCHANGED <<stored, outbox, grant, issued, job>>
    BY <2>2 DEF CallbackFail
  <2>3. ASSUME CallbackCommit(c) PROVE UNCHANGED <<grant, issued, job>>
    BY <2>3 DEF CallbackCommit
  <2>4. ASSUME NEW expires \in BOOLEAN, CallbackStore(c, expires)
        PROVE  UNCHANGED <<conn, created, stored, outbox>>
    BY <2>4 DEF CallbackStore
  <2> QED BY <1>1, <2>1, <2>2, <2>3, <2>4 DEF CallbackStep
<1>2. ASSUME NEW t \in Txns, StateLapses(t) \/ (\E s \in Sessions: AuthorizeLoad(t, s))
             \/ (\E c \in Callbacks: CallbackConsume(c, t))
      PROVE  UNCHANGED <<conn, created, stored, outbox, grant, issued, job>>
  BY <1>2 DEF StateLapses, AuthorizeLoad, CallbackConsume, storeVars
<1>3. ASSUME NEW s \in Sessions, SessionEnds(s) \/ StepUpEnds(s) \/ DisconnectLoad(s)
             \/ DisconnectAbort(s)
             \/ (\E u \in Users, stepUp \in BOOLEAN: CreateSession(s, u, stepUp))
      PROVE  UNCHANGED <<conn, created, stored, outbox, grant, issued, job>>
  BY <1>3 DEF SessionEnds, StepUpEnds, DisconnectLoad, DisconnectAbort, CreateSession, storeVars
<1>4. ASSUME NEW t \in Txns, AuthorizeMint(t)
      PROVE  UNCHANGED <<stored, outbox, grant, issued, job>>
  BY <1>4 DEF AuthorizeMint
<1>5. ASSUME NEW s \in Sessions, Disconnect(s) PROVE UNCHANGED <<grant, issued, job>>
  BY <1>5 DEF Disconnect
<1>6. K
  BY <1>1, <1>2, <1>3, <1>4, <1>5 DEF AuthNext
<1> QED BY <1>6

\* Who writes the rows, the secrets, their grants and the sweep's selection in the worker.
LEMMA RefreshWriters ==
  ASSUME RefreshNext
  PROVE  /\ \/ UNCHANGED seen
            \/ SweepSelect
            \/ \E u \in Users: SweepMark(u)
         /\ \/ UNCHANGED faults
            \/ \E a \in Attempts: RefreshCommitFails(a) \/ RefreshThrows(a) \/ RefreshCrash(a)
         /\ \/ UNCHANGED <<grant, issued>>
            \/ \E a \in Attempts, expires \in BOOLEAN: RefreshPut(a, expires)
         /\ \/ UNCHANGED stored
            \/ \E a \in Attempts, expires \in BOOLEAN: RefreshPut(a, expires)
            \/ \E a \in Attempts: \/ RefreshLost(a) \/ RefreshCommitFails(a)
                                  \/ RefreshDeleteOld(a)
         /\ \/ UNCHANGED outbox
            \/ \E a \in Attempts: RefreshFail(a) \/ RefreshCommit(a)
            \/ \E u \in Users: SweepMark(u)
<1> DEFINE G == UNCHANGED <<grant, issued>>
           S == UNCHANGED stored
           N == UNCHANGED seen
           O == UNCHANGED outbox
           D == UNCHANGED faults
<1>1. ASSUME NEW a \in Attempts, RefreshFail(a) \/ RefreshCommit(a) PROVE G /\ S /\ N /\ D
  BY Zenon, <1>1 DEF RefreshFail, RefreshCommit
<1>2. ASSUME NEW a \in Attempts, RefreshRead(a) \/ RefreshRetry(a) \/ RefreshDone(a)
      PROVE  G /\ S /\ N /\ O /\ D
  BY <1>2 DEF RefreshRead, RefreshRetry, RefreshDone, storeVars
<1>3. ASSUME NEW a \in Attempts, RefreshLost(a) \/ RefreshDeleteOld(a) PROVE G /\ N /\ O /\ D
  BY <1>3 DEF RefreshLost, RefreshDeleteOld
<1>4. ASSUME NEW a \in Attempts, RefreshCrash(a) \/ RefreshThrows(a) PROVE G /\ S /\ N /\ O
  BY <1>4 DEF RefreshCrash, RefreshThrows
<1>11. ASSUME NEW a \in Attempts, RefreshCommitFails(a) PROVE G /\ N /\ O
  BY <1>11 DEF RefreshCommitFails
<1>5. ASSUME NEW a \in Attempts, NEW expires \in BOOLEAN, RefreshPut(a, expires) PROVE N /\ O /\ D
  BY <1>5 DEF RefreshPut
<1>6. ASSUME NEW k \in 1..MaxCreds, RefreshSkip(k) \/ \E a \in Attempts: RefreshAcquire(a, k)
      PROVE  G /\ S /\ N /\ O /\ D
  BY <1>6 DEF RefreshSkip, RefreshAcquire, refreshVars
<1>7. ASSUME NEW u \in Users, LeaseLapses(u) PROVE G /\ S /\ N /\ O /\ D
  BY <1>7 DEF LeaseLapses
<1>8. ASSUME NEW u \in Users, SweepMark(u) PROVE G /\ S /\ D
  BY <1>8 DEF SweepMark
<1>9. ASSUME SweepSelect PROVE G /\ S /\ O /\ D
  BY <1>9 DEF SweepSelect, storeVars
<1> HIDE DEF G, S, N, O, D
<1>10. /\ N \/ SweepSelect \/ \E u \in Users: SweepMark(u)
       /\ \/ D
          \/ \E a \in Attempts: RefreshCommitFails(a) \/ RefreshThrows(a) \/ RefreshCrash(a)
       /\ G \/ \E a \in Attempts, expires \in BOOLEAN: RefreshPut(a, expires)
       /\ \/ S
          \/ \E a \in Attempts, expires \in BOOLEAN: RefreshPut(a, expires)
          \/ \E a \in Attempts: \/ RefreshLost(a) \/ RefreshCommitFails(a)
                                \/ RefreshDeleteOld(a)
       /\ \/ O
          \/ \E a \in Attempts: RefreshFail(a) \/ RefreshCommit(a)
          \/ \E u \in Users: SweepMark(u)
  BY <1>1, <1>2, <1>3, <1>4, <1>5, <1>6, <1>7, <1>8, <1>9, <1>11 DEF RefreshNext, RefreshStep
<1> QED BY Zenon, <1>10 DEF G, S, N, O, D

\* Who writes the rows, of all.
LEMMA RowWriters ==
  ASSUME [Next]_vars
  PROVE  \/ UNCHANGED conn
         \/ \E t \in Txns: AuthorizeMint(t)
         \/ \E s \in Sessions: Disconnect(s)
         \/ \E c \in Callbacks: CallbackFail(c) \/ CallbackCommit(c)
         \/ \E a \in Attempts: RefreshFail(a) \/ RefreshCommit(a)
         \/ \E a \in Attempts: RefreshRetry(a) \/ \E k \in 1..MaxCreds: RefreshAcquire(a, k)
         \/ \E u \in Users: LeaseLapses(u) \/ TokenExpires(u)
         \/ \E u \in Users: SweepMark(u)
         \/ PolicyCommit
<1>1. ASSUME NEW a \in Attempts, RefreshStep(a)
      PROVE  \/ UNCHANGED conn
             \/ RefreshFail(a) \/ RefreshCommit(a) \/ RefreshRetry(a)
  <2>1. ASSUME RefreshRead(a) PROVE UNCHANGED conn
    BY <2>1 DEF RefreshRead, storeVars
  <2>2. ASSUME RefreshDeleteOld(a) \/ RefreshDone(a) \/ RefreshCrash(a) \/ RefreshThrows(a)
               \/ \E expires \in BOOLEAN: RefreshPut(a, expires)
        PROVE  UNCHANGED conn
    BY <2>2 DEF RefreshDeleteOld, RefreshDone, RefreshCrash, RefreshThrows, RefreshPut
  <2>3. ASSUME RefreshLost(a) \/ RefreshCommitFails(a) PROVE UNCHANGED conn
    BY <2>3, DropWrites
  <2> QED BY <1>1, <2>1, <2>2, <2>3 DEF RefreshStep
<1>2. ASSUME (\E k \in 1..MaxCreds: RefreshSkip(k)) \/ SweepSelect PROVE UNCHANGED conn
  BY <1>2 DEF RefreshSkip, SweepSelect, storeVars
<1>3. ASSUME SetEnabled \/ (\E p \in Policies: PolicySelect(p)) \/ PolicyAbort \/ UNCHANGED vars
      PROVE  UNCHANGED conn
  BY <1>3 DEF SetEnabled, PolicySelect, PolicyAbort, storeVars, vars
<1>4. CASE AuthNext
  BY <1>4, AuthWriters
<1>5. CASE RefreshNext
  BY <1>1, <1>2, <1>5 DEF RefreshNext
<1>6. CASE PolicyNext \/ UNCHANGED vars
  BY <1>3, <1>6 DEF PolicyNext
<1> QED BY <1>4, <1>5, <1>6 DEF Next

-----------------------------------------------------------------------------
(***************************************************************************)
(* What a write makes of a row: the columns its UPDATE sets, and the rest. *)
(***************************************************************************)

OthersKept(u) == \A v \in Users \ {u}: conn'[v] = conn[v]

\* An UPDATE of one row.
LEMMA OneRow ==
  ASSUME conn \in [Users -> Row], NEW u \in Users, NEW row, conn' = [conn EXCEPT ![u] = row]
  PROVE  conn'[u] = row /\ OthersKept(u)
  BY DEF OthersKept

\* A row that a policy change has expired.
LEMMA ExpiredRowIs ==
  ASSUME NEW row \in Row
  PROVE  /\ ExpiredRow(row).id = row.id /\ ExpiredRow(row).ver = row.ver
         /\ ExpiredRow(row).exp = row.exp
         /\ ExpiredRow(row).lock = row.lock /\ ExpiredRow(row).held = row.held
         /\ ExpiredRow(row).cred = IF row.id = 0 THEN row.cred ELSE 0
         /\ ExpiredRow(row).status = IF row.id = 0 THEN row.status ELSE "expired"
<1>1. CASE row.id = 0
  BY <1>1 DEF ExpiredRow
<1>2. CASE row.id # 0
  <2>1. ExpiredRow(row) = [row EXCEPT !.status = "expired", !.cred = 0]
    BY <1>2 DEF ExpiredRow
  <2> QED BY <1>2, <2>1 DEF Row
<1> QED BY <1>1, <1>2

\* issueAuthorizationRedirect inserts a pending row where there is none, under a new id.
LEMMA MintWrites ==
  ASSUME TypeInv, NEW t \in Txns, AuthorizeMint(t)
  PROVE  LET u == txn[t].user
         IN  /\ u \in Users
             /\ conn[u].id # 0 => UNCHANGED <<conn, created>>
             /\ conn[u].id = 0 =>
                  /\ created' = created + 1 /\ conn'[u].id = created + 1
                  /\ conn'[u].status = "pending" /\ conn'[u].cred = 0 /\ conn'[u].ver = 1
                  /\ OthersKept(u)
<1> DEFINE u == txn[t].user
           row == [NoRow EXCEPT !.id = created + 1, !.status = "pending", !.ver = 1]
<1>1. conn \in [Users -> Row] /\ u \in Users
  BY Types DEF TypeInv, Attributed, AuthorizeMint
<1>2. CASE conn[u].id # 0
  BY <1>1, <1>2 DEF AuthorizeMint
<1>3. CASE conn[u].id = 0
  <2>1. conn' = [conn EXCEPT ![u] = row] /\ created' = created + 1
    BY <1>3 DEF AuthorizeMint
  <2>2. row.id = created + 1 /\ row.status = "pending" /\ row.cred = 0 /\ row.ver = 1
    BY DEF NoRow
  <2> HIDE DEF u, row
  <2>3. conn'[u] = row /\ OthersKept(u)
    BY <1>1, <2>1, OneRow
  <2> QED BY <1>1, <1>3, <2>1, <2>2, <2>3 DEF u
<1> QED BY <1>2, <1>3

\* The callback's last UPDATE connects the row to the new credential, at the next version.
LEMMA CommitWrites ==
  ASSUME TypeInv, NEW c \in Callbacks, CallbackCommit(c)
  PROVE  LET u == cb[c].user
         IN  /\ u \in Users
             /\ conn'[u].id = conn[u].id /\ conn'[u].ver = conn[u].ver + 1
             /\ conn'[u].cred = cb[c].new /\ conn'[u].status = "connected"
             /\ conn'[u].lock = conn[u].lock /\ conn'[u].held = conn[u].held
             /\ OthersKept(u)
<1> DEFINE u == cb[c].user
           row == [conn[u] EXCEPT !.status = "connected", !.cred = cb[c].new,
                     !.exp = IF cb[c].expires THEN "ahead" ELSE "none", !.ver = @ + 1]
<1>1. conn \in [Users -> Row] /\ u \in Users
  <2>1. cb[c].pc = "locked"
    BY Zenon DEF CallbackCommit
  <2> QED BY <2>1, Types DEF TypeInv, Attributed, Working
<1>2. conn' = [conn EXCEPT ![u] = row]
  BY Zenon, <1>1 DEF CallbackCommit
<1>3. /\ row.id = conn[u].id /\ row.ver = conn[u].ver + 1 /\ row.cred = cb[c].new
      /\ row.status = "connected" /\ row.lock = conn[u].lock /\ row.held = conn[u].held
  BY <1>1 DEF Row
<1> HIDE DEF u, row
<1>4. conn'[u] = row /\ OthersKept(u)
  BY <1>1, <1>2, OneRow
<1> QED BY <1>1, <1>3, <1>4 DEF u

\* A failed exchange writes the status it had read, or "error", and no other column.
LEMMA FailWrites ==
  ASSUME TypeInv, NEW c \in Callbacks, CallbackFail(c)
  PROVE  \A v \in Users:
           /\ conn'[v].id = conn[v].id /\ conn'[v].ver = conn[v].ver
           /\ conn'[v].cred = conn[v].cred /\ conn'[v].exp = conn[v].exp
           /\ conn'[v].lock = conn[v].lock /\ conn'[v].held = conn[v].held
           /\ conn'[v].status = conn[v].status
                \/ (v = cb[c].user /\ conn'[v].status \in {cb[c].status, "error"} \ {"expired"}
                      /\ IsRow(v, cb[c].row))
<1> DEFINE u == cb[c].user
           st == IF cb[c].status = "connected" THEN "connected" ELSE "error"
           row == [conn[u] EXCEPT !.status = st]
<1>1. conn \in [Users -> Row] /\ u \in Users
  <2>1. cb[c].pc = "exchanging"
    BY Zenon DEF CallbackFail
  <2> QED BY <2>1, Types DEF TypeInv, Attributed, Working
<1>2. CASE ~IsRow(u, cb[c].row)
  BY <1>2 DEF CallbackFail
<1>3. CASE IsRow(u, cb[c].row)
  <2>1. conn' = [conn EXCEPT ![u] = row]
    BY <1>1, <1>3 DEF CallbackFail
  <2>2. /\ row.id = conn[u].id /\ row.ver = conn[u].ver /\ row.cred = conn[u].cred
        /\ row.exp = conn[u].exp /\ row.lock = conn[u].lock /\ row.held = conn[u].held
        /\ row.status \in {cb[c].status, "error"} \ {"expired"}
    BY <1>1 DEF Row
  <2> HIDE DEF row
  <2>3. conn'[u] = row /\ OthersKept(u)
    BY <1>1, <2>1, OneRow
  <2> QED BY <1>1, <1>3, <2>2, <2>3 DEF OthersKept
<1> QED BY <1>2, <1>3

\* Taking, losing and giving up a lease, and the passing of an expiry, leave the rest alone.
LEMMA LeaseWrites ==
  ASSUME TypeInv,
         \/ \E a \in Attempts: RefreshRetry(a) \/ \E k \in 1..MaxCreds: RefreshAcquire(a, k)
         \/ \E u \in Users: LeaseLapses(u) \/ TokenExpires(u)
  PROVE  \A v \in Users:
           /\ conn'[v].id = conn[v].id /\ conn'[v].ver = conn[v].ver
           /\ conn'[v].cred = conn[v].cred /\ conn'[v].status = conn[v].status
<1> DEFINE K == \A v \in Users:
                  /\ conn'[v].id = conn[v].id /\ conn'[v].ver = conn[v].ver
                  /\ conn'[v].cred = conn[v].cred /\ conn'[v].status = conn[v].status
<1>0. conn \in [Users -> Row]
  BY Types
<1>1. ASSUME NEW u, NEW lock, NEW held, conn' = [conn EXCEPT ![u].lock = lock, ![u].held = held]
      PROVE  K
  BY <1>0, <1>1 DEF Row
<1>2. ASSUME conn' = conn PROVE K
  BY <1>2
<1>3. ASSUME NEW u \in Users, LeaseLapses(u) PROVE K
  BY <1>0, <1>3 DEF LeaseLapses, Row
<1>4. ASSUME NEW u \in Users, TokenExpires(u) PROVE K
  BY <1>0, <1>4 DEF TokenExpires, Row
<1> HIDE DEF K
<1>5. ASSUME NEW a \in Attempts, RefreshRetry(a) PROVE K
  <2>1. ReleaseLock(a)
    BY Zenon, <1>5 DEF RefreshRetry
  <2> QED BY <1>1, <1>2, <2>1 DEF ReleaseLock
<1>6. ASSUME NEW a \in Attempts, NEW k \in 1..MaxCreds, RefreshAcquire(a, k) PROVE K
  <2> DEFINE u == grant[k].user
  <2>1. conn' = [conn EXCEPT ![u].lock = a, ![u].held = TRUE]
    BY Zenon, <1>6 DEF RefreshAcquire
  <2> QED BY <1>1, <2>1
<1>7. K
  BY <1>3, <1>4, <1>5, <1>6
<1> QED BY <1>7 DEF K

\* A permanent failure is written, at the next version, by the run whose token is in the row.
LEMMA FailedWrites ==
  ASSUME TypeInv, NEW a \in Attempts, RefreshFail(a)
  PROVE  LET u == att[a].user
         IN  /\ u \in Users
             /\ ~HoldsLock(a) => UNCHANGED <<conn, outbox>>
             /\ HoldsLock(a) =>
                  /\ conn'[u].id = conn[u].id /\ conn'[u].ver = conn[u].ver + 1
                  /\ conn'[u].cred = conn[u].cred /\ conn'[u].status = "error"
                  /\ OthersKept(u)
<1> DEFINE u == att[a].user
           row == [conn[u] EXCEPT !.status = "error", !.lock = None, !.held = FALSE, !.ver = @ + 1]
<1>1. conn \in [Users -> Row] /\ u \in Users
  <2>1. att[a].pc \in {"acquired", "read"}
    BY Zenon DEF RefreshFail
  <2> QED BY <2>1, Types DEF TypeInv, Attributed, Busy
<1>2. CASE ~HoldsLock(a)
  BY Zenon, <1>1, <1>2 DEF RefreshFail
<1>3. CASE HoldsLock(a)
  <2>1. conn' = [conn EXCEPT ![u] = row]
    BY Zenon, <1>1, <1>3 DEF RefreshFail
  <2>2. /\ row.id = conn[u].id /\ row.ver = conn[u].ver + 1 /\ row.cred = conn[u].cred
        /\ row.status = "error"
    BY <1>1 DEF Row
  <2> HIDE DEF u, row
  <2>3. conn'[u] = row /\ OthersKept(u)
    BY <1>1, <2>1, OneRow
  <2> QED BY <1>1, <1>3, <2>2, <2>3 DEF u
<1> QED BY <1>2, <1>3

\* So is a new credential.
LEMMA RotateWrites ==
  ASSUME TypeInv, NEW a \in Attempts, RefreshCommit(a)
  PROVE  LET u == att[a].user
         IN  /\ u \in Users
             /\ conn'[u].id = conn[u].id /\ conn'[u].ver = conn[u].ver + 1
             /\ conn'[u].cred = att[a].new /\ conn'[u].status = conn[u].status
             /\ OthersKept(u)
<1> DEFINE u == att[a].user
           row == [conn[u] EXCEPT !.cred = att[a].new, !.lock = None, !.held = FALSE,
                     !.exp = IF att[a].expires THEN "ahead" ELSE @, !.ver = @ + 1]
<1>1. conn \in [Users -> Row] /\ u \in Users
  <2>1. att[a].pc = "put"
    BY Zenon DEF RefreshCommit
  <2> QED BY <2>1, Types DEF TypeInv, Attributed, Busy
<1>2. conn' = [conn EXCEPT ![u] = row]
  BY Zenon, <1>1 DEF RefreshCommit
<1>3. /\ row.id = conn[u].id /\ row.ver = conn[u].ver + 1 /\ row.cred = att[a].new
      /\ row.status = conn[u].status
  BY <1>1 DEF Row
<1> HIDE DEF u, row
<1>4. conn'[u] = row /\ OthersKept(u)
  BY <1>1, <1>2, OneRow
<1> QED BY <1>1, <1>3, <1>4 DEF u

\* The sweep marks a row at the version it has seen, and touches neither its credential nor lease.
LEMMA MarkWrites ==
  ASSUME TypeInv, NEW u \in Users, SweepMark(u)
  PROVE  /\ ~IsAsSeen(u) => UNCHANGED <<conn, outbox>>
         /\ IsAsSeen(u) =>
              /\ conn'[u].id = conn[u].id /\ conn'[u].ver = conn[u].ver + 1
              /\ conn'[u].cred = conn[u].cred /\ conn'[u].status = "expired"
              /\ conn'[u].lock = conn[u].lock /\ conn'[u].held = conn[u].held
              /\ OthersKept(u)
<1> DEFINE row == [conn[u] EXCEPT !.status = "expired", !.ver = seen[u].ver + 1]
<1>1. conn \in [Users -> Row]
  BY Types
<1>2. CASE ~IsAsSeen(u)
  BY <1>2 DEF SweepMark
<1>3. CASE IsAsSeen(u)
  <2>1. conn' = [conn EXCEPT ![u] = row] /\ conn[u].ver = seen[u].ver
    BY <1>1, <1>3 DEF SweepMark, IsAsSeen
  <2>2. /\ row.id = conn[u].id /\ row.ver = conn[u].ver + 1 /\ row.cred = conn[u].cred
        /\ row.status = "expired" /\ row.lock = conn[u].lock /\ row.held = conn[u].held
    BY <1>1, <2>1 DEF Row
  <2> HIDE DEF row
  <2>3. conn'[u] = row /\ OthersKept(u)
    BY <1>1, <2>1, OneRow
  <2> QED BY <1>3, <2>2, <2>3
<1> QED BY <1>2, <1>3

\* A disconnect removes the row of the session's user.
LEMMA DisconnectWrites ==
  ASSUME TypeInv, NEW s \in Sessions, Disconnect(s)
  PROVE  session[s].user \in Users /\ conn'[session[s].user] = NoRow /\ OthersKept(session[s].user)
<1>1. conn \in [Users -> Row] /\ session[s].user \in Users
  BY Types DEF TypeInv, Attributed, Disconnect
<1> QED BY <1>1, OneRow DEF Disconnect

\* A policy change expires every row, or touches none.
LEMMA PolicyWrites ==
  ASSUME TypeInv, PolicyCommit
  PROVE  /\ ~adm.found => UNCHANGED conn
         /\ \A u \in Users: conn'[u] = conn[u] \/ conn'[u] = ExpiredRow(conn[u])
         /\ \A u \in Users:
              /\ conn'[u].id = conn[u].id /\ conn'[u].ver = conn[u].ver /\ conn'[u].exp = conn[u].exp
              /\ conn'[u].lock = conn[u].lock /\ conn'[u].held = conn[u].held
              /\ conn'[u].status \in {conn[u].status, "expired"}
              /\ conn'[u].cred = IF adm.found /\ conn[u].id # 0 THEN 0 ELSE conn[u].cred
              /\ conn'[u].status = conn[u].status \/ conn'[u].cred = 0
<1>1. conn \in [Users -> Row]
  BY Types
<1>2. CASE ~adm.found
  BY <1>2 DEF PolicyCommit
<1>3. CASE adm.found
  <2>1. \A u \in Users: conn'[u] = ExpiredRow(conn[u])
    BY <1>3 DEF PolicyCommit
  <2>2. \A u \in Users: conn[u] \in Row
    BY <1>1
  <2> QED BY <1>3, <2>1, <2>2, ExpiredRowIs
<1> QED BY <1>2, <1>3

-----------------------------------------------------------------------------
(***************************************************************************)
(* Every action keeps the types                                            *)
(***************************************************************************)

\* The connect flow keeps every variable within its type.
LEMMA AuthTypes == ASSUME TypeInv, AuthNext PROVE TypeOK'
<1>conn. conn \in [Users -> Row]
  BY Types
<1>rowLock. rowLock \in [Users -> Callbacks \cup {None}]
  BY Types
<1>stored. stored \in SUBSET CredIds
  BY Types
<1>grant. grant \in [CredIds -> Grant]
  BY Types
<1>issued. issued \in CredIds
  BY Types
<1>created. created \in RowIds
  BY Types
<1>outbox. outbox \in [RowIds -> Seq(Events)]
  BY Types
<1>job. job \in [CredIds -> Job]
  BY Types
<1>service. service \in Service
  BY Types
<1>session. session \in [Sessions -> Session]
  BY Types
<1>txn. txn \in [Txns -> Txn]
  BY Types
<1>cb. cb \in [Callbacks -> Callback]
  BY Types
<1>leaving. leaving \in SUBSET Sessions
  BY Types
<1>verifiers. verifiers \in SUBSET Txns
  BY Types
<1>1. ASSUME NEW s \in Sessions, NEW u \in Users, NEW stepUp \in BOOLEAN, CreateSession(s,
     u, stepUp) PROVE TypeOK'
  <2>1. session' \in [Sessions -> Session]
    BY <1>1, <1>session DEF CreateSession, Session
  <2>2. UNCHANGED <<storeVars, txn, cb, leaving, verifiers, refreshVars, policyVars>>
    BY <1>1 DEF CreateSession
  <2> QED BY <2>1, <2>2
      DEF TypeInv, TypeOK, StoreTypeOK, AuthTypeOK, RefreshTypeOK, PolicyTypeOK,
          storeVars, authVars, refreshVars, policyVars
<1>2. ASSUME NEW s \in Sessions, SessionEnds(s) PROVE TypeOK'
  <2>1. session' \in [Sessions -> Session]
    BY <1>2, <1>session DEF SessionEnds, Session
  <2>2. UNCHANGED <<storeVars, txn, cb, leaving, verifiers, refreshVars, policyVars>>
    BY <1>2 DEF SessionEnds
  <2> QED BY <2>1, <2>2
      DEF TypeInv, TypeOK, StoreTypeOK, AuthTypeOK, RefreshTypeOK, PolicyTypeOK,
          storeVars, authVars, refreshVars, policyVars
<1>3. ASSUME NEW s \in Sessions, StepUpEnds(s) PROVE TypeOK'
  <2>1. session' \in [Sessions -> Session]
    BY <1>3, <1>session DEF StepUpEnds, Session
  <2>2. UNCHANGED <<storeVars, txn, cb, leaving, verifiers, refreshVars, policyVars>>
    BY <1>3 DEF StepUpEnds
  <2> QED BY <2>1, <2>2
      DEF TypeInv, TypeOK, StoreTypeOK, AuthTypeOK, RefreshTypeOK, PolicyTypeOK,
          storeVars, authVars, refreshVars, policyVars
<1>4. ASSUME NEW s \in Sessions, DisconnectLoad(s) PROVE TypeOK'
  <2>1. leaving' \in SUBSET Sessions
    BY <1>4, <1>leaving DEF DisconnectLoad
  <2>2. UNCHANGED <<storeVars, session, txn, cb, verifiers, refreshVars, policyVars>>
    BY <1>4 DEF DisconnectLoad
  <2> QED BY <2>1, <2>2
      DEF TypeInv, TypeOK, StoreTypeOK, AuthTypeOK, RefreshTypeOK, PolicyTypeOK,
          storeVars, authVars, refreshVars, policyVars
<1>5. ASSUME NEW s \in Sessions, Disconnect(s) PROVE TypeOK'
  <2>0. session[s].user \in Users
    BY <1>5 DEF Disconnect, TypeInv, Attributed
  <2>1. conn' \in [Users -> Row]
    BY <1>5, <1>conn, <2>0, StoreAssumption DEF Disconnect, NoRow, Row, RowIds, CredIds,
        Statuses
  <2>2. stored' \in SUBSET CredIds
    BY <1>5, <1>stored, <2>0, StoreAssumption DEF Disconnect, CredIds
  <2>3. outbox' \in [RowIds -> Seq(Events)]
    BY <1>5, <1>outbox, <1>conn, <2>0 DEF Disconnect, Row, Events
  <2>4. session' \in [Sessions -> Session]
    BY <1>5, <1>session, <2>0 DEF Disconnect, Session
  <2>5. txn' \in [Txns -> Txn]
    <3>1. \A t \in Txns: [txn[t] EXCEPT !.st = "deleted"] \in Txn
      BY <1>txn DEF Txn
    <3>2. \A t \in Txns: txn'[t] = txn[t] \/ txn'[t] = [txn[t] EXCEPT !.st = "deleted"]
      BY <1>5 DEF Disconnect
    <3>3. txn' = [t \in Txns |-> txn'[t]]
      BY <1>5 DEF Disconnect
    <3> QED BY <1>txn, <3>1, <3>2, <3>3
  <2>6. leaving' \in SUBSET Sessions
    BY <1>5, <1>leaving, <2>0 DEF Disconnect
  <2>7. UNCHANGED <<rowLock, grant, issued, created, job, service, cb, verifiers,
                     refreshVars, policyVars>>
    BY <1>5 DEF Disconnect
  <2> QED BY <2>1, <2>2, <2>3, <2>4, <2>5, <2>6, <2>7
      DEF TypeInv, TypeOK, StoreTypeOK, AuthTypeOK, RefreshTypeOK, PolicyTypeOK,
          storeVars, authVars, refreshVars, policyVars
<1>6. ASSUME NEW s \in Sessions, DisconnectAbort(s) PROVE TypeOK'
  <2>1. leaving' \in SUBSET Sessions
    BY <1>6, <1>leaving DEF DisconnectAbort
  <2>2. UNCHANGED <<storeVars, session, txn, cb, verifiers, refreshVars, policyVars>>
    BY <1>6 DEF DisconnectAbort
  <2> QED BY <2>1, <2>2
      DEF TypeInv, TypeOK, StoreTypeOK, AuthTypeOK, RefreshTypeOK, PolicyTypeOK,
          storeVars, authVars, refreshVars, policyVars
<1>7. ASSUME NEW t \in Txns, NEW s \in Sessions, AuthorizeLoad(t, s) PROVE TypeOK'
  <2>0. session[s].user \in Users
    BY <1>7 DEF AuthorizeLoad, TypeInv, Attributed
  <2>1. txn' \in [Txns -> Txn]
    BY <1>7, <1>txn, <1>session, <1>service, <2>0, StoreAssumption DEF AuthorizeLoad, Txn,
        Session, Service, RowIds
  <2>2. UNCHANGED <<storeVars, session, cb, leaving, verifiers, refreshVars, policyVars>>
    BY <1>7 DEF AuthorizeLoad
  <2> QED BY <2>1, <2>2
      DEF TypeInv, TypeOK, StoreTypeOK, AuthTypeOK, RefreshTypeOK, PolicyTypeOK,
          storeVars, authVars, refreshVars, policyVars
<1>8. ASSUME NEW t \in Txns, AuthorizeMint(t) PROVE TypeOK'
  <2>0. txn[t].user \in Users
    BY <1>8 DEF AuthorizeMint, TypeInv, Attributed
  <2>1. conn' \in [Users -> Row]
    <3>1. CASE conn[txn[t].user].id # 0
      BY <1>8, <3>1, <1>conn DEF AuthorizeMint
    <3>2. CASE conn[txn[t].user].id = 0
      <4>1. created + 1 \in RowIds
        BY <1>8, <1>created, <3>2, StoreAssumption DEF AuthorizeMint, RowIds
      <4>2. [NoRow EXCEPT !.id = created + 1, !.status = "pending", !.ver = 1] \in Row
        BY <4>1, RowTypes DEF Row, Statuses
      <4>3. conn' = [conn EXCEPT ![txn[t].user] =
                      [NoRow EXCEPT !.id = created + 1, !.status = "pending", !.ver = 1]]
        BY <1>8, <3>2 DEF AuthorizeMint
      <4> QED BY <1>conn, <4>2, <4>3
    <3> QED BY <3>1, <3>2
  <2>2. created' \in RowIds
    BY <1>8, <1>created, <1>conn, <2>0, StoreAssumption DEF AuthorizeMint, Row, RowIds
  <2>3. txn' \in [Txns -> Txn]
    <3> DEFINE row == IF conn[txn[t].user].id = 0 THEN created + 1 ELSE conn[txn[t].user].id
    <3>1. row \in RowIds
      BY <1>8, <2>0, <1>conn, <1>created, StoreAssumption DEF AuthorizeMint, Row, RowIds
    <3>2. txn' = [txn EXCEPT ![t].st = "pending", ![t].row = row]
      BY <1>8 DEF AuthorizeMint
    <3>3. [txn[t] EXCEPT !.st = "pending", !.row = row] \in Txn
      BY <1>txn, <3>1 DEF Txn
    <3> HIDE DEF row
    <3> QED BY <1>txn, <3>2, <3>3
  <2>4. verifiers' \in SUBSET Txns
    BY <1>8, <1>verifiers, <2>0 DEF AuthorizeMint
  <2>5. UNCHANGED <<rowLock, stored, grant, issued, outbox, job, service, session, cb,
                     leaving, refreshVars, policyVars>>
    BY <1>8 DEF AuthorizeMint
  <2> QED BY <2>1, <2>2, <2>3, <2>4, <2>5
      DEF TypeInv, TypeOK, StoreTypeOK, AuthTypeOK, RefreshTypeOK, PolicyTypeOK,
          storeVars, authVars, refreshVars, policyVars
<1>9. ASSUME NEW t \in Txns, StateLapses(t) PROVE TypeOK'
  <2>1. txn' \in [Txns -> Txn]
    BY <1>9, <1>txn, StoreAssumption DEF StateLapses, Txn, RowIds
  <2>2. UNCHANGED <<storeVars, session, cb, leaving, verifiers, refreshVars, policyVars>>
    BY <1>9 DEF StateLapses
  <2> QED BY <2>1, <2>2
      DEF TypeInv, TypeOK, StoreTypeOK, AuthTypeOK, RefreshTypeOK, PolicyTypeOK,
          storeVars, authVars, refreshVars, policyVars
<1>10. ASSUME NEW c \in Callbacks, NEW t \in Txns, CallbackConsume(c, t) PROVE TypeOK'
  <2>0. txn[t].user \in Users
    BY <1>10 DEF CallbackConsume, TypeInv, Attributed
  <2>1. txn' \in [Txns -> Txn]
    BY <1>10, <1>txn, <2>0, StoreAssumption DEF CallbackConsume, Txn, RowIds
  <2>2. cb' \in [Callbacks -> Callback]
    <3>1. txn[t].row \in RowIds
      BY <1>txn DEF Txn
    <3>2. cb' = [cb EXCEPT ![c] = [IdleCallback EXCEPT
                  !.pc = "consumed", !.t = t, !.user = txn[t].user, !.row = txn[t].row]]
      BY <1>10 DEF CallbackConsume
    <3> QED BY <1>cb, <2>0, <3>1, <3>2, IdleTypes DEF Callback
  <2>3. UNCHANGED <<storeVars, session, leaving, verifiers, refreshVars, policyVars>>
    BY <1>10 DEF CallbackConsume
  <2> QED BY <2>1, <2>2, <2>3
      DEF TypeInv, TypeOK, StoreTypeOK, AuthTypeOK, RefreshTypeOK, PolicyTypeOK,
          storeVars, authVars, refreshVars, policyVars
<1>11. ASSUME NEW c \in Callbacks, CallbackRefused(c) PROVE TypeOK'
  <2>0. cb[c].user \in Users /\ cb[c].t \in Txns
    BY <1>11 DEF CallbackRefused, TypeInv, Attributed, Working
  <2>1. cb' \in [Callbacks -> Callback]
    BY <1>11, <1>cb, <2>0, IdleTypes DEF CallbackRefused, Callback, RowIds, CredIds,
        Statuses
  <2>2. UNCHANGED <<storeVars, session, txn, leaving, verifiers, refreshVars, policyVars>>
    BY <1>11 DEF CallbackRefused
  <2> QED BY <2>1, <2>2
      DEF TypeInv, TypeOK, StoreTypeOK, AuthTypeOK, RefreshTypeOK, PolicyTypeOK,
          storeVars, authVars, refreshVars, policyVars
<1>12. ASSUME NEW c \in Callbacks, CallbackBegin(c) PROVE TypeOK'
  <2>0. cb[c].user \in Users /\ cb[c].t \in Txns
    BY <1>12 DEF CallbackBegin, TypeInv, Attributed, Working
  <2>1. cb' \in [Callbacks -> Callback]
    <3> DEFINE row == conn[cb[c].user]
    <3>1. row.ver \in Nat /\ row.cred \in CredIds /\ row.status \in Statuses
      BY <1>conn, <2>0 DEF Row
    <3> DEFINE told == [cb[c] EXCEPT !.pc = "exchanging", !.ver = row.ver,
                                     !.cred = row.cred, !.status = row.status]
    <3>2. cb' = [cb EXCEPT ![c] = told]
      BY <1>12, <1>cb DEF CallbackBegin
    <3>3. told \in Callback
      BY <1>cb, <3>1 DEF Callback
    <3> HIDE DEF told
    <3> QED BY <1>cb, <3>2, <3>3
  <2>2. UNCHANGED <<storeVars, session, txn, leaving, verifiers, refreshVars, policyVars>>
    BY <1>12 DEF CallbackBegin
  <2> QED BY <2>1, <2>2
      DEF TypeInv, TypeOK, StoreTypeOK, AuthTypeOK, RefreshTypeOK, PolicyTypeOK,
          storeVars, authVars, refreshVars, policyVars
<1>13. ASSUME NEW c \in Callbacks, CallbackFail(c) PROVE TypeOK'
  <2>0. cb[c].user \in Users /\ cb[c].t \in Txns
    BY <1>13 DEF CallbackFail, TypeInv, Attributed, Working
  <2>1. conn' \in [Users -> Row]
    BY <1>13, <1>conn, <1>cb, <2>0, StoreAssumption DEF CallbackFail, Row, Callback, RowIds,
        CredIds, Statuses
  <2>2. txn' \in [Txns -> Txn]
    BY <1>13, <1>txn, <2>0, StoreAssumption DEF CallbackFail, DropVerifier, Txn, RowIds
  <2>3. cb' \in [Callbacks -> Callback]
    BY <1>13, <1>cb, <2>0, IdleTypes DEF CallbackFail, Callback, RowIds, CredIds, Statuses
  <2>4. verifiers' \in SUBSET Txns
    BY <1>13, <1>verifiers, <2>0 DEF CallbackFail, DropVerifier
  <2>5. UNCHANGED <<rowLock, stored, grant, issued, created, outbox, job, service,
                     session, leaving, refreshVars, policyVars>>
    BY <1>13 DEF CallbackFail, DropVerifier
  <2> QED BY <2>1, <2>2, <2>3, <2>4, <2>5
      DEF TypeInv, TypeOK, StoreTypeOK, AuthTypeOK, RefreshTypeOK, PolicyTypeOK,
          storeVars, authVars, refreshVars, policyVars
<1>14. ASSUME NEW c \in Callbacks, CallbackNoToken(c) PROVE TypeOK'
  <2>0. cb[c].user \in Users /\ cb[c].t \in Txns
    BY <1>14 DEF CallbackNoToken, TypeInv, Attributed, Working
  <2>1. txn' \in [Txns -> Txn]
    BY <1>14, <1>txn, <2>0, StoreAssumption DEF CallbackNoToken, DropVerifier, Txn, RowIds
  <2>2. cb' \in [Callbacks -> Callback]
    BY <1>14, <1>cb, <2>0, IdleTypes DEF CallbackNoToken, Callback, RowIds, CredIds,
        Statuses
  <2>3. verifiers' \in SUBSET Txns
    BY <1>14, <1>verifiers, <2>0 DEF CallbackNoToken, DropVerifier
  <2>4. UNCHANGED <<storeVars, session, leaving, refreshVars, policyVars>>
    BY <1>14 DEF CallbackNoToken, DropVerifier
  <2> QED BY <2>1, <2>2, <2>3, <2>4
      DEF TypeInv, TypeOK, StoreTypeOK, AuthTypeOK, RefreshTypeOK, PolicyTypeOK,
          storeVars, authVars, refreshVars, policyVars
<1>15. ASSUME NEW c \in Callbacks, CallbackConflict(c) PROVE TypeOK'
  <2>0. cb[c].user \in Users /\ cb[c].t \in Txns
    BY <1>15 DEF CallbackConflict, TypeInv, Attributed, Working
  <2>1. cb' \in [Callbacks -> Callback]
    BY <1>15, <1>cb, <2>0, IdleTypes DEF CallbackConflict, Callback, RowIds, CredIds,
        Statuses
  <2>2. UNCHANGED <<storeVars, session, txn, leaving, verifiers, refreshVars, policyVars>>
    BY <1>15 DEF CallbackConflict
  <2> QED BY <2>1, <2>2
      DEF TypeInv, TypeOK, StoreTypeOK, AuthTypeOK, RefreshTypeOK, PolicyTypeOK,
          storeVars, authVars, refreshVars, policyVars
<1>16. ASSUME NEW c \in Callbacks, NEW expires \in BOOLEAN, CallbackStore(c, expires) PROVE
     TypeOK'
  <2>0. cb[c].user \in Users /\ cb[c].t \in Txns
    BY <1>16 DEF CallbackStore, TypeInv, Attributed, Working
  <2>1. rowLock' \in [Users -> Callbacks \cup {None}]
    BY <1>16, <1>rowLock, <2>0 DEF CallbackStore
  <2>2. grant' \in [CredIds -> Grant]
    BY <1>16, <1>grant, <1>cb, <1>txn, <1>issued, <2>0, StoreAssumption DEF CallbackStore,
        Grant, Callback, Txn, RowIds, CredIds
  <2>3. issued' \in CredIds
    BY <1>16, <1>issued, <2>0, StoreAssumption DEF CallbackStore, CredIds
  <2>4. job' \in [CredIds -> Job]
    <3>1. issued + 1 \in CredIds
      BY <1>16, <1>issued, StoreAssumption DEF CallbackStore, CredIds
    <3> QED BY <1>16, <1>job, <3>1, EnqueueType DEF CallbackStore
  <2>5. cb' \in [Callbacks -> Callback]
    <3>1. issued + 1 \in CredIds
      BY <1>16, <1>issued, StoreAssumption DEF CallbackStore, CredIds
    <3> DEFINE storing == [cb[c] EXCEPT !.pc = "locked", !.new = issued + 1,
                                        !.expires = expires]
    <3>2. cb' = [cb EXCEPT ![c] = storing]
      BY <1>16, <1>cb DEF CallbackStore
    <3>3. storing \in Callback
      BY <1>cb, <3>1 DEF Callback
    <3> HIDE DEF storing
    <3> QED BY <1>cb, <3>2, <3>3
  <2>6. UNCHANGED <<conn, stored, created, outbox, service, session, txn, leaving,
                     verifiers, refreshVars, policyVars>>
    BY <1>16 DEF CallbackStore
  <2> QED BY <2>1, <2>2, <2>3, <2>4, <2>5, <2>6
      DEF TypeInv, TypeOK, StoreTypeOK, AuthTypeOK, RefreshTypeOK, PolicyTypeOK,
          storeVars, authVars, refreshVars, policyVars
<1>17. ASSUME NEW c \in Callbacks, CallbackCommit(c) PROVE TypeOK'
  <2>0. cb[c].user \in Users /\ cb[c].t \in Txns
    BY <1>17 DEF CallbackCommit, TypeInv, Attributed, Working
  <2>1. conn' \in [Users -> Row]
    <3> DEFINE exp == IF cb[c].expires THEN "ahead" ELSE "none"
               row == [conn[cb[c].user] EXCEPT !.status = "connected", !.cred = cb[c].new,
                         !.exp = exp, !.ver = @ + 1]
    <3>1. conn' = [conn EXCEPT ![cb[c].user] = row]
      BY Zenon, <1>17, <1>conn, <2>0 DEF CallbackCommit
    <3>2. exp \in {"none", "ahead", "past"}
      OBVIOUS
    <3> HIDE DEF exp
    <3>3. conn[cb[c].user] \in Row /\ cb[c].new \in CredIds
      BY <1>conn, <1>cb, <2>0 DEF Callback
    <3>4. row \in Row
      BY <3>2, <3>3, RowTakes
    <3> HIDE DEF row
    <3> QED BY <1>conn, <3>1, <3>4
  <2>2. rowLock' \in [Users -> Callbacks \cup {None}]
    BY <1>17, <1>rowLock, <2>0 DEF CallbackCommit
  <2>3. stored' \in SUBSET CredIds
    BY <1>17, <1>stored, <1>cb, <2>0, StoreAssumption DEF CallbackCommit, Callback, CredIds
  <2>4. outbox' \in [RowIds -> Seq(Events)]
    <3>1. cb[c].row \in RowIds
      BY <1>cb DEF Callback
    <3> QED BY <1>17, <1>outbox, <3>1, PublishType DEF CallbackCommit, Events
  <2>5. txn' \in [Txns -> Txn]
    BY <1>17, <1>txn, <2>0, StoreAssumption DEF CallbackCommit, DropVerifier, Txn, RowIds
  <2>6. cb' \in [Callbacks -> Callback]
    BY <1>17, <1>cb, <2>0, IdleTypes DEF CallbackCommit, Callback, RowIds, CredIds, Statuses
  <2>7. verifiers' \in SUBSET Txns
    BY <1>17, <1>verifiers, <2>0 DEF CallbackCommit, DropVerifier
  <2>8. UNCHANGED <<grant, issued, created, job, service, session, leaving, refreshVars,
                     policyVars>>
    BY <1>17 DEF CallbackCommit, DropVerifier, Publish
  <2> QED BY <2>1, <2>2, <2>3, <2>4, <2>5, <2>6, <2>7, <2>8
      DEF TypeInv, TypeOK, StoreTypeOK, AuthTypeOK, RefreshTypeOK, PolicyTypeOK,
          storeVars, authVars, refreshVars, policyVars
<1>18. ASSUME NEW c \in Callbacks, CallbackAbort(c) PROVE TypeOK'
  <2>0. cb[c].user \in Users /\ cb[c].t \in Txns
    BY <1>18 DEF CallbackAbort, TypeInv, Attributed, Working
  <2>1. rowLock' \in [Users -> Callbacks \cup {None}]
    BY <1>18, <1>rowLock, <2>0 DEF CallbackAbort
  <2>2. cb' \in [Callbacks -> Callback]
    BY <1>18, <1>cb, <2>0, IdleTypes DEF CallbackAbort, Callback, RowIds, CredIds, Statuses
  <2>3. UNCHANGED <<conn, stored, grant, issued, created, outbox, job, service, session,
                     txn, leaving, verifiers, refreshVars, policyVars>>
    BY <1>18 DEF CallbackAbort
  <2> QED BY <2>1, <2>2, <2>3
      DEF TypeInv, TypeOK, StoreTypeOK, AuthTypeOK, RefreshTypeOK, PolicyTypeOK,
          storeVars, authVars, refreshVars, policyVars
<1> QED BY <1>1, <1>2, <1>3, <1>4, <1>5, <1>6, <1>7, <1>8, <1>9, <1>10, <1>11, <1>12, <1>13,
        <1>14, <1>15, <1>16, <1>17, <1>18 DEF AuthNext, CallbackStep

\* So does the worker,
LEMMA RefreshTypes == ASSUME TypeInv, RefreshNext PROVE TypeOK'
<1>conn. conn \in [Users -> Row]
  BY Types
<1>stored. stored \in SUBSET CredIds
  BY Types
<1>grant. grant \in [CredIds -> Grant]
  BY Types
<1>issued. issued \in CredIds
  BY Types
<1>outbox. outbox \in [RowIds -> Seq(Events)]
  BY Types
<1>job. job \in [CredIds -> Job]
  BY Types
<1>att. att \in [Attempts -> Attempt]
  BY Types
<1>late. late \in SUBSET (Attempts \cup {None})
  BY Types
<1>seen. seen \in [Users -> Seen]
  BY Types
<1>faults. faults \in 0..MaxFaults
  BY Types
<1>1. ASSUME NEW a \in Attempts, NEW k \in 1..MaxCreds, RefreshAcquire(a, k) PROVE TypeOK'
  <2>0. k \in CredIds /\ grant[k].user \in Users
    BY <1>1 DEF RefreshAcquire, Due, TypeInv, JobsOK, CredIds
  <2>1. conn' \in [Users -> Row]
    BY <1>1, <1>conn, <2>0, StoreAssumption DEF RefreshAcquire, Row, RowIds, CredIds,
        Statuses
  <2>2. job' \in [CredIds -> Job]
    BY <1>1, <1>job, <2>0, StoreAssumption DEF RefreshAcquire, Job
  <2>3. att' \in [Attempts -> Attempt]
    <3>1. /\ conn[grant[k].user].ver \in Nat /\ conn[grant[k].user].cred \in CredIds
          /\ grant[k].row \in RowIds
      BY <1>conn, <1>grant, <2>0 DEF Row, Grant
    <3>2. att' = [att EXCEPT ![a] = [IdleAttempt EXCEPT
                   !.pc = "acquired", !.job = k, !.user = grant[k].user, !.row = grant[k].row,
                   !.ver = conn[grant[k].user].ver, !.cred = conn[grant[k].user].cred]]
      BY <1>1 DEF RefreshAcquire
    <3> QED BY <1>att, <2>0, <3>1, <3>2, IdleTypes DEF Attempt
  <2>4. late' \in SUBSET (Attempts \cup {None})
    BY <1>1, <1>late, <2>0 DEF RefreshAcquire
  <2>5. UNCHANGED <<rowLock, stored, grant, issued, created, outbox, service, authVars,
                     seen, faults, policyVars>>
    BY <1>1 DEF RefreshAcquire
  <2> QED BY <2>1, <2>2, <2>3, <2>4, <2>5
      DEF TypeInv, TypeOK, StoreTypeOK, AuthTypeOK, RefreshTypeOK, PolicyTypeOK,
          storeVars, authVars, refreshVars, policyVars
<1>2. ASSUME NEW k \in 1..MaxCreds, RefreshSkip(k) PROVE TypeOK'
  <2>0. k \in CredIds
    BY <1>2 DEF CredIds
  <2>1. job' \in [CredIds -> Job]
    BY <1>2, <1>job, <2>0, StoreAssumption DEF RefreshSkip, Job
  <2>2. UNCHANGED <<conn, rowLock, stored, grant, issued, created, outbox, service,
                     authVars, refreshVars, policyVars>>
    BY <1>2 DEF RefreshSkip
  <2> QED BY <2>1, <2>2
      DEF TypeInv, TypeOK, StoreTypeOK, AuthTypeOK, RefreshTypeOK, PolicyTypeOK,
          storeVars, authVars, refreshVars, policyVars
<1>3. ASSUME NEW a \in Attempts, RefreshFail(a) PROVE TypeOK'
  <2>0. att[a].user \in Users
    BY <1>3 DEF RefreshFail, TypeInv, Attributed, Busy
  <2>1. conn' \in [Users -> Row]
    BY <1>3, <1>conn, <2>0, StoreAssumption DEF RefreshFail, Row, RowIds, CredIds, Statuses
  <2>2. outbox' \in [RowIds -> Seq(Events)]
    <3>1. att[a].row \in RowIds
      BY <1>att DEF Attempt
    <3> QED BY <1>3, <1>outbox, <3>1, PublishType DEF RefreshFail, Events
  <2>3. job' \in [CredIds -> Job]
    BY <1>3, <1>job, <2>0, StoreAssumption DEF RefreshFail, Job
  <2>4. att' \in [Attempts -> Attempt]
    BY <1>3, <1>att, <2>0, IdleTypes DEF RefreshFail, Attempt, CredIds, RowIds
  <2>5. UNCHANGED <<rowLock, stored, grant, issued, created, service, authVars, late,
                     seen, faults, policyVars>>
    BY <1>3 DEF RefreshFail, Publish
  <2> QED BY <2>1, <2>2, <2>3, <2>4, <2>5
      DEF TypeInv, TypeOK, StoreTypeOK, AuthTypeOK, RefreshTypeOK, PolicyTypeOK,
          storeVars, authVars, refreshVars, policyVars
<1>4. ASSUME NEW a \in Attempts, RefreshRead(a) PROVE TypeOK'
  <2>0. att[a].user \in Users
    BY <1>4 DEF RefreshRead, TypeInv, Attributed, Busy
  <2>1. att' \in [Attempts -> Attempt]
    BY <1>4, <1>att, <2>0, StoreAssumption DEF RefreshRead, Attempt, CredIds, RowIds
  <2>2. UNCHANGED <<storeVars, authVars, late, seen, faults, policyVars>>
    BY <1>4 DEF RefreshRead
  <2> QED BY <2>1, <2>2
      DEF TypeInv, TypeOK, StoreTypeOK, AuthTypeOK, RefreshTypeOK, PolicyTypeOK,
          storeVars, authVars, refreshVars, policyVars
<1>5. ASSUME NEW a \in Attempts, RefreshRetry(a) PROVE TypeOK'
  <2>0. att[a].user \in Users
    BY <1>5 DEF RefreshRetry, TypeInv, Attributed, Busy
  <2>1. conn' \in [Users -> Row]
    BY <1>5, <1>conn, <2>0, StoreAssumption DEF RefreshRetry, ReleaseLock, Row, RowIds,
        CredIds, Statuses
  <2>2. job' \in [CredIds -> Job]
    <3>1. /\ att[a].job \in CredIds
          /\ job[att[a].job].tries \in Nat /\ job[att[a].job].tries + 1 \in 0..MaxTries
      BY <1>5, <1>att, <1>job, StoreAssumption
         DEF RefreshRetry, Attempt, Job, TypeInv, JobsOK, Busy
    <3> QED BY <1>5, <1>job, <3>1 DEF RefreshRetry, RetryJob, Job
  <2>3. att' \in [Attempts -> Attempt]
    BY <1>5, <1>att, <2>0, IdleTypes DEF RefreshRetry, Attempt, CredIds, RowIds
  <2>4. UNCHANGED <<rowLock, stored, grant, issued, created, outbox, service, authVars,
                     late, seen, faults, policyVars>>
    BY <1>5 DEF RefreshRetry, ReleaseLock, RetryJob
  <2> QED BY <2>1, <2>2, <2>3, <2>4
      DEF TypeInv, TypeOK, StoreTypeOK, AuthTypeOK, RefreshTypeOK, PolicyTypeOK,
          storeVars, authVars, refreshVars, policyVars
<1>6. ASSUME NEW a \in Attempts, NEW expires \in BOOLEAN, RefreshPut(a, expires) PROVE
     TypeOK'
  <2>0. att[a].user \in Users
    BY <1>6 DEF RefreshPut, TypeInv, Attributed, Busy
  <2>1. stored' \in SUBSET CredIds
    BY <1>6, <1>stored, <1>issued, <2>0, StoreAssumption DEF RefreshPut, CredIds
  <2>2. grant' \in [CredIds -> Grant]
    BY <1>6, <1>grant, <1>att, <1>issued, <2>0, StoreAssumption DEF RefreshPut, Grant,
        Attempt, RowIds, CredIds
  <2>3. issued' \in CredIds
    BY <1>6, <1>issued, <2>0, StoreAssumption DEF RefreshPut, CredIds
  <2>4. att' \in [Attempts -> Attempt]
    <3>1. issued + 1 \in CredIds
      BY <1>6, <1>issued, StoreAssumption DEF RefreshPut, CredIds
    <3> DEFINE putting == [att[a] EXCEPT !.pc = "put", !.new = issued + 1,
                                         !.expires = expires]
    <3>2. att' = [att EXCEPT ![a] = putting]
      BY <1>6, <1>att DEF RefreshPut
    <3>3. putting \in Attempt
      BY <1>att, <3>1 DEF Attempt
    <3> HIDE DEF putting
    <3> QED BY <1>att, <3>2, <3>3
  <2>5. UNCHANGED <<conn, rowLock, created, outbox, job, service, authVars, late, seen,
                     faults, policyVars>>
    BY <1>6 DEF RefreshPut
  <2> QED BY <2>1, <2>2, <2>3, <2>4, <2>5
      DEF TypeInv, TypeOK, StoreTypeOK, AuthTypeOK, RefreshTypeOK, PolicyTypeOK,
          storeVars, authVars, refreshVars, policyVars
<1>7. ASSUME NEW a \in Attempts, RefreshCommit(a) PROVE TypeOK'
  <2>0. att[a].user \in Users
    BY <1>7, RotateWrites
  <2>1. conn' \in [Users -> Row]
    <3> DEFINE exp == IF att[a].expires THEN "ahead" ELSE conn[att[a].user].exp
               row == [conn[att[a].user] EXCEPT !.cred = att[a].new, !.lock = None,
                         !.held = FALSE, !.exp = exp, !.ver = @ + 1]
    <3>1. conn' = [conn EXCEPT ![att[a].user] = row]
      BY Zenon, <1>7, <1>conn, <2>0 DEF RefreshCommit
    <3>2. conn[att[a].user] \in Row /\ att[a].new \in CredIds
      BY <1>conn, <1>att, <2>0 DEF Attempt
    <3>3. exp \in {"none", "ahead", "past"}
      BY <3>2 DEF Row
    <3> HIDE DEF exp
    <3>4. row \in Row
      BY <3>2, <3>3, RowTakes
    <3> HIDE DEF row
    <3> QED BY <1>conn, <3>1, <3>4
  <2>2. outbox' \in [RowIds -> Seq(Events)]
    <3>1. att[a].row \in RowIds
      BY <1>att DEF Attempt
    <3> QED BY <1>7, <1>outbox, <3>1, PublishType DEF RefreshCommit, Events
  <2>3. att' \in [Attempts -> Attempt]
    BY <1>7, <1>att, <2>0, StoreAssumption DEF RefreshCommit, Attempt, CredIds, RowIds
  <2>4. UNCHANGED <<rowLock, stored, grant, issued, created, job, service, authVars, late,
                     seen, faults, policyVars>>
    BY <1>7 DEF RefreshCommit, Publish
  <2> QED BY <2>1, <2>2, <2>3, <2>4
      DEF TypeInv, TypeOK, StoreTypeOK, AuthTypeOK, RefreshTypeOK, PolicyTypeOK,
          storeVars, authVars, refreshVars, policyVars
<1>8. ASSUME NEW a \in Attempts, RefreshLost(a) \/ RefreshCommitFails(a) PROVE TypeOK'
  <2>1. stored' \in SUBSET CredIds
    BY <1>8, <1>stored, DropWrites
  <2>2. att' = [att EXCEPT ![a].pc = "dropped"]
    BY <1>8, DropWrites
  <2>3. att' \in [Attempts -> Attempt]
    BY <1>att, <2>2 DEF Attempt
  <2>4. faults' \in 0..MaxFaults
    BY <1>8, <1>faults, DropWrites, RefreshAssumption
  <2>5. UNCHANGED <<conn, rowLock, grant, issued, created, outbox, job, service, authVars, late,
                     seen, policyVars>>
    BY <1>8, DropWrites
  <2> QED BY <2>1, <2>3, <2>4, <2>5
      DEF TypeInv, TypeOK, StoreTypeOK, AuthTypeOK, RefreshTypeOK, PolicyTypeOK,
          storeVars, authVars, refreshVars, policyVars
<1>9. ASSUME NEW a \in Attempts, RefreshDeleteOld(a) PROVE TypeOK'
  <2>0. att[a].user \in Users
    BY <1>9 DEF RefreshDeleteOld, TypeInv, Attributed, Busy
  <2>1. stored' \in SUBSET CredIds
    BY <1>9, <1>stored, <2>0, StoreAssumption DEF RefreshDeleteOld, CredIds
  <2>2. att' \in [Attempts -> Attempt]
    BY <1>9, <1>att, <2>0, StoreAssumption DEF RefreshDeleteOld, Attempt, CredIds, RowIds
  <2>3. UNCHANGED <<conn, rowLock, grant, issued, created, outbox, job, service, authVars,
                     late, seen, faults, policyVars>>
    BY <1>9 DEF RefreshDeleteOld
  <2> QED BY <2>1, <2>2, <2>3
      DEF TypeInv, TypeOK, StoreTypeOK, AuthTypeOK, RefreshTypeOK, PolicyTypeOK,
          storeVars, authVars, refreshVars, policyVars
<1>10. ASSUME NEW a \in Attempts, RefreshDone(a) PROVE TypeOK'
  <2>0. att[a].user \in Users
    BY <1>10 DEF RefreshDone, TypeInv, Attributed, Busy
  <2>1. job' \in [CredIds -> Job]
    <3>1. [job EXCEPT ![att[a].job].st = "done"] \in [CredIds -> Job]
      BY <1>job DEF Job
    <3>2. att[a].new \in CredIds /\ att[a].expires \in BOOLEAN
      BY <1>att DEF Attempt
    <3> QED BY <1>10, <3>1, <3>2, EnqueueType DEF RefreshDone
  <2>2. att' \in [Attempts -> Attempt]
    BY <1>10, <1>att, <2>0, IdleTypes DEF RefreshDone, Attempt, CredIds, RowIds
  <2>3. UNCHANGED <<conn, rowLock, stored, grant, issued, created, outbox, service,
                     authVars, late, seen, faults, policyVars>>
    BY <1>10 DEF RefreshDone
  <2> QED BY <2>1, <2>2, <2>3
      DEF TypeInv, TypeOK, StoreTypeOK, AuthTypeOK, RefreshTypeOK, PolicyTypeOK,
          storeVars, authVars, refreshVars, policyVars
<1>11. ASSUME NEW a \in Attempts, RefreshCrash(a) PROVE TypeOK'
  <2>0. att[a].user \in Users
    BY <1>11 DEF RefreshCrash, TypeInv, Attributed, Busy
  <2>1. job' \in [CredIds -> Job]
    BY <1>11, <1>job, <2>0, StoreAssumption DEF RefreshCrash, Job
  <2>2. att' \in [Attempts -> Attempt]
    BY <1>11, <1>att, <2>0, IdleTypes DEF RefreshCrash, Attempt, CredIds, RowIds
  <2>3. faults' \in 0..MaxFaults
    BY <1>11, <1>faults, <2>0, RefreshAssumption DEF RefreshCrash
  <2>4. UNCHANGED <<conn, rowLock, stored, grant, issued, created, outbox, service,
                     authVars, late, seen, policyVars>>
    BY <1>11 DEF RefreshCrash
  <2> QED BY <2>1, <2>2, <2>3, <2>4
      DEF TypeInv, TypeOK, StoreTypeOK, AuthTypeOK, RefreshTypeOK, PolicyTypeOK,
          storeVars, authVars, refreshVars, policyVars
<1>16. ASSUME NEW a \in Attempts, RefreshThrows(a) PROVE TypeOK'
  <2>0. att[a].user \in Users
    BY <1>16 DEF RefreshThrows, TypeInv, Attributed, Busy
  <2>1. job' \in [CredIds -> Job]
    <3>1. /\ att[a].job \in CredIds
          /\ job[att[a].job].tries \in Nat /\ job[att[a].job].tries + 1 \in 0..MaxTries
      BY <1>16, <1>att, <1>job, StoreAssumption
         DEF RefreshThrows, Attempt, Job, TypeInv, JobsOK, Busy
    <3> QED BY <1>16, <1>job, <3>1 DEF RefreshThrows, RetryJob, Job
  <2>2. att' \in [Attempts -> Attempt]
    BY <1>16, <1>att, <2>0, IdleTypes DEF RefreshThrows, Attempt, CredIds, RowIds
  <2>3. faults' \in 0..MaxFaults
    BY <1>16, <1>faults, <2>0, RefreshAssumption DEF RefreshThrows
  <2>4. UNCHANGED <<conn, rowLock, stored, grant, issued, created, outbox, service,
                     authVars, late, seen, policyVars>>
    BY <1>16 DEF RefreshThrows, RetryJob
  <2> QED BY <2>1, <2>2, <2>3, <2>4
      DEF TypeInv, TypeOK, StoreTypeOK, AuthTypeOK, RefreshTypeOK, PolicyTypeOK,
          storeVars, authVars, refreshVars, policyVars
<1>12. ASSUME NEW u \in Users, LeaseLapses(u) PROVE TypeOK'
  <2>1. conn' \in [Users -> Row]
    <3> DEFINE row == [conn[u] EXCEPT !.held = FALSE]
    <3>1. row \in Row
      BY <1>conn DEF Row
    <3>2. conn' = [conn EXCEPT ![u] = row]
      BY <1>12 DEF LeaseLapses
    <3> HIDE DEF row
    <3> QED BY <1>conn, <3>1, <3>2
  <2>2. late' \in SUBSET (Attempts \cup {None})
    BY <1>12, <1>late, <1>conn DEF LeaseLapses, Row
  <2>3. UNCHANGED <<rowLock, stored, grant, issued, created, outbox, job, service,
                     authVars, att, seen, faults, policyVars>>
    BY <1>12 DEF LeaseLapses
  <2> QED BY <2>1, <2>2, <2>3
      DEF TypeInv, TypeOK, StoreTypeOK, AuthTypeOK, RefreshTypeOK, PolicyTypeOK,
          storeVars, authVars, refreshVars, policyVars
<1>13. ASSUME NEW u \in Users, SweepMark(u) PROVE TypeOK'
  <2>1. conn' \in [Users -> Row]
    BY <1>13, <1>conn, <1>seen, StoreAssumption DEF SweepMark, Row, Seen, RowIds, CredIds,
        Statuses
  <2>2. outbox' \in [RowIds -> Seq(Events)]
    <3>1. seen[u].id \in RowIds
      BY <1>seen DEF Seen
    <3> QED BY <1>13, <1>outbox, <3>1, PublishType DEF SweepMark, Events
  <2>3. seen' \in [Users -> Seen]
    BY <1>13, <1>seen, IdleTypes DEF SweepMark, Seen
  <2>4. UNCHANGED <<rowLock, stored, grant, issued, created, job, service, authVars, att,
                     late, faults, policyVars>>
    BY <1>13 DEF SweepMark, Publish
  <2> QED BY <2>1, <2>2, <2>3, <2>4
      DEF TypeInv, TypeOK, StoreTypeOK, AuthTypeOK, RefreshTypeOK, PolicyTypeOK,
          storeVars, authVars, refreshVars, policyVars
<1>14. ASSUME SweepSelect PROVE TypeOK'
  <2>1. seen' \in [Users -> Seen]
    BY <1>14, <1>seen, <1>conn, IdleTypes DEF SweepSelect, Seen, Row
  <2>2. UNCHANGED <<storeVars, authVars, att, late, faults, policyVars>>
    BY <1>14 DEF SweepSelect
  <2> QED BY <2>1, <2>2
      DEF TypeInv, TypeOK, StoreTypeOK, AuthTypeOK, RefreshTypeOK, PolicyTypeOK,
          storeVars, authVars, refreshVars, policyVars
<1> QED BY <1>1, <1>2, <1>3, <1>4, <1>5, <1>6, <1>7, <1>8, <1>9, <1>10, <1>11, <1>12, <1>13,
        <1>14, <1>16 DEF RefreshNext, RefreshStep

\* and the tenant's settings request.
LEMMA PolicyTypes == ASSUME TypeInv, PolicyNext PROVE TypeOK'
<1>conn. conn \in [Users -> Row]
  BY Types
<1>stored. stored \in SUBSET CredIds
  BY Types
<1>service. service \in Service
  BY Types
<1>adm. adm \in Admin
  BY Types
<1>changes. changes \in 0..MaxChanges
  BY Types
<1>toggles. toggles \in 0..MaxToggles
  BY Types
<1>1. ASSUME SetEnabled PROVE TypeOK'
  <2>1. service' \in Service
    BY <1>1, <1>service DEF SetEnabled, Service
  <2>2. toggles' \in 0..MaxToggles
    BY <1>1, <1>toggles, PolicyAssumption DEF SetEnabled
  <2>3. UNCHANGED <<conn, rowLock, stored, grant, issued, created, outbox, job, authVars,
                     refreshVars, adm, changes>>
    BY <1>1 DEF SetEnabled
  <2> QED BY <2>1, <2>2, <2>3
      DEF TypeInv, TypeOK, StoreTypeOK, AuthTypeOK, RefreshTypeOK, PolicyTypeOK,
          storeVars, authVars, refreshVars, policyVars
<1>2. ASSUME NEW p \in Policies, PolicySelect(p) PROVE TypeOK'
  <2>1. adm' \in Admin
    <3>1. {conn[u].cred : u \in Users} \ {0} \subseteq CredIds
      BY <1>conn DEF Row
    <3> QED BY <1>2, <3>1 DEF PolicySelect, Admin
  <2>2. changes' \in 0..MaxChanges
    BY <1>2, <1>changes, PolicyAssumption DEF PolicySelect
  <2>3. UNCHANGED <<storeVars, authVars, refreshVars, toggles>>
    BY <1>2 DEF PolicySelect
  <2> QED BY <2>1, <2>2, <2>3
      DEF TypeInv, TypeOK, StoreTypeOK, AuthTypeOK, RefreshTypeOK, PolicyTypeOK,
          storeVars, authVars, refreshVars, policyVars
<1>3. ASSUME PolicyCommit PROVE TypeOK'
  <2>1. conn' \in [Users -> Row]
    BY <1>3, <1>conn, RowTypes DEF PolicyCommit
  <2>2. stored' \in SUBSET CredIds
    BY <1>3, <1>stored, StoreAssumption DEF PolicyCommit, CredIds
  <2>3. service' \in Service
    BY <1>3, <1>service, <1>adm DEF PolicyCommit, Service, Admin
  <2>4. adm' \in Admin
    BY <1>3, <1>adm, IdleTypes DEF PolicyCommit, Admin
  <2>5. UNCHANGED <<rowLock, grant, issued, created, outbox, job, authVars, refreshVars,
                     changes, toggles>>
    BY <1>3 DEF PolicyCommit
  <2> QED BY <2>1, <2>2, <2>3, <2>4, <2>5
      DEF TypeInv, TypeOK, StoreTypeOK, AuthTypeOK, RefreshTypeOK, PolicyTypeOK,
          storeVars, authVars, refreshVars, policyVars
<1>4. ASSUME PolicyAbort PROVE TypeOK'
  <2>1. adm' \in Admin
    BY <1>4, <1>adm, IdleTypes DEF PolicyAbort, Admin
  <2>2. UNCHANGED <<storeVars, authVars, refreshVars, changes, toggles>>
    BY <1>4 DEF PolicyAbort
  <2> QED BY <2>1, <2>2
      DEF TypeInv, TypeOK, StoreTypeOK, AuthTypeOK, RefreshTypeOK, PolicyTypeOK,
          storeVars, authVars, refreshVars, policyVars
<1> QED BY <1>1, <1>2, <1>3, <1>4 DEF PolicyNext

-----------------------------------------------------------------------------
(***************************************************************************)
(* Every action keeps what the types rest on                               *)
(***************************************************************************)

\* The connect flow knows whom it works for.
LEMMA AuthAttributed == ASSUME TypeInv, AuthNext PROVE Attributed'
<1>session. session \in [Sessions -> Session]
  BY Types
<1>txn. txn \in [Txns -> Txn]
  BY Types
<1>cb. cb \in [Callbacks -> Callback]
  BY Types
<1>leaving. leaving \in SUBSET Sessions
  BY Types
<1>inv. Attributed
  BY DEF TypeInv
<1>1. ASSUME NEW s \in Sessions, NEW u \in Users, NEW stepUp \in BOOLEAN, CreateSession(s,
     u, stepUp) PROVE Attributed'
  BY <1>1, <1>session, <1>inv DEF CreateSession, Attributed, Working, Busy, Session,
      refreshVars
<1>2. ASSUME NEW s \in Sessions, SessionEnds(s) PROVE Attributed'
  BY <1>2, <1>session, <1>inv DEF SessionEnds, Attributed, Working, Busy, Session,
      refreshVars
<1>3. ASSUME NEW s \in Sessions, StepUpEnds(s) PROVE Attributed'
  BY <1>3, <1>session, <1>inv DEF StepUpEnds, Attributed, Working, Busy, Session,
      refreshVars
<1>4. ASSUME NEW s \in Sessions, DisconnectLoad(s) PROVE Attributed'
  BY <1>4, <1>leaving, <1>inv DEF DisconnectLoad, Attributed, Working, Busy, refreshVars
<1>5. ASSUME NEW s \in Sessions, Disconnect(s) PROVE Attributed'
  <2>1. session' = [session EXCEPT ![s].st = "ended"] /\ leaving' = leaving \ {s}
        /\ s \in leaving /\ UNCHANGED <<cb, att>>
    BY <1>5 DEF Disconnect, refreshVars
  <2>2. \A t \in Txns: txn'[t] = txn[t] \/ txn'[t] = [txn[t] EXCEPT !.st = "deleted"]
    BY <1>5 DEF Disconnect
  <2>3. \A t \in Txns: /\ txn'[t].user = txn[t].user /\ txn'[t].row = txn[t].row
                        /\ txn'[t].st \in {txn[t].st, "deleted"}
    <3>1. \A t \in Txns: LET gone == [txn[t] EXCEPT !.st = "deleted"]
                         IN  gone.user = txn[t].user /\ gone.row = txn[t].row /\ gone.st = "deleted"
      BY <1>txn DEF Txn
    <3> QED BY <2>2, <3>1
  <2>4. \A t \in Txns: txn[t].st = "free" => txn'[t].st = "free"
    BY <1>5, <1>inv DEF Disconnect, Attributed
  <2> QED BY <2>1, <2>3, <2>4, <1>session, <1>leaving, <1>inv
          DEF Attributed, Working, Busy, Session
<1>6. ASSUME NEW s \in Sessions, DisconnectAbort(s) PROVE Attributed'
  BY <1>6, <1>leaving, <1>inv DEF DisconnectAbort, Attributed, Working, Busy, refreshVars
<1>7. ASSUME NEW t \in Txns, NEW s \in Sessions, AuthorizeLoad(t, s) PROVE Attributed'
  BY <1>7, <1>txn, <1>inv DEF AuthorizeLoad, Attributed, Working, Busy, Txn, refreshVars
<1>8. ASSUME NEW t \in Txns, AuthorizeMint(t) PROVE Attributed'
  BY <1>8, <1>txn, <1>inv DEF AuthorizeMint, Attributed, Working, Busy, Txn, refreshVars
<1>9. ASSUME NEW t \in Txns, StateLapses(t) PROVE Attributed'
  BY <1>9, <1>txn, <1>inv DEF StateLapses, Attributed, Working, Busy, Txn, refreshVars
<1>10. ASSUME NEW c \in Callbacks, NEW t \in Txns, CallbackConsume(c, t) PROVE Attributed'
  BY <1>10, <1>txn, <1>cb, <1>inv DEF CallbackConsume, IdleCallback, Attributed, Working,
      Busy, Txn, Callback, refreshVars
<1>11. ASSUME NEW c \in Callbacks, CallbackRefused(c) PROVE Attributed'
  <2>1. cb' = [cb EXCEPT ![c] = IdleCallback] /\ UNCHANGED <<session, txn, leaving, att>>
    BY <1>11 DEF CallbackRefused, refreshVars
  <2>2. cb'[c].pc = "idle" /\ \A d \in Callbacks \ {c}: cb'[d] = cb[d]
    BY <2>1, <1>cb DEF IdleCallback
  <2> QED BY <2>1, <2>2, <1>inv DEF Attributed, Working, Busy
<1>12. ASSUME NEW c \in Callbacks, CallbackBegin(c) PROVE Attributed'
  <2>1. cb[c].pc = "consumed" /\ UNCHANGED <<session, txn, leaving, att>>
    BY <1>12 DEF CallbackBegin, refreshVars
  <2>2. \A d \in Callbacks: cb'[d].t = cb[d].t /\ cb'[d].user = cb[d].user
    BY <1>12, <1>cb DEF CallbackBegin, Callback
  <2>3. \A d \in Callbacks: cb'[d].pc = cb[d].pc \/ d = c
    BY <1>12, <1>cb DEF CallbackBegin, Callback
  <2> QED BY <2>1, <2>2, <2>3, <1>inv DEF Attributed, Working, Busy
<1>13. ASSUME NEW c \in Callbacks, CallbackFail(c) PROVE Attributed'
  <2>1. /\ cb' = [cb EXCEPT ![c] = IdleCallback]
        /\ txn' = [txn EXCEPT ![cb[c].t].st = "deleted"]
        /\ UNCHANGED <<session, leaving, att>>
    BY <1>13 DEF CallbackFail, DropVerifier, refreshVars
  <2>2. cb[c].t \in Txns /\ txn[cb[c].t].user \in Users
    BY <1>13, <1>inv DEF CallbackFail, Attributed, Working
  <2>3. /\ txn'[cb[c].t].st = "deleted" /\ txn'[cb[c].t].user = txn[cb[c].t].user
        /\ \A t \in Txns \ {cb[c].t}: txn'[t] = txn[t]
    BY <2>1, <2>2, <1>txn DEF Txn
  <2>4. /\ cb'[c].pc = "idle" /\ \A d \in Callbacks \ {c}: cb'[d] = cb[d]
    BY <2>1, <1>cb DEF IdleCallback
  <2> QED BY <2>1, <2>2, <2>3, <2>4, <1>inv DEF Attributed, Working, Busy
<1>14. ASSUME NEW c \in Callbacks, CallbackNoToken(c) PROVE Attributed'
  <2>1. /\ cb' = [cb EXCEPT ![c] = IdleCallback]
        /\ txn' = [txn EXCEPT ![cb[c].t].st = "deleted"]
        /\ UNCHANGED <<session, leaving, att>>
    BY <1>14 DEF CallbackNoToken, DropVerifier, refreshVars
  <2>2. cb[c].t \in Txns /\ txn[cb[c].t].user \in Users
    BY <1>14, <1>inv DEF CallbackNoToken, Attributed, Working
  <2>3. /\ txn'[cb[c].t].st = "deleted" /\ txn'[cb[c].t].user = txn[cb[c].t].user
        /\ \A t \in Txns \ {cb[c].t}: txn'[t] = txn[t]
    BY <2>1, <2>2, <1>txn DEF Txn
  <2>4. /\ cb'[c].pc = "idle" /\ \A d \in Callbacks \ {c}: cb'[d] = cb[d]
    BY <2>1, <1>cb DEF IdleCallback
  <2> QED BY <2>1, <2>2, <2>3, <2>4, <1>inv DEF Attributed, Working, Busy
<1>15. ASSUME NEW c \in Callbacks, CallbackConflict(c) PROVE Attributed'
  BY <1>15, <1>cb, <1>inv DEF CallbackConflict, IdleCallback, Attributed, Working, Busy,
      Callback, refreshVars
<1>16. ASSUME NEW c \in Callbacks, NEW expires \in BOOLEAN, CallbackStore(c, expires) PROVE
     Attributed'
  BY <1>16, <1>cb, <1>inv DEF CallbackStore, Attributed, Working, Busy, Callback,
      refreshVars
<1>17. ASSUME NEW c \in Callbacks, CallbackCommit(c) PROVE Attributed'
  <2>1. /\ cb' = [cb EXCEPT ![c] = IdleCallback]
        /\ txn' = [txn EXCEPT ![cb[c].t].st = "deleted"]
        /\ UNCHANGED <<session, leaving, att>>
    BY <1>17 DEF CallbackCommit, DropVerifier, refreshVars
  <2>2. cb[c].t \in Txns /\ txn[cb[c].t].user \in Users
    BY <1>17, <1>inv DEF CallbackCommit, Attributed, Working
  <2>3. /\ txn'[cb[c].t].st = "deleted" /\ txn'[cb[c].t].user = txn[cb[c].t].user
        /\ \A t \in Txns \ {cb[c].t}: txn'[t] = txn[t]
    BY <2>1, <2>2, <1>txn DEF Txn
  <2>4. /\ cb'[c].pc = "idle" /\ \A d \in Callbacks \ {c}: cb'[d] = cb[d]
    BY <2>1, <1>cb DEF IdleCallback
  <2> QED BY <2>1, <2>2, <2>3, <2>4, <1>inv DEF Attributed, Working, Busy
<1>18. ASSUME NEW c \in Callbacks, CallbackAbort(c) PROVE Attributed'
  BY <1>18, <1>cb, <1>inv DEF CallbackAbort, IdleCallback, Attributed, Working, Busy,
      Callback, refreshVars
<1> QED BY <1>1, <1>2, <1>3, <1>4, <1>5, <1>6, <1>7, <1>8, <1>9, <1>10, <1>11, <1>12, <1>13, <1>14,
    <1>15, <1>16, <1>17, <1>18 DEF AuthNext, CallbackStep

\* The worker knows whom it works for.
LEMMA RefreshAttributed == ASSUME TypeInv, RefreshNext PROVE Attributed'
<1>att. att \in [Attempts -> Attempt]
  BY Types
<1>inv. Attributed
  BY DEF TypeInv
<1>1. ASSUME UNCHANGED <<session, leaving, txn, cb, att>> PROVE Attributed'
  BY <1>1, <1>inv DEF Attributed, Working, Busy
<1>2. ASSUME NEW a \in Attempts, NEW k \in 1..MaxCreds, RefreshAcquire(a, k) PROVE
     Attributed'
  BY <1>2, <1>att, <1>inv DEF RefreshAcquire, IdleAttempt, Due, JobsOK, CredIds, TypeInv,
      Attributed, Working, Busy, Attempt, authVars
<1>3. ASSUME NEW a \in Attempts, RefreshFail(a) PROVE Attributed'
  BY <1>3, <1>att, <1>inv DEF RefreshFail, Publish, IdleAttempt, Attributed, Working, Busy,
      Attempt, authVars
<1>4. ASSUME NEW a \in Attempts, RefreshRead(a) PROVE Attributed'
  BY <1>4, <1>att, <1>inv DEF RefreshRead, Attributed, Working, Busy, Attempt, authVars
<1>5. ASSUME NEW a \in Attempts, RefreshRetry(a) PROVE Attributed'
  BY <1>5, <1>att, <1>inv DEF RefreshRetry, ReleaseLock, RetryJob, IdleAttempt, Attributed,
      Working, Busy, Attempt, authVars
<1>6. ASSUME NEW a \in Attempts, NEW expires \in BOOLEAN, RefreshPut(a, expires) PROVE
     Attributed'
  BY <1>6, <1>att, <1>inv DEF RefreshPut, Attributed, Working, Busy, Attempt, authVars
<1>7. ASSUME NEW a \in Attempts, RefreshCommit(a) PROVE Attributed'
  BY <1>7, <1>att, <1>inv DEF RefreshCommit, Publish, Attributed, Working, Busy, Attempt,
      authVars
<1>8. ASSUME NEW a \in Attempts, RefreshLost(a) \/ RefreshCommitFails(a) PROVE Attributed'
  <2>1. /\ att[a].pc = "put" /\ att' = [att EXCEPT ![a].pc = "dropped"]
        /\ UNCHANGED <<session, leaving, txn, cb>>
    BY <1>8, DropWrites DEF authVars
  <2>2. att'[a].user = att[a].user /\ \A b \in Attempts \ {a}: att'[b] = att[b]
    BY <2>1, <1>att DEF Attempt
  <2> QED BY <2>1, <2>2, <1>inv DEF Attributed, Working, Busy
<1>9. ASSUME NEW a \in Attempts, RefreshDeleteOld(a) PROVE Attributed'
  BY <1>9, <1>att, <1>inv DEF RefreshDeleteOld, Attributed, Working, Busy, Attempt, authVars
<1>10. ASSUME NEW a \in Attempts, RefreshDone(a) PROVE Attributed'
  BY <1>10, <1>att, <1>inv DEF RefreshDone, IdleAttempt, Attributed, Working, Busy, Attempt,
      authVars
<1>11. ASSUME NEW a \in Attempts, RefreshCrash(a) \/ RefreshThrows(a) PROVE Attributed'
  <2>1. att' = [att EXCEPT ![a] = IdleAttempt] /\ UNCHANGED <<session, leaving, txn, cb>>
    BY <1>11 DEF RefreshCrash, RefreshThrows, authVars
  <2>2. att'[a].pc = "idle" /\ \A b \in Attempts \ {a}: att'[b] = att[b]
    BY <2>1, <1>att DEF IdleAttempt
  <2> QED BY <2>1, <2>2, <1>inv DEF Attributed, Working, Busy
<1> QED BY <1>1, <1>2, <1>3, <1>4, <1>5, <1>6, <1>7, <1>8, <1>9, <1>10, <1>11 DEF RefreshNext,
    RefreshStep, RefreshSkip, LeaseLapses, SweepMark, SweepSelect, authVars, refreshVars

\* The connect flow enqueues a job for the credential it has drawn, and touches no other.
LEMMA AuthJobs == ASSUME TypeInv, AuthNext PROVE JobsOK'
<1>grant. grant \in [CredIds -> Grant]
  BY Types
<1>issued. issued \in CredIds
  BY Types
<1>job. job \in [CredIds -> Job]
  BY Types
<1>att. att \in [Attempts -> Attempt]
  BY Types
<1>inv. JobsOK
  BY DEF TypeInv
<1>1. ASSUME UNCHANGED <<job, issued, grant, att>> PROVE JobsOK'
  BY <1>1, <1>inv DEF JobsOK, Busy, Minted
<1>2. ASSUME NEW c \in Callbacks, NEW expires \in BOOLEAN, CallbackStore(c, expires) PROVE
     JobsOK'
  <2> DEFINE new == issued + 1
  <2>1. /\ job' = Enqueue(job, new, expires) /\ issued' = new /\ UNCHANGED att
        /\ \A k \in CredIds: grant'[k].user = IF k = new THEN cb[c].user ELSE grant[k].user
    BY <1>2, <1>grant DEF CallbackStore, Grant, refreshVars
  <2>2. new \in CredIds /\ cb[c].user \in Users
    BY <1>2, <1>issued, StoreAssumption DEF CallbackStore, CredIds, TypeInv, Attributed, Working
  <2>3. \A k \in CredIds:
          /\ k # new => job'[k] = job[k]
          /\ k = new => job'[k] = job[k] \/ job'[k] = [st |-> "waiting", tries |-> 0]
    BY <2>1, <2>2, <1>job DEF Enqueue
  <2>4. job[new].st = "none"
    BY <2>2, <1>inv, <1>issued DEF JobsOK, CredIds
  <2>5. \A a \in Attempts: att[a].job \in CredIds /\ att[a].new \in CredIds
    BY <1>att DEF Attempt
  <2>6. issued \in Nat /\ MaxTries \in Nat \ {0}
    BY <1>issued, StoreAssumption DEF CredIds
  <2>7. \A k \in CredIds: job'[k].st \in {"waiting", "active"} => job'[k].tries < MaxTries
    BY <2>3, <2>6, <1>inv DEF JobsOK
  <2>8. \A k \in CredIds:
          job'[k].st # "none" => k \in 1..issued' /\ grant'[k].user \in Users
    <3> SUFFICES ASSUME NEW k \in CredIds, job'[k].st # "none"
                 PROVE  k \in 1..issued' /\ grant'[k].user \in Users
      OBVIOUS
    <3>1. CASE k = new
      BY <3>1, <2>1, <2>2, <2>6
    <3>2. CASE k # new
      <4>1. k \in 1..issued /\ grant[k].user \in Users
        BY <3>2, <2>3, <1>inv DEF JobsOK
      <4> QED BY <4>1, <3>2, <2>1, <2>6
    <3> QED BY <3>1, <3>2
  <2>9. \A a \in Attempts:
          /\ Busy(a) => job'[att[a].job].st = "active"
          /\ Minted(a) => /\ att[a].new \in 1..issued' /\ job'[att[a].new].st = "none"
                          /\ grant'[att[a].new].user \in Users
    <3> SUFFICES ASSUME NEW a \in Attempts
                 PROVE  /\ Busy(a) => job'[att[a].job].st = "active"
                        /\ Minted(a) =>
                             /\ att[a].new \in 1..issued' /\ job'[att[a].new].st = "none"
                             /\ grant'[att[a].new].user \in Users
      OBVIOUS
    <3>1. Busy(a) => att[a].job # new
      BY <2>4, <1>inv DEF JobsOK
    <3>2. Minted(a) => /\ att[a].new \in 1..issued /\ job[att[a].new].st = "none"
                       /\ grant[att[a].new].user \in Users
      BY <1>inv DEF JobsOK
    <3>3. Busy(a) => job[att[a].job].st = "active"
      BY <1>inv DEF JobsOK
    <3>4. 1..issued \subseteq 1..issued' /\ new \notin 1..issued
      BY <2>1, <2>6
    <3>5. att[a].job \in CredIds /\ att[a].new \in CredIds
      BY <1>att DEF Attempt
    <3> HIDE DEF new
    <3> QED BY <3>1, <3>2, <3>3, <3>4, <3>5, <2>1, <2>3, <2>5
  <2> HIDE DEF new
  <2> QED BY <2>1, <2>7, <2>8, <2>9, <1>inv DEF JobsOK, Busy, Minted
<1> QED BY <1>1, <1>2 DEF AuthNext, CallbackStep, CreateSession, SessionEnds, StepUpEnds,
    DisconnectLoad, Disconnect, DisconnectAbort, AuthorizeLoad, AuthorizeMint, StateLapses,
    CallbackConsume, CallbackRefused, CallbackBegin, CallbackFail, CallbackNoToken,
    CallbackConflict, CallbackCommit, CallbackAbort, storeVars, refreshVars

\* The worker runs each job once at a time, and not more often than it may.
LEMMA RefreshJobs == ASSUME TypeInv, RefreshNext PROVE JobsOK'
<1>grant. grant \in [CredIds -> Grant]
  BY Types
<1>issued. issued \in CredIds
  BY Types
<1>job. job \in [CredIds -> Job]
  BY Types
<1>att. att \in [Attempts -> Attempt]
  BY Types
<1>inv. JobsOK
  BY DEF TypeInv
<1>1. ASSUME UNCHANGED <<job, issued, grant, att>> PROVE JobsOK'
  BY <1>1, <1>inv DEF JobsOK, Busy, Minted
<1>2. ASSUME NEW a \in Attempts, NEW k \in 1..MaxCreds, RefreshAcquire(a, k) PROVE JobsOK'
  <2>1. /\ att[a].pc = "idle" /\ job[k].st = "waiting"
        /\ job' = [job EXCEPT ![k].st = "active"]
        /\ UNCHANGED <<issued, grant>>
    BY <1>2 DEF RefreshAcquire, Due
  <2>2. k \in CredIds
    BY DEF CredIds
  <2>3. /\ att'[a].job = k /\ att'[a].pc = "acquired"
        /\ \A b \in Attempts \ {a}: att'[b] = att[b]
    BY <1>2, <1>att DEF RefreshAcquire, IdleAttempt
  <2>4. /\ job'[k] = [job[k] EXCEPT !.st = "active"]
        /\ \A j \in CredIds \ {k}: job'[j] = job[j]
    BY <2>1, <2>2, <1>job
  <2>5. job'[k].st = "active" /\ job'[k].tries = job[k].tries
    BY <2>2, <2>4, <1>job DEF Job
  <2>6. \A b \in Attempts: att[b].job \in CredIds /\ att[b].new \in CredIds
    BY <1>att DEF Attempt
  <2>7. \A b \in Attempts: (Busy(b) => att[b].job # k) /\ (Minted(b) => att[b].new # k)
    BY <2>1, <1>inv DEF JobsOK
  <2> QED
    BY <2>1, <2>2, <2>3, <2>4, <2>5, <2>6, <2>7, <1>inv DEF JobsOK, Busy, Minted
<1>3. ASSUME NEW k \in 1..MaxCreds, RefreshSkip(k) PROVE JobsOK'
  <2>1. /\ job[k].st = "waiting" /\ k \in CredIds
        /\ job' = [job EXCEPT ![k].st = "done"]
        /\ UNCHANGED <<att, issued, grant>>
    BY <1>3 DEF RefreshSkip, Due, CredIds, refreshVars
  <2>2. \A a \in Attempts: (Busy(a) => att[a].job # k) /\ (Minted(a) => att[a].new # k)
    BY <2>1, <1>inv DEF JobsOK
  <2>3. \A a \in Attempts: att[a].job \in CredIds /\ att[a].new \in CredIds
    BY <1>att DEF Attempt
  <2>4. job'[k].st = "done" /\ \A j \in CredIds \ {k}: job'[j] = job[j]
    BY <2>1, <1>job DEF Job
  <2> QED BY <2>1, <2>2, <2>3, <2>4, <1>inv DEF JobsOK, Busy, Minted
<1>4. ASSUME NEW a \in Attempts, RefreshFail(a) PROVE JobsOK'
  BY <1>4, <1>job, <1>att, <1>inv DEF RefreshFail, Publish, IdleAttempt, JobsOK, Busy,
      Minted, Job, Attempt
<1>5. ASSUME NEW a \in Attempts, RefreshRead(a) PROVE JobsOK'
  BY <1>5, <1>att, <1>inv DEF RefreshRead, JobsOK, Busy, Minted, Attempt, storeVars
<1>6. ASSUME NEW a \in Attempts, RefreshRetry(a) PROVE JobsOK'
  BY <1>6, <1>job, <1>att, <1>inv DEF RefreshRetry, ReleaseLock, RetryJob, IdleAttempt,
      JobsOK, Busy, Minted, Job, Attempt
<1>7. ASSUME NEW a \in Attempts, NEW expires \in BOOLEAN, RefreshPut(a, expires) PROVE
     JobsOK'
  <2> DEFINE new == issued + 1
  <2>1. /\ issued' = new /\ UNCHANGED job /\ att[a].pc = "read" /\ new \in CredIds
        /\ issued \in Nat
    BY <1>7, <1>issued, StoreAssumption DEF RefreshPut, CredIds
  <2>2. att[a].user \in Users
    BY <2>1 DEF TypeInv, Attributed, Busy
  <2>3. \A k \in CredIds: grant'[k].user = IF k = new THEN att[a].user ELSE grant[k].user
    BY <1>7, <2>1, <1>grant DEF RefreshPut, Grant
  <2>4. /\ att'[a].pc = "put" /\ att'[a].job = att[a].job /\ att'[a].new = new
        /\ \A b \in Attempts \ {a}: att'[b] = att[b]
    BY <1>7, <1>att DEF RefreshPut, Attempt
  <2>5. job[new].st = "none"
    BY <2>1, <1>inv DEF JobsOK
  <2>6. 1..issued \subseteq 1..new /\ new \in 1..new /\ new \notin 1..issued
    BY <2>1
  <2>7. \A k \in CredIds:
          job[k].st # "none" => k \in 1..issued' /\ grant'[k].user \in Users
    BY <2>1, <2>2, <2>3, <2>6, <1>inv DEF JobsOK
  <2>8. /\ grant'[new].user \in Users
        /\ \A b \in Attempts \ {a}: Minted(b) => grant'[att[b].new].user \in Users
    BY <2>1, <2>2, <2>3, <1>inv, <1>att DEF JobsOK, Attempt
  <2> HIDE DEF new
  <2>9. \A b \in Attempts:
          /\ Busy(b)' => Busy(b) /\ att'[b].job = att[b].job
          /\ Minted(b)' => b = a \/ (Minted(b) /\ att'[b].new = att[b].new)
    BY <2>1, <2>4 DEF Busy, Minted
  <2>10. \A b \in Attempts: Minted(b)' =>
           att'[b].new \in 1..issued' /\ grant'[att'[b].new].user \in Users
             /\ job'[att'[b].new].st = "none"
    BY <2>1, <2>4, <2>5, <2>6, <2>8, <2>9, <1>inv DEF JobsOK
  <2>11. \A b, d \in Attempts: Minted(b)' /\ Minted(d)' /\ att'[b].new = att'[d].new => b = d
    BY <2>4, <2>6, <2>9, <1>inv DEF JobsOK
  <2> QED BY <2>1, <2>7, <2>9, <2>10, <2>11, <1>inv DEF JobsOK
<1>8. ASSUME NEW a \in Attempts, RefreshCommit(a) PROVE JobsOK'
  BY <1>8, <1>att, <1>inv DEF RefreshCommit, Publish, JobsOK, Busy, Minted, Attempt
<1>9. ASSUME NEW a \in Attempts, RefreshLost(a) \/ RefreshCommitFails(a) PROVE JobsOK'
  <2>1. /\ att[a].pc = "put" /\ att' = [att EXCEPT ![a].pc = "dropped"]
        /\ UNCHANGED <<issued, grant, job>>
    BY <1>9, DropWrites
  <2>2. /\ att'[a].pc = "dropped" /\ att'[a].job = att[a].job
        /\ \A b \in Attempts \ {a}: att'[b] = att[b]
    BY <2>1, <1>att DEF Attempt
  <2> QED BY <2>1, <2>2, <1>inv DEF JobsOK, Busy, Minted
<1>10. ASSUME NEW a \in Attempts, RefreshDeleteOld(a) PROVE JobsOK'
  BY <1>10, <1>att, <1>inv DEF RefreshDeleteOld, JobsOK, Busy, Minted, Attempt
<1>11. ASSUME NEW a \in Attempts, RefreshDone(a) PROVE JobsOK'
  <2> DEFINE done == [job EXCEPT ![att[a].job].st = "done"]
  <2>1. /\ att[a].pc = "deleted" /\ job' = Enqueue(done, att[a].new, att[a].expires)
        /\ UNCHANGED <<issued, grant>>
        /\ att' = [att EXCEPT ![a] = IdleAttempt]
    BY <1>11 DEF RefreshDone
  <2>2. \A b \in Attempts: att[b].job \in CredIds /\ att[b].new \in CredIds
    BY <1>att DEF Attempt
  <2>3. /\ att'[a].pc = "idle" /\ \A b \in Attempts \ {a}: att'[b] = att[b]
    BY <2>1, <1>att DEF IdleAttempt
  <2>4. /\ job[att[a].job].st = "active"
        /\ job[att[a].new].st = "none" /\ att[a].new \in 1..issued
    BY <2>1, <1>inv DEF JobsOK, Busy, Minted
  <2>5. done[att[a].job].st = "done" /\ \A k \in CredIds \ {att[a].job}: done[k] = job[k]
    BY <2>2, <1>job DEF Job
  <2>6. /\ \A k \in CredIds \ {att[a].new}: job'[k] = done[k]
        /\ job'[att[a].new] = done[att[a].new]
             \/ job'[att[a].new] = [st |-> "waiting", tries |-> 0]
    BY <2>1, <2>2, <1>job DEF Enqueue
  <2>7. grant[att[a].new].user \in Users
    BY <2>1, <1>inv DEF JobsOK, Minted
  <2>8. MaxTries \in Nat \ {0}
    BY StoreAssumption
  <2> HIDE DEF done
  <2>9. \A b \in Attempts:
          /\ Busy(b)' => b # a /\ Busy(b) /\ att'[b] = att[b]
          /\ Minted(b)' => b # a /\ Minted(b) /\ att'[b] = att[b]
    BY <2>3 DEF Busy, Minted
  <2>10. Busy(a) /\ Minted(a)
    BY <2>1 DEF Busy, Minted
  <2>11. \A k \in CredIds: /\ job'[k].st \in {"waiting", "active"} => job'[k].tries < MaxTries
                           /\ job'[k].st # "none" => k \in 1..issued /\ grant[k].user \in Users
    BY <2>2, <2>4, <2>5, <2>6, <2>7, <2>8, <1>inv DEF JobsOK
  <2>12. \A b \in Attempts: Busy(b)' => job'[att'[b].job].st = "active"
    BY <2>2, <2>4, <2>5, <2>6, <2>9, <2>10, <1>inv DEF JobsOK
  <2>13. \A b \in Attempts: Minted(b)' => job'[att'[b].new].st = "none"
    BY <2>2, <2>4, <2>5, <2>6, <2>9, <2>10, <1>inv DEF JobsOK
  <2> QED BY <2>1, <2>9, <2>11, <2>12, <2>13, <1>inv DEF JobsOK
<1>12. ASSUME NEW a \in Attempts, RefreshCrash(a) PROVE JobsOK'
  BY <1>12, <1>job, <1>att, <1>inv DEF RefreshCrash, IdleAttempt, JobsOK, Busy, Minted, Job,
      Attempt
<1>13. ASSUME NEW a \in Attempts, RefreshThrows(a) PROVE JobsOK'
  BY <1>13, <1>job, <1>att, <1>inv DEF RefreshThrows, RetryJob, IdleAttempt, JobsOK, Busy,
      Minted, Job, Attempt
<1> QED BY <1>1, <1>2, <1>3, <1>4, <1>5, <1>6, <1>7, <1>8, <1>9, <1>10, <1>11, <1>12, <1>13 DEF
    RefreshNext, RefreshStep, LeaseLapses, SweepMark, SweepSelect, storeVars

-----------------------------------------------------------------------------
(***************************************************************************)
(* The theorem                                                             *)
(***************************************************************************)

\* Type correctness is preserved by the passing of an expiry.
LEMMA TimeTypes == ASSUME TypeInv, NEW u \in Users, TokenExpires(u) PROVE TypeInv'
<1>1. conn \in [Users -> Row]
  BY Types
<1>2. conn' \in [Users -> Row]
  BY <1>1 DEF TokenExpires, Row
<1>3. UNCHANGED <<rowLock, stored, grant, issued, created, outbox, job, service, authVars,
                  refreshVars, policyVars>>
  BY DEF TokenExpires
<1> QED BY <1>2, <1>3
        DEF TypeInv, TypeOK, StoreTypeOK, AuthTypeOK, RefreshTypeOK, PolicyTypeOK, Attributed,
            JobsOK, Working, Busy, Minted, authVars, refreshVars, policyVars

\* The initial state.
LEMMA TypeInit == Init => TypeInv
<1> SUFFICES ASSUME Init PROVE TypeInv
  OBVIOUS
<1>1. 0 \in RowIds /\ 0 \in CredIds
  BY StoreAssumption DEF RowIds, CredIds
<1>2. StoreTypeOK
  <2>1. conn \in [Users -> Row] /\ rowLock \in [Users -> Callbacks \cup {None}]
    BY RowTypes DEF Init, StoreInit
  <2>2. [user |-> None, row |-> 0, base |-> 0, policy |-> "read_only", expires |-> FALSE] \in Grant
    BY <1>1 DEF Grant, Policies
  <2>3. [st |-> "none", tries |-> 0] \in Job
    BY StoreAssumption DEF Job
  <2>4. outbox \in [RowIds -> Seq(Events)]
    BY DEF Init, StoreInit
  <2>5. service \in Service
    BY DEF Init, StoreInit, Service, Policies
  <2> QED BY <1>1, <2>1, <2>2, <2>3, <2>4, <2>5 DEF Init, StoreInit, StoreTypeOK
<1>3. AuthTypeOK
  BY <1>1, IdleTypes DEF Init, AuthInit, AuthTypeOK, Session, Txn, Policies
<1>4. RefreshTypeOK
  BY IdleTypes, RefreshAssumption DEF Init, RefreshInit, RefreshTypeOK
<1>5. PolicyTypeOK
  BY IdleTypes, PolicyAssumption DEF Init, PolicyInit, PolicyTypeOK
<1>6. Attributed
  BY DEF Init, AuthInit, RefreshInit, Attributed, Working, Busy, IdleCallback, IdleAttempt
<1>7. JobsOK
  BY DEF Init, StoreInit, RefreshInit, JobsOK, Busy, Minted, IdleAttempt
<1> QED BY <1>2, <1>3, <1>4, <1>5, <1>6, <1>7 DEF TypeInv, TypeOK

\* Every step preserves TypeInv.
LEMMA TypeStep == TypeInv /\ [Next]_vars => TypeInv'
<1> SUFFICES ASSUME TypeInv, [Next]_vars PROVE TypeInv'
  OBVIOUS
<1>1. CASE AuthNext
  BY <1>1, AuthTypes, AuthAttributed, AuthJobs DEF TypeInv
<1>2. CASE RefreshNext
  BY <1>2, RefreshTypes, RefreshAttributed, RefreshJobs DEF TypeInv
<1>3. CASE PolicyNext
  <2>1. UNCHANGED <<session, leaving, txn, cb, att, job, issued, grant>>
    BY <1>3 DEF PolicyNext, SetEnabled, PolicySelect, PolicyCommit, PolicyAbort,
                storeVars, authVars, refreshVars
  <2>2. Attributed' /\ JobsOK'
    BY <2>1 DEF TypeInv, Attributed, JobsOK, Working, Busy, Minted
  <2> QED BY <1>3, <2>2, PolicyTypes DEF TypeInv
<1>4. CASE \E u \in Users: TokenExpires(u)
  BY <1>4, TimeTypes
<1>5. CASE UNCHANGED vars
  BY <1>5 DEF TypeInv, TypeOK, StoreTypeOK, AuthTypeOK, RefreshTypeOK, PolicyTypeOK, Attributed,
              JobsOK, Working, Busy, Minted, vars, storeVars, authVars, refreshVars, policyVars
<1> QED BY <1>1, <1>2, <1>3, <1>4, <1>5 DEF Next

\* Every reachable state is well typed, whoever works for whom is known, and every job is
\* within its attempts (the handlers of routes/oauth.ts and jobs/token-refresh.ts).
THEOREM TypeInvariance == Spec => []TypeInv
<1>1. Init => TypeInv
  BY TypeInit
<1>2. TypeInv /\ [Next]_vars => TypeInv'
  BY TypeStep
<1> QED BY <1>1, <1>2, PTL DEF Spec

\* The type invariant of the runs.
THEOREM TypeCorrectness == Spec => []TypeOK
<1>1. TypeInv => TypeOK
  BY DEF TypeInv
<1> QED BY <1>1, TypeInvariance, PTL
=============================================================================
