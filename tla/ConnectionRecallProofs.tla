----------------------- MODULE ConnectionRecallProofs -----------------------
(***************************************************************************)
(* What requests and jobs remember of the rows of ConnectionLifecycle, for *)
(* every value of its constants: leases exclude, no credential is replaced *)
(* unseen, the sweep expires only what is overdue, and no secret is left   *)
(* without an owner.                                                       *)
(*                                                                         *)
(* Whoever remembers a version has just read it or remembered it before    *)
(* (Remembers), so he knows what is in it until somebody bumps it          *)
(* (RowStep, VersionsOK), and nobody bumps the version of a locked row.    *)
(***************************************************************************)
EXTENDS ConnectionRecordProofs

\* A request or a job remembers what it did, or what it reads in the row now.
Same(old, new) == new.user = old.user /\ new.row = old.row /\ new.ver = old.ver /\ new.cred = old.cred
Fresh(m) == m.ver = conn'[m.user].ver /\ m.cred = conn'[m.user].cred

RemembersCb ==
  /\ \A c \in Callbacks: Told(c)' => (Told(c) /\ Same(cb[c], cb'[c])) \/ Fresh(cb'[c])
  /\ \A c \in Callbacks: cb'[c].pc = "locked" =>
       \/ cb'[c] = cb[c]
       \/ cb'[c].ver = conn'[cb'[c].user].ver /\ grant'[cb'[c].new].base = cb'[c].cred

RemembersAtt ==
  /\ \A a \in Attempts: AtProvider(a)' =>
       (AtProvider(a) /\ Same(att[a], att'[a])) \/ Fresh(att'[a])
  /\ \A a \in Attempts: att'[a].pc = "put" =>
       att'[a] = att[a] \/ grant'[att'[a].new].base = att'[a].cred

RemembersSeen ==
  \A u \in Users: \/ seen'[u] = seen[u]
                  \/ seen'[u].id = 0
                  \/ seen'[u].ver = conn'[u].ver /\ conn'[u].exp = "past"

GrantsKept == \A k \in 1..issued: grant'[k] = grant[k]

\* The rows they remember were inserted, and still were.
RemembersRows ==
  /\ \A t \in Txns: txn'[t].row = txn[t].row \/ txn'[t].row <= created'
  /\ \A c \in Callbacks: cb'[c].row \in {cb[c].row, 0} \/ \E t \in Txns: cb'[c].row = txn[t].row
  /\ \A a \in Attempts: att'[a].row \in {att[a].row, 0} \/ \E k \in CredIds: att'[a].row = grant[k].row
  /\ \A k \in CredIds: \/ grant'[k].row = grant[k].row
                       \/ \E c \in Callbacks: grant'[k].row = cb[c].row
                       \/ \E a \in Attempts: grant'[k].row = att[a].row
  /\ \A u \in Users: seen'[u].id \in {seen[u].id, 0, conn[u].id}

Remembers == RemembersCb /\ RemembersAtt /\ RemembersSeen /\ GrantsKept /\ RemembersRows

-----------------------------------------------------------------------------
(***************************************************************************)
(* What each component's steps remember                                    *)
(***************************************************************************)

\* Nothing new.
LEMMA AttRemembers == ASSUME UNCHANGED <<att, seen>> PROVE RemembersAtt /\ RemembersSeen
  BY DEF RemembersAtt, RemembersSeen, AtProvider, Same

LEMMA CbRemembers == ASSUME UNCHANGED cb PROVE RemembersCb
  BY DEF RemembersCb, Told, Same

LEMMA RowsRemember == ASSUME UNCHANGED <<txn, cb, att, grant, seen>> PROVE RemembersRows
  BY DEF RemembersRows

\* A callback reads the row before the exchange, and checks its version when it writes.
LEMMA CallbackRemembers == ASSUME IInv, NEW c \in Callbacks, CallbackStep(c) PROVE RemembersCb
<1>0. cb \in [Callbacks -> Callback] /\ conn \in [Users -> Row] /\ grant \in [CredIds -> Grant]
      /\ issued \in CredIds
  BY IInvTypes, Types
<1>1. ASSUME cb' = [cb EXCEPT ![c] = IdleCallback] PROVE RemembersCb
  BY <1>0, <1>1 DEF RemembersCb, Told, Same, IdleCallback
<1>2. CASE CallbackBegin(c)
  <2>1. /\ \A d \in Callbacks \ {c}: cb'[d] = cb[d]
        /\ cb'[c].pc = "exchanging" /\ cb'[c].user = cb[c].user
        /\ cb'[c].ver = conn[cb[c].user].ver /\ cb'[c].cred = conn[cb[c].user].cred
    BY <1>0, <1>2 DEF CallbackBegin, Callback
  <2>2. UNCHANGED conn
    BY <1>2 DEF CallbackBegin, storeVars
  <2> QED BY <2>1, <2>2 DEF RemembersCb, Told, Same, Fresh
<1>3. ASSUME NEW expires \in BOOLEAN, CallbackStore(c, expires) PROVE RemembersCb
  <2>1. /\ \A d \in Callbacks \ {c}: cb'[d] = cb[d]
        /\ cb'[c].user = cb[c].user /\ cb'[c].row = cb[c].row /\ cb'[c].ver = cb[c].ver
        /\ cb'[c].cred = cb[c].cred /\ cb'[c].new = issued + 1
    BY <1>0, <1>3 DEF CallbackStore, Callback
  <2>2. UNCHANGED conn /\ conn[cb[c].user].ver = cb[c].ver /\ cb[c].pc = "exchanging"
    BY <1>3 DEF CallbackStore, IsAsRead
  <2>3. issued + 1 \in CredIds
    BY <1>0, <1>3 DEF CallbackStore, CredIds
  <2>4. grant'[issued + 1].base = cb[c].cred
    BY <1>0, <1>3, <2>3 DEF CallbackStore
  <2> QED BY <2>1, <2>2, <2>4 DEF RemembersCb, Told, Same
<1> QED BY <1>1, <1>2, <1>3 DEF CallbackStep, CallbackRefused, CallbackFail, CallbackNoToken,
                                CallbackConflict, CallbackCommit, CallbackAbort

\* What is granted stays granted: new credentials have new numbers.
LEMMA GrantsStay == ASSUME IInv, [Next]_vars PROVE GrantsKept
<1>1. issued \in Nat /\ 1..issued \subseteq CredIds /\ grant \in [CredIds -> Grant]
  BY IInvTypes, Types, StoreAssumption DEF CredIds
<1>2. ASSUME NEW g, grant' = [grant EXCEPT ![issued + 1] = g] PROVE GrantsKept
  BY <1>1, <1>2 DEF GrantsKept
<1>3. ASSUME NEW c \in Callbacks, NEW expires \in BOOLEAN, CallbackStore(c, expires)
      PROVE  GrantsKept
  BY <1>2, <1>3 DEF CallbackStore
<1>4. ASSUME NEW a \in Attempts, NEW expires \in BOOLEAN, RefreshPut(a, expires)
      PROVE  GrantsKept
  BY <1>2, <1>4 DEF RefreshPut
<1>5. ASSUME UNCHANGED grant PROVE GrantsKept
  BY <1>5 DEF GrantsKept
<1>6. CASE AuthNext
  BY <1>3, <1>5, <1>6, AuthWriters
<1>7. CASE RefreshNext
  BY <1>4, <1>5, <1>7, RefreshWriters
<1>8. CASE PolicyNext \/ (\E u \in Users: TokenExpires(u)) \/ UNCHANGED vars
  BY <1>5, <1>8 DEF PolicyNext, SetEnabled, PolicySelect, PolicyCommit, PolicyAbort,
                    TokenExpires, vars, storeVars
<1> QED BY <1>6, <1>7, <1>8 DEF Next

\* A run reads the row when it takes the lease, and grants what it read.
LEMMA RunRemembers == ASSUME IInv, RefreshNext PROVE RemembersAtt
<1>0. /\ att \in [Attempts -> Attempt] /\ conn \in [Users -> Row] /\ grant \in [CredIds -> Grant]
      /\ issued \in CredIds /\ 1..MaxCreds \subseteq CredIds
  BY IInvTypes, Types DEF CredIds
<1>1. ASSUME NEW a \in Attempts, NEW k \in 1..MaxCreds, RefreshAcquire(a, k) PROVE RemembersAtt
  <2> DEFINE u == grant[k].user
  <2>1. /\ \A b \in Attempts \ {a}: att'[b] = att[b]
        /\ att'[a].pc = "acquired" /\ att'[a].user = u
        /\ att'[a].ver = conn[u].ver /\ att'[a].cred = conn[u].cred
    BY <1>0, <1>1 DEF RefreshAcquire, IdleAttempt
  <2>2. u \in Users
    <3>1. job[k].st # "none" /\ k \in CredIds
      BY <1>0, <1>1 DEF RefreshAcquire, Due
    <3> QED BY <3>1 DEF IInv, JobsOK
  <2>3. conn' = [conn EXCEPT ![u].lock = a, ![u].held = TRUE]
    BY <1>1 DEF RefreshAcquire
  <2> HIDE DEF u
  <2>4. conn'[u].ver = conn[u].ver /\ conn'[u].cred = conn[u].cred
    BY <1>0, <2>2, <2>3 DEF Row
  <2> QED BY <2>1, <2>4 DEF RemembersAtt, AtProvider, Same, Fresh
<1>2. ASSUME NEW a \in Attempts, att' = [att EXCEPT ![a] = IdleAttempt] PROVE RemembersAtt
  BY <1>0, <1>2 DEF RemembersAtt, AtProvider, Same, IdleAttempt
<1>3. ASSUME NEW a \in Attempts, RefreshRead(a) PROVE RemembersAtt
  <2>1. /\ \A b \in Attempts \ {a}: att'[b] = att[b]
        /\ att'[a] = [att[a] EXCEPT !.pc = "read"] /\ att[a].pc = "acquired"
    BY <1>0, <1>3 DEF RefreshRead
  <2>2. att'[a].pc = "read" /\ Same(att[a], att'[a])
    BY <1>0, <2>1 DEF Attempt, Same
  <2> QED BY <2>1, <2>2 DEF RemembersAtt, AtProvider, Same
<1>4. ASSUME NEW a \in Attempts, NEW expires \in BOOLEAN, RefreshPut(a, expires)
      PROVE  RemembersAtt
  <2>1. /\ \A b \in Attempts \ {a}: att'[b] = att[b]
        /\ Same(att[a], att'[a]) /\ att'[a].new = issued + 1 /\ att[a].pc = "read"
    BY <1>0, <1>4 DEF RefreshPut, Attempt, Same
  <2>2. issued + 1 \in CredIds
    BY <1>0, <1>4 DEF RefreshPut, CredIds
  <2>3. grant'[issued + 1].base = att[a].cred
    BY <1>0, <1>4, <2>2 DEF RefreshPut
  <2> QED BY <2>1, <2>3 DEF RemembersAtt, AtProvider, Same
<1>5. ASSUME NEW a \in Attempts, NEW pc \in {"dropped", "committed", "deleted"},
             att' = [att EXCEPT ![a].pc = pc]
      PROVE  RemembersAtt
  BY <1>0, <1>5 DEF RemembersAtt, AtProvider, Same, Attempt
<1>6. ASSUME UNCHANGED att PROVE RemembersAtt
  BY <1>6 DEF RemembersAtt, AtProvider, Same
<1>7. ASSUME NEW a \in Attempts, RefreshStep(a) PROVE RemembersAtt
  <2>1. CASE RefreshCommit(a) \/ RefreshDeleteOld(a)
    BY <1>5, <2>1 DEF RefreshCommit, RefreshDeleteOld
  <2>2. CASE RefreshFail(a) \/ RefreshRetry(a) \/ RefreshDone(a) \/ RefreshThrows(a)
             \/ RefreshCrash(a)
    BY <1>2, <2>2 DEF RefreshFail, RefreshRetry, RefreshDone, RefreshThrows, RefreshCrash
  <2>3. CASE RefreshLost(a) \/ RefreshCommitFails(a)
    BY <1>5, <2>3, DropWrites
  <2> QED BY <1>3, <1>4, <1>7, <2>1, <2>2, <2>3 DEF RefreshStep
<1>8. CASE \E k \in 1..MaxCreds: RefreshSkip(k)
  BY <1>6, <1>8 DEF RefreshSkip, refreshVars
<1>9. CASE \E u \in Users: LeaseLapses(u) \/ SweepMark(u)
  BY <1>6, <1>9 DEF LeaseLapses, SweepMark
<1>10. CASE SweepSelect
  BY <1>6, <1>10 DEF SweepSelect
<1> QED BY <1>1, <1>7, <1>8, <1>9, <1>10 DEF RefreshNext

\* The sweep sees what it selects.
LEMMA SweepRemembers == ASSUME IInv, RefreshNext PROVE RemembersSeen
<1>0. seen \in [Users -> Seen] /\ conn \in [Users -> Row]
  BY IInvTypes, Types
<1>1. CASE SweepSelect
  <2>1. \A u \in Users: \/ seen'[u].id = 0
                        \/ seen'[u].ver = conn[u].ver /\ conn[u].exp = "past"
    BY <1>1 DEF SweepSelect, Overdue, NotSeen
  <2>2. UNCHANGED conn
    BY <1>1 DEF SweepSelect, storeVars
  <2> QED BY <2>1, <2>2 DEF RemembersSeen
<1>2. ASSUME NEW u \in Users, SweepMark(u) PROVE RemembersSeen
  BY <1>0, <1>2 DEF SweepMark, RemembersSeen, NotSeen
<1>3. ASSUME UNCHANGED seen PROVE RemembersSeen
  BY <1>3 DEF RemembersSeen
<1> QED BY <1>1, <1>2, <1>3, RefreshWriters

\* Rows are remembered from where they are written down.
LEMMA RowsRemembered == ASSUME IInv, EventsOK, [Next]_vars PROVE RemembersRows
<1>0. /\ txn \in [Txns -> Txn] /\ cb \in [Callbacks -> Callback] /\ att \in [Attempts -> Attempt]
      /\ grant \in [CredIds -> Grant] /\ seen \in [Users -> Seen] /\ conn \in [Users -> Row]
      /\ issued \in CredIds /\ created \in Nat /\ 1..MaxCreds \subseteq CredIds
      /\ \A u \in Users: conn[u].id \in Nat
  BY IInvTypes, Types DEF CredIds, RowIds, Row
<1> DEFINE T == \A t \in Txns: txn'[t].row = txn[t].row \/ txn'[t].row <= created'
           C == \A c \in Callbacks: \/ cb'[c].row \in {cb[c].row, 0}
                                    \/ \E t \in Txns: cb'[c].row = txn[t].row
           A == \A a \in Attempts: \/ att'[a].row \in {att[a].row, 0}
                                   \/ \E k \in CredIds: att'[a].row = grant[k].row
           G == \A k \in CredIds: \/ grant'[k].row = grant[k].row
                                  \/ \E c \in Callbacks: grant'[k].row = cb[c].row
                                  \/ \E a \in Attempts: grant'[k].row = att[a].row
           S == \A u \in Users: seen'[u].id \in {seen[u].id, 0, conn[u].id}
<1>1. CASE AuthNext
  <2>1. A /\ S
    BY <1>1, AuthFrame
  <2>2. T
    <3>1. ASSUME NEW t \in Txns, AuthorizeMint(t) PROVE T
      <4>1. /\ \A v \in Txns \ {t}: txn'[v] = txn[v]
            /\ txn'[t].row = IF conn[txn[t].user].id = 0 THEN created + 1 ELSE conn[txn[t].user].id
        BY <1>0, <3>1 DEF AuthorizeMint, Txn
      <4>2. CASE conn[txn[t].user].id = 0
        BY <1>0, <3>1, <4>1, <4>2 DEF AuthorizeMint
      <4>3. CASE conn[txn[t].user].id # 0
        <5>1. txn[t].user \in Users /\ created' = created
          BY <3>1, <4>3 DEF AuthorizeMint, IInv, Attributed
        <5> QED BY <4>1, <4>3, <5>1 DEF EventsOK, RowsOK
      <4> QED BY <4>2, <4>3
    <3>2. ASSUME NEW t \in Txns, NEW s \in Sessions, AuthorizeLoad(t, s) PROVE T
      <4>1. txn[t].row = 0
        BY <3>2 DEF AuthorizeLoad, IInv, Attributed
      <4> QED BY <1>0, <3>2, <4>1 DEF AuthorizeLoad
    <3>3. ASSUME NEW t \in Txns, NEW st \in {"lapsed", "consumed", "deleted"},
                 txn' = [txn EXCEPT ![t].st = st]
          PROVE  T
      BY <1>0, <3>3 DEF Txn
    <3>4. ASSUME NEW s \in Sessions, Disconnect(s) PROVE T
      BY <1>0, <3>4 DEF Disconnect, Txn
    <3>5. ASSUME UNCHANGED txn PROVE T
      BY <3>5
    <3>6. ASSUME NEW c \in Callbacks, CallbackStep(c) PROVE T
      <4>1. CASE CallbackFail(c) \/ CallbackNoToken(c) \/ CallbackCommit(c)
        <5>1. cb[c].t \in Txns /\ txn' = [txn EXCEPT ![cb[c].t].st = "deleted"]
          BY <4>1 DEF CallbackFail, CallbackNoToken, CallbackCommit, DropVerifier, IInv,
                      Attributed, Working
        <5> QED BY <3>3, <5>1
      <4> QED BY <3>5, <3>6, <4>1
             DEF CallbackStep, CallbackRefused, CallbackBegin, CallbackConflict, CallbackStore,
                 CallbackAbort
    <3> QED BY <1>1, <3>1, <3>2, <3>3, <3>4, <3>5, <3>6
            DEF AuthNext, CreateSession, SessionEnds, StepUpEnds, DisconnectLoad,
                DisconnectAbort, StateLapses, CallbackConsume
  <2>3. C
    <3>1. ASSUME NEW c \in Callbacks, NEW t \in Txns, CallbackConsume(c, t) PROVE C
      BY <1>0, <3>1 DEF CallbackConsume, IdleCallback
    <3>2. ASSUME NEW c \in Callbacks, cb' = [cb EXCEPT ![c] = IdleCallback] PROVE C
      BY <1>0, <3>2 DEF IdleCallback
    <3>3. ASSUME NEW c \in Callbacks, CallbackBegin(c) PROVE C
      BY <1>0, <3>3 DEF CallbackBegin, Callback
    <3>4. ASSUME NEW c \in Callbacks, NEW expires \in BOOLEAN, CallbackStore(c, expires) PROVE C
      BY <1>0, <3>4 DEF CallbackStore, Callback
    <3>5. ASSUME UNCHANGED cb PROVE C
      BY <3>5
    <3>6. ASSUME NEW c \in Callbacks, CallbackStep(c) PROVE C
      BY <3>2, <3>3, <3>4, <3>6
         DEF CallbackStep, CallbackRefused, CallbackFail, CallbackNoToken, CallbackConflict,
             CallbackCommit, CallbackAbort
    <3> QED BY <1>1, <3>1, <3>5, <3>6
            DEF AuthNext, CreateSession, SessionEnds, StepUpEnds, DisconnectLoad, Disconnect,
                DisconnectAbort, AuthorizeLoad, AuthorizeMint, StateLapses
  <2>4. G
    <3>1. ASSUME NEW c \in Callbacks, NEW expires \in BOOLEAN, CallbackStore(c, expires) PROVE G
      BY <1>0, <3>1 DEF CallbackStore
    <3>2. ASSUME UNCHANGED grant PROVE G
      BY <3>2
    <3> HIDE DEF G
    <3> QED BY <1>1, <3>1, <3>2, AuthWriters
  <2> QED BY <2>1, <2>2, <2>3, <2>4 DEF RemembersRows
<1>2. CASE RefreshNext
  <2>1. T /\ C
    BY <1>2, RefreshFrame
  <2>2. A
    <3>1. ASSUME NEW a \in Attempts, NEW k \in 1..MaxCreds, RefreshAcquire(a, k) PROVE A
      <4>1. /\ \A b \in Attempts \ {a}: att'[b] = att[b]
            /\ att'[a].row = grant[k].row
        BY <1>0, <3>1 DEF RefreshAcquire, IdleAttempt
      <4> QED BY <1>0, <4>1
    <3>2. ASSUME NEW a \in Attempts, att' = [att EXCEPT ![a] = IdleAttempt] PROVE A
      BY <1>0, <3>2 DEF IdleAttempt
    <3>3. ASSUME NEW a \in Attempts, NEW pc, att' = [att EXCEPT ![a].pc = pc] PROVE A
      BY <1>0, <3>3 DEF Attempt
    <3>4. ASSUME NEW a \in Attempts, NEW expires \in BOOLEAN, RefreshPut(a, expires) PROVE A
      BY <1>0, <3>4 DEF RefreshPut, Attempt
    <3>5. ASSUME UNCHANGED att PROVE A
      BY <3>5
    <3>6. ASSUME NEW a \in Attempts, RefreshStep(a) PROVE A
      BY <3>2, <3>3, <3>4, <3>6
         DEF RefreshStep, RefreshFail, RefreshRead, RefreshRetry, RefreshCommit, RefreshLost,
             RefreshCommitFails, RefreshDeleteOld, RefreshDone, RefreshThrows, RefreshCrash
    <3> QED BY <1>2, <3>1, <3>5, <3>6
            DEF RefreshNext, RefreshSkip, LeaseLapses, SweepMark, SweepSelect, refreshVars
  <2>3. G
    <3>1. ASSUME NEW a \in Attempts, NEW expires \in BOOLEAN, RefreshPut(a, expires) PROVE G
      BY <1>0, <3>1 DEF RefreshPut
    <3>2. ASSUME UNCHANGED grant PROVE G
      BY <3>2
    <3> HIDE DEF G
    <3> QED BY <1>2, <3>1, <3>2, RefreshWriters
  <2>4. S
    <3>1. ASSUME NEW u \in Users, SweepMark(u) PROVE S
      BY <1>0, <3>1 DEF SweepMark, NotSeen
    <3>2. CASE SweepSelect
      BY <3>2 DEF SweepSelect, NotSeen
    <3>3. ASSUME UNCHANGED seen PROVE S
      BY <3>3
    <3> HIDE DEF S
    <3> QED BY <1>2, <3>1, <3>2, <3>3, RefreshWriters
  <2> QED BY <2>1, <2>2, <2>3, <2>4 DEF RemembersRows
<1>3. CASE PolicyNext \/ (\E u \in Users: TokenExpires(u)) \/ UNCHANGED vars
  BY <1>3, RowsRemember
     DEF PolicyNext, SetEnabled, PolicySelect, PolicyCommit, PolicyAbort, TokenExpires, vars,
         storeVars, authVars, refreshVars
<1> QED BY <1>1, <1>2, <1>3 DEF Next

\* What a step remembers.
LEMMA Memory == ASSUME IInv, EventsOK, [Next]_vars PROVE Remembers
<1>1. RemembersRows /\ GrantsKept
  BY RowsRemembered, GrantsStay
<1>2. CASE AuthNext
  <2>1. UNCHANGED <<att, seen>>
    BY <1>2, AuthFrame
  <2>2. RemembersCb
    <3>1. ASSUME NEW c \in Callbacks, NEW t \in Txns, CallbackConsume(c, t) PROVE RemembersCb
      <4>1. cb \in [Callbacks -> Callback]
        BY IInvTypes, Types
      <4>2. (\A d \in Callbacks \ {c}: cb'[d] = cb[d]) /\ cb'[c].pc = "consumed"
        BY <3>1, <4>1 DEF CallbackConsume, IdleCallback
      <4> QED BY <4>2 DEF RemembersCb, Told, Same
    <3> QED BY <1>2, <3>1, CallbackRemembers, CbRemembers
            DEF AuthNext, CreateSession, SessionEnds, StepUpEnds, DisconnectLoad, Disconnect,
                DisconnectAbort, AuthorizeLoad, AuthorizeMint, StateLapses
  <2> QED BY <1>1, <2>1, <2>2, AttRemembers DEF Remembers
<1>3. CASE RefreshNext
  <2>1. UNCHANGED cb
    BY <1>3, RefreshFrame
  <2> QED BY <1>1, <1>3, <2>1, CbRemembers, RunRemembers, SweepRemembers DEF Remembers
<1>4. CASE PolicyNext \/ (\E u \in Users: TokenExpires(u)) \/ UNCHANGED vars
  <2>1. UNCHANGED <<cb, att, seen>>
    BY <1>4 DEF PolicyNext, SetEnabled, PolicySelect, PolicyCommit, PolicyAbort, TokenExpires,
         vars, storeVars, authVars, refreshVars
  <2> QED BY <1>1, <2>1, CbRemembers, AttRemembers DEF Remembers
<1> QED BY <1>2, <1>3, <1>4 DEF Next

-----------------------------------------------------------------------------
(***************************************************************************)
(* What is remembered is still true                                        *)
(***************************************************************************)

\* Nobody remembers a row that was not inserted.
LEMMA RecallStep ==
  ASSUME IInv, IInv', EventsOK, RecallOK, RowStep, RemembersRows PROVE RecallOK'
<1>1. /\ created \in Nat /\ created' \in Nat /\ created <= created'
      /\ RowIds \subseteq Nat
      /\ txn \in [Txns -> Txn] /\ cb \in [Callbacks -> Callback] /\ att \in [Attempts -> Attempt]
      /\ grant \in [CredIds -> Grant] /\ seen \in [Users -> Seen] /\ conn \in [Users -> Row]
  <2>1. created \in Nat /\ RowIds \subseteq Nat
    BY IInvTypes, Types DEF RowIds
  <2> QED BY <2>1, IInvTypes, Types DEF RowStep, Stays, Bumps, Goes, Comes
<1>2. /\ \A t \in Txns: txn[t].row \in Nat /\ txn[t].row <= created'
      /\ \A c \in Callbacks: cb[c].row \in Nat /\ cb[c].row <= created'
      /\ \A a \in Attempts: att[a].row \in Nat /\ att[a].row <= created'
      /\ \A k \in CredIds: grant[k].row \in Nat /\ grant[k].row <= created'
      /\ \A u \in Users: seen[u].id \in Nat /\ seen[u].id <= created'
      /\ \A u \in Users: conn[u].id \in Nat /\ conn[u].id <= created'
  <2>1. /\ \A t \in Txns: txn[t].row \in Nat
        /\ \A c \in Callbacks: cb[c].row \in Nat
        /\ \A a \in Attempts: att[a].row \in Nat
        /\ \A k \in CredIds: grant[k].row \in Nat
        /\ \A u \in Users: seen[u].id \in Nat /\ conn[u].id \in Nat
    BY <1>1 DEF Txn, Callback, Attempt, Grant, Seen, Row
  <2>2. /\ \A t \in Txns: txn[t].row <= created
        /\ \A c \in Callbacks: cb[c].row <= created
        /\ \A a \in Attempts: att[a].row <= created
        /\ \A k \in CredIds: grant[k].row <= created
        /\ \A u \in Users: seen[u].id <= created /\ conn[u].id <= created
    BY DEF RecallOK, EventsOK, RowsOK
  <2> QED BY <1>1, <2>1, <2>2
<1>3. \A t \in Txns: txn'[t].row <= created'
  BY <1>2 DEF RemembersRows
<1>4. \A c \in Callbacks: cb'[c].row <= created'
  BY <1>1, <1>2 DEF RemembersRows
<1>5. \A a \in Attempts: att'[a].row <= created'
  BY <1>1, <1>2 DEF RemembersRows
<1>6. \A k \in CredIds: grant'[k].row <= created'
  BY <1>2 DEF RemembersRows
<1>7. \A u \in Users: seen'[u].id <= created'
  BY <1>1, <1>2 DEF RemembersRows
<1> QED BY <1>3, <1>4, <1>5, <1>6, <1>7 DEF RecallOK

\* A row that is there after a step and was inserted before it was there before it.
LEMMA RowWasThere ==
  ASSUME IInv, RowStep, NEW u \in Users, NEW r \in Nat, r <= created, IsRow(u, r)'
  PROVE  /\ IsRow(u, r)
         /\ \/ Stays
            \/ conn'[u] = conn[u]
            \/ Bumps(u)
<1>1. created \in Nat /\ r # 0 /\ conn'[u].id = r
  BY IInvTypes, Types DEF RowIds, IsRow
<1>2. CASE Stays
  BY <1>1, <1>2 DEF Stays, IsRow
<1>3. ASSUME NEW v \in Users, Bumps(v) \/ Goes(v) \/ Comes(v)
      PROVE  IsRow(u, r) /\ (conn'[u] = conn[u] \/ Bumps(u))
  <2>1. CASE u = v
    BY <1>1, <1>3, <2>1 DEF Bumps, Goes, Comes, IsRow
  <2>2. CASE u # v
    BY <1>1, <1>3, <2>2 DEF Bumps, Goes, Comes, OthersKept, IsRow
  <2> QED BY <2>1, <2>2
<1> QED BY <1>2, <1>3 DEF RowStep

\* Who knows what is in a version goes on knowing it.
LEMMA ReadStays ==
  ASSUME IInv, IInv', RowStep, NEW u \in Users, NEW r \in Nat, NEW ver \in Nat,
         NEW cred \in CredIds, r <= created, Read(u, r, ver, cred)
  PROVE  Read(u, r, ver, cred)'
<1> SUFFICES ASSUME IsRow(u, r)'
             PROVE  /\ ver <= conn'[u].ver
                    /\ ver = conn'[u].ver => conn'[u].cred \in {cred, 0}
  BY DEF Read
<1>1. IsRow(u, r) /\ (Stays \/ conn'[u] = conn[u] \/ Bumps(u))
  BY RowWasThere
<1>2. ver <= conn[u].ver /\ (ver = conn[u].ver => conn[u].cred \in {cred, 0})
  BY <1>1 DEF Read
<1>3. conn[u].ver \in Nat
  BY IInvTypes, Types DEF Row
<1>4. CASE Stays
  BY <1>1, <1>2, <1>4 DEF Stays, IsRow
<1>5. CASE conn'[u] = conn[u]
  BY <1>2, <1>5
<1>6. CASE Bumps(u)
  <2>1. conn'[u].ver = conn[u].ver + 1
    BY <1>6 DEF Bumps
  <2> QED BY <1>2, <1>3, <2>1
<1> QED BY <1>1, <1>4, <1>5, <1>6

\* Versions mean what they meant.
LEMMA VersionsStep ==
  ASSUME IInv, IInv', EventsOK, RecallOK, VersionsOK, RowStep, Remembers PROVE VersionsOK'
<1>0. /\ cb \in [Callbacks -> Callback] /\ att \in [Attempts -> Attempt]
      /\ seen \in [Users -> Seen] /\ conn \in [Users -> Row] /\ created \in Nat
      /\ RowIds \subseteq Nat
      /\ cb' \in [Callbacks -> Callback] /\ att' \in [Attempts -> Attempt]
      /\ conn' \in [Users -> Row] /\ seen' \in [Users -> Seen]
  BY IInvTypes, Types DEF RowIds, TypeInv, TypeOK, StoreTypeOK, AuthTypeOK, RefreshTypeOK, IInv
<1>1. ASSUME NEW c \in Callbacks, Told(c)'
      PROVE  Read(cb[c].user, cb[c].row, cb[c].ver, cb[c].cred)'
  <2>1. CASE Told(c) /\ Same(cb[c], cb'[c])
    <3> DEFINE u == cb[c].user  r == cb[c].row  ver == cb[c].ver  cred == cb[c].cred
    <3>1. u \in Users /\ r \in Nat /\ ver \in Nat /\ cred \in CredIds /\ r <= created
      BY <1>0, <2>1, Ranges DEF Callback, Working, Told, RecallOK
    <3>2. Read(u, r, ver, cred)
      BY <2>1 DEF VersionsOK
    <3>3. \A v \in Users, q \in Nat, n \in Nat, k \in CredIds:
            q <= created /\ Read(v, q, n, k)
              => (conn'[v].id = q /\ q # 0
                    => n <= conn'[v].ver /\ (n = conn'[v].ver => conn'[v].cred \in {k, 0}))
      BY ReadStays DEF Read, IsRow
    <3>4. u = cb'[c].user /\ r = cb'[c].row /\ ver = cb'[c].ver /\ cred = cb'[c].cred
      BY <2>1 DEF Same
    <3> HIDE DEF u, r, ver, cred
    <3> QED BY <3>1, <3>2, <3>3, <3>4 DEF Read, IsRow
  <2>2. CASE Fresh(cb'[c])
    <3>1. cb'[c].ver \in Nat
      BY <1>0 DEF Callback
    <3> QED BY <2>2, <3>1 DEF Fresh, Read
  <2> QED BY <1>1, <2>1, <2>2 DEF Remembers, RemembersCb
<1>2. ASSUME NEW a \in Attempts, AtProvider(a)'
      PROVE  Read(att[a].user, att[a].row, att[a].ver, att[a].cred)'
  <2>1. CASE AtProvider(a) /\ Same(att[a], att'[a])
    <3> DEFINE u == att[a].user  r == att[a].row  ver == att[a].ver  cred == att[a].cred
    <3>1. u \in Users /\ r \in Nat /\ ver \in Nat /\ cred \in CredIds /\ r <= created
      BY <1>0, <2>1, Ranges DEF Attempt, Busy, AtProvider, RecallOK
    <3>2. Read(u, r, ver, cred)
      BY <2>1 DEF VersionsOK
    <3>3. \A v \in Users, q \in Nat, n \in Nat, k \in CredIds:
            q <= created /\ Read(v, q, n, k)
              => (conn'[v].id = q /\ q # 0
                    => n <= conn'[v].ver /\ (n = conn'[v].ver => conn'[v].cred \in {k, 0}))
      BY ReadStays DEF Read, IsRow
    <3>4. u = att'[a].user /\ r = att'[a].row /\ ver = att'[a].ver /\ cred = att'[a].cred
      BY <2>1 DEF Same
    <3> HIDE DEF u, r, ver, cred
    <3> QED BY <3>1, <3>2, <3>3, <3>4 DEF Read, IsRow
  <2>2. CASE Fresh(att'[a])
    <3>1. att'[a].ver \in Nat
      BY <1>0 DEF Attempt
    <3> QED BY <2>2, <3>1 DEF Fresh, Read
  <2> QED BY <1>2, <2>1, <2>2 DEF Remembers, RemembersAtt
<1>3. ASSUME NEW c \in Callbacks, cb'[c].pc = "locked"
      PROVE  conn'[cb'[c].user].ver = cb'[c].ver /\ grant'[cb'[c].new].base = cb'[c].cred
  <2> DEFINE u == cb[c].user
  <2>1. CASE cb'[c] = cb[c]
    <3>1. /\ cb[c].pc = "locked" /\ u \in Users /\ conn[u].ver = cb[c].ver
          /\ grant[cb[c].new].base = cb[c].cred /\ cb[c].new \in 1..issued
          /\ IsRow(u, cb[c].row) /\ cb[c].row \in Nat /\ cb[c].row <= created
      BY <1>0, <1>3, <2>1, Ranges
         DEF VersionsOK, IInv, IncomingOK, LocksOK, Working, Callback, RecallOK
    <3>2. rowLock'[u] = c /\ c # None /\ IsRow(u, cb[c].row)'
      BY <1>3, <2>1, StoreAssumption DEF IInv, LocksOK, IsRow
    <3>3. conn'[u].ver = conn[u].ver
      <4> DEFINE r == cb[c].row
      <4>1. \A q \in Nat: q <= created /\ q # 0 /\ conn'[u].id = q
                            => conn[u].id = q /\ (Stays \/ conn'[u] = conn[u] \/ Bumps(u))
        BY <3>1, RowWasThere DEF IsRow
      <4>2. Stays \/ conn'[u] = conn[u]
        BY <2>1, <3>1, <3>2, <4>1 DEF Bumps, IsRow
      <4> QED BY <3>1, <4>2 DEF Stays, IsRow
    <3> QED BY <2>1, <3>1, <3>3 DEF Remembers, GrantsKept
  <2>2. CASE cb'[c] # cb[c]
    BY <1>3, <2>2 DEF Remembers, RemembersCb
  <2> QED BY <2>1, <2>2
<1>4. ASSUME NEW a \in Attempts, att'[a].pc = "put"
      PROVE  grant'[att'[a].new].base = att'[a].cred
  <2>1. CASE att'[a] = att[a]
    <3>1. att[a].pc = "put" /\ grant[att[a].new].base = att[a].cred /\ att[a].new \in 1..issued
      BY <1>4, <2>1 DEF VersionsOK, IInv, JobsOK, Minted
    <3> QED BY <2>1, <3>1 DEF Remembers, GrantsKept
  <2>2. CASE att'[a] # att[a]
    BY <1>4, <2>2 DEF Remembers, RemembersAtt
  <2> QED BY <2>1, <2>2
<1>5. ASSUME NEW u \in Users, IsRow(u, seen[u].id)'
      PROVE  /\ seen'[u].ver <= conn'[u].ver
             /\ seen'[u].ver = conn'[u].ver => conn'[u].exp = "past"
  <2>1. CASE seen'[u] = seen[u]
    <3>1. seen[u].id \in Nat /\ seen[u].id <= created /\ seen[u].ver \in Nat /\ conn[u].ver \in Nat
      BY <1>0 DEF Seen, RecallOK, Row
    <3>2. \A q \in Nat: q <= created /\ q # 0 /\ conn'[u].id = q
                          => conn[u].id = q /\ (Stays \/ conn'[u] = conn[u] \/ Bumps(u))
      BY RowWasThere DEF IsRow
    <3>3. conn[u].id = seen[u].id /\ conn[u].id # 0 /\ (Stays \/ conn'[u] = conn[u] \/ Bumps(u))
      BY <1>5, <2>1, <3>1, <3>2 DEF IsRow
    <3>4. /\ seen[u].ver <= conn[u].ver
          /\ seen[u].ver = conn[u].ver => conn[u].exp = "past"
      BY <3>3 DEF VersionsOK, IsRow
    <3>5. CASE Stays
      BY <2>1, <3>3, <3>4, <3>5 DEF Stays
    <3>6. CASE conn'[u] = conn[u]
      BY <2>1, <3>4, <3>6
    <3>7. CASE Bumps(u)
      <4>1. conn'[u].ver = conn[u].ver + 1
        BY <3>7 DEF Bumps
      <4> QED BY <2>1, <3>1, <3>4, <4>1
    <3> QED BY <3>3, <3>5, <3>6, <3>7
  <2>2. CASE seen'[u].ver = conn'[u].ver /\ conn'[u].exp = "past"
    <3>1. seen'[u].ver \in Nat
      BY <1>0 DEF Seen
    <3> QED BY <2>2, <3>1
  <2> QED BY <1>5, <2>1, <2>2 DEF Remembers, RemembersSeen, IsRow
<1> QED BY <1>1, <1>2, <1>3, <1>4, <1>5 DEF VersionsOK

-----------------------------------------------------------------------------
(***************************************************************************)
(* Leases                                                                  *)
(***************************************************************************)

\* A run that is at work after a step was at work before it, and stayed late if it was; or it
\* has just taken a lease that nobody held.
GoesOn(a) ==
  /\ att'[a].user = att[a].user /\ att'[a].row = att[a].row /\ att'[a].ver = att[a].ver
  /\ AtProvider(a)' => AtProvider(a) /\ (a \in late => a \in late')
TakesLease(a) ==
  LET u == att'[a].user
  IN /\ u \in Users
     /\ ~conn[u].held /\ conn[u].status = "connected" /\ conn[u].ver = att'[a].ver
     /\ conn[u].id = att'[a].row /\ conn'[u].id = att'[a].row /\ att'[a].row # 0
     /\ conn'[u].lock = a /\ conn'[u].held
RunsGoOn == \A a \in Attempts: Busy(a)' => (Busy(a) /\ GoesOn(a)) \/ TakesLease(a)

\* A row that stays keeps its lease, or the lease was not held, has run out, or is given up.
LeasesStay ==
  \A u \in Users: conn[u].id # 0 /\ conn'[u].id = conn[u].id =>
    \/ conn'[u].lock = conn[u].lock /\ conn'[u].held = conn[u].held
    \/ ~conn[u].held
    \/ conn[u].lock \in late'
    \/ \E a \in Attempts: a = conn[u].lock /\ ~AtProvider(a)'

\* A lease that is held after a step without a fault is that of a run at work, or was held
\* before, and then by the same run.
LeasesHeld ==
  faults' = 0 => \A u \in Users: conn'[u].held =>
    \/ \E a \in Attempts: HasLease(a, u)'
    \/ conn[u].held /\ \A a \in Attempts: HasLease(a, u) => HasLease(a, u)'

\* A row that stays keeps its lease, and no lease is taken.
LeaseKept(u) ==
  /\ conn'[u].id = conn[u].id /\ conn[u].id # 0 =>
       conn'[u].lock = conn[u].lock /\ conn'[u].held = conn[u].held
  /\ conn'[u].held =>
       conn[u].held /\ conn'[u].id = conn[u].id /\ conn'[u].lock = conn[u].lock

\* A step that leaves runs and leases alone.
LEMMA LeasesKept ==
  ASSUME UNCHANGED <<att, late>>, \A u \in Users: LeaseKept(u)
  PROVE  RunsGoOn /\ LeasesStay /\ LeasesHeld
<1>1. RunsGoOn /\ LeasesStay
  BY DEF RunsGoOn, LeasesStay, LeaseKept, Busy, GoesOn, AtProvider
<1>2. LeasesHeld
  BY DEF LeasesHeld, LeaseKept, HasLease, HoldsLock, IsRow
<1> QED BY <1>1, <1>2

LEMMA AuthLeases == ASSUME IInv, AuthNext PROVE RunsGoOn /\ LeasesStay /\ LeasesHeld
<1>0. conn \in [Users -> Row]
  BY IInvTypes, Types
<1> DEFINE K == \A u \in Users: LeaseKept(u)
<1>1. UNCHANGED <<att, late>>
  BY AuthFrame
<1>2. ASSUME NEW t \in Txns, AuthorizeMint(t) PROVE K
  BY <1>0, <1>2 DEF AuthorizeMint, LeaseKept, NoRow
<1>3. ASSUME NEW s \in Sessions, Disconnect(s) PROVE K
  BY <1>0, <1>3 DEF Disconnect, NoRow, LeaseKept
<1>4. ASSUME NEW c \in Callbacks, CallbackCommit(c) PROVE K
  <2> DEFINE u == cb[c].user
  <2>1. \E status, cred, exp, ver:
          conn' = [conn EXCEPT ![u].status = status, ![u].cred = cred, ![u].exp = exp,
                               ![u].ver = ver]
    BY <1>4 DEF CallbackCommit
  <2> HIDE DEF u
  <2> QED BY <1>0, <2>1 DEF Row, LeaseKept
<1>5. ASSUME NEW c \in Callbacks, CallbackFail(c) PROVE K
  BY <1>0, <1>5 DEF CallbackFail, Row, LeaseKept
<1>6. ASSUME UNCHANGED conn PROVE K
  BY <1>6 DEF LeaseKept
<1>7. K
  BY <1>2, <1>3, <1>4, <1>5, <1>6
     DEF AuthNext, CreateSession, SessionEnds, StepUpEnds, DisconnectLoad,
         DisconnectAbort, AuthorizeLoad, StateLapses, CallbackConsume,
         CallbackStep, CallbackRefused, CallbackBegin, CallbackNoToken,
         CallbackConflict, CallbackStore, CallbackAbort, storeVars
<1> QED BY <1>1, <1>7, LeasesKept

LEMMA PolicyLeases ==
  ASSUME IInv, PolicyNext \/ (\E u \in Users: TokenExpires(u)) \/ UNCHANGED vars
  PROVE  RunsGoOn /\ LeasesStay /\ LeasesHeld
<1>0. conn \in [Users -> Row]
  BY IInvTypes, Types
<1> DEFINE K == \A u \in Users: LeaseKept(u)
<1>1. UNCHANGED <<att, late>>
  BY DEF PolicyNext, SetEnabled, PolicySelect, PolicyCommit, PolicyAbort, TokenExpires, vars,
         refreshVars
<1>2. CASE PolicyCommit
  <2>1. \A u \in Users: conn'[u] = conn[u] \/ conn'[u] = ExpiredRow(conn[u])
    BY <1>2 DEF PolicyCommit
  <2>2. K
    BY <1>0, <2>1 DEF ExpiredRow, Row, LeaseKept
  <2> QED BY <1>1, <2>2, LeasesKept
<1>3. ASSUME NEW u \in Users, TokenExpires(u) PROVE K
  BY <1>0, <1>3 DEF TokenExpires, Row, LeaseKept
<1>4. ASSUME UNCHANGED conn PROVE K
  BY <1>4 DEF LeaseKept
<1>5. CASE ~PolicyCommit
  <2>1. K
    BY <1>3, <1>4, <1>5
       DEF PolicyNext, SetEnabled, PolicySelect, PolicyAbort, storeVars, vars
  <2> QED BY <1>1, <2>1, LeasesKept
<1> QED BY <1>2, <1>5

\* A run that goes back to waiting, or on to the next statement.
LEMMA RunEnds ==
  ASSUME IInv, NEW a \in Attempts, att' = [att EXCEPT ![a] = IdleAttempt], UNCHANGED late
  PROVE  RunsGoOn /\ ~AtProvider(a)'
<1>1. att \in [Attempts -> Attempt]
  BY IInvTypes, Types
<1> QED BY <1>1 DEF RunsGoOn, Busy, GoesOn, AtProvider, IdleAttempt

LEMMA RunAdvances ==
  ASSUME IInv, NEW a \in Attempts, Busy(a), NEW pc, pc \in {"read", "put"} => AtProvider(a),
         pc # "acquired", NEW new, NEW expires, UNCHANGED late,
         \/ att' = [att EXCEPT ![a].pc = pc]
         \/ att' = [att EXCEPT ![a].pc = pc, ![a].new = new, ![a].expires = expires]
  PROVE  RunsGoOn /\ att'[a].pc = pc
<1>1. att \in [Attempts -> Attempt]
  BY IInvTypes, Types
<1>2. /\ \A b \in Attempts \ {a}: att'[b] = att[b]
      /\ att'[a].pc = pc /\ att'[a].user = att[a].user /\ att'[a].row = att[a].row
      /\ att'[a].ver = att[a].ver
  BY <1>1 DEF Attempt
<1> QED BY <1>2 DEF RunsGoOn, Busy, GoesOn, AtProvider

\* Taking the lease.
LEMMA AcquireLeases ==
  ASSUME IInv, NEW a \in Attempts, NEW k \in 1..MaxCreds, RefreshAcquire(a, k)
  PROVE  RunsGoOn /\ LeasesStay /\ LeasesHeld
<1>u. PICK u \in Users: u = grant[k].user
  <2>1. job[k].st # "none" /\ k \in CredIds
    BY DEF RefreshAcquire, Due, CredIds
  <2> QED BY <2>1 DEF IInv, JobsOK
<1>0. conn \in [Users -> Row] /\ att \in [Attempts -> Attempt]
  BY IInvTypes, Types
<1>1. /\ conn' = [conn EXCEPT ![u].lock = a, ![u].held = TRUE]
      /\ ~conn[u].held /\ conn[u].status = "connected"
      /\ conn[u].id = grant[k].row /\ grant[k].row # 0
      /\ late' = late \ {a} /\ att[a].pc = "idle"
  BY <1>u DEF RefreshAcquire, Refreshable, IsRow
<1>2. /\ \A b \in Attempts \ {a}: att'[b] = att[b]
      /\ att'[a].user = u /\ att'[a].row = grant[k].row /\ att'[a].ver = conn[u].ver
      /\ att'[a].pc = "acquired"
  BY <1>0, <1>u DEF RefreshAcquire, IdleAttempt
<1>3. /\ \A v \in Users \ {u}: conn'[v] = conn[v]
      /\ conn'[u].id = conn[u].id /\ conn'[u].lock = a /\ conn'[u].held
  BY <1>0, <1>1 DEF Row
<1>4. TakesLease(a)
  BY <1>0, <1>1, <1>2, <1>3 DEF TakesLease
<1>5. RunsGoOn
  BY <1>1, <1>2, <1>4 DEF RunsGoOn, Busy, GoesOn, AtProvider
<1>6. LeasesStay
  BY <1>1, <1>3 DEF LeasesStay
<1>7. LeasesHeld
  <2>1. HasLease(a, u)'
    BY <1>0, <1>1, <1>2, <1>3 DEF HasLease, HoldsLock, IsRow
  <2>2. ASSUME NEW v \in Users \ {u}, NEW b \in Attempts, HasLease(b, v) PROVE HasLease(b, v)'
    BY <1>1, <1>2, <1>3, <2>2 DEF HasLease, HoldsLock, IsRow
  <2> QED BY <1>3, <2>1, <2>2 DEF LeasesHeld
<1> QED BY <1>5, <1>6, <1>7

\* Giving it up: only the run whose token is in the row does.
LEMMA GivesUp ==
  ASSUME IInv, NEW a \in Attempts, ~AtProvider(a)', NEW u \in Users,
         conn[u].lock = a \/ conn' = conn, \A v \in Users \ {u}: conn'[v] = conn[v]
  PROVE  LeasesStay
  BY DEF LeasesStay

LEMMA RunLeases ==
  ASSUME IInv, NEW a \in Attempts, RefreshStep(a) PROVE RunsGoOn /\ LeasesStay
<1> DEFINE u == att[a].user
<1>0. /\ conn \in [Users -> Row] /\ att \in [Attempts -> Attempt] /\ Busy(a) /\ u \in Users
  <2>1. Busy(a)
    BY DEF RefreshStep, RefreshFail, RefreshRead, RefreshRetry, RefreshPut, RefreshCommit,
           RefreshLost, RefreshCommitFails, RefreshDeleteOld, RefreshDone, RefreshThrows,
           RefreshCrash, Busy
  <2> QED BY <2>1, IInvTypes, Types, Ranges
<1>1. ASSUME UNCHANGED conn PROVE LeasesStay
  BY <1>1 DEF LeasesStay
<1>2. CASE RefreshFail(a) \/ RefreshRetry(a)
  <2>1. /\ att' = [att EXCEPT ![a] = IdleAttempt] /\ UNCHANGED late
        /\ conn[u].lock = a \/ conn' = conn
        /\ \A v \in Users \ {u}: conn'[v] = conn[v]
    BY <1>0, <1>2 DEF RefreshFail, RefreshRetry, ReleaseLock, HoldsLock
  <2>2. RunsGoOn /\ ~AtProvider(a)'
    BY <2>1, RunEnds
  <2> HIDE DEF u
  <2> QED BY <1>0, <2>1, <2>2, GivesUp
<1>3. CASE RefreshDone(a) \/ RefreshThrows(a) \/ RefreshCrash(a)
  BY <1>1, <1>3, RunEnds DEF RefreshDone, RefreshThrows, RefreshCrash
<1>4. CASE RefreshRead(a)
  <2>1. att' = [att EXCEPT ![a].pc = "read"] /\ AtProvider(a) /\ UNCHANGED <<late, conn>>
    BY <1>4 DEF RefreshRead, AtProvider, storeVars
  <2>2. RunsGoOn
    BY <1>0, <2>1, RunAdvances
  <2> QED BY <1>1, <2>1, <2>2
<1>5. ASSUME NEW expires \in BOOLEAN, RefreshPut(a, expires) PROVE RunsGoOn /\ LeasesStay
  <2>1. att' = [att EXCEPT ![a].pc = "put", ![a].new = issued + 1, ![a].expires = expires]
        /\ AtProvider(a) /\ UNCHANGED <<late, conn>>
    BY <1>5 DEF RefreshPut, AtProvider
  <2>2. RunsGoOn
    BY <1>0, <2>1, RunAdvances
  <2> QED BY <1>1, <2>1, <2>2
<1>6. CASE RefreshDeleteOld(a)
  <2>1. att' = [att EXCEPT ![a].pc = "deleted"] /\ UNCHANGED <<late, conn>>
    BY <1>6 DEF RefreshDeleteOld
  <2>2. RunsGoOn
    BY <1>0, <2>1, RunAdvances
  <2> QED BY <1>1, <2>1, <2>2
<1>7. CASE RefreshCommit(a)
  <2>1. /\ att' = [att EXCEPT ![a].pc = "committed"] /\ UNCHANGED late
        /\ conn[u].lock = a
        /\ \A v \in Users \ {u}: conn'[v] = conn[v]
    BY <1>0, <1>7 DEF RefreshCommit, StillMine, HoldsLock
  <2>2. RunsGoOn /\ att'[a].pc = "committed"
    BY <1>0, <2>1, RunAdvances
  <2>3. ~AtProvider(a)'
    BY <2>2 DEF AtProvider
  <2> HIDE DEF u
  <2> QED BY <1>0, <2>1, <2>2, <2>3, GivesUp
<1>8. CASE RefreshLost(a) \/ RefreshCommitFails(a)
  <2>1. att' = [att EXCEPT ![a].pc = "dropped"] /\ UNCHANGED <<late, conn>>
    BY <1>8, DropWrites
  <2>2. RunsGoOn
    BY <1>0, <2>1, RunAdvances
  <2> QED BY <1>1, <2>1, <2>2
<1> QED BY <1>2, <1>3, <1>4, <1>5, <1>6, <1>7, <1>8 DEF RefreshStep

\* A run that goes on keeps the lease it has; one that ends has given it up, or failed to.
LEMMA RunHolds == ASSUME IInv, NEW a \in Attempts, RefreshStep(a) PROVE LeasesHeld
<1> DEFINE u == att[a].user
<1>0. /\ conn \in [Users -> Row] /\ att \in [Attempts -> Attempt] /\ faults \in Nat
      /\ Busy(a) => u \in Users
  BY IInvTypes, Types, Ranges, RefreshAssumption
<1>1. ASSUME UNCHANGED conn, \A b \in Attempts \ {a}: att'[b] = att[b],
             \A v \in Users: HasLease(a, v) => HasLease(a, v)'
      PROVE  LeasesHeld
  BY <1>1 DEF LeasesHeld, HasLease, HoldsLock, IsRow
<1>2. CASE RefreshFail(a) \/ RefreshRetry(a) \/ RefreshCommit(a)
  <2>1. /\ u \in Users
        /\ \A b \in Attempts \ {a}: att'[b] = att[b]
        /\ \A v \in Users \ {u}: conn'[v] = conn[v]
        /\ HoldsLock(a) => ~conn'[u].held
        /\ ~HoldsLock(a) => conn' = conn
    <3>1. u \in Users
      BY <1>0, <1>2 DEF RefreshFail, RefreshRetry, RefreshCommit, Busy
    <3>2. CASE RefreshFail(a)
      BY <1>0, <3>1, <3>2 DEF RefreshFail, Row
    <3>3. CASE RefreshRetry(a)
      BY <1>0, <3>1, <3>3 DEF RefreshRetry, ReleaseLock, Row
    <3>4. CASE RefreshCommit(a)
      BY <1>0, <3>1, <3>4 DEF RefreshCommit, StillMine, Row
    <3> QED BY <1>2, <3>1, <3>2, <3>3, <3>4
  <2>2. ASSUME NEW v \in Users, conn'[v].held, NEW b \in Attempts, HasLease(b, v)
        PROVE  HasLease(b, v)'
    <3>1. b # a
      BY <2>1, <2>2 DEF HasLease, HoldsLock
    <3>2. conn'[v] = conn[v]
      BY <2>1, <2>2, <3>1 DEF HasLease, HoldsLock, IsRow
    <3> QED BY <2>1, <2>2, <3>1, <3>2 DEF HasLease, HoldsLock, IsRow
  <2>3. \A v \in Users: conn'[v].held => conn[v].held
    BY <2>1
  <2> QED BY <2>2, <2>3 DEF LeasesHeld
<1>3. CASE RefreshDeleteOld(a) \/ RefreshDone(a)
  <2>1. /\ UNCHANGED conn /\ \A b \in Attempts \ {a}: att'[b] = att[b]
        /\ att[a].pc \in {"committed", "deleted"}
    BY <1>0, <1>3 DEF RefreshDeleteOld, RefreshDone
  <2> QED BY <1>1, <2>1 DEF HasLease
<1>4. CASE RefreshRead(a) \/ (\E expires \in BOOLEAN: RefreshPut(a, expires)) \/ RefreshLost(a)
  <2> DEFINE K == /\ UNCHANGED conn /\ \A b \in Attempts \ {a}: att'[b] = att[b]
                  /\ att'[a].pc \in {"read", "put", "dropped"}
                  /\ att'[a].user = att[a].user /\ att'[a].row = att[a].row
  <2>1. K
    <3>1. ASSUME RefreshRead(a) PROVE K
      BY <1>0, <3>1 DEF RefreshRead, Attempt, storeVars
    <3>2. ASSUME NEW expires \in BOOLEAN, RefreshPut(a, expires) PROVE K
      BY <1>0, <3>2 DEF RefreshPut, Attempt
    <3>3. ASSUME RefreshLost(a) PROVE K
      BY <1>0, <3>3 DEF RefreshLost, Attempt
    <3> QED BY <1>4, <3>1, <3>2, <3>3
  <2> QED BY <1>1, <2>1 DEF HasLease, HoldsLock, IsRow
<1>5. CASE RefreshCommitFails(a) \/ RefreshThrows(a) \/ RefreshCrash(a)
  BY <1>0, <1>5 DEF RefreshCommitFails, RefreshThrows, RefreshCrash, LeasesHeld
<1> QED BY <1>2, <1>3, <1>4, <1>5 DEF RefreshStep

LEMMA RefreshLeases == ASSUME IInv, RefreshNext PROVE RunsGoOn /\ LeasesStay /\ LeasesHeld
<1>0. conn \in [Users -> Row]
  BY IInvTypes, Types
<1>1. ASSUME NEW u \in Users, LeaseLapses(u) PROVE RunsGoOn /\ LeasesStay /\ LeasesHeld
  <2>1. /\ \A v \in Users \ {u}: conn'[v] = conn[v]
        /\ late' = late \cup {conn[u].lock} /\ UNCHANGED att /\ ~conn'[u].held
    BY <1>0, <1>1 DEF LeaseLapses, Row
  <2>2. RunsGoOn
    BY <2>1 DEF RunsGoOn, Busy, GoesOn, AtProvider
  <2>3. LeasesStay
    BY <2>1 DEF LeasesStay
  <2>4. LeasesHeld
    BY <2>1 DEF LeasesHeld, HasLease, HoldsLock, IsRow
  <2> QED BY <2>2, <2>3, <2>4
<1>2. ASSUME NEW u \in Users, SweepMark(u) PROVE RunsGoOn /\ LeasesStay /\ LeasesHeld
  <2>1. UNCHANGED <<att, late>>
    BY <1>2 DEF SweepMark
  <2>2. \A v \in Users: LeaseKept(v)
    BY <1>0, <1>2 DEF SweepMark, Row, LeaseKept
  <2> QED BY <2>1, <2>2, LeasesKept
<1>3. CASE SweepSelect \/ \E k \in 1..MaxCreds: RefreshSkip(k)
  BY <1>3, LeasesKept DEF SweepSelect, RefreshSkip, storeVars, refreshVars, LeaseKept
<1> QED BY <1>1, <1>2, <1>3, AcquireLeases, RunLeases, RunHolds DEF RefreshNext

\* A run works on its user's row and, while it is at the provider, holds the row's lease.
LEMMA LeaseStep ==
  ASSUME IInv, IInv', EventsOK, EventsOK', RecallOK, LeaseOK, RefreshMutex, RowStep,
         RunsGoOn, LeasesStay, LeasesHeld, faults' = 0 => faults = 0
  PROVE  LeaseOK' /\ RefreshMutex'
<1>0. /\ att \in [Attempts -> Attempt] /\ created \in Nat /\ RowIds \subseteq Nat
      /\ \A a \in Attempts: att[a].row \in Nat /\ att[a].row <= created
  <2>1. att \in [Attempts -> Attempt] /\ created \in Nat /\ RowIds \subseteq Nat
    BY IInvTypes, Types DEF RowIds
  <2> QED BY <2>1 DEF Attempt, RecallOK
<1>1. \A u \in Users, q \in Nat: q <= created /\ q # 0 /\ conn'[u].id = q => conn[u].id = q
  BY RowWasThere DEF IsRow
<1>2. \A u, v \in Users: conn'[u].id # 0 /\ conn'[u].id = conn'[v].id => u = v
  BY DEF EventsOK, RowsOK
<1>3. ASSUME NEW a \in Attempts, NEW u \in Users, Busy(a)', IsRow(u, att[a].row)'
      PROVE  u = att'[a].user
  <2>1. CASE Busy(a) /\ GoesOn(a)
    <3>1. conn[u].id = att[a].row /\ att[a].row # 0
      BY <1>0, <1>1, <1>3, <2>1 DEF GoesOn, IsRow
    <3> QED BY <2>1, <3>1 DEF LeaseOK, IsRow, GoesOn
  <2>2. CASE TakesLease(a)
    BY <1>2, <1>3, <2>2 DEF TakesLease, IsRow
  <2> QED BY <1>3, <2>1, <2>2 DEF RunsGoOn
<1>4. ASSUME NEW a \in Attempts, AtProvider(a)', a \notin late',
             IsRow(att[a].user, att[a].row)'
      PROVE  conn'[att'[a].user].lock = a /\ conn'[att'[a].user].held
  <2>0. Busy(a)'
    BY <1>4 DEF AtProvider, Busy
  <2>1. CASE Busy(a) /\ GoesOn(a)
    <3> DEFINE u == att[a].user
    <3>1. /\ u \in Users /\ conn[u].id = att[a].row /\ att[a].row # 0
          /\ conn'[u].id = att[a].row /\ att'[a].user = u
      BY <1>0, <1>1, <1>4, <2>1, Ranges DEF GoesOn, IsRow
    <3>2. AtProvider(a) /\ a \notin late
      BY <1>4, <2>1 DEF GoesOn
    <3>3. conn[u].lock = a /\ conn[u].held
      BY <3>1, <3>2 DEF LeaseOK, IsRow
    <3> QED BY <1>4, <3>1, <3>3 DEF LeasesStay
  <2>2. CASE TakesLease(a)
    BY <2>2 DEF TakesLease
  <2> QED BY <2>0, <2>1, <2>2 DEF RunsGoOn
<1>8. faults' = 0 => \A u \in Users: conn'[u].held => \E a \in Attempts: HasLease(a, u)'
  BY DEF LeaseOK, LeasesHeld
<1>5. LeaseOK'
  BY <1>3, <1>4, <1>8 DEF LeaseOK
<1>6. ASSUME NEW a \in Attempts, NEW b \in Attempts, a # b, AtProvider(a)', AtProvider(b)',
             att'[a].row = att'[b].row, GoesOn(a), TakesLease(b)
      PROVE  a \in late'
  <2> DEFINE u == att'[b].user
  <2>1. AtProvider(a) /\ att[a].row = att'[b].row /\ (a \in late => a \in late')
    BY <1>6 DEF GoesOn
  <2>2. u \in Users /\ IsRow(u, att[a].row) /\ ~conn[u].held
    BY <1>6, <2>1 DEF TakesLease, IsRow
  <2>3. u = att[a].user
    BY <2>1, <2>2 DEF LeaseOK, Busy, AtProvider
  <2>4. a \in late
    BY <2>1, <2>2, <2>3 DEF LeaseOK
  <2> QED BY <2>1, <2>4
<1>7. ASSUME NEW a \in Attempts, NEW b \in Attempts, a # b, AtProvider(a)', AtProvider(b)',
             att'[a].row = att'[b].row
      PROVE  a \in late' \/ b \in late'
  <2>0. Busy(a)' /\ Busy(b)'
    BY <1>7 DEF AtProvider, Busy
  <2>1. CASE GoesOn(a) /\ GoesOn(b)
    BY <1>7, <2>1 DEF GoesOn, RefreshMutex
  <2>2. CASE GoesOn(a) /\ TakesLease(b)
    BY <1>6, <1>7, <2>2
  <2>3. CASE TakesLease(a) /\ GoesOn(b)
    BY <1>6, <1>7, <2>3
  <2>4. CASE TakesLease(a) /\ TakesLease(b)
    BY <1>2, <1>7, <2>4 DEF TakesLease
  <2> QED BY <2>0, <2>1, <2>2, <2>3, <2>4 DEF RunsGoOn
<1> QED BY <1>5, <1>7 DEF RefreshMutex

-----------------------------------------------------------------------------
(***************************************************************************)
(* Owners                                                                  *)
(***************************************************************************)

\* Nobody died and no policy change began.
Undisturbed == faults = 0 /\ changes = 0

\* Every secret is owned after the step.
AllOwned == \A k \in stored': k # 0 /\ Owned(k)'

\* A step that takes no secret from its owner.
LEMMA OwnersKept ==
  ASSUME OwnersOK, \A k \in stored: Owned(k), stored' \subseteq stored,
         \A u \in Users: conn'[u].cred = conn[u].cred,
         \A a \in Attempts: att'[a] = att[a] \/ att[a].pc \notin {"put", "committed"}
  PROVE  AllOwned
<1> SUFFICES ASSUME NEW k \in stored' PROVE k # 0 /\ Owned(k)'
  BY DEF AllOwned
<1>1. k \in stored /\ k # 0 /\ Owned(k)
  BY DEF OwnersOK
<1>2. CASE \E u \in Users: conn[u].cred = k
  BY <1>1, <1>2 DEF Owned
<1>3. CASE \E a \in Attempts: att[a].pc = "put" /\ att[a].new = k
  <2>1. PICK a \in Attempts: att[a].pc = "put" /\ att[a].new = k
    BY <1>3
  <2>2. att'[a] = att[a]
    BY <2>1
  <2> QED BY <1>1, <2>1, <2>2 DEF Owned
<1>4. CASE \E a \in Attempts: att[a].pc = "committed" /\ att[a].cred = k
  <2>1. PICK a \in Attempts: att[a].pc = "committed" /\ att[a].cred = k
    BY <1>4
  <2>2. att'[a] = att[a]
    BY <2>1
  <2> QED BY <1>1, <2>1, <2>2 DEF Owned
<1> QED BY <1>1, <1>2, <1>3, <1>4 DEF Owned

\* A step that takes secrets only from the row of u, and deletes the one that was there.
LEMMA RowChanges ==
  ASSUME OwnersOK, \A k \in stored: Owned(k), NEW u \in Users, NEW new,
         stored' \subseteq (stored \ {conn[u].cred}) \cup {new},
         new \in stored' => new # 0 /\ conn'[u].cred = new,
         \A v \in Users \ {u}: conn'[v].cred = conn[v].cred,
         UNCHANGED att
  PROVE  AllOwned
<1> SUFFICES ASSUME NEW k \in stored' PROVE k # 0 /\ Owned(k)'
  BY DEF AllOwned
<1>1. CASE k = new
  BY <1>1 DEF Owned
<1>2. CASE k # new
  <2>1. k \in stored /\ k # conn[u].cred /\ k # 0 /\ Owned(k)
    BY <1>2 DEF OwnersOK
  <2> QED BY <2>1 DEF Owned
<1> QED BY <1>1, <1>2

\* The callback's commit deletes the credential it replaces, which is the one it had read.
LEMMA CommitOwned ==
  ASSUME IInv, VersionsOK, OwnersOK, \A k \in stored: Owned(k),
         NEW c \in Callbacks, CallbackCommit(c)
  PROVE  AllOwned
<1> DEFINE u == cb[c].user
<1>0. /\ conn \in [Users -> Row] /\ u \in Users /\ IsRow(u, cb[c].row)
      /\ cb[c].new \in 1..issued /\ cb[c].pc = "locked" /\ issued \in Nat
  BY IInvTypes, Types, Ranges DEF IInv, LocksOK, IncomingOK, Working, CallbackCommit, CredIds
<1>1. conn[u].cred \in {cb[c].cred, 0}
  BY <1>0 DEF VersionsOK, Told, Read
<1>2. conn'[u].cred = cb[c].new /\ \A v \in Users \ {u}: conn'[v] = conn[v]
  BY IInvTypes, CommitWrites DEF OthersKept
<1>3. stored' = (stored \ {cb[c].cred}) \cup {cb[c].new}
  BY DEF CallbackCommit
<1>4. stored' \subseteq (stored \ {conn[u].cred}) \cup {cb[c].new}
  BY <1>1, <1>3 DEF OwnersOK
<1>5. UNCHANGED att /\ cb[c].new # 0
  <2>1. UNCHANGED refreshVars
    BY Zenon DEF CallbackCommit
  <2> QED BY <1>0, <2>1 DEF refreshVars
<1> HIDE DEF u
<1> QED BY <1>0, <1>2, <1>4, <1>5, RowChanges

LEMMA AuthOwned ==
  ASSUME IInv, VersionsOK, OwnersOK, \A k \in stored: Owned(k), AuthNext PROVE AllOwned
<1>0. conn \in [Users -> Row]
  BY IInvTypes, Types
<1>1. ASSUME NEW t \in Txns, AuthorizeMint(t) PROVE AllOwned
  <2>1. \A u \in Users: conn'[u].cred = conn[u].cred
    <3>1. \A u \in Users: conn[u].id = 0 => conn[u].cred = 0
      BY DEF IInv, SeatedOK
    <3> QED BY <1>0, <1>1, <3>1 DEF AuthorizeMint, NoRow
  <2> QED BY <1>1, <2>1, OwnersKept DEF AuthorizeMint, refreshVars
<1>2. ASSUME NEW s \in Sessions, Disconnect(s) PROVE AllOwned
  <2> DEFINE u == session[s].user
  <2>1. u \in Users
    BY <1>2 DEF Disconnect, IInv, Attributed
  <2>2. \A v \in Users \ {u}: conn'[v].cred = conn[v].cred
    BY <1>0, <1>2, <2>1 DEF Disconnect
  <2>3. stored' = stored \ {conn[u].cred} /\ UNCHANGED att
    BY <1>2 DEF Disconnect, refreshVars
  <2>4. stored' \subseteq (stored \ {conn[u].cred}) \cup {0} /\ 0 \notin stored'
    BY <2>3 DEF OwnersOK
  <2> HIDE DEF u
  <2> QED BY <2>1, <2>2, <2>3, <2>4, RowChanges
<1>3. ASSUME NEW c \in Callbacks, CallbackFail(c) PROVE AllOwned
  <2>1. \A u \in Users: conn'[u].cred = conn[u].cred
    BY <1>3, IInvTypes, FailWrites
  <2> QED BY <1>3, <2>1, OwnersKept DEF CallbackFail, refreshVars
<1>4. ASSUME NEW c \in Callbacks, CallbackCommit(c) PROVE AllOwned
  BY <1>4, CommitOwned
<1>5. ASSUME UNCHANGED <<conn, stored, att>> PROVE AllOwned
  BY <1>5, OwnersKept
<1> QED BY <1>1, <1>2, <1>3, <1>4, <1>5, AuthFrame, AuthWriters

\* The new secret is owned by the run that put it.
LEMMA PutOwned ==
  ASSUME IInv, OwnersOK, \A k \in stored: Owned(k),
         NEW a \in Attempts, NEW expires \in BOOLEAN, RefreshPut(a, expires)
  PROVE  AllOwned
<1>0. att \in [Attempts -> Attempt] /\ issued \in Nat
  BY IInvTypes, Types DEF CredIds
<1>1. /\ att'[a].pc = "put" /\ att'[a].new = issued + 1 /\ att[a].pc = "read"
      /\ \A b \in Attempts \ {a}: att'[b] = att[b]
      /\ stored' = stored \cup {issued + 1} /\ UNCHANGED conn
  BY <1>0 DEF RefreshPut, Attempt
<1> SUFFICES ASSUME NEW k \in stored' PROVE k # 0 /\ Owned(k)'
  BY DEF AllOwned
<1>2. CASE k = issued + 1
  BY <1>0, <1>1, <1>2 DEF Owned
<1>3. CASE k \in stored
  BY <1>1, <1>3 DEF Owned, OwnersOK
<1> QED BY <1>1, <1>2, <1>3

\* The row takes it over, and the run owns the one it has replaced.
LEMMA RotateOwned ==
  ASSUME IInv, VersionsOK, OwnersOK, \A k \in stored: Owned(k),
         NEW a \in Attempts, RefreshCommit(a)
  PROVE  AllOwned
<1> DEFINE u == att[a].user
<1>0. /\ conn \in [Users -> Row] /\ att \in [Attempts -> Attempt] /\ u \in Users
      /\ att[a].pc = "put"
  BY IInvTypes, Types, Ranges DEF RefreshCommit, Busy
<1>1. conn[u].cred \in {att[a].cred, 0}
  BY <1>0 DEF VersionsOK, AtProvider, Read, RefreshCommit, StillMine, HoldsLock
<1>2. conn'[u].cred = att[a].new /\ \A v \in Users \ {u}: conn'[v] = conn[v]
  <2> DEFINE row == [conn[u] EXCEPT !.cred = att[a].new, !.lock = None, !.held = FALSE,
                       !.exp = IF att[a].expires THEN "ahead" ELSE @, !.ver = @ + 1]
  <2>1. conn' = [conn EXCEPT ![u] = row]
    BY <1>0 DEF RefreshCommit
  <2>2. row.cred = att[a].new
    BY <1>0 DEF Row
  <2> HIDE DEF row, u
  <2> QED BY <1>0, <2>1, <2>2
<1>3. /\ att'[a].pc = "committed" /\ att'[a].cred = att[a].cred
      /\ \A b \in Attempts \ {a}: att'[b] = att[b]
      /\ UNCHANGED stored
  BY <1>0 DEF RefreshCommit, Attempt
<1> HIDE DEF u
<1> SUFFICES ASSUME NEW k \in stored' PROVE k # 0 /\ Owned(k)'
  BY DEF AllOwned
<1>4. k \in stored /\ k # 0 /\ Owned(k)
  BY <1>3 DEF OwnersOK
<1>5. CASE \E v \in Users: conn[v].cred = k
  <2>1. PICK v \in Users: conn[v].cred = k
    BY <1>5
  <2>2. CASE v = u
    BY <1>1, <1>3, <1>4, <2>1, <2>2 DEF Owned
  <2>3. CASE v # u
    BY <1>2, <1>4, <2>1, <2>3 DEF Owned
  <2> QED BY <2>2, <2>3
<1>6. CASE \E b \in Attempts: att[b].pc = "put" /\ att[b].new = k
  BY <1>0, <1>2, <1>3, <1>4, <1>6 DEF Owned
<1>7. CASE \E b \in Attempts: att[b].pc = "committed" /\ att[b].cred = k
  BY <1>0, <1>3, <1>4, <1>7 DEF Owned
<1> QED BY <1>4, <1>5, <1>6, <1>7 DEF Owned

\* A run that deletes the secret it owns.
LEMMA DeleteOwned ==
  ASSUME IInv, OwnersOK, \A k \in stored: Owned(k), NEW a \in Attempts,
         RefreshLost(a) \/ RefreshDeleteOld(a)
  PROVE  AllOwned
<1>0. att \in [Attempts -> Attempt]
  BY IInvTypes, Types
<1>1. UNCHANGED conn /\ \A b \in Attempts \ {a}: att'[b] = att[b]
  BY <1>0 DEF RefreshLost, RefreshDeleteOld
<1> SUFFICES ASSUME NEW k \in stored' PROVE k # 0 /\ Owned(k)'
  BY DEF AllOwned
<1>2. /\ k \in stored /\ k # 0 /\ Owned(k)
      /\ att[a].pc = "put" => k # att[a].new
      /\ att[a].pc = "committed" => k # att[a].cred
  BY DEF RefreshLost, RefreshDeleteOld, OwnersOK
<1> QED BY <1>1, <1>2 DEF Owned

LEMMA RefreshOwned ==
  ASSUME IInv, VersionsOK, OwnersOK, \A k \in stored: Owned(k), RefreshNext, Undisturbed'
  PROVE  AllOwned
<1>0. /\ conn \in [Users -> Row] /\ att \in [Attempts -> Attempt]
      /\ faults \in Nat
  BY IInvTypes, Types, RefreshAssumption
<1>1. ASSUME NEW a \in Attempts, NEW k \in 1..MaxCreds, RefreshAcquire(a, k) PROVE AllOwned
  <2>1. \A v \in Users: conn'[v].cred = conn[v].cred
    BY <1>0, <1>1 DEF RefreshAcquire, Row
  <2>2. \A b \in Attempts: att'[b] = att[b] \/ att[b].pc \notin {"put", "committed"}
    BY <1>0, <1>1 DEF RefreshAcquire
  <2> QED BY <1>1, <2>1, <2>2, OwnersKept DEF RefreshAcquire
<1>2. ASSUME NEW a \in Attempts,
             RefreshFail(a) \/ RefreshRead(a) \/ RefreshRetry(a) \/ RefreshDone(a)
      PROVE  AllOwned
  <2>1. \A v \in Users: conn'[v].cred = conn[v].cred
    BY <1>0, <1>2 DEF RefreshFail, RefreshRead, RefreshRetry, RefreshDone, ReleaseLock, Row,
                      storeVars
  <2>2. \A b \in Attempts: att'[b] = att[b] \/ att[b].pc \notin {"put", "committed"}
    BY <1>0, <1>2 DEF RefreshFail, RefreshRead, RefreshRetry, RefreshDone
  <2>3. UNCHANGED stored
    BY <1>2 DEF RefreshFail, RefreshRead, RefreshRetry, RefreshDone, storeVars
  <2> QED BY <2>1, <2>2, <2>3, OwnersKept
<1>3. ASSUME NEW a \in Attempts, RefreshCommitFails(a) \/ RefreshThrows(a) \/ RefreshCrash(a)
      PROVE  FALSE
  BY <1>0, <1>3 DEF RefreshCommitFails, RefreshThrows, RefreshCrash, Undisturbed
<1>4. ASSUME NEW u \in Users, LeaseLapses(u) \/ SweepMark(u) PROVE AllOwned
  <2>1. \A v \in Users: conn'[v].cred = conn[v].cred
    BY <1>0, <1>4 DEF LeaseLapses, SweepMark, Row
  <2> QED BY <1>4, <2>1, OwnersKept DEF LeaseLapses, SweepMark
<1>5. CASE SweepSelect \/ \E k \in 1..MaxCreds: RefreshSkip(k)
  BY <1>5, OwnersKept DEF SweepSelect, RefreshSkip, storeVars, refreshVars
<1> QED BY <1>1, <1>2, <1>3, <1>4, <1>5, PutOwned, RotateOwned, DeleteOwned
        DEF RefreshNext, RefreshStep

\* Every secret has an owner, as long as nobody died and no policy change began.
LEMMA OwnersStep ==
  ASSUME IInv, VersionsOK, OwnersOK, NoOrphanedSecret, [Next]_vars
  PROVE  OwnersOK' /\ NoOrphanedSecret' /\ (faults' = 0 => faults = 0)
<1>0. faults \in Nat /\ changes \in Nat /\ issued \in Nat
  BY IInvTypes, Types, RefreshAssumption, PolicyAssumption DEF CredIds
<1>1. /\ faults' = faults \/ faults' = faults + 1
      /\ changes' = changes \/ changes' = changes + 1
      /\ adm'.pc = "selected" => changes' > 0
  <2>1. CASE AuthNext
    BY <2>1, AuthFrame DEF OwnersOK
  <2>2. CASE RefreshNext
    <3>1. UNCHANGED <<adm, changes>>
      BY <2>2, RefreshFrame
    <3>2. CASE \E a \in Attempts: RefreshCommitFails(a) \/ RefreshThrows(a) \/ RefreshCrash(a)
      BY <3>1, <3>2 DEF RefreshCommitFails, RefreshThrows, RefreshCrash, OwnersOK
    <3>3. CASE UNCHANGED faults
      BY <3>1, <3>3 DEF OwnersOK
    <3> QED BY <2>2, <3>2, <3>3, RefreshWriters
  <2>3. CASE PolicyNext \/ (\E u \in Users: TokenExpires(u)) \/ UNCHANGED vars
    BY <1>0, <2>3 DEF PolicyNext, SetEnabled, PolicySelect, PolicyCommit, PolicyAbort,
         TokenExpires, vars, refreshVars, policyVars, IdleAdmin, OwnersOK
  <2> QED BY <2>1, <2>2, <2>3 DEF Next
<1>2. 0 \notin stored'
  <2>1. \A c \in Callbacks: cb[c].pc = "locked" => cb[c].new # 0
    BY <1>0 DEF IInv, IncomingOK
  <2>2. CASE AuthNext
    BY <2>1, <2>2, AuthWriters DEF Disconnect, CallbackCommit, OwnersOK
  <2>3. CASE RefreshNext
    <3>1. CASE \E a \in Attempts, expires \in BOOLEAN: RefreshPut(a, expires)
      <4>1. stored' = stored \cup {issued + 1}
        BY <3>1 DEF RefreshPut
      <4> QED BY <1>0, <4>1 DEF OwnersOK
    <3>2. CASE stored' \subseteq stored
      BY <3>2 DEF OwnersOK
    <3>3. ASSUME NEW a \in Attempts,
                 RefreshLost(a) \/ RefreshCommitFails(a) \/ RefreshDeleteOld(a)
          PROVE  stored' \subseteq stored
      BY <3>3, DropWrites DEF RefreshDeleteOld
    <3> QED BY <2>3, <3>1, <3>2, <3>3, RefreshWriters
  <2>4. CASE PolicyNext \/ (\E u \in Users: TokenExpires(u)) \/ UNCHANGED vars
    BY <2>4 DEF PolicyNext, SetEnabled, PolicySelect, PolicyCommit, PolicyAbort,
         TokenExpires, vars, storeVars, OwnersOK
  <2> QED BY <2>2, <2>3, <2>4 DEF Next
<1>3. ASSUME Undisturbed' PROVE AllOwned
  <2>1. Undisturbed
    BY <1>0, <1>1, <1>3 DEF Undisturbed
  <2>2. (\A k \in stored: Owned(k)) /\ adm.pc # "selected"
    BY <2>1 DEF Undisturbed, NoOrphanedSecret, OwnersOK
  <2>3. CASE PolicyNext
    BY <2>2, <2>3, OwnersKept
       DEF PolicyNext, SetEnabled, PolicySelect, PolicyCommit, PolicyAbort, storeVars, refreshVars
  <2>4. ASSUME NEW u \in Users, TokenExpires(u) PROVE AllOwned
    <3>1. \A v \in Users: conn'[v].cred = conn[v].cred
      BY <2>4, IInvTypes, Types DEF TokenExpires, Row
    <3> QED BY <2>2, <2>4, <3>1, OwnersKept DEF TokenExpires, refreshVars
  <2>5. CASE UNCHANGED vars
    BY <2>2, <2>5, OwnersKept DEF vars, storeVars, refreshVars
  <2> QED BY <1>3, <2>2, <2>3, <2>4, <2>5, AuthOwned, RefreshOwned DEF Next
<1> QED BY <1>0, <1>1, <1>2, <1>3 DEF OwnersOK, NoOrphanedSecret, Undisturbed, AllOwned

-----------------------------------------------------------------------------
(***************************************************************************)
(* What a step may do                                                      *)
(***************************************************************************)

\* A credential is replaced by a writer that had read it.
LEMMA ReplacesStep == ASSUME IInv, VersionsOK, [Next]_vars PROVE ReplacesOnlyWhatItRead
<1>0. TypeInv /\ \A u \in Users: conn[u].id = 0 => conn[u].cred = 0
  BY IInvTypes DEF IInv, SeatedOK
<1> DEFINE K == \A u \in Users: conn'[u].cred \in {conn[u].cred, 0}
<1>1. ASSUME K PROVE ReplacesOnlyWhatItRead
  BY <1>1 DEF ReplacesOnlyWhatItRead
<1>2. ASSUME NEW c \in Callbacks, CallbackCommit(c) PROVE ReplacesOnlyWhatItRead
  <2> DEFINE u == cb[c].user
  <2>0. u \in Users /\ IsRow(u, cb[c].row) /\ cb[c].pc = "locked"
    BY <1>2, Ranges DEF IInv, LocksOK, Working, CallbackCommit
  <2>1. conn[u].cred \in {cb[c].cred, 0} /\ grant[cb[c].new].base = cb[c].cred
    BY <2>0 DEF VersionsOK, Told, Read
  <2>2. conn'[u].cred = cb[c].new /\ OthersKept(u)
    BY <1>0, <1>2, CommitWrites
  <2>3. UNCHANGED grant
    BY <1>2 DEF CallbackCommit
  <2> HIDE DEF u
  <2> QED BY <2>1, <2>2, <2>3 DEF ReplacesOnlyWhatItRead, OthersKept
<1>3. ASSUME NEW a \in Attempts, RefreshCommit(a) PROVE ReplacesOnlyWhatItRead
  <2> DEFINE u == att[a].user
  <2>0. u \in Users /\ att[a].pc = "put" /\ IsRow(u, att[a].row) /\ conn[u].ver = att[a].ver
    BY <1>3, Ranges DEF RefreshCommit, StillMine, HoldsLock, Busy
  <2>1. conn[u].cred \in {att[a].cred, 0} /\ grant[att[a].new].base = att[a].cred
    BY <2>0 DEF VersionsOK, AtProvider, Read
  <2>2. conn'[u].cred = att[a].new /\ OthersKept(u)
    BY <1>0, <1>3, RotateWrites
  <2>3. UNCHANGED grant
    BY <1>3 DEF RefreshCommit
  <2> HIDE DEF u
  <2> QED BY <2>1, <2>2, <2>3 DEF ReplacesOnlyWhatItRead, OthersKept
<1>4. ASSUME NEW t \in Txns, AuthorizeMint(t) PROVE K
  BY <1>0, <1>4, MintWrites DEF OthersKept
<1>5. ASSUME NEW s \in Sessions, Disconnect(s) PROVE K
  BY <1>0, <1>5, DisconnectWrites DEF OthersKept, NoRow
<1>6. ASSUME NEW c \in Callbacks, CallbackFail(c) PROVE K
  BY <1>0, <1>6, FailWrites
<1>7. ASSUME NEW a \in Attempts, RefreshFail(a) PROVE K
  BY <1>0, <1>7, FailedWrites DEF OthersKept
<1>8. ASSUME \/ \E a \in Attempts: RefreshRetry(a) \/ \E k \in 1..MaxCreds: RefreshAcquire(a, k)
             \/ \E u \in Users: LeaseLapses(u) \/ TokenExpires(u)
      PROVE  K
  BY <1>0, <1>8, LeaseWrites
<1>9. ASSUME NEW u \in Users, SweepMark(u) PROVE K
  BY <1>0, <1>9, MarkWrites DEF OthersKept
<1>10. ASSUME PolicyCommit PROVE K
  BY <1>0, <1>10, PolicyWrites
<1>11. ASSUME UNCHANGED conn PROVE K
  BY <1>11
<1> HIDE DEF K
<1> QED BY <1>1, <1>2, <1>3, <1>4, <1>5, <1>6, <1>7, <1>8, <1>9, <1>10, <1>11, RowWriters

\* A row becomes "expired" and keeps its credential only when its expiry has passed.
LEMMA ExpiresStep == ASSUME IInv, VersionsOK, [Next]_vars PROVE ExpiresOnlyOverdue
<1>0. TypeInv
  BY IInvTypes
<1> DEFINE K == \A u \in Users: \/ conn'[u].status # "expired"
                                \/ conn'[u].status = conn[u].status
                                \/ conn'[u].cred = 0
<1>1. ASSUME K PROVE ExpiresOnlyOverdue
  BY <1>1 DEF ExpiresOnlyOverdue
<1>2. ASSUME NEW u \in Users, SweepMark(u) PROVE ExpiresOnlyOverdue
  <2>1. CASE IsAsSeen(u)
    <3>1. Overdue(u)
      BY <2>1 DEF IsAsSeen, VersionsOK, Overdue
    <3>2. OthersKept(u)
      BY <1>0, <1>2, <2>1, MarkWrites
    <3> QED BY <3>1, <3>2 DEF ExpiresOnlyOverdue, OthersKept
  <2>2. CASE ~IsAsSeen(u)
    BY <1>0, <1>1, <1>2, <2>2, MarkWrites
  <2> QED BY <2>1, <2>2
<1>3. ASSUME NEW t \in Txns, AuthorizeMint(t) PROVE K
  BY <1>0, <1>3, MintWrites DEF OthersKept
<1>4. ASSUME NEW s \in Sessions, Disconnect(s) PROVE K
  BY <1>0, <1>4, DisconnectWrites DEF OthersKept, NoRow
<1>5. ASSUME NEW c \in Callbacks, CallbackFail(c) PROVE K
  BY <1>0, <1>5, FailWrites
<1>6. ASSUME NEW c \in Callbacks, CallbackCommit(c) PROVE K
  BY <1>0, <1>6, CommitWrites DEF OthersKept
<1>7. ASSUME NEW a \in Attempts, RefreshFail(a) PROVE K
  BY <1>0, <1>7, FailedWrites DEF OthersKept
<1>8. ASSUME NEW a \in Attempts, RefreshCommit(a) PROVE K
  BY <1>0, <1>8, RotateWrites DEF OthersKept
<1>9. ASSUME \/ \E a \in Attempts: RefreshRetry(a) \/ \E k \in 1..MaxCreds: RefreshAcquire(a, k)
             \/ \E u \in Users: LeaseLapses(u) \/ TokenExpires(u)
      PROVE  K
  BY <1>0, <1>9, LeaseWrites
<1>10. ASSUME PolicyCommit PROVE K
  BY <1>0, <1>10, PolicyWrites
<1>11. ASSUME UNCHANGED conn PROVE K
  BY <1>11
<1> HIDE DEF K
<1> QED BY <1>1, <1>2, <1>3, <1>4, <1>5, <1>6, <1>7, <1>8, <1>9, <1>10, <1>11, RowWriters

-----------------------------------------------------------------------------
(***************************************************************************)
(* The theorems                                                            *)
(***************************************************************************)

LEMMA RecordInit == Init => RecordIInv
<1> SUFFICES ASSUME Init PROVE RecordIInv
  OBVIOUS
<1>1. EventsOK
  BY EventsInit
<1>2. /\ conn = [u \in Users |-> NoRow] /\ created = 0 /\ stored = {} /\ adm = IdleAdmin
      /\ txn = [t \in Txns |-> [st |-> "free", user |-> None, row |-> 0, policy |-> "read_only"]]
      /\ cb = [c \in Callbacks |-> IdleCallback] /\ att = [a \in Attempts |-> IdleAttempt]
      /\ seen = [u \in Users |-> NotSeen]
      /\ \A k \in CredIds: grant[k].row = 0
  BY DEF Init, StoreInit, AuthInit, RefreshInit, PolicyInit
<1>3. /\ \A u \in Users: conn[u].id = 0 /\ seen[u].id = 0
      /\ \A c \in Callbacks: cb[c].pc = "idle" /\ cb[c].row = 0
      /\ \A a \in Attempts: att[a].pc = "idle" /\ att[a].row = 0
      /\ \A t \in Txns: txn[t].row = 0
      /\ adm.pc = "idle"
  BY <1>2 DEF NoRow, NotSeen, IdleCallback, IdleAttempt, IdleAdmin
<1>4. RecallOK
  BY <1>2, <1>3 DEF RecallOK
<1>5. VersionsOK
  BY <1>3 DEF VersionsOK, Told, AtProvider, IsRow
<1>6. LeaseOK /\ RefreshMutex
  BY <1>2, <1>3 DEF LeaseOK, RefreshMutex, AtProvider, Busy, NoRow
<1>7. OwnersOK /\ NoOrphanedSecret
  BY <1>2, <1>3 DEF OwnersOK, NoOrphanedSecret
<1> QED BY <1>1, <1>4, <1>5, <1>6, <1>7 DEF RecordIInv, EventsOK

\* Every step keeps what is recorded and what is remembered of it.
LEMMA RecordStep == IInv /\ RecordIInv /\ [Next]_vars => RecordIInv'
<1> SUFFICES ASSUME IInv, RecordIInv, [Next]_vars PROVE RecordIInv'
  OBVIOUS
<1>1. /\ EventsOK /\ RecallOK /\ VersionsOK /\ LeaseOK /\ RefreshMutex
      /\ OwnersOK /\ NoOrphanedSecret
  BY DEF RecordIInv, EventsOK
<1>2. IInv' /\ RowStep /\ Remembers
  BY <1>1, SafeStep, RowSteps, Memory
<1>3. EventsOK'
  BY <1>1, <1>2, EventsStep
<1>4. RecallOK'
  BY <1>1, <1>2, RecallStep DEF Remembers
<1>5. VersionsOK'
  BY <1>1, <1>2, VersionsStep
<1>6. RunsGoOn /\ LeasesStay /\ LeasesHeld
  BY AuthLeases, RefreshLeases, PolicyLeases DEF Next
<1>8. OwnersOK' /\ NoOrphanedSecret' /\ (faults' = 0 => faults = 0)
  BY <1>1, OwnersStep
<1>7. LeaseOK' /\ RefreshMutex'
  BY <1>1, <1>2, <1>3, <1>6, <1>8, LeaseStep
<1> QED BY <1>3, <1>4, <1>5, <1>7, <1>8 DEF RecordIInv, EventsOK

\* In every reachable state, versions, leases and owners are what requests and jobs take them for.
THEOREM RecordInvariance == Spec => [](IInv /\ RecordIInv)
<1>1. Init => IInv /\ RecordIInv
  BY SafeInit, RecordInit
<1>2. IInv /\ RecordIInv /\ [Next]_vars => (IInv /\ RecordIInv)'
  BY SafeStep, RecordStep
<1> QED BY <1>1, <1>2, PTL DEF Spec

\* Two refreshes of one connection are at the provider together only when the lease of one of
\* them ran out (the refresh_lock_token of token-refresh.ts).
THEOREM RefreshMutexHolds == Spec => []RefreshMutex
<1>1. IInv /\ RecordIInv => RefreshMutex
  BY DEF RecordIInv
<1> QED BY <1>1, RecordInvariance, PTL

\* While no worker dies and no policy change begins, every credential in the secret store is in
\* a row or in the hands of a run that stores or deletes it.
THEOREM NoOrphanedSecretHolds == Spec => []NoOrphanedSecret
<1>1. IInv /\ RecordIInv => NoOrphanedSecret
  BY DEF RecordIInv
<1> QED BY <1>1, RecordInvariance, PTL

\* No callback and no refresh replaces a credential it had not read (the version comparison of
\* routes/oauth.ts and token-refresh.ts).
THEOREM NoLostCredentialHolds == Spec => NoLostCredential
<1>1. IInv /\ RecordIInv /\ [Next]_vars => [ReplacesOnlyWhatItRead]_vars
  BY ReplacesStep DEF RecordIInv
<1> QED BY <1>1, RecordInvariance, PTL DEF Spec, NoLostCredential

\* The sweep never expires a connection that was refreshed or authorized again since it was
\* selected (the version comparison of markExpiredConnections).
THEOREM NoSpuriousExpiryHolds == Spec => NoSpuriousExpiry
<1>1. IInv /\ RecordIInv /\ [Next]_vars => [ExpiresOnlyOverdue]_vars
  BY ExpiresStep DEF RecordIInv
<1> QED BY <1>1, RecordInvariance, PTL DEF Spec, NoSpuriousExpiry
=============================================================================
