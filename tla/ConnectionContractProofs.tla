---------------------- MODULE ConnectionContractProofs ----------------------
(***************************************************************************)
(* ConnectionLifecycle implements ConnectionContract, for every value of   *)
(* its constants: each step of a handler, a job or the clock is one of the *)
(* contract's, or none.  The refinement rests on IInv, RecordIInv and      *)
(* TaleIInv, which is proved invariant here, and the contract in turn      *)
(* gives SpentStaysSpent.                                                  *)
(***************************************************************************)
EXTENDS ConnectionRecallProofs

-----------------------------------------------------------------------------
(***************************************************************************)
(* What is told of a row, and who takes it for connected                   *)
(***************************************************************************)

\* Something was told of a row once it has left its first version.
LEMMA VersionTells ==
  ASSUME IInv, EventsOK, NEW u \in Users, conn[u].id # 0
  PROVE  /\ conn[u].id \in RowIds /\ conn[u].ver \in Nat /\ conn[u].ver >= 1
         /\ conn[u].ver > 1 <=> outbox[conn[u].id] # <<>>
<1>1. conn[u] \in Row /\ outbox \in [RowIds -> Seq(Events)]
  BY IInvTypes, Types
<1>2. conn[u].id \in RowIds /\ conn[u].ver \in Nat
  BY <1>1 DEF Row
<1> DEFINE told == outbox[conn[u].id]
<1>3. told \in Seq(Events) /\ Len(told) + 1 = conn[u].ver
  BY <1>1, <1>2 DEF EventsOK, VersionCountsEvents
<1> HIDE DEF told
<1>4. Len(told) \in Nat /\ (Len(told) = 0 <=> told = <<>>)
  BY <1>3
<1> QED BY <1>2, <1>3, <1>4 DEF told

\* Only a disconnect takes a row away.
IdsStay == \A u \in Users: conn[u].id # 0 => conn'[u].id = conn[u].id

LEMMA RowsStay == ASSUME IInv, [Next]_vars PROVE IdsStay \/ \E s \in Sessions: Disconnect(s)
<1>0. TypeInv
  BY IInvTypes
<1>1. ASSUME NEW t \in Txns, AuthorizeMint(t) PROVE IdsStay
  BY <1>0, <1>1, MintWrites DEF IdsStay, OthersKept
<1>2. ASSUME NEW c \in Callbacks, CallbackFail(c) \/ CallbackCommit(c) PROVE IdsStay
  BY <1>0, <1>2, FailWrites, CommitWrites DEF IdsStay, OthersKept
<1>3. ASSUME NEW a \in Attempts, RefreshFail(a) \/ RefreshCommit(a) PROVE IdsStay
  BY <1>0, <1>3, FailedWrites, RotateWrites DEF IdsStay, OthersKept
<1>4. ASSUME \/ \E a \in Attempts: RefreshRetry(a) \/ \E k \in 1..MaxCreds: RefreshAcquire(a, k)
             \/ \E u \in Users: LeaseLapses(u) \/ TokenExpires(u)
      PROVE  IdsStay
  BY <1>0, <1>4, LeaseWrites DEF IdsStay
<1>5. ASSUME NEW u \in Users, SweepMark(u) PROVE IdsStay
  BY <1>0, <1>5, MarkWrites DEF IdsStay, OthersKept
<1>6. ASSUME PolicyCommit PROVE IdsStay
  BY <1>0, <1>6, PolicyWrites DEF IdsStay
<1>7. ASSUME UNCHANGED conn PROVE IdsStay
  BY <1>7 DEF IdsStay
<1> HIDE DEF IdsStay
<1> QED BY <1>1, <1>2, <1>3, <1>4, <1>5, <1>6, <1>7, RowWriters

\* A row that is connected after a step has been told of: it was connected before at that version
\* or an earlier one, or its version is bumped.
LEMMA ConnectedRows ==
  ASSUME IInv, EventsOK, VersionsOK, ConnectedOK, [Next]_vars
  PROVE  \A u \in Users: conn'[u].id # 0 /\ conn'[u].status = "connected" => conn'[u].ver > 1
<1> DEFINE K == \A u \in Users: conn'[u].id # 0 /\ conn'[u].status = "connected" => conn'[u].ver > 1
<1>0. /\ TypeInv
      /\ \A u \in Users: conn[u].id # 0 => conn[u].ver \in Nat /\ conn[u].ver >= 1
      /\ \A u \in Users: conn[u].id # 0 /\ conn[u].status = "connected" => conn[u].ver > 1
  BY IInvTypes, VersionTells DEF ConnectedOK
<1>1. ASSUME NEW t \in Txns, AuthorizeMint(t) PROVE K
  BY <1>0, <1>1, MintWrites DEF OthersKept
<1>2. ASSUME NEW c \in Callbacks, CallbackFail(c) PROVE K
  <2>1. Told(c) /\ cb[c].user \in Users /\ cb[c].ver \in Nat
    BY <1>0, <1>2, Types, Ranges DEF CallbackFail, Told, Working, Callback
  <2>2. IsRow(cb[c].user, cb[c].row) /\ cb[c].status = "connected" => conn[cb[c].user].ver > 1
    <3>1. IsRow(cb[c].user, cb[c].row) => cb[c].ver <= conn[cb[c].user].ver
      BY <2>1 DEF VersionsOK, Read
    <3>2. cb[c].status = "connected" => cb[c].ver > 1
      BY <2>1 DEF ConnectedOK
    <3> QED BY <1>0, <2>1, <3>1, <3>2 DEF IsRow
  <2> QED BY <1>0, <1>2, <2>2, FailWrites
<1>3. ASSUME NEW c \in Callbacks, CallbackCommit(c) PROVE K
  <2>1. conn[cb[c].user].id # 0
    BY <1>3 DEF CallbackCommit, IInv, LocksOK, IsRow
  <2> QED BY <1>0, <1>3, <2>1, CommitWrites DEF OthersKept
<1>4. ASSUME NEW a \in Attempts, RefreshFail(a) PROVE K
  BY <1>0, <1>4, FailedWrites DEF OthersKept
<1>5. ASSUME NEW a \in Attempts, RefreshCommit(a) PROVE K
  BY <1>0, <1>5, RotateWrites DEF OthersKept
<1>6. ASSUME \/ \E a \in Attempts: RefreshRetry(a) \/ \E k \in 1..MaxCreds: RefreshAcquire(a, k)
             \/ \E u \in Users: LeaseLapses(u) \/ TokenExpires(u)
      PROVE  K
  BY <1>0, <1>6, LeaseWrites
<1>7. ASSUME NEW u \in Users, SweepMark(u) PROVE K
  BY <1>0, <1>7, MarkWrites DEF OthersKept
<1>8. ASSUME PolicyCommit PROVE K
  BY <1>0, <1>8, PolicyWrites
<1>9. ASSUME NEW s \in Sessions, Disconnect(s) PROVE K
  BY <1>0, <1>9, DisconnectWrites DEF OthersKept, NoRow
<1>10. ASSUME UNCHANGED conn PROVE K
  BY <1>0, <1>10
<1> HIDE DEF K
<1>11. K
  BY <1>1, <1>2, <1>3, <1>4, <1>5, <1>6, <1>7, <1>8, <1>9, <1>10, RowWriters
<1> QED BY <1>11 DEF K

\* What a callback has been told, it was told before or reads now, in a row.
Reads(c) ==
  LET u == cb'[c].user
  IN u \in Users /\ IsRow(u, cb'[c].row) /\ cb'[c].ver = conn[u].ver /\ cb'[c].status = conn[u].status
CallbacksTold ==
  \A c \in Callbacks: Told(c)' =>
    \/ /\ Told(c) /\ cb'[c].row = cb[c].row /\ cb'[c].ver = cb[c].ver
       /\ cb'[c].status = cb[c].status
    \/ Reads(c)

LEMMA TellsCallbacks == ASSUME IInv, [Next]_vars PROVE CallbacksTold
<1>0. cb \in [Callbacks -> Callback]
  BY IInvTypes, Types
<1>1. ASSUME UNCHANGED cb PROVE CallbacksTold
  BY <1>1 DEF CallbacksTold, Told
<1>2. ASSUME NEW c \in Callbacks, cb' = [cb EXCEPT ![c] = IdleCallback] PROVE CallbacksTold
  BY <1>0, <1>2 DEF CallbacksTold, Told, IdleCallback
<1>3. ASSUME NEW c \in Callbacks, CallbackBegin(c) PROVE CallbacksTold
  <2> DEFINE u == cb[c].user
  <2>1. /\ \A d \in Callbacks \ {c}: cb'[d] = cb[d]
        /\ cb'[c].user = u /\ cb'[c].row = cb[c].row
        /\ cb'[c].ver = conn[u].ver /\ cb'[c].status = conn[u].status
    BY <1>0, <1>3 DEF CallbackBegin, Callback
  <2>2. u \in Users /\ IsRow(u, cb[c].row)
    BY <1>3, Ranges DEF CallbackBegin, Working
  <2> HIDE DEF u
  <2>3. Reads(c)
    BY <2>1, <2>2 DEF Reads
  <2> QED BY <2>1, <2>3 DEF CallbacksTold, Told
<1>4. ASSUME NEW c \in Callbacks, NEW expires \in BOOLEAN, CallbackStore(c, expires)
      PROVE  CallbacksTold
  <2>1. /\ \A d \in Callbacks \ {c}: cb'[d] = cb[d]
        /\ cb'[c].row = cb[c].row /\ cb'[c].ver = cb[c].ver /\ cb'[c].status = cb[c].status
        /\ cb[c].pc = "exchanging"
    BY <1>0, <1>4 DEF CallbackStore, Callback
  <2> QED BY <2>1 DEF CallbacksTold, Told
<1>5. ASSUME NEW c \in Callbacks, NEW t \in Txns, CallbackConsume(c, t) PROVE CallbacksTold
  <2>1. \A d \in Callbacks \ {c}: cb'[d] = cb[d]
    BY Zenon, <1>0, <1>5 DEF CallbackConsume
  <2>2. cb'[c].pc = "consumed"
    BY <1>0, <1>5 DEF CallbackConsume, IdleCallback
  <2> QED BY <2>1, <2>2 DEF CallbacksTold, Told
<1>6. ASSUME NEW c \in Callbacks, CallbackStep(c) PROVE CallbacksTold
  <2>1. ASSUME CallbackRefused(c) \/ CallbackFail(c) \/ CallbackNoToken(c) \/ CallbackConflict(c)
               \/ CallbackCommit(c) \/ CallbackAbort(c)
        PROVE  cb' = [cb EXCEPT ![c] = IdleCallback]
    BY Zenon, <2>1 DEF CallbackRefused, CallbackFail, CallbackNoToken, CallbackConflict,
                       CallbackCommit, CallbackAbort
  <2> QED BY <1>2, <1>3, <1>4, <1>6, <2>1 DEF CallbackStep
<1>7. ASSUME NEW s \in Sessions,
             DisconnectLoad(s) \/ Disconnect(s) \/ DisconnectAbort(s) \/ SessionEnds(s)
               \/ StepUpEnds(s) \/ \E u \in Users, stepUp \in BOOLEAN: CreateSession(s, u, stepUp)
      PROVE  UNCHANGED cb
  BY Zenon, <1>7 DEF DisconnectLoad, Disconnect, DisconnectAbort, SessionEnds, StepUpEnds, CreateSession
<1>8. ASSUME NEW t \in Txns,
             AuthorizeMint(t) \/ StateLapses(t) \/ \E s \in Sessions: AuthorizeLoad(t, s)
      PROVE  UNCHANGED cb
  BY <1>8 DEF AuthorizeMint, StateLapses, AuthorizeLoad
<1>9. CASE AuthNext
  BY <1>1, <1>5, <1>6, <1>7, <1>8, <1>9 DEF AuthNext
<1>10. CASE RefreshNext
  BY <1>1, <1>10, RefreshFrame
<1>11. CASE PolicyNext \/ (\E u \in Users: TokenExpires(u)) \/ UNCHANGED vars
  BY <1>1, <1>11, PolicyFrame
<1> QED BY <1>9, <1>10, <1>11 DEF Next

\* The sweep selects rows that are connected.
LEMMA SweepSees ==
  ASSUME IInv, [Next]_vars
  PROVE  \A u \in Users: \/ seen'[u] \in {seen[u], NotSeen}
                         \/ Overdue(u) /\ seen'[u] = [id |-> conn[u].id, ver |-> conn[u].ver]
<1> DEFINE K == \A u \in Users:
                  \/ seen'[u] \in {seen[u], NotSeen}
                  \/ Overdue(u) /\ seen'[u] = [id |-> conn[u].id, ver |-> conn[u].ver]
<1>1. ASSUME UNCHANGED seen PROVE K
  BY <1>1
<1>2. ASSUME NEW u \in Users, SweepMark(u) PROVE K
  BY <1>2, IInvTypes, Types DEF SweepMark
<1>3. ASSUME SweepSelect PROVE K
  BY <1>3 DEF SweepSelect
<1> HIDE DEF K
<1>4. ASSUME RefreshNext PROVE K
  BY <1>1, <1>2, <1>3, <1>4, RefreshWriters
<1>5. ASSUME AuthNext \/ PolicyNext \/ (\E u \in Users: TokenExpires(u)) \/ UNCHANGED vars
      PROVE  K
  BY <1>1, <1>5, AuthFrame, PolicyFrame
<1>6. K
  BY <1>4, <1>5 DEF Next
<1> QED BY <1>6 DEF K

\* Whoever takes a row for connected goes on being right.
LEMMA ConnectedStep ==
  ASSUME IInv, EventsOK, VersionsOK, ConnectedOK, RunsGoOn, [Next]_vars PROVE ConnectedOK'
<1>0. \A u \in Users: conn[u].id # 0 /\ conn[u].status = "connected" => conn[u].ver > 1
  BY DEF ConnectedOK
<1>1. \A u \in Users: conn'[u].id # 0 /\ conn'[u].status = "connected" => conn'[u].ver > 1
  BY ConnectedRows
<1>2. ASSUME NEW c \in Callbacks, Told(c)'
      PROVE  cb'[c].row # 0 /\ (cb'[c].status = "connected" => cb'[c].ver > 1)
  <2>1. CASE Told(c) /\ cb'[c].row = cb[c].row /\ cb'[c].ver = cb[c].ver
             /\ cb'[c].status = cb[c].status
    BY <2>1 DEF ConnectedOK
  <2>2. CASE Reads(c)
    BY <1>0, <2>2 DEF Reads, IsRow
  <2> QED BY <1>2, <2>1, <2>2, TellsCallbacks DEF CallbacksTold
<1>3. ASSUME NEW a \in Attempts, Busy(a)'
      PROVE  att'[a].row # 0 /\ (AtProvider(a)' => att'[a].ver > 1)
  <2>1. CASE Busy(a) /\ GoesOn(a)
    BY <2>1 DEF ConnectedOK, GoesOn
  <2>2. CASE TakesLease(a)
    BY <1>0, <2>2 DEF TakesLease
  <2> QED BY <1>3, <2>1, <2>2 DEF RunsGoOn
<1>4. ASSUME NEW u \in Users, seen'[u].id # 0 PROVE seen'[u].ver > 1
  <2>1. CASE seen'[u] = seen[u]
    BY <1>4, <2>1 DEF ConnectedOK
  <2>2. CASE Overdue(u) /\ seen'[u] = [id |-> conn[u].id, ver |-> conn[u].ver]
    BY <1>0, <1>4, <2>2 DEF Overdue
  <2>3. CASE seen'[u] = NotSeen
    BY <1>4, <2>3 DEF NotSeen
  <2> QED BY <2>1, <2>2, <2>3, SweepSees
<1>5. \A a \in Attempts: AtProvider(a)' => Busy(a)'
  BY DEF AtProvider, Busy
<1> QED BY <1>1, <1>2, <1>3, <1>4, <1>5 DEF ConnectedOK

\* A step tells nothing; it begins or ends the tale of a row; or it goes on with it.
Silent == UNCHANGED outbox
TellsOf(r) ==
  \E e \in Events: Publish(r, e) /\ (e \in {"connected", "disconnected"} \/ outbox[r] # <<>>)

LEMMA StepTells ==
  ASSUME IInv, EventsOK, VersionsOK, ConnectedOK, [Next]_vars
  PROVE  Silent \/ \E r \in RowIds: TellsOf(r)
<1>0. /\ TypeInv /\ conn \in [Users -> Row] /\ cb \in [Callbacks -> Callback]
      /\ {"connected", "refreshed", "expired", "error", "disconnected"} \subseteq Events
  BY IInvTypes, Types DEF Events
<1> DEFINE K == Silent \/ \E r \in RowIds: TellsOf(r)
<1>1. ASSUME NEW s \in Sessions, Disconnect(s) PROVE K
  <2> DEFINE row == conn[session[s].user]
  <2>1. row \in Row
    BY <1>0, <1>1, DisconnectWrites
  <2>2. row.id \in RowIds
    BY <2>1 DEF Row
  <2>3. outbox' = IF row.id # 0 THEN [outbox EXCEPT ![row.id] = Append(@, "disconnected")] ELSE outbox
    BY Zenon, <1>1 DEF Disconnect
  <2> HIDE DEF row
  <2> QED BY <1>0, <2>2, <2>3 DEF Silent, TellsOf, Publish
<1>2. ASSUME NEW c \in Callbacks, CallbackCommit(c) PROVE K
  <2>1. Publish(cb[c].row, "connected")
    BY Zenon, <1>2 DEF CallbackCommit
  <2>2. cb[c].row \in RowIds
    BY <1>0 DEF Callback
  <2> QED BY <1>0, <2>1, <2>2 DEF TellsOf
<1>3. ASSUME NEW u \in Users, NEW e \in Events, conn[u].id # 0, conn[u].ver > 1,
             Publish(conn[u].id, e)
      PROVE  K
  BY <1>3, VersionTells DEF TellsOf
<1>4. ASSUME NEW a \in Attempts, AtProvider(a), HoldsLock(a)
      PROVE  /\ att[a].user \in Users /\ conn[att[a].user].id = att[a].row
             /\ att[a].row # 0 /\ conn[att[a].user].ver > 1
  <2> DEFINE u == att[a].user
  <2>1. u \in Users /\ IsRow(u, att[a].row) /\ att[a].ver \in Nat /\ conn[u].ver \in Nat
    BY <1>0, <1>4, Types, Ranges DEF HoldsLock, Busy, AtProvider, Attempt, Row
  <2>2. att[a].ver > 1 /\ att[a].ver <= conn[u].ver
    BY <1>4, <2>1 DEF ConnectedOK, VersionsOK, Read
  <2> HIDE DEF u
  <2>3. conn[u].ver > 1 /\ conn[u].id = att[a].row /\ att[a].row # 0
    BY <2>1, <2>2 DEF IsRow
  <2> QED BY <2>1, <2>3 DEF u
<1>5. ASSUME NEW a \in Attempts, RefreshFail(a) PROVE K
  <2>1. AtProvider(a)
    BY <1>5 DEF RefreshFail, AtProvider
  <2>2. CASE HoldsLock(a)
    <3>1. Publish(att[a].row, "error")
      BY Zenon, <1>5, <2>2 DEF RefreshFail
    <3>2. att[a].user \in Users /\ conn[att[a].user].id = att[a].row
          /\ att[a].row # 0 /\ conn[att[a].user].ver > 1
      BY <1>4, <2>1, <2>2
    <3> HIDE DEF K
    <3> QED BY <1>0, <1>3, <3>1, <3>2
  <2>3. CASE ~HoldsLock(a)
    BY Zenon, <1>0, <1>5, <2>3, FailedWrites DEF Silent
  <2> QED BY <2>2, <2>3
<1>6. ASSUME NEW a \in Attempts, RefreshCommit(a) PROVE K
  <2>1. AtProvider(a) /\ HoldsLock(a)
    BY Zenon, <1>6 DEF RefreshCommit, AtProvider, StillMine
  <2>2. Publish(att[a].row, "refreshed")
    BY Zenon, <1>6 DEF RefreshCommit
  <2>3. att[a].user \in Users /\ conn[att[a].user].id = att[a].row
        /\ att[a].row # 0 /\ conn[att[a].user].ver > 1
    BY <1>4, <2>1
  <2> HIDE DEF K
  <2> QED BY <1>0, <1>3, <2>2, <2>3
<1>7. ASSUME NEW u \in Users, SweepMark(u) PROVE K
  <2>1. CASE IsAsSeen(u)
    <3>1. Publish(seen[u].id, "expired") /\ seen[u].id = conn[u].id /\ seen[u].id # 0
      BY <1>7, <2>1 DEF SweepMark, IsAsSeen, IsRow
    <3>2. conn[u].ver > 1
      BY <2>1, <3>1 DEF ConnectedOK, IsAsSeen
    <3> HIDE DEF K
    <3> QED BY <1>0, <1>3, <3>1, <3>2
  <2>2. CASE ~IsAsSeen(u)
    BY <1>0, <1>7, <2>2, MarkWrites DEF Silent
  <2> QED BY <2>1, <2>2
<1>8. ASSUME Silent PROVE K
  BY <1>8
<1> HIDE DEF K
<1>9. ASSUME AuthNext PROVE K
  BY <1>1, <1>2, <1>8, <1>9, AuthWriters DEF Silent
<1>10. ASSUME RefreshNext PROVE K
  BY <1>5, <1>6, <1>7, <1>8, <1>10, RefreshWriters DEF Silent
<1>11. ASSUME PolicyNext \/ (\E u \in Users: TokenExpires(u)) \/ UNCHANGED vars PROVE K
  BY <1>8, <1>11, PolicyFrame DEF Silent
<1>12. K
  BY <1>9, <1>10, <1>11 DEF Next
<1> QED BY <1>12 DEF K

\* So the tale of a row keeps its beginning.
LEMMA FirstStep ==
  ASSUME IInv, EventsOK, VersionsOK, ConnectedOK, AuthorizedFirst, [Next]_vars
  PROVE  AuthorizedFirst'
<1>1. CASE Silent
  BY <1>1 DEF Silent, AuthorizedFirst
<1>2. ASSUME NEW r \in RowIds, TellsOf(r) PROVE AuthorizedFirst'
  <2>1. PICK e \in Events:
          Publish(r, e) /\ (e \in {"connected", "disconnected"} \/ outbox[r] # <<>>)
    BY <1>2 DEF TellsOf
  <2>2. /\ \A q \in RowIds \ {r}: outbox'[q] = outbox[q]
        /\ outbox[r] \in Seq(Events) /\ outbox'[r] = Append(outbox[r], e)
    BY <2>1, IInvTypes, Types DEF Publish
  <2>3. outbox'[r][1] = IF outbox[r] = <<>> THEN e ELSE outbox[r][1]
    BY <2>2
  <2> QED BY <2>1, <2>2, <2>3 DEF AuthorizedFirst
<1> QED BY <1>1, <1>2, StepTells

-----------------------------------------------------------------------------
(***************************************************************************)
(* Verifiers                                                               *)
(***************************************************************************)

\* A callback that is at work after the step works on for its transaction, or the step drops the
\* verifier of one that ends.
WorksOn(c) ==
  cb'[c].pc # "idle" =>
    cb[c].pc # "idle" /\ cb'[c].t = cb[c].t /\ cb'[c].user = cb[c].user /\ cb'[c].row = cb[c].row
Drops(c) ==
  cb[c].pc # "idle" /\ cb' = [cb EXCEPT ![c] = IdleCallback] /\ DropVerifier(cb[c].t)

LEMMA CallbackWorks ==
  ASSUME IInv, NEW c \in Callbacks, CallbackStep(c)
  PROVE  (UNCHANGED <<txn, verifiers>> /\ \A d \in Callbacks: WorksOn(d)) \/ Drops(c)
<1>0. cb \in [Callbacks -> Callback]
  BY IInvTypes, Types
<1> DEFINE On == UNCHANGED <<txn, verifiers>> /\ \A d \in Callbacks: WorksOn(d)
<1>1. ASSUME cb' = [cb EXCEPT ![c] = IdleCallback] PROVE \A d \in Callbacks: WorksOn(d)
  BY <1>0, <1>1 DEF WorksOn, IdleCallback
<1>2. ASSUME CallbackRefused(c) \/ CallbackConflict(c) \/ CallbackAbort(c) PROVE On
  <2>1. cb' = [cb EXCEPT ![c] = IdleCallback] /\ UNCHANGED <<txn, verifiers>>
    BY Zenon, <1>2 DEF CallbackRefused, CallbackConflict, CallbackAbort
  <2> QED BY <1>1, <2>1
<1>3. ASSUME CallbackBegin(c) PROVE On
  <2>1. UNCHANGED <<txn, verifiers>> /\ cb[c].pc = "consumed" /\ \A d \in Callbacks \ {c}: cb'[d] = cb[d]
    BY Zenon, <1>0, <1>3 DEF CallbackBegin
  <2>2. cb'[c].t = cb[c].t /\ cb'[c].user = cb[c].user /\ cb'[c].row = cb[c].row
    BY <1>0, <1>3 DEF CallbackBegin, Callback
  <2> QED BY <2>1, <2>2 DEF WorksOn
<1>4. ASSUME NEW expires \in BOOLEAN, CallbackStore(c, expires) PROVE On
  <2>1. UNCHANGED <<txn, verifiers>> /\ cb[c].pc = "exchanging" /\ \A d \in Callbacks \ {c}: cb'[d] = cb[d]
    BY Zenon, <1>0, <1>4 DEF CallbackStore
  <2>2. cb'[c].t = cb[c].t /\ cb'[c].user = cb[c].user /\ cb'[c].row = cb[c].row
    BY <1>0, <1>4 DEF CallbackStore, Callback
  <2> QED BY <2>1, <2>2 DEF WorksOn
<1>5. ASSUME CallbackFail(c) \/ CallbackNoToken(c) \/ CallbackCommit(c) PROVE Drops(c)
  BY Zenon, <1>5 DEF CallbackFail, CallbackNoToken, CallbackCommit, Drops
<1> HIDE DEF On
<1>6. On \/ Drops(c)
  BY <1>2, <1>3, <1>4, <1>5 DEF CallbackStep
<1> QED BY <1>6 DEF On

\* Who writes the transactions, the callbacks and the verifiers.
LEMMA VerifierWriters ==
  ASSUME IInv, [Next]_vars
  PROVE  \/ UNCHANGED <<txn, verifiers>> /\ \A c \in Callbacks: WorksOn(c)
         \/ \E c \in Callbacks: Drops(c)
         \/ \E c \in Callbacks, t \in Txns: CallbackConsume(c, t)
         \/ \E t \in Txns: AuthorizeMint(t) \/ StateLapses(t) \/ \E s \in Sessions: AuthorizeLoad(t, s)
         \/ \E s \in Sessions: Disconnect(s)
<1> DEFINE On == UNCHANGED <<txn, verifiers>> /\ \A c \in Callbacks: WorksOn(c)
<1>1. ASSUME UNCHANGED <<txn, cb, verifiers>> PROVE On
  BY <1>1 DEF WorksOn
<1>2. ASSUME NEW s \in Sessions,
             DisconnectLoad(s) \/ DisconnectAbort(s) \/ SessionEnds(s)
               \/ StepUpEnds(s) \/ \E u \in Users, stepUp \in BOOLEAN: CreateSession(s, u, stepUp)
      PROVE  UNCHANGED <<txn, cb, verifiers>>
  BY Zenon, <1>2 DEF DisconnectLoad, DisconnectAbort, SessionEnds, StepUpEnds, CreateSession
<1>3. ASSUME RefreshNext \/ PolicyNext \/ (\E u \in Users: TokenExpires(u)) \/ UNCHANGED vars
      PROVE  UNCHANGED <<txn, cb, verifiers>>
  BY <1>3, RefreshFrame, PolicyFrame
<1>4. ASSUME NEW c \in Callbacks, CallbackStep(c) PROVE On \/ Drops(c)
  BY <1>4, CallbackWorks
<1> HIDE DEF On
<1>5. \/ On
      \/ \E c \in Callbacks: Drops(c)
      \/ \E c \in Callbacks, t \in Txns: CallbackConsume(c, t)
      \/ \E t \in Txns: AuthorizeMint(t) \/ StateLapses(t) \/ \E s \in Sessions: AuthorizeLoad(t, s)
      \/ \E s \in Sessions: Disconnect(s)
  BY <1>1, <1>2, <1>3, <1>4 DEF Next, AuthNext
<1> QED BY <1>5 DEF On

\* Whatever state can still be exchanged finds its verifier.
LEMMA VerifierStep ==
  ASSUME IInv, EventsOK, RecallOK, RowStep, VerifierIsKept, [Next]_vars PROVE VerifierIsKept'
<1>0. /\ txn \in [Txns -> Txn] /\ cb \in [Callbacks -> Callback] /\ verifiers \in SUBSET Txns
      /\ \A t \in Txns: txn[t].row \in Nat /\ txn[t].row <= created
      /\ \A c \in Callbacks: cb[c].row \in Nat /\ cb[c].row <= created
      /\ \A c \in Callbacks: Working(c) => cb[c].user \in Users
      /\ \A t \in Txns: txn[t].st # "free" => txn[t].user \in Users
  <2>1. txn \in [Txns -> Txn] /\ cb \in [Callbacks -> Callback] /\ RowIds \subseteq Nat
        /\ verifiers \in SUBSET Txns
    BY IInvTypes, Types DEF RowIds
  <2>2. /\ \A t \in Txns: txn[t].row \in Nat
        /\ \A c \in Callbacks: cb[c].row \in Nat
    BY <2>1 DEF Txn, Callback
  <2> QED BY <2>1, <2>2 DEF RecallOK, IInv, Attributed
<1>1. \A u \in Users, r \in Nat: r <= created /\ IsRow(u, r)' => IsRow(u, r)
  BY RowWasThere
<1> DEFINE Pending(t) == txn'[t].st = "pending" =>
                           t \in verifiers' /\ IsRow(txn[t].user, txn[t].row)'
           Exchanged(c) == cb'[c].pc # "idle" /\ IsRow(cb[c].user, cb[c].row)'
                             => cb'[c].t \in verifiers'
\* What stays pending while rows and verifiers stay, and whoever works on.
<1>2. ASSUME IdsStay, NEW t \in Txns, txn'[t].st = "pending" => txn'[t] = txn[t],
             t \in verifiers => t \in verifiers'
      PROVE  Pending(t)
  BY <1>0, <1>2 DEF IdsStay, IsRow, VerifierIsKept
<1>3. ASSUME NEW c \in Callbacks, WorksOn(c), cb[c].t \in verifiers => cb[c].t \in verifiers'
      PROVE  Exchanged(c)
  <2> SUFFICES ASSUME cb'[c].pc # "idle", IsRow(cb[c].user, cb[c].row)'
               PROVE  cb'[c].t \in verifiers'
    OBVIOUS
  <2> DEFINE u == cb[c].user  r == cb[c].row
  <2>1. cb[c].pc # "idle" /\ cb'[c].t = cb[c].t /\ cb'[c].user = u /\ cb'[c].row = r
    BY <1>3 DEF WorksOn
  <2>2. u \in Users /\ r \in Nat /\ r <= created
    BY <1>0, <2>1 DEF Working
  <2>3. conn'[u].id = r /\ r # 0
    BY <2>1 DEF IsRow
  <2> HIDE DEF u, r
  <2>4. IsRow(u, r)
    BY <1>1, <2>2, <2>3 DEF IsRow
  <2> QED BY <1>3, <2>1, <2>4 DEF VerifierIsKept, u, r
<1>4. ASSUME \A t \in Txns: Pending(t), \A c \in Callbacks: Exchanged(c) PROVE VerifierIsKept'
  BY <1>4 DEF VerifierIsKept
<1> HIDE DEF Pending, Exchanged
<1>5. ASSUME IdsStay, UNCHANGED <<txn, verifiers>>, \A c \in Callbacks: WorksOn(c)
      PROVE  VerifierIsKept'
  BY <1>2, <1>3, <1>4, <1>5
<1>6. ASSUME IdsStay, NEW c \in Callbacks, Drops(c) PROVE VerifierIsKept'
  <2>1. /\ cb[c].pc # "idle" /\ verifiers' = verifiers \ {cb[c].t}
        /\ \A d \in Callbacks \ {c}: cb'[d] = cb[d]
        /\ cb'[c].pc = "idle"
    BY <1>0, <1>6 DEF Drops, DropVerifier, IdleCallback
  <2>2. txn' = [txn EXCEPT ![cb[c].t].st = "deleted"]
    BY <1>6 DEF Drops, DropVerifier
  <2>3. \A t \in Txns: txn'[t].st = "pending" => txn'[t] = txn[t] /\ t # cb[c].t
    BY <1>0, <2>2 DEF Txn
  <2>4. \A t \in Txns: Pending(t)
    <3> SUFFICES ASSUME NEW t \in Txns, txn'[t].st = "pending" PROVE Pending(t)
      BY DEF Pending
    <3>1. txn'[t] = txn[t] /\ (t \in verifiers => t \in verifiers')
      BY <2>1, <2>3
    <3> QED BY <1>2, <1>6, <3>1
  <2>5. \A d \in Callbacks: Exchanged(d)
    <3>1. \A d \in Callbacks \ {c}: cb[d].pc # "idle" => cb[d].t # cb[c].t
      BY <2>1 DEF IInv, StateSingleUse
    <3>2. \A d \in Callbacks \ {c}: cb[d].pc # "idle" => Exchanged(d)
      BY <1>3, <2>1, <3>1 DEF WorksOn
    <3>3. \A d \in Callbacks: cb'[d].pc = "idle" => Exchanged(d)
      BY DEF Exchanged
    <3> QED BY <2>1, <3>2, <3>3
  <2> QED BY <1>4, <2>4, <2>5
<1>7. ASSUME IdsStay, NEW c \in Callbacks, NEW t \in Txns, CallbackConsume(c, t)
      PROVE  VerifierIsKept'
  <2>1. /\ txn' = [txn EXCEPT ![t].st = "consumed"] /\ UNCHANGED verifiers /\ txn[t].st = "pending"
    BY <1>7 DEF CallbackConsume
  <2>2. /\ \A d \in Callbacks \ {c}: cb'[d] = cb[d]
        /\ cb'[c].t = t
    BY <1>0, <1>7 DEF CallbackConsume, IdleCallback
  <2>3. \A v \in Txns: txn'[v].st = "pending" => txn'[v] = txn[v]
    BY <1>0, <2>1 DEF Txn
  <2>4. \A v \in Txns: Pending(v)
    BY <1>2, <1>7, <2>1, <2>3
  <2>5. t \in verifiers'
    BY <2>1 DEF VerifierIsKept
  <2>6. \A d \in Callbacks: Exchanged(d)
    BY <1>3, <2>1, <2>2, <2>5 DEF WorksOn, Exchanged
  <2> QED BY <1>4, <2>4, <2>6
<1>8. ASSUME IdsStay, NEW t \in Txns,
             StateLapses(t) \/ \E s \in Sessions: AuthorizeLoad(t, s)
      PROVE  VerifierIsKept'
  <2>1. UNCHANGED <<cb, verifiers>>
    BY Zenon, <1>8 DEF StateLapses, AuthorizeLoad
  <2>2. \A v \in Txns: txn'[v].st = "pending" => txn'[v] = txn[v]
    BY <1>0, <1>8 DEF StateLapses, AuthorizeLoad, Txn
  <2> QED BY <1>2, <1>3, <1>4, <1>8, <2>1, <2>2 DEF WorksOn
<1>9. ASSUME IdsStay, NEW t \in Txns, AuthorizeMint(t) PROVE VerifierIsKept'
  <2>1. /\ UNCHANGED cb /\ verifiers' = verifiers \cup {t}
        /\ txn[t].st = "loaded" /\ txn[t].user \in Users
        /\ \A v \in Txns \ {t}: txn'[v] = txn[v]
    BY <1>0, <1>9 DEF AuthorizeMint
  <2>2. /\ txn'[t].user = txn[t].user
        /\ txn'[t].row = IF conn[txn[t].user].id = 0 THEN created + 1 ELSE conn[txn[t].user].id
    BY <1>0, <1>9 DEF AuthorizeMint, Txn
  <2>3. conn'[txn[t].user].id = txn'[t].row /\ txn'[t].row # 0
    <3>1. created \in Nat
      BY IInvTypes, Types DEF RowIds
    <3> QED BY <1>9, <2>2, <3>1, IInvTypes, MintWrites
  <2>4. Pending(t)
    BY <2>1, <2>2, <2>3 DEF Pending, IsRow
  <2>5. \A v \in Txns: Pending(v)
    BY <1>2, <1>9, <2>1, <2>4
  <2>6. \A c \in Callbacks: Exchanged(c)
    BY <1>3, <2>1 DEF WorksOn
  <2> QED BY <1>4, <2>5, <2>6
<1>10. ASSUME NEW s \in Sessions, Disconnect(s) PROVE VerifierIsKept'
  <2> DEFINE u == session[s].user
             gone == conn[u].id
  <2>1. /\ u \in Users /\ UNCHANGED <<cb, verifiers>> /\ OthersKept(u)
        /\ txn' = [t \in Txns |-> IF gone # 0 /\ txn[t].row = gone
                                    THEN [txn[t] EXCEPT !.st = "deleted"] ELSE txn[t]]
    BY Zenon, <1>10, IInvTypes, DisconnectWrites DEF Disconnect
  <2> HIDE DEF u, gone
  <2>2. \A t \in Txns: txn'[t].st = "pending" => txn'[t] = txn[t] /\ (gone # 0 => txn[t].row # gone)
    BY <1>0, <2>1 DEF Txn
  <2>3. ASSUME NEW t \in Txns PROVE Pending(t)
    <3> SUFFICES ASSUME txn'[t].st = "pending" PROVE t \in verifiers' /\ IsRow(txn[t].user, txn[t].row)'
      BY DEF Pending
    <3>1. txn'[t] = txn[t] /\ (gone # 0 => txn[t].row # gone)
      BY <2>2
    <3>2. t \in verifiers /\ txn[t].row # 0 /\ conn[txn[t].user].id = txn[t].row
      BY <3>1 DEF VerifierIsKept, IsRow
    <3>3. txn[t].user \in Users \ {u}
      BY <1>0, <3>1, <3>2 DEF gone
    <3> QED BY <2>1, <3>1, <3>2, <3>3 DEF IsRow, OthersKept
  <2>4. \A c \in Callbacks: Exchanged(c)
    BY <1>3, <2>1 DEF WorksOn
  <2> QED BY <1>4, <2>3, <2>4
<1>11. CASE IdsStay
  <2>1. CASE \E s \in Sessions: Disconnect(s)
    BY <1>10, <2>1
  <2> QED BY <1>5, <1>6, <1>7, <1>8, <1>9, <1>11, <2>1, VerifierWriters
<1> QED BY <1>10, <1>11, RowsStay

-----------------------------------------------------------------------------
(***************************************************************************)
(* TaleIInv is invariant                                                   *)
(***************************************************************************)

LEMMA TaleInit == Init => TaleIInv
<1> SUFFICES ASSUME Init PROVE TaleIInv
  OBVIOUS
<1>1. /\ conn = [u \in Users |-> NoRow] /\ outbox = [r \in RowIds |-> <<>>]
      /\ txn = [t \in Txns |-> [st |-> "free", user |-> None, row |-> 0, policy |-> "read_only"]]
      /\ cb = [c \in Callbacks |-> IdleCallback] /\ att = [a \in Attempts |-> IdleAttempt]
      /\ seen = [u \in Users |-> NotSeen]
  BY DEF Init, StoreInit, AuthInit, RefreshInit
<1>2. /\ \A u \in Users: conn[u].id = 0 /\ seen[u].id = 0
      /\ \A c \in Callbacks: cb[c].pc = "idle"
      /\ \A a \in Attempts: att[a].pc = "idle"
      /\ \A t \in Txns: txn[t].st = "free"
  BY <1>1 DEF NoRow, NotSeen, IdleCallback, IdleAttempt
<1>3. AuthorizedFirst
  BY <1>1 DEF AuthorizedFirst
<1>4. ConnectedOK
  BY <1>2 DEF ConnectedOK, Told, Busy, AtProvider
<1>5. VerifierIsKept
  BY <1>2 DEF VerifierIsKept
<1> QED BY <1>3, <1>4, <1>5 DEF TaleIInv

LEMMA TaleStep == IInv /\ RecordIInv /\ TaleIInv /\ [Next]_vars => TaleIInv'
<1> SUFFICES ASSUME IInv, RecordIInv, TaleIInv, [Next]_vars PROVE TaleIInv'
  OBVIOUS
<1>1. EventsOK /\ RecallOK /\ VersionsOK /\ AuthorizedFirst /\ ConnectedOK /\ VerifierIsKept
  BY DEF RecordIInv, EventsOK, TaleIInv
<1>2. RowStep /\ RunsGoOn
  BY RowSteps, AuthLeases, RefreshLeases, PolicyLeases DEF Next
<1>3. AuthorizedFirst' /\ ConnectedOK' /\ VerifierIsKept'
  BY <1>1, <1>2, FirstStep, ConnectedStep, VerifierStep
<1> QED BY <1>3 DEF TaleIInv

\* In every reachable state, what is told of a row begins with "connected" or is its removal,
\* whoever takes a row for connected is right, and no verifier is missed.
THEOREM TaleInvariance == Spec => [](IInv /\ RecordIInv /\ TaleIInv)
<1>1. Init => IInv /\ RecordIInv /\ TaleIInv
  BY SafeInit, RecordInit, TaleInit
<1>2. IInv /\ RecordIInv /\ TaleIInv /\ [Next]_vars => (IInv /\ RecordIInv /\ TaleIInv)'
  BY SafeStep, RecordStep, TaleStep
<1> QED BY <1>1, <1>2, PTL DEF Spec

\* The same, of TaleIInv alone: a refresh, a failure and an expiry are told only of connections
\* whose authorization was (Publish in token-refresh.ts and outbox.ts).
THEOREM TaleIInvHolds == Spec => []TaleIInv
<1>1. IInv /\ RecordIInv /\ TaleIInv => TaleIInv
  OBVIOUS
<1> QED BY <1>1, TaleInvariance, PTL

\* The callback's read of the PKCE verifier never fails for want of it: it is there while its
\* state is pending, and while the row of the callback that consumed the state is.
THEOREM VerifierIsKeptHolds == Spec => []VerifierIsKept
<1>1. IInv /\ RecordIInv /\ TaleIInv => VerifierIsKept
  BY DEF TaleIInv
<1> QED BY <1>1, TaleInvariance, PTL

-----------------------------------------------------------------------------
(***************************************************************************)
(* The contract's steps, read of the rows                                  *)
(***************************************************************************)
Ids == [u \in Users |-> conn[u].id]
Keys == [u \in Users |-> conn[u].cred]

IdsKept == \A u \in Users: conn'[u].id = conn[u].id
KeysKept == \A u \in Users: conn'[u].cred = conn[u].cred

LEMMA IsStutter ==
  ASSUME IdsKept, KeysKept, UNCHANGED <<created, issued, Offers, outbox>>
  PROVE  UNCHANGED Contract!contractVars
  BY DEF IdsKept, KeysKept, Contract!contractVars

LEMMA IsMake ==
  ASSUME NEW u \in Users, conn[u].id = 0, created < MaxRows, outbox[created + 1] = <<>>,
         created' = created + 1, conn'[u].id = created + 1,
         \A v \in Users \ {u}: conn'[v].id = conn[v].id, KeysKept,
         UNCHANGED <<issued, Offers, outbox>>
  PROVE  Contract!ContractNext
<1>1. Ids' = [Ids EXCEPT ![u] = created + 1] /\ UNCHANGED Keys /\ Ids[u] = 0
  BY DEF Ids, Keys, KeysKept
<1>2. Contract!Make(u)
  BY <1>1 DEF Contract!Make, Ids, Keys
<1> QED BY <1>2 DEF Contract!ContractNext

LEMMA IsPropose ==
  ASSUME NEW u \in Users, NEW r \in 1..created, NEW base \in 0..issued, issued < MaxCreds,
         issued' = issued + 1,
         Offers' = Offers \cup {[key |-> issued + 1, user |-> u, row |-> r, base |-> base]},
         IdsKept, KeysKept, UNCHANGED <<created, outbox>>
  PROVE  Contract!ContractNext
<1>1. UNCHANGED <<Ids, Keys>>
  BY DEF Ids, Keys, IdsKept, KeysKept
<1>2. Contract!Propose(u, r, base)
  BY <1>1 DEF Contract!Propose, Ids, Keys
<1> QED BY <1>2 DEF Contract!ContractNext

LEMMA IsWithdraw ==
  ASSUME NEW o \in Offers, Offers' = Offers \ {o}, IdsKept, KeysKept,
         UNCHANGED <<created, issued, outbox>>
  PROVE  Contract!ContractNext
<1>1. UNCHANGED <<Ids, Keys>>
  BY DEF Ids, Keys, IdsKept, KeysKept
<1>2. Contract!Withdraw(o)
  BY <1>1 DEF Contract!Withdraw, Ids, Keys
<1> QED BY <1>2 DEF Contract!ContractNext

LEMMA IsTake ==
  ASSUME NEW o \in Offers, NEW event \in {"connected", "refreshed"}, o.user \in Users,
         conn[o.user].id = o.row, conn[o.user].cred \in {o.base, 0},
         event = "refreshed" => o.row # 0 /\ outbox[o.row] # <<>>,
         conn'[o.user].cred = o.key, \A v \in Users \ {o.user}: conn'[v].cred = conn[v].cred,
         Offers' = Offers \ {o}, Publish(o.row, event), IdsKept, UNCHANGED <<created, issued>>
  PROVE  Contract!ContractNext
<1>1. UNCHANGED Ids /\ Keys' = [Keys EXCEPT ![o.user] = o.key]
  BY DEF Ids, Keys, IdsKept
<1>2. Ids[o.user] = o.row /\ Keys[o.user] \in {o.base, 0}
  BY DEF Ids, Keys
<1>3. event = "refreshed" => Contract!Authorized(o.user)
  BY <1>2 DEF Contract!Authorized, Ids
<1>4. Contract!Take(o, event)
  BY <1>1, <1>2, <1>3 DEF Contract!Take, Contract!Tell, Publish, Ids, Keys
<1> QED BY <1>4 DEF Contract!ContractNext

LEMMA IsReport ==
  ASSUME NEW u \in Users, NEW event \in {"error", "expired"}, conn[u].id # 0,
         outbox[conn[u].id] # <<>>, Publish(conn[u].id, event), IdsKept, KeysKept,
         UNCHANGED <<created, issued, Offers>>
  PROVE  Contract!ContractNext
<1>1. UNCHANGED <<Ids, Keys>> /\ Ids[u] = conn[u].id
  BY DEF Ids, Keys, IdsKept, KeysKept
<1>2. Contract!Report(u, event)
  BY <1>1 DEF Contract!Report, Contract!Authorized, Contract!Tell, Publish, Ids, Keys
<1> QED BY <1>2 DEF Contract!ContractNext

LEMMA IsRevoke ==
  ASSUME \A u \in Users: conn'[u].cred = 0, IdsKept,
         UNCHANGED <<created, issued, Offers, outbox>>
  PROVE  Contract!ContractNext
<1>1. UNCHANGED Ids /\ Keys' = [u \in Users |-> 0]
  BY DEF Ids, Keys, IdsKept
<1>2. Contract!Revoke
  BY <1>1 DEF Contract!Revoke, Ids, Keys
<1> QED BY <1>2 DEF Contract!ContractNext

LEMMA IsRemove ==
  ASSUME NEW u \in Users, conn[u].id # 0, conn'[u].id = 0, conn'[u].cred = 0,
         Publish(conn[u].id, "disconnected"), OthersKept(u), UNCHANGED <<created, issued, Offers>>
  PROVE  Contract!ContractNext
<1>1. Ids' = [Ids EXCEPT ![u] = 0] /\ Keys' = [Keys EXCEPT ![u] = 0] /\ Ids[u] = conn[u].id
  BY DEF Ids, Keys, OthersKept
<1>2. Contract!Remove(u)
  BY <1>1 DEF Contract!Remove, Contract!Tell, Publish, Ids, Keys
<1> QED BY <1>2 DEF Contract!ContractNext

-----------------------------------------------------------------------------
(***************************************************************************)
(* Offers                                                                  *)
(***************************************************************************)
OfferCb(c) == [key |-> cb[c].new, user |-> cb[c].user, row |-> cb[c].row, base |-> cb[c].cred]
OfferAtt(a) == [key |-> att[a].new, user |-> att[a].user, row |-> att[a].row, base |-> att[a].cred]

\* An offer is made by a callback that is about to commit or a run that has put its credential.
LEMMA OfferIs ==
  /\ \A o: o \in Offers <=>
       \/ \E c \in Callbacks: cb[c].pc = "locked" /\ o = OfferCb(c)
       \/ \E a \in Attempts: att[a].pc = "put" /\ o = OfferAtt(a)
  /\ \A o: o \in Offers' <=>
       \/ \E c \in Callbacks: cb'[c].pc = "locked" /\ o = OfferCb(c)'
       \/ \E a \in Attempts: att'[a].pc = "put" /\ o = OfferAtt(a)'
  BY DEF Offers, OfferCb, OfferAtt

\* Whoever does not change, and whoever neither has an offer nor gets one.
StillOffersCb(c) == cb[c].pc = "locked" \/ cb'[c].pc = "locked" => cb'[c] = cb[c]
StillOffersAtt(a) == att[a].pc = "put" \/ att'[a].pc = "put" => att'[a] = att[a]

LEMMA OffersKept ==
  ASSUME \A c \in Callbacks: StillOffersCb(c), \A a \in Attempts: StillOffersAtt(a)
  PROVE  UNCHANGED Offers
<1>1. \A c \in Callbacks: (cb'[c].pc = "locked" <=> cb[c].pc = "locked")
                            /\ (cb[c].pc = "locked" => OfferCb(c)' = OfferCb(c))
  BY DEF StillOffersCb, OfferCb
<1>2. \A a \in Attempts: (att'[a].pc = "put" <=> att[a].pc = "put")
                           /\ (att[a].pc = "put" => OfferAtt(a)' = OfferAtt(a))
  BY DEF StillOffersAtt, OfferAtt
<1>3. \A o: o \in Offers' <=> o \in Offers
  BY <1>1, <1>2, OfferIs
<1> QED BY <1>3

\* A new offer.
LEMMA OfferAdded ==
  ASSUME NEW o,
         \/ /\ \E c \in Callbacks: /\ cb[c].pc # "locked" /\ cb'[c].pc = "locked" /\ o = OfferCb(c)'
                                   /\ \A d \in Callbacks \ {c}: cb'[d] = cb[d]
            /\ UNCHANGED att
         \/ /\ \E a \in Attempts: /\ att[a].pc # "put" /\ att'[a].pc = "put" /\ o = OfferAtt(a)'
                                  /\ \A b \in Attempts \ {a}: att'[b] = att[b]
            /\ UNCHANGED cb
  PROVE  Offers' = Offers \cup {o}
<1>1. \A c \in Callbacks: cb'[c] = cb[c] => OfferCb(c)' = OfferCb(c)
  BY DEF OfferCb
<1>2. \A a \in Attempts: att'[a] = att[a] => OfferAtt(a)' = OfferAtt(a)
  BY DEF OfferAtt
<1>3. \A p: p \in Offers' <=> p \in Offers \/ p = o
  BY <1>1, <1>2, OfferIs
<1> QED BY <1>3

\* An offer that is taken or withdrawn: no other is of the same credential.
LEMMA OfferDropped ==
  ASSUME IInv, NEW o,
         \/ /\ \E c \in Callbacks: /\ cb[c].pc = "locked" /\ cb'[c].pc # "locked" /\ o = OfferCb(c)
                                   /\ \A d \in Callbacks \ {c}: cb'[d] = cb[d]
            /\ UNCHANGED att
         \/ /\ \E a \in Attempts: /\ att[a].pc = "put" /\ att'[a].pc # "put" /\ o = OfferAtt(a)
                                  /\ \A b \in Attempts \ {a}: att'[b] = att[b]
            /\ UNCHANGED cb
  PROVE  o \in Offers /\ Offers' = Offers \ {o}
<1>1. \A c \in Callbacks: OfferCb(c).key = cb[c].new /\ (cb'[c] = cb[c] => OfferCb(c)' = OfferCb(c))
  BY DEF OfferCb
<1>2. \A a \in Attempts: OfferAtt(a).key = att[a].new /\ (att'[a] = att[a] => OfferAtt(a)' = OfferAtt(a))
  BY DEF OfferAtt
<1>3. /\ \A c, d \in Callbacks:
           cb[c].pc = "locked" /\ cb[d].pc = "locked" /\ cb[c].new = cb[d].new => c = d
      /\ \A c \in Callbacks, a \in Attempts:
           cb[c].pc = "locked" /\ att[a].pc = "put" => cb[c].new # att[a].new
      /\ \A a, b \in Attempts:
           att[a].pc = "put" /\ att[b].pc = "put" /\ att[a].new = att[b].new => a = b
  BY DEF IInv, IncomingOK, JobsOK, Minted
<1>4. o \in Offers
  BY OfferIs
<1>5. \A p: p \in Offers' <=> p \in Offers /\ p # o
  BY <1>1, <1>2, <1>3, OfferIs
<1> QED BY <1>4, <1>5

-----------------------------------------------------------------------------
(***************************************************************************)
(* The steps of the connect flow are the contract's                        *)
(***************************************************************************)
Known == IInv /\ EventsOK /\ RecallOK /\ VersionsOK /\ ConnectedOK

ContractStep == Contract!ContractNext \/ UNCHANGED Contract!contractVars

\* issueAuthorizationRedirect makes a connection, or finds one.
LEMMA MintContract == ASSUME Known, NEW t \in Txns, AuthorizeMint(t) PROVE ContractStep
<1> DEFINE u == txn[t].user
<1>1. UNCHANGED <<cb, att, issued, outbox>>
  BY DEF AuthorizeMint, refreshVars
<1>2. UNCHANGED Offers
  BY <1>1, OffersKept DEF StillOffersCb, StillOffersAtt
<1>3. /\ TypeInv /\ created \in Nat /\ MaxRows \in Nat /\ u \in Users
      /\ conn[u].id = 0 => conn[u].cred = 0
  BY IInvTypes, Types, MintWrites, StoreAssumption DEF Known, IInv, SeatedOK, RowIds
<1>4. CASE conn[u].id # 0
  <2>1. UNCHANGED <<conn, created>>
    BY <1>3, <1>4, MintWrites
  <2> QED BY <1>1, <1>2, <2>1, IsStutter DEF IdsKept, KeysKept, ContractStep
<1>5. CASE conn[u].id = 0
  <2>1. /\ created' = created + 1 /\ conn'[u].id = created + 1 /\ conn'[u].cred = 0
        /\ OthersKept(u)
    BY <1>3, <1>5, MintWrites
  <2>2. created < MaxRows
    BY <1>3, <1>5 DEF AuthorizeMint
  <2>3. outbox[created + 1] = <<>>
    BY <1>3, <2>2 DEF Known, EventsOK, RowsOK, RowIds
  <2>4. KeysKept /\ \A v \in Users \ {u}: conn'[v].id = conn[v].id
    BY <1>3, <1>5, <2>1 DEF KeysKept, OthersKept
  <2> HIDE DEF u
  <2> QED BY <1>1, <1>2, <1>3, <1>5, <2>1, <2>2, <2>3, <2>4, IsMake DEF ContractStep
<1> QED BY <1>4, <1>5

\* A disconnect removes the user's connection, if there is one.
LEMMA DisconnectContract == ASSUME Known, NEW s \in Sessions, Disconnect(s) PROVE ContractStep
<1> DEFINE u == session[s].user
<1>1. UNCHANGED <<cb, att, issued, created>>
  BY Zenon DEF Disconnect, refreshVars
<1>2. UNCHANGED Offers
  BY <1>1, OffersKept DEF StillOffersCb, StillOffersAtt
<1>3. /\ u \in Users /\ conn'[u].id = 0 /\ conn'[u].cred = 0 /\ OthersKept(u)
      /\ conn[u].id = 0 => conn[u].cred = 0
  BY IInvTypes, DisconnectWrites DEF Known, IInv, SeatedOK, NoRow
<1>4. outbox' = IF conn[u].id # 0
                  THEN [outbox EXCEPT ![conn[u].id] = Append(@, "disconnected")] ELSE outbox
  BY Zenon DEF Disconnect
<1> HIDE DEF u
<1>5. CASE conn[u].id = 0
  <2>1. IdsKept /\ KeysKept
    BY <1>3, <1>5 DEF IdsKept, KeysKept, OthersKept
  <2> QED BY <1>1, <1>2, <1>4, <1>5, <2>1, IsStutter DEF ContractStep
<1>6. CASE conn[u].id # 0
  BY <1>1, <1>2, <1>3, <1>4, <1>6, IsRemove DEF ContractStep, Publish
<1> QED BY <1>5, <1>6

\* A callback offers the credential it was given when it has updated the row it read.
LEMMA StoreContract ==
  ASSUME Known, NEW c \in Callbacks, NEW expires \in BOOLEAN, CallbackStore(c, expires)
  PROVE  ContractStep
<1> DEFINE u == cb[c].user  r == cb[c].row  base == cb[c].cred
<1>1. UNCHANGED <<conn, att, created, outbox>> /\ issued' = issued + 1 /\ issued + 1 <= MaxCreds
      /\ cb[c].pc = "exchanging"
  BY DEF CallbackStore, refreshVars
<1>2. /\ cb'[c].pc = "locked" /\ OfferCb(c)' = [key |-> issued + 1, user |-> u, row |-> r, base |-> base]
      /\ \A d \in Callbacks \ {c}: cb'[d] = cb[d]
  <2>1. cb \in [Callbacks -> Callback]
    BY IInvTypes, Types DEF Known
  <2>2. /\ cb'[c].new = issued + 1 /\ cb'[c].user = u /\ cb'[c].row = r /\ cb'[c].cred = base
        /\ cb'[c].pc = "locked" /\ \A d \in Callbacks \ {c}: cb'[d] = cb[d]
    BY <2>1 DEF CallbackStore, Callback
  <2> QED BY <2>2 DEF OfferCb
<1>3. Offers' = Offers \cup {[key |-> issued + 1, user |-> u, row |-> r, base |-> base]}
  BY <1>1, <1>2, OfferAdded
<1>4. u \in Users /\ base \in 0..issued /\ issued \in Nat /\ MaxCreds \in Nat
  <2>1. Told(c) /\ base \in 0..MaxCreds /\ issued \in Nat /\ MaxCreds \in Nat /\ u \in Users
    BY <1>1, Ranges DEF Known, Told, Working
  <2>2. base # 0 => base <= issued
    BY <2>1 DEF Known, IInv, SeatedOK, Seated
  <2> QED BY <2>1, <2>2
<1>5. r \in 1..created
  <2>1. r \in Nat /\ created \in Nat /\ r <= created
    BY IInvTypes, Types DEF Known, RecallOK, Callback, RowIds
  <2>2. r # 0
    BY <1>1 DEF Known, ConnectedOK, Told
  <2> QED BY <2>1, <2>2
<1>6. IdsKept /\ KeysKept /\ issued < MaxCreds
  BY <1>1, <1>4 DEF IdsKept, KeysKept
<1> HIDE DEF u, r, base
<1> QED BY <1>1, <1>3, <1>4, <1>5, <1>6, IsPropose DEF ContractStep

\* Its commit takes the offer.
LEMMA CommitContract == ASSUME Known, NEW c \in Callbacks, CallbackCommit(c) PROVE ContractStep
<1> DEFINE o == OfferCb(c)
<1>1. cb[c].pc = "locked" /\ Publish(cb[c].row, "connected")
  BY Zenon DEF CallbackCommit
<1>2. UNCHANGED <<att, created, issued>> /\ cb' = [cb EXCEPT ![c] = IdleCallback]
  BY Zenon DEF CallbackCommit, refreshVars
<1>3. TypeInv /\ cb \in [Callbacks -> Callback]
  BY IInvTypes, Types DEF Known
<1>4. /\ cb[c].user \in Users /\ conn'[cb[c].user].cred = cb[c].new /\ OthersKept(cb[c].user)
      /\ conn'[cb[c].user].id = conn[cb[c].user].id
  BY <1>3, CommitWrites
<1>5. IsRow(cb[c].user, cb[c].row) /\ conn[cb[c].user].cred \in {cb[c].cred, 0}
  BY <1>1 DEF Known, IInv, LocksOK, VersionsOK, Told, Read
<1>6. o \in Offers /\ Offers' = Offers \ {o}
  <2>1. cb'[c].pc # "locked" /\ \A d \in Callbacks \ {c}: cb'[d] = cb[d]
    BY <1>2, <1>3 DEF IdleCallback
  <2> QED BY <1>1, <1>2, <2>1, OfferDropped DEF Known
<1>7. o.key = cb[c].new /\ o.user = cb[c].user /\ o.row = cb[c].row /\ o.base = cb[c].cred
  BY DEF OfferCb
<1> HIDE DEF o
<1>8. /\ o.user \in Users /\ conn[o.user].id = o.row /\ conn[o.user].cred \in {o.base, 0}
      /\ conn'[o.user].cred = o.key /\ \A v \in Users \ {o.user}: conn'[v].cred = conn[v].cred
      /\ Publish(o.row, "connected") /\ IdsKept
  BY <1>1, <1>4, <1>5, <1>7 DEF IsRow, OthersKept, IdsKept
<1> QED BY <1>2, <1>6, <1>8, IsTake DEF ContractStep

\* A callback that ends otherwise withdraws its offer, if it had made one.
LEMMA EndContract ==
  ASSUME Known, NEW c \in Callbacks, cb' = [cb EXCEPT ![c] = IdleCallback], IdsKept, KeysKept,
         UNCHANGED <<att, created, issued, outbox>>
  PROVE  ContractStep
<1>1. cb'[c].pc = "idle" /\ \A d \in Callbacks \ {c}: cb'[d] = cb[d]
  BY IInvTypes, Types DEF Known, IdleCallback
<1>2. CASE cb[c].pc = "locked"
  <2>1. OfferCb(c) \in Offers /\ Offers' = Offers \ {OfferCb(c)}
    BY <1>1, <1>2, OfferDropped DEF Known
  <2> QED BY <2>1, IsWithdraw DEF ContractStep
<1>3. CASE cb[c].pc # "locked"
  <2>1. UNCHANGED Offers
    BY <1>1, <1>3, OffersKept DEF StillOffersCb, StillOffersAtt
  <2> QED BY <2>1, IsStutter DEF ContractStep
<1> QED BY <1>2, <1>3

LEMMA CallbackContract == ASSUME Known, NEW c \in Callbacks, CallbackStep(c) PROVE ContractStep
<1>0. TypeInv /\ cb \in [Callbacks -> Callback]
  BY IInvTypes, Types DEF Known
<1>1. ASSUME CallbackRefused(c) \/ CallbackNoToken(c) \/ CallbackConflict(c) \/ CallbackAbort(c)
      PROVE  ContractStep
  <2>1. cb' = [cb EXCEPT ![c] = IdleCallback]
    BY Zenon, <1>1 DEF CallbackRefused, CallbackNoToken, CallbackConflict, CallbackAbort
  <2>2. UNCHANGED <<conn, att, created, issued, outbox>>
    BY <1>1 DEF CallbackRefused, CallbackNoToken, CallbackConflict, CallbackAbort, storeVars, refreshVars
  <2> QED BY <2>1, <2>2, EndContract DEF IdsKept, KeysKept
<1>2. ASSUME CallbackFail(c) PROVE ContractStep
  <2>1. cb' = [cb EXCEPT ![c] = IdleCallback] /\ UNCHANGED <<att, created, issued, outbox>>
    BY Zenon, <1>2 DEF CallbackFail, refreshVars
  <2>2. IdsKept /\ KeysKept
    BY <1>0, <1>2, FailWrites DEF IdsKept, KeysKept
  <2> QED BY <2>1, <2>2, EndContract
<1>3. ASSUME CallbackBegin(c) PROVE ContractStep
  <2>1. UNCHANGED <<conn, att, created, issued, outbox>> /\ cb[c].pc = "consumed"
    BY Zenon, <1>3 DEF CallbackBegin, storeVars, refreshVars
  <2>2. cb'[c].pc = "exchanging" /\ \A d \in Callbacks \ {c}: cb'[d] = cb[d]
    BY <1>0, <1>3 DEF CallbackBegin, Callback
  <2>3. UNCHANGED Offers
    BY <2>1, <2>2, OffersKept DEF StillOffersCb, StillOffersAtt
  <2> QED BY <2>1, <2>3, IsStutter DEF IdsKept, KeysKept, ContractStep
<1> QED BY <1>1, <1>2, <1>3, StoreContract, CommitContract DEF CallbackStep

LEMMA AuthContract == ASSUME Known, AuthNext PROVE ContractStep
<1>0. cb \in [Callbacks -> Callback]
  BY IInvTypes, Types DEF Known
<1>1. ASSUME UNCHANGED <<conn, att, created, issued, outbox, cb>> PROVE ContractStep
  <2>1. UNCHANGED Offers
    BY <1>1, OffersKept DEF StillOffersCb, StillOffersAtt
  <2> QED BY <1>1, <2>1, IsStutter DEF IdsKept, KeysKept, ContractStep
<1>2. ASSUME NEW c \in Callbacks, NEW t \in Txns, CallbackConsume(c, t) PROVE ContractStep
  <2>1. UNCHANGED <<conn, att, created, issued, outbox>> /\ cb[c].pc = "idle"
    BY Zenon, <1>2 DEF CallbackConsume, storeVars, refreshVars
  <2>2. cb'[c].pc = "consumed" /\ \A d \in Callbacks \ {c}: cb'[d] = cb[d]
    BY <1>0, <1>2 DEF CallbackConsume, IdleCallback
  <2>3. UNCHANGED Offers
    BY <2>1, <2>2, OffersKept DEF StillOffersCb, StillOffersAtt
  <2> QED BY <2>1, <2>3, IsStutter DEF IdsKept, KeysKept, ContractStep
<1>3. ASSUME NEW s \in Sessions,
             DisconnectLoad(s) \/ DisconnectAbort(s) \/ SessionEnds(s)
               \/ StepUpEnds(s) \/ \E u \in Users, stepUp \in BOOLEAN: CreateSession(s, u, stepUp)
      PROVE  UNCHANGED <<conn, att, created, issued, outbox, cb>>
  BY Zenon, <1>3 DEF DisconnectLoad, DisconnectAbort, SessionEnds, StepUpEnds, CreateSession,
                     storeVars, refreshVars
<1>4. ASSUME NEW t \in Txns, StateLapses(t) \/ \E s \in Sessions: AuthorizeLoad(t, s)
      PROVE  UNCHANGED <<conn, att, created, issued, outbox, cb>>
  BY Zenon, <1>4 DEF StateLapses, AuthorizeLoad, storeVars, refreshVars
<1> QED BY <1>1, <1>2, <1>3, <1>4, MintContract, DisconnectContract, CallbackContract DEF AuthNext

-----------------------------------------------------------------------------
(***************************************************************************)
(* So are the worker's, the tenant's and the clock's                       *)
(***************************************************************************)

\* A run that neither has an offer nor makes one, while rows and outbox stay.
LEMMA RunContract ==
  ASSUME NEW a \in Attempts, att[a].pc # "put", att'[a].pc # "put",
         \A b \in Attempts \ {a}: att'[b] = att[b], IdsKept, KeysKept,
         UNCHANGED <<cb, created, issued, outbox>>
  PROVE  ContractStep
<1>1. UNCHANGED Offers
  BY OffersKept DEF StillOffersCb, StillOffersAtt
<1> QED BY <1>1, IsStutter DEF ContractStep

\* The provider's answer is offered to the row the run has leased.
LEMMA PutContract ==
  ASSUME Known, NEW a \in Attempts, NEW expires \in BOOLEAN, RefreshPut(a, expires)
  PROVE  ContractStep
<1> DEFINE u == att[a].user  r == att[a].row  base == att[a].cred
<1>1. UNCHANGED <<conn, cb, created, outbox>> /\ issued' = issued + 1 /\ issued + 1 <= MaxCreds
      /\ att[a].pc = "read"
  BY DEF RefreshPut, authVars
<1>2. /\ att'[a].pc = "put" /\ OfferAtt(a)' = [key |-> issued + 1, user |-> u, row |-> r, base |-> base]
      /\ \A b \in Attempts \ {a}: att'[b] = att[b]
  <2>1. att \in [Attempts -> Attempt]
    BY IInvTypes, Types DEF Known
  <2>2. /\ att'[a].new = issued + 1 /\ att'[a].user = u /\ att'[a].row = r /\ att'[a].cred = base
        /\ att'[a].pc = "put" /\ \A b \in Attempts \ {a}: att'[b] = att[b]
    BY <2>1 DEF RefreshPut, Attempt
  <2> QED BY <2>2 DEF OfferAtt
<1>3. Offers' = Offers \cup {[key |-> issued + 1, user |-> u, row |-> r, base |-> base]}
  BY <1>1, <1>2, OfferAdded
<1>4. u \in Users /\ base \in 0..issued /\ issued \in Nat /\ MaxCreds \in Nat
  <2>1. Busy(a) /\ base \in 0..MaxCreds /\ issued \in Nat /\ MaxCreds \in Nat /\ u \in Users
    BY <1>1, Ranges DEF Known, Busy
  <2>2. base # 0 => base <= issued
    BY <2>1 DEF Known, IInv, SeatedOK, Seated
  <2> QED BY <2>1, <2>2
<1>5. r \in 1..created
  <2>1. r \in Nat /\ created \in Nat /\ r <= created
    BY IInvTypes, Types DEF Known, RecallOK, Attempt, RowIds
  <2>2. r # 0
    BY <1>1 DEF Known, ConnectedOK, Busy
  <2> QED BY <2>1, <2>2
<1>6. IdsKept /\ KeysKept /\ issued < MaxCreds
  BY <1>1, <1>4 DEF IdsKept, KeysKept
<1> HIDE DEF u, r, base
<1> QED BY <1>1, <1>3, <1>4, <1>5, <1>6, IsPropose DEF ContractStep

\* The run that still holds the lease at the version it had read takes its offer.
LEMMA RotateContract == ASSUME Known, NEW a \in Attempts, RefreshCommit(a) PROVE ContractStep
<1> DEFINE o == OfferAtt(a)
<1>1. att[a].pc = "put" /\ Publish(att[a].row, "refreshed") /\ StillMine(a)
  BY Zenon DEF RefreshCommit
<1>2. UNCHANGED <<cb, created, issued>> /\ att' = [att EXCEPT ![a].pc = "committed"]
  BY Zenon DEF RefreshCommit, authVars
<1>3. TypeInv /\ att \in [Attempts -> Attempt]
  BY IInvTypes, Types DEF Known
<1>4. /\ att[a].user \in Users /\ conn'[att[a].user].cred = att[a].new /\ OthersKept(att[a].user)
      /\ conn'[att[a].user].id = conn[att[a].user].id
  BY <1>3, RotateWrites
<1>5. /\ IsRow(att[a].user, att[a].row) /\ conn[att[a].user].cred \in {att[a].cred, 0}
      /\ conn[att[a].user].ver = att[a].ver /\ att[a].ver > 1
  BY <1>1 DEF Known, VersionsOK, AtProvider, Read, StillMine, HoldsLock, ConnectedOK
<1>6. att[a].row # 0 /\ outbox[att[a].row] # <<>>
  BY <1>4, <1>5, VersionTells DEF Known, IsRow
<1>7. o \in Offers /\ Offers' = Offers \ {o}
  <2>1. att'[a].pc # "put" /\ \A b \in Attempts \ {a}: att'[b] = att[b]
    BY <1>2, <1>3 DEF Attempt
  <2> QED BY <1>1, <1>2, <2>1, OfferDropped DEF Known
<1>8. o.key = att[a].new /\ o.user = att[a].user /\ o.row = att[a].row /\ o.base = att[a].cred
  BY DEF OfferAtt
<1> HIDE DEF o
<1>9. /\ o.user \in Users /\ conn[o.user].id = o.row /\ conn[o.user].cred \in {o.base, 0}
      /\ o.row # 0 /\ outbox[o.row] # <<>>
      /\ conn'[o.user].cred = o.key /\ \A v \in Users \ {o.user}: conn'[v].cred = conn[v].cred
      /\ Publish(o.row, "refreshed") /\ IdsKept
  BY <1>1, <1>4, <1>5, <1>6, <1>8 DEF IsRow, OthersKept, IdsKept
<1> QED BY <1>2, <1>7, <1>9, IsTake DEF ContractStep

\* A run whose credential was not taken, or that died with it in the store, withdraws its offer.
LEMMA LoseContract ==
  ASSUME Known, NEW a \in Attempts, att[a].pc = "put",
         att' = [att EXCEPT ![a] = IdleAttempt] \/ att' = [att EXCEPT ![a].pc = "dropped"],
         IdsKept, KeysKept, UNCHANGED <<cb, created, issued, outbox>>
  PROVE  ContractStep
<1>1. att'[a].pc # "put" /\ \A b \in Attempts \ {a}: att'[b] = att[b]
  BY IInvTypes, Types DEF Known, IdleAttempt, Attempt
<1>2. OfferAtt(a) \in Offers /\ Offers' = Offers \ {OfferAtt(a)}
  BY <1>1, OfferDropped DEF Known
<1> QED BY <1>2, IsWithdraw DEF ContractStep

\* A permanent failure is reported of a connection that was authorized, or not at all.
LEMMA FailContract == ASSUME Known, NEW a \in Attempts, RefreshFail(a) PROVE ContractStep
<1> DEFINE u == att[a].user
<1>0. TypeInv /\ att \in [Attempts -> Attempt]
  BY IInvTypes, Types DEF Known
<1>1. UNCHANGED <<cb, created, issued>> /\ att' = [att EXCEPT ![a] = IdleAttempt]
      /\ att[a].pc \in {"acquired", "read"}
  BY Zenon DEF RefreshFail, authVars
<1>2. att'[a].pc # "put" /\ \A b \in Attempts \ {a}: att'[b] = att[b]
  BY <1>0, <1>1 DEF IdleAttempt
<1>3. CASE ~HoldsLock(a)
  <2>1. UNCHANGED <<conn, outbox>>
    BY <1>0, <1>3, FailedWrites
  <2> QED BY <1>1, <1>2, <2>1, RunContract DEF IdsKept, KeysKept
<1>4. CASE HoldsLock(a)
  <2>1. Publish(att[a].row, "error")
    BY Zenon, <1>4 DEF RefreshFail
  <2>2. /\ u \in Users /\ conn'[u].id = conn[u].id /\ conn'[u].cred = conn[u].cred /\ OthersKept(u)
    BY <1>0, <1>4, FailedWrites
  <2>3. IsRow(u, att[a].row) /\ AtProvider(a)
    BY <1>1, <1>4 DEF HoldsLock, AtProvider
  <2>4. conn[u].ver > 1
    <3>1. att[a].ver <= conn[u].ver /\ att[a].ver > 1
      BY <2>3 DEF Known, VersionsOK, Read, ConnectedOK
    <3>2. att[a].ver \in Nat /\ conn[u].ver \in Nat
      BY <1>0, <2>2, Types DEF Attempt, Row
    <3> QED BY <3>1, <3>2
  <2>5. UNCHANGED Offers
    BY <1>1, <1>2, OffersKept DEF StillOffersCb, StillOffersAtt
  <2> HIDE DEF u
  <2>6. conn[u].id = att[a].row /\ conn[u].id # 0 /\ outbox[conn[u].id] # <<>>
    BY <2>2, <2>3, <2>4, VersionTells DEF Known, IsRow
  <2>7. IdsKept /\ KeysKept
    BY <2>2 DEF IdsKept, KeysKept, OthersKept
  <2> QED BY <1>1, <2>1, <2>2, <2>5, <2>6, <2>7, IsReport DEF ContractStep
<1> QED BY <1>3, <1>4

\* So is the passing of an expiry.
LEMMA MarkContract == ASSUME Known, NEW u \in Users, SweepMark(u) PROVE ContractStep
<1>1. UNCHANGED <<cb, att, created, issued>>
  BY Zenon DEF SweepMark, authVars
<1>2. UNCHANGED Offers
  BY <1>1, OffersKept DEF StillOffersCb, StillOffersAtt
<1>3. CASE ~IsAsSeen(u)
  <2>1. UNCHANGED <<conn, outbox>>
    BY <1>3, IInvTypes, MarkWrites DEF Known
  <2> QED BY <1>1, <1>2, <2>1, IsStutter DEF IdsKept, KeysKept, ContractStep
<1>4. CASE IsAsSeen(u)
  <2>1. Publish(seen[u].id, "expired") /\ seen[u].id = conn[u].id /\ conn[u].id # 0
        /\ conn[u].ver = seen[u].ver
    BY <1>4 DEF SweepMark, IsAsSeen, IsRow
  <2>2. outbox[conn[u].id] # <<>>
    BY <2>1, VersionTells DEF Known, ConnectedOK
  <2>3. IdsKept /\ KeysKept
    BY <1>4, IInvTypes, MarkWrites DEF Known, IdsKept, KeysKept, OthersKept
  <2> QED BY <1>1, <1>2, <2>1, <2>2, <2>3, IsReport DEF ContractStep
<1> QED BY <1>3, <1>4

LEMMA RefreshContract == ASSUME Known, RefreshNext PROVE ContractStep
<1>0. /\ TypeInv /\ att \in [Attempts -> Attempt]
      /\ UNCHANGED <<cb, created>>
  BY IInvTypes, Types, RefreshFrame DEF Known
<1>1. ASSUME UNCHANGED conn PROVE IdsKept /\ KeysKept
  BY <1>1 DEF IdsKept, KeysKept
<1>2. ASSUME \/ \E a \in Attempts: RefreshRetry(a) \/ \E k \in 1..MaxCreds: RefreshAcquire(a, k)
             \/ \E u \in Users: LeaseLapses(u)
      PROVE  IdsKept /\ KeysKept
  BY <1>0, <1>2, LeaseWrites DEF IdsKept, KeysKept
<1>3. ASSUME UNCHANGED <<att, issued, outbox>>, IdsKept, KeysKept PROVE ContractStep
  <2>1. UNCHANGED Offers
    BY <1>0, <1>3, OffersKept DEF StillOffersCb, StillOffersAtt
  <2> QED BY <1>0, <1>3, <2>1, IsStutter DEF ContractStep
<1>4. ASSUME NEW a \in Attempts, att' = [att EXCEPT ![a] = IdleAttempt], UNCHANGED <<issued, outbox>>,
             IdsKept, KeysKept
      PROVE  ContractStep
  <2>1. att'[a].pc # "put" /\ \A b \in Attempts \ {a}: att'[b] = att[b]
    BY <1>0, <1>4 DEF IdleAttempt
  <2>2. CASE att[a].pc = "put"
    BY <1>0, <1>4, <2>2, LoseContract
  <2>3. CASE att[a].pc # "put"
    BY <1>0, <1>4, <2>1, <2>3, RunContract
  <2> QED BY <2>2, <2>3
<1>5. ASSUME NEW a \in Attempts, RefreshRetry(a) PROVE ContractStep
  <2>1. att' = [att EXCEPT ![a] = IdleAttempt] /\ UNCHANGED <<issued, outbox>>
    BY Zenon, <1>5 DEF RefreshRetry
  <2> QED BY <1>2, <1>4, <1>5, <2>1
<1>6. ASSUME NEW a \in Attempts, RefreshDone(a) \/ RefreshThrows(a) \/ RefreshCrash(a)
      PROVE  ContractStep
  <2>1. att' = [att EXCEPT ![a] = IdleAttempt] /\ UNCHANGED <<conn, issued, outbox>>
    BY Zenon, <1>6 DEF RefreshDone, RefreshThrows, RefreshCrash
  <2> QED BY <1>1, <1>4, <2>1
<1>7. ASSUME NEW a \in Attempts, NEW pc \in {"read", "deleted"}, att[a].pc # "put",
             att' = [att EXCEPT ![a].pc = pc], UNCHANGED <<conn, issued, outbox>>
      PROVE  ContractStep
  <2>1. att'[a].pc # "put" /\ \A b \in Attempts \ {a}: att'[b] = att[b]
    BY <1>0, <1>7 DEF Attempt
  <2> QED BY <1>0, <1>1, <1>7, <2>1, RunContract
<1>8. ASSUME NEW a \in Attempts, RefreshRead(a) PROVE ContractStep
  BY <1>7, <1>8 DEF RefreshRead, storeVars
<1>9. ASSUME NEW a \in Attempts, RefreshDeleteOld(a) PROVE ContractStep
  BY <1>7, <1>9 DEF RefreshDeleteOld
<1>10. ASSUME NEW a \in Attempts, NEW k \in 1..MaxCreds, RefreshAcquire(a, k) PROVE ContractStep
  <2>1. att[a].pc # "put" /\ UNCHANGED <<issued, outbox>> /\ \A b \in Attempts \ {a}: att'[b] = att[b]
    BY Zenon, <1>0, <1>10 DEF RefreshAcquire
  <2>2. att'[a].pc # "put"
    BY <1>0, <1>10 DEF RefreshAcquire, IdleAttempt
  <2> QED BY <1>0, <1>2, <1>10, <2>1, <2>2, RunContract
<1>11. ASSUME NEW u \in Users, LeaseLapses(u) PROVE ContractStep
  <2>1. UNCHANGED <<att, issued, outbox>>
    BY Zenon, <1>11 DEF LeaseLapses
  <2> QED BY <1>2, <1>3, <1>11, <2>1
<1>12. ASSUME SweepSelect \/ \E k \in 1..MaxCreds: RefreshSkip(k) PROVE ContractStep
  <2>1. UNCHANGED <<conn, att, issued, outbox>>
    BY Zenon, <1>12 DEF SweepSelect, RefreshSkip, storeVars, refreshVars
  <2> QED BY <1>1, <1>3, <2>1
<1>14. ASSUME NEW a \in Attempts, RefreshLost(a) \/ RefreshCommitFails(a) PROVE ContractStep
  <2>1. /\ att[a].pc = "put" /\ att' = [att EXCEPT ![a].pc = "dropped"]
        /\ UNCHANGED <<conn, issued, outbox>>
    BY <1>14, DropWrites
  <2> QED BY <1>0, <1>1, <2>1, LoseContract
<1>13. ASSUME NEW a \in Attempts, RefreshStep(a) PROVE ContractStep
  BY <1>5, <1>6, <1>8, <1>9, <1>13, <1>14, FailContract, PutContract, RotateContract
     DEF RefreshStep
<1> QED BY <1>10, <1>11, <1>12, <1>13, MarkContract DEF RefreshNext

\* A policy change revokes every credential; nothing else there, and no passing of time, is seen.
LEMMA PolicyContract ==
  ASSUME Known, PolicyNext \/ (\E u \in Users: TokenExpires(u)) \/ UNCHANGED vars
  PROVE  ContractStep
<1>0. /\ TypeInv /\ UNCHANGED <<cb, att, created, issued, outbox>>
      /\ \A u \in Users: conn[u].id = 0 => conn[u].cred = 0
  BY IInvTypes, PolicyFrame DEF Known, IInv, SeatedOK
<1>1. UNCHANGED Offers
  BY <1>0, OffersKept DEF StillOffersCb, StillOffersAtt
<1>2. ASSUME IdsKept, KeysKept PROVE ContractStep
  BY <1>0, <1>1, <1>2, IsStutter DEF ContractStep
<1>3. ASSUME UNCHANGED conn PROVE ContractStep
  BY <1>2, <1>3 DEF IdsKept, KeysKept
<1>4. ASSUME NEW u \in Users, TokenExpires(u) PROVE ContractStep
  BY <1>0, <1>2, <1>4, LeaseWrites DEF IdsKept, KeysKept
<1>5. ASSUME PolicyCommit PROVE ContractStep
  <2>1. CASE ~adm.found
    BY <1>0, <1>3, <1>5, <2>1, PolicyWrites
  <2>2. CASE adm.found
    <3>1. IdsKept /\ \A u \in Users: conn'[u].cred = 0
      BY <1>0, <1>5, <2>2, PolicyWrites DEF IdsKept
    <3> QED BY <1>0, <1>1, <3>1, IsRevoke DEF ContractStep
  <2> QED BY <2>1, <2>2
<1>6. ASSUME SetEnabled \/ (\E p \in Policies: PolicySelect(p)) \/ PolicyAbort \/ UNCHANGED vars
      PROVE  UNCHANGED conn
  BY <1>6 DEF SetEnabled, PolicySelect, PolicyAbort, storeVars, vars
<1> QED BY <1>3, <1>4, <1>5, <1>6 DEF PolicyNext

-----------------------------------------------------------------------------
(***************************************************************************)
(* The refinement                                                          *)
(***************************************************************************)

LEMMA ContractStarts == Init => Contract!ContractInit
<1> SUFFICES ASSUME Init PROVE Contract!ContractInit
  OBVIOUS
<1>1. /\ conn = [u \in Users |-> NoRow] /\ outbox = [r \in RowIds |-> <<>>]
      /\ created = 0 /\ issued = 0
      /\ cb = [c \in Callbacks |-> IdleCallback] /\ att = [a \in Attempts |-> IdleAttempt]
  BY DEF Init, StoreInit, AuthInit, RefreshInit
<1>2. /\ \A u \in Users: conn[u].id = 0 /\ conn[u].cred = 0
      /\ \A c \in Callbacks: cb[c].pc = "idle"
      /\ \A a \in Attempts: att[a].pc = "idle"
  BY <1>1 DEF NoRow, IdleCallback, IdleAttempt
<1>3. Ids = [u \in Users |-> 0] /\ Keys = [u \in Users |-> 0]
  BY <1>2 DEF Ids, Keys
<1>4. Offers = {}
  BY <1>2, OfferIs
<1> QED BY <1>1, <1>3, <1>4 DEF Contract!ContractInit, Ids, Keys, RowIds

LEMMA ContractSteps ==
  IInv /\ RecordIInv /\ TaleIInv /\ [Next]_vars => [Contract!ContractNext]_(Contract!contractVars)
<1> SUFFICES ASSUME IInv, RecordIInv, TaleIInv, [Next]_vars PROVE ContractStep
  BY DEF ContractStep
<1>1. Known
  BY DEF Known, RecordIInv, EventsOK, TaleIInv
<1> QED BY <1>1, AuthContract, RefreshContract, PolicyContract DEF Next

\* Whatever handlers, jobs, sweeps and policy changes overlap, what is seen of the connections is a
\* compare-and-swap register each: a credential is drawn for one connection on the strength of the
\* one it had, taken once, with its event, or withdrawn (routes/oauth.ts, token-refresh.ts).
THEOREM LifecycleKeepsContract == Spec => KeepsContract
<1>1. Init => Contract!ContractInit
  BY ContractStarts
<1>2. IInv /\ RecordIInv /\ TaleIInv /\ [Next]_vars => [Contract!ContractNext]_(Contract!contractVars)
  BY ContractSteps
<1> QED BY <1>1, <1>2, TaleInvariance, PTL DEF Spec, KeepsContract, Contract!ContractSpec

-----------------------------------------------------------------------------
(***************************************************************************)
(* What the contract gives: a spent credential stays spent                 *)
(***************************************************************************)

\* A credential is on its way somewhere exactly when it is offered.
LEMMA IncomingIsOffered ==
  ASSUME NEW k
  PROVE  /\ Incoming(k) <=> \E o \in Offers: o.key = k
         /\ Incoming(k)' <=> \E o \in Offers': o.key = k
<1>1. /\ \A c \in Callbacks: OfferCb(c).key = cb[c].new /\ OfferCb(c)'.key = cb'[c].new
      /\ \A a \in Attempts: OfferAtt(a).key = att[a].new /\ OfferAtt(a)'.key = att'[a].new
  BY DEF OfferCb, OfferAtt
<1> QED BY <1>1, OfferIs DEF Incoming

\* An offer and what a connection has come from credentials drawn before, so a step of the contract
\* brings no spent one back: it draws a later one, or puts an offered one where it was offered.
LEMMA SpentStep == ASSUME IInv, ContractStep PROVE SpentOnesStay
<1> SUFFICES ASSUME NEW k \in 1..MaxCreds, Spent(k) PROVE Spent(k)'
  BY DEF SpentOnesStay
<1>0. issued \in Nat /\ k \in Nat /\ MaxCreds \in Nat /\ k # 0
  BY Ranges
<1>1. /\ k <= issued /\ \A o \in Offers: o.key # k
      /\ \A u \in Users: Keys[u] # k
  BY IncomingIsOffered DEF Spent, Keys
<1> DEFINE Still == /\ k <= issued' /\ \A o \in Offers': o.key # k
                   /\ \A u \in Users: Keys'[u] # k
<1>2. Still => Spent(k)'
  BY IncomingIsOffered DEF Spent, Keys
<1>3. ASSUME UNCHANGED <<Keys, issued>>, Offers' \subseteq Offers PROVE Still
  BY <1>1, <1>3
<1>4. ASSUME NEW u \in Users, Contract!Make(u) \/ Contract!Remove(u) PROVE Still
  <2>1. UNCHANGED <<issued, Offers>>
    BY Zenon, <1>4 DEF Contract!Make, Contract!Remove
  <2>2. UNCHANGED Keys \/ Keys' = [Keys EXCEPT ![u] = 0]
    BY Zenon, <1>4 DEF Contract!Make, Contract!Remove, Keys
  <2>3. \A v \in Users: Keys'[v] # k
    BY <1>0, <1>1, <2>2 DEF Keys
  <2> QED BY <1>1, <2>1, <2>3
<1>5. ASSUME NEW u \in Users, NEW r, NEW base, Contract!Propose(u, r, base) PROVE Still
  <2>1. /\ UNCHANGED Keys /\ issued' = issued + 1
        /\ Offers' = Offers \cup {[key |-> issued + 1, user |-> u, row |-> r, base |-> base]}
    BY Zenon, <1>5 DEF Contract!Propose, Keys
  <2>2. k <= issued' /\ k # issued + 1
    BY <1>0, <1>1, <2>1
  <2> QED BY <1>1, <2>1, <2>2
<1>6. ASSUME NEW o \in Offers, Contract!Withdraw(o) PROVE Still
  BY <1>3, <1>6 DEF Contract!Withdraw, Keys
<1>7. ASSUME NEW o \in Offers, NEW event, Contract!Take(o, event) PROVE Still
  <2>1. UNCHANGED issued /\ Offers' = Offers \ {o} /\ Keys' = [Keys EXCEPT ![o.user] = o.key]
    BY Zenon, <1>7 DEF Contract!Take, Keys
  <2>2. \A v \in Users: Keys'[v] # k
    BY <1>1, <2>1 DEF Keys
  <2> QED BY <1>1, <2>1, <2>2
<1>8. ASSUME NEW u \in Users, NEW event, Contract!Report(u, event) PROVE Still
  BY <1>3, <1>8 DEF Contract!Report, Keys
<1>9. ASSUME Contract!Revoke PROVE Still
  <2>1. UNCHANGED <<issued, Offers>> /\ Keys' = [u \in Users |-> 0]
    BY Zenon, <1>9 DEF Contract!Revoke, Keys
  <2> QED BY <1>0, <1>1, <2>1
<1>10. ASSUME UNCHANGED Contract!contractVars PROVE Still
  BY <1>3, <1>10 DEF Contract!contractVars, Keys
<1> HIDE DEF Still
<1>11. Still
  BY <1>4, <1>5, <1>6, <1>7, <1>8, <1>9, <1>10 DEF ContractStep, Contract!ContractNext
<1> QED BY <1>2, <1>11

\* A credential that was replaced, revoked, refused or removed is in no connection ever after, and
\* nobody is about to put it there (secrets.delete in oauth.ts and token-refresh.ts).
THEOREM SpentStaysSpentHolds == Spec => SpentStaysSpent
<1>1. IInv /\ RecordIInv /\ TaleIInv /\ [Next]_vars => [SpentOnesStay]_vars
  BY ContractSteps, SpentStep DEF ContractStep
<1> QED BY <1>1, TaleInvariance, PTL DEF Spec, SpentStaysSpent
=============================================================================
