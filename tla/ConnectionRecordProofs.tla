----------------------- MODULE ConnectionRecordProofs -----------------------
(***************************************************************************)
(* What the outbox records of the rows of ConnectionLifecycle, for every   *)
(* value of its constants: a version counts the events about its row, and  *)
(* "disconnected" is the last of them.                                     *)
(*                                                                         *)
(* A step does one of four things to the rows (RowStep): it leaves their   *)
(* ids and versions alone, bumps the version of one with its event,        *)
(* removes one, or inserts one under a fresh id.                           *)
(***************************************************************************)
EXTENDS ConnectionSafetyProofs

\* Ids and versions stay; a credential may be taken away, an expiry may pass.
Stays ==
  /\ \A u \in Users:
       /\ conn'[u].id = conn[u].id
       /\ conn[u].id # 0 =>
            /\ conn'[u].ver = conn[u].ver
            /\ conn'[u].cred \in {conn[u].cred, 0}
            /\ conn'[u].exp \in {conn[u].exp, "past"}
  /\ UNCHANGED <<outbox, created>>

\* One row is written at a new version, by a writer that nobody's row lock stops, with its event.
Bumps(u) ==
  /\ conn[u].id # 0 /\ conn'[u].id = conn[u].id /\ conn'[u].ver = conn[u].ver + 1
  /\ OthersKept(u)
  /\ rowLock'[u] = None
  /\ \E e \in Events \ {"disconnected"}: Publish(conn[u].id, e)
  /\ UNCHANGED created

\* One row is deleted, with its event.
Goes(u) ==
  /\ conn[u].id # 0 /\ conn'[u].id = 0
  /\ OthersKept(u)
  /\ rowLock'[u] = None
  /\ Publish(conn[u].id, "disconnected")
  /\ UNCHANGED created

\* One row is inserted.
Comes(u) ==
  /\ conn[u].id = 0 /\ conn'[u].id = created + 1 /\ conn'[u].ver = 1
  /\ OthersKept(u)
  /\ created' = created + 1
  /\ UNCHANGED outbox

RowStep == Stays \/ \E u \in Users: Bumps(u) \/ Goes(u) \/ Comes(u)

\* A step that changes no row.
LEMMA KeptStays == UNCHANGED <<conn, outbox, created>> => Stays
  BY DEF Stays

-----------------------------------------------------------------------------
(***************************************************************************)
(* What the actions do to the rows                                         *)
(***************************************************************************)

\* issueAuthorizationRedirect inserts a row where there is none.
LEMMA MintRow == ASSUME IInv, NEW t \in Txns, AuthorizeMint(t) PROVE RowStep
<1> DEFINE u == txn[t].user
<1>1. conn \in [Users -> Row] /\ u \in Users
  BY IInvTypes, Types DEF IInv, Attributed, AuthorizeMint
<1>2. CASE conn[u].id # 0
  BY <1>2, KeptStays DEF AuthorizeMint, RowStep
<1>3. CASE conn[u].id = 0
  <2>1. /\ conn' = [conn EXCEPT ![u] = [NoRow EXCEPT !.id = created + 1, !.status = "pending",
                                                     !.ver = 1]]
        /\ created' = created + 1 /\ UNCHANGED outbox
    BY <1>3 DEF AuthorizeMint
  <2>2. conn'[u].id = created + 1 /\ conn'[u].ver = 1 /\ OthersKept(u)
    BY <1>1, <2>1 DEF NoRow, OthersKept
  <2> QED BY <1>1, <1>3, <2>1, <2>2 DEF Comes, RowStep
<1> QED BY <1>2, <1>3

\* The callback's commit bumps the version of the row it has locked.
LEMMA CommitRow == ASSUME IInv, NEW c \in Callbacks, CallbackCommit(c) PROVE RowStep
<1> DEFINE u == cb[c].user
<1>0. conn \in [Users -> Row] /\ rowLock \in [Users -> Callbacks \cup {None}]
  BY IInvTypes, Types
<1>1. u \in Users /\ IsRow(u, cb[c].row)
  BY Ranges DEF IInv, LocksOK, Working, CallbackCommit
<1>2. /\ conn'[u].id = conn[u].id /\ conn'[u].ver = conn[u].ver + 1
      /\ OthersKept(u)
  <2> DEFINE row == [conn[u] EXCEPT !.status = "connected", !.cred = cb[c].new,
                       !.exp = IF cb[c].expires THEN "ahead" ELSE "none", !.ver = @ + 1]
  <2>1. conn' = [conn EXCEPT ![u] = row]
    BY <1>0, <1>1 DEF CallbackCommit
  <2>2. row.id = conn[u].id /\ row.ver = conn[u].ver + 1
    BY <1>0, <1>1 DEF Row
  <2> HIDE DEF row, u
  <2> QED BY <1>0, <1>1, <2>1, <2>2 DEF OthersKept
<1>3. rowLock'[u] = None /\ Publish(conn[u].id, "connected") /\ UNCHANGED created
  BY <1>0, <1>1 DEF CallbackCommit, IsRow
<1>4. Bumps(u)
  BY <1>1, <1>2, <1>3 DEF Bumps, Events, IsRow
<1> QED BY <1>1, <1>4 DEF RowStep

\* A disconnect deletes the row; nobody holds its lock (Pinned).
LEMMA DisconnectRow == ASSUME IInv, NEW s \in Sessions, Disconnect(s) PROVE RowStep
<1> DEFINE u == session[s].user
<1>0. /\ conn \in [Users -> Row] /\ u \in Users
      /\ rowLock \in [Users -> Callbacks \cup {None}]
  BY IInvTypes, Types DEF IInv, Attributed, Disconnect
<1>1. conn'[u] = NoRow /\ OthersKept(u) /\ UNCHANGED <<created, rowLock>>
  BY <1>0 DEF Disconnect, OthersKept
<1>2. CASE conn[u].id = 0
  <2>1. UNCHANGED outbox /\ conn'[u].id = 0
    BY <1>1, <1>2 DEF Disconnect, NoRow
  <2>2. Stays
    BY <1>1, <1>2, <2>1 DEF Stays, OthersKept
  <2> QED BY <2>2 DEF RowStep
<1>3. CASE conn[u].id # 0
  <2>1. conn'[u].id = 0 /\ Publish(conn[u].id, "disconnected")
    BY <1>1, <1>3 DEF Disconnect, NoRow, Publish
  <2>2. rowLock[u] = None
    BY <1>0, <1>3 DEF IInv, LocksOK, IsRow, Disconnect, Pinned
  <2>3. Goes(u)
    BY <1>1, <1>3, <2>1, <2>2 DEF Goes
  <2> QED BY <1>0, <2>3 DEF RowStep
<1> QED BY <1>2, <1>3

\* What the connect flow does to the rows.
LEMMA AuthRows == ASSUME IInv, AuthNext PROVE RowStep
<1>conn. conn \in [Users -> Row]
  BY IInvTypes, Types
<1>1. ASSUME NEW s \in Sessions, Disconnect(s) PROVE RowStep
  BY <1>1, DisconnectRow
<1>2. ASSUME NEW t \in Txns, AuthorizeMint(t) PROVE RowStep
  BY <1>2, MintRow
<1>3. ASSUME NEW c \in Callbacks, CallbackCommit(c) PROVE RowStep
  BY <1>3, CommitRow
<1>4. ASSUME NEW c \in Callbacks, CallbackFail(c) PROVE Stays
  BY <1>4, <1>conn DEF CallbackFail, Stays, Row
<1>5. ASSUME NEW s \in Sessions,
             DisconnectLoad(s) \/ DisconnectAbort(s) \/ SessionEnds(s)
               \/ StepUpEnds(s) \/ \E u \in Users, stepUp \in BOOLEAN: CreateSession(s, u, stepUp)
      PROVE  Stays
  BY <1>5, KeptStays DEF DisconnectLoad, DisconnectAbort, SessionEnds, StepUpEnds, CreateSession,
                         storeVars
<1>6. ASSUME NEW t \in Txns,
             StateLapses(t) \/ (\E s \in Sessions: AuthorizeLoad(t, s))
               \/ (\E c \in Callbacks: CallbackConsume(c, t))
      PROVE  Stays
  BY <1>6, KeptStays DEF StateLapses, AuthorizeLoad, CallbackConsume, storeVars
<1>7. ASSUME NEW c \in Callbacks,
             CallbackRefused(c) \/ CallbackBegin(c) \/ CallbackNoToken(c) \/ CallbackConflict(c)
               \/ (\E expires \in BOOLEAN: CallbackStore(c, expires)) \/ CallbackAbort(c)
      PROVE  Stays
  BY <1>7, KeptStays DEF CallbackRefused, CallbackBegin, CallbackNoToken, CallbackConflict,
                         CallbackStore, CallbackAbort, storeVars
<1> QED BY <1>1, <1>2, <1>3, <1>4, <1>5, <1>6, <1>7 DEF AuthNext, CallbackStep, RowStep

\* A permanent failure is written, with its event, by the run that holds the lease.
LEMMA FailRow == ASSUME IInv, NEW a \in Attempts, RefreshFail(a) PROVE RowStep
<1> DEFINE u == att[a].user
<1>0. conn \in [Users -> Row] /\ u \in Users
  BY IInvTypes, Types, Ranges DEF RefreshFail, Busy
<1>1. CASE ~HoldsLock(a)
  BY <1>1, KeptStays DEF RefreshFail, RowStep
<1>2. CASE HoldsLock(a)
  <2>1. conn' = [conn EXCEPT ![u].status = "error", ![u].lock = None,
                             ![u].held = FALSE, ![u].ver = @ + 1]
        /\ Publish(conn[u].id, "error") /\ conn[u].id # 0
        /\ UNCHANGED <<created, rowLock>> /\ rowLock[u] = None
    BY <1>2 DEF RefreshFail, HoldsLock, IsRow, MayWrite
  <2>2. /\ conn'[u].id = conn[u].id /\ conn'[u].ver = conn[u].ver + 1
        /\ OthersKept(u)
    <3> HIDE DEF u
    <3> QED BY <1>0, <2>1 DEF OthersKept, Row
  <2>3. Bumps(u)
    BY <2>1, <2>2 DEF Bumps, Events
  <2> QED BY <1>0, <2>3 DEF RowStep
<1> QED BY <1>1, <1>2

\* So is a new credential.
LEMMA RotateRow == ASSUME IInv, NEW a \in Attempts, RefreshCommit(a) PROVE RowStep
<1> DEFINE u == att[a].user
<1>0. conn \in [Users -> Row] /\ u \in Users
  BY IInvTypes, Types, Ranges DEF RefreshCommit, Busy
<1>1. conn' = [conn EXCEPT ![u].cred = att[a].new, ![u].lock = None, ![u].held = FALSE,
                           ![u].exp = IF att[a].expires THEN "ahead" ELSE @, ![u].ver = @ + 1]
      /\ Publish(conn[u].id, "refreshed") /\ conn[u].id # 0
      /\ UNCHANGED <<created, rowLock>> /\ rowLock[u] = None
  BY DEF RefreshCommit, StillMine, HoldsLock, IsRow
<1>2. /\ conn'[u].id = conn[u].id /\ conn'[u].ver = conn[u].ver + 1
      /\ OthersKept(u)
  <2> HIDE DEF u
  <2> QED BY <1>0, <1>1 DEF OthersKept, Row
<1>3. Bumps(u)
  BY <1>1, <1>2 DEF Bumps, Events
<1> QED BY <1>0, <1>3 DEF RowStep

\* The sweep marks a row at the version it has seen.
LEMMA MarkRow == ASSUME IInv, NEW u \in Users, SweepMark(u) PROVE RowStep
<1>0. conn \in [Users -> Row]
  BY IInvTypes, Types
<1>1. CASE ~IsAsSeen(u)
  BY <1>1, KeptStays DEF SweepMark, RowStep
<1>2. CASE IsAsSeen(u)
  <2>1. conn' = [conn EXCEPT ![u].status = "expired", ![u].ver = seen[u].ver + 1]
        /\ Publish(conn[u].id, "expired") /\ conn[u].id # 0 /\ conn[u].ver = seen[u].ver
        /\ UNCHANGED <<created, rowLock>> /\ rowLock[u] = None
    BY <1>2 DEF SweepMark, IsAsSeen, IsRow
  <2>2. /\ conn'[u].id = conn[u].id /\ conn'[u].ver = conn[u].ver + 1
        /\ OthersKept(u)
    BY <1>0, <2>1 DEF OthersKept, Row
  <2>3. Bumps(u)
    BY <2>1, <2>2 DEF Bumps, Events
  <2> QED BY <2>3 DEF RowStep
<1> QED BY <1>1, <1>2

\* Taking and giving up a lease leave ids and versions alone.
LEMMA LeaseRow ==
  ASSUME IInv, NEW a \in Attempts,
         (\E k \in 1..MaxCreds: RefreshAcquire(a, k)) \/ RefreshRetry(a)
  PROVE  Stays
<1>0. conn \in [Users -> Row]
  BY IInvTypes, Types
<1>1. ASSUME NEW u, conn' = [conn EXCEPT ![u].lock = a, ![u].held = TRUE],
             UNCHANGED <<outbox, created>>
      PROVE  Stays
  BY <1>0, <1>1 DEF Stays, Row
<1>2. ASSUME ReleaseLock(a), UNCHANGED <<outbox, created>> PROVE Stays
  BY <1>0, <1>2 DEF ReleaseLock, Stays, Row
<1> QED BY <1>1, <1>2 DEF RefreshAcquire, RefreshRetry

\* What the worker and the sweep do to the rows.
LEMMA RefreshRows == ASSUME IInv, RefreshNext PROVE RowStep
<1>conn. conn \in [Users -> Row]
  BY IInvTypes, Types
<1>1. ASSUME NEW a \in Attempts, RefreshFail(a) \/ RefreshCommit(a) PROVE RowStep
  BY <1>1, FailRow, RotateRow
<1>2. ASSUME NEW u \in Users, SweepMark(u) PROVE RowStep
  BY <1>2, MarkRow
<1>3. ASSUME NEW a \in Attempts,
             (\E k \in 1..MaxCreds: RefreshAcquire(a, k)) \/ RefreshRetry(a)
      PROVE  Stays
  BY <1>3, LeaseRow
<1>4. ASSUME NEW u \in Users, LeaseLapses(u) PROVE Stays
  BY <1>4, <1>conn DEF LeaseLapses, Stays, Row
<1>5. ASSUME NEW a \in Attempts,
             RefreshRead(a) \/ (\E expires \in BOOLEAN: RefreshPut(a, expires))
               \/ RefreshDeleteOld(a) \/ RefreshDone(a) \/ RefreshThrows(a) \/ RefreshCrash(a)
      PROVE  Stays
  BY <1>5, KeptStays DEF RefreshRead, RefreshPut, RefreshDeleteOld, RefreshDone, RefreshThrows,
                         RefreshCrash, storeVars
<1>7. ASSUME NEW a \in Attempts, RefreshLost(a) \/ RefreshCommitFails(a) PROVE Stays
  BY <1>7, KeptStays, DropWrites
<1>6. ASSUME SweepSelect \/ \E k \in 1..MaxCreds: RefreshSkip(k) PROVE Stays
  BY <1>6, KeptStays DEF SweepSelect, RefreshSkip, storeVars
<1> QED BY <1>1, <1>2, <1>3, <1>4, <1>5, <1>6, <1>7 DEF RefreshNext, RefreshStep, RowStep

\* A policy change takes credentials and no more, and an expiry passes.
LEMMA PolicyRows == ASSUME IInv, PolicyNext \/ \E u \in Users: TokenExpires(u) PROVE Stays
<1>conn. conn \in [Users -> Row]
  BY IInvTypes, Types
<1>1. ASSUME PolicyCommit PROVE Stays
  <2>1. \A u \in Users: conn'[u] = conn[u] \/ conn'[u] = ExpiredRow(conn[u])
    BY <1>1 DEF PolicyCommit
  <2>2. \A u \in Users:
          /\ ExpiredRow(conn[u]).id = conn[u].id /\ ExpiredRow(conn[u]).ver = conn[u].ver
          /\ ExpiredRow(conn[u]).cred \in {conn[u].cred, 0}
          /\ ExpiredRow(conn[u]).exp = conn[u].exp
    BY <1>conn DEF ExpiredRow, Row
  <2> QED BY <1>1, <2>1, <2>2 DEF PolicyCommit, Stays
<1>2. ASSUME NEW u \in Users, TokenExpires(u) PROVE Stays
  BY <1>2, <1>conn DEF TokenExpires, Stays, Row
<1>3. ASSUME SetEnabled \/ (\E p \in Policies: PolicySelect(p)) \/ PolicyAbort PROVE Stays
  BY <1>3, KeptStays DEF SetEnabled, PolicySelect, PolicyAbort, storeVars
<1> QED BY <1>1, <1>2, <1>3 DEF PolicyNext

\* What a step does to the rows.
LEMMA RowSteps == ASSUME IInv, [Next]_vars PROVE RowStep
<1>1. CASE UNCHANGED vars
  BY <1>1, KeptStays DEF vars, storeVars, RowStep
<1> QED BY <1>1, AuthRows, RefreshRows, PolicyRows DEF Next, RowStep

-----------------------------------------------------------------------------
(***************************************************************************)
(* Versions and events                                                     *)
(***************************************************************************)

EventsOK == RowsOK /\ VersionCountsEvents /\ DisconnectedIsLast

\* Appending event e to the log of row r.
LEMMA Published ==
  ASSUME TypeInv, NEW r \in RowIds, NEW e \in Events, Publish(r, e)
  PROVE  /\ \A q \in RowIds \ {r}: outbox'[q] = outbox[q]
         /\ Len(outbox[r]) \in Nat /\ Len(outbox'[r]) = Len(outbox[r]) + 1
         /\ \A i \in 1..Len(outbox[r]): outbox'[r][i] = outbox[r][i]
         /\ outbox'[r][Len(outbox[r]) + 1] = e
<1>1. outbox \in [RowIds -> Seq(Events)]
  BY Types
<1>2. outbox' = [outbox EXCEPT ![r] = Append(@, e)]
  BY DEF Publish
<1>3. outbox[r] \in Seq(Events) /\ outbox'[r] = Append(outbox[r], e)
  BY <1>1, <1>2
<1> QED BY <1>1, <1>2, <1>3

\* While ids and versions stay.
LEMMA StaysEvents == ASSUME IInv, EventsOK, Stays PROVE EventsOK'
<1>1. conn \in [Users -> Row] /\ created \in RowIds
  BY IInvTypes, Types
<1>2. RowsOK'
  BY <1>1 DEF EventsOK, RowsOK, Stays
<1>3. VersionCountsEvents'
  BY <1>1 DEF EventsOK, VersionCountsEvents, Stays
<1>4. DisconnectedIsLast'
  BY DEF EventsOK, DisconnectedIsLast, Stays
<1> QED BY <1>2, <1>3, <1>4 DEF EventsOK

\* A new version comes with its event, which is not the last one.
LEMMA BumpsEvents == ASSUME IInv, EventsOK, NEW u \in Users, Bumps(u) PROVE EventsOK'
<1> DEFINE r == conn[u].id
<1>1. /\ TypeInv /\ conn \in [Users -> Row] /\ created \in RowIds /\ RowIds \subseteq Nat
      /\ created \in Nat
      /\ \A v \in Users: conn[v].id \in RowIds /\ conn[v].id \in Nat /\ conn[v].ver \in Nat
  BY IInvTypes, Types DEF Row, RowIds
<1>2. PICK e \in Events \ {"disconnected"}: Publish(r, e)
  BY DEF Bumps
<1>3. /\ r # 0 /\ r \in RowIds /\ conn'[u].id = r /\ conn'[u].ver = conn[u].ver + 1
      /\ \A v \in Users \ {u}: conn'[v] = conn[v]
      /\ created' = created
  BY <1>1 DEF Bumps, OthersKept
<1>4. /\ \A q \in RowIds \ {r}: outbox'[q] = outbox[q]
      /\ Len(outbox[r]) \in Nat /\ Len(outbox'[r]) = Len(outbox[r]) + 1
      /\ \A i \in 1..Len(outbox[r]): outbox'[r][i] = outbox[r][i]
      /\ outbox'[r][Len(outbox[r]) + 1] = e
  BY <1>1, <1>2, <1>3, Published
<1>5. \A v \in Users \ {u}: conn[v].id # r
  BY <1>3 DEF EventsOK, RowsOK
<1>6. \A i \in 1..Len(outbox'[r]): outbox'[r][i] # "disconnected"
  <2> SUFFICES ASSUME NEW i \in 1..Len(outbox'[r]) PROVE outbox'[r][i] # "disconnected"
    OBVIOUS
  <2>1. CASE i = Len(outbox[r]) + 1
    BY <1>2, <1>4, <2>1
  <2>2. CASE i \in 1..Len(outbox[r])
    BY <1>3, <1>4, <2>2 DEF EventsOK, RowsOK
  <2>3. \A n \in Nat: i \in 1..n + 1 => i = n + 1 \/ i \in 1..n
    OBVIOUS
  <2>4. Len(outbox[r]) \in Nat /\ i \in 1..Len(outbox[r]) + 1
    BY <1>4
  <2> QED BY Zenon, <2>1, <2>2, <2>3, <2>4
<1> HIDE DEF r
<1>7. RowsOK'
  <2>1. \A v \in Users: conn'[v].id = conn[v].id
    BY <1>3 DEF r
  <2>2. \A q \in RowIds: q > created' => outbox'[q] = <<>>
    BY <1>1, <1>3, <1>4 DEF EventsOK, RowsOK, r
  <2>3. ASSUME NEW v \in Users, conn'[v].id # 0
        PROVE  \A i \in 1..Len(outbox'[conn'[v].id]): outbox'[conn'[v].id][i] # "disconnected"
    <3>1. CASE v = u
      BY <1>3, <1>6, <3>1
    <3>2. CASE v # u
      <4>1. conn'[v].id = conn[v].id /\ outbox'[conn[v].id] = outbox[conn[v].id]
        BY <1>1, <1>4, <1>5, <2>1, <3>2
      <4> QED BY <2>3, <4>1 DEF EventsOK, RowsOK
    <3> QED BY <3>1, <3>2
  <2>4. \A v \in Users: conn'[v].id <= created'
    BY <1>3, <2>1 DEF EventsOK, RowsOK
  <2>5. \A v, w \in Users: conn'[v].id # 0 /\ conn'[v].id = conn'[w].id => v = w
    BY <2>1 DEF EventsOK, RowsOK
  <2> QED BY <2>2, <2>3, <2>4, <2>5 DEF RowsOK
<1>8. VersionCountsEvents'
  <2>1. Len(outbox[r]) + 1 = conn[u].ver
    BY <1>3 DEF EventsOK, VersionCountsEvents, r
  <2>2. ASSUME NEW v \in Users, conn'[v].id # 0
        PROVE  Len(outbox'[conn'[v].id]) + 1 = conn'[v].ver
    <3>1. CASE v = u
      BY <1>3, <1>4, <2>1, <3>1
    <3>2. CASE v # u
      <4>1. conn'[v] = conn[v] /\ outbox'[conn[v].id] = outbox[conn[v].id]
        BY <1>1, <1>3, <1>4, <1>5, <3>2
      <4> QED BY <2>2, <4>1 DEF EventsOK, VersionCountsEvents
    <3> QED BY <3>1, <3>2
  <2> QED BY <2>2 DEF VersionCountsEvents
<1>9. DisconnectedIsLast'
  <2>1. 1..MaxRows \subseteq RowIds
    BY StoreAssumption DEF RowIds
  <2> QED BY <1>4, <1>6, <2>1 DEF EventsOK, DisconnectedIsLast
<1> QED BY <1>7, <1>8, <1>9 DEF EventsOK

\* The last event about a row takes the row with it.
LEMMA GoesEvents == ASSUME IInv, EventsOK, NEW u \in Users, Goes(u) PROVE EventsOK'
<1> DEFINE r == conn[u].id
<1>1. /\ TypeInv /\ conn \in [Users -> Row] /\ created \in RowIds /\ RowIds \subseteq Nat
      /\ created \in Nat
      /\ \A v \in Users: conn[v].id \in RowIds /\ conn[v].id \in Nat /\ conn[v].ver \in Nat
  BY IInvTypes, Types DEF Row, RowIds
<1>2. Publish(r, "disconnected") /\ "disconnected" \in Events
  BY DEF Goes, Events
<1>3. /\ r # 0 /\ r \in RowIds /\ conn'[u].id = 0
      /\ \A v \in Users \ {u}: conn'[v] = conn[v]
      /\ created' = created
  BY <1>1 DEF Goes, OthersKept
<1>4. /\ \A q \in RowIds \ {r}: outbox'[q] = outbox[q]
      /\ Len(outbox[r]) \in Nat /\ Len(outbox'[r]) = Len(outbox[r]) + 1
      /\ \A i \in 1..Len(outbox[r]): outbox'[r][i] = outbox[r][i]
  BY <1>1, <1>2, <1>3, Published
<1>5. \A v \in Users \ {u}: conn[v].id # r
  BY <1>3 DEF EventsOK, RowsOK
<1>6. \A i \in 1..Len(outbox'[r]): outbox'[r][i] = "disconnected" => i = Len(outbox'[r])
  <2> SUFFICES ASSUME NEW i \in 1..Len(outbox'[r]), outbox'[r][i] = "disconnected"
               PROVE  i = Len(outbox'[r])
    OBVIOUS
  <2>1. i \notin 1..Len(outbox[r])
    BY <1>3, <1>4 DEF EventsOK, RowsOK
  <2> QED BY <1>4, <2>1
<1> HIDE DEF r
<1>7. RowsOK'
  <2>1. \A q \in RowIds: q > created => outbox'[q] = <<>>
    BY <1>1, <1>3, <1>4 DEF EventsOK, RowsOK, r
  <2>2. ASSUME NEW v \in Users, conn'[v].id # 0
        PROVE  \A i \in 1..Len(outbox'[conn'[v].id]): outbox'[conn'[v].id][i] # "disconnected"
    <3>1. conn'[v] = conn[v] /\ outbox'[conn[v].id] = outbox[conn[v].id]
      BY <1>1, <1>3, <1>4, <1>5, <2>2
    <3> QED BY <2>2, <3>1 DEF EventsOK, RowsOK
  <2>3. \A v \in Users: conn'[v].id <= created
    BY <1>1, <1>3 DEF EventsOK, RowsOK
  <2>4. \A v, w \in Users: conn'[v].id # 0 /\ conn'[v].id = conn'[w].id => v = w
    BY <1>3 DEF EventsOK, RowsOK
  <2> QED BY <1>3, <2>1, <2>2, <2>3, <2>4 DEF RowsOK
<1>8. VersionCountsEvents'
  <2>1. ASSUME NEW v \in Users, conn'[v].id # 0
        PROVE  Len(outbox'[conn'[v].id]) + 1 = conn'[v].ver
    <3>1. conn'[v] = conn[v] /\ outbox'[conn[v].id] = outbox[conn[v].id]
      BY <1>1, <1>3, <1>4, <1>5, <2>1
    <3> QED BY <2>1, <3>1 DEF EventsOK, VersionCountsEvents
  <2> QED BY <2>1 DEF VersionCountsEvents
<1>9. DisconnectedIsLast'
  <2>1. 1..MaxRows \subseteq RowIds
    BY StoreAssumption DEF RowIds
  <2> QED BY <1>4, <1>6, <2>1 DEF EventsOK, DisconnectedIsLast
<1> QED BY <1>7, <1>8, <1>9 DEF EventsOK

\* A new row has the first version, and nothing was written about it.
LEMMA ComesEvents == ASSUME IInv, IInv', EventsOK, NEW u \in Users, Comes(u) PROVE EventsOK'
<1> DEFINE r == created + 1
<1>1. /\ TypeInv /\ conn \in [Users -> Row] /\ created \in RowIds /\ RowIds \subseteq Nat
      /\ created \in Nat
      /\ \A v \in Users: conn[v].id \in RowIds /\ conn[v].id \in Nat /\ conn[v].ver \in Nat
  BY IInvTypes, Types DEF Row, RowIds
<1>2. /\ conn[u].id = 0 /\ conn'[u].id = r /\ conn'[u].ver = 1
      /\ \A v \in Users \ {u}: conn'[v] = conn[v]
      /\ created' = r /\ outbox' = outbox
  BY DEF Comes, OthersKept
<1>3. r \in RowIds
  BY <1>2, IInvTypes, Types DEF TypeInv, TypeOK, StoreTypeOK, IInv
<1>4. outbox[r] = <<>>
  BY <1>1, <1>3 DEF EventsOK, RowsOK
<1>5. r \in Nat /\ \A v \in Users: conn[v].id < r
  <2>1. \A v \in Users: conn[v].id <= created
    BY DEF EventsOK, RowsOK
  <2> QED BY <1>1, <2>1
<1>6. RowsOK'
  <2>1. ASSUME NEW q \in RowIds, q > r PROVE outbox[q] = <<>>
    <3>1. \A p \in RowIds: p > created => outbox[p] = <<>>
      BY DEF EventsOK, RowsOK
    <3>2. created \in Nat /\ q \in Nat
      BY <1>1
    <3>3. q > created
      BY <2>1, <3>2
    <3> QED BY <3>1, <3>3
  <2>2. \A v \in Users: conn'[v].id # 0 =>
          \A i \in 1..Len(outbox[conn'[v].id]): outbox[conn'[v].id][i] # "disconnected"
    BY <1>2, <1>4 DEF EventsOK, RowsOK
  <2>3. ASSUME NEW v \in Users PROVE conn'[v].id <= r
    <3>1. CASE v = u
      BY <1>2, <1>5, <3>1
    <3>2. CASE v # u
      <4>1. conn'[v] = conn[v] /\ conn[v].id \in Nat /\ conn[v].id < r
        BY <1>1, <1>2, <1>5, <3>2
      <4> HIDE DEF r
      <4> QED BY <1>5, <4>1
    <3> QED BY <3>1, <3>2
  <2>4. \A v, w \in Users: conn'[v].id # 0 /\ conn'[v].id = conn'[w].id => v = w
    BY <1>1, <1>2, <1>5 DEF EventsOK, RowsOK
  <2> QED BY <1>2, <2>1, <2>2, <2>3, <2>4 DEF RowsOK
<1>7. VersionCountsEvents'
  BY <1>1, <1>2, <1>4 DEF EventsOK, VersionCountsEvents
<1>8. DisconnectedIsLast'
  BY <1>2 DEF EventsOK, DisconnectedIsLast
<1> QED BY <1>6, <1>7, <1>8 DEF EventsOK

\* Every step keeps the books.
LEMMA EventsStep == ASSUME IInv, IInv', EventsOK, RowStep PROVE EventsOK'
  BY StaysEvents, BumpsEvents, GoesEvents, ComesEvents DEF RowStep

\* No row, no event.
LEMMA EventsInit == Init => EventsOK
<1> SUFFICES ASSUME Init PROVE EventsOK
  OBVIOUS
<1>1. conn = [u \in Users |-> NoRow] /\ created = 0 /\ outbox = [r \in RowIds |-> <<>>]
  BY DEF Init, StoreInit
<1>2. \A u \in Users: conn[u].id = 0
  BY <1>1 DEF NoRow
<1>3. 1..MaxRows \subseteq RowIds
  BY StoreAssumption DEF RowIds
<1>4. RowsOK
  BY <1>1, <1>2 DEF RowsOK
<1>5. VersionCountsEvents
  BY <1>2 DEF VersionCountsEvents
<1>6. DisconnectedIsLast
  BY <1>1, <1>3 DEF DisconnectedIsLast
<1> QED BY <1>4, <1>5, <1>6 DEF EventsOK

\* In every reachable state, the rows and the events written about them agree.
THEOREM EventsInvariance == Spec => [](IInv /\ EventsOK)
<1>1. Init => IInv /\ EventsOK
  BY SafeInit, EventsInit
<1>2. IInv /\ EventsOK /\ [Next]_vars => (IInv /\ EventsOK)'
  BY SafeStep, RowSteps, EventsStep
<1> QED BY <1>1, <1>2, PTL DEF Spec

\* Every version of a connection was bumped together with an event, in one transaction: as many
\* events were written about a row as its version says.
THEOREM VersionCountsEventsHolds == Spec => []VersionCountsEvents
<1>1. IInv /\ EventsOK => VersionCountsEvents
  BY DEF EventsOK
<1> QED BY <1>1, EventsInvariance, PTL

\* No handler and no job that was under way when a row was deleted says anything about it
\* afterwards.
THEOREM DisconnectedIsLastHolds == Spec => []DisconnectedIsLast
<1>1. IInv /\ EventsOK => DisconnectedIsLast
  BY DEF EventsOK
<1> QED BY <1>1, EventsInvariance, PTL
=============================================================================
