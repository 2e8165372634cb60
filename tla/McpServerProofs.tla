-------------------------- MODULE McpServerProofs --------------------------
(***************************************************************************)
(* Theorems about McpServer, for every number of tools, users, runs and    *)
(* requests: its inductive invariant, and what follows from it.            *)
(***************************************************************************)
EXTENDS McpServer, TLAPS

-----------------------------------------------------------------------------
(***************************************************************************)
(* Types                                                                   *)
(***************************************************************************)

\* The records that variables are set to are well typed.
LEMMA Constants ==
  /\ 0 \in Ids /\ Ids \subseteq Nat /\ MaxIds \in Nat /\ MaxRuns \in Nat /\ MaxRequests \in Nat
  /\ IdleRun \in Run /\ IdleRequest \in Request /\ NoConnection \in Connection /\ IdleFlow \in Flow
  /\ \A type \in AuthTypes: NoServer("none", type) \in Server /\ NoServer("gone", type) \in Server
<1>1. 0 \in Ids /\ Ids \subseteq Nat /\ MaxIds \in Nat /\ MaxRuns \in Nat /\ MaxRequests \in Nat
  BY McpAssumption DEF Ids
<1>2. IdleRun \in Run /\ IdleRequest \in Request /\ NoConnection \in Connection /\ IdleFlow \in Flow
  BY <1>1 DEF IdleRun, Run, IdleRequest, Request, NoConnection, Connection, IdleFlow, Flow
<1>3. \A type \in AuthTypes: NoServer("none", type) \in Server /\ NoServer("gone", type) \in Server
  BY <1>1 DEF NoServer, Server
<1> QED BY <1>1, <1>2, <1>3

\* What is written about a server.
LEMMA WrittenTypes ==
  ASSUME TypeOK, NEW a \in Answers
  PROVE  /\ \A srv \in Server: Contract(srv, a) \in Server
         /\ Upsert(a) \in [Tools -> {"none", "on", "off"}]
         /\ \A n \in Ids: NewSecret(a, n) \in Ids
<1>1. a.auth \in BOOLEAN /\ a.oauth \in BOOLEAN
  BY DEF Answers
<1>2. \A srv \in Server: Contract(srv, a) \in Server
  BY <1>1 DEF Contract, Server
<1>3. Upsert(a) \in [Tools -> {"none", "on", "off"}]
  BY DEF Upsert, TypeOK
<1>4. \A n \in Ids: NewSecret(a, n) \in Ids
  BY Constants DEF NewSecret
<1> QED BY <1>2, <1>3, <1>4

\* The next id that is drawn.
LEMMA NextId ==
  ASSUME TypeOK, NEW a \in Answers, drawn + 1 <= MaxIds
  PROVE  /\ drawn \in Nat /\ drawn + 1 \in Ids /\ drawn + 1 # 0
         /\ NewSecret(a, drawn + 1) \in {0, drawn + 1} /\ NewSecret(a, drawn + 1) \in Ids
<1>1. drawn \in Nat /\ drawn + 1 \in Nat /\ drawn + 1 # 0
  BY Constants DEF TypeOK, Ids
<1>2. drawn + 1 \in Ids
  BY <1>1, Constants DEF Ids
<1>3. NewSecret(a, drawn + 1) \in {0, drawn + 1}
  BY DEF NewSecret
<1> QED BY <1>1, <1>2, <1>3, Constants

LEMMA ClientTypes ==
  ASSUME NEW srv \in Server, NEW c \in Ids, NEW s \in Ids,
         NEW source \in {"none", "dynamic", "manual"}
  PROVE  WithClient(srv, c, s, source) \in Server
BY DEF WithClient, Server

LEMMA StoredTypes ==
  ASSUME NEW records \in [Ids -> Ids], NEW s \in Ids, NEW c \in Ids
  PROVE  Stored(records, s, c) \in [Ids -> Ids]
BY DEF Stored

LEMMA RunTypes == ASSUME TypeOK, RunNext PROVE TypeOK'
<1>1. ASSUME NEW a \in Answers, CreateServer(a) PROVE TypeOK'
  <2> DEFINE there == [server EXCEPT !.st = "there"]
             n == drawn + 1
             s == NewSecret(a, n)
             srv == Contract(there, a)
  <2>1. there \in Server
    BY DEF TypeOK, Server
  <2> HIDE DEF there
  <2>2. srv \in Server /\ tool' \in [Tools -> {"none", "on", "off"}]
    BY <1>1, <2>1, WrittenTypes DEF CreateServer
  <2>3. n <= MaxIds => n \in Ids /\ s \in Ids
    BY NextId
  <2>4. CASE server' = srv /\ UNCHANGED <<record, drawn>>
    BY <1>1, <2>2, <2>4 DEF CreateServer, TypeOK, connVars, historyVars
  <2>5. CASE /\ n <= MaxIds /\ server' = WithClient(srv, n, s, "dynamic")
             /\ record' = Stored(record, s, n) /\ drawn' = n
    <3>1. server' \in Server /\ record' \in [Ids -> Ids] /\ drawn' \in Ids
      BY <2>2, <2>3, <2>5, ClientTypes, StoredTypes DEF TypeOK
    <3> QED BY <1>1, <2>2, <3>1 DEF CreateServer, TypeOK, connVars, historyVars
  <2> QED BY <1>1, <2>4, <2>5 DEF CreateServer, there
<1>2. CASE CreateUndiscovered
  BY <1>2 DEF CreateUndiscovered, TypeOK, Server, connVars, historyVars
<1>3. ASSUME NEW r \in Runs, NEW kind \in {"request", "sweep"}, BeginRun(r, kind) PROVE TypeOK'
  <2>1. [IdleRun EXCEPT !.pc = "asked", !.kind = kind, !.client = server.client] \in Run
    BY Constants DEF TypeOK, IdleRun, Run, Server
  <2>2. begun' \in [runs: 0..MaxRuns, requests: 0..MaxRequests]
    BY <1>3, Constants DEF BeginRun, TypeOK
  <2> QED BY <1>3, <2>1, <2>2 DEF BeginRun, TypeOK, serverVars, connVars, historyVars
<1>4. ASSUME NEW r \in Runs, RunFails(r) PROVE TypeOK'
  BY <1>4, Constants DEF RunFails, TypeOK, serverVars, connVars, historyVars
<1>5. ASSUME NEW r \in Runs, NEW a \in Answers, RequestSaves(r, a) PROVE TypeOK'
  <2> DEFINE n == drawn + 1
             s == NewSecret(a, n)
             srv == IF There THEN Contract(server, a) ELSE server
  <2>1. srv \in Server /\ tool' \in [Tools -> {"none", "on", "off"}]
    BY <1>5, WrittenTypes DEF RequestSaves, SaveContract, TypeOK
  <2>2. n <= MaxIds => n \in Ids /\ s \in Ids
    BY NextId
  <2>3. run' \in [Runs -> Run] /\ overtaken' \in BOOLEAN
    BY <1>5, Constants DEF RequestSaves, TypeOK
  <2>4. server' \in Server /\ record' \in [Ids -> Ids] /\ drawn' \in Ids
    <3>1. CASE server' = srv /\ UNCHANGED <<record, drawn>>
      BY <2>1, <3>1 DEF TypeOK
    <3>2. CASE /\ n <= MaxIds /\ server' = WithClient(srv, n, s, "dynamic")
               /\ record' = Stored(record, s, n) /\ drawn' = n
      BY <2>1, <2>2, <3>2, ClientTypes, StoredTypes DEF TypeOK
    <3> QED BY <1>5, <3>1, <3>2 DEF RequestSaves
  <2> QED BY <1>5, <2>1, <2>3, <2>4 DEF RequestSaves, TypeOK, connVars
<1>6. ASSUME NEW r \in Runs, NEW a \in Answers, SweepSaves(r, a) PROVE TypeOK'
  <2>1. server' \in Server /\ tool' \in [Tools -> {"none", "on", "off"}]
    BY <1>6, WrittenTypes DEF SweepSaves, SaveContract, TypeOK
  <2>2. [run[r] EXCEPT !.pc = "registering", !.confidential = a.offer = "confidential"] \in Run
    <3> DEFINE confidential == a.offer = "confidential"
    <3>1. run[r] \in Run /\ confidential \in BOOLEAN
      BY DEF TypeOK
    <3> HIDE DEF confidential
    <3>2. [run[r] EXCEPT !.pc = "registering", !.confidential = confidential] \in Run
      BY <3>1 DEF Run
    <3> QED BY <3>2 DEF confidential
  <2>3. run' \in [Runs -> Run]
    BY <1>6, <2>2, Constants DEF SweepSaves, TypeOK
  <2> QED BY <1>6, <2>1, <2>3 DEF SweepSaves, TypeOK, connVars, historyVars
<1>7. ASSUME NEW r \in Runs, SweepRegisters(r) PROVE TypeOK'
  <2>1. drawn' \in Ids /\ drawn' = drawn + 1
    BY <1>7, Constants DEF SweepRegisters, TypeOK, Ids
  <2>2. record' \in [Ids -> Ids]
    BY <1>7, <2>1 DEF SweepRegisters, TypeOK
  <2>3. [run[r] EXCEPT !.pc = "saving", !.id = drawn + 1] \in Run
    <3>1. run[r] \in Run /\ drawn + 1 \in Ids
      BY <2>1 DEF TypeOK
    <3> QED BY <3>1 DEF Run
  <2>4. run' \in [Runs -> Run]
    BY <1>7, <2>3 DEF SweepRegisters, TypeOK
  <2> QED BY <1>7, <2>1, <2>2, <2>4 DEF SweepRegisters, TypeOK, connVars, historyVars
<1>8. ASSUME NEW r \in Runs, SweepSavesClient(r) PROVE TypeOK'
  <2>1. run[r].id \in Ids /\ (IF run[r].confidential THEN run[r].id ELSE 0) \in Ids
    BY Constants DEF TypeOK, Run
  <2>2. server' \in Server
    BY <1>8, <2>1, ClientTypes DEF SweepSavesClient, TypeOK
  <2> QED BY <1>8, <2>2, Constants DEF SweepSavesClient, TypeOK, connVars
<1>9. ASSUME NEW r \in Runs, SweepEnds(r) PROVE TypeOK'
  BY <1>9, Constants DEF SweepEnds, TypeOK, serverVars, connVars
<1> QED BY <1>1, <1>2, <1>3, <1>4, <1>5, <1>6, <1>7, <1>8, <1>9 DEF RunNext

LEMMA RequestTypes == ASSUME TypeOK, RequestNext PROVE TypeOK'
<1>1. ASSUME NEW a \in Requests, BeginRequest(a) PROVE TypeOK'
  <2>1. [pc |-> "read", client |-> server.client, secret |-> server.secret,
         source |-> server.source] \in Request
    BY DEF TypeOK, Server, Request
  <2>2. begun' \in [runs: 0..MaxRuns, requests: 0..MaxRequests]
    BY <1>1, Constants DEF BeginRequest, TypeOK
  <2> QED BY <1>1, <2>1, <2>2 DEF BeginRequest, TypeOK, serverVars, connVars, historyVars
<1>2. ASSUME NEW a \in Requests, Ends(a)
      PROVE  /\ request' \in [Requests -> Request] /\ overtaken' \in BOOLEAN
             /\ UNCHANGED <<run, rewrap, flow, begun, interrupted>>
  BY <1>2, Constants DEF Ends, TypeOK
<1>3. Expired \in [Users -> Connection] /\ [u \in Users |-> NoConnection] \in [Users -> Connection]
  BY Constants DEF Expired, TypeOK, Connection
<1>4. ASSUME NEW a \in Requests
      PROVE  /\ request[a].client \in Ids /\ request[a].secret \in Ids
             /\ Forgotten(request[a].secret) \in [Ids -> Ids]
  <2>1. request[a].client \in Ids /\ request[a].secret \in Ids
    BY DEF TypeOK, Request
  <2> QED BY <2>1, Constants, StoredTypes DEF Forgotten, TypeOK
<1>5. ASSUME NEW a \in Requests, NEW c \in Ids, NEW secret \in {"set", "public", "unchanged"},
             PutClient(a, c, secret)
      PROVE  TypeOK'
  <2> DEFINE n == drawn + 1
             s == CASE secret = "set" -> IF request[a].secret # 0 THEN request[a].secret ELSE n
                    [] secret = "public" -> 0
                    [] secret = "unchanged" -> request[a].secret
  <2>1. s \in Ids
    <3>1. s \in Nat /\ s <= MaxIds
      BY <1>4, <1>5, Constants DEF PutClient, TypeOK
    <3> QED BY <3>1 DEF Ids
  <2>2. drawn' \in Ids
    BY <1>5, <2>1, Constants DEF PutClient, TypeOK, Ids
  <2>3. server' \in Server
    BY <1>5, <2>1, ClientTypes DEF PutClient, TypeOK
  <2>4. record' \in [Ids -> Ids]
    BY <1>4, <1>5, <2>1 DEF PutClient, TypeOK
  <2>5. conn' \in [Users -> Connection] /\ tool' = tool
    BY <1>3, <1>5 DEF PutClient, TypeOK
  <2>6. Ends(a)
    BY <1>5 DEF PutClient
  <2> QED BY <1>2, <2>2, <2>3, <2>4, <2>5, <2>6 DEF TypeOK
<1>6. ASSUME NEW a \in Requests, RemoveClient(a) PROVE TypeOK'
  <2>1. server' \in Server
    BY <1>6, Constants, ClientTypes DEF RemoveClient, TypeOK
  <2>2. record' \in [Ids -> Ids] /\ conn' \in [Users -> Connection]
    BY <1>3, <1>4, <1>6 DEF RemoveClient, TypeOK
  <2>3. Ends(a) /\ UNCHANGED <<tool, drawn>>
    BY <1>6 DEF RemoveClient
  <2> QED BY <1>2, <2>1, <2>2, <2>3 DEF TypeOK
<1>7. ASSUME NEW a \in Requests, DeleteServer(a) PROVE TypeOK'
  <2>1. server' \in Server
    BY <1>7, Constants DEF DeleteServer, TypeOK, Server
  <2>2. record' \in [Ids -> Ids] /\ conn' \in [Users -> Connection]
        /\ tool' \in [Tools -> {"none", "on", "off"}]
    BY <1>3, <1>4, <1>7 DEF DeleteServer
  <2>3. Ends(a) /\ UNCHANGED drawn
    BY <1>7 DEF DeleteServer
  <2> QED BY <1>2, <2>1, <2>2, <2>3 DEF TypeOK
<1>8. ASSUME NEW a \in Requests, RequestFails(a) PROVE TypeOK'
  BY <1>8, Constants DEF RequestFails, TypeOK, serverVars, connVars, historyVars
<1>9. ASSUME NEW t \in Tools, SwitchTool(t) PROVE TypeOK'
  BY <1>9 DEF SwitchTool, TypeOK, connVars, historyVars
<1> QED BY <1>1, <1>5, <1>6, <1>7, <1>8, <1>9 DEF RequestNext

LEMMA RewrapTypes == ASSUME TypeOK, (\E s \in Ids: RewrapRead(s)) \/ RewrapWrite PROVE TypeOK'
<1>1. ASSUME NEW s \in Ids, RewrapRead(s) PROVE TypeOK'
  BY <1>1 DEF RewrapRead, TypeOK, serverVars, connVars, historyVars
<1>2. CASE RewrapWrite
  BY <1>2, Constants DEF RewrapWrite, TypeOK, connVars
<1> QED BY <1>1, <1>2

LEMMA ConnectTypes == ASSUME TypeOK, ConnectNext PROVE TypeOK'
<1> SUFFICES ASSUME NEW u \in Users,
                    \/ ResolveKey(u) \/ StoreKey(u)
                    \/ Resolve(u) \/ Redirect(u) \/ Exchange(u) \/ ExchangeRefused(u)
                    \/ StoreConnection(u) \/ FlowEnds(u) \/ Disconnect(u)
             PROVE  TypeOK'
  BY DEF ConnectNext
<1>1. flow[u].client \in Ids /\ server.client \in Ids /\ server.auth \in BOOLEAN
  BY DEF TypeOK, Flow, Server
<1>2. CASE ResolveKey(u)
  <2>1. [IdleFlow EXCEPT !.pc = "keyed"] \in Flow
    BY Constants DEF IdleFlow, Flow
  <2> QED BY <1>2, <2>1 DEF ResolveKey, TypeOK, serverVars, historyVars
<1>3. CASE StoreKey(u)
  <2>1. [st |-> "connected", client |-> 0] \in Connection
    BY Constants DEF Connection
  <2> QED BY <1>3, <2>1, Constants DEF StoreKey, TypeOK, serverVars
<1>4. CASE Resolve(u)
  <2>1. [IdleFlow EXCEPT !.pc = "resolved", !.client = server.client] \in Flow
    BY <1>1 DEF IdleFlow, Flow
  <2> QED BY <1>4, <2>1 DEF Resolve, TypeOK, serverVars, historyVars
<1>5. CASE Redirect(u)
  <2>1. [conn EXCEPT ![u].st = "pending"] \in [Users -> Connection]
        /\ [flow EXCEPT ![u].pc = "redirected"] \in [Users -> Flow]
    BY DEF TypeOK, Connection, Flow
  <2> QED BY <1>5, <2>1 DEF Redirect, TypeOK, serverVars
<1>6. CASE Exchange(u)
  <2>1. \A good, was \in BOOLEAN:
          [pc |-> "exchanged", client |-> server.client, auth |-> server.auth,
           good |-> good, was |-> was] \in Flow
    BY <1>1 DEF Flow
  <2>2. [pc |-> "exchanged", client |-> server.client, auth |-> server.auth,
         good |-> server.client = flow[u].client, was |-> conn[u].st = "connected"] \in Flow
    BY <2>1
  <2> QED BY <1>6, <2>2 DEF Exchange, TypeOK, serverVars, historyVars
<1>7. CASE ExchangeRefused(u)
  <2>1. [conn EXCEPT ![u].st = IF flow[u].was THEN "connected" ELSE "error"]
          \in [Users -> Connection]
    BY DEF TypeOK, Connection
  <2>2. overtaken' \in BOOLEAN
    BY <1>7 DEF ExchangeRefused
  <2> QED BY <1>7, <2>1, <2>2, Constants DEF ExchangeRefused, TypeOK, serverVars
<1>8. CASE StoreConnection(u)
  <2>1. [st |-> "connected", client |-> flow[u].client] \in Connection
    BY <1>1 DEF Connection
  <2>2. conn' \in [Users -> Connection] /\ flow' \in [Users -> Flow] /\ overtaken' \in BOOLEAN
    BY <1>8, <2>1, Constants DEF StoreConnection, TypeOK
  <2>3. server' \in Server /\ tool' \in [Tools -> {"none", "on", "off"}]
    BY <1>8, WrittenTypes DEF StoreConnection, TypeOK
  <2> QED BY <1>8, <2>2, <2>3 DEF StoreConnection, TypeOK
<1>9. CASE FlowEnds(u)
  BY <1>9, Constants DEF FlowEnds, TypeOK, serverVars, historyVars
<1>10. CASE Disconnect(u)
  BY <1>10, Constants DEF Disconnect, TypeOK, serverVars, historyVars
<1> QED BY <1>2, <1>3, <1>4, <1>5, <1>6, <1>7, <1>8, <1>9, <1>10

-----------------------------------------------------------------------------
(***************************************************************************)
(* What the actions leave alone                                            *)
(***************************************************************************)

\* The server is the same one, with the same client.
KeepsClient ==
  /\ server'.st = server.st /\ server'.type = server.type
  /\ server'.client = server.client /\ server'.secret = server.secret

LEMMA ContractFields ==
  ASSUME NEW srv \in Server, NEW a \in Answers
  PROVE  LET new == Contract(srv, a)
         IN  /\ new.st = srv.st /\ new.type = srv.type
             /\ new.client = srv.client /\ new.secret = srv.secret
BY DEF Contract, Server

LEMMA ClientFields ==
  ASSUME NEW srv \in Server, NEW c \in Ids, NEW s \in Ids,
         NEW source \in {"none", "dynamic", "manual"}
  PROVE  LET new == WithClient(srv, c, s, source)
         IN  /\ new.st = srv.st /\ new.type = srv.type
             /\ srv.st = "there" => new.client = c /\ new.secret = s
             /\ srv.st # "there" => new.client = srv.client /\ new.secret = srv.secret
BY DEF WithClient, Server

LEMMA GoneFields ==
  LET new == NoServer("gone", server.type)
  IN  new.st = "gone" /\ new.type = server.type /\ new.client = 0 /\ new.secret = 0
BY DEF NoServer

\* A request that ends with overtaken unset wrote about the client that it had read.
LEMMA NotStale ==
  ASSUME TypeOK, NEW a \in Requests, Ends(a), ~overtaken'
  PROVE  /\ ~overtaken /\ There
         /\ server.client = request[a].client /\ server.secret = request[a].secret
<1>1. ~(overtaken \/ Stale(a))
  BY DEF Ends
<1>2. ~Stale(a)
  BY <1>1
<1> QED BY <1>1, <1>2 DEF Stale, Current

\* Connecting changes neither clients nor secrets.
LEMMA ConnectKeeps ==
  ASSUME TypeOK, ConnectNext
  PROVE  /\ KeepsClient
         /\ UNCHANGED <<record, drawn, run, request, rewrap, begun, interrupted>>
         /\ overtaken => overtaken'
<1> SUFFICES ASSUME NEW u \in Users,
                    \/ ResolveKey(u) \/ StoreKey(u)
                    \/ Resolve(u) \/ Redirect(u) \/ Exchange(u) \/ ExchangeRefused(u)
                    \/ StoreConnection(u) \/ FlowEnds(u) \/ Disconnect(u)
             PROVE  /\ KeepsClient
                    /\ UNCHANGED <<record, drawn, run, request, rewrap, begun, interrupted>>
                    /\ overtaken => overtaken'
  BY DEF ConnectNext
<1>1. CASE StoreConnection(u)
  <2>1. server' = server \/ \E a \in Answers: server' = Contract(server, a)
    BY <1>1 DEF StoreConnection
  <2>2. KeepsClient
    BY <2>1, ContractFields DEF KeepsClient, TypeOK
  <2> QED BY <1>1, <2>2 DEF StoreConnection
<1>2. CASE ~StoreConnection(u)
  <2>1. UNCHANGED <<serverVars, run, request, rewrap, begun, interrupted>>
    BY <1>2 DEF ResolveKey, StoreKey, Resolve, Redirect, Exchange, ExchangeRefused, FlowEnds,
                Disconnect, historyVars
  <2>2. overtaken' = overtaken \/ \E o \in BOOLEAN: overtaken' = (overtaken \/ o)
    <3>1. CASE StoreKey(u)
      BY <3>1 DEF StoreKey
    <3>2. CASE Redirect(u)
      BY <3>2 DEF Redirect
    <3>3. CASE ExchangeRefused(u)
      BY <3>3 DEF ExchangeRefused
    <3>4. CASE ~StoreKey(u) /\ ~Redirect(u) /\ ~ExchangeRefused(u)
      BY <1>2, <3>4 DEF ResolveKey, Resolve, Exchange, FlowEnds, Disconnect, historyVars
    <3> QED BY <3>1, <3>2, <3>3, <3>4
  <2>3. overtaken => overtaken'
    BY <2>2
  <2> QED BY <2>1, <2>3 DEF KeepsClient, serverVars
<1> QED BY <1>1, <1>2

\* What discovery does to the server's client.
LEMMA RunFields ==
  ASSUME TypeOK
  PROVE  /\ \A a \in Answers: CreateServer(a) =>
              /\ server'.st = "there" /\ server'.type = server.type
              /\ \/ /\ UNCHANGED <<record, drawn>>
                    /\ server'.client = server.client /\ server'.secret = server.secret
                 \/ LET s == NewSecret(a, drawn + 1)
                    IN  /\ drawn + 1 <= MaxIds /\ drawn' = drawn + 1 /\ server.type = "oauth2"
                        /\ server'.client = drawn + 1 /\ server'.secret = s
                        /\ record' = Stored(record, s, drawn + 1)
         /\ \A r \in Runs, a \in Answers: RequestSaves(r, a) =>
              /\ server'.st = server.st /\ server'.type = server.type
              /\ \/ KeepsClient /\ UNCHANGED <<record, drawn, overtaken>>
                 \/ LET s == NewSecret(a, drawn + 1)
                    IN  /\ drawn + 1 <= MaxIds /\ drawn' = drawn + 1
                        /\ server.type = "oauth2" /\ run[r].client = 0
                        /\ There => server'.client = drawn + 1 /\ server'.secret = s
                        /\ ~There => server'.client = server.client /\ server'.secret = server.secret
                        /\ record' = Stored(record, s, drawn + 1)
         /\ \A r \in Runs, a \in Answers: SweepSaves(r, a) => KeepsClient
         /\ \A r \in Runs: SweepSavesClient(r) =>
              /\ server'.st = server.st /\ server'.type = server.type
              /\ There => /\ server'.client = run[r].id
                          /\ server'.secret = IF run[r].confidential THEN run[r].id ELSE 0
              /\ ~There => server'.client = server.client /\ server'.secret = server.secret
<1>1. ASSUME NEW a \in Answers, CreateServer(a)
      PROVE  /\ server'.st = "there" /\ server'.type = server.type
             /\ \/ /\ UNCHANGED <<record, drawn>>
                   /\ server'.client = server.client /\ server'.secret = server.secret
                \/ LET s == NewSecret(a, drawn + 1)
                   IN  /\ drawn + 1 <= MaxIds /\ drawn' = drawn + 1 /\ server.type = "oauth2"
                       /\ server'.client = drawn + 1 /\ server'.secret = s
                       /\ record' = Stored(record, s, drawn + 1)
  <2> DEFINE there == [server EXCEPT !.st = "there"]
             srv == Contract(there, a)
             s == NewSecret(a, drawn + 1)
  <2>1. /\ there \in Server /\ there.st = "there" /\ there.type = server.type
        /\ there.client = server.client /\ there.secret = server.secret
    BY DEF TypeOK, Server
  <2>2. \/ server' = srv /\ UNCHANGED <<record, drawn>>
        \/ /\ server' = WithClient(srv, drawn + 1, s, "dynamic") /\ drawn + 1 <= MaxIds
           /\ record' = Stored(record, s, drawn + 1) /\ drawn' = drawn + 1
           /\ server.type = "oauth2"
    BY <1>1 DEF CreateServer
  <2> HIDE DEF there
  <2>3. /\ srv \in Server /\ srv.st = "there" /\ srv.type = server.type
        /\ srv.client = server.client /\ srv.secret = server.secret
    BY <2>1, WrittenTypes, ContractFields
  <2> HIDE DEF srv, s
  <2>4. CASE server' = srv /\ UNCHANGED <<record, drawn>>
    BY <2>3, <2>4
  <2>5. CASE /\ server' = WithClient(srv, drawn + 1, s, "dynamic") /\ drawn + 1 <= MaxIds
             /\ record' = Stored(record, s, drawn + 1) /\ drawn' = drawn + 1
             /\ server.type = "oauth2"
    <3>1. drawn + 1 \in Ids /\ s \in Ids
      BY <2>5, NextId DEF s
    <3>2. server'.st = "there" /\ server'.type = server.type
          /\ server'.client = drawn + 1 /\ server'.secret = s
      BY <2>3, <2>5, <3>1, ClientFields
    <3> QED BY <2>5, <3>2 DEF s
  <2> QED BY <2>2, <2>4, <2>5
<1>2. ASSUME NEW r \in Runs, NEW a \in Answers, RequestSaves(r, a)
      PROVE  /\ server'.st = server.st /\ server'.type = server.type
             /\ \/ KeepsClient /\ UNCHANGED <<record, drawn, overtaken>>
                \/ LET s == NewSecret(a, drawn + 1)
                   IN  /\ drawn + 1 <= MaxIds /\ drawn' = drawn + 1
                       /\ server.type = "oauth2" /\ run[r].client = 0
                       /\ There => server'.client = drawn + 1 /\ server'.secret = s
                       /\ ~There => server'.client = server.client /\ server'.secret = server.secret
                       /\ record' = Stored(record, s, drawn + 1)
  <2> DEFINE srv == IF There THEN Contract(server, a) ELSE server
             s == NewSecret(a, drawn + 1)
  <2>1. \/ server' = srv /\ UNCHANGED <<record, drawn, overtaken>>
        \/ /\ server' = WithClient(srv, drawn + 1, s, "dynamic") /\ drawn + 1 <= MaxIds
           /\ record' = Stored(record, s, drawn + 1) /\ drawn' = drawn + 1
           /\ server.type = "oauth2" /\ run[r].client = 0
    BY <1>2 DEF RequestSaves, Registers
  <2>2. /\ srv \in Server /\ srv.st = server.st /\ srv.type = server.type
        /\ srv.client = server.client /\ srv.secret = server.secret
    BY WrittenTypes, ContractFields DEF TypeOK
  <2> HIDE DEF srv, s
  <2>3. CASE server' = srv /\ UNCHANGED <<record, drawn, overtaken>>
    BY <2>2, <2>3 DEF KeepsClient
  <2>4. CASE /\ server' = WithClient(srv, drawn + 1, s, "dynamic") /\ drawn + 1 <= MaxIds
             /\ record' = Stored(record, s, drawn + 1) /\ drawn' = drawn + 1
             /\ server.type = "oauth2" /\ run[r].client = 0
    <3>1. drawn + 1 \in Ids /\ s \in Ids
      BY <2>4, NextId DEF s
    <3>2. /\ server'.st = server.st /\ server'.type = server.type
          /\ There => server'.client = drawn + 1 /\ server'.secret = s
          /\ ~There => server'.client = server.client /\ server'.secret = server.secret
      BY <2>2, <2>4, <3>1, ClientFields DEF There
    <3> QED BY <2>4, <3>2 DEF s
  <2> QED BY <2>1, <2>3, <2>4
<1>3. ASSUME NEW r \in Runs, NEW a \in Answers, SweepSaves(r, a) PROVE KeepsClient
  BY <1>3, ContractFields DEF SweepSaves, KeepsClient, TypeOK
<1>4. ASSUME NEW r \in Runs, SweepSavesClient(r)
      PROVE  /\ server'.st = server.st /\ server'.type = server.type
             /\ There => /\ server'.client = run[r].id
                         /\ server'.secret = IF run[r].confidential THEN run[r].id ELSE 0
             /\ ~There => server'.client = server.client /\ server'.secret = server.secret
  <2> DEFINE s == IF run[r].confidential THEN run[r].id ELSE 0
  <2>1. run[r].id \in Ids /\ s \in Ids /\ server \in Server
    BY Constants DEF TypeOK, Run
  <2>2. server' = WithClient(server, run[r].id, s, "dynamic")
    BY <1>4 DEF SweepSavesClient
  <2> HIDE DEF s
  <2>3. /\ server'.st = server.st /\ server'.type = server.type
        /\ There => server'.client = run[r].id /\ server'.secret = s
        /\ ~There => server'.client = server.client /\ server'.secret = server.secret
    BY <2>1, <2>2, ClientFields DEF There
  <2> QED BY <2>3 DEF s
<1> QED BY <1>1, <1>2, <1>3, <1>4

\* The secret id that a PUT ends up with.
PutSecret(a, secret) ==
  CASE secret = "set" -> IF request[a].secret # 0 THEN request[a].secret ELSE drawn + 1
    [] secret = "public" -> 0
    [] secret = "unchanged" -> request[a].secret

LEMMA PutFields ==
  ASSUME TypeOK, NEW a \in Requests, NEW c \in Ids,
         NEW secret \in {"set", "public", "unchanged"}, PutClient(a, c, secret)
  PROVE  LET s == PutSecret(a, secret)
         IN  /\ s \in Ids /\ c # 0 /\ server.type = "oauth2"
             /\ s \in {0, drawn + 1, request[a].secret}
             /\ server'.st = server.st /\ server'.type = server.type
             /\ There => server'.client = c /\ server'.secret = s
             /\ ~There => server'.client = server.client /\ server'.secret = server.secret
             /\ drawn' = IF drawn + 1 \in {c, s} THEN drawn + 1 ELSE drawn
             /\ secret = "set" => s # 0 /\ record' = [record EXCEPT ![s] = c]
             /\ secret = "public" => s = 0 /\ record' = Stored(record, request[a].secret, 0)
             /\ secret = "unchanged" =>
                  s = request[a].secret /\ c = request[a].client /\ record' = record
             /\ conn' = IF request[a].client # 0 /\ request[a].client # c THEN Expired ELSE conn
             /\ Ends(a)
<1> DEFINE s == PutSecret(a, secret)
<1>1. request[a].secret \in Ids /\ drawn \in Nat /\ server \in Server
  BY Constants DEF TypeOK, Request, Ids
<1>2. /\ s <= MaxIds /\ c # 0 /\ server.type = "oauth2"
      /\ drawn' = IF drawn + 1 \in {c, s} THEN drawn + 1 ELSE drawn
      /\ server' = WithClient(server, c, s, "manual")
      /\ conn' = IF request[a].client # 0 /\ request[a].client # c THEN Expired ELSE conn
      /\ Ends(a)
  BY DEF PutClient, PutSecret, ClientReplaced
<1>3. s \in Ids /\ s \in {0, drawn + 1, request[a].secret}
  <2>1. s \in {0, drawn + 1, request[a].secret}
    BY DEF PutSecret
  <2>2. request[a].secret \in Nat /\ drawn + 1 \in Nat
    BY <1>1 DEF Ids
  <2>3. s \in Nat
    BY <2>1, <2>2
  <2> QED BY <1>2, <2>1, <2>3, Constants DEF Ids
<1>4. secret = "set" => s # 0 /\ record' = [record EXCEPT ![s] = c]
  <2>1. drawn + 1 # 0
    BY <1>1
  <2> QED BY <2>1 DEF PutClient, PutSecret
<1>5. secret = "public" => s = 0 /\ record' = Stored(record, request[a].secret, 0)
  BY DEF PutClient, PutSecret, Forgotten
<1>6. secret = "unchanged" => s = request[a].secret /\ c = request[a].client /\ record' = record
  BY DEF PutClient, PutSecret, KeepsSecret
<1> HIDE DEF s
<1>7. /\ server'.st = server.st /\ server'.type = server.type
      /\ There => server'.client = c /\ server'.secret = s
      /\ ~There => server'.client = server.client /\ server'.secret = server.secret
  BY <1>1, <1>2, <1>3, ClientFields DEF There
<1> QED BY <1>2, <1>3, <1>4, <1>5, <1>6, <1>7 DEF s

LEMMA RemoveFields ==
  ASSUME TypeOK, NEW a \in Requests
  PROVE  /\ RemoveClient(a) =>
              /\ server'.st = server.st /\ server'.type = server.type
              /\ There => server'.client = 0 /\ server'.secret = 0
              /\ ~There => server'.client = server.client /\ server'.secret = server.secret
              /\ record' = Stored(record, request[a].secret, 0) /\ UNCHANGED drawn
              /\ conn' = IF request[a].client # 0 THEN Expired ELSE conn
              /\ Ends(a)
         /\ DeleteServer(a) =>
              /\ server'.st = "gone" /\ server'.type = server.type
              /\ server'.client = 0 /\ server'.secret = 0
              /\ record' = Stored(record, request[a].secret, 0) /\ UNCHANGED drawn
              /\ conn' = [u \in Users |-> NoConnection]
              /\ Ends(a)
<1>1. ASSUME RemoveClient(a)
      PROVE  /\ server'.st = server.st /\ server'.type = server.type
             /\ There => server'.client = 0 /\ server'.secret = 0
             /\ ~There => server'.client = server.client /\ server'.secret = server.secret
  <2>1. server' = WithClient(server, 0, 0, "none")
    BY <1>1 DEF RemoveClient
  <2> QED BY <2>1, Constants, ClientFields DEF There, TypeOK
<1>2. ASSUME RemoveClient(a)
      PROVE  /\ record' = Stored(record, request[a].secret, 0) /\ UNCHANGED drawn
             /\ conn' = IF request[a].client # 0 THEN Expired ELSE conn
             /\ Ends(a)
  BY <1>2 DEF RemoveClient, Forgotten, ClientReplaced
<1>3. DeleteServer(a) =>
        /\ server'.st = "gone" /\ server'.type = server.type
        /\ server'.client = 0 /\ server'.secret = 0
        /\ record' = Stored(record, request[a].secret, 0) /\ UNCHANGED drawn
        /\ conn' = [u \in Users |-> NoConnection]
        /\ Ends(a)
  BY GoneFields DEF DeleteServer, Forgotten
<1> QED BY <1>1, <1>2, <1>3

-----------------------------------------------------------------------------
(***************************************************************************)
(* The parts of the invariant                                              *)
(***************************************************************************)

\* Where an id that was just stored is found.
LEMMA StoredFields ==
  ASSUME NEW records \in [Ids -> Ids], NEW s \in Ids, NEW c \in Ids
  PROVE  /\ s = 0 => Stored(records, s, c) = records
         /\ s # 0 => Stored(records, s, c)[s] = c
         /\ \A q \in Ids: q # s => Stored(records, s, c)[q] = records[q]
BY DEF Stored

LEMMA RunDrawn == ASSUME McpIInv, RunNext PROVE DrawnOK'
<1> USE DEF McpIInv
<1>1. /\ TypeOK /\ drawn \in Nat /\ \A i \in Ids: i \in Nat
      /\ \A r \in Runs: run[r] \in Run /\ run[r].id \in Ids
      /\ server.secret \in Nat /\ \A a \in Requests: request[a].secret \in Nat
  BY Constants DEF TypeOK, Ids, Run, Request, Server
<1>2. /\ record[0] = 0
      /\ \A s \in Ids: s > drawn => record[s] = 0
      /\ server.secret <= drawn
      /\ \A a \in Requests: request[a].secret <= drawn
  BY DEF DrawnOK
<1>3. \A r \in Runs: run[r].pc = "saving" =>
        /\ run[r].id \in 1..drawn
        /\ \A q \in Runs: run[q].pc = "saving" /\ q # r => run[q].id # run[r].id
  BY DEF DrawnOK
\* Actions after which no run saves that did not before.
<1>4. ASSUME /\ drawn' \in Nat /\ drawn' >= drawn /\ UNCHANGED request
             /\ server'.secret <= drawn' /\ record'[0] = 0
             /\ \A s \in Ids: s > drawn' => record'[s] = 0
             /\ \A r \in Runs: run'[r].pc = "saving" => run'[r] = run[r]
      PROVE  DrawnOK'
  BY <1>1, <1>2, <1>3, <1>4 DEF DrawnOK
\* A record stored under the next id.
<1>5. ASSUME NEW a \in Answers, drawn + 1 <= MaxIds,
             record' = Stored(record, NewSecret(a, drawn + 1), drawn + 1)
      PROVE  record'[0] = 0 /\ \A s \in Ids: s > drawn + 1 => record'[s] = 0
  BY <1>1, <1>2, <1>5, NextId, StoredFields, Constants DEF TypeOK
<1>6. ASSUME NEW a \in Answers, CreateServer(a) PROVE DrawnOK'
  <2>1. UNCHANGED <<run, request>>
    BY <1>6 DEF CreateServer
  <2> QED BY <1>1, <1>2, <1>4, <1>5, <1>6, <2>1, RunFields, NextId
<1>7. CASE CreateUndiscovered
  <2>1. server'.secret = server.secret /\ UNCHANGED <<record, drawn, run, request>>
    BY <1>1, <1>7 DEF CreateUndiscovered, TypeOK, Server
  <2> QED BY <1>1, <1>2, <1>4, <2>1
<1>8. ASSUME NEW r \in Runs, NEW kind \in {"request", "sweep"}, BeginRun(r, kind) PROVE DrawnOK'
  <2>1. UNCHANGED <<server, record, drawn, request>>
    BY <1>8 DEF BeginRun, serverVars
  <2>2. \A q \in Runs: run'[q].pc = "saving" => run'[q] = run[q]
    BY <1>1, <1>8 DEF BeginRun, TypeOK, IdleRun
  <2> QED BY <1>1, <1>2, <1>4, <2>1, <2>2
<1>9. ASSUME NEW r \in Runs, RunFails(r) \/ SweepEnds(r) PROVE DrawnOK'
  <2>1. UNCHANGED <<server, record, drawn, request>>
    BY <1>9 DEF RunFails, SweepEnds, serverVars
  <2>2. \A q \in Runs: run'[q].pc = "saving" => run'[q] = run[q]
    BY <1>1, <1>9 DEF RunFails, SweepEnds, TypeOK, IdleRun
  <2> QED BY <1>1, <1>2, <1>4, <2>1, <2>2
<1>10. ASSUME NEW r \in Runs, NEW a \in Answers, RequestSaves(r, a) PROVE DrawnOK'
  <2>1. UNCHANGED request /\ \A q \in Runs: run'[q].pc = "saving" => run'[q] = run[q]
    BY <1>1, <1>10 DEF RequestSaves, TypeOK, IdleRun
  <2>2. CASE KeepsClient /\ UNCHANGED <<record, drawn, overtaken>>
    BY <1>1, <1>2, <1>4, <2>1, <2>2 DEF KeepsClient
  <2>3. CASE /\ drawn + 1 <= MaxIds /\ drawn' = drawn + 1
             /\ There => server'.secret = NewSecret(a, drawn + 1)
             /\ ~There => server'.secret = server.secret
             /\ record' = Stored(record, NewSecret(a, drawn + 1), drawn + 1)
    <3>1. server'.secret <= drawn'
      <4>1. NewSecret(a, drawn + 1) \in {0, drawn + 1}
        BY <2>3, NextId
      <4>2. server'.secret \in {0, drawn + 1, server.secret}
        BY <2>3, <4>1
      <4> QED BY <1>1, <1>2, <2>3, <4>2
    <3> QED BY <1>1, <1>4, <1>5, <2>1, <2>3, <3>1
  <2> QED BY <1>1, <1>10, <2>2, <2>3, RunFields
<1>11. ASSUME NEW r \in Runs, NEW a \in Answers, SweepSaves(r, a) PROVE DrawnOK'
  <2>1. UNCHANGED <<record, drawn, request>> /\ KeepsClient
    BY <1>1, <1>11, RunFields DEF SweepSaves
  <2>2. \A q \in Runs: run'[q].pc = "saving" => run'[q] = run[q]
    BY <1>1, <1>11 DEF SweepSaves, TypeOK, IdleRun, Run
  <2> QED BY <1>1, <1>2, <1>4, <2>1, <2>2 DEF KeepsClient
<1>12. ASSUME NEW r \in Runs, SweepRegisters(r) PROVE DrawnOK'
  <2>1. /\ drawn' = drawn + 1 /\ drawn + 1 \in Ids /\ UNCHANGED <<server, request>>
        /\ run'[r].id = drawn + 1 /\ \A q \in Runs: q # r => run'[q] = run[q]
    BY <1>1, <1>12, Constants DEF SweepRegisters, TypeOK, Ids
  <2>2. record'[0] = 0 /\ \A s \in Ids: s > drawn + 1 => record'[s] = 0
    BY <1>1, <1>2, <1>12, Constants DEF SweepRegisters, TypeOK
  <2>3. \A q \in Runs: run'[q].pc = "saving" =>
          /\ run'[q].id \in 1..drawn'
          /\ \A p \in Runs: run'[p].pc = "saving" /\ p # q => run'[p].id # run'[q].id
    BY <1>1, <1>3, <2>1
  <2>4. server'.secret <= drawn' /\ \A a \in Requests: request'[a].secret <= drawn'
    BY <1>1, <1>2, <2>1
  <2> QED BY <2>1, <2>2, <2>3, <2>4 DEF DrawnOK
<1>13. ASSUME NEW r \in Runs, SweepSavesClient(r) PROVE DrawnOK'
  <2>1. UNCHANGED <<record, drawn, request>> /\ run[r].pc = "saving"
    BY <1>13 DEF SweepSavesClient
  <2>2. \A q \in Runs: run'[q].pc = "saving" => run'[q] = run[q]
    BY <1>1, <1>13 DEF SweepSavesClient, TypeOK, IdleRun
  <2>3. server'.secret <= drawn'
    BY <1>1, <1>2, <1>3, <1>13, <2>1, RunFields
  <2> QED BY <1>1, <1>2, <1>4, <2>1, <2>2, <2>3
<1> QED BY <1>6, <1>7, <1>8, <1>9, <1>10, <1>11, <1>12, <1>13 DEF RunNext

LEMMA DrawnStep == ASSUME McpIInv, Next PROVE DrawnOK'
<1>1. /\ TypeOK /\ drawn \in Nat /\ \A i \in Ids: i \in Nat
      /\ server.secret \in Nat /\ \A a \in Requests: request[a].secret \in Ids
      /\ record \in [Ids -> Ids] /\ 0 \in Ids
  BY Constants DEF McpIInv, TypeOK, Ids, Request, Server
<1>2. /\ record[0] = 0
      /\ \A s \in Ids: s > drawn => record[s] = 0
      /\ server.secret <= drawn
      /\ \A a \in Requests: request[a].secret <= drawn
  BY DEF McpIInv, DrawnOK
<1>3. \A r \in Runs: run[r].pc = "saving" =>
        /\ run[r].id \in 1..drawn
        /\ \A q \in Runs: run[q].pc = "saving" /\ q # r => run[q].id # run[r].id
  BY DEF McpIInv, DrawnOK
\* Actions that leave the runs.
<1>4. ASSUME /\ drawn' \in {drawn, drawn + 1} /\ UNCHANGED run
             /\ server'.secret <= drawn' /\ record'[0] = 0
             /\ \A s \in Ids: s > drawn' => record'[s] = 0
             /\ \A a \in Requests: request'[a].secret <= drawn'
      PROVE  DrawnOK'
  <2>1. drawn' \in Nat /\ drawn <= drawn'
    BY <1>1, <1>4
  <2>2. \A r \in Runs: run[r].pc = "saving" => run[r].id \in 1..drawn'
    BY <1>1, <1>3, <2>1
  <2> QED BY <1>3, <1>4, <2>2 DEF DrawnOK
\* The request that ends.
<1>5. ASSUME NEW a \in Requests, Ends(a), drawn' \in {drawn, drawn + 1}
      PROVE  UNCHANGED run /\ \A b \in Requests: request'[b].secret <= drawn'
  <2>1. UNCHANGED run /\ request' = [request EXCEPT ![a] = IdleRequest]
    BY <1>5 DEF Ends
  <2>2. \A b \in Requests: request'[b].secret \in {0, request[b].secret}
    BY <1>1, <2>1 DEF TypeOK, IdleRequest
  <2>3. \A b \in Requests: request[b].secret <= drawn' /\ 0 <= drawn'
    BY <1>1, <1>2, <1>5
  <2> QED BY <2>1, <2>2, <2>3
<1>6. ASSUME NEW s \in Ids, NEW n \in Nat, drawn <= n,
             record' = Stored(record, s, 0)
      PROVE  record'[0] = 0 /\ \A q \in Ids: q > n => record'[q] = 0
  <2>1. \A q \in Ids: record'[q] \in {0, record[q]}
    BY <1>1, <1>6, StoredFields
  <2> QED BY <1>1, <1>2, <1>6, <2>1
<1>7. CASE RunNext
  BY <1>7, RunDrawn
<1>8. ASSUME NEW a \in Requests, BeginRequest(a) PROVE DrawnOK'
  <2>1. UNCHANGED <<server, record, drawn, run>>
    BY <1>8 DEF BeginRequest, serverVars
  <2>2. \A b \in Requests: request'[b].secret \in {server.secret, request[b].secret}
    BY <1>1, <1>8 DEF BeginRequest, TypeOK
  <2> QED BY <1>1, <1>2, <1>4, <2>1, <2>2
<1>9. ASSUME NEW a \in Requests, NEW c \in Ids, NEW secret \in {"set", "public", "unchanged"},
             PutClient(a, c, secret)
      PROVE  DrawnOK'
  <2> DEFINE s == PutSecret(a, secret)
  <2>1. /\ s \in Ids /\ s \in {0, drawn + 1, request[a].secret}
        /\ There => server'.secret = s
        /\ ~There => server'.secret = server.secret
        /\ drawn' = IF drawn + 1 \in {c, s} THEN drawn + 1 ELSE drawn
        /\ Ends(a)
    BY <1>1, <1>9, PutFields
  <2>2. /\ secret = "set" => s # 0 /\ record' = [record EXCEPT ![s] = c]
        /\ secret = "public" => s = 0 /\ record' = Stored(record, request[a].secret, 0)
        /\ secret = "unchanged" => record' = record
    BY <1>1, <1>9, PutFields
  <2> HIDE DEF s
  <2>3. drawn' \in {drawn, drawn + 1} /\ drawn' \in Nat /\ drawn <= drawn' /\ s <= drawn'
    BY <1>1, <1>2, <2>1
  <2>4. server'.secret <= drawn'
    <3>1. server'.secret \in {s, server.secret}
      BY <2>1
    <3> QED BY <1>1, <1>2, <2>3, <3>1
  <2>5. record'[0] = 0 /\ \A q \in Ids: q > drawn' => record'[q] = 0
    <3>1. CASE secret = "set"
      <4>1. \A q \in Ids: q # s => record'[q] = record[q]
        BY <1>1, <2>2, <3>1
      <4> QED BY <1>1, <1>2, <2>1, <2>2, <2>3, <3>1, <4>1
    <3>2. CASE secret = "public"
      BY <1>1, <1>6, <2>2, <2>3, <3>2
    <3>3. CASE secret = "unchanged"
      BY <1>1, <1>2, <2>2, <2>3, <3>3
    <3> QED BY <3>1, <3>2, <3>3
  <2> QED BY <1>4, <1>5, <2>1, <2>3, <2>4, <2>5
<1>10. ASSUME NEW a \in Requests, RemoveClient(a) \/ DeleteServer(a) PROVE DrawnOK'
  <2>1. /\ server'.secret \in {0, server.secret} /\ UNCHANGED drawn /\ Ends(a)
        /\ record' = Stored(record, request[a].secret, 0)
    BY <1>1, <1>10, RemoveFields
  <2>2. server'.secret <= drawn'
    BY <1>1, <1>2, <2>1
  <2>3. record'[0] = 0 /\ \A q \in Ids: q > drawn' => record'[q] = 0
    BY <1>1, <1>6, <2>1
  <2> QED BY <1>4, <1>5, <2>1, <2>2, <2>3
<1>11. ASSUME NEW a \in Requests, RequestFails(a) PROVE DrawnOK'
  <2>1. UNCHANGED <<server, record, drawn, run>>
    BY <1>11 DEF RequestFails, serverVars
  <2>2. \A b \in Requests: request'[b].secret \in {0, request[b].secret}
    BY <1>1, <1>11 DEF RequestFails, TypeOK, IdleRequest
  <2> QED BY <1>1, <1>2, <1>4, <2>1, <2>2
<1>12. ASSUME NEW t \in Tools, SwitchTool(t) PROVE DrawnOK'
  <2>1. UNCHANGED <<server, record, drawn, run, request>>
    BY <1>12 DEF SwitchTool
  <2> QED BY <1>2, <1>4, <2>1
<1>13. ASSUME NEW s \in Ids, RewrapRead(s) PROVE DrawnOK'
  <2>1. UNCHANGED <<server, record, drawn, run, request>>
    BY <1>13 DEF RewrapRead, serverVars
  <2> QED BY <1>2, <1>4, <2>1
<1>14. CASE RewrapWrite
  <2>1. UNCHANGED <<server, drawn, run, request>>
    BY <1>14 DEF RewrapWrite
  <2>2. \A q \in Ids: record[q] = 0 => record'[q] = 0
    BY <1>1, <1>14 DEF RewrapWrite
  <2> QED BY <1>1, <1>2, <1>4, <2>1, <2>2
<1>15. CASE ConnectNext
  <2>1. UNCHANGED <<record, drawn, run, request>> /\ server'.secret = server.secret
    BY <1>1, <1>15, ConnectKeeps DEF KeepsClient
  <2> QED BY <1>2, <1>4, <2>1
<1> QED
  BY <1>7, <1>8, <1>9, <1>10, <1>11, <1>12, <1>13, <1>14, <1>15 DEF Next, RequestNext

\* The fields that ClientOK and AbsentOK speak of never change type, and only move forward.
LEMMA AbsentStep == ASSUME McpIInv, Next PROVE AbsentOK'
<1>1. TypeOK /\ (~There => server.client = 0)
  BY DEF McpIInv, AbsentOK
<1>2. server.st = "none" =>
        /\ \A s \in Ids: record[s] = 0
        /\ \A r \in Runs: run[r].pc = "idle"
        /\ \A a \in Requests: request[a].pc = "idle"
        /\ \A u \in Users: conn[u].st = "none" /\ flow[u].pc = "idle"
  BY DEF McpIInv, AbsentOK
\* Actions that leave the server's state and client.
<1>3. ASSUME server'.st = server.st, ~There => server'.client = server.client,
             server.st = "none" => UNCHANGED <<record, run, request, conn, flow>>
      PROVE  AbsentOK'
  BY <1>1, <1>2, <1>3 DEF AbsentOK, There
\* Actions of a server that is there, or was.
<1>4. ASSUME server.st # "none", server'.st = server.st, ~There => server'.client = server.client
      PROVE  AbsentOK'
  BY <1>1, <1>4 DEF AbsentOK, There
<1>5. ASSUME NEW a \in Answers, CreateServer(a) PROVE AbsentOK'
  <2>1. server'.st = "there"
    BY <1>1, <1>5, RunFields
  <2> QED BY <2>1 DEF AbsentOK, There
<1>6. CASE CreateUndiscovered
  <2>1. server'.st = "there"
    BY <1>1, <1>6 DEF CreateUndiscovered, TypeOK, Server
  <2> QED BY <2>1 DEF AbsentOK, There
<1>7. ASSUME NEW r \in Runs, NEW kind \in {"request", "sweep"}, BeginRun(r, kind) PROVE AbsentOK'
  <2>1. server.st # "none" /\ UNCHANGED server
    BY <1>7 DEF BeginRun, There, serverVars
  <2> QED BY <1>4, <2>1
<1>8. ASSUME NEW r \in Runs, run[r].pc # "idle", server'.st = server.st,
             ~There => server'.client = server.client
      PROVE  AbsentOK'
  BY <1>2, <1>4, <1>8
<1>9. ASSUME NEW r \in Runs, RunFails(r) \/ SweepRegisters(r) \/ SweepEnds(r) PROVE AbsentOK'
  <2>1. run[r].pc # "idle" /\ UNCHANGED server
    BY <1>9 DEF RunFails, SweepRegisters, SweepEnds, serverVars
  <2> QED BY <1>8, <2>1
<1>10. ASSUME NEW r \in Runs, NEW a \in Answers, RequestSaves(r, a) \/ SweepSaves(r, a)
       PROVE  AbsentOK'
  <2>1. run[r].pc # "idle"
    BY <1>10 DEF RequestSaves, SweepSaves
  <2>2. server'.st = server.st /\ (~There => server'.client = server.client)
    BY <1>1, <1>10, RunFields DEF KeepsClient
  <2> QED BY <1>8, <2>1, <2>2
<1>11. ASSUME NEW r \in Runs, SweepSavesClient(r) PROVE AbsentOK'
  <2>1. run[r].pc # "idle"
    BY <1>11 DEF SweepSavesClient
  <2> QED BY <1>1, <1>8, <1>11, <2>1, RunFields
<1>12. ASSUME NEW a \in Requests, BeginRequest(a) PROVE AbsentOK'
  <2>1. server.st # "none" /\ UNCHANGED server
    BY <1>12 DEF BeginRequest, There, serverVars
  <2> QED BY <1>4, <2>1
<1>13. ASSUME NEW a \in Requests, request[a].pc # "idle", server'.st = server.st,
              ~There => server'.client = server.client
       PROVE  AbsentOK'
  BY <1>2, <1>4, <1>13
<1>14. ASSUME NEW a \in Requests, NEW c \in Ids, NEW secret \in {"set", "public", "unchanged"},
              PutClient(a, c, secret)
       PROVE  AbsentOK'
  <2>1. request[a].pc # "idle"
    BY <1>14 DEF PutClient
  <2> QED BY <1>1, <1>13, <1>14, <2>1, PutFields
<1>15. ASSUME NEW a \in Requests, RemoveClient(a) PROVE AbsentOK'
  <2>1. request[a].pc # "idle"
    BY <1>15 DEF RemoveClient
  <2> QED BY <1>1, <1>13, <1>15, <2>1, RemoveFields
<1>16. ASSUME NEW a \in Requests, DeleteServer(a) PROVE AbsentOK'
  <2>1. server'.st = "gone" /\ server'.client = 0
    BY <1>1, <1>16, RemoveFields
  <2> QED BY <2>1 DEF AbsentOK, There
<1>17. ASSUME NEW a \in Requests, RequestFails(a) PROVE AbsentOK'
  <2>1. request[a].pc # "idle" /\ UNCHANGED server
    BY <1>17 DEF RequestFails, serverVars
  <2> QED BY <1>13, <2>1
<1>18. ASSUME NEW t \in Tools, SwitchTool(t) PROVE AbsentOK'
  BY <1>3, <1>18 DEF SwitchTool, connVars
<1>19. ASSUME NEW s \in Ids, RewrapRead(s) PROVE AbsentOK'
  BY <1>3, <1>19 DEF RewrapRead, serverVars, connVars
<1>20. CASE RewrapWrite
  <2>1. UNCHANGED <<server, run, request, conn, flow>>
    BY <1>20 DEF RewrapWrite, connVars
  <2>2. rewrap.id \in Ids
    BY <1>1 DEF TypeOK
  <2>3. server.st = "none" => UNCHANGED record
    BY <1>2, <1>20, <2>2 DEF RewrapWrite
  <2> QED BY <1>3, <2>1, <2>3
<1>21. ASSUME NEW u \in Users,
              \/ ResolveKey(u) \/ StoreKey(u)
              \/ Resolve(u) \/ Redirect(u) \/ Exchange(u) \/ ExchangeRefused(u)
              \/ StoreConnection(u) \/ FlowEnds(u) \/ Disconnect(u)
       PROVE  AbsentOK'
  <2>1. KeepsClient
    <3>1. ConnectNext
      BY <1>21 DEF ConnectNext
    <3> QED BY <1>1, <3>1, ConnectKeeps
  <2>2. There \/ flow[u].pc # "idle" \/ conn[u].st # "none"
    BY <1>21 DEF ResolveKey, StoreKey, Resolve, Redirect, Exchange, ExchangeRefused,
                 StoreConnection, FlowEnds, Disconnect
  <2>3. server.st # "none"
    BY <1>2, <2>2 DEF There
  <2> QED BY <1>4, <2>1, <2>3 DEF KeepsClient
<1> QED
  BY <1>5, <1>6, <1>7, <1>9, <1>10, <1>11, <1>12, <1>14, <1>15, <1>16, <1>17, <1>18, <1>19,
     <1>20, <1>21 DEF Next, RunNext, RequestNext, ConnectNext

\* What was overtaken stays so.
LEMMA Overtaken == ASSUME TypeOK, Next PROVE overtaken => overtaken'
<1>1. CASE RunNext
  <2>1. overtaken' = overtaken \/ \E o \in BOOLEAN: overtaken' = (overtaken \/ o)
    BY <1>1 DEF RunNext, CreateServer, CreateUndiscovered, BeginRun, RunFails, RequestSaves,
                SweepSaves, SweepRegisters, SweepSavesClient, SweepEnds, historyVars
  <2> QED BY <2>1
<1>2. ASSUME NEW a \in Requests, Ends(a) PROVE overtaken => overtaken'
  BY <1>2 DEF Ends
<1>3. CASE RequestNext
  <2>1. UNCHANGED overtaken \/ \E a \in Requests: Ends(a)
    BY <1>3 DEF RequestNext, BeginRequest, PutClient, RemoveClient, DeleteServer, RequestFails,
                SwitchTool, historyVars
  <2> QED BY <1>2, <2>1
<1>4. CASE \E s \in Ids: RewrapRead(s)
  BY <1>4 DEF RewrapRead, historyVars
<1>5. CASE RewrapWrite
  BY <1>5 DEF RewrapWrite
<1>6. CASE ConnectNext
  BY <1>6, ConnectKeeps
<1> QED BY <1>1, <1>3, <1>4, <1>5, <1>6 DEF Next

LEMMA ClientStep == ASSUME McpIInv, Next PROVE ClientOK'
<1>1. TypeOK /\ drawn \in Nat /\ drawn + 1 # 0
  <2>1. TypeOK /\ drawn \in Nat
    BY Constants DEF McpIInv, TypeOK
  <2> QED BY <2>1
<1>2. /\ server.client = 0 => server.secret = 0
      /\ server.type = "api_key" => server.client = 0
  BY DEF McpIInv, ClientOK
<1>3. \A r \in Runs: run[r].pc \in {"registering", "saving"} =>
        run[r].client = 0 /\ server.type = "oauth2"
  BY DEF McpIInv, ClientOK
<1>4. /\ \A u \in Users: flow[u].pc = "keyed" => server.type = "api_key"
      /\ \A u \in Users: flow[u].pc \in {"resolved", "redirected", "exchanged"} => flow[u].client # 0
      /\ ~overtaken =>
           \A u \in Users: conn[u].st = "connected" /\ server.type = "oauth2" => conn[u].client # 0
      /\ overtaken => overtaken'
  BY Overtaken DEF McpIInv, ClientOK
\* Actions that are not the users'.
<1>5. ASSUME server'.type = server.type,
             server'.client = 0 => server'.secret = 0,
             server.type = "api_key" => server'.client = 0,
             \A r \in Runs: run'[r].pc \in {"registering", "saving"} =>
               run'[r].client = 0 /\ server.type = "oauth2",
             UNCHANGED flow,
             \A u \in Users: conn'[u].st = "connected" => conn'[u] = conn[u]
      PROVE  ClientOK'
  BY <1>4, <1>5 DEF ClientOK
\* Runs that end.
<1>6. ASSUME NEW r \in Runs, run' = [run EXCEPT ![r] = IdleRun]
      PROVE  \A q \in Runs: run'[q].pc \in {"registering", "saving"} =>
               run'[q].client = 0 /\ server.type = "oauth2"
  <2>1. \A q \in Runs: run'[q] = run[q] \/ run'[q].pc = "idle"
    BY <1>1, <1>6 DEF TypeOK, IdleRun
  <2> QED BY <1>3, <2>1
<1>7. ASSUME NEW a \in Answers, CreateServer(a) PROVE ClientOK'
  <2>1. UNCHANGED <<run, conn, flow>>
    BY <1>7 DEF CreateServer, connVars
  <2>2. /\ server'.type = server.type
        /\ \/ server'.client = server.client /\ server'.secret = server.secret
           \/ server.type = "oauth2" /\ server'.client = drawn + 1
    BY <1>1, <1>7, RunFields
  <2>3. server'.client = 0 => server'.secret = 0
    BY <1>1, <1>2, <2>2
  <2>4. server.type = "api_key" => server'.client = 0
    BY <1>2, <2>2
  <2> QED BY <1>3, <1>5, <2>1, <2>2, <2>3, <2>4
<1>8. CASE CreateUndiscovered
  <2>1. UNCHANGED <<run, conn, flow>>
    BY <1>8 DEF CreateUndiscovered, connVars
  <2>2. /\ server'.type = server.type
        /\ server'.client = server.client /\ server'.secret = server.secret
    BY <1>1, <1>8 DEF CreateUndiscovered, TypeOK, Server
  <2> QED BY <1>2, <1>3, <1>5, <2>1, <2>2
<1>9. ASSUME NEW r \in Runs, NEW kind \in {"request", "sweep"}, BeginRun(r, kind) PROVE ClientOK'
  <2>1. UNCHANGED <<server, conn, flow>>
    BY <1>9 DEF BeginRun, serverVars, connVars
  <2>2. \A q \in Runs: run'[q] = run[q] \/ run'[q].pc = "asked"
    BY <1>1, <1>9 DEF BeginRun, TypeOK, IdleRun
  <2> QED BY <1>2, <1>3, <1>5, <2>1, <2>2
<1>10. ASSUME NEW r \in Runs, RunFails(r) \/ SweepEnds(r) PROVE ClientOK'
  <2>1. UNCHANGED <<server, conn, flow>> /\ run' = [run EXCEPT ![r] = IdleRun]
    BY <1>10 DEF RunFails, SweepEnds, serverVars, connVars
  <2> QED BY <1>2, <1>5, <1>6, <2>1
<1>11. ASSUME NEW r \in Runs, NEW a \in Answers, RequestSaves(r, a) PROVE ClientOK'
  <2>1. UNCHANGED <<conn, flow>> /\ run' = [run EXCEPT ![r] = IdleRun]
    BY <1>11 DEF RequestSaves, connVars
  <2>2. /\ server'.type = server.type
        /\ \/ server'.client = server.client /\ server'.secret = server.secret
           \/ server.type = "oauth2" /\ server'.client = drawn + 1
    BY <1>1, <1>11, RunFields DEF KeepsClient
  <2>3. server'.client = 0 => server'.secret = 0
    BY <1>1, <1>2, <2>2
  <2>4. server.type = "api_key" => server'.client = 0
    BY <1>2, <2>2
  <2> QED BY <1>5, <1>6, <2>1, <2>2, <2>3, <2>4
<1>12. ASSUME NEW r \in Runs, NEW a \in Answers, SweepSaves(r, a) PROVE ClientOK'
  <2>1. UNCHANGED <<conn, flow>> /\ KeepsClient
    BY <1>1, <1>12, RunFields DEF SweepSaves, connVars
  <2>2. \A q \in Runs: q # r => run'[q] = run[q]
    BY <1>1, <1>12 DEF SweepSaves, TypeOK
  <2>3. CASE Registers(r, a)
    <3>1. run'[r].client = run[r].client
      BY <1>1, <1>12, <2>3 DEF SweepSaves, TypeOK, Run
    <3>2. run[r].client = 0 /\ server.type = "oauth2"
      BY <2>3 DEF Registers
    <3> QED BY <1>2, <1>3, <1>5, <2>1, <2>2, <3>1, <3>2 DEF KeepsClient
  <2>4. CASE ~Registers(r, a)
    <3>1. run' = [run EXCEPT ![r] = IdleRun]
      BY <1>12, <2>4 DEF SweepSaves
    <3> QED BY <1>2, <1>5, <1>6, <2>1, <3>1 DEF KeepsClient
  <2> QED BY <2>3, <2>4
<1>13. ASSUME NEW r \in Runs, SweepRegisters(r) PROVE ClientOK'
  <2>1. UNCHANGED <<server, conn, flow>> /\ run[r].pc = "registering"
    BY <1>13 DEF SweepRegisters, connVars
  <2>2. run'[r].client = run[r].client /\ \A q \in Runs: q # r => run'[q] = run[q]
    BY <1>1, <1>13 DEF SweepRegisters, TypeOK, Run
  <2>3. \A q \in Runs: run'[q].pc \in {"registering", "saving"} =>
          run'[q].client = 0 /\ server.type = "oauth2"
    BY <1>3, <2>1, <2>2
  <2> QED BY <1>2, <1>5, <2>1, <2>3
<1>14. ASSUME NEW r \in Runs, SweepSavesClient(r) PROVE ClientOK'
  <2>1. UNCHANGED <<conn, flow>> /\ run' = [run EXCEPT ![r] = IdleRun] /\ run[r].pc = "saving"
    BY <1>14 DEF SweepSavesClient, connVars
  <2>2. run[r].id # 0 /\ server.type = "oauth2"
    <3>1. run[r].id \in 1..drawn
      BY <2>1 DEF McpIInv, DrawnOK
    <3> QED BY <1>1, <1>3, <2>1, <3>1
  <2>3. /\ server'.type = server.type
        /\ \/ server'.client = server.client /\ server'.secret = server.secret
           \/ server'.client = run[r].id
    BY <1>1, <1>14, RunFields
  <2>4. server'.client = 0 => server'.secret = 0
    BY <1>2, <2>2, <2>3
  <2> QED BY <1>5, <1>6, <2>1, <2>2, <2>3, <2>4
\* The requests leave the runs, and what they do to connections makes none of them connected.
<1>15. \A u \in Users: Expired[u].st = "connected" => Expired[u] = conn[u]
  BY DEF Expired
<1>16. ASSUME NEW a \in Requests, Ends(a), server'.type = server.type,
              server'.client = 0 => server'.secret = 0,
              server.type = "api_key" => server'.client = 0,
              conn' \in {conn, Expired, [u \in Users |-> NoConnection]}
       PROVE  ClientOK'
  <2>1. UNCHANGED <<run, flow>>
    BY <1>16 DEF Ends
  <2>2. \A u \in Users: conn'[u].st = "connected" => conn'[u] = conn[u]
    BY <1>15, <1>16 DEF NoConnection
  <2> QED BY <1>3, <1>5, <1>16, <2>1, <2>2
<1>17. ASSUME NEW a \in Requests, NEW c \in Ids, NEW secret \in {"set", "public", "unchanged"},
              PutClient(a, c, secret)
       PROVE  ClientOK'
  <2>1. /\ c # 0 /\ server.type = "oauth2" /\ server'.type = server.type /\ Ends(a)
        /\ \/ server'.client = server.client /\ server'.secret = server.secret
           \/ server'.client = c
        /\ conn' \in {conn, Expired}
    BY <1>1, <1>17, PutFields
  <2>2. server'.client = 0 => server'.secret = 0
    BY <1>2, <2>1
  <2> QED BY <1>16, <2>1, <2>2
<1>18. ASSUME NEW a \in Requests, RemoveClient(a) PROVE ClientOK'
  <2>1. /\ server'.type = server.type /\ Ends(a)
        /\ \/ server'.client = server.client /\ server'.secret = server.secret
           \/ server'.client = 0 /\ server'.secret = 0
        /\ conn' \in {conn, Expired}
    BY <1>1, <1>18, RemoveFields
  <2> QED BY <1>2, <1>16, <2>1
<1>19. ASSUME NEW a \in Requests, DeleteServer(a) PROVE ClientOK'
  BY <1>1, <1>16, <1>19, RemoveFields
<1>20. ASSUME NEW a \in Requests, BeginRequest(a) \/ RequestFails(a) PROVE ClientOK'
  <2>1. UNCHANGED <<server, run, conn, flow>>
    BY <1>20 DEF BeginRequest, RequestFails, serverVars, connVars
  <2> QED BY <1>2, <1>3, <1>5, <2>1
<1>21. ASSUME NEW t \in Tools, SwitchTool(t) PROVE ClientOK'
  <2>1. UNCHANGED <<server, run, conn, flow>>
    BY <1>21 DEF SwitchTool, connVars
  <2> QED BY <1>2, <1>3, <1>5, <2>1
<1>22. CASE (\E s \in Ids: RewrapRead(s)) \/ RewrapWrite
  <2>1. UNCHANGED <<server, run, conn, flow>>
    BY <1>22 DEF RewrapRead, RewrapWrite, serverVars, connVars
  <2> QED BY <1>2, <1>3, <1>5, <2>1
\* The users' actions.
<1>23. ASSUME NEW u \in Users,
              \/ ResolveKey(u) \/ StoreKey(u)
              \/ Resolve(u) \/ Redirect(u) \/ Exchange(u) \/ ExchangeRefused(u)
              \/ StoreConnection(u) \/ FlowEnds(u) \/ Disconnect(u)
       PROVE  ClientOK'
  <2>1. KeepsClient /\ UNCHANGED run
    <3>1. ConnectNext
      BY <1>23 DEF ConnectNext
    <3> QED BY <1>1, <3>1, ConnectKeeps
  <2>2. /\ \A v \in Users: v # u => flow'[v] = flow[v] /\ conn'[v] = conn[v]
        /\ flow[u] \in Flow /\ conn[u] \in Connection
    BY <1>1, <1>23 DEF ResolveKey, StoreKey, Resolve, Redirect, Exchange, ExchangeRefused,
                       StoreConnection, FlowEnds, Disconnect, TypeOK
  <2>3. ASSUME flow'[u].pc = "keyed" => server.type = "api_key",
               flow'[u].pc \in {"resolved", "redirected", "exchanged"} => flow'[u].client # 0,
               ~overtaken' /\ conn'[u].st = "connected" /\ server.type = "oauth2" =>
                 conn'[u].client # 0
        PROVE  ClientOK'
    BY <1>2, <1>3, <1>4, <2>1, <2>2, <2>3 DEF ClientOK, KeepsClient
  <2>4. CASE ResolveKey(u)
    <3>1. flow'[u].pc = "keyed" /\ server.type = "api_key" /\ UNCHANGED conn
      BY <1>1, <2>4 DEF ResolveKey, TypeOK, IdleFlow
    <3> QED BY <1>4, <2>3, <3>1
  <2>5. CASE StoreKey(u)
    <3>1. flow[u].pc = "keyed" /\ flow'[u].pc = "idle"
      BY <1>1, <2>5 DEF StoreKey, TypeOK, IdleFlow
    <3> QED BY <1>4, <2>3, <3>1
  <2>6. CASE Resolve(u)
    <3>1. flow'[u].pc = "resolved" /\ flow'[u].client = server.client /\ server.client # 0
          /\ UNCHANGED conn
      BY <1>1, <2>6 DEF Resolve, TypeOK, IdleFlow
    <3> QED BY <1>4, <2>3, <3>1
  <2>7. CASE Redirect(u)
    <3>1. flow[u].pc = "resolved" /\ flow'[u].pc = "redirected" /\ flow'[u].client = flow[u].client
      BY <1>1, <2>2, <2>7 DEF Redirect, TypeOK, Flow
    <3>2. conn'[u] = conn[u] \/ conn'[u].st = "pending"
      BY <1>1, <2>2, <2>7 DEF Redirect, TypeOK, Connection
    <3> QED BY <1>4, <2>3, <3>1, <3>2
  <2>8. CASE Exchange(u)
    <3>1. /\ flow[u].pc = "redirected" /\ flow'[u].pc = "exchanged"
          /\ flow'[u].client = server.client /\ server.client # 0 /\ UNCHANGED conn
      BY <1>1, <2>2, <2>8 DEF Exchange, TypeOK, Flow
    <3> QED BY <1>4, <2>3, <3>1
  <2>9. CASE ExchangeRefused(u)
    <3>1. flow'[u].pc = "idle"
      BY <1>1, <2>9 DEF ExchangeRefused, TypeOK, IdleFlow
    <3>2. /\ conn'[u].client = conn[u].client
          /\ conn'[u].st = "connected" => flow[u].was
      BY <1>1, <2>2, <2>9 DEF ExchangeRefused, TypeOK, Connection
    <3>3. ~overtaken' => ~overtaken /\ (flow[u].was => conn[u].st = "connected")
      BY <2>9 DEF ExchangeRefused
    <3> QED BY <1>4, <2>3, <3>1, <3>2, <3>3
  <2>10. CASE StoreConnection(u)
    <3>1. flow[u].pc = "exchanged" /\ flow'[u].pc = "idle" /\ conn'[u].client = flow[u].client
      BY <1>1, <2>10 DEF StoreConnection, TypeOK, IdleFlow
    <3> QED BY <1>4, <2>3, <3>1
  <2>11. CASE FlowEnds(u)
    <3>1. flow'[u].pc = "idle" /\ UNCHANGED conn
      BY <1>1, <2>11 DEF FlowEnds, TypeOK, IdleFlow
    <3> QED BY <1>4, <2>3, <3>1
  <2>12. CASE Disconnect(u)
    <3>1. conn'[u].st = "none" /\ UNCHANGED flow
      BY <1>1, <2>12 DEF Disconnect, TypeOK, NoConnection
    <3> QED BY <1>4, <2>3, <3>1
  <2> QED BY <1>23, <2>4, <2>5, <2>6, <2>7, <2>8, <2>9, <2>10, <2>11, <2>12
<1> QED
  BY <1>7, <1>8, <1>9, <1>10, <1>11, <1>12, <1>13, <1>14, <1>17, <1>18, <1>19, <1>20, <1>21,
     <1>22, <1>23 DEF Next, RunNext, RequestNext, ConnectNext

\* A record that is re-wrapped as it is does not change.
LEMMA RewrapKeeps ==
  ASSUME TypeOK, (\E s \in Ids: RewrapRead(s)) \/ RewrapWrite, ~overtaken'
  PROVE  UNCHANGED <<server, record, drawn, run, conn, interrupted>>
<1>1. CASE \E s \in Ids: RewrapRead(s)
  BY <1>1 DEF RewrapRead, serverVars, connVars, historyVars
<1>2. CASE RewrapWrite
  <2>1. UNCHANGED <<server, drawn, run, conn, interrupted>> /\ record[rewrap.id] = rewrap.holds
    BY <1>2 DEF RewrapWrite, connVars
  <2>2. record' = record \/ record' = [record EXCEPT ![rewrap.id] = record[rewrap.id]]
    BY <1>2, <2>1 DEF RewrapWrite
  <2>3. record \in [Ids -> Ids]
    BY DEF TypeOK
  <2> QED BY <2>1, <2>2, <2>3
<1> QED BY <1>1, <1>2

\* A run saves a client for a server that has none, unless it was overtaken.
LEMMA SavedOnce ==
  ASSUME McpIInv, ~overtaken', NEW r \in Runs
  PROVE  /\ \A a \in Answers: RequestSaves(r, a) =>
              \/ KeepsClient /\ UNCHANGED <<record, drawn>>
              \/ LET s == NewSecret(a, drawn + 1)
                 IN  /\ drawn + 1 <= MaxIds /\ drawn' = drawn + 1 /\ server.type = "oauth2"
                     /\ There /\ server'.st = "there" /\ server'.type = server.type
                     /\ server.client = 0 /\ server.secret = 0
                     /\ server'.client = drawn + 1 /\ server'.secret = s
                     /\ record' = Stored(record, s, drawn + 1)
         /\ SweepSavesClient(r) =>
              /\ There /\ server'.st = "there" /\ server'.type = server.type
              /\ server.client = 0 /\ server.secret = 0 /\ server.type = "oauth2"
              /\ server'.client = run[r].id
              /\ server'.secret = IF run[r].confidential THEN run[r].id ELSE 0
              /\ UNCHANGED record
<1>1. TypeOK /\ (server.client = 0 => server.secret = 0)
  BY DEF McpIInv, ClientOK
<1>2. ASSUME NEW a \in Answers, RequestSaves(r, a)
      PROVE  \/ KeepsClient /\ UNCHANGED <<record, drawn>>
             \/ LET s == NewSecret(a, drawn + 1)
                IN  /\ drawn + 1 <= MaxIds /\ drawn' = drawn + 1 /\ server.type = "oauth2"
                    /\ There /\ server'.st = "there" /\ server'.type = server.type
                    /\ server.client = 0 /\ server.secret = 0
                    /\ server'.client = drawn + 1 /\ server'.secret = s
                    /\ record' = Stored(record, s, drawn + 1)
  <2>1. CASE ~Registers(r, a)
    <3>1. UNCHANGED <<record, drawn>>
      BY <1>2, <2>1 DEF RequestSaves
    <3>2. server' = IF There THEN Contract(server, a) ELSE server
      BY <1>2, <2>1 DEF RequestSaves
    <3>3. KeepsClient
      BY <1>1, <3>2, ContractFields DEF KeepsClient, TypeOK
    <3> QED BY <3>1, <3>3
  <2>2. CASE Registers(r, a)
    <3>1. /\ server.type = "oauth2" /\ run[r].client = 0 /\ drawn + 1 <= MaxIds
          /\ drawn' = drawn + 1 /\ record' = Stored(record, NewSecret(a, drawn + 1), drawn + 1)
          /\ server' = WithClient(IF There THEN Contract(server, a) ELSE server, drawn + 1,
                                  NewSecret(a, drawn + 1), "dynamic")
          /\ overtaken' = (overtaken \/ ~Current(run[r].client))
      BY <1>2, <2>2 DEF RequestSaves, Registers
    <3>2. Current(run[r].client)
      BY <3>1
    <3>3. There /\ server.client = 0
      BY <3>1, <3>2 DEF Current
    <3>4. /\ Contract(server, a) \in Server
          /\ Contract(server, a).st = "there" /\ Contract(server, a).type = server.type
      BY <1>1, <3>3, WrittenTypes, ContractFields DEF TypeOK, There
    <3>5. drawn + 1 \in Ids /\ NewSecret(a, drawn + 1) \in Ids
      BY <1>1, <3>1, NextId
    <3>6. /\ server'.st = "there" /\ server'.type = server.type
          /\ server'.client = drawn + 1 /\ server'.secret = NewSecret(a, drawn + 1)
      BY <3>1, <3>3, <3>4, <3>5, ClientFields
    <3> QED BY <1>1, <3>1, <3>3, <3>6
  <2> QED BY <2>1, <2>2
<1>3. ASSUME SweepSavesClient(r)
      PROVE  /\ There /\ server'.st = "there" /\ server'.type = server.type
             /\ server.client = 0 /\ server.secret = 0 /\ server.type = "oauth2"
             /\ server'.client = run[r].id
             /\ server'.secret = IF run[r].confidential THEN run[r].id ELSE 0
             /\ UNCHANGED record
  <2>1. overtaken' = (overtaken \/ ~Current(run[r].client)) /\ run[r].pc = "saving"
        /\ UNCHANGED record
    BY <1>3 DEF SweepSavesClient
  <2>2. Current(run[r].client)
    BY <2>1
  <2>3. run[r].client = 0 /\ server.type = "oauth2"
    BY <2>1 DEF McpIInv, ClientOK
  <2>4. There /\ server.client = 0
    BY <2>2, <2>3 DEF Current
  <2> QED BY <1>1, <1>3, <2>1, <2>3, <2>4, RunFields DEF There
<1> QED BY <1>2, <1>3

LEMMA HeldStep == ASSUME McpIInv, Next PROVE HeldOK'
<1> SUFFICES ASSUME ~overtaken' PROVE HeldOK'
  BY DEF HeldOK
<1>1. TypeOK /\ record \in [Ids -> Ids] /\ 0 \in Ids /\ drawn \in Nat /\ ~overtaken
      /\ server.secret \in Nat
  <2>1. TypeOK
    BY DEF McpIInv
  <2>2. ~overtaken
    BY <2>1, Overtaken
  <2> QED BY <2>1, <2>2, Constants DEF TypeOK, Server
<1>2. \A r \in Runs: run[r].pc = "saving" =>
        /\ run[r].id # server.secret
        /\ record[run[r].id] = IF run[r].confidential THEN run[r].id ELSE 0
  BY <1>1 DEF McpIInv, HeldOK
<1>3. \A r \in Runs: run[r].pc = "saving" =>
        /\ run[r].id \in 1..drawn /\ run[r].id \in Ids
        /\ \A q \in Runs: run[q].pc = "saving" /\ q # r => run[q].id # run[r].id
  BY <1>1 DEF McpIInv, DrawnOK, TypeOK, Run
<1>4. /\ record[0] = 0 /\ server.secret <= drawn
      /\ \A s \in Ids: s > drawn => record[s] = 0
  BY DEF McpIInv, DrawnOK
\* Actions that neither start saving nor touch the records that are held.
<1>5. ASSUME \A r \in Runs: run'[r].pc = "saving" =>
               /\ run'[r] = run[r]
               /\ server'.secret # run[r].id
               /\ record'[run[r].id] = record[run[r].id]
      PROVE  HeldOK'
  BY <1>2, <1>5 DEF HeldOK
<1>6. ASSUME server'.secret = server.secret, UNCHANGED record,
             \A r \in Runs: run'[r].pc = "saving" => run'[r] = run[r]
      PROVE  HeldOK'
  BY <1>2, <1>5, <1>6
<1>7. ASSUME NEW a \in Answers, CreateServer(a) PROVE HeldOK'
  <2>1. server.st = "none" /\ UNCHANGED run
    BY <1>7 DEF CreateServer
  <2>2. \A r \in Runs: run'[r].pc = "idle"
    BY <2>1 DEF McpIInv, AbsentOK
  <2> QED BY <1>5, <2>2
<1>8. CASE CreateUndiscovered
  <2>1. server'.secret = server.secret /\ UNCHANGED <<record, run>>
    BY <1>1, <1>8 DEF CreateUndiscovered, TypeOK, Server
  <2> QED BY <1>6, <2>1
<1>9. ASSUME NEW r \in Runs, NEW kind \in {"request", "sweep"}, BeginRun(r, kind) PROVE HeldOK'
  <2>1. UNCHANGED <<server, record>>
    BY <1>9 DEF BeginRun, serverVars
  <2>2. \A q \in Runs: run'[q].pc = "saving" => run'[q] = run[q]
    BY <1>1, <1>9 DEF BeginRun, TypeOK, IdleRun
  <2> QED BY <1>6, <2>1, <2>2
<1>10. ASSUME NEW r \in Runs, run' = [run EXCEPT ![r] = IdleRun]
       PROVE  /\ \A q \in Runs: run'[q].pc = "saving" => run'[q] = run[q]
              /\ run'[r].pc # "saving"
  BY <1>1, <1>10 DEF TypeOK, IdleRun
<1>11. ASSUME NEW r \in Runs, RunFails(r) \/ SweepEnds(r) PROVE HeldOK'
  <2>1. UNCHANGED <<server, record>> /\ run' = [run EXCEPT ![r] = IdleRun]
    BY <1>11 DEF RunFails, SweepEnds, serverVars
  <2> QED BY <1>6, <1>10, <2>1
<1>12. ASSUME NEW r \in Runs, NEW a \in Answers, RequestSaves(r, a) PROVE HeldOK'
  <2>1. run' = [run EXCEPT ![r] = IdleRun]
    BY <1>12 DEF RequestSaves
  <2>2. CASE KeepsClient /\ UNCHANGED record
    BY <1>6, <1>10, <2>1, <2>2 DEF KeepsClient
  <2>3. CASE /\ drawn + 1 <= MaxIds /\ server'.secret = NewSecret(a, drawn + 1)
             /\ record' = Stored(record, NewSecret(a, drawn + 1), drawn + 1)
    <3>1. NewSecret(a, drawn + 1) \in {0, drawn + 1} /\ NewSecret(a, drawn + 1) \in Ids
          /\ drawn + 1 \in Ids
      BY <1>1, <2>3, NextId
    <3>2. \A q \in Runs: run[q].pc = "saving" => run[q].id # NewSecret(a, drawn + 1)
      BY <1>1, <1>3, <3>1
    <3>3. \A q \in Runs: run[q].pc = "saving" => record'[run[q].id] = record[run[q].id]
      BY <1>1, <1>3, <2>3, <3>1, <3>2, StoredFields
    <3> QED BY <1>5, <1>10, <2>1, <2>3, <3>2, <3>3
  <2> QED BY <1>12, <2>2, <2>3, SavedOnce
<1>13. ASSUME NEW r \in Runs, NEW a \in Answers, SweepSaves(r, a) PROVE HeldOK'
  <2>1. UNCHANGED record /\ KeepsClient
    BY <1>1, <1>13, RunFields DEF SweepSaves
  <2>2. \A q \in Runs: run'[q].pc = "saving" => run'[q] = run[q]
    BY <1>1, <1>13 DEF SweepSaves, TypeOK, IdleRun, Run
  <2> QED BY <1>6, <2>1, <2>2 DEF KeepsClient
<1>14. ASSUME NEW r \in Runs, SweepRegisters(r) PROVE HeldOK'
  <2>1. /\ drawn + 1 \in Ids /\ UNCHANGED server /\ run'[r].id = drawn + 1
        /\ run'[r].confidential = run[r].confidential
        /\ \A q \in Runs: q # r => run'[q] = run[q]
    <3>1. drawn + 1 <= MaxIds /\ UNCHANGED server
          /\ run' = [run EXCEPT ![r].pc = "saving", ![r].id = drawn + 1]
      BY <1>14 DEF SweepRegisters
    <3>2. drawn + 1 \in Ids
      BY <1>1, <3>1, Constants DEF Ids
    <3>3. run \in [Runs -> Run] /\ run[r] \in Run
      BY <1>1 DEF TypeOK
    <3>4. /\ run'[r].id = drawn + 1 /\ run'[r].confidential = run[r].confidential
          /\ \A q \in Runs: q # r => run'[q] = run[q]
      BY <3>1, <3>3 DEF Run
    <3> QED BY <3>1, <3>2, <3>4
  <2>2. /\ record'[drawn + 1] = IF run[r].confidential THEN drawn + 1 ELSE 0
        /\ \A s \in Ids: s # drawn + 1 => record'[s] = record[s]
    <3>1. record[drawn + 1] = 0
      BY <1>1, <1>4, <2>1
    <3>2. record' = IF run[r].confidential THEN [record EXCEPT ![drawn + 1] = drawn + 1] ELSE record
      BY <1>14 DEF SweepRegisters
    <3> QED BY <1>1, <2>1, <3>1, <3>2
  <2>3. ASSUME NEW q \in Runs, run'[q].pc = "saving", q # r
        PROVE  /\ run'[q].id # server.secret
               /\ record'[run'[q].id] = IF run'[q].confidential THEN run'[q].id ELSE 0
    <3>1. run'[q] = run[q] /\ run[q].id \in Ids /\ run[q].id # drawn + 1
      BY <1>1, <1>3, <2>1, <2>3
    <3> QED BY <1>2, <2>2, <2>3, <3>1
  <2>4. drawn + 1 # server.secret
    BY <1>1, <1>4
  <2> QED BY <2>1, <2>2, <2>3, <2>4 DEF HeldOK
<1>15. ASSUME NEW r \in Runs, SweepSavesClient(r) PROVE HeldOK'
  <2>1. run' = [run EXCEPT ![r] = IdleRun] /\ UNCHANGED record /\ run[r].pc = "saving"
    BY <1>15 DEF SweepSavesClient
  <2>2. server'.secret \in {0, run[r].id}
    BY <1>15, SavedOnce
  <2>3. \A q \in Runs: run'[q].pc = "saving" => server'.secret # run[q].id
    <3> SUFFICES ASSUME NEW q \in Runs, run'[q].pc = "saving" PROVE server'.secret # run[q].id
      OBVIOUS
    <3>1. run[q].pc = "saving" /\ q # r
      BY <1>10, <2>1
    <3>2. run[q].id # 0 /\ run[q].id # run[r].id
      BY <1>1, <1>3, <2>1, <3>1
    <3> QED BY <2>2, <3>2
  <2> QED BY <1>5, <1>10, <2>1, <2>3
\* Requests: the secret they write is none, a new one, or the server's.
<1>16. ASSUME NEW a \in Requests, Ends(a),
              server'.secret \in {0, drawn + 1, server.secret},
              \A s \in Ids: s \notin {0, drawn + 1, server.secret} => record'[s] = record[s]
       PROVE  HeldOK'
  <2>1. UNCHANGED run
    BY <1>16 DEF Ends
  <2>2. \A r \in Runs: run[r].pc = "saving" => run[r].id \notin {0, drawn + 1, server.secret}
    BY <1>1, <1>2, <1>3
  <2> QED BY <1>3, <1>5, <1>16, <2>1, <2>2
<1>17. ASSUME NEW a \in Requests, NEW c \in Ids, NEW secret \in {"set", "public", "unchanged"},
              PutClient(a, c, secret)
       PROVE  HeldOK'
  <2>1. Ends(a)
    BY <1>1, <1>17, PutFields
  <2>2. There /\ server.secret = request[a].secret /\ request[a].secret \in Ids
    BY <1>1, <2>1, NotStale DEF TypeOK, Request
  <2>3. server'.secret \in {0, drawn + 1, server.secret}
    BY <1>1, <1>17, <2>2, PutFields
  <2>4. \A s \in Ids: s \notin {0, drawn + 1, server.secret} => record'[s] = record[s]
    <3>1. CASE secret = "set"
      BY <1>1, <1>17, <2>2, <3>1, PutFields
    <3>2. CASE secret = "public"
      <4>1. record' = Stored(record, server.secret, 0)
        BY <1>1, <1>17, <2>2, <3>2, PutFields
      <4> QED BY <1>1, <2>2, <4>1, StoredFields
    <3>3. CASE secret = "unchanged"
      BY <1>1, <1>17, <3>3, PutFields
    <3> QED BY <3>1, <3>2, <3>3
  <2> QED BY <1>16, <2>1, <2>3, <2>4
<1>18. ASSUME NEW a \in Requests, RemoveClient(a) \/ DeleteServer(a) PROVE HeldOK'
  <2>1. Ends(a) /\ record' = Stored(record, request[a].secret, 0)
    BY <1>1, <1>18, RemoveFields
  <2>2. There /\ server.secret = request[a].secret /\ request[a].secret \in Ids
    BY <1>1, <2>1, NotStale DEF TypeOK, Request
  <2>3. server'.secret \in {0, drawn + 1, server.secret}
    BY <1>1, <1>18, <2>2, RemoveFields
  <2>4. \A s \in Ids: s # server.secret => record'[s] = record[s]
    BY <1>1, <2>1, <2>2, StoredFields
  <2> QED BY <1>16, <2>1, <2>3, <2>4
<1>19. ASSUME NEW a \in Requests, BeginRequest(a) \/ RequestFails(a) PROVE HeldOK'
  <2>1. UNCHANGED <<server, record, run>>
    BY <1>19 DEF BeginRequest, RequestFails, serverVars
  <2> QED BY <1>6, <2>1
<1>20. ASSUME NEW t \in Tools, SwitchTool(t) PROVE HeldOK'
  BY <1>6, <1>20 DEF SwitchTool
<1>21. CASE (\E s \in Ids: RewrapRead(s)) \/ RewrapWrite
  BY <1>1, <1>6, <1>21, RewrapKeeps
<1>22. CASE ConnectNext
  BY <1>1, <1>6, <1>22, ConnectKeeps DEF KeepsClient
<1> QED
  BY <1>7, <1>8, <1>9, <1>11, <1>12, <1>13, <1>14, <1>15, <1>17, <1>18, <1>19, <1>20, <1>21,
     <1>22 DEF Next, RunNext, RequestNext

LEMMA SecretStep == ASSUME McpIInv, Next PROVE SecretFitsClient'
<1> SUFFICES ASSUME ~overtaken' PROVE SecretFitsClient'
  BY DEF SecretFitsClient
<1>1. TypeOK /\ record \in [Ids -> Ids] /\ 0 \in Ids /\ drawn \in Nat /\ ~overtaken
      /\ server.secret \in Ids
  <2>1. TypeOK
    BY DEF McpIInv
  <2>2. ~overtaken
    BY <2>1, Overtaken
  <2> QED BY <2>1, <2>2, Constants DEF TypeOK, Server
<1>2. server.secret # 0 => record[server.secret] = server.client
  BY <1>1 DEF McpIInv, SecretFitsClient
\* Actions that leave the server's secret.
<1>3. ASSUME server'.client = server.client, server'.secret = server.secret,
             server.secret # 0 => record'[server.secret] = record[server.secret]
      PROVE  SecretFitsClient'
  BY <1>2, <1>3 DEF SecretFitsClient
\* A client that is registered comes with its own secret, or with none.
<1>4. ASSUME NEW a \in Answers, drawn + 1 <= MaxIds,
             server'.client = drawn + 1, server'.secret = NewSecret(a, drawn + 1),
             record' = Stored(record, NewSecret(a, drawn + 1), drawn + 1)
      PROVE  SecretFitsClient'
  BY <1>1, <1>4, NextId, StoredFields DEF SecretFitsClient
<1>5. ASSUME NEW a \in Answers, CreateServer(a) PROVE SecretFitsClient'
  BY <1>1, <1>3, <1>4, <1>5, RunFields
<1>6. CASE CreateUndiscovered
  <2>1. server'.client = server.client /\ server'.secret = server.secret /\ UNCHANGED record
    BY <1>1, <1>6 DEF CreateUndiscovered, TypeOK, Server
  <2> QED BY <1>3, <2>1
<1>7. ASSUME NEW r \in Runs,
             (\E kind \in {"request", "sweep"}: BeginRun(r, kind)) \/ RunFails(r) \/ SweepEnds(r)
      PROVE  SecretFitsClient'
  BY <1>3, <1>7 DEF BeginRun, RunFails, SweepEnds, serverVars
<1>8. ASSUME NEW r \in Runs, NEW a \in Answers, RequestSaves(r, a) PROVE SecretFitsClient'
  BY <1>3, <1>4, <1>8, SavedOnce DEF KeepsClient
<1>9. ASSUME NEW r \in Runs, NEW a \in Answers, SweepSaves(r, a) PROVE SecretFitsClient'
  <2>1. UNCHANGED record /\ KeepsClient
    BY <1>1, <1>9, RunFields DEF SweepSaves
  <2> QED BY <1>3, <2>1 DEF KeepsClient
<1>10. ASSUME NEW r \in Runs, SweepRegisters(r) PROVE SecretFitsClient'
  <2>1. server.secret <= drawn
    BY DEF McpIInv, DrawnOK
  <2>2. server.secret # drawn + 1
    <3>1. server.secret \in Nat
      BY <1>1, Constants
    <3> QED BY <1>1, <2>1, <3>1
  <2>3. UNCHANGED server /\ record'[server.secret] = record[server.secret]
    BY <1>1, <1>10, <2>2 DEF SweepRegisters
  <2> QED BY <1>3, <2>3
<1>11. ASSUME NEW r \in Runs, SweepSavesClient(r) PROVE SecretFitsClient'
  <2>1. run[r].pc = "saving"
    BY <1>11 DEF SweepSavesClient
  <2>2. record[run[r].id] = IF run[r].confidential THEN run[r].id ELSE 0
    BY <1>1, <2>1 DEF McpIInv, HeldOK
  <2> QED BY <1>11, <2>2, SavedOnce DEF SecretFitsClient
<1>12. ASSUME NEW a \in Requests, NEW c \in Ids, NEW secret \in {"set", "public", "unchanged"},
              PutClient(a, c, secret)
       PROVE  SecretFitsClient'
  <2> DEFINE s == PutSecret(a, secret)
  <2>1. Ends(a) /\ s \in Ids
    BY <1>1, <1>12, PutFields
  <2>2. There /\ server.client = request[a].client /\ server.secret = request[a].secret
    BY <1>1, <2>1, NotStale
  <2>3. server'.client = c /\ server'.secret = s
    BY <1>1, <1>12, <2>2, PutFields
  <2>4. /\ secret = "set" => record' = [record EXCEPT ![s] = c]
        /\ secret = "public" => s = 0
        /\ secret = "unchanged" => s = request[a].secret /\ c = request[a].client /\ record' = record
    BY <1>1, <1>12, PutFields
  <2> HIDE DEF s
  <2>5. CASE secret = "set"
    BY <1>1, <2>1, <2>3, <2>4, <2>5 DEF SecretFitsClient
  <2>6. CASE secret = "public"
    BY <2>3, <2>4, <2>6 DEF SecretFitsClient
  <2>7. CASE secret = "unchanged"
    BY <1>3, <2>2, <2>3, <2>4, <2>7
  <2> QED BY <2>5, <2>6, <2>7
<1>13. ASSUME NEW a \in Requests, RemoveClient(a) \/ DeleteServer(a) PROVE SecretFitsClient'
  <2>1. Ends(a)
    BY <1>1, <1>13, RemoveFields
  <2>2. server'.secret = 0
    BY <1>1, <1>13, <2>1, NotStale, RemoveFields
  <2> QED BY <2>2 DEF SecretFitsClient
<1>14. ASSUME NEW a \in Requests, BeginRequest(a) \/ RequestFails(a) PROVE SecretFitsClient'
  BY <1>3, <1>14 DEF BeginRequest, RequestFails, serverVars
<1>15. ASSUME NEW t \in Tools, SwitchTool(t) PROVE SecretFitsClient'
  BY <1>3, <1>15 DEF SwitchTool
<1>16. CASE (\E s \in Ids: RewrapRead(s)) \/ RewrapWrite
  BY <1>1, <1>3, <1>16, RewrapKeeps
<1>17. CASE ConnectNext
  BY <1>1, <1>3, <1>17, ConnectKeeps DEF KeepsClient
<1> QED
  BY <1>5, <1>6, <1>7, <1>8, <1>9, <1>10, <1>11, <1>12, <1>13, <1>14, <1>15, <1>16, <1>17
     DEF Next, RunNext, RequestNext

LEMMA ForgottenStep == ASSUME McpIInv, Next PROVE NoForgottenSecret'
<1> DEFINE Held(s) == \E r \in Runs: run[r].pc = "saving" /\ run[r].id = s
<1> SUFFICES ASSUME ~overtaken', ~interrupted' PROVE NoForgottenSecret'
  BY DEF NoForgottenSecret
<1>1. TypeOK /\ record \in [Ids -> Ids] /\ 0 \in Ids /\ drawn \in Nat /\ ~overtaken
      /\ server.secret \in Ids /\ run \in [Runs -> Run]
  <2>1. TypeOK
    BY DEF McpIInv
  <2>2. ~overtaken
    BY <2>1, Overtaken
  <2> QED BY <2>1, <2>2, Constants DEF TypeOK, Server
<1>2. record[0] = 0
  BY DEF McpIInv, DrawnOK
\* When nothing was forgotten before.
<1>3. ASSUME ~interrupted
      PROVE  \A s \in Ids: record[s] # 0 => s = server.secret \/ Held(s)
  BY <1>1, <1>3 DEF McpIInv, NoForgottenSecret
\* Actions that leave the server's secret and the saving runs.
<1>4. ASSUME ~interrupted, server'.secret = server.secret,
             \A s \in Ids: record'[s] # 0 => record[s] # 0,
             \A r \in Runs: run[r].pc = "saving" => run'[r] = run[r]
      PROVE  NoForgottenSecret'
  BY <1>3, <1>4 DEF NoForgottenSecret
\* What was the server's is no record now, or still the server's.
<1>5. ASSUME ~interrupted,
             \A s \in Ids: record'[s] # 0 => s = server'.secret \/ (record[s] # 0 /\ s # server.secret),
             \A r \in Runs: run[r].pc = "saving" => run'[r] = run[r]
      PROVE  NoForgottenSecret'
  BY <1>3, <1>5 DEF NoForgottenSecret
<1>6. ASSUME NEW a \in Answers, CreateServer(a) PROVE NoForgottenSecret'
  <2>1. server.st = "none"
    BY <1>6 DEF CreateServer
  <2>2. \A s \in Ids: record[s] = 0
    BY <2>1 DEF McpIInv, AbsentOK
  <2>3. \/ UNCHANGED record
        \/ /\ drawn + 1 <= MaxIds /\ server'.secret = NewSecret(a, drawn + 1)
           /\ record' = Stored(record, NewSecret(a, drawn + 1), drawn + 1)
    BY <1>1, <1>6, RunFields
  <2>4. \A s \in Ids: record'[s] # 0 => s = server'.secret
    BY <1>1, <2>2, <2>3, NextId, StoredFields
  <2> QED BY <2>4 DEF NoForgottenSecret
<1>7. CASE CreateUndiscovered
  <2>1. server'.secret = server.secret /\ UNCHANGED <<record, run, interrupted>>
    BY <1>1, <1>7 DEF CreateUndiscovered, TypeOK, Server, historyVars
  <2> QED BY <1>4, <2>1
\* Runs that begin or end without having been saving.
<1>8. ASSUME NEW r \in Runs, run[r].pc # "saving", NEW new, run' = [run EXCEPT ![r] = new]
      PROVE  \A q \in Runs: run[q].pc = "saving" => run'[q] = run[q]
  BY <1>1, <1>8
<1>9. ASSUME NEW r \in Runs, NEW kind \in {"request", "sweep"}, BeginRun(r, kind)
      PROVE  NoForgottenSecret'
  <2>1. UNCHANGED <<server, record, interrupted>> /\ run[r].pc # "saving"
    BY <1>9 DEF BeginRun, serverVars, historyVars
  <2>2. \A q \in Runs: run[q].pc = "saving" => run'[q] = run[q]
    BY <1>8, <1>9, <2>1 DEF BeginRun
  <2> QED BY <1>4, <2>1, <2>2
<1>10. ASSUME NEW r \in Runs, RunFails(r) \/ SweepEnds(r) PROVE NoForgottenSecret'
  <2>1. UNCHANGED <<server, record>> /\ run' = [run EXCEPT ![r] = IdleRun]
    BY <1>10 DEF RunFails, SweepEnds, serverVars
  <2>2. run[r].pc # "saving" /\ ~interrupted
    <3>1. CASE RunFails(r)
      BY <3>1 DEF RunFails, historyVars
    <3>2. CASE SweepEnds(r)
      <4>1. interrupted' = (interrupted \/ run[r].pc = "saving")
        BY <3>2 DEF SweepEnds
      <4> QED BY <4>1
    <3> QED BY <1>10, <3>1, <3>2
  <2> QED BY <1>4, <1>8, <2>1, <2>2
<1>11. ASSUME NEW r \in Runs, NEW a \in Answers, RequestSaves(r, a) PROVE NoForgottenSecret'
  <2>1. /\ run' = [run EXCEPT ![r] = IdleRun] /\ UNCHANGED interrupted
        /\ run[r].pc # "saving"
    BY <1>11 DEF RequestSaves
  <2>2. \A q \in Runs: run[q].pc = "saving" => run'[q] = run[q]
    BY <1>8, <2>1
  <2>3. CASE KeepsClient /\ UNCHANGED record
    BY <1>4, <2>1, <2>2, <2>3 DEF KeepsClient
  <2>4. CASE /\ drawn + 1 <= MaxIds /\ server.secret = 0
             /\ server'.secret = NewSecret(a, drawn + 1)
             /\ record' = Stored(record, NewSecret(a, drawn + 1), drawn + 1)
    <3>1. NewSecret(a, drawn + 1) \in Ids /\ drawn + 1 \in Ids
      BY <1>1, <2>4, NextId
    <3>2. \A s \in Ids: s # NewSecret(a, drawn + 1) => record'[s] = record[s]
      BY <1>1, <2>4, <3>1, StoredFields
    <3> QED BY <1>2, <1>5, <2>1, <2>2, <2>4, <3>2
  <2> QED BY <1>11, <2>3, <2>4, SavedOnce
<1>12. ASSUME NEW r \in Runs, NEW a \in Answers, SweepSaves(r, a) PROVE NoForgottenSecret'
  <2>1. UNCHANGED <<record, interrupted>> /\ KeepsClient /\ run[r].pc # "saving"
    BY <1>1, <1>12, RunFields DEF SweepSaves, historyVars
  <2>2. \A q \in Runs: run[q].pc = "saving" => run'[q] = run[q]
    BY <1>8, <1>12, <2>1 DEF SweepSaves
  <2> QED BY <1>4, <2>1, <2>2 DEF KeepsClient
<1>13. ASSUME NEW r \in Runs, SweepRegisters(r) PROVE NoForgottenSecret'
  <2>1. UNCHANGED <<server, interrupted>> /\ run[r].pc = "registering"
    BY <1>13 DEF SweepRegisters, historyVars
  <2>2. /\ run'[r].pc = "saving" /\ run'[r].id = drawn + 1
        /\ \A q \in Runs: q # r => run'[q] = run[q]
    <3>1. run[r] \in Run /\ run' = [run EXCEPT ![r].pc = "saving", ![r].id = drawn + 1]
      BY <1>1, <1>13 DEF SweepRegisters
    <3> QED BY <1>1, <3>1 DEF Run
  <2>3. \A s \in Ids: s # drawn + 1 => record'[s] = record[s]
    BY <1>1, <1>13 DEF SweepRegisters
  <2> QED BY <1>3, <2>1, <2>2, <2>3 DEF NoForgottenSecret
<1>14. ASSUME NEW r \in Runs, SweepSavesClient(r) PROVE NoForgottenSecret'
  <2>1. /\ run' = [run EXCEPT ![r] = IdleRun] /\ UNCHANGED <<record, interrupted>>
        /\ run[r].pc = "saving"
    BY <1>14 DEF SweepSavesClient
  <2>2. record[run[r].id] = IF run[r].confidential THEN run[r].id ELSE 0
    BY <1>1, <2>1 DEF McpIInv, HeldOK
  <2>3. server.secret = 0 /\ server'.secret = IF run[r].confidential THEN run[r].id ELSE 0
    BY <1>14, SavedOnce
  <2>4. \A q \in Runs: q # r => run'[q] = run[q]
    BY <1>1, <2>1
  <2>5. ASSUME NEW s \in Ids, record[s] # 0, s # server'.secret
        PROVE  \E q \in Runs: run'[q].pc = "saving" /\ run'[q].id = s
    <3>1. s # server.secret
      BY <1>2, <2>3, <2>5
    <3>2. PICK q \in Runs: run[q].pc = "saving" /\ run[q].id = s
      BY <1>3, <2>1, <2>5, <3>1
    <3>3. q # r
      BY <2>2, <2>3, <2>5, <3>2
    <3> QED BY <2>4, <3>2, <3>3
  <2> QED BY <2>1, <2>5 DEF NoForgottenSecret
\* Requests leave the runs.
<1>15. ASSUME NEW a \in Requests, Ends(a)
       PROVE  /\ ~interrupted /\ \A r \in Runs: run[r].pc = "saving" => run'[r] = run[r]
              /\ There /\ server.client = request[a].client /\ server.secret = request[a].secret
              /\ request[a].secret \in Ids
  <2>1. UNCHANGED <<run, interrupted>>
    BY <1>15 DEF Ends
  <2>2. request[a].secret \in Ids
    BY <1>1 DEF TypeOK, Request
  <2> QED BY <1>1, <1>15, <2>1, <2>2, NotStale
\* The server's record is deleted.
<1>16. ASSUME NEW a \in Requests, Ends(a), record' = Stored(record, request[a].secret, 0)
       PROVE  NoForgottenSecret'
  <2>1. \A s \in Ids: record'[s] # 0 => record[s] # 0 /\ s # server.secret
    BY <1>1, <1>2, <1>15, <1>16, StoredFields
  <2> QED BY <1>5, <1>15, <1>16, <2>1
<1>17. ASSUME NEW a \in Requests, NEW c \in Ids, NEW secret \in {"set", "public", "unchanged"},
              PutClient(a, c, secret)
       PROVE  NoForgottenSecret'
  <2> DEFINE s == PutSecret(a, secret)
  <2>1. Ends(a) /\ s \in Ids
    BY <1>1, <1>17, PutFields
  <2>2. There /\ server.secret = request[a].secret
    BY <1>15, <2>1
  <2>3. server'.secret = s
    BY <1>1, <1>17, <2>2, PutFields
  <2>4. CASE secret = "set"
    <3>1. record' = [record EXCEPT ![s] = c] /\ s # 0
      BY <1>1, <1>17, <2>4, PutFields
    <3>2. server.secret = 0 \/ server.secret = s
      BY <2>2, <2>4 DEF PutSecret
    <3> HIDE DEF s
    <3>3. \A q \in Ids: q # s => record'[q] = record[q]
      BY <1>1, <3>1
    <3> QED BY <1>2, <1>5, <1>15, <2>1, <2>3, <3>2, <3>3
  <2>5. CASE secret = "public"
    BY <1>1, <1>16, <1>17, <2>1, <2>5, PutFields
  <2>6. CASE secret = "unchanged"
    <3>1. s = request[a].secret /\ record' = record
      BY <1>1, <1>17, <2>6, PutFields
    <3> QED BY <1>4, <1>15, <2>1, <2>2, <2>3, <3>1
  <2> QED BY <2>4, <2>5, <2>6
<1>18. ASSUME NEW a \in Requests, RemoveClient(a) \/ DeleteServer(a) PROVE NoForgottenSecret'
  BY <1>1, <1>16, <1>18, RemoveFields
<1>19. ASSUME NEW a \in Requests, BeginRequest(a) \/ RequestFails(a) PROVE NoForgottenSecret'
  <2>1. UNCHANGED <<server, record, run, interrupted>>
    BY <1>19 DEF BeginRequest, RequestFails, serverVars, historyVars
  <2> QED BY <1>4, <2>1
<1>20. ASSUME NEW t \in Tools, SwitchTool(t) PROVE NoForgottenSecret'
  <2>1. UNCHANGED <<server, record, run, interrupted>>
    BY <1>20 DEF SwitchTool, historyVars
  <2> QED BY <1>4, <2>1
<1>21. CASE (\E s \in Ids: RewrapRead(s)) \/ RewrapWrite
  BY <1>1, <1>4, <1>21, RewrapKeeps
<1>22. CASE ConnectNext
  BY <1>1, <1>4, <1>22, ConnectKeeps DEF KeepsClient
<1> QED
  BY <1>6, <1>7, <1>9, <1>10, <1>11, <1>12, <1>13, <1>14, <1>17, <1>18, <1>19, <1>20, <1>21,
     <1>22 DEF Next, RunNext, RequestNext

LEMMA ConnectionStep == ASSUME McpIInv, Next PROVE ConnectionFitsClient'
<1> SUFFICES ASSUME ~overtaken' PROVE ConnectionFitsClient'
  BY DEF ConnectionFitsClient
<1>1. TypeOK /\ ~overtaken
  <2>1. TypeOK
    BY DEF McpIInv
  <2> QED BY <2>1, Overtaken
<1>2. \A u \in Users: conn[u].st # "none" =>
        There /\ (conn[u].st = "connected" => conn[u].client = server.client)
  BY <1>1 DEF McpIInv, ConnectionFitsClient
\* An OAuth server without a client has no connection that is connected.
<1>3. ASSUME server.type = "oauth2", server.client = 0
      PROVE  \A u \in Users: conn[u].st # "connected"
  BY <1>1, <1>2, <1>3 DEF McpIInv, ClientOK
\* Actions that leave the connections, and the client if any of them is connected.
<1>4. ASSUME UNCHANGED conn, There => server'.st = "there",
             server'.client = server.client \/ \A u \in Users: conn[u].st # "connected"
      PROVE  ConnectionFitsClient'
  BY <1>2, <1>4 DEF ConnectionFitsClient, There
<1>5. ASSUME UNCHANGED conn, KeepsClient PROVE ConnectionFitsClient'
  BY <1>4, <1>5 DEF KeepsClient, There
<1>6. ASSUME NEW a \in Answers, CreateServer(a) PROVE ConnectionFitsClient'
  <2>1. server.st = "none" /\ UNCHANGED conn
    BY <1>6 DEF CreateServer, connVars
  <2>2. \A u \in Users: conn[u].st = "none"
    BY <2>1 DEF McpIInv, AbsentOK
  <2> QED BY <2>1, <2>2 DEF ConnectionFitsClient
<1>7. CASE CreateUndiscovered
  <2>1. server.st = "none" /\ UNCHANGED conn
    BY <1>7 DEF CreateUndiscovered, connVars
  <2>2. \A u \in Users: conn[u].st = "none"
    BY <2>1 DEF McpIInv, AbsentOK
  <2> QED BY <2>1, <2>2 DEF ConnectionFitsClient
<1>8. ASSUME NEW r \in Runs,
             \/ \E kind \in {"request", "sweep"}: BeginRun(r, kind)
             \/ RunFails(r) \/ SweepRegisters(r) \/ SweepEnds(r)
      PROVE  ConnectionFitsClient'
  <2>1. UNCHANGED <<server, conn>>
    BY <1>8 DEF BeginRun, RunFails, SweepRegisters, SweepEnds, serverVars, connVars
  <2> QED BY <1>5, <2>1 DEF KeepsClient
<1>9. ASSUME NEW r \in Runs, NEW a \in Answers, RequestSaves(r, a) PROVE ConnectionFitsClient'
  <2>1. UNCHANGED conn
    BY <1>9 DEF RequestSaves, connVars
  <2> QED BY <1>3, <1>4, <1>5, <1>9, <2>1, SavedOnce
<1>10. ASSUME NEW r \in Runs, NEW a \in Answers, SweepSaves(r, a) PROVE ConnectionFitsClient'
  <2>1. UNCHANGED conn
    BY <1>10 DEF SweepSaves, connVars
  <2> QED BY <1>1, <1>5, <1>10, <2>1, RunFields
<1>11. ASSUME NEW r \in Runs, SweepSavesClient(r) PROVE ConnectionFitsClient'
  <2>1. UNCHANGED conn
    BY <1>11 DEF SweepSavesClient, connVars
  <2> QED BY <1>3, <1>4, <1>11, <2>1, SavedOnce
<1>12. ASSUME NEW a \in Requests, NEW c \in Ids, NEW secret \in {"set", "public", "unchanged"},
              PutClient(a, c, secret)
       PROVE  ConnectionFitsClient'
  <2>1. Ends(a)
    BY <1>1, <1>12, PutFields
  <2>2. There /\ server.client = request[a].client
    BY <1>1, <2>1, NotStale
  <2>3. /\ server'.st = server.st /\ server'.client = c /\ server.type = "oauth2"
        /\ conn' = IF server.client # 0 /\ server.client # c THEN Expired ELSE conn
    BY <1>1, <1>12, <2>2, PutFields
  <2>4. CASE server.client # 0 /\ server.client # c
    <3>1. conn' = Expired
      BY <2>3, <2>4
    <3>2. \A u \in Users: conn'[u].st # "connected"
      BY <1>1, <3>1 DEF Expired, TypeOK, Connection
    <3> QED BY <2>2, <2>3, <3>2 DEF ConnectionFitsClient, There
  <2>5. CASE ~(server.client # 0 /\ server.client # c)
    <3>1. UNCHANGED conn
      BY <2>3, <2>5
    <3> QED BY <1>3, <1>4, <2>3, <2>5, <3>1 DEF There
  <2> QED BY <2>4, <2>5
<1>13. ASSUME NEW a \in Requests, RemoveClient(a) PROVE ConnectionFitsClient'
  <2>1. Ends(a)
    BY <1>1, <1>13, RemoveFields
  <2>2. There /\ server.client = request[a].client
    BY <1>1, <2>1, NotStale
  <2>3. /\ server'.st = server.st /\ server'.client = 0
        /\ conn' = IF server.client # 0 THEN Expired ELSE conn
    BY <1>1, <1>13, <2>2, RemoveFields
  <2>4. CASE server.client # 0
    <3>1. conn' = Expired
      BY <2>3, <2>4
    <3>2. \A u \in Users: conn'[u].st # "connected"
      BY <1>1, <3>1 DEF Expired, TypeOK, Connection
    <3> QED BY <2>2, <2>3, <3>2 DEF ConnectionFitsClient, There
  <2>5. CASE server.client = 0
    BY <1>4, <2>3, <2>5 DEF There
  <2> QED BY <2>4, <2>5
<1>14. ASSUME NEW a \in Requests, DeleteServer(a) PROVE ConnectionFitsClient'
  <2>1. conn' = [u \in Users |-> NoConnection]
    BY <1>1, <1>14, RemoveFields
  <2> QED BY <2>1 DEF ConnectionFitsClient, NoConnection
<1>15. ASSUME NEW a \in Requests, BeginRequest(a) \/ RequestFails(a) PROVE ConnectionFitsClient'
  <2>1. UNCHANGED <<server, conn>>
    BY <1>15 DEF BeginRequest, RequestFails, serverVars, connVars
  <2> QED BY <1>5, <2>1 DEF KeepsClient
<1>16. ASSUME NEW t \in Tools, SwitchTool(t) PROVE ConnectionFitsClient'
  <2>1. UNCHANGED <<server, conn>>
    BY <1>16 DEF SwitchTool, connVars
  <2> QED BY <1>5, <2>1 DEF KeepsClient
<1>17. CASE (\E s \in Ids: RewrapRead(s)) \/ RewrapWrite
  <2>1. UNCHANGED <<server, conn>>
    BY <1>1, <1>17, RewrapKeeps
  <2> QED BY <1>5, <2>1 DEF KeepsClient
\* The users' actions: of one connection.
<1>18. ASSUME NEW u \in Users,
              \/ ResolveKey(u) \/ StoreKey(u)
              \/ Resolve(u) \/ Redirect(u) \/ Exchange(u) \/ ExchangeRefused(u)
              \/ StoreConnection(u) \/ FlowEnds(u) \/ Disconnect(u)
       PROVE  ConnectionFitsClient'
  <2>1. KeepsClient
    <3>1. ConnectNext
      BY <1>18 DEF ConnectNext
    <3> QED BY <1>1, <3>1, ConnectKeeps
  <2>2. /\ conn \in [Users -> Connection] /\ \A v \in Users: v # u => conn'[v] = conn[v]
    BY <1>1, <1>18 DEF ResolveKey, StoreKey, Resolve, Redirect, Exchange, ExchangeRefused,
                       StoreConnection, FlowEnds, Disconnect, TypeOK
  <2>3. ASSUME conn'[u].st # "none" =>
                 There /\ (conn'[u].st = "connected" => conn'[u].client = server.client)
        PROVE  ConnectionFitsClient'
    BY <1>2, <2>1, <2>2, <2>3 DEF ConnectionFitsClient, KeepsClient, There
  <2>4. CASE ResolveKey(u) \/ Resolve(u) \/ Exchange(u) \/ FlowEnds(u)
    <3>1. UNCHANGED conn
      BY <2>4 DEF ResolveKey, Resolve, Exchange, FlowEnds
    <3> QED BY <1>2, <2>3, <3>1
  <2>5. CASE StoreKey(u)
    <3>1. /\ flow[u].pc = "keyed" /\ conn'[u].client = 0
          /\ overtaken' = (overtaken \/ ~There)
      BY <2>2, <2>5 DEF StoreKey
    <3>2. There
      BY <3>1 DEF There
    <3>3. server.client = 0
      BY <3>1 DEF McpIInv, ClientOK
    <3> QED BY <2>3, <3>1, <3>2, <3>3
  <2>6. CASE Redirect(u)
    <3>1. overtaken' = (overtaken \/ ~Current(flow[u].client))
      BY <2>6 DEF Redirect
    <3>2. Current(flow[u].client)
      BY <3>1
    <3>3. conn'[u] = conn[u] \/ conn'[u].st = "pending"
      BY <2>2, <2>6 DEF Redirect, Connection
    <3> QED BY <1>2, <2>3, <3>2, <3>3 DEF Current
  <2>7. CASE ExchangeRefused(u)
    <3>1. /\ conn[u].st # "none" /\ conn'[u].client = conn[u].client
          /\ conn'[u].st = "connected" => flow[u].was
      BY <2>2, <2>7 DEF ExchangeRefused, Connection
    <3>2. flow[u].was => conn[u].st = "connected"
      BY <2>7 DEF ExchangeRefused
    <3> QED BY <1>2, <2>3, <3>1, <3>2
  <2>8. CASE StoreConnection(u)
    <3>1. /\ overtaken' = (overtaken \/ ~Current(flow[u].client))
          /\ conn'[u].client = flow[u].client
      BY <2>2, <2>8 DEF StoreConnection
    <3>2. Current(flow[u].client)
      BY <3>1
    <3> QED BY <2>3, <3>1, <3>2 DEF Current
  <2>9. CASE Disconnect(u)
    <3>1. conn'[u].st = "none"
      BY <2>2, <2>9 DEF Disconnect, NoConnection
    <3> QED BY <2>3, <3>1
  <2> QED BY <1>18, <2>4, <2>5, <2>6, <2>7, <2>8, <2>9
<1> QED
  BY <1>6, <1>7, <1>8, <1>9, <1>10, <1>11, <1>12, <1>13, <1>14, <1>15, <1>16, <1>17, <1>18
     DEF Next, RunNext, RequestNext, ConnectNext

-----------------------------------------------------------------------------
(***************************************************************************)
(* The theorems                                                            *)
(***************************************************************************)

LEMMA InitOK == Init => McpIInv
<1> SUFFICES ASSUME Init PROVE McpIInv
  OBVIOUS
<1>1. PICK type \in AuthTypes: server = NoServer("none", type)
  BY DEF Init
<1>2. server.st = "none" /\ server.client = 0 /\ server.secret = 0 /\ server \in Server
  BY <1>1, Constants DEF NoServer
<1>3. TypeOK
  <2>1. begun \in [runs: 0..MaxRuns, requests: 0..MaxRequests]
    BY Constants DEF Init
  <2> QED BY <1>2, <2>1, Constants DEF Init, TypeOK
<1>4. DrawnOK
  BY <1>2, Constants DEF Init, DrawnOK, IdleRun, IdleRequest
<1>5. AbsentOK
  BY <1>2 DEF Init, AbsentOK, IdleRun, IdleRequest, NoConnection, IdleFlow
<1>6. ClientOK
  BY <1>2 DEF Init, ClientOK, IdleRun, NoConnection, IdleFlow
<1>7. HeldOK
  BY DEF Init, HeldOK, IdleRun
<1>8. SecretFitsClient /\ NoForgottenSecret /\ ConnectionFitsClient
  BY <1>2 DEF Init, SecretFitsClient, NoForgottenSecret, ConnectionFitsClient, NoConnection
<1> QED BY <1>3, <1>4, <1>5, <1>6, <1>7, <1>8 DEF McpIInv

LEMMA StepOK == McpIInv /\ [Next]_vars => McpIInv'
<1> SUFFICES ASSUME McpIInv, [Next]_vars PROVE McpIInv'
  OBVIOUS
<1>1. CASE Next
  <2>1. TypeOK'
    BY <1>1, RunTypes, RequestTypes, RewrapTypes, ConnectTypes DEF McpIInv, Next
  <2> QED
    BY <1>1, <2>1, DrawnStep, AbsentStep, ClientStep, HeldStep, SecretStep, ForgottenStep,
       ConnectionStep DEF McpIInv
<1>2. CASE UNCHANGED vars
  BY <1>2 DEF vars, McpIInv, TypeOK, DrawnOK, AbsentOK, ClientOK, HeldOK, SecretFitsClient,
              NoForgottenSecret, ConnectionFitsClient, There
<1> QED BY <1>1, <1>2

\* The inductive invariant: whatever discovery, the tenant, the rotation and the users do, in any
\* order, its parts hold of the server's row, its client's secret and its connections.
THEOREM McpInvariance == Spec => []McpIInv
BY InitOK, StepOK, PTL DEF Spec

\* The secret that the worker reads for the server's client (readMcpServerOAuthClient) exists and
\* is that client's, unless a write was overtaken.
THEOREM SecretFitsClientHolds == Spec => []SecretFitsClient
<1>1. McpIInv => SecretFitsClient
  BY DEF McpIInv
<1> QED BY <1>1, McpInvariance, PTL

\* forgetSecret and the delete after the server's leave no client secret behind, unless a write
\* was overtaken or a sweep died.
THEOREM NoForgottenSecretHolds == Spec => []NoForgottenSecret
<1>1. McpIInv => NoForgottenSecret
  BY DEF McpIInv
<1> QED BY <1>1, McpInvariance, PTL

\* expireConnectionsForService and the delete trigger leave no connection whose token belongs to
\* another client or to no server, unless a write was overtaken.
THEOREM ConnectionFitsClientHolds == Spec => []ConnectionFitsClient
<1>1. McpIInv => ConnectionFitsClient
  BY DEF McpIInv
<1> QED BY <1>1, McpInvariance, PTL

\* The upsert of a discovery run, a sweep or a first authorization never switches a tool back on
\* that the tenant has switched off.
THEOREM TenantDecidesHolds == Spec => TenantDecides
<1> DEFINE Decides == \A t \in Tools: tool[t] = "off" /\ tool'[t] # "off" =>
                        SwitchTool(t) \/ server'.st = "gone"
<1>1. ASSUME NEW a \in Answers, tool' = Upsert(a) PROVE \A t \in Tools: tool[t] = "off" => tool'[t] = "off"
  BY <1>1 DEF Upsert
<1>2. ASSUME TypeOK, Next PROVE Decides
  <2>1. CASE RunNext
    <3>1. UNCHANGED tool \/ \E a \in Answers: tool' = Upsert(a)
      BY <2>1 DEF RunNext, CreateServer, CreateUndiscovered, BeginRun, RunFails, RequestSaves,
                  SweepSaves, SaveContract, SweepRegisters, SweepSavesClient, SweepEnds, serverVars
    <3> QED BY <1>1, <3>1
  <2>2. ASSUME NEW a \in Requests, DeleteServer(a) PROVE Decides
    BY <1>2, <2>2, RemoveFields
  <2>3. ASSUME NEW t \in Tools, SwitchTool(t) PROVE Decides
    <3>1. \A q \in Tools: q # t => tool'[q] = tool[q]
      BY <1>2, <2>3 DEF SwitchTool, TypeOK
    <3> QED BY <2>3, <3>1
  <2>4. CASE RequestNext
    <3>1. \/ UNCHANGED tool \/ \E a \in Requests: DeleteServer(a)
          \/ \E t \in Tools: SwitchTool(t)
      BY <2>4 DEF RequestNext, BeginRequest, PutClient, RemoveClient, RequestFails, serverVars
    <3> QED BY <2>2, <2>3, <3>1
  <2>5. CASE (\E s \in Ids: RewrapRead(s)) \/ RewrapWrite
    BY <2>5 DEF RewrapRead, RewrapWrite, serverVars
  <2>6. CASE ConnectNext
    <3>1. UNCHANGED tool \/ \E a \in Answers: tool' = Upsert(a)
      BY <2>6 DEF ConnectNext, ResolveKey, StoreKey, Resolve, Redirect, Exchange, ExchangeRefused,
                  StoreConnection, FlowEnds, Disconnect, serverVars
    <3> QED BY <1>1, <3>1
  <2> QED BY <1>2, <2>1, <2>4, <2>5, <2>6 DEF Next
<1>3. McpIInv /\ [Next]_vars => [Decides]_vars
  BY <1>2 DEF McpIInv
<1> QED BY <1>3, McpInvariance, PTL DEF Spec, TenantDecides
=============================================================================
