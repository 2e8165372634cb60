----------------------------- MODULE McpServer -----------------------------
(***************************************************************************)
(* ONE MCP server of a tenant: its row, the contract of its tools, the     *)
(* OAuth client it is used with and that client's secret, the connections  *)
(* of its users.  Discovery runs (requests, and the sweep) refresh the     *)
(* contract and register a client where there is none; the tenant pastes,  *)
(* replaces and removes clients and deletes the server; key rotation       *)
(* re-wraps the secrets.  Sources: apps/api/src/routes/mcp-servers.ts,     *)
(* lib/mcp-client-registration.ts, lib/mcp-manual-oauth-client.ts,         *)
(* jobs/mcp-discovery.ts, packages/database/src/mcp-servers.ts, and        *)
(* routes/oauth.ts where it branches for an MCP server.                    *)
(*                                                                         *)
(* A request is one transaction: what it writes, others see when it        *)
(* commits, and it writes on the basis of what it read before the          *)
(* discovery, or before others committed.  The sweep and the rotation have *)
(* no transaction.                                                         *)
(***************************************************************************)
EXTENDS Naturals

CONSTANTS
  Tools,        \* names of tools the server may list
  Users,        \* external users with a connection to the server
  Runs,         \* discovery runs in flight
  Requests,     \* tenant requests in flight
  MaxIds,       \* bound: OAuth clients and secret records ever drawn
  MaxRuns,      \* bound: discovery runs ever begun
  MaxRequests   \* bound: tenant requests ever begun

ASSUME McpAssumption == MaxIds \in Nat /\ MaxRuns \in Nat /\ MaxRequests \in Nat

VARIABLES
  server,       \* the mcp_servers row
  tool,         \* the mcp_server_tools rows: "none", or "on" or "off" as approved is
  record,       \* oauth_client_secret records: the client whose secret s holds, 0 for no record
  drawn,        \* ids drawn so far, of clients and of records; 0 is null
  run,          \* discovery runs, and the client they have read
  request,      \* tenant requests, and the client they have read
  rewrap,       \* the record the rotation is re-wrapping, and what it has read in it
  conn,         \* the connections to the server: status, and the client that got the token
  flow,         \* authorizations under way, and the client each one uses
  begun,        \* runs and requests begun
  overtaken,    \* history: somebody wrote what had changed since it was read
  interrupted   \* history: a sweep died between registering a client and saving it

serverVars == <<server, tool, record, drawn>>
connVars == <<conn, flow>>
historyVars == <<overtaken, interrupted>>
vars == <<server, tool, record, drawn, run, request, rewrap, conn, flow, begun, overtaken,
          interrupted>>

Ids == 0..MaxIds

AuthTypes == {"oauth2", "api_key"}

\* auth: authorization_required.  oauth: the stored metadata has both OAuth endpoints.
Server == [st: {"none", "there", "gone"}, type: AuthTypes, enabled: BOOLEAN, auth: BOOLEAN,
           oauth: BOOLEAN, client: Ids, secret: Ids, source: {"none", "dynamic", "manual"}]

NoServer(st, type) == [st |-> st, type |-> type, enabled |-> FALSE, auth |-> FALSE,
                       oauth |-> FALSE, client |-> 0, secret |-> 0, source |-> "none"]

Run == [pc: {"idle", "asked", "registering", "saving"}, kind: {"request", "sweep"},
        client: Ids, id: Ids, confidential: BOOLEAN]

IdleRun == [pc |-> "idle", kind |-> "request", client |-> 0, id |-> 0, confidential |-> FALSE]

Request == [pc: {"idle", "read"}, client: Ids, secret: Ids,
            source: {"none", "dynamic", "manual"}]

IdleRequest == [pc |-> "idle", client |-> 0, secret |-> 0, source |-> "none"]

Connection == [st: {"none", "pending", "connected", "expired", "error"}, client: Ids]

NoConnection == [st |-> "none", client |-> 0]

\* good: the code goes to the client it was issued to.  was: the connection was connected when
\* the callback read it.
Flow == [pc: {"idle", "keyed", "resolved", "redirected", "exchanged"}, client: Ids,
         auth: BOOLEAN, good: BOOLEAN, was: BOOLEAN]

IdleFlow == [pc |-> "idle", client |-> 0, auth |-> FALSE, good |-> FALSE, was |-> FALSE]

TypeOK ==
  /\ server \in Server
  /\ tool \in [Tools -> {"none", "on", "off"}]
  /\ record \in [Ids -> Ids]
  /\ drawn \in Ids
  /\ run \in [Runs -> Run]
  /\ request \in [Requests -> Request]
  /\ rewrap \in [id: Ids, holds: Ids]
  /\ conn \in [Users -> Connection]
  /\ flow \in [Users -> Flow]
  /\ begun \in [runs: 0..MaxRuns, requests: 0..MaxRequests]
  /\ overtaken \in BOOLEAN /\ interrupted \in BOOLEAN

Init ==
  /\ server \in {NoServer("none", type): type \in AuthTypes}
  /\ tool = [t \in Tools |-> "none"]
  /\ record = [s \in Ids |-> 0]
  /\ drawn = 0
  /\ run = [r \in Runs |-> IdleRun]
  /\ request = [a \in Requests |-> IdleRequest]
  /\ rewrap = [id |-> 0, holds |-> 0]
  /\ conn = [u \in Users |-> NoConnection]
  /\ flow = [u \in Users |-> IdleFlow]
  /\ begun = [runs |-> 0, requests |-> 0]
  /\ overtaken = FALSE /\ interrupted = FALSE

There == server.st = "there"

\* Client c, as somebody read it, is still what the server has.
Current(c) == There /\ server.client = c

-----------------------------------------------------------------------------
(***************************************************************************)
(* What is written about a server                                          *)
(***************************************************************************)

\* What a server answers to discovery: the tools it lists, or that it wants a credential first;
\* its OAuth metadata, if any; and what comes of a registration: nothing, because it is not
\* offered or is refused, a public client, or one with a secret.
Answers == {a \in [tools: SUBSET Tools, auth: BOOLEAN, oauth: BOOLEAN,
                   offer: {"no", "public", "confidential"}]:
              (a.auth => a.tools = {}) /\ (a.offer # "no" => a.oauth)}

\* saveDiscoverySuccess: the row, and one upsert per tool, which leaves the tenant's decision.
Contract(srv, a) == [srv EXCEPT !.enabled = TRUE, !.auth = a.auth, !.oauth = a.oauth]

\* Mutant: the upsert sets every column.
UpsertAll(a) == [t \in Tools |-> IF t \in a.tools THEN "on" ELSE tool[t]]

Upsert(a) == [t \in Tools |-> IF t \in a.tools /\ tool[t] = "none" THEN "on" ELSE tool[t]]

\* An UPDATE of a server that is gone changes nothing; an INSERT of a tool fails.
SaveContract(a) ==
  /\ There \/ a.tools = {}
  /\ tool' = Upsert(a)

WithClient(srv, c, s, source) ==
  IF srv.st = "there" THEN [srv EXCEPT !.client = c, !.secret = s, !.source = source] ELSE srv

\* ensureMcpOAuthClient registers only for a run that has read no client.
Registers(r, a) == server.type = "oauth2" /\ run[r].client = 0 /\ a.offer # "no"

NewSecret(a, n) == IF a.offer = "confidential" THEN n ELSE 0

Stored(records, s, c) == IF s = 0 THEN records ELSE [records EXCEPT ![s] = c]

-----------------------------------------------------------------------------
(***************************************************************************)
(* Registration of the server, and discovery                               *)
(***************************************************************************)

\* POST: the row is seen by others when the transaction commits, with the outcome of its first
\* discovery.
CreateServer(a) ==
  LET n == drawn + 1
      s == NewSecret(a, n)
      srv == Contract([server EXCEPT !.st = "there"], a)
  IN /\ server.st = "none"
     /\ tool' = Upsert(a)
     /\ \/ /\ server.type = "api_key" \/ a.offer = "no"
           /\ server' = srv
           /\ UNCHANGED <<record, drawn>>
        \/ /\ server.type = "oauth2" /\ a.offer # "no" /\ n <= MaxIds
           /\ server' = WithClient(srv, n, s, "dynamic")
           /\ record' = Stored(record, s, n)
           /\ drawn' = n
     /\ UNCHANGED <<run, request, rewrap, connVars, begun, historyVars>>

\* Its first discovery failed: it stays disabled.
CreateUndiscovered ==
  /\ server.st = "none"
  /\ server' = [server EXCEPT !.st = "there"]
  /\ UNCHANGED <<tool, record, drawn, run, request, rewrap, connVars, begun, historyVars>>

\* The request reads any server; the sweep lists those that are enabled and due.
BeginRun(r, kind) ==
  /\ run[r].pc = "idle" /\ There
  /\ kind = "sweep" => server.enabled
  /\ begun.runs < MaxRuns
  /\ begun' = [begun EXCEPT !.runs = @ + 1]
  /\ run' = [run EXCEPT ![r] = [IdleRun EXCEPT !.pc = "asked", !.kind = kind,
                                               !.client = server.client]]
  /\ UNCHANGED <<serverVars, request, rewrap, connVars, historyVars>>

\* saveDiscoveryFailure leaves the contract; a request may also be rolled back.
RunFails(r) ==
  /\ run[r].pc = "asked"
  /\ run' = [run EXCEPT ![r] = IdleRun]
  /\ UNCHANGED <<serverVars, request, rewrap, connVars, begun, historyVars>>

\* A request saves the contract, and the client it registers, in its transaction.
RequestSaves(r, a) ==
  LET n == drawn + 1
      s == NewSecret(a, n)
      srv == IF There THEN Contract(server, a) ELSE server
  IN /\ run[r].pc = "asked" /\ run[r].kind = "request"
     /\ SaveContract(a)
     /\ \/ /\ ~Registers(r, a)
           /\ server' = srv
           /\ UNCHANGED <<record, drawn, overtaken>>
        \/ /\ Registers(r, a) /\ n <= MaxIds
           /\ server' = WithClient(srv, n, s, "dynamic")
           /\ record' = Stored(record, s, n)
           /\ drawn' = n
           /\ overtaken' = (overtaken \/ ~Current(run[r].client))
     /\ run' = [run EXCEPT ![r] = IdleRun]
     /\ UNCHANGED <<request, rewrap, connVars, begun, interrupted>>

\* The sweep saves the contract first, the row and then each tool under its own name,
SweepSaves(r, a) ==
  /\ run[r].pc = "asked" /\ run[r].kind = "sweep"
  /\ SaveContract(a)
  /\ server' = IF There THEN Contract(server, a) ELSE server
  /\ run' = [run EXCEPT ![r] = IF Registers(r, a)
                                 THEN [@ EXCEPT !.pc = "registering",
                                                !.confidential = a.offer = "confidential"]
                                 ELSE IdleRun]
  /\ UNCHANGED <<record, drawn, request, rewrap, connVars, begun, historyVars>>

\* then registers, and stores the secret it is given,
SweepRegisters(r) ==
  LET n == drawn + 1
  IN /\ run[r].pc = "registering" /\ n <= MaxIds
     /\ drawn' = n
     /\ record' = IF run[r].confidential THEN [record EXCEPT ![n] = n] ELSE record
     /\ run' = [run EXCEPT ![r].pc = "saving", ![r].id = n]
     /\ UNCHANGED <<server, tool, request, rewrap, connVars, begun, historyVars>>

\* then saves the client, whatever the server has got by then.
SweepSavesClient(r) ==
  /\ run[r].pc = "saving"
  /\ server' = WithClient(server, run[r].id, IF run[r].confidential THEN run[r].id ELSE 0,
                           "dynamic")
  /\ overtaken' = (overtaken \/ ~Current(run[r].client))
  /\ run' = [run EXCEPT ![r] = IdleRun]
  /\ UNCHANGED <<tool, record, drawn, request, rewrap, connVars, begun, interrupted>>

\* The registration is refused after all, or the process dies.
SweepEnds(r) ==
  /\ run[r].pc \in {"registering", "saving"}
  /\ interrupted' = (interrupted \/ run[r].pc = "saving")
  /\ run' = [run EXCEPT ![r] = IdleRun]
  /\ UNCHANGED <<serverVars, request, rewrap, connVars, begun, overtaken>>

RunNext ==
  \/ \E a \in Answers: CreateServer(a)
  \/ CreateUndiscovered
  \/ \E r \in Runs:
       \/ \E kind \in {"request", "sweep"}: BeginRun(r, kind)
       \/ RunFails(r)
       \/ \E a \in Answers: RequestSaves(r, a) \/ SweepSaves(r, a)
       \/ SweepRegisters(r)
       \/ SweepSavesClient(r)
       \/ SweepEnds(r)

-----------------------------------------------------------------------------
(***************************************************************************)
(* The tenant's requests                                                   *)
(***************************************************************************)

\* readMcpServerOAuthClient.
BeginRequest(a) ==
  /\ request[a].pc = "idle" /\ There
  /\ begun.requests < MaxRequests
  /\ begun' = [begun EXCEPT !.requests = @ + 1]
  /\ request' = [request EXCEPT ![a] = [pc |-> "read", client |-> server.client,
                                        secret |-> server.secret, source |-> server.source]]
  /\ UNCHANGED <<serverVars, run, rewrap, connVars, historyVars>>

\* What request a has read is no longer so.
Stale(a) == ~Current(request[a].client) \/ server.secret # request[a].secret

Ends(a) ==
  /\ request' = [request EXCEPT ![a] = IdleRequest]
  /\ overtaken' = (overtaken \/ Stale(a))
  /\ UNCHANGED <<run, rewrap, flow, begun, interrupted>>

\* expireConnectionsForService: whatever their status, and their credentials are deleted.
Expired == [u \in Users |-> IF conn[u].st = "none" THEN conn[u]
                                                   ELSE [st |-> "expired", client |-> 0]]

\* Mutant: nothing is deleted.
NotForgotten(s) == record

\* forgetSecret, or the delete after the server's.
Forgotten(s) == Stored(record, s, 0)

\* Mutant: only a removed client takes its tokens with it.
ClientRemoved(was, c) == was.client # 0 /\ c = 0

\* Tokens issued to the client that was read are worth nothing with client c.
ClientReplaced(was, c) == was.client # 0 /\ was.client # c

\* Mutant: the secret is carried over to another client id.
KeepsAnySecret(was, c) == TRUE

\* A body without a secret keeps the stored one, for the same client id only.
KeepsSecret(was, c) == c = was.client

\* PUT oauth-client: client id c, a new one or the one the server had.
PutClient(a, c, secret) ==
  LET was == request[a]
      n == drawn + 1
      s == CASE secret = "set" -> IF was.secret # 0 THEN was.secret ELSE n
             [] secret = "public" -> 0
             [] secret = "unchanged" -> was.secret
  IN /\ was.pc = "read" /\ server.type = "oauth2"
     /\ c \in {n, was.client} \ {0} /\ c <= MaxIds /\ s <= MaxIds
     /\ secret = "unchanged" => KeepsSecret(was, c) /\ (s # 0 => record[s] # 0)
     /\ drawn' = IF n \in {c, s} THEN n ELSE drawn
     /\ record' = CASE secret = "set" -> [record EXCEPT ![s] = c]
                    [] secret = "public" -> Forgotten(was.secret)
                    [] secret = "unchanged" -> record
     /\ server' = WithClient(server, c, s, "manual")
     /\ conn' = IF ClientReplaced(was, c) THEN Expired ELSE conn
     /\ UNCHANGED tool
     /\ Ends(a)

\* DELETE oauth-client: only for a client the tenant pasted.
RemoveClient(a) ==
  LET was == request[a]
  IN /\ was.pc = "read" /\ was.source = "manual"
     /\ server' = WithClient(server, 0, 0, "none")
     /\ record' = Forgotten(was.secret)
     /\ conn' = IF ClientReplaced(was, 0) THEN Expired ELSE conn
     /\ UNCHANGED <<tool, drawn>>
     /\ Ends(a)

\* DELETE: the tools go by the foreign key, the connections by the trigger.
DeleteServer(a) ==
  /\ request[a].pc = "read"
  /\ server' = NoServer("gone", server.type)
  /\ tool' = [t \in Tools |-> "none"]
  /\ record' = Forgotten(request[a].secret)
  /\ conn' = [u \in Users |-> NoConnection]
  /\ UNCHANGED drawn
  /\ Ends(a)

\* Refused, rolled back, or the victim of a deadlock.
RequestFails(a) ==
  /\ request[a].pc = "read"
  /\ request' = [request EXCEPT ![a] = IdleRequest]
  /\ UNCHANGED <<serverVars, run, rewrap, connVars, begun, historyVars>>

\* PATCH tools: one UPDATE.
SwitchTool(t) ==
  /\ tool[t] # "none"
  /\ tool' = [tool EXCEPT ![t] = IF @ = "on" THEN "off" ELSE "on"]
  /\ UNCHANGED <<server, record, drawn, run, request, rewrap, connVars, begun, historyVars>>

RequestNext ==
  \/ \E a \in Requests:
       \/ BeginRequest(a)
       \/ \E c \in Ids, secret \in {"set", "public", "unchanged"}: PutClient(a, c, secret)
       \/ RemoveClient(a)
       \/ DeleteServer(a)
       \/ RequestFails(a)
  \/ \E t \in Tools: SwitchTool(t)

-----------------------------------------------------------------------------
(***************************************************************************)
(* Key rotation: rewrap-secrets.ts and DatabaseSecretStore.rewrap          *)
(***************************************************************************)
RewrapRead(s) ==
  /\ rewrap.id = 0 /\ record[s] # 0
  /\ rewrap' = [id |-> s, holds |-> record[s]]
  /\ UNCHANGED <<serverVars, run, request, connVars, begun, historyVars>>

\* UPDATE ... WHERE id: the whole record, as it was read.
RewrapWrite ==
  /\ rewrap.id # 0
  /\ record' = IF record[rewrap.id] # 0 THEN [record EXCEPT ![rewrap.id] = rewrap.holds]
                                        ELSE record
  /\ overtaken' = (overtaken \/ record[rewrap.id] # rewrap.holds)
  /\ rewrap' = [id |-> 0, holds |-> 0]
  /\ UNCHANGED <<server, tool, drawn, run, request, connVars, begun, interrupted>>

-----------------------------------------------------------------------------
(***************************************************************************)
(* Connections to the server (routes/oauth.ts, for an MCP server)          *)
(***************************************************************************)

\* api-key: the server is looked up,
ResolveKey(u) ==
  /\ flow[u].pc = "idle"
  /\ There /\ server.type = "api_key" /\ server.enabled
  /\ flow' = [flow EXCEPT ![u] = [IdleFlow EXCEPT !.pc = "keyed"]]
  /\ UNCHANGED <<serverVars, run, request, rewrap, conn, begun, historyVars>>

\* then the key is stored and the connection upserted.
StoreKey(u) ==
  /\ flow[u].pc = "keyed"
  /\ conn' = [conn EXCEPT ![u] = [st |-> "connected", client |-> 0]]
  /\ flow' = [flow EXCEPT ![u] = IdleFlow]
  /\ overtaken' = (overtaken \/ ~There)
  /\ UNCHANGED <<serverVars, run, request, rewrap, begun, interrupted>>

\* authorize: resolveMcpAuthorization,
Resolve(u) ==
  /\ flow[u].pc = "idle"
  /\ There /\ server.type = "oauth2" /\ server.enabled
  /\ server.client # 0 /\ server.oauth
  /\ flow' = [flow EXCEPT ![u] = [IdleFlow EXCEPT !.pc = "resolved", !.client = server.client]]
  /\ UNCHANGED <<serverVars, run, request, rewrap, conn, begun, historyVars>>

\* then the upsert of the connection, and the redirect.
Redirect(u) ==
  /\ flow[u].pc = "resolved"
  /\ conn' = IF conn[u].st = "none" THEN [conn EXCEPT ![u].st = "pending"] ELSE conn
  /\ flow' = [flow EXCEPT ![u].pc = "redirected"]
  /\ overtaken' = (overtaken \/ ~Current(flow[u].client))
  /\ UNCHANGED <<serverVars, run, request, rewrap, begun, interrupted>>

\* callback: the client that the server has by now exchanges the code.
Exchange(u) ==
  /\ flow[u].pc = "redirected"
  /\ conn[u].st # "none"
  /\ There /\ server.oauth /\ server.client # 0
  /\ flow' = [flow EXCEPT ![u] = [pc |-> "exchanged", client |-> server.client,
                                  auth |-> server.auth,
                                  good |-> server.client = flow[u].client,
                                  was |-> conn[u].st = "connected"]]
  /\ UNCHANGED <<serverVars, run, request, rewrap, conn, begun, historyVars>>

\* The provider refuses the code: the status is written from what the callback had read.
ExchangeRefused(u) ==
  /\ flow[u].pc = "exchanged"
  /\ conn[u].st # "none"
  /\ conn' = [conn EXCEPT ![u].st = IF flow[u].was THEN "connected" ELSE "error"]
  /\ flow' = [flow EXCEPT ![u] = IdleFlow]
  /\ overtaken' = (overtaken \/ flow[u].was # (conn[u].st = "connected"))
  /\ UNCHANGED <<serverVars, run, request, rewrap, begun, interrupted>>

\* The connection is stored and, in the same transaction, the contract is read with the new
\* credential if the server had asked for one.  (The version it asks for is not modelled: nothing
\* else here bumps it.)
StoreConnection(u) ==
  /\ flow[u].pc = "exchanged" /\ flow[u].good
  /\ conn[u].st # "none"
  /\ conn' = [conn EXCEPT ![u] = [st |-> "connected", client |-> flow[u].client]]
  /\ flow' = [flow EXCEPT ![u] = IdleFlow]
  /\ overtaken' = (overtaken \/ ~Current(flow[u].client))
  /\ \/ UNCHANGED <<server, tool>>
     \/ /\ flow[u].auth /\ There
        /\ \E a \in Answers: a.offer = "no" /\ server' = Contract(server, a) /\ tool' = Upsert(a)
  /\ UNCHANGED <<record, drawn, run, request, rewrap, begun, interrupted>>

\* Abandoned by the user, refused, or rolled back.
FlowEnds(u) ==
  /\ flow[u].pc # "idle"
  /\ flow' = [flow EXCEPT ![u] = IdleFlow]
  /\ UNCHANGED <<serverVars, run, request, rewrap, conn, begun, historyVars>>

Disconnect(u) ==
  /\ conn[u].st # "none"
  /\ conn' = [conn EXCEPT ![u] = NoConnection]
  /\ UNCHANGED <<serverVars, run, request, rewrap, flow, begun, historyVars>>

ConnectNext ==
  \E u \in Users:
    \/ ResolveKey(u) \/ StoreKey(u)
    \/ Resolve(u) \/ Redirect(u) \/ Exchange(u) \/ ExchangeRefused(u) \/ StoreConnection(u)
    \/ FlowEnds(u) \/ Disconnect(u)

Next == RunNext \/ RequestNext \/ (\E s \in Ids: RewrapRead(s)) \/ RewrapWrite \/ ConnectNext

Spec == Init /\ [][Next]_vars

-----------------------------------------------------------------------------
(***************************************************************************)
(* Properties                                                              *)
(***************************************************************************)

\* Unless something was written that had changed since it was read: the secret stored for the
\* server's client exists and is that client's.
SecretFitsClient ==
  ~overtaken /\ server.secret # 0 => record[server.secret] = server.client

\* Unless that, or a sweep died at the wrong moment: no client secret is left that no server
\* points at, deleted servers included.
NoForgottenSecret ==
  ~overtaken /\ ~interrupted =>
    \A s \in Ids: record[s] # 0 =>
      s = server.secret \/ \E r \in Runs: run[r].pc = "saving" /\ run[r].id = s

\* Unless something was overtaken: a connection belongs to a server that is there, and its token
\* was issued to the client that the server has.
ConnectionFitsClient ==
  ~overtaken =>
    \A u \in Users: conn[u].st # "none" =>
      There /\ (conn[u].st = "connected" => conn[u].client = server.client)

\* A tool that the tenant switched off comes back only when the tenant switches it on.
TenantDecides ==
  [][\A t \in Tools: tool[t] = "off" /\ tool'[t] # "off" => SwitchTool(t) \/ server'.st = "gone"]_vars

-----------------------------------------------------------------------------
(***************************************************************************)
(* The inductive invariant behind the first three                          *)
(***************************************************************************)

\* Ids that were not drawn name nothing, and two sweeps hold different ones.
DrawnOK ==
  /\ record[0] = 0
  /\ \A s \in Ids: s > drawn => record[s] = 0
  /\ server.secret <= drawn
  /\ \A a \in Requests: request[a].secret <= drawn
  /\ \A r \in Runs: run[r].pc = "saving" =>
       /\ run[r].id \in 1..drawn
       /\ \A q \in Runs: run[q].pc = "saving" /\ q # r => run[q].id # run[r].id

\* A server that is not there has no client, and one that never was has nothing else.
AbsentOK ==
  /\ ~There => server.client = 0
  /\ server.st = "none" =>
       /\ \A s \in Ids: record[s] = 0
       /\ \A r \in Runs: run[r].pc = "idle"
       /\ \A a \in Requests: request[a].pc = "idle"
       /\ \A u \in Users: conn[u].st = "none" /\ flow[u].pc = "idle"

\* Only an OAuth server has a client; a secret is a client's; who registers had read no client;
\* a flow has a client, and so has a token unless something was overtaken.
ClientOK ==
  /\ server.client = 0 => server.secret = 0
  /\ server.type = "api_key" => server.client = 0
  /\ \A r \in Runs: run[r].pc \in {"registering", "saving"} =>
       run[r].client = 0 /\ server.type = "oauth2"
  /\ \A u \in Users: flow[u].pc = "keyed" => server.type = "api_key"
  /\ \A u \in Users: flow[u].pc \in {"resolved", "redirected", "exchanged"} => flow[u].client # 0
  /\ ~overtaken =>
       \A u \in Users: conn[u].st = "connected" /\ server.type = "oauth2" => conn[u].client # 0

\* The secret that a sweep is about to save is not the server's, and is still as it was stored.
HeldOK ==
  ~overtaken => \A r \in Runs: run[r].pc = "saving" =>
    /\ run[r].id # server.secret
    /\ record[run[r].id] = IF run[r].confidential THEN run[r].id ELSE 0

McpIInv ==
  /\ TypeOK
  /\ DrawnOK
  /\ AbsentOK
  /\ ClientOK
  /\ HeldOK
  /\ SecretFitsClient
  /\ NoForgottenSecret
  /\ ConnectionFitsClient
=============================================================================
