# Authlane, in TLA+

Authlane stores OAuth credentials of a customer's users ("external users") and leases access
tokens to the customer's agents. This directory models the parts of it in which requests, workers,
timers and a tenant's settings meet on the same state. TLC checks the models on small instances; TLAPS
proves their invariants for every instance.

Paths below are relative to `src/`. Line-by-line correspondence is in `PROJECT.json` (`map`), the
hazards that the properties are for, each at its line, under `hazards`.

## 1. The system

| component | code | state | operations | modelled in |
|---|---|---|---|---|
| Connection rows, outbox rows, refresh queue | `packages/database/src/schema` | `connections`, `secret_records`, `outbox_events`, BullMQ jobs | SQL statements of the parts below | `ConnectionStore` |
| Hosted connect and OAuth flow | `apps/api/src/routes/oauth.ts` | `connect_sessions`, `oauth_transactions`, PKCE verifiers | create session, authorize, callback, disconnect, API-key connect | `Authorization`; for an MCP server `McpServer` |
| Token refresh worker | `packages/database/src/jobs/token-refresh.ts` | the row's refresh lease | lease, read, exchange, store, commit, clean up, give up | `TokenRefresh` |
| Background wiring | `apps/api/src/jobs/setup.ts` | queues, repeatable jobs | retry, reschedule, sweeps | `TokenRefresh`, `WebhookOutbox`, `DiscoverySweep`, `ProviderTools` |
| Expiry sweep | `apps/api/src/jobs/outbox.ts:184-223` | - | select overdue rows, mark one by one | `TokenRefresh` |
| Service settings, invalidation | `apps/api/src/routes/dashboard.ts`, `lib/connection-invalidation.ts` | `organization_services` | enable, change the tool policy, replace the OAuth client | `ServicePolicy` |
| Secret store, key rotation | `packages/database/src/secret-store.ts`, `rewrap-secrets.ts` | sealed records | put, read, delete, rewrap | existence in every module; rewrap in `McpServer` |
| Webhook outbox delivery | `apps/api/src/jobs/outbox.ts:92-180` | claim and retry columns of `outbox_events` | claim, sign, deliver, back off, give up | `WebhookOutbox` over `OrganizationSettings`; what it promises: `EventDelivery` |
| Tenant MCP servers | `apps/api/src/routes/mcp-servers.ts`, `lib/mcp-*.ts`, `jobs/mcp-discovery.ts`, `packages/database/src/mcp-servers.ts` | server rows, OAuth clients, tools | register, discover, register a client, paste or remove one, review tools, delete; the sweep | `McpServer` (one server), `DiscoverySweep` (which are asked), `Catalogue` (who sees it) |
| Control plane | `apps/api/src/routes/control-plane.ts`, `lib/control-plane-repository.ts` | Redis caches | list, capabilities, tools; lease a credential | `Catalogue`; leases in `ToolCalls` |
| Integration registry, provider tools | `packages/shared/src/integration-loader.ts`, `provider-tool-merge.ts`, `jobs/provider-tool-discovery.ts` | a promise cache per organization, `provider_tools` rows | load, invalidate, merge; the sweep | `Catalogue`, `ProviderTools`, `ToolCalls` |
| Organizations, members | `apps/api/src/routes/dashboard.ts`, `lib/invitations.ts` | member rows, `organization.metadata` | join, demote, remove, delete; webhook settings | `Membership`, `OrganizationSettings` |
| API usage recorder | `apps/api/src/lib/api-usage-recorder.ts` | a map in memory, daily totals | record, flush, stop | `UsageRecorder` |
| SDK, agent adapters | `packages/sdk`, `packages/ai` | the toolset given to an agent | list, execute: lease, provider MCP, fall back | `ToolCalls` |
| Auth, rate limit, sandbox, user interfaces, catalogue data, docs | the rest | - | - | no, see section 5 |

How they interact: HTTP handlers, workers and agents share no memory. They meet in PostgreSQL rows, in
a Redis queue and cache, and in caches of each process. A browser can run the same flow several times at
once; the provider's redirect arrives whenever the user lets it; jobs fire on timers in every API
process; the tenant's settings change at any moment. The difficulties are those of `READ COMMITTED`
transactions with network calls between their reads and writes, and of workers without any transaction:

- a **callback** consumes its state in one transaction, reads the connection in another, calls the
  provider for up to ten seconds *inside* it, and only then writes, asking for the version it had read;
- a **refresh** runs outside any transaction: its lease, its two secret operations and its final
  update commit one by one, and a process may die between any two of them;
- a **policy change** selects secrets, then expires *every* row of the service, without bumping a
  version or breaking a lease; a **disconnect** deletes the row under everyone;
- an **outbox worker** claims events for five minutes, posts, and writes what came of it, from settings
  and a batch that it had read before;
- a **discovery** of an MCP server takes seconds on a row read before it, in a request, in the sweep or in
  the callback of a first authorization, and may register an OAuth client at its end;
- **caches** are dropped before the transaction that changes what they cache commits;
- a **removal of an owner** counts owners in one statement and writes in another;
- a **tool call** uses a toolset listed long before, leases a credential that may be replaced between
  the read of the row and that of its secret, and has two ways to the provider.

What makes the parts correct: a credential ends up only in the row it was asked for, replaces only what
its writer knew, and is deleted when replaced; a state is exchanged once; two workers do not spend one
refresh token; each version has its event and none follows `disconnected`; an event is not closed
unless it was received or given up; a stored client secret is the client's and a token was issued to the
client the server has; what the tenant switched off stays off; a cache catches up; an organization keeps
an owner; a request is counted once; a tool call does what it asked for once, with a credential
that was good when it asked, and no more than was reviewed.

## 2. Modules

```
ConnectionStore            rows, secrets, outbox, queue; time passing for tokens
  |-- Authorization        sessions, authorize, callback, disconnect   routes/oauth.ts
  |-- TokenRefresh         lease, refresh, job retry, lease expiry,    jobs/token-refresh.ts,
  |                        expiry sweep                                setup.ts, outbox.ts
  |-- ServicePolicy        enable/disable, policy change               dashboard.ts, connection-invalidation.ts
  '-- ConnectionLifecycle  the three composed; properties; inductive invariants
        |-- MCConnectionLifecycle     TLC instances (symmetry)
        |-- (INSTANCE) ConnectionContract   what is promised of each connection
        '-- ConnectionTypeProofs -> ConnectionSafetyProofs -> ConnectionRecordProofs -> ConnectionRecallProofs
              -> ConnectionContractProofs

OrganizationSettings       webhook settings and signing secret         dashboard.ts
  '-- WebhookOutbox        workers that claim and deliver              jobs/outbox.ts
        |-- (INSTANCE) EventDelivery   what is promised of each event
        '-- WebhookOutboxProofs

McpServer                  one server, its clients, tools, connections routes/mcp-servers.ts, lib/mcp-*.ts
  '-- McpServerProofs

Catalogue                  cached lists and the tool registry          control-plane-repository.ts
DiscoverySweep             which MCP servers are rediscovered          jobs/mcp-discovery.ts
Membership                 the last owner                              lib/invitations.ts
ProviderTools              the sweep of providers' own tools           jobs/provider-tool-discovery.ts
UsageRecorder              counts in memory and in the table           lib/api-usage-recorder.ts
ToolCalls                  toolset, lease, two ways to the provider    packages/ai, packages/sdk
  '-- Workspace            the six composed; fairness
        '-- WorkspaceProofs
```

In `ConnectionLifecycle` and in `WebhookOutbox` the components share the database and so share
variables. In `Workspace`, the catalogue and the sweep act on each other (a discovery changes the
contract and, later, drops the key); the other four share nothing with them or with one another, and
`part` picks one per behaviour, because their product would show nothing that each alone does not.

**Two abstract specifications.** `EventDelivery` is what an integrator is promised of one outbox event.
`ConnectionContract` is what an integrator is promised of connections: without sessions, states, leases,
transactions, crashes and clocks, each connection is a register that is compared and swapped. A new
credential is offered (`Propose`) to one connection on the strength of the one it had; it is taken, once, with
its event, in the place of that credential or of none (`Take`), or withdrawn (`Withdraw`). A connection is
made and removed (`Make`, `Remove`), failures and expiries are told only of one that was authorized
(`Report`), a policy change takes all credentials at once and silently (`Revoke`). The mapping
(`Contract` in `ConnectionLifecycle`) reads a row's id and credential, the numbers drawn, the outbox, and as
offers the credentials of callbacks between `CallbackStore` and `CallbackCommit` and of refreshes between
`RefreshPut` and `RefreshCommit`; statuses, versions, leases, secrets and jobs are forgotten.

**Scope.** Each module is about one organization; the connection modules about one built-in OAuth
service, `McpServer` about one server, `ToolCalls` about one user and service. Rows, secrets and clients
are drawn by counting, so that a re-created row is a different row. Variables marked as history
(`grant`, `contested`, `disputed`, `overtaken`, `raced`, `overlapped`, `excused`, `since`) are read by no
guard of the code; they say whether what a property excuses has happened.

**Steps.** An action is a whole handler or a whole statement, whichever is what others can see:

| code | actions |
|---|---|
| `POST /connect-sessions`, expiry of session and step-up | `CreateSession`, `SessionEnds`, `StepUpEnds` |
| `POST /connect/:id/authorize`: session and settings; then `issueAuthorizationRedirect`, one transaction | `AuthorizeLoad`, `AuthorizeMint`, `StateLapses` |
| callback: `consumed_at` update; reads and provider call; the ways out | `CallbackConsume`; `CallbackBegin`, `CallbackRefused`; `CallbackFail`, `CallbackNoToken`, `CallbackConflict`, `CallbackStore` then `CallbackCommit`, `CallbackAbort` |
| `DELETE /connect/:id`: session check; one transaction | `DisconnectLoad`; `Disconnect`, `DisconnectAbort` |
| `refreshToken` and the job around it, statement by statement | `RefreshAcquire`, `RefreshSkip`, `RefreshRead`, `RefreshFail`, `RefreshRetry`, `RefreshPut`, `RefreshCommit`, `RefreshCommitFails`, `RefreshLost`, `RefreshDeleteOld`, `RefreshDone`, `RefreshThrows`, `RefreshCrash`; `LeaseLapses` |
| `markExpiredConnections` | `SweepSelect`, `SweepMark` |
| `PUT /organization/services/:id` with `expireConnectionsForService` | `SetEnabled`; `PolicySelect`, `PolicyCommit`, `PolicyAbort` |
| `PUT /settings`, rotation of the secret, `PATCH /organization`: read; one transaction | `SettingsLoad`; `PutSettings`, `RotateSecret`, `PatchMetadata`, `SettingsRefused` |
| `processOutboxBatch`, statement by statement | `SelectBatch`; `Claim`, `SkipEvent`; `ReadConfig`, `Waive`; `ReadSecret`, `SecretMissing`; `Deliver`; `Settle`; `WorkerCrash`; and `WriteEvent`, `BackoffEnds`, `Tick` |
| MCP server: register; discover (request, sweep, first authorization) | `CreateServer`, `CreateUndiscovered`; `BeginRun`, `RunFails`, `RequestSaves`; `SweepSaves`, `SweepRegisters`, `SweepSavesClient`, `SweepEnds` |
| its client pasted or removed; its deletion with the trigger; a tool switched | `BeginRequest` then `PutClient`, `RemoveClient`, `DeleteServer`, `RequestFails`; `SwitchTool` |
| its users: API key; authorize, callback, disconnect | `ResolveKey`, `StoreKey`; `Resolve`, `Redirect`, `Exchange`, `ExchangeRefused`, `StoreConnection`, `FlowEnds`, `Disconnect` |
| `rewrapSecrets` | `RewrapRead`, `RewrapWrite` |
| cached reads; requests that drop keys and commit; the registry | `CacheMiss`, `ReadSource`, `SetEntry`, `LookupFails`, `EntryExpires`; `RequestDrops`, `RequestCommits`, `RequestRollsBack`, `ConnectionChanges`; `ContractSaved`, `KeyDropped`, `KeyNotDropped`, `Load`, `RegistriesCleared` |
| the discovery sweep | `SweepLists`, `SweepVerifies`, `SweepFails`, `SweepDies`; `GrowsStale`, `Rediscovered` |
| member requests: role, member, count, write | `Join`; `Admit`, `ReadMember`, `CountOwners`, `WriteMember`, `PetitionEnds`; `DeleteOrganization` |
| the sweep of providers' tools | `JobLists`, `Offers`, `Refuses`, `JobDies`; `GrowsOld`, `ConnectedChanges` |
| usage: `record`, the timer's flush, its writes, `stop` on a signal | `Record`; `Flush`, `WriteEntry`; `Stop`, `Exit`, `Crash`, `Boot` |
| a toolset; a lease; `executePreferredProviderMcp`; the integration's own code | `ListTools`, `Invoke`; `LeaseReads`, `LeaseOpens`, `LeaseFails`; `GoesDirect`, `CannotStart`, `Starts`, `Runs`; `RunsDirect` |

**Transactions.** `withTenantContext` makes one transaction of a handler's database work, and
nothing in it is visible before its commit. PostgreSQL runs `READ COMMITTED`, its default: an
`UPDATE` evaluates its `WHERE` on the committed row, waits if another open transaction has
changed that row, and evaluates again after the wait. Hence `rowLock`: `CallbackStore` is the
callback's update, from which the row is locked; `CallbackCommit` publishes it. Between the two
lies the enqueueing of the refresh job, which no rollback takes back. A writer whose `WHERE`
matches waits (`rowLock[u] = None`, `MayWrite`); one whose `WHERE` does not match reads and goes
on. The callback deletes its PKCE verifier, and by cascade its `oauth_transactions` row, *before*
the provider call, in the transaction that stays open. A disconnect's cascade then waits on
that row (`Pinned`) holding the connection, the callback waits on the connection, and PostgreSQL
breaks the deadlock by aborting either one: `CallbackAbort` or `DisconnectAbort`. The other modules
need no locks: there a request's writes come at its end, so a request is a read step and a write step,
and what others committed in between is what it may overwrite.

**Details that matter** and are kept:

- `CallbackFail` writes a status computed from its snapshot, without a version check: after a
  policy change it can turn an expired row back to `connected`, with no credential in it.
- A refresh response without `expires_in` leaves `expires_at` as it was (`RefreshCommit`).
- A row found leased is *success* to the job, and completes it (`RefreshSkip`).
- The sweep bumps the version, so a refresh in flight loses; the policy change does not.
- A worker that dies leaves its lease to run out, and BullMQ runs the stalled job again.
- An outbox batch takes the time once, at its start: a claim is stale by the clock of a batch that may be
  at work for longer than a claim lives. The attempts that a batch counts are those it selected.
- A refresh whose clean-up throws (the transaction, the deletion of either secret, the release of the lease)
  is answered as a failed one and its job retried; a credential that was not deleted stays stored, a lease
  that was not released stays taken until it runs out.
- PUT /settings merges into the metadata that the middleware had read before the transaction began.
- PATCH /organization merges *every* key of the body's metadata, `webhookSecretId` included: null, an id
  that GET /organization has shown, or any other. It stores and deletes no secret.
- The first discovery of a server without OAuth client registers one; a request saves contract and client
  together, the sweep in four statements of its own.
- A failed discovery keeps `discovered_at`, so it stays first in the sweep's order.
- A name at the provider is resolved by normalized spelling when the tool is *called*; the merge at
  listing compares exact spellings.

**Abstracted or left out.** Scopes are reduced to the policy they were derived from; clocks to
"has it passed", any order of expiry being possible; `ShortLived` says whether a token may
live for less than the five minutes by which jobs run early, i.e. whether its job may be due
before the callback that enqueued it commits. The session lookup and the settings read of
authorize, a few statements apart, are one step. `last_error_code`, `last_refreshed_at` and
other columns that no guard reads are not modelled. The tenant has one policy request at
a time. A transaction either commits and says so or fails: a commit whose acknowledgement is lost is left
out. So is a refresh whose first `UPDATE`, that of the lease, throws: nothing has happened. A value in a
PATCH body that is no string reads as none, one that is no secret's id as `Foreign`. BullMQ is trusted to run a job at least once and to count its attempts. In `Catalogue` a value is
the number of the change that produced it; in `ToolCalls` a tool is what it does, and names with the same
normalized form do the same, which is what the code takes them for. The seat of `ToolCalls` (whose
credential a lease is issued for) moves as `ConnectionLifecycle` lets a row move: replaced with the old
secret deleted at once or later, expired with or without it, gone. A contract's name is one name whether a
provider writes it with the service's prefix or without; a provider that lists both, which makes the tool
unavailable, is one of the cases of `CannotStart`. `SweepSaves` is one step for the server's row and the upserts
of its tools, which are keyed by name and leave `enabled` alone. `SweepDies` stands for a database or Redis
error in the loop over servers as well as for the process: both end the batch. The rows of
`Membership` are also written by better-auth's own endpoints (`apps/api/src/lib/auth.ts:204`), library code outside
the repository: what they check before they remove or demote is not known here, and `OwnerRemains` is about
the dashboard's requests. The same holds of an update of the organization's metadata by that library.

## 3. What is checked

Deadlock is not an error in any run, because a bounded model ends when its requests are used up.

| run | instance | distinct states | properties |
|---|---|---|---|
| `authorize` | 1 user, 2 sessions, 2 authorizations, 2 callbacks, 1 policy change, 1 toggle | 530,789 | `StateSingleUse`, `CredentialLineage`, `DisconnectedIsLast`, `VerifierIsKept`, `KeepsContract` (refinement) |
| `refresh` | 1 user, 2 workers, 1 fault, 1 session, 2 authorizations, 1 callback, 2 rows, 3 secrets | 1,819,381 | `TypeOK`, `RefreshMutex`, `CredentialLineage`, `VersionCountsEvents`, `NoOrphanedSecret`, `RecordIInv`, `TaleIInv`, `NoLostCredential`, `SpentStaysSpent` |
| `policy` | 1 user, 1 worker, 2 authorizations, 1 callback, 3 secrets, 1 policy change | 2,106,520 | `IInv` (`CredentialLineage` in it) |
| `expiry` | 1 user, 1 worker with two tries per job, 1 fault, 2 authorizations, 1 callback, 2 rows; `FairSpec`, no symmetry | 359,809 | `OverdueIsResolved`, `NoSpuriousExpiry`, `KeepsContract` (refinement) |
| `outbox` | 1 event with two tries, 2 workers, 1 crash, batches up to a tick long, 2 settings requests at once; `FairSpec` | 406,325 | `OutboxIInv`, `ClaimExcludes`, `WebhookCanSign`, `AtLeastOnce` (refinement), `EventuallySettled` |
| `mcp` | 1 server that may be deleted, 1 tool, 1 user, 1 run at a time and 2 in all, 2 requests, 2 clients and secrets | 1,267,839 | `McpIInv`, `SecretFitsClient`, `NoForgottenSecret`, `ConnectionFitsClient`, `TenantDecides` |
| `workspace` | see `Workspace.cfg`; `FairSpec` | 361,746 | `WorkspaceIInv`, `ServicesAreCurrent`, `OwnerRemains`, `DatedIsOffered`, `CountedOnce`, `OnlyExcusedAreLost`, `RunsOnce`, `LeaseIsFresh`, `ReadOnlyRunsReviewed`, `CachesCatchUp`, `LiveIsVerified`, `FirstAreVerified` |

What they say of connections:

- **`CredentialLineage`** - a row's credential exists and was issued for that very row. The
  interesting behaviours are a callback or a refresh that outlives a disconnect and a reconnect
  (two rows), a refresh that loses to a re-authorization and deletes what it stored, and a
  policy change deleting the secrets it selected before others were stored.
- **`NoLostCredential`** - a credential is replaced only by a writer that had read it.
- **`KeepsContract`** - each step of a handler, job or sweep is one of `ConnectionContract`, or none: in
  `authorize` under two racing callbacks, disconnects and a policy change, which alone takes credentials
  silently, in `expiry` under a worker and the sweep. It contains `NoLostCredential`, said of the offer a
  credential was drawn for.
- **`SpentStaysSpent`** - a credential that was replaced, revoked, refused or removed gets into no
  connection again, however late its owner or reader is; a handler that wrote back its snapshot would break it.
- **`StateSingleUse`** - no two callbacks work for one state, however often it is delivered.
- **`VerifierIsKept`** - a state that can still be redeemed has its row and its PKCE verifier, and a callback
  that has consumed one finds the verifier while the row is there: deletions before the provider call,
  rollbacks and cascades notwithstanding, the exchange never fails for want of it.
- **`TaleIInv`** - what is told of a row begins with `connected` or is its removal alone, and whoever
  takes a row for connected has seen a version after its first.
- **`RefreshMutex`** - two runs that may spend the same refresh token exist only when a lease ran
  out. The code cannot promise more: the lease is two minutes of wall clock.
- **`VersionCountsEvents`**, **`DisconnectedIsLast`** - the transactional outbox: a version and its
  event come together, and nothing follows the row's disconnect.
- **`NoOrphanedSecret`** - each stored secret has a row or a run that will delete it; stated of
  behaviours without a fault or a policy change, in which it is false of the code: a worker that
  dies between two of its statements, or whose deletion throws (`token-refresh.ts:272`, `:279`), leaves a
  credential that nobody deletes (see also `surviving_ciphertext`).
- **`RecordIInv`** - the second strengthening. Among its parts, that a run at work holds the lease of the row
  it works for or the lease ran out, and that, without faults, a row is leased only by a run at
  work: a refresh that failed, however it failed, leaves the row free for the next attempt.
- **`NoSpuriousExpiry`** - the sweep expires only what is overdue at that moment.
- **`OverdueIsResolved`** - an overdue connected row does not stay so.

Of the outbox:

- **`ClaimExcludes`** - two workers handle one event only after a claim went stale under a slow one.
- **`AtLeastOnce`** - `WebhookOutbox` implements `EventDelivery`: an event is closed as delivered only
  when the endpoint has received it or no webhook was configured while it was open, as failed only after
  its last try, and stays closed unless two workers had it. The mapping forgets workers, claims and clock:
  "pending" and "processing" are both open, and `tries` are the posts made, not the attempts counted.
- **`WebhookCanSign`** - the signing secret that the settings name exists, and no other one does, up to the
  ids in dispute. An id is disputed by two things only: a request that writes although the settings no longer
  name the secret it had read, or a PATCH whose body names another than it read. So requests that
  overlap without touching the secret do no harm, an overtaken rotation can spoil only the ids it was about,
  and whatever secret is stored after that is named and signs.
- **`EventuallySettled`** - an event is delivered or given up in the end, unless its secret cannot be read.

Of MCP servers, all "unless somebody wrote over what had changed since it was read" (`overtaken`):

- **`SecretFitsClient`** - the secret the server points at exists and is its client's.
- **`NoForgottenSecret`** - no client secret is stored that neither the server nor a sweep holds.
- **`ConnectionFitsClient`** - no connection outlives its server, and its token was issued to the client
  the server has now.
- **`TenantDecides`** - no discovery, registration or callback switches a tool back on (always).

Of the workspace:

- **`ServicesAreCurrent`**, **`CachesCatchUp`** - the cached services are the committed ones unless a read
  raced with a change (a key is dropped before the change commits), or the sweep has still to drop them;
  and no key stays outdated for ever.
- **`LiveIsVerified`**, **`FirstAreVerified`** - a server whose host answers is rediscovered again and
  again while fewer servers are dead than a batch holds; the first pairs of the order of providers' tools,
  as many as a batch holds, are asked again and again whichever others refuse.
- **`DatedIsOffered`** - a pair that is passed over as verified has a list its provider gave.
- **`OwnerRemains`** - an organization keeps an owner unless two removals overlapped.
- **`CountedOnce`**, **`OnlyExcusedAreLost`** - each request's count is in memory, in the table once, or
  lost; and lost only to a refused write, a crash, or a signal before it or during its flush.
- **`RunsOnce`** - a tool call does at the provider what was asked for at most once: the integration's own
  code is tried only before the call through the provider's MCP server has begun.
- **`LeaseIsFresh`** - a call runs with a credential that was the user's at some time since the call.
- **`ReadOnlyRunsReviewed`** - through a toolset listed under `read_only` nothing is done that was not
  reviewed as reading, whatever the provider lists or claims.

**Bounds and why they are enough.** Two rows show a row and its successor under one key; two
authorizations give a first connection and one re-authorization, or two racing ones; two
callbacks race for one state or for one row; two workers give a lease or claim holder and its
successor; three secrets give a credential, its refresh and a competing one. Users interact nowhere but in
`PolicyCommit`, which treats all their rows alike; runs therefore have one user, and the proofs
cover any number. `MaxCreds`, `MaxRows`, `MaxIds`, `MaxSecrets` stop a step from drawing a fresh id;
`MaxChanges`, `MaxToggles`, `MaxUpdates`, `MaxRuns`, `MaxRequests`, `MaxCrashes`, `MaxFaults`, `MaxDeaths`, `PerCounter`
stop the environment; `MaxTries` and `MaxAttempts` are numbers of attempts, five and ten in the code, and one
or two in the passing runs, where exhausting them is the case of interest; `BatchSize` and
`PairBatch` are 25 (outbox), 20 (MCP servers) and 10 (pairs) in the code and small here, so that a
batch can be full; `MaxSpan` is how many spans of five
minutes a batch can last, and one is enough for a claim to be stale under it. No state constraint is used.
Symmetry is over users, sessions, transactions, callbacks and runs, all interchangeable, and only in
`authorize`, `refresh` and `policy`, which check no liveness.

Larger instances were checked once, without a finding: `refresh` with `KeepsContract`
(two workers and a fault; 1,819,381 states), `policy` with `TaleIInv`, `KeepsContract` and
`SpentStaysSpent` (2,106,520), `expiry` with three credentials and no fault (1,016,537), two lookups, two requests and two changes of each key
(3,213,458 states), three members and two petitions (197,516), four servers of which two are dead with
batches of three and two crashes (10,656).

**Fairness.** `expiry`: weak fairness of `CallbackStep(c)`: a handler that has begun ends, one way or
another (it may end by aborting), because its provider call is cut off after ten seconds
(`packages/shared/src/oauth-endpoints.ts:328`) and every other step is a database call. Weak
fairness of `SweepSelect` and `SweepMark(u)`: the sweep is scheduled every second
(`apps/api/src/jobs/setup.ts:43-47`). Nothing is assumed of refresh runs, sessions, users or
the tenant: the sweep alone owes `OverdueIsResolved`, and callbacks are fair only because the
sweep waits for the row they hold. `outbox`: weak fairness of the sweep that selects a batch, of the steps
of a batch (the post is cut off after ten seconds), of the end of a backoff, and of the clock. `workspace`:
weak fairness of the expiry of cache entries (Redis), of the discovery sweep's steps and of the jobs for
providers' tools, all repeatable jobs; strong fairness of the success of a server that is not dead and of a
pair that does not refuse, asked again and again: that is what "not dead" means. Nothing is assumed of
reads, requests, members, agents or signals.

**Where the code and its documents disagree.** Five runs expect a violation, each of a statement
quoted in `PROJECT.json` (`findings`):

| run | statement | counterexample |
|---|---|---|
| `stale_grant` | a policy change makes every user authorize again | a redirect minted under `full` is called back after the change to `read_only`: the row's version has not moved, and the wide grant is stored and `connected` |
| `surviving_ciphertext` | an expired connection must not keep its ciphertext | refresh stores its secret; the policy change selects, expires and commits; the refresh's update asks for id, version and lease, all intact, and writes the credential into the expired row |
| `lost_refresh` | credentials are refreshed in background jobs | a worker takes the lease and dies; its stalled job is run again within the two minutes, finds the row leased, reports success with no expiry, so nothing is scheduled again |
| `silent_status` | connection changes are delivered through the outbox | a policy change, or a failed exchange, changes the status without an event |
| `boot_contract` | without `invalidate` the registry would serve the contract captured at boot forever; a tool can be switched off | the registry loads a contract, the tenant switches a tool off, nothing calls `invalidate`, and the tool stays listed |

Other disagreements met while modelling. They have no run of their own: the properties above are stated
so that they exclude them, and the history variables say when.

- *Members.* `OwnerRemains` needs its excuse: two removals that each count two owners remove both
  (`lib/invitations.ts:238`, no lock between the count and the write).
- *Settings.* Two overlapping updates of the settings can leave a `webhookUrl` whose signing secret has been
  deleted. `PATCH /organization` (`dashboard.ts:1328-1338`) can set a URL without any secret, and names any
  secret: one request with `webhookSecretId: null` leaves the signing secret stored and unnamed. Events are then claimed, the batch
  aborts at the secret, and they wait out the stale span again and again.
- *OAuth clients.* Two discoveries both find no client and both register one; the second overwrites the
  first, whose secret stays stored, though both had looked for a client first
  (`mcp-client-registration.ts:153-154`; `jobs/mcp-discovery.ts:94-96` "so this cannot abandon a live
  client at the provider"). A failed exchange
  writes the status of its snapshot over a row that the replacement of the client had expired.
- *Deleted servers.* `packages/database/drizzle/0007_tenant_service_ids.sql:16` says that deleting a server
  "must not leave its connections and their credentials behind"; the trigger deletes the rows, and the
  sealed credentials they pointed at stay, without an event.
- *First authorization.* `lib/mcp-first-authorization.ts:29-32` says that a failing discovery must not cost the user
  the authorization; a database error in it is caught, but has aborted the transaction of the callback.
- *Tools that disappear.* `packages/database/src/mcp-servers.ts:254-255` says that they stop being issued
  because `last_seen_at` no longer advances; `readMcpServerTools` does not look at it.
- *Sweeps.* With as many dead servers as a batch holds, `LiveIsVerified` is violated: the dead stay first. With
  more pairs than a batch, `FirstAreVerified` does not extend to the later ones. In the code the age limit
  and the period are both twelve hours (`provider-tool-discovery.ts:34-35`, `setup.ts:99`), so a pair is due
  at every other run only (`apps/docs/guides/user-tools.mdx:81` says twice a day), and it takes two batches of
  pairs, or one of failing ones, before the others are never asked. The
  credential used for a pair is that of any of its users, possibly always one without the scope.
- *Usage.* `api-usage-recorder.ts:7-8` bounds the loss of a crash by one interval; a flush slower than the
  interval loses more, and an orderly stop does not wait for the timer's flush under way.
- *Caches.* A rejected load is kept in the registry; an organization's cached services outlive its deletion by
  up to five minutes.
- *Tools.* The test "never offers the same tool twice" of `provider-tool-merge.test.ts:48` holds for exact
  spellings: a provider's hyphenated name, or one that `mapToolCall` leads to, is offered beside the
  contract's (`provider-tool-merge.ts:63` against `provider-mcp.ts:778`). Discovered tools carry no service
  prefix: two connected services that offer the same name make `validateCapabilityTools`
  (`packages/sdk/src/user-tools.ts:467`) refuse the whole toolset. A tool that a provider lists in two
  spellings is answered as unavailable. A toolset listed under `full` goes on running write tools after the
  change to `read_only`, once its user has authorized again: `ReadOnlyRunsReviewed` is about the policy
  of the listing, which is all that the code checks.

Each property of a passing run has at least one mutant in `PROJECT.json`: a dropped `consumed_at IS
NULL`, version, claim or lease comparison, a secret not deleted, an event published without its row, a flush
that copies instead of taking, a fallback after the call has begun, and so on, which makes TLC refute
the property under the same configuration.

## 4. What is proved

All with `tlapm`, for every set of users, sessions, workers, requests, servers, tools and so on, and
for every bound. The assumptions are those on the constants, named in the modules (`StoreAssumption`,
`AuthorizationAssumption`, `RefreshAssumption`, `PolicyAssumption`, `SettingsAssumption`, `OutboxAssumption`,
`McpAssumption`, `CatalogueAssumption`, `SweepAssumption`, `MembershipAssumption`, `ProviderAssumption`,
`UsageAssumption`, `CallAssumption`): `None` is not one of the identifiers, bounds are naturals, a job or an
event has at least one attempt, a batch holds something, an organization's members are finite. TLC
evaluates them in every run.

Every invariant and every action property that a passing run checks is a theorem, and so are both
refinements; the four liveness properties of `workspace` and `outbox` and that of `expiry` are not.

**Connections** (`ConnectionTypeProofs`, `ConnectionSafetyProofs`, `ConnectionRecordProofs`,
`ConnectionRecallProofs`, `ConnectionContractProofs`).

The proofs share lemmas on the actions, in `ConnectionTypeProofs`: who writes what (`AuthFrame`,
`RefreshFrame`, `PolicyFrame`; `RowWriters` lists the actions that touch a row, by name) and what a write
makes of a row (`MintWrites`, `CommitWrites`, `FailWrites`, `LeaseWrites`, `RotateWrites`,
`MarkWrites`, `DisconnectWrites`, `PolicyWrites`, `FailedWrites`), so that a proof about rows looks at those
few and not at every action.

- `TypeCorrectness`: `Spec => []TypeOK`, through `TypeInv == TypeOK /\ Attributed /\ JobsOK`.
  Typing is not inductive alone. A handler indexes `conn` by the user it remembers, so "whoever is at
  work works for a user" (`Attributed`) is needed; and `tries` stays within `MaxTries` only because
  a job is run by one attempt at a time and a new credential has no job yet (`JobsOK`).
- `InductiveInvariance`: `Spec => []IInv`, from which `StateSingleUseHolds` and
  `CredentialLineageHolds` follow. `IInv` adds `LocksOK` (a row lock belongs to a callback that is about to
  commit, and its row is still there: otherwise a commit could write into a re-created row), `IncomingOK`
  (a credential on its way into a row was granted for that row, and no two carriers hold the same) and
  `SeatedOK` (a credential that is, or was when somebody read it, in a row is never one still on its
  way in, and a run about to delete a replaced credential no longer finds it in the row, so no
  deletion hits one that a row points at or will). Steps that touch none of this are one lemma
  (`QuietSafe`); nine lemmas treat the others.
- `VersionCountsEventsHolds`, `DisconnectedIsLastHolds`: every action is one of four kinds of step of
  the rows, `Stays`, `Bumps(u)`, `Goes(u)`, `Comes(u)` (`RowSteps`), and each kind preserves
  `EventsOK`: row ids are distinct, nothing is written about an id not drawn, versions count events.
- `RefreshMutexHolds`, `NoOrphanedSecretHolds`, `NoLostCredentialHolds`, `NoSpuriousExpiryHolds`: from
  `RecordIInv`, which is about memory. `RowsOK` and `RecallOK`: nobody remembers a row that was not inserted.
  `VersionsOK`: whoever has read a row either finds a younger version, or the credential that he
  read (or none, after a policy change); what the sweep selected at the current version is overdue.
  `LeaseOK`: a run at the provider holds the row's lease, or it ran out. The rest of `LeaseOK`, that a
  lease is held by a run at work unless there was a fault, needs who may hold which (`LeasesHeld`).
  `OwnersOK`: 0 names no secret. A version compared in a `WHERE` thus compares all that was read with
  it, which is why the code's single comparison suffices.
- `TaleInvariance`, with `TaleIInvHolds` and `VerifierIsKeptHolds`: from `TaleIInv`, the third strengthening.
  `AuthorizedFirst` is not inductive alone: that a failing refresh does not open the tale of a row
  needs that the run's row has left its first version (`ConnectedOK`: so has every row that is, or was
  when somebody read it, `connected`), and that versions count events (`VersionCountsEvents`) turns the
  version into an event told. `VerifierIsKept` rests on `StateSingleUse`: what one callback drops is
  no other's.
- `LifecycleKeepsContract`: `Spec => KeepsContract`, the refinement. `IInv`, `RecordIInv` and `TaleIInv` are
  known of the state before a step; the lemmas `IsMake`, `IsPropose`, `IsTake` and so on say when a change of the
  rows is the contract's step, `OffersKept`, `OfferAdded` and `OfferDropped` what becomes of the offers,
  and one lemma per handler (`CommitContract`, `RotateContract`, `PolicyContract`, ...) puts them together.
  `OfferDropped` needs that no two carriers hold one credential (`IncomingOK`), `Take` that the version
  compared stands for the credential read (`VersionsOK`), `Report` the tale (`TaleIInv`).
- `SpentStaysSpentHolds` is read off the refinement (`SpentStep`): a step of the contract draws a later
  credential or puts one where it was offered, whatever the code does to get there.

**Outbox** (`WebhookOutboxProofs`): `OutboxInvariance` for `OutboxIInv`, then `ClaimExcludesHolds`,
`WebhookCanSignHolds`, and `OutboxRefinesDelivery`, `Spec => AtLeastOnce`: initial states map to initial
states and each action to one of `EventDelivery` or a stutter. `OutboxIInv` says that the event in hand is
one of the batch (`InHand`), that it is "processing" unless taken over (`HandledIsProcessing`), that no
count of attempts is ahead of the posts made (`CountedOK`: without it an event might be given up early) and
that what a worker is about to write of its event is true (`OutcomeOK`: otherwise it might close an
event that nobody received). `WebhookCanSign` is proved with `IdsKnown`: nobody names the id of a signing secret
before it is drawn, so a rotation's new id is neither disputed nor anyone else's.

**MCP server** (`McpServerProofs`): `McpInvariance` for `McpIInv`, then `SecretFitsClientHolds`,
`NoForgottenSecretHolds`, `ConnectionFitsClientHolds`, `TenantDecidesHolds`. `DrawnOK`: ids not drawn name
nothing and two sweeps hold different ones. `AbsentOK`: a server that is not there has no client. `ClientOK`:
only an OAuth server has a client, who registers had read none. `HeldOK`: the secret that a sweep is about
to save is not the server's and still as stored.

**Workspace** (`WorkspaceProofs`): `WorkspaceInvariance` for `WorkspaceIInv`, then `ServicesAreCurrentHolds`,
`OwnerRemainsHolds`, `DatedIsOfferedHolds`, `CountedOnceHolds`, `OnlyExcusedAreLostHolds`, `RunsOnceHolds`,
`LeaseIsFreshHolds`, `ReadOnlyRunsReviewedHolds`. Each part has an invariant of its own and a step leaves the
other parts alone (`InvSplit`). What is added to the properties: while a request is about to commit a
change of the services nothing is cached unless raced; what a petition validated still holds unless it is
late (`ValidOK`, over finite sets of owners); a count is in one place only, and what the end of a signal's
flush does not wait for is excused (`PlacesOK`); a call under way has run nothing, may do only what its
toolset offers, and knows of every credential seated since it began (`CallsOK`).

**Only model-checked**: `OverdueIsResolved`, `EventuallySettled`, `CachesCatchUp`, `LiveIsVerified`,
`FirstAreVerified`. Liveness under fairness is out of the prover's reach. The runs check every inductive
invariant (`IInv`, `RecordIInv`, `TaleIInv`, `OutboxIInv`, `McpIInv`, `WorkspaceIInv`) on instances with every kind of
actor as well.

## 5. Not modelled

- *Authentication, scopes, rate limiting*: checks of one request against rows it only reads, the better-auth
  library, and a limiter whose Redis script is atomic.
- *Sandbox runtime*: a stream of a model provider with a key that lives for two minutes; its tool calls are
  those of `ToolCalls`.
- *User interfaces, the Python and React SDKs, framework wrappers, generated contracts, integration code,
  seeds, scripts, documentation, deployment*: no state shared between actors, or data. They are most of the
  repository's lines.
- *Row-level security*: a property of SQL policies and not of an order of steps. Every module is about
  one organization.
- *Cryptography, HTTP parsing and validation*: reduced to their outcomes.
- *Of components that are modelled*: opening and closing the queues; invitations (rows of better-auth from
  which a member may `Join`); API keys (sequential); the later failures of refreshes whose built-in OAuth
  client was replaced; the connect session's own steps for an MCP server (modelled for the built-in service).

What could come next: statuses in `ConnectionContract` (it tells a connection by its credential and its events
only); a contract of the MCP server in the same manner; several processes adding to the usage table.

## 6. Running

```
tlc -workers 2 -config ConnectAuthorize.cfg MCConnectionLifecycle   # also ConnectRefresh, ConnectPolicy, ConnectExpiry,
                                                                    # StaleGrant, SurvivingCiphertext, LostRefresh, SilentStatus
tlc -workers 2 -config Outbox.cfg WebhookOutbox
tlc -workers 2 -config McpServer.cfg McpServer
tlc -workers 2 -config Workspace.cfg Workspace                      # also BootContract
for m in ConnectionType ConnectionSafety ConnectionRecord ConnectionRecall ConnectionContract \
         WebhookOutbox McpServer Workspace
do tlapm ${m}Proofs.tla; done
```

Each passing run takes at most about three minutes on two workers, each expected violation a few
seconds, each proof module at most a few minutes.
