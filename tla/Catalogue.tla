----------------------------- MODULE Catalogue -----------------------------
(***************************************************************************)
(* What the API tells runtimes about ONE organization, and from where: the *)
(* services and one user's connections through a cache with a time to      *)
(* live, tool contracts through a registry in memory.  Sources:            *)
(* lib/control-plane-repository.ts, lib/cache.ts, routes/index.ts,         *)
(* packages/shared/src/integration-loader.ts, and whatever drops a key.    *)
(*                                                                         *)
(* What the database would answer for a key is a version: every change of  *)
(* it is a new one.  A tenant's request drops the keys it changes while    *)
(* its transaction is open, so others still read the old version.          *)
(***************************************************************************)
EXTENDS Naturals

CONSTANTS
  Tools,        \* tools of one MCP server that a user is connected to
  Lookups,      \* cached reads in flight
  Writers,      \* tenant requests in flight
  MaxChanges    \* bound: versions of one key

ASSUME CatalogueAssumption == MaxChanges \in Nat

VARIABLES
  truth,        \* the committed version of each key
  cache,        \* the cached version of each key, or None
  lookup,       \* reads that missed: the key, and the version read from the database
  writer,       \* requests: what they change
  approved,     \* tools the server lists and the tenant has not switched off
  registry,     \* the contract the process has loaded for the server
  undropped,    \* the sweep has saved a discovery and not yet dropped the key
  raced         \* history: services were cached across a change of them

catalogueVars == <<truth, cache, lookup, writer, approved, registry, undropped, raced>>

Keys == {"services", "connections"}

Versions == 0..MaxChanges

None == MaxChanges + 1

Lookup == [pc: {"idle", "missed", "read"}, key: Keys, version: Versions]

IdleLookup == [pc |-> "idle", key |-> "services", version |-> 0]

\* service: settings or a client.  policy: also expires the connections.  removal: of an MCP
\* server, with its connections.  contract: a discovery.  tool: the tenant's decision about one.
Kinds == {"service", "policy", "removal", "contract", "tool"}

Writer == {"idle"} \cup Kinds

Contract == [st: {"none", "failed", "loaded"}, tools: SUBSET Tools]

NoContract == [st |-> "none", tools |-> {}]

CatalogueInit ==
  /\ truth = [k \in Keys |-> 0]
  /\ cache = [k \in Keys |-> None]
  /\ lookup = [l \in Lookups |-> IdleLookup]
  /\ writer = [w \in Writers |-> "idle"]
  /\ approved = Tools
  /\ registry = NoContract
  /\ undropped = FALSE
  /\ raced = FALSE

CatalogueTypeOK ==
  /\ truth \in [Keys -> Versions]
  /\ cache \in [Keys -> Versions \cup {None}]
  /\ lookup \in [Lookups -> Lookup]
  /\ writer \in [Writers -> Writer]
  /\ approved \subseteq Tools
  /\ registry \in Contract
  /\ undropped \in BOOLEAN /\ raced \in BOOLEAN

ChangedBy(kind) ==
  CASE kind \in {"service", "contract"} -> {"services"}
    [] kind \in {"policy", "removal"} -> Keys
    [] kind = "tool" -> {}

DroppedBy(kind) == IF kind = "policy" THEN Keys ELSE {"services"}

-----------------------------------------------------------------------------
(***************************************************************************)
(* Cached reads                                                            *)
(***************************************************************************)

\* (A hit changes nothing.)
CacheMiss(l, k) ==
  /\ lookup[l].pc = "idle" /\ cache[k] = None
  /\ lookup' = [lookup EXCEPT ![l] = [IdleLookup EXCEPT !.pc = "missed", !.key = k]]
  /\ UNCHANGED <<truth, cache, writer, approved, registry, undropped, raced>>

ReadSource(l) ==
  /\ lookup[l].pc = "missed"
  /\ lookup' = [lookup EXCEPT ![l].pc = "read", ![l].version = truth[lookup[l].key]]
  /\ UNCHANGED <<truth, cache, writer, approved, registry, undropped, raced>>

ServicesUnderWay == \E w \in Writers: writer[w] \notin {"idle", "tool"}

SetEntry(l) ==
  LET k == lookup[l].key
      v == lookup[l].version
  IN /\ lookup[l].pc = "read"
     /\ cache' = [cache EXCEPT ![k] = v]
     /\ raced' = (raced \/ (k = "services" /\ (ServicesUnderWay \/ v # truth[k])))
     /\ lookup' = [lookup EXCEPT ![l] = IdleLookup]
     /\ UNCHANGED <<truth, writer, approved, registry, undropped>>

\* The database or the cache refuses.
LookupFails(l) ==
  /\ lookup[l].pc # "idle"
  /\ lookup' = [lookup EXCEPT ![l] = IdleLookup]
  /\ UNCHANGED <<truth, cache, writer, approved, registry, undropped, raced>>

\* Mutant: entries are set without a time to live.
EntryStays(k) == FALSE /\ UNCHANGED catalogueVars

EntryExpires(k) ==
  /\ cache[k] # None
  /\ cache' = [cache EXCEPT ![k] = None]
  /\ UNCHANGED <<truth, lookup, writer, approved, registry, undropped, raced>>

LookupNext ==
  \/ \E l \in Lookups:
       \/ \E k \in Keys: CacheMiss(l, k)
       \/ ReadSource(l) \/ SetEntry(l) \/ LookupFails(l)
  \/ \E k \in Keys: EntryExpires(k)

-----------------------------------------------------------------------------
(***************************************************************************)
(* Changes                                                                 *)
(***************************************************************************)

Without(ks) == [k \in Keys |-> IF k \in ks THEN None ELSE cache[k]]

\* Mutant: only what expires connections drops the catalogue.
DropConnectionsOnly(kind) == Without(IF kind = "policy" THEN Keys ELSE {})

Drop(kind) == Without(DroppedBy(kind))

\* Tools that a discovery finds are approved until the tenant says otherwise.
Listed == {ts \in SUBSET Tools: approved \subseteq ts}

\* A tenant's request writes and drops, its transaction open;
RequestDrops(w, kind) ==
  /\ writer[w] = "idle"
  /\ writer' = [writer EXCEPT ![w] = kind]
  /\ cache' = Drop(kind)
  /\ UNCHANGED <<truth, lookup, approved, registry, undropped, raced>>

\* then it commits: the versions it makes, and the tools of the server as the tenant has them.
RequestCommits(w) ==
  /\ writer[w] # "idle"
  /\ \A k \in ChangedBy(writer[w]): truth[k] < MaxChanges
  /\ truth' = [k \in Keys |-> IF k \in ChangedBy(writer[w]) THEN truth[k] + 1 ELSE truth[k]]
  /\ approved' \in CASE writer[w] = "tool" -> UNION {{approved \cup {t}, approved \ {t}}: t \in Tools}
                     [] writer[w] = "contract" -> Listed
                     [] OTHER -> {approved}
  /\ writer' = [writer EXCEPT ![w] = "idle"]
  /\ UNCHANGED <<cache, lookup, registry, undropped, raced>>

RequestRollsBack(w) ==
  /\ writer[w] # "idle"
  /\ writer' = [writer EXCEPT ![w] = "idle"]
  /\ UNCHANGED <<truth, cache, lookup, approved, registry, undropped, raced>>

\* A callback, a refresh, a disconnect or the expiry sweep: nobody drops the connections.
ConnectionChanges ==
  /\ truth["connections"] < MaxChanges
  /\ truth' = [truth EXCEPT !["connections"] = @ + 1]
  /\ UNCHANGED <<cache, lookup, writer, approved, registry, undropped, raced>>

\* The sweep saves a discovery: the row may say something new,
ContractSaved ==
  /\ \/ UNCHANGED truth
     \/ /\ truth["services"] < MaxChanges
        /\ truth' = [truth EXCEPT !["services"] = @ + 1]
  /\ approved' \in Listed
  /\ ~undropped /\ undropped' = TRUE
  /\ UNCHANGED <<cache, lookup, writer, registry, raced>>

\* and since it has no transaction, it drops the key after that, or never.
KeyDropped ==
  /\ undropped
  /\ undropped' = FALSE
  /\ cache' = Without({"services"})
  /\ UNCHANGED <<truth, lookup, writer, approved, registry, raced>>

KeyNotDropped ==
  /\ undropped
  /\ undropped' = FALSE
  /\ raced' = TRUE
  /\ UNCHANGED <<truth, cache, lookup, writer, approved, registry>>

ChangeNext ==
  \/ \E w \in Writers:
       (\E kind \in Kinds: RequestDrops(w, kind)) \/ RequestRollsBack(w)
  \/ ConnectionChanges

-----------------------------------------------------------------------------
(***************************************************************************)
(* The registry of tool contracts                                          *)
(***************************************************************************)

\* The first listing for the organization loads the contract, and others wait for the same load.
\* Its outcome is kept, a failure too,
Load ==
  /\ registry.st = "none"
  /\ \/ registry' = [st |-> "loaded", tools |-> approved]
     \/ registry' = [NoContract EXCEPT !.st = "failed"]
  /\ UNCHANGED <<truth, cache, lookup, writer, approved, undropped, raced>>

\* until the process restarts, or a 257th organization calls.
RegistriesCleared ==
  /\ registry.st # "none"
  /\ registry' = NoContract
  /\ UNCHANGED <<truth, cache, lookup, writer, approved, undropped, raced>>

RegistryNext == Load \/ RegistriesCleared

-----------------------------------------------------------------------------
(***************************************************************************)
(* Properties                                                              *)
(***************************************************************************)

\* While no lookup cached services across a change of them, and the sweep has dropped its key:
\* the cached services are the committed ones, however requests, their rollbacks, discoveries
\* and lookups interleave.
ServicesAreCurrent ==
  ~raced /\ ~undropped => cache["services"] \in {None, truth["services"]}

\* Whatever was cached when: once changes cease, no key tells an old version for ever
\* (troubleshooting.mdx:43).
CachesCatchUp == \A k \in Keys: <>[](cache[k] \in {None, truth[k]})

\* mcp-servers.mdx:37, integration-loader.ts:74: a tool that the tenant leaves switched off is not
\* listed for ever.
SwitchedOffIsUnlisted ==
  \A t \in Tools: t \notin approved ~> (t \in approved \/ t \notin registry.tools)
=============================================================================
