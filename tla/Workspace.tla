----------------------------- MODULE Workspace -----------------------------
(***************************************************************************)
(* One organization behind the dashboard and the API: its catalogue with   *)
(* the discovery sweep that keeps the MCP servers of it current; its       *)
(* members; what providers offer it; the count of its requests; the calls  *)
(* of its users' tools.                                                    *)
(*                                                                         *)
(* The catalogue and the sweep act on each other.  The others share no     *)
(* state with them or with one another: `part' says which one a behaviour  *)
(* is about, because interleaving them would show nothing that each alone  *)
(* does not.                                                               *)
(***************************************************************************)
EXTENDS Catalogue, DiscoverySweep, Membership, ProviderTools, UsageRecorder, ToolCalls

VARIABLE part

vars == <<catalogueVars, sweepVars, membershipVars, providerVars, usageVars, callVars, part>>

\* (Nothing waits for a sweep that has no part.)
Init ==
  /\ CatalogueInit /\ SweepInit /\ MembershipInit /\ ProviderInit /\ UsageInit /\ CallInit
  /\ part \in {"catalogue", "members", "providers", "usage", "calls"}
  /\ part # "catalogue" => stale = 0
  /\ part # "providers" => connected = {}
  /\ part # "calls" => policy = "full"

-----------------------------------------------------------------------------
\* A tenant's discovery sets the server's discovered_at with the rest of it.
Commits(w) ==
  /\ RequestCommits(w)
  /\ \/ writer[w] = "contract" /\ \E s \in Servers: Rediscovered(s)
     \/ writer[w] # "contract" /\ UNCHANGED sweepVars

\* The sweep goes on to the next server when it has dropped the key for this one.
Lists == ~undropped /\ SweepLists /\ UNCHANGED catalogueVars

Verifies(s) == SweepVerifies(s) /\ ContractSaved

Fails(s) == ~undropped /\ SweepFails(s) /\ UNCHANGED catalogueVars

Drops == KeyDropped /\ UNCHANGED sweepVars

Dies ==
  /\ SweepDies
  /\ \/ KeyNotDropped
     \/ ~undropped /\ batch # <<>> /\ UNCHANGED catalogueVars

CatalogueNext ==
  \/ (LookupNext \/ ChangeNext \/ RegistryNext) /\ UNCHANGED sweepVars
  \/ \E w \in Writers: Commits(w)
  \/ Lists \/ Drops \/ Dies
  \/ \E s \in Servers: Verifies(s) \/ Fails(s)
  \/ GrowsStale /\ UNCHANGED catalogueVars

Next ==
  \/ /\ part = "catalogue" /\ CatalogueNext
     /\ UNCHANGED <<part, membershipVars, providerVars, usageVars, callVars>>
  \/ /\ part = "members" /\ MembershipNext
     /\ UNCHANGED <<part, catalogueVars, sweepVars, providerVars, usageVars, callVars>>
  \/ /\ part = "providers" /\ ProviderNext
     /\ UNCHANGED <<part, catalogueVars, sweepVars, membershipVars, usageVars, callVars>>
  \/ /\ part = "usage" /\ UsageNext
     /\ UNCHANGED <<part, catalogueVars, sweepVars, membershipVars, providerVars, callVars>>
  \/ /\ part = "calls" /\ CallNext
     /\ UNCHANGED <<part, catalogueVars, sweepVars, membershipVars, providerVars, usageVars>>

Spec == Init /\ [][Next]_vars

\* Entries expire; the sweeps run on their schedules and come to the end of their batches; a
\* server whose host is not dead, and a provider that does not refuse, answer sooner or later.
Fairness ==
  /\ \A k \in Keys: WF_cache(part = "catalogue" /\ EntryExpires(k))
  /\ WF_<<batch, undropped>>(/\ part = "catalogue"
                             /\ Lists \/ Drops \/ \E s \in Servers: Verifies(s) \/ Fails(s))
  /\ \A s \in Servers \ Dead: SF_batch(part = "catalogue" /\ Verifies(s))
  /\ WF_todo(/\ part = "providers"
             /\ \E j \in Jobs: JobLists(j) \/ \E p \in Pairs: Offers(j, p) \/ Refuses(j, p))
  /\ \A p \in Pairs \ Refusing: SF_todo(part = "providers" /\ \E j \in Jobs: Offers(j, p))

FairSpec == Spec /\ Fairness

-----------------------------------------------------------------------------
\* The inductive invariant: types, what cached services are while a request is about to commit a
\* change of them, what a validated removal knows, where the count of a request is, and what a call
\* under way may do.
WorkspaceIInv ==
  /\ CatalogueTypeOK /\ MembershipTypeOK /\ ProviderTypeOK /\ UsageTypeOK
  /\ ServicesAreCurrent
  /\ ~raced /\ ServicesUnderWay => cache["services"] = None
  /\ OwnerRemains
  /\ ValidOK
  /\ DatedIsOffered
  /\ CountedOnce /\ OnlyExcusedAreLost /\ PlacesOK
  /\ CallTypeOK /\ RunsOnce /\ LeaseIsFresh /\ ReadOnlyRunsReviewed /\ CallsOK
=============================================================================
