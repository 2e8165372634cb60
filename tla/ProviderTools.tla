---------------------------- MODULE ProviderTools ----------------------------
(***************************************************************************)
(* What the providers' own MCP servers offer, as the sweep of              *)
(* apps/api/src/jobs/provider-tool-discovery.ts last saw it: one row for   *)
(* each pair of an organization and a service                              *)
(* (packages/database/src/provider-tools.ts).                              *)
(*                                                                         *)
(* A job lists the pairs that are connected and stale, a batch at a time,  *)
(* and asks for them one after the other, with some user's credential.     *)
(* DISTINCT ON sorts what it lists, so pairs are numbers in that order: a  *)
(* pair that stays stale keeps its place.                                  *)
(***************************************************************************)
EXTENDS Naturals, FiniteSets, FiniteSetsExt

CONSTANTS
  NumPairs,     \* pairs of an organization and a service
  Refusing,     \* those whose provider, or whose users' tokens, never give a list
  PairBatch,    \* PROVIDER_DISCOVERY_BATCH_SIZE
  Jobs,         \* the scheduled sweep, and those that processes add when they boot
  MaxDeaths     \* bound: jobs that die half-way

Pairs == 1..NumPairs

ASSUME ProviderAssumption ==
  /\ NumPairs \in Nat /\ PairBatch \in Nat \ {0} /\ MaxDeaths \in Nat
  /\ Refusing \subseteq Pairs

VARIABLES
  connected,    \* pairs with a connected user who has a credential
  dated,        \* the age of each pair's discovered_at
  offered,      \* pairs whose row holds a list that the provider gave
  todo,         \* what each job has listed and not yet handled
  deaths

providerVars == <<connected, dated, offered, todo, deaths>>

Ages == {"never", "recent", "old"}

ProviderInit ==
  /\ connected \in SUBSET Pairs
  /\ dated = [p \in Pairs |-> "never"]
  /\ offered = {}
  /\ todo = [j \in Jobs |-> {}]
  /\ deaths = 0

ProviderTypeOK ==
  /\ connected \subseteq Pairs
  /\ dated \in [Pairs -> Ages]
  /\ offered \subseteq Pairs
  /\ todo \in [Jobs -> SUBSET Pairs]
  /\ deaths \in 0..MaxDeaths

IsUnseen(p) == dated[p] # "recent"

-----------------------------------------------------------------------------
\* listProviderDiscoveryCandidates: LIMIT takes the first in the order.
Candidates ==
  LET due == {p \in connected: IsUnseen(p)}
  IN {p \in due: Cardinality({q \in due: q < p}) < PairBatch}

JobLists(j) ==
  /\ todo[j] = {} /\ Candidates # {}
  /\ todo' = [todo EXCEPT ![j] = Candidates]
  /\ UNCHANGED <<connected, dated, offered, deaths>>

IsNext(j, p) == p \in todo[j] /\ \A q \in todo[j]: p <= q

Handled(j, p) == [todo EXCEPT ![j] = @ \ {p}]

\* saveProviderTools: anonymously, or with the token, the provider tells its tools.
Offers(j, p) ==
  /\ IsNext(j, p) /\ p \notin Refusing
  /\ offered' = offered \cup {p}
  /\ dated' = [dated EXCEPT ![p] = "recent"]
  /\ todo' = Handled(j, p)
  /\ UNCHANGED <<connected, deaths>>

\* Mutant: a failure is a discovery like any other.
FailureIsDated(j, p) ==
  /\ IsNext(j, p)
  /\ dated' = [dated EXCEPT ![p] = "recent"]
  /\ todo' = Handled(j, p)
  /\ UNCHANGED <<connected, offered, deaths>>

\* Mutant: a failure fails the job.
FailureEndsJob(j, p) ==
  /\ IsNext(j, p)
  /\ todo' = [todo EXCEPT ![j] = {}]
  /\ UNCHANGED <<connected, dated, offered, deaths>>

\* saveProviderToolsFailure: the secret has been replaced or cannot be read, it carries no token or
\* not the scope, or the provider refuses it.  The row's list and date stand; a new row has neither.
Refuses(j, p) ==
  /\ IsNext(j, p)
  /\ todo' = Handled(j, p)
  /\ UNCHANGED <<connected, dated, offered, deaths>>

JobDies(j) ==
  /\ todo[j] # {} /\ deaths < MaxDeaths
  /\ todo' = [todo EXCEPT ![j] = {}]
  /\ deaths' = deaths + 1
  /\ UNCHANGED <<connected, dated, offered>>

\* Twelve hours go by.
GrowsOld(p) ==
  /\ dated[p] = "recent"
  /\ dated' = [dated EXCEPT ![p] = "old"]
  /\ UNCHANGED <<connected, offered, todo, deaths>>

\* The first user of a pair connects, the last one leaves.
ConnectedChanges(p) ==
  /\ connected' \in {connected \cup {p}, connected \ {p}}
  /\ UNCHANGED <<dated, offered, todo, deaths>>

ProviderNext ==
  \/ \E j \in Jobs: JobLists(j) \/ JobDies(j) \/ \E p \in Pairs: Offers(j, p) \/ Refuses(j, p)
  \/ \E p \in Pairs: GrowsOld(p) \/ ConnectedChanges(p)

-----------------------------------------------------------------------------
\* A pair that the sweep passes over as verified has a list of the provider's, and a failure takes
\* none away, whatever jobs meet on its row (provider-tools.ts:72, user-tools.mdx:82).
DatedIsOffered == \A p \in Pairs: dated[p] # "never" => p \in offered

\* A pair among the first of the order is verified again and again while it is connected, however
\* many of the others fail.  (A later one may starve: those before it fill the batch.)
FirstAreVerified ==
  \A p \in Pairs \ Refusing:
    p <= PairBatch => (IsUnseen(p) /\ p \in connected ~> ~IsUnseen(p) \/ p \notin connected)
=============================================================================
