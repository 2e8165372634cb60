--------------------------- MODULE DiscoverySweep ---------------------------
(***************************************************************************)
(* Which MCP servers the hourly sweep rediscovers: the enabled ones whose  *)
(* contract is older than a day, oldest first, a batch at a time, one      *)
(* after the other (apps/api/src/jobs/mcp-discovery.ts over                *)
(* listMcpServersDueForDiscovery, saveDiscoverySuccess and                 *)
(* saveDiscoveryFailure of packages/database/src/mcp-servers.ts).          *)
(*                                                                         *)
(* Time is the order of discovered_at: a discovery moves a server to the   *)
(* young end, and what a day makes stale is a prefix of the order.         *)
(***************************************************************************)
EXTENDS Naturals, FiniteSets, Sequences, SequencesExt

CONSTANTS
  Servers,      \* the enabled MCP servers
  Dead,         \* those whose host never answers again
  BatchSize,    \* servers listed by one sweep
  MaxCrashes    \* bound: sweeps that die half-way

ASSUME SweepAssumption ==
  Dead \subseteq Servers /\ BatchSize \in Nat \ {0} /\ MaxCrashes \in Nat

VARIABLES
  order,        \* the servers by discovered_at, oldest first
  stale,        \* how many of them, from the oldest, are due
  batch,        \* what the sweep at work has listed and not yet handled
  crashes

sweepVars == <<order, stale, batch, crashes>>

SweepInit ==
  /\ order \in SetToSeqs(Servers)
  /\ stale \in 0..Len(order)
  /\ batch = <<>>
  /\ crashes = 0

SweepTypeOK ==
  /\ order \in SetToSeqs(Servers)
  /\ stale \in 0..Len(order)
  /\ batch \in BoundedSeq(Servers, BatchSize)
  /\ crashes \in 0..MaxCrashes

IsStale(s) == \E i \in 1..stale: order[i] = s

\* A day goes by.
GrowsStale ==
  /\ stale < Len(order)
  /\ stale' = stale + 1
  /\ UNCHANGED <<order, batch, crashes>>

\* listMcpServersDueForDiscovery.
SweepLists ==
  /\ batch = <<>> /\ stale > 0
  /\ batch' = SubSeq(order, 1, IF stale < BatchSize THEN stale ELSE BatchSize)
  /\ UNCHANGED <<order, stale, crashes>>

\* discovered_at = now.
Discovered(s) ==
  /\ order' = Append(Remove(order, s), s)
  /\ stale' = IF IsStale(s) THEN stale - 1 ELSE stale

\* The next server answers,
SweepVerifies(s) ==
  /\ batch # <<>> /\ s = Head(batch) /\ s \notin Dead
  /\ Discovered(s)
  /\ batch' = Tail(batch)
  /\ UNCHANGED crashes

\* Mutant: a failure ends the sweep.
SweepGivesUp(s) ==
  /\ batch # <<>> /\ s = Head(batch)
  /\ batch' = <<>>
  /\ UNCHANGED <<order, stale, crashes>>

\* or it does not, and keeps the discovered_at it has.
SweepFails(s) ==
  /\ batch # <<>> /\ s = Head(batch)
  /\ batch' = Tail(batch)
  /\ UNCHANGED <<order, stale, crashes>>

\* The process dies, or a statement of the loop throws: the rest of the batch is not asked.
SweepDies ==
  /\ crashes < MaxCrashes
  /\ batch' = <<>>
  /\ crashes' = crashes + 1
  /\ UNCHANGED <<order, stale>>

\* Somebody presses Rediscover.
Rediscovered(s) ==
  /\ s \notin Dead
  /\ Discovered(s)
  /\ UNCHANGED <<batch, crashes>>

-----------------------------------------------------------------------------
\* While fewer servers are dead than one sweep lists, every server that answers is rediscovered
\* again and again: the dead ones are always the oldest, but they never fill a batch
\* (mcp-servers.ts:215, mcp-discovery.ts:33).
LiveIsVerified ==
  \A s \in Servers \ Dead: Cardinality(Dead) < BatchSize => (IsStale(s) ~> ~IsStale(s))
=============================================================================
