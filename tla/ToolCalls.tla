------------------------------ MODULE ToolCalls ------------------------------
(***************************************************************************)
(* What happens when an agent calls a tool of one of its user's services:  *)
(* the toolset it listed before (capabilities of                           *)
(* apps/api/src/routes/control-plane.ts, packages/sdk/src/user-tools.ts),  *)
(* the credential lease each call asks for, and the two ways to the        *)
(* provider, its MCP server or the integration's own code                  *)
(* (packages/ai/src/adapter.ts, provider-mcp.ts).                          *)
(*                                                                         *)
(* One user and one service.  A tool is what it does, its stem, under a    *)
(* name.  Names that differ in case, punctuation or the service's prefix   *)
(* have the same stem, and so have names that a mapping connects.          *)
(***************************************************************************)
EXTENDS Naturals, FiniteSets, Sequences

CONSTANTS
  Stems,        \* what the provider can do
  Declared,     \* what the compiled contract declares of it
  ReadOnly,     \* what was reviewed as reading only
  Mapped,       \* what mapToolCall has a call for
  DirectToo,    \* allowDirectFallback
  Calls,
  MaxCreds      \* bound: credentials issued

ASSUME CallAssumption ==
  /\ ReadOnly \subseteq Declared /\ Declared \subseteq Stems
  /\ DirectToo \in BOOLEAN /\ MaxCreds \in Nat

VARIABLES
  policy,       \* toolAccessPolicy of the service
  repoliced,    \* it has been changed
  seat,         \* the credential a lease may be issued for; 0: the user is not connected
  kept,         \* secrets that exist
  issued,       \* credentials issued so far
  toolset,      \* what the agent has been given, and the policy by which
  call

callVars == <<policy, repoliced, seat, kept, issued, toolset, call>>

Policies == {"full", "read_only"}

\* The contract's name for what the provider does, with or without the service's prefix, and any
\* other.
Names == Stems \X {"ours", "other"}

Offered == (Declared \X {"contract"}) \cup Names

Creds == 1..MaxCreds

NoTools == [tools |-> {}, under |-> "read_only"]

\* (`since' is history: the credentials that were seated while the call was under way.)
Call == [pc: {"over", "invoked", "opening", "leased", "direct", "started"},
         tool: Offered \cup {<<>>}, under: Policies, cred: {0} \cup Creds, since: SUBSET Creds,
         name: Names \cup {<<>>}, ran: Seq(Stems)]

NoCall == [pc |-> "over", tool |-> <<>>, under |-> "read_only", cred |-> 0, since |-> {},
           name |-> <<>>, ran |-> <<>>]

CallInit ==
  /\ policy \in Policies /\ repoliced = FALSE
  /\ seat = 0 /\ kept = {} /\ issued = 0
  /\ toolset = NoTools
  /\ call = [c \in Calls |-> NoCall]

CallTypeOK ==
  /\ policy \in Policies /\ repoliced \in BOOLEAN
  /\ seat \in {0} \cup Creds /\ kept \subseteq Creds /\ issued \in {0} \cup Creds
  /\ toolset \in [tools: SUBSET Offered, under: Policies]
  /\ call \in [Calls -> Call]

-----------------------------------------------------------------------------
\* The user's connection, as others leave it (ConnectionLifecycle).
Seats(k) == [c \in Calls |-> IF call[c].pc = "over" THEN call[c]
                                                    ELSE [call[c] EXCEPT !.since = @ \cup {k}]]

\* A callback replaces the credential and deletes the old one; a refresh deletes it later.
Authorized ==
  /\ issued < MaxCreds
  /\ issued' = issued + 1
  /\ seat' = issued + 1
  /\ kept' \in {(kept \ {seat}) \cup {issued + 1}} \cup
               (IF seat = 0 THEN {} ELSE {kept \cup {issued + 1}})
  /\ call' = Seats(issued + 1)
  /\ UNCHANGED <<policy, repoliced, toolset>>

OldDeleted(k) ==
  /\ k \in kept /\ k # seat
  /\ kept' = kept \ {k}
  /\ UNCHANGED <<policy, repoliced, seat, issued, toolset, call>>

\* It is disconnected, with its secret, or expires, with or without it.
Unseated ==
  /\ seat # 0 /\ seat' = 0
  /\ kept' \in {kept, kept \ {seat}}
  /\ UNCHANGED <<policy, repoliced, issued, toolset, call>>

\* A change of the policy expires the connection and deletes its secret.
PolicyChanges ==
  /\ ~repoliced /\ repoliced' = TRUE
  /\ policy' \in Policies \ {policy}
  /\ seat' = 0 /\ kept' = kept \ {seat}
  /\ UNCHANGED <<issued, toolset, call>>

-----------------------------------------------------------------------------
\* mergeProviderTools: what the provider has under a name from which the contract's follows is
\* not offered again.  (A name that only normalizes to it is.)
Additions(found) == found \ (Declared \X {"ours"})

\* Mutant: a tool that the provider claims to read only is taken for one.
VisibleAsClaimed(found, p) ==
  ((IF p = "full" THEN Declared ELSE ReadOnly) \X {"contract"}) \cup Additions(found)

\* getTools: what nobody reviewed counts as a mutation.
Visible(found, p) ==
  IF p = "full" THEN (Declared \X {"contract"}) \cup Additions(found)
                ELSE ReadOnly \X {"contract"}

\* The agent lists the user's tools.  The policy comes from a list cached for five minutes, the
\* connection from one cached for thirty seconds, what the provider adds from the registry, which
\* loaded it some time ago (Catalogue).
ListTools(p, found) ==
  /\ p = policy \/ repoliced
  /\ issued # 0
  /\ toolset' = [tools |-> Visible(found, p), under |-> p]
  /\ UNCHANGED <<policy, repoliced, seat, kept, issued, call>>

\* execute of a toolset: nothing but what it was built with.
Invoke(c, t) ==
  /\ call[c].pc = "over" /\ t \in toolset.tools
  /\ call' = [call EXCEPT ![c] = [NoCall EXCEPT !.pc = "invoked", !.tool = t,
                                                !.under = toolset.under,
                                                !.since = {seat} \ {0}]]
  /\ UNCHANGED <<policy, repoliced, seat, kept, issued, toolset>>

Goes(c, pc) ==
  /\ call' = [call EXCEPT ![c].pc = pc]
  /\ UNCHANGED <<policy, repoliced, seat, kept, issued, toolset>>

\* Mutant: a lease takes any secret of the connection.
LeaseReadsAny(c) ==
  /\ call[c].pc = "invoked" /\ seat # 0
  /\ \E k \in kept: call' = [call EXCEPT ![c].pc = "opening", ![c].cred = k]
  /\ UNCHANGED <<policy, repoliced, seat, kept, issued, toolset>>

\* A lease: the row first,
LeaseReads(c) ==
  /\ call[c].pc = "invoked" /\ seat # 0
  /\ call' = [call EXCEPT ![c].pc = "opening", ![c].cred = seat]
  /\ UNCHANGED <<policy, repoliced, seat, kept, issued, toolset>>

\* then its secret, and an entry in the audit log.
LeaseOpens(c) ==
  /\ call[c].pc = "opening" /\ call[c].cred \in kept
  /\ Goes(c, "leased")

\* There is no connection, or the secret has been replaced, or the service cannot be reached.
LeaseFails(c) ==
  /\ call[c].pc \in {"invoked", "opening"}
  /\ Goes(c, "over")

-----------------------------------------------------------------------------
\* resolveProviderToolName, or the name a mapping asks for: one tool of those the provider lists,
\* or none.
Resolved(t, found) ==
  LET like == {n \in found: n[1] = t[1]}
  IN IF t[2] = "contract" /\ t[1] \in Mapped THEN like \cap {<<t[1], "other">>}
     ELSE IF Cardinality(like) = 1 THEN like ELSE {}

\* executePreferredProviderMcp has connected, listed and found the tool (and the cloud, for Jira).
Starts(c) ==
  /\ call[c].pc = "leased"
  /\ \E found \in SUBSET Names: \E n \in Resolved(call[c].tool, found):
       call' = [call EXCEPT ![c].pc = "started", ![c].name = n]
  /\ UNCHANGED <<policy, repoliced, seat, kept, issued, toolset>>

\* It is not asked: no server, an API key, a scope or a cloud that is missing.
GoesDirect(c) ==
  /\ call[c].pc = "leased"
  /\ Goes(c, "direct")

\* It does not answer, has no such tool or two, or the mapping does not cover the arguments.
CannotStart(c) ==
  /\ call[c].pc = "leased"
  /\ Goes(c, IF DirectToo THEN "direct" ELSE "over")

Ends(c, ran, pc) ==
  /\ call' = [call EXCEPT ![c].pc = pc, ![c].ran = @ \o ran, ![c].name = <<>>]
  /\ UNCHANGED <<policy, repoliced, seat, kept, issued, toolset>>

\* Mutant: whatever fails falls back.
RunsOrFallsBack(c) ==
  /\ call[c].pc = "started"
  /\ \E ran \in {<<>>, <<call[c].name[1]>>}, pc \in {"over", "direct"}: Ends(c, ran, pc)

\* callTool, with an answer, an error or none: after it nothing else is tried.
Runs(c) ==
  /\ call[c].pc = "started"
  /\ \E ran \in {<<>>, <<call[c].name[1]>>}: Ends(c, ran, "over")

\* The integration's own code knows the contract's names only.
RunsDirect(c) ==
  /\ call[c].pc = "direct"
  /\ \E ran \in {<<>>} \cup (IF call[c].tool[2] = "contract" THEN {<<call[c].tool[1]>>} ELSE {}):
       Ends(c, ran, "over")

CallNext ==
  \/ Authorized \/ Unseated \/ PolicyChanges
  \/ \E k \in Creds: OldDeleted(k)
  \/ \E p \in Policies, found \in SUBSET Names: ListTools(p, found)
  \/ \E c \in Calls:
       \/ \E t \in toolset.tools: Invoke(c, t)
       \/ LeaseReads(c) \/ LeaseOpens(c) \/ LeaseFails(c)
       \/ Starts(c) \/ GoesDirect(c) \/ CannotStart(c) \/ Runs(c) \/ RunsDirect(c)

-----------------------------------------------------------------------------
\* A call does at the provider what was asked at most once, though the two ways to it fail at any
\* point: the second is tried only before the first has begun (provider-mcp.ts:872, and the test
\* "never retries a possibly-started MCP mutation through the direct API").
RunsOnce == \A c \in Calls: Len(call[c].ran) <= 1

\* What a call runs with was the user's credential at some time since it was invoked: not one that
\* a refresh, another authorization or a disconnect had taken away before (user-tools.mdx:39).
LeaseIsFresh == \A c \in Calls: call[c].cred # 0 => call[c].cred \in call[c].since

\* By a toolset listed under read_only nothing is done that was not reviewed as reading, whatever
\* the provider lists or claims, then or when the tool is called (provider-tool-merge.ts:12-15).
ReadOnlyRunsReviewed ==
  \A c \in Calls: call[c].under = "read_only" =>
    \A i \in DOMAIN call[c].ran: call[c].ran[i] \in ReadOnly

\* The strengthening: what a call under way is for, what it may run, and that it has run nothing.
CallsOK ==
  /\ toolset.under = "read_only" => toolset.tools \subseteq ReadOnly \X {"contract"}
  /\ \A c \in Calls: call[c].pc # "over" =>
       /\ call[c].ran = <<>>
       /\ call[c].tool \in Offered
       /\ call[c].under = "read_only" => call[c].tool \in ReadOnly \X {"contract"}
       /\ seat # 0 => seat \in call[c].since
       /\ call[c].pc = "started" => call[c].name \in Names /\ call[c].name[1] = call[c].tool[1]
=============================================================================
