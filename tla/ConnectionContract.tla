------------------------- MODULE ConnectionContract -------------------------
(***************************************************************************)
(* What the connections of one service promise to whoever uses them or     *)
(* listens to their events, without sessions, states, callbacks, leases,   *)
(* sweeps, transactions or a clock: a compare-and-swap register per        *)
(* connection.  A new credential is offered to one connection on the       *)
(* strength of the credential it had; it is taken once, with its event, in *)
(* the place of that credential or of none, or withdrawn for good.  Only   *)
(* the tenant's policy takes credentials away without an event.  Nothing   *)
(* but its own removal is told of a connection that was never authorized,  *)
(* and nothing at all of one that was removed.                             *)
(***************************************************************************)
EXTENDS Naturals, Sequences

CONSTANTS
  Users,        \* external users of the organization
  MaxRows,      \* bound: connections ever made
  MaxCreds      \* bound: credentials ever drawn

VARIABLES
  row,          \* row[u]: the connection of user u, 0 when there is none
  rows,         \* connections made so far
  key,          \* key[u]: the credential in it, 0 when there is none
  keys,         \* credentials drawn so far
  offers,       \* credentials on their way into a connection
  tale          \* tale[r]: what was told of connection r, oldest first

contractVars == <<row, rows, key, keys, offers, tale>>

ContractInit ==
  /\ row = [u \in Users |-> 0]
  /\ rows = 0
  /\ key = [u \in Users |-> 0]
  /\ keys = 0
  /\ offers = {}
  /\ tale = [r \in 0..MaxRows |-> <<>>]

Tell(r, event) == tale' = [tale EXCEPT ![r] = Append(@, event)]

Authorized(u) == row[u] # 0 /\ tale[row[u]] # <<>>

\* A user who has no connection gets one that nothing was told of.
Make(u) ==
  /\ row[u] = 0
  /\ rows < MaxRows
  /\ tale[rows + 1] = <<>>
  /\ rows' = rows + 1
  /\ row' = [row EXCEPT ![u] = rows + 1]
  /\ UNCHANGED <<key, keys, offers, tale>>

\* A fresh credential is offered to a connection that is there, or was, in the place of base.
Propose(u, r, base) ==
  /\ keys < MaxCreds
  /\ keys' = keys + 1
  /\ offers' = offers \cup {[key |-> keys + 1, user |-> u, row |-> r, base |-> base]}
  /\ UNCHANGED <<row, rows, key, tale>>

\* The offer is dropped: refused, overtaken or lost with the process that made it.
Withdraw(o) ==
  /\ offers' = offers \ {o}
  /\ UNCHANGED <<row, rows, key, keys, tale>>

\* The connection still has the credential the offer was based on, or none.  A refresh is of a
\* connection that was authorized.
Take(o, event) ==
  /\ row[o.user] = o.row
  /\ key[o.user] \in {o.base, 0}
  /\ event = "refreshed" => Authorized(o.user)
  /\ key' = [key EXCEPT ![o.user] = o.key]
  /\ offers' = offers \ {o}
  /\ Tell(o.row, event)
  /\ UNCHANGED <<row, rows, keys>>

\* A failed refresh or a passed expiry: the credential stays.
Report(u, event) ==
  /\ Authorized(u)
  /\ Tell(row[u], event)
  /\ UNCHANGED <<row, rows, key, keys, offers>>

\* The policy changes: every user authorizes again.
Revoke ==
  /\ key' = [u \in Users |-> 0]
  /\ UNCHANGED <<row, rows, keys, offers, tale>>

Remove(u) ==
  /\ row[u] # 0
  /\ row' = [row EXCEPT ![u] = 0]
  /\ key' = [key EXCEPT ![u] = 0]
  /\ Tell(row[u], "disconnected")
  /\ UNCHANGED <<rows, keys, offers>>

ContractNext ==
  \/ \E u \in Users: Make(u) \/ Remove(u)
  \/ \E u \in Users, r \in 1..rows, base \in 0..keys: Propose(u, r, base)
  \/ \E o \in offers: Withdraw(o) \/ \E event \in {"connected", "refreshed"}: Take(o, event)
  \/ \E u \in Users, event \in {"error", "expired"}: Report(u, event)
  \/ Revoke

ContractSpec == ContractInit /\ [][ContractNext]_contractVars
=============================================================================
